--------------------------- MODULE MCDependencyWalk ---------------------------
(* Two tasks and two requests at once, for DependencyWalk.                    *)
EXTENDS DependencyWalk
==============================================================================
