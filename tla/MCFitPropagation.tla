--------------------------- MODULE MCFitPropagation ---------------------------
(* Two ways through the fit decisions, so that their state spaces add up: one *)
(* workshop with decisions and edits beside it, or several workshops alone.   *)
EXTENDS FitPropagation, TLC

VARIABLE part

\* Both processes belong to one scope item, the other one has none.
MCParent == [x \in L4s |-> CHOOSE y \in L3s : TRUE]

\* One of the processes is pending where they are edited.
MCInit ==
    /\ part \in {"levels", "sessions"}
    /\ FitInit
    /\ Cardinality({x \in L4s : tree.l4[x].fit = Pending}) = IF part = "levels" THEN 1 ELSE 0

\* Decisions and edits beside one workshop, whose requests do not overlap each
\* other.
Levels ==
    /\ Cardinality({w \in Workshops : workshop'[w].status # "none"}) <= 1
    /\ Cardinality({t \in FitThreads : fitJob'[t] # FitFree}) <= 1

\* Several workshops, nothing beside them.
Sessions == byHand' = 0

MCNext ==
    /\ FitNext
    /\ IF part = "levels" THEN Levels ELSE Sessions
    /\ UNCHANGED part

MCSpec == MCInit /\ [][MCNext]_<<part, fitVars>>

Symmetry == Permutations(L4s) \cup Permutations(Workshops) \cup Permutations(FitThreads)
==============================================================================
