------------------------------ MODULE MCRunbook ------------------------------
(* One run over the two ways the dependencies of a runbook are looked at: the *)
(* execution of its tasks, where a request that adds one is a check and a     *)
(* commit, and the check itself, query by query.  One thread serves requests, *)
(* so no two of them overlap.  A behaviour is one of the part chosen first.   *)
EXTENDS Runbook, DependencyWalk, FiniteSets, TLC

VARIABLE part

D == INSTANCE Relation

\* Acyclic by minimal elements is the usual definition: no task reaches itself.
\* The Relation module takes the edges as a Boolean matrix.
ASSUME AcyclicIsNoSelfReach ==
    \A E \in SUBSET Edges :
        Acyclic(E) <=>
            \A t \in Tasks : ~ D!TransitiveClosure([e \in Edges |-> e \in E], Tasks)[t, t]

\* No request is walking and none has been made.
NoWalk ==
    /\ row = [t \in Tasks |-> "unused"]
    /\ phase = [w \in Adders |-> "idle"] /\ edge = [w \in Adders |-> << >>]
    /\ visited = [w \in Adders |-> {}] /\ stack = [w \in Adders |-> {}]
    /\ answer = [w \in Adders |-> "none"] /\ base = [w \in Adders |-> {}]

MCInit ==
    /\ RunbookInit
    /\ \/ part = "execution" /\ NoWalk
       \/ part = "walk" /\ WalkInit

\* Bound: at most one task of a runbook that is executed is deleted.
Execution ==
    /\ RunbookNext
    /\ Cardinality({t \in Tasks : status'[t] = "deleted"}) <= 1
    /\ UNCHANGED <<row, request>>

MCNext ==
    /\ UNCHANGED part
    /\ \/ part = "execution" /\ Execution
       \/ part = "walk" /\ WalkNext /\ UNCHANGED <<task, clock, write>>

MCSpec == MCInit /\ [][MCNext]_<<part, vars, row, request>>

Symmetry == Permutations(Tasks)
==============================================================================
