---------------------------- MODULE DependencyDag ----------------------------
(* What the runbook promises about task dependencies, independent of how a   *)
(* request is carried out: the edges of a cutover plan's runbook change only *)
(* by one edge that closes no cycle, or by edges that disappear.  The        *)
(* detailed modules DependencyWalk and Runbook implement this one.           *)
EXTENDS Naturals

CONSTANT Tasks          \* the RunbookTask ids of one cutover plan

VARIABLE deps           \* <<predecessor, successor>> rows of TaskDependency

Edges == Tasks \X Tasks

\* The tasks a dependency row makes t wait for.
Predecessors(E, t) == {p \in Tasks : <<p, t>> \in E}

\* Mutant: only the rows whose successor is deleted.
DependenciesOnlyInto(E, T) == {e \in E : e[2] \in T}

\* The dependency rows that go when the tasks T go: those on either side.
DependenciesOf(E, T) == {e \in E : e[1] \in T \/ e[2] \in T}

\* C holds every predecessor of every one of its members: a set that a
\* backwards walk over E cannot leave.
PredecessorClosed(E, C) == \A t \in C : Predecessors(E, t) \subseteq C

\* A backwards walk from p never meets s: s is outside some closed set around p.
SafeToAdd(E, p, s) ==
    \E C \in SUBSET Tasks : p \in C /\ s \notin C /\ PredecessorClosed(E, C)

\* Every nonempty set of tasks has one that waits for no other of the set, so
\* the tasks can be worked off in some order.
Acyclic(E) ==
    \A S \in SUBSET Tasks : S # {} => \E t \in S : Predecessors(E, t) \cap S = {}

------------------------------------------------------------------------------
Init == deps = {}

Add(p, s) ==
    /\ SafeToAdd(deps, p, s)
    /\ deps' = deps \cup {<<p, s>>}

Drop(E) ==
    /\ E # {}
    /\ deps' = deps \ E

Next ==
    \/ \E p, s \in Tasks : Add(p, s)
    \/ \E E \in SUBSET deps : Drop(E)

Spec == Init /\ [][Next]_deps

TypeOK == deps \subseteq Edges

\* The dependencies of a runbook are a DAG, the property validate_no_cycle is
\* there for and calculate_critical_path needs to order the tasks.
DepsAcyclic == Acyclic(deps)

\* A runbook whose dependencies are added by one request at a time, while other
\* users delete dependencies and tasks at any moment, behaves as this module
\* says, whether the cycle check of add_dependency is taken query by query or
\* as one step.
ImplementsDag == Spec
==============================================================================
