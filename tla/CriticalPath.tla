----------------------------- MODULE CriticalPath -----------------------------
(* cutover_service.calculate_critical_path: the depth-first cycle check, the   *)
(* topological sort, the longest-path relaxation and the walk back, on the     *)
(* tasks and dependencies the request loaded.  Where the code iterates over a  *)
(* set, or over rows in no given order, the next element is any of them.       *)
EXTENDS DependencyDag, SequencesExt

CONSTANTS
    Durations,  \* planned durations in minutes
    None        \* no duration was planned

\* A plan without tasks returns before any of this.
ASSUME CriticalPathAssumption ==
    /\ Tasks # {}
    /\ Durations \subseteq Nat
    /\ None \notin Nat

VARIABLES
    duration,   \* planned_duration_min of each task
    stage,      \* which loop of the function is running
    seen,       \* cycle check: the visited set
    calls,      \* cycle check: the active calls of _dfs_cycle_check, innermost
                \* last, each with the neighbours it has still to look at
    inDegree,   \* sort: predecessors not yet sorted
    queue,      \* sort: the tasks without any
    topo,       \* sort: the order so far
    relaxed,    \* relaxation: how many tasks of topo are done
    dist,       \* relaxation: weight of the best chain that ends in a task
    prev,       \* relaxation: the task before it in that chain, {} for none
    path        \* walk back: the critical path from some task on

check == <<seen, calls>>
sort == <<inDegree, queue, topo>>
relax == <<relaxed, dist, prev>>
criticalVars == <<deps, duration, stage, check, sort, relax, path>>

\* "planned_duration_min or 1": a duration of zero is as good as none.
Weight(t) == IF duration[t] \in {None, 0} THEN 1 ELSE duration[t]
Successors(t) == {s \in Tasks : <<t, s>> \in deps}

CriticalInit ==
    /\ deps \in SUBSET {e \in Edges : e[1] # e[2]}
    /\ duration \in [Tasks -> Durations \cup {None}]
    /\ stage = "check"
    /\ seen = {} /\ calls = <<>>
    /\ inDegree = [t \in Tasks |-> Predecessors(deps, t)]
    /\ queue = {t \in Tasks : Predecessors(deps, t) = {}}
    /\ topo = <<>>
    /\ relaxed = 0
    /\ dist = [t \in Tasks |-> Weight(t)]
    /\ prev = [t \in Tasks |-> {}]
    /\ path = <<>>

------------------------------------------------------------------------------
(* _dfs_cycle_check                                                           *)

Visit(t, callers) ==
    /\ seen' = seen \cup {t}
    /\ calls' = Append(callers, [node |-> t, todo |-> Successors(t)])

\* The loop over all tasks starts a visit where none went yet.
StartVisit(t) ==
    /\ stage = "check" /\ calls = <<>>
    /\ t \notin seen
    /\ Visit(t, calls)
    /\ UNCHANGED <<deps, duration, stage, sort, relax, path>>

\* Mutant: a task met again closes a cycle.
VisitedBefore == seen

InStack == {calls[i].node : i \in DOMAIN calls}

\* Mutant: a neighbour that was visited already is not passed on.
NeighbourKept(s) ==
    /\ stage = "check" /\ calls # <<>>
    /\ s \in calls[Len(calls)].todo
    /\ LET rest == [calls EXCEPT ![Len(calls)].todo = @ \ {s}] IN
       \/ s \notin seen /\ Visit(s, rest) /\ stage' = stage
       \/ s \in InStack /\ stage' = "failed" /\ UNCHANGED check
    /\ UNCHANGED <<deps, duration, sort, relax, path>>

\* The innermost call takes its next neighbour: it visits it, meets an active
\* one and gives up, or passes on.
Neighbour(s) ==
    /\ stage = "check" /\ calls # <<>>
    /\ s \in calls[Len(calls)].todo
    /\ LET rest == [calls EXCEPT ![Len(calls)].todo = @ \ {s}] IN
       \/ s \notin seen /\ Visit(s, rest) /\ stage' = stage
       \/ s \in InStack /\ stage' = "failed" /\ UNCHANGED check
       \/ s \in seen \ InStack /\ calls' = rest /\ UNCHANGED <<seen, stage>>
    /\ UNCHANGED <<deps, duration, sort, relax, path>>

Return ==
    /\ stage = "check" /\ calls # <<>>
    /\ calls[Len(calls)].todo = {}
    /\ calls' = Front(calls)
    /\ UNCHANGED <<deps, duration, stage, seen, sort, relax, path>>

CheckPassed ==
    /\ stage = "check" /\ calls = <<>> /\ seen = Tasks
    /\ stage' = "sort"
    /\ UNCHANGED <<deps, duration, check, sort, relax, path>>

------------------------------------------------------------------------------
(* Kahn's sort                                                                *)

\* Mutant: a task is queued with the first of its predecessors.
FirstReady(t) == Successors(t)

\* The tasks that t was the last unsorted predecessor of.
NewlyReady(t) == {s \in Successors(t) : inDegree[s] = {t}}

Sort(t) ==
    /\ stage = "sort"
    /\ t \in queue
    /\ topo' = Append(topo, t)
    /\ inDegree' = [u \in Tasks |-> inDegree[u] \ {t}]
    /\ queue' = (queue \ {t}) \cup NewlyReady(t)
    /\ UNCHANGED <<deps, duration, stage, check, relax, path>>

SortDone ==
    /\ stage = "sort" /\ queue = {}
    /\ stage' = "relax"
    /\ UNCHANGED <<deps, duration, check, sort, relax, path>>

------------------------------------------------------------------------------
(* Longest path                                                               *)

\* Mutant: the last offer wins.
AllSuccessors(t) == Successors(t)

\* The successors t offers a longer chain than they have.
Better(t) == {s \in Successors(t) : dist[t] + Weight(s) > dist[s]}

\* The next task of the order offers each successor a longer chain.
Relax ==
    /\ stage = "relax" /\ relaxed < Len(topo)
    /\ relaxed' = relaxed + 1
    /\ LET t == topo[relaxed + 1]
       IN /\ dist' = [s \in Tasks |-> IF s \in Better(t) THEN dist[t] + Weight(s) ELSE dist[s]]
          /\ prev' = [s \in Tasks |-> IF s \in Better(t) THEN {t} ELSE prev[s]]
    /\ UNCHANGED <<deps, duration, stage, check, sort, path>>

Sinks ==
    LET free == {t \in Tasks : Successors(t) = {}}
    IN IF free = {} THEN Tasks ELSE free

ChooseEnd(t) ==
    /\ stage = "relax" /\ relaxed = Len(topo)
    /\ t \in Sinks /\ \A u \in Sinks : dist[u] <= dist[t]
    /\ stage' = "walk"
    /\ path' = <<t>>
    /\ UNCHANGED <<deps, duration, check, sort, relax>>

WalkBack ==
    /\ stage = "walk"
    /\ \/ \E t \in prev[path[1]] : path' = <<t>> \o path /\ stage' = stage
       \/ prev[path[1]] = {} /\ stage' = "done" /\ path' = path
    /\ UNCHANGED <<deps, duration, check, sort, relax>>

CriticalNext ==
    \/ \E t \in Tasks : StartVisit(t) \/ Neighbour(t)
    \/ Return
    \/ CheckPassed
    \/ \E t \in Tasks : Sort(t)
    \/ SortDone
    \/ Relax
    \/ \E t \in Tasks : ChooseEnd(t)
    \/ WalkBack

CriticalSpec == CriticalInit /\ [][CriticalNext]_criticalVars
FairCriticalSpec == CriticalSpec /\ WF_criticalVars(CriticalNext)

------------------------------------------------------------------------------
\* The cycle check raises its error on a graph with a cycle and on no other:
\* the sort is only reached, and a result only stored, for a graph without.
CycleVerdict ==
    /\ stage = "failed" => ~ Acyclic(deps)
    /\ stage \notin {"check", "failed"} => Acyclic(deps)

\* The sort leaves no task out, lists none twice and lists it after all its
\* predecessors; the relaxation relies on each of the three.
TopoIsOrder ==
    stage \in {"relax", "walk", "done"} =>
        /\ ToSet(topo) = Tasks /\ IsInjective(topo)
        /\ \A i, j \in DOMAIN topo : <<topo[i], topo[j]>> \in deps => i < j

\* The chains of dependent tasks, and what a chain weighs.
Chains ==
    {c \in BoundedSeq(Tasks, Cardinality(Tasks)) :
        c # <<>> /\ \A i \in 1 .. Len(c) - 1 : <<c[i], c[i + 1]>> \in deps}

Total(weight(_), c) == FoldSeq(LAMBDA t, sum : weight(t) + sum, 0, c)

Longest(weight(_), c) == \A d \in Chains : Total(weight, d) <= Total(weight, c)

\* The result is a chain of dependent tasks, from one nothing precedes to one
\* nothing follows, and no chain weighs more.
PathIsLongest ==
    stage = "done" =>
        /\ path \in Chains
        /\ Predecessors(deps, path[1]) = {} /\ Successors(path[Len(path)]) = {}
        /\ Longest(Weight, path)

\* On every stored graph, with a cycle or without, the function comes to its end.
Terminates == <>(stage \in {"failed", "done"})
==============================================================================
