---------------------------- MODULE DependencyWalk ----------------------------
(* cutover_service.add_dependency and validate_no_cycle, one database query   *)
(* at a time.  Each Adder is one request thread of the web server.  The       *)
(* cycle check is a depth-first walk that issues one query per visited task,  *)
(* and the row is inserted in a later commit, so that other requests may      *)
(* change the tables between any two of its steps.                            *)
EXTENDS DependencyDag

CONSTANT Adders        \* request threads that may add dependencies

VARIABLES
    row,        \* whether each RunbookTask id is unused, a row, or deleted
    phase,      \* where each worker's request is
    edge,       \* the <<predecessor, successor>> it asks for
    visited,    \* the walk's visited set
    stack,      \* the walk's stack, as the set of its elements
    answer,     \* what the worker's last request returned
    base        \* history: the dependencies when the walk began

request == <<phase, edge, visited, stack, answer, base>>
walkVars == <<deps, row, request>>

\* The tasks that exist.  An id is never given out twice.
liveTasks == {t \in Tasks : row[t] = "live"}

Phases  == {"idle", "walk", "insert"}
Answers == {"none", "added", "cycle", "duplicate", "error"}

WalkInit ==
    /\ Init
    /\ row = [t \in Tasks |-> "unused"]
    /\ phase = [w \in Adders |-> "idle"]
    /\ edge \in [Adders -> Edges]
    /\ visited = [w \in Adders |-> {}]
    /\ stack = [w \in Adders |-> {}]
    /\ answer = [w \in Adders |-> "none"]
    /\ base = [w \in Adders |-> {}]

Reply(w, a) ==
    /\ phase' = [phase EXCEPT ![w] = "idle"]
    /\ visited' = [visited EXCEPT ![w] = {}]
    /\ stack' = [stack EXCEPT ![w] = {}]
    /\ answer' = [answer EXCEPT ![w] = a]

\* Both tasks are looked up inside the plan, then the check begins; a task is
\* never its own predecessor.
Ask(w, p, s) ==
    /\ phase[w] = "idle"
    /\ p \in liveTasks /\ s \in liveTasks
    /\ edge' = [edge EXCEPT ![w] = <<p, s>>]
    /\ base' = [base EXCEPT ![w] = deps]
    /\ \/ p = s /\ Reply(w, "cycle")
       \/ /\ p # s
          /\ phase' = [phase EXCEPT ![w] = "walk"]
          /\ visited' = [visited EXCEPT ![w] = {}]
          /\ stack' = [stack EXCEPT ![w] = {p}]
          /\ answer' = [answer EXCEPT ![w] = "none"]
    /\ UNCHANGED <<deps, row>>

\* Mutants: the query returns nothing, or the wrong side of the rows.
QueryNothing(current) == {}
QuerySuccessors(current) == {s \in Tasks : <<current, s>> \in deps}

\* The predecessors the query of one turn returns.
QueryPredecessors(current) == Predecessors(deps, current)

\* Mutant: the top of the stack is looked at, not popped.
Peeked(w, current) == stack[w]

Popped(w, current) == stack[w] \ {current}

\* One turn of the loop: pop a task, and unless it is the successor or was
\* seen before, push the predecessors the query returns now.
Pop(w, current) ==
    /\ phase[w] = "walk"
    /\ current \in stack[w]
    /\ \/ current = edge[w][2] /\ Reply(w, "cycle")
       \/ /\ current # edge[w][2]
          /\ current \in visited[w]
          /\ stack' = [stack EXCEPT ![w] = Popped(w, current)]
          /\ UNCHANGED <<phase, visited, answer>>
       \/ /\ current # edge[w][2]
          /\ current \notin visited[w]
          /\ visited' = [visited EXCEPT ![w] = @ \cup {current}]
          /\ stack' = [stack EXCEPT ![w] = Popped(w, current) \cup QueryPredecessors(current)]
          /\ UNCHANGED <<phase, answer>>
    /\ UNCHANGED <<deps, row, edge, base>>

\* The stack is empty, the edge is safe: refuse a duplicate, else go on to insert.
CheckUnique(w) ==
    /\ phase[w] = "walk"
    /\ stack[w] = {}
    /\ \/ edge[w] \in deps /\ Reply(w, "duplicate")
       \/ /\ edge[w] \notin deps
          /\ phase' = [phase EXCEPT ![w] = "insert"]
          /\ UNCHANGED <<visited, stack, answer>>
    /\ UNCHANGED <<deps, row, edge, base>>

\* The commit: the foreign keys and the unique constraint may still refuse it.
Commit(w) ==
    /\ phase[w] = "insert"
    /\ \/ /\ edge[w] \in liveTasks \X liveTasks /\ edge[w] \notin deps
          /\ deps' = deps \cup {edge[w]}
          /\ Reply(w, "added")
       \/ /\ ~ (edge[w] \in liveTasks \X liveTasks /\ edge[w] \notin deps)
          /\ deps' = deps
          /\ Reply(w, "error")
    /\ UNCHANGED <<row, edge, base>>

\* Requests of other users, each one transaction.
RemoveDependency(e) ==
    /\ e \in deps
    /\ deps' = deps \ {e}
    /\ UNCHANGED <<row, request>>

\* A task is deleted, or a scope item with all its tasks, and the dependency
\* rows on both their sides go with them.
RemoveTasks(T) ==
    /\ T # {} /\ T \subseteq liveTasks
    /\ row' = [t \in Tasks |-> IF t \in T THEN "deleted" ELSE row[t]]
    /\ deps' = deps \ DependenciesOf(deps, T)
    /\ UNCHANGED request

InsertTask(t) ==
    /\ row[t] = "unused"
    /\ row' = [row EXCEPT ![t] = "live"]
    /\ UNCHANGED <<deps, request>>

Step(w) == (\E t \in Tasks : Pop(w, t)) \/ CheckUnique(w) \/ Commit(w)

WalkNext ==
    \/ \E w \in Adders, p, s \in Tasks : Ask(w, p, s)
    \/ \E w \in Adders : Step(w)
    \/ \E e \in Edges : RemoveDependency(e)
    \/ \E T \in SUBSET Tasks : RemoveTasks(T)
    \/ \E t \in Tasks : InsertTask(t)

WalkSpec == WalkInit /\ [][WalkNext]_walkVars

\* A thread that serves a request keeps running until it has answered.
FairSpec == WalkSpec /\ \A w \in Adders : WF_walkVars(Step(w))

------------------------------------------------------------------------------
WalkTypeOK ==
    /\ deps \subseteq Edges
    /\ row \in [Tasks -> {"unused", "live", "deleted"}]
    /\ phase \in [Adders -> Phases]
    /\ edge \in [Adders -> Edges]
    /\ visited \in [Adders -> SUBSET Tasks]
    /\ stack \in [Adders -> SUBSET Tasks]
    /\ answer \in [Adders -> Answers]
    /\ base \in [Adders -> SUBSET Edges]

\* No dependency row names a task that is gone, whatever the requests that
\* deleted it overlapped with (the foreign keys and the ORM cascades).
DepsHaveTasks == deps \subseteq liveTasks \X liveTasks

\* A user is told "would create a cycle" only when the edge would have closed
\* one among the dependencies there were when the request began.
RefusalJustified ==
    \A w \in Adders :
        answer[w] = "cycle" => ~ SafeToAdd(base[w], edge[w][1], edge[w][2])

\* Every request for a dependency is answered: the walk ends.
RequestsAnswered == \A w \in Adders : phase[w] # "idle" ~> phase[w] = "idle"

\* The part of the walk still to come: whatever was visited had all its present
\* predecessors pushed, the successor was not met, and the predecessor the
\* user named was, or is, on the stack.
WalkInv ==
    \A w \in Adders : phase[w] # "idle" =>
        /\ edge[w][1] \in visited[w] \cup stack[w]
        /\ edge[w][2] \notin visited[w]
        /\ \A t \in visited[w] : Predecessors(deps, t) \subseteq visited[w] \cup stack[w]
        /\ phase[w] = "insert" => stack[w] = {}

\* The walk looks only at tasks that can be reached among the dependencies it
\* began with.
WalkReached ==
    \A w \in Adders : phase[w] # "idle" =>
        /\ deps \subseteq base[w]
        /\ \A C \in SUBSET Tasks :
              edge[w][1] \in C /\ PredecessorClosed(base[w], C)
                  => visited[w] \cup stack[w] \subseteq C
==============================================================================
