----------------------------- MODULE CutoverProofs -----------------------------
(* Cutover planning.  add_dependency keeps the runbook a DAG when one request *)
(* at a time adds dependencies, however its queries interleave with           *)
(* deletions, and keeps the rows referentially sound for any number of        *)
(* requests; the critical path is worked out on a DAG only, in an order that  *)
(* respects it; and a plan's gates and times hold for any number of           *)
(* rehearsals and any length of time.                                         *)
EXTENDS MCCutover, DependencyDagProofs

------------------------------------------------------------------------------
(* The walk of validate_no_cycle                                              *)

\* The variables always hold values of their types, for any number of workers.
THEOREM WalkType == WalkSpec => []WalkTypeOK
<1>1. WalkInit => WalkTypeOK
  BY DEF WalkInit, Init, WalkTypeOK, Edges, Phases, Answers
<1>2. WalkTypeOK /\ [WalkNext]_walkVars => WalkTypeOK'
  <2> SUFFICES ASSUME WalkTypeOK, [WalkNext]_walkVars
               PROVE  WalkTypeOK'
    OBVIOUS
  <2> USE DEF WalkTypeOK, Phases, Answers
  <2>1. CASE UNCHANGED walkVars
    BY <2>1 DEF walkVars, request
  <2>2. ASSUME NEW w \in Adders, NEW p \in Tasks, NEW s \in Tasks, Ask(w, p, s)
        PROVE  WalkTypeOK'
    <3>1. edge' = [edge EXCEPT ![w] = <<p, s>>] /\ <<p, s>> \in Edges
      BY <2>2 DEF Ask, Edges
    <3>2. UNCHANGED <<deps, row>> /\ base' = [base EXCEPT ![w] = deps]
      BY <2>2 DEF Ask
    <3>3. /\ phase' \in [Adders -> Phases]
          /\ visited' \in [Adders -> SUBSET Tasks]
          /\ stack' \in [Adders -> SUBSET Tasks]
          /\ answer' \in [Adders -> Answers]
      BY <2>2 DEF Ask, Reply
    <3>4. QED  BY <3>1, <3>2, <3>3
  <2>3. ASSUME NEW w \in Adders, NEW t \in Tasks, Pop(w, t)
        PROVE  WalkTypeOK'
    <3>1. Predecessors(deps, t) \subseteq Tasks
      BY DEF Predecessors
    <3>2. QED  BY <2>3, <3>1 DEF Pop, Reply, Popped, QueryPredecessors
  <2>4. ASSUME NEW w \in Adders, CheckUnique(w)
        PROVE  WalkTypeOK'
    BY <2>4 DEF CheckUnique, Reply
  <2>5. ASSUME NEW w \in Adders, Commit(w)
        PROVE  WalkTypeOK'
    BY <2>5 DEF Commit, Reply
  <2>6. ASSUME NEW e \in Edges, RemoveDependency(e)
        PROVE  WalkTypeOK'
    BY <2>6 DEF RemoveDependency, request
  <2>7. ASSUME NEW t \in Tasks, InsertTask(t)
        PROVE  WalkTypeOK'
    BY <2>7 DEF InsertTask, request
  <2>8. ASSUME NEW T \in SUBSET Tasks, RemoveTasks(T)
        PROVE  WalkTypeOK'
    BY <2>8 DEF RemoveTasks, DependenciesOf, request
  <2>9. QED
    BY <2>1, <2>2, <2>3, <2>4, <2>5, <2>6, <2>7, <2>8 DEF WalkNext, Step
<1>3. QED  BY <1>1, <1>2, PTL DEF WalkSpec

\* No TaskDependency row outlives a task it names, for any number of workers:
\* the insert checks both tasks and a deletion takes the rows with it.
THEOREM RowsHaveTasks == WalkSpec => []DepsHaveTasks
<1>1. WalkInit => DepsHaveTasks
  BY DEF WalkInit, Init, DepsHaveTasks
<1>2. WalkTypeOK /\ DepsHaveTasks /\ [WalkNext]_walkVars => DepsHaveTasks'
  <2> SUFFICES ASSUME WalkTypeOK, DepsHaveTasks, [WalkNext]_walkVars
               PROVE  DepsHaveTasks'
    OBVIOUS
  <2> USE DEF DepsHaveTasks, liveTasks
  <2>1. CASE UNCHANGED <<deps, row>>
    BY <2>1
  <2>2. ASSUME NEW w \in Adders, Commit(w)
        PROVE  DepsHaveTasks'
    BY <2>2 DEF Commit
  <2>3. ASSUME NEW e \in Edges, RemoveDependency(e)
        PROVE  DepsHaveTasks'
    BY <2>3 DEF RemoveDependency
  <2>4. ASSUME NEW T \in SUBSET Tasks, RemoveTasks(T)
        PROVE  DepsHaveTasks'
    <3>1. \A u \in Tasks : u \notin T => row'[u] = row[u]
      BY <2>4 DEF RemoveTasks, DependenciesOf, WalkTypeOK
    <3>2. ASSUME NEW e \in deps'
          PROVE  e \in liveTasks' \X liveTasks'
      <4>1. e \in liveTasks \X liveTasks /\ e[1] \notin T /\ e[2] \notin T
        BY <2>4, <3>2 DEF RemoveTasks, DependenciesOf
      <4>2. e[1] \in liveTasks' /\ e[2] \in liveTasks' /\ e = <<e[1], e[2]>>
        BY <3>1, <4>1
      <4>3. QED  BY <4>2
    <3>3. QED  BY <3>2
  <2>5. ASSUME NEW t \in Tasks, InsertTask(t)
        PROVE  DepsHaveTasks'
    <3>1. liveTasks \subseteq liveTasks'
      BY <2>5 DEF InsertTask, WalkTypeOK
    <3>2. QED  BY <2>5, <3>1 DEF InsertTask
  <2>6. QED
    BY <2>1, <2>2, <2>3, <2>4, <2>5 DEF WalkNext, Step, Ask, Pop, CheckUnique, walkVars
<1>3. QED  BY <1>1, <1>2, WalkType, PTL DEF WalkSpec

------------------------------------------------------------------------------
\* At most one request adds dependencies at a time.
OneAtATime == \A v, w \in Adders : v = w

SerialInv ==
    /\ WalkTypeOK
    /\ DepsAcyclic
    /\ WalkInv
    /\ WalkReached
    /\ RefusalJustified

\* What the walk visited is closed once its stack is empty, so the edge it was
\* asked about is safe among the dependencies there are at the insert.
LEMMA InsertIsSafe ==
    ASSUME NEW w \in Adders, WalkTypeOK, WalkInv, phase[w] = "insert"
    PROVE  SafeToAdd(deps, edge[w][1], edge[w][2])
<1>1. /\ edge[w][1] \in visited[w]
      /\ edge[w][2] \notin visited[w]
      /\ \A t \in visited[w] : Predecessors(deps, t) \subseteq visited[w]
  BY DEF WalkInv
<1>2. visited[w] \in SUBSET Tasks
  BY DEF WalkTypeOK
<1>3. QED  BY <1>1, <1>2 DEF SafeToAdd, PredecessorClosed

\* Asking starts a walk that has everything still to visit.
LEMMA AskKeeps ==
    ASSUME OneAtATime, SerialInv, NEW w \in Adders, NEW p \in Tasks, NEW s \in Tasks,
           Ask(w, p, s)
    PROVE  DepsAcyclic' /\ WalkInv' /\ WalkReached' /\ RefusalJustified'
<1> USE DEF SerialInv, WalkTypeOK
<1>1. \A v \in Adders : v = w
  BY DEF OneAtATime
<1>2. deps' = deps /\ edge'[w] = <<p, s>> /\ base'[w] = deps
  BY DEF Ask
<1>3. DepsAcyclic'
  BY <1>2 DEF DepsAcyclic
<1>4. CASE p = s /\ Reply(w, "cycle")
  <2>1. phase'[w] = "idle"
    BY <1>4 DEF Reply
  <2>2. ~ SafeToAdd(deps, p, s)
    BY <1>4 DEF SafeToAdd
  <2>3. WalkInv' /\ WalkReached'
    BY <1>1, <2>1 DEF WalkInv, WalkReached
  <2>4. RefusalJustified'
    BY <1>1, <1>2, <2>2 DEF RefusalJustified
  <2>5. QED  BY <1>3, <2>3, <2>4
<1>5. CASE /\ p # s
           /\ phase' = [phase EXCEPT ![w] = "walk"]
           /\ visited' = [visited EXCEPT ![w] = {}]
           /\ stack' = [stack EXCEPT ![w] = {p}]
           /\ answer' = [answer EXCEPT ![w] = "none"]
  <2>1. phase'[w] = "walk" /\ visited'[w] = {} /\ stack'[w] = {p} /\ answer'[w] = "none"
    BY <1>5
  <2>2. WalkInv'
    BY <1>1, <1>2, <2>1 DEF WalkInv
  <2>3. WalkReached'
    BY <1>1, <1>2, <2>1 DEF WalkReached
  <2>4. RefusalJustified'
    BY <1>1, <2>1 DEF RefusalJustified
  <2>5. QED  BY <1>3, <2>2, <2>3, <2>4
<1>6. QED  BY <1>4, <1>5 DEF Ask

\* A turn of the loop visits a task whose predecessors it pushes, or refuses
\* because it met the successor inside every closed set around the predecessor.
LEMMA PopKeeps ==
    ASSUME OneAtATime, SerialInv, NEW w \in Adders, NEW t \in Tasks, Pop(w, t)
    PROVE  DepsAcyclic' /\ WalkInv' /\ WalkReached' /\ RefusalJustified'
<1> USE DEF SerialInv, WalkTypeOK
<1>1. \A v \in Adders : v = w
  BY DEF OneAtATime
<1>2. deps' = deps /\ edge' = edge /\ base' = base /\ phase[w] = "walk" /\ t \in stack[w]
  BY DEF Pop
<1>3. DepsAcyclic'
  BY <1>2 DEF DepsAcyclic
<1>4. CASE t = edge[w][2] /\ Reply(w, "cycle")
  <2>1. phase'[w] = "idle"
    BY <1>4 DEF Reply
  <2>2. ~ SafeToAdd(base[w], edge[w][1], edge[w][2])
    BY <1>2, <1>4 DEF WalkReached, SafeToAdd
  <2>3. WalkInv' /\ WalkReached'
    BY <1>1, <2>1 DEF WalkInv, WalkReached
  <2>4. RefusalJustified'
    BY <1>1, <1>2, <2>2 DEF RefusalJustified
  <2>5. QED  BY <1>3, <2>3, <2>4
<1>5. CASE /\ t # edge[w][2]
           /\ t \in visited[w]
           /\ stack' = [stack EXCEPT ![w] = Popped(w, t)]
           /\ UNCHANGED <<phase, visited, answer>>
  <2>1. stack'[w] = stack[w] \ {t}
    BY <1>5 DEF Popped
  <2>2. WalkInv'
    BY <1>1, <1>2, <1>5, <2>1 DEF WalkInv
  <2>3. WalkReached'
    BY <1>1, <1>2, <1>5, <2>1 DEF WalkReached
  <2>4. RefusalJustified'
    BY <1>2, <1>5 DEF RefusalJustified
  <2>5. QED  BY <1>3, <2>2, <2>3, <2>4
<1>6. CASE /\ t # edge[w][2]
           /\ t \notin visited[w]
           /\ visited' = [visited EXCEPT ![w] = @ \cup {t}]
           /\ stack' = [stack EXCEPT ![w] = Popped(w, t) \cup QueryPredecessors(t)]
           /\ UNCHANGED <<phase, answer>>
  <2>1. /\ visited'[w] = visited[w] \cup {t}
        /\ stack'[w] = (stack[w] \ {t}) \cup Predecessors(deps, t)
    BY <1>6 DEF Popped, QueryPredecessors
  <2>2. WalkInv'
    BY <1>1, <1>2, <1>6, <2>1 DEF WalkInv
  <2>3. WalkReached'
    <3>1. deps \subseteq base[w]
      BY <1>2 DEF WalkReached
    <3>2. ASSUME NEW C \in SUBSET Tasks, edge[w][1] \in C, PredecessorClosed(base[w], C)
          PROVE  visited'[w] \cup stack'[w] \subseteq C
      <4>1. visited[w] \cup stack[w] \subseteq C
        BY <1>2, <3>2 DEF WalkReached
      <4>2. Predecessors(deps, t) \subseteq C
        BY <1>2, <3>1, <3>2, <4>1 DEF PredecessorClosed, Predecessors
      <4>3. QED  BY <1>2, <2>1, <4>1, <4>2
    <3>3. QED  BY <1>1, <1>2, <3>1, <3>2 DEF WalkReached
  <2>4. RefusalJustified'
    BY <1>2, <1>6 DEF RefusalJustified
  <2>5. QED  BY <1>3, <2>2, <2>3, <2>4
<1>7. QED  BY <1>4, <1>5, <1>6 DEF Pop, Popped, QueryPredecessors

\* The uniqueness check and the insert end the walk without disturbing it.
LEMMA FinishKeeps ==
    ASSUME OneAtATime, SerialInv, NEW w \in Adders, CheckUnique(w) \/ Commit(w)
    PROVE  DepsAcyclic' /\ WalkInv' /\ WalkReached' /\ RefusalJustified'
<1> USE DEF SerialInv, WalkTypeOK
<1>1. \A v \in Adders : v = w
  BY DEF OneAtATime
<1>2. CASE phase'[w] = "idle" /\ answer'[w] # "cycle"
  <2>1. WalkInv' /\ WalkReached' /\ RefusalJustified'
    BY <1>1, <1>2 DEF WalkInv, WalkReached, RefusalJustified
  <2>2. CASE deps' = deps
    BY <2>1, <2>2 DEF DepsAcyclic
  <2>3. CASE Commit(w) /\ deps' = deps \cup {edge[w]}
    <3>1. phase[w] = "insert" /\ edge[w] \in Edges
      BY <2>3 DEF Commit
    <3>2. /\ SafeToAdd(deps, edge[w][1], edge[w][2])
          /\ edge[w][1] \in Tasks /\ edge[w][2] \in Tasks
          /\ edge[w] = <<edge[w][1], edge[w][2]>>
      BY <3>1, InsertIsSafe DEF Edges
    <3>3. DepsAcyclic'
      BY <2>3, <3>2, AddKeepsAcyclic DEF DepsAcyclic
    <3>4. QED  BY <2>1, <3>3
  <2>4. QED  BY <2>2, <2>3 DEF CheckUnique, Commit
<1>3. CASE /\ CheckUnique(w)
           /\ phase' = [phase EXCEPT ![w] = "insert"]
           /\ UNCHANGED <<visited, stack, answer>>
  <2>1. /\ phase'[w] = "insert" /\ phase[w] = "walk" /\ stack[w] = {}
        /\ UNCHANGED <<deps, edge, base, visited, stack, answer>>
    BY <1>3 DEF CheckUnique
  <2>2. DepsAcyclic' /\ WalkInv' /\ WalkReached' /\ RefusalJustified'
    BY <1>1, <2>1 DEF DepsAcyclic, WalkInv, WalkReached, RefusalJustified
  <2>3. QED  BY <2>2
<1>4. QED  BY <1>2, <1>3 DEF CheckUnique, Commit, Reply

\* Deleting dependencies or tasks, or creating tasks, in the middle of a walk
\* only takes edges away: what is visited stays closed.
LEMMA OthersKeep ==
    ASSUME SerialInv, deps' \in SUBSET deps, UNCHANGED request
    PROVE  DepsAcyclic' /\ WalkInv' /\ WalkReached' /\ RefusalJustified'
<1> USE DEF SerialInv, request
<1>1. DepsAcyclic'
  BY SubsetKeepsAcyclic DEF DepsAcyclic
<1>2. WalkInv'
  BY DEF WalkInv, Predecessors
<1>3. WalkReached'
  BY DEF WalkReached
<1>4. RefusalJustified'
  BY DEF RefusalJustified
<1>5. QED  BY <1>1, <1>2, <1>3, <1>4

\* With one adder at a time the dependencies stay a DAG and a refusal is always
\* for a real cycle, whatever is deleted between two queries of the walk.
THEOREM SerialWalkCorrect ==
    ASSUME OneAtATime
    PROVE  WalkSpec => [](DepsAcyclic /\ WalkInv /\ WalkReached /\ RefusalJustified)
<1>1. WalkInit => SerialInv
  <2> SUFFICES ASSUME WalkInit PROVE SerialInv
    OBVIOUS
  <2>1. WalkTypeOK
    BY DEF WalkInit, Init, WalkTypeOK, Edges, Phases, Answers
  <2>2. DepsAcyclic
    BY DEF WalkInit, Init, DepsAcyclic, Acyclic, Predecessors
  <2>3. WalkInv /\ WalkReached /\ RefusalJustified
    BY DEF WalkInit, WalkInv, WalkReached, RefusalJustified
  <2>4. QED  BY <2>1, <2>2, <2>3 DEF SerialInv
<1>2. SerialInv /\ WalkTypeOK' /\ [WalkNext]_walkVars => SerialInv'
  <2> SUFFICES ASSUME SerialInv, WalkTypeOK', [WalkNext]_walkVars
               PROVE  DepsAcyclic' /\ WalkInv' /\ WalkReached' /\ RefusalJustified'
    BY DEF SerialInv
  <2>1. CASE UNCHANGED walkVars
    BY <2>1, OthersKeep DEF walkVars
  <2>2. ASSUME NEW w \in Adders, NEW p \in Tasks, NEW s \in Tasks, Ask(w, p, s)
        PROVE  DepsAcyclic' /\ WalkInv' /\ WalkReached' /\ RefusalJustified'
    BY <2>2, AskKeeps
  <2>3. ASSUME NEW w \in Adders, NEW t \in Tasks, Pop(w, t)
        PROVE  DepsAcyclic' /\ WalkInv' /\ WalkReached' /\ RefusalJustified'
    BY <2>3, PopKeeps
  <2>4. ASSUME NEW w \in Adders, CheckUnique(w) \/ Commit(w)
        PROVE  DepsAcyclic' /\ WalkInv' /\ WalkReached' /\ RefusalJustified'
    BY <2>4, FinishKeeps
  <2>5. ASSUME NEW e \in Edges, RemoveDependency(e)
        PROVE  DepsAcyclic' /\ WalkInv' /\ WalkReached' /\ RefusalJustified'
    BY <2>5, OthersKeep DEF RemoveDependency
  <2>6. ASSUME NEW t \in Tasks, InsertTask(t)
        PROVE  DepsAcyclic' /\ WalkInv' /\ WalkReached' /\ RefusalJustified'
    BY <2>6, OthersKeep DEF InsertTask
  <2>7. ASSUME NEW T \in SUBSET Tasks, RemoveTasks(T)
        PROVE  DepsAcyclic' /\ WalkInv' /\ WalkReached' /\ RefusalJustified'
    BY <2>7, OthersKeep DEF RemoveTasks, DependenciesOf
  <2>8. QED
    BY <2>1, <2>2, <2>3, <2>4, <2>5, <2>6, <2>7 DEF WalkNext, Step
<1>3. SerialInv => DepsAcyclic /\ WalkInv /\ WalkReached /\ RefusalJustified
  BY DEF SerialInv
<1>4. QED  BY <1>1, <1>2, <1>3, WalkType, PTL DEF WalkSpec

\* Seen from the table alone, add_dependency with all its queries is the single
\* step of DependencyDag: the insert is an Add, a deletion a Drop, and all the
\* rest leaves the table as it was.
THEOREM WalkImplementsDag ==
    ASSUME OneAtATime
    PROVE  WalkSpec => ImplementsDag
<1>1. WalkInit => Init
  BY DEF WalkInit
<1>2. WalkTypeOK /\ WalkInv /\ [WalkNext]_walkVars => [Next]_deps
  <2> SUFFICES ASSUME WalkTypeOK, WalkInv, [WalkNext]_walkVars
               PROVE  [Next]_deps
    OBVIOUS
  <2>1. CASE UNCHANGED deps
    BY <2>1
  <2>2. ASSUME NEW w \in Adders, Commit(w), deps' = deps \cup {edge[w]}
        PROVE  Next
    <3>1. phase[w] = "insert" /\ edge[w] \in Edges
      BY <2>2 DEF Commit, WalkTypeOK
    <3>2. /\ edge[w][1] \in Tasks /\ edge[w][2] \in Tasks
          /\ edge[w] = <<edge[w][1], edge[w][2]>>
      BY <3>1 DEF Edges
    <3>3. Add(edge[w][1], edge[w][2])
      BY <2>2, <3>1, <3>2, InsertIsSafe DEF Add
    <3>4. QED  BY <3>2, <3>3 DEF Next
  <2>3. ASSUME NEW e \in Edges, RemoveDependency(e)
        PROVE  Next
    <3>1. Drop({e}) /\ {e} \in SUBSET deps
      BY <2>3 DEF RemoveDependency, Drop
    <3>2. QED  BY <3>1 DEF Next
  <2>4. ASSUME NEW T \in SUBSET Tasks, RemoveTasks(T)
        PROVE  [Next]_deps
    <3> DEFINE E == DependenciesOf(deps, T)
    <3>1. deps' = deps \ E /\ E \in SUBSET deps
      BY <2>4 DEF RemoveTasks, DependenciesOf
    <3>2. CASE E = {}
      BY <3>1, <3>2
    <3>3. CASE E # {}
      BY <3>1, <3>3 DEF Next, Drop
    <3>4. QED  BY <3>2, <3>3
  <2>5. QED
    BY <2>1, <2>2, <2>3, <2>4
       DEF WalkNext, Step, Ask, Pop, CheckUnique, Commit, InsertTask, walkVars
<1>3. QED  BY <1>1, <1>2, WalkType, SerialWalkCorrect, PTL DEF WalkSpec, ImplementsDag, Spec

------------------------------------------------------------------------------
(* The life of a plan                                                         *)

\* The recorded times lie in the past, and hypercare has no start before the
\* plan is in hypercare, which is what makes the three stamps agree.
TimesInv ==
    /\ status = "rolled_back" => rolledBack
    /\ actualStart <= clock /\ actualEnd <= clock
    /\ ~ rolledBack /\ ~ edited /\ status \notin {"hypercare", "closed"} =>
          hypercareStart = Unset
    /\ FirstExecutionTimes

\* A rehearsal that is completed now was completed once.
RehearsedInv ==
    /\ (\E r \in Rehearsals : rehearsal[r] = "completed") => rehearsed
    /\ ExecutesRehearsed

\* Every request leaves the plan, its checklist and its rehearsals well typed.
THEOREM CutoverPlanType == PlanSpec => []PlanTypeOK
<1> USE DEF PlanTypeOK
<1>1. PlanInit => PlanTypeOK
  <2>1. "draft" \in PlanStatuses /\ 1 \in Times
    BY CutoverPlanAssumption DEF PlanStatuses, PLAN_TRANSITIONS, Times
  <2>2. QED  BY <2>1 DEF PlanInit
<1>2. PlanTypeOK /\ [PlanNext]_planVars => PlanTypeOK'
  <2> SUFFICES ASSUME PlanTypeOK, [PlanNext]_planVars
               PROVE  PlanTypeOK'
    OBVIOUS
  <2>1. CASE UNCHANGED planVars
    BY <2>1 DEF planVars, plan, gates
  <2>2. ASSUME NEW new \in PlanStatuses, TransitionPlan(new)
        PROVE  PlanTypeOK'
    BY <2>2 DEF TransitionPlan, HypercareStamp, gates
  <2>3. CASE StartClock
    BY <2>3 DEF StartClock, gates, PlanStatuses, PLAN_TRANSITIONS
  <2>4. ASSUME NEW t \in Times \cup {Unset}, UpdatePlan(t)
        PROVE  PlanTypeOK'
    BY <2>4 DEF UpdatePlan, gates
  <2>5. CASE Tick
    BY <2>5, CutoverPlanAssumption DEF Tick, plan, gates, Times
  <2>6. CASE RehearsalNext
    <3>1. "planned" \in DOMAIN REHEARSAL_TRANSITIONS
      BY DEF REHEARSAL_TRANSITIONS
    <3>2. QED
      BY <2>6, <3>1
         DEF RehearsalNext, CreateRehearsal, TransitionRehearsal, DeleteRehearsal, plan
  <2>7. CASE ChecklistNext
    BY <2>7
       DEF ChecklistNext, CreateItem, UpdateItem, DeleteItem, SeedChecklist,
           ChecklistUnchanged, Verdicts, plan
  <2>8. CASE SignoffNext
    BY <2>8 DEF SignoffNext, ApproveEntity, RevokeApproval, SignoffUnchanged, plan
  <2>9. QED
    BY <2>1, <2>2, <2>3, <2>4, <2>5, <2>6, <2>7, <2>8 DEF PlanNext, LifecycleNext
<1>3. QED  BY <1>1, <1>2, PTL DEF PlanSpec

\* A plan that was not rolled back shows exactly the times of its one execution.
THEOREM FirstExecution == PlanSpec => []FirstExecutionTimes
<1> USE DEF PlanTypeOK, TimesInv, FirstExecutionTimes
<1>1. PlanInit => TimesInv
  BY DEF PlanInit, Unset
<1>2. PlanTypeOK /\ TimesInv /\ [PlanNext]_planVars => TimesInv'
  <2> SUFFICES ASSUME PlanTypeOK, TimesInv, [PlanNext]_planVars
               PROVE  TimesInv'
    OBVIOUS
  <2>1. clock \in Nat /\ clock # Unset /\ Unset <= clock /\ actualStart \in Nat /\ actualEnd \in Nat
    BY DEF Times, Unset
  <2>2. ASSUME NEW new \in PlanStatuses, TransitionPlan(new)
        PROVE  TimesInv'
    <3>1. /\ rolledBack' <=> rolledBack \/ new = "rolled_back"
          /\ status' = new /\ UNCHANGED <<clock, edited>>
      BY <2>2 DEF TransitionPlan
    <3>2. \/ new \in {"draft", "approved", "rehearsal", "ready"} /\
                status \in {"draft", "approved", "rehearsal", "ready", "rolled_back"}
          \/ new = "executing" /\ status = "ready"
          \/ new = "rolled_back" /\ status = "executing"
          \/ new = "completed" /\ status = "executing"
          \/ new = "hypercare" /\ status = "completed"
          \/ new = "closed" /\ status = "hypercare"
      BY <2>2 DEF TransitionPlan, TransitionGuard, PlanStatuses, PLAN_TRANSITIONS
    <3>3. CASE new \in {"draft", "approved", "rehearsal", "ready", "closed"}
      BY <2>1, <2>2, <3>1, <3>2, <3>3 DEF TransitionPlan, HypercareStamp
    <3>4. CASE new = "executing" \/ new = "completed"
      BY <2>1, <2>2, <3>1, <3>2, <3>4 DEF TransitionPlan, HypercareStamp
    <3>5. CASE new = "rolled_back"
      BY <2>1, <2>2, <3>1, <3>2, <3>5 DEF TransitionPlan, HypercareStamp
    <3>6. CASE new = "hypercare"
      BY <2>1, <2>2, <3>1, <3>2, <3>6 DEF TransitionPlan, HypercareStamp, Unset
    <3>7. QED  BY <3>2, <3>3, <3>4, <3>5, <3>6
  <2>3. CASE StartClock
    BY <2>1, <2>3 DEF StartClock
  <2>4. ASSUME NEW t \in Times \cup {Unset}, UpdatePlan(t)
        PROVE  TimesInv'
    BY <2>4 DEF UpdatePlan
  <2>5. CASE Tick
    BY <2>1, <2>5 DEF Tick, plan
  <2>6. CASE UNCHANGED <<plan, clock, rolledBack, edited>>
    BY <2>6 DEF plan
  <2>7. QED
    BY <2>2, <2>3, <2>4, <2>5, <2>6
       DEF PlanNext, LifecycleNext, RehearsalNext, CreateRehearsal, TransitionRehearsal,
           DeleteRehearsal, ChecklistNext, CreateItem, UpdateItem, DeleteItem,
           SeedChecklist, ChecklistUnchanged, SignoffNext, ApproveEntity,
           RevokeApproval, SignoffUnchanged, planVars
<1>3. QED  BY <1>1, <1>2, CutoverPlanType, PTL DEF PlanSpec

\* No plan comes to execution without a rehearsal that was once completed,
\* although rehearsals can be deleted and the war room's button checks none.
THEOREM ExecutionRehearsed == PlanSpec => []ExecutesRehearsed
<1> USE DEF PlanTypeOK, RehearsedInv, ExecutesRehearsed
<1>1. PlanInit => RehearsedInv
  BY DEF PlanInit, Absent
<1>2. PlanTypeOK /\ RehearsedInv /\ [PlanNext]_planVars => RehearsedInv'
  <2> SUFFICES ASSUME PlanTypeOK, RehearsedInv, [PlanNext]_planVars
               PROVE  RehearsedInv'
    OBVIOUS
  <2>1. ASSUME NEW new \in PlanStatuses, TransitionPlan(new)
        PROVE  RehearsedInv'
    <3>1. /\ new \in PLAN_TRANSITIONS[status]
          /\ new = "ready" => rehearsed
          /\ status' = new /\ UNCHANGED <<rehearsal, rehearsed>>
      BY <2>1 DEF TransitionPlan, TransitionGuard, HasCompletedRehearsal, gates
    <3>2. new \in {"executing", "completed", "hypercare", "closed"} =>
              status \in {"ready", "executing", "completed", "hypercare"}
      BY <3>1 DEF PLAN_TRANSITIONS, PlanStatuses
    <3>3. QED  BY <3>1, <3>2
  <2>2. CASE StartClock
    BY <2>2 DEF StartClock, gates
  <2>3. ASSUME NEW r \in Rehearsals,
               \/ CreateRehearsal(r)
               \/ \E new \in DOMAIN REHEARSAL_TRANSITIONS : TransitionRehearsal(r, new)
               \/ DeleteRehearsal(r)
        PROVE  RehearsedInv'
    BY <2>3 DEF CreateRehearsal, TransitionRehearsal, DeleteRehearsal, plan, Absent
  <2>4. CASE UNCHANGED <<status, rehearsal, rehearsed>>
    BY <2>4
  <2>5. QED
    BY <2>1, <2>2, <2>3, <2>4
       DEF PlanNext, LifecycleNext, UpdatePlan, Tick, RehearsalNext, ChecklistNext,
           CreateItem, UpdateItem, DeleteItem, SeedChecklist, ChecklistUnchanged,
           SignoffNext, ApproveEntity, RevokeApproval, SignoffUnchanged, planVars, plan, gates
<1>3. QED  BY <1>1, <1>2, CutoverPlanType, PTL DEF PlanSpec

------------------------------------------------------------------------------
(* The critical path: the cycle check and the sort                            *)

\* What the cycle check has gone through: the tasks whose call has returned.
Returned == seen \ InStack

\* Every nonempty set of such tasks has one that waits for no other of the set.
AcyclicWithin(R) ==
    \A S \in SUBSET R : S # {} => \E t \in S : Predecessors(deps, t) \cap S = {}

\* Each active call waits for the one above it, has passed on only what has
\* returned, and what has returned leads to nothing that has not.
CheckInv ==
    /\ seen \subseteq Tasks
    /\ calls \in Seq([node : Tasks, todo : SUBSET Tasks])
    /\ InStack \subseteq seen
    /\ \A i, j \in 1 .. Len(calls) : calls[i].node = calls[j].node => i = j
    /\ \A i \in 1 .. Len(calls) - 1 : <<calls[i].node, calls[i + 1].node>> \in deps
    /\ \A i \in 1 .. Len(calls) :
           /\ calls[i].todo \subseteq Successors(calls[i].node)
           /\ \A s \in Successors(calls[i].node) \ calls[i].todo :
                  s \in Returned \/ (i < Len(calls) /\ s = calls[i + 1].node)
    /\ \A r \in Returned : Successors(r) \subseteq Returned
    /\ AcyclicWithin(Returned)

\* What the sort has done: the tasks it lists are those whose predecessors it
\* listed before, the queue is what could come next.
SortInv ==
    /\ topo \in Seq(Tasks)
    /\ inDegree = [t \in Tasks |-> Predecessors(deps, t) \ ToSet(topo)]
    /\ queue = {t \in Tasks : Predecessors(deps, t) \subseteq ToSet(topo)} \ ToSet(topo)
    /\ \A i, j \in 1 .. Len(topo) : topo[i] = topo[j] => i = j
    /\ \A i \in 1 .. Len(topo) : \A p \in Predecessors(deps, topo[i]) : \E j \in 1 .. i - 1 : topo[j] = p

CriticalInv ==
    /\ deps \subseteq {e \in Edges : e[1] # e[2]}
    /\ stage \in {"check", "failed", "sort", "relax", "walk", "done"}
    /\ stage = "check" => CheckInv
    /\ CycleVerdict
    /\ SortInv
    /\ stage \in {"check", "failed"} => topo = << >>
    /\ stage \in {"relax", "walk", "done"} => ToSet(topo) = Tasks

Frames == [node : Tasks, todo : SUBSET Tasks]

\* The tasks of the active calls.
LEMMA StackIs == ASSUME NEW c \in Seq(Frames)
                 PROVE  {c[i].node : i \in DOMAIN c} = {c[i].node : i \in 1 .. Len(c)}
OBVIOUS

\* What a sequence is after one more element.
LEMMA Appended == ASSUME NEW c \in Seq(Frames), NEW e \in Frames
                  PROVE  /\ Append(c, e) \in Seq(Frames) /\ Len(Append(c, e)) = Len(c) + 1
                         /\ Append(c, e)[Len(c) + 1] = e
                         /\ \A i \in 1 .. Len(c) : Append(c, e)[i] = c[i]
OBVIOUS

\* The active calls are of tasks.
LEMMA CallOfTask == ASSUME NEW c \in Seq(Frames), NEW i \in 1 .. Len(c)
                    PROVE  c[i] \in Frames /\ c[i].node \in Tasks
<1>1. \A r \in Frames : r.node \in Tasks
  BY DEF Frames
<1>2. c[i] \in Frames
  OBVIOUS
<1> QED BY <1>1, <1>2

\* The active calls c, the innermost of which is about to call t.
Calling(c, n, t) ==
    /\ \A i \in 1 .. n :
           /\ c[i].node = calls[i].node /\ c[i].todo \subseteq Successors(c[i].node)
           /\ \A s \in Successors(c[i].node) \ c[i].todo :
                  s \in Returned \/ (i < n /\ s = c[i + 1].node) \/ (i = n /\ s = t)
    /\ n > 0 => <<c[n].node, t>> \in deps

\* A call begins: the task was not seen, and the caller, if any, waits for it.
LEMMA VisitKeeps ==
    ASSUME CheckInv, NEW c \in Seq(Frames), NEW n \in Nat, n = Len(c), n = Len(calls),
           NEW t \in Tasks, t \notin seen, deps' = deps, Visit(t, c),
           Calling(c, n, t)
    PROVE  CheckInv'
<1>0. /\ \A i \in 1 .. n :
             /\ c[i].node = calls[i].node /\ c[i].todo \subseteq Successors(c[i].node)
             /\ \A s \in Successors(c[i].node) \ c[i].todo :
                    s \in Returned \/ (i < n /\ s = c[i + 1].node) \/ (i = n /\ s = t)
      /\ n > 0 => <<c[n].node, t>> \in deps
  BY DEF Calling
<1>1. PICK frame : frame = [node |-> t, todo |-> Successors(t)]
  OBVIOUS
<1>2. frame \in Frames /\ frame.node = t /\ frame.todo = Successors(t)
  BY <1>1 DEF Frames, Successors
<1>3. PICK k : k = Append(c, frame)
  OBVIOUS
<1>4. k \in Seq(Frames) /\ Len(k) = n + 1 /\ k[n + 1] = frame /\ \A i \in 1 .. n : k[i] = c[i]
  <2>1. /\ Append(c, frame) \in Seq(Frames) /\ Len(Append(c, frame)) = Len(c) + 1
        /\ Append(c, frame)[Len(c) + 1] = frame
        /\ \A i \in 1 .. Len(c) : Append(c, frame)[i] = c[i]
    BY <1>2, Appended
  <2> QED BY <1>3, <2>1
<1>5. calls' = k /\ seen' = seen \cup {t}
  BY <1>1, <1>3 DEF Visit
<1>6. calls \in Seq(Frames) /\ InStack = {calls[i].node : i \in 1 .. n}
  BY StackIs DEF CheckInv, InStack, Frames
<1>7. InStack' = {k[i].node : i \in 1 .. n + 1}
  BY <1>4, <1>5 DEF InStack
<1>8. InStack' = InStack \cup {t}
  <2>1. \A i \in 1 .. n : k[i].node = calls[i].node
    BY <1>0, <1>4
  <2>2. k[n + 1].node = t
    BY <1>2, <1>4
  <2>3. \A i \in 1 .. n + 1 : i \in 1 .. n \/ i = n + 1
    OBVIOUS
  <2>4. InStack' \subseteq InStack \cup {t}
    BY <1>6, <1>7, <2>1, <2>2, <2>3
  <2>5. 1 .. n \subseteq 1 .. n + 1 /\ n + 1 \in 1 .. n + 1
    OBVIOUS
  <2>6. InStack \cup {t} \subseteq InStack'
    BY <1>6, <1>7, <2>1, <2>2, <2>5
  <2> QED BY <2>4, <2>6
<1>9. InStack \subseteq seen /\ Returned' = Returned
  BY <1>5, <1>8 DEF CheckInv, Returned
<1>10. \A u : Successors(u)' = Successors(u) /\ Predecessors(deps, u)' = Predecessors(deps, u)
  BY DEF Successors, Predecessors
<1>11. \A i, j \in 1 .. n + 1 : k[i].node = k[j].node => i = j
  <2>1. \A i \in 1 .. n : k[i].node \in InStack /\ k[i].node = calls[i].node
    BY <1>0, <1>4, <1>6
  <2>2. k[n + 1].node = t /\ t \notin InStack
    BY <1>2, <1>4, <1>9
  <2>3. \A i, j \in 1 .. n : calls[i].node = calls[j].node => i = j
    BY DEF CheckInv
  <2>4. \A i \in 1 .. n + 1 : i \in 1 .. n \/ i = n + 1
    OBVIOUS
  <2> QED BY <2>1, <2>2, <2>3, <2>4
<1>12. \A i \in 1 .. n : <<k[i].node, k[i + 1].node>> \in deps
  <2>1. ASSUME NEW i \in 1 .. n, i # n
        PROVE  <<k[i].node, k[i + 1].node>> \in deps
    <3>1. i \in 1 .. n - 1 /\ i + 1 \in 1 .. n
      BY <2>1
    <3>2. k[i].node = calls[i].node /\ k[i + 1].node = calls[i + 1].node
      BY <1>0, <1>4, <3>1
    <3> QED BY <3>1, <3>2 DEF CheckInv
  <2>2. ASSUME n \in 1 .. n
        PROVE  <<k[n].node, k[n + 1].node>> \in deps
    <3>1. n > 0 /\ k[n] = c[n] /\ k[n + 1].node = t
      BY <1>2, <1>4, <2>2
    <3> QED BY <1>0, <3>1
  <2> QED BY <2>1, <2>2
<1>13. \A i \in 1 .. n + 1 :
           /\ k[i].todo \subseteq Successors(k[i].node)
           /\ \A s \in Successors(k[i].node) \ k[i].todo :
                  s \in Returned \/ (i < n + 1 /\ s = k[i + 1].node)
  <2>1. ASSUME NEW i \in 1 .. n
        PROVE  /\ k[i].todo \subseteq Successors(k[i].node)
               /\ \A s \in Successors(k[i].node) \ k[i].todo :
                      s \in Returned \/ (i < n + 1 /\ s = k[i + 1].node)
    <3>1. k[i] = c[i] /\ (i < n => k[i + 1] = c[i + 1]) /\ (i = n => k[i + 1].node = t) /\ i < n + 1
      <4>1. i \in Nat /\ i < n + 1 /\ (i < n => i + 1 \in 1 .. n)
        OBVIOUS
      <4> QED BY <1>2, <1>4, <4>1
    <3> QED BY <1>0, <3>1
  <2>2. k[n + 1].todo = Successors(k[n + 1].node)
    BY <1>2, <1>4
  <2> QED BY <2>1, <2>2
<1>14. (\A r \in Returned : Successors(r) \subseteq Returned)' /\ AcyclicWithin(Returned)'
  BY <1>9, <1>10 DEF CheckInv, AcyclicWithin
<1>15. (seen \subseteq Tasks)' /\ (InStack \subseteq seen)'
  BY <1>5, <1>8, <1>9 DEF CheckInv
<1>16. n + 1 - 1 = n
  OBVIOUS
<1>17. (calls \in Seq([node : Tasks, todo : SUBSET Tasks]))' /\ Len(calls)' = n + 1
  BY <1>4, <1>5 DEF Frames
<1>18. (\A i, j \in 1 .. Len(calls) : calls[i].node = calls[j].node => i = j)'
  BY <1>17, <1>4, <1>5, <1>11
<1>19. (\A i \in 1 .. Len(calls) - 1 : <<calls[i].node, calls[i + 1].node>> \in deps)'
  BY <1>17, <1>4, <1>5, <1>12, <1>16
<1>20. (\A i \in 1 .. Len(calls) :
             /\ calls[i].todo \subseteq Successors(calls[i].node)
             /\ \A u \in Successors(calls[i].node) \ calls[i].todo :
                    u \in Returned \/ (i < Len(calls) /\ u = calls[i + 1].node))'
  BY <1>17, <1>4, <1>5, <1>9, <1>10, <1>13
<1> QED BY <1>17, <1>18, <1>19, <1>20, <1>14, <1>15 DEF CheckInv

\* What a sequence is with one element replaced.
LEMMA Replaced == ASSUME NEW c \in Seq(Frames), NEW i \in 1 .. Len(c), NEW e \in Frames,
                         NEW k, k = [c EXCEPT ![i] = e]
                  PROVE  k \in Seq(Frames) /\ Len(k) = Len(c) /\ k[i] = e
                         /\ \A j \in 1 .. Len(c) : j # i => k[j] = c[j]
OBVIOUS

\* The active calls once the innermost has taken its next neighbour.
Taken(c, s) == [c EXCEPT ![Len(c)].todo = @ \ {s}]

\* Taking a neighbour changes nothing else.
LEMMA LessToDo ==
    ASSUME NEW c \in Seq(Frames), c # << >>, NEW s, NEW k, k = Taken(c, s)
    PROVE  /\ k \in Seq(Frames) /\ Len(k) = Len(c)
           /\ \A i \in 1 .. Len(c) : k[i].node = c[i].node
           /\ \A i \in 1 .. Len(c) - 1 : k[i].todo = c[i].todo
           /\ k[Len(c)].todo = c[Len(c)].todo \ {s}
<1>1. PICK n : n = Len(c)
  OBVIOUS
<1>2. n \in 1 .. n /\ n \in Nat
  BY <1>1
<1>3. PICK r \in Frames : r = c[n]
  BY <1>1, <1>2
<1>4. PICK f : f = [r EXCEPT !.todo = r.todo \ {s}]
  OBVIOUS
<1>5. f \in Frames /\ f.node = r.node /\ f.todo = r.todo \ {s}
  <2>1. r.todo \ {s} \in SUBSET Tasks /\ r.node \in Tasks
    BY DEF Frames
  <2>2. f = [node |-> r.node, todo |-> r.todo \ {s}]
    BY <1>4 DEF Frames
  <2> QED BY <2>1, <2>2 DEF Frames
<1>6. k = [c EXCEPT ![n] = f]
  BY <1>1, <1>3, <1>4 DEF Taken
<1>7. k \in Seq(Frames) /\ Len(k) = n /\ k[n] = f /\ \A i \in 1 .. n : i # n => k[i] = c[i]
  BY <1>1, <1>2, <1>5, <1>6, Replaced
<1>8. \A i \in 1 .. n - 1 : i \in 1 .. n /\ i # n
  BY <1>2
<1> QED BY <1>1, <1>3, <1>5, <1>7, <1>8

\* The innermost call visits a neighbour that was not seen.
LEMMA NextCall ==
    ASSUME CheckInv, calls # << >>, NEW s \in calls[Len(calls)].todo, s \notin seen, s \in Tasks,
           NEW rest, rest = Taken(calls, s),
           deps' = deps, Visit(s, rest)
    PROVE  CheckInv'
<1>1. PICK n : n = Len(calls)
  OBVIOUS
<1>2. calls \in Seq(Frames) /\ n \in Nat \ {0}
  BY <1>1 DEF CheckInv, Frames
<1>3. /\ rest \in Seq(Frames) /\ Len(rest) = n
      /\ \A i \in 1 .. n : rest[i].node = calls[i].node
      /\ \A i \in 1 .. n - 1 : rest[i].todo = calls[i].todo
      /\ rest[n].todo = calls[n].todo \ {s}
  BY <1>1, <1>2, LessToDo
<1>4. ASSUME NEW i \in 1 .. n
      PROVE  /\ rest[i].node = calls[i].node /\ rest[i].todo \subseteq Successors(rest[i].node)
             /\ \A u \in Successors(rest[i].node) \ rest[i].todo :
                    u \in Returned \/ (i < n /\ u = rest[i + 1].node) \/ (i = n /\ u = s)
  <2>1. /\ calls[i].todo \subseteq Successors(calls[i].node)
        /\ \A u \in Successors(calls[i].node) \ calls[i].todo :
               u \in Returned \/ (i < n /\ u = calls[i + 1].node)
    BY <1>1 DEF CheckInv
  <2>2. i < n => i + 1 \in 1 .. n /\ i \in 1 .. n - 1
    BY <1>2
  <2>3. rest[i].todo = calls[i].todo \/ (i = n /\ rest[i].todo = calls[i].todo \ {s})
    BY <1>2, <1>3, <2>2
  <2> QED BY <1>3, <2>1, <2>2, <2>3
<1>5. <<rest[n].node, s>> \in deps
  <2>1. n \in 1 .. n
    BY <1>2
  <2>2. s \in Successors(calls[n].node) /\ rest[n].node = calls[n].node
    BY <1>1, <1>3, <2>1 DEF CheckInv
  <2> QED BY <2>2 DEF Successors
<1>6. Calling(rest, n, s)
  BY <1>4, <1>5 DEF Calling
<1> QED BY <1>1, <1>2, <1>3, <1>6, VisitKeeps

\* The innermost call passes on a task that has returned.
LEMMA PassOnKeeps ==
    ASSUME CheckInv, calls # << >>, NEW s \in calls[Len(calls)].todo, s \in seen \ InStack,
           calls' = [calls EXCEPT ![Len(calls)].todo = @ \ {s}], seen' = seen, deps' = deps
    PROVE  CheckInv'
<1>1. PICK n : n = Len(calls)
  OBVIOUS
<1>2. calls \in Seq(Frames) /\ n \in Nat \ {0}
  BY <1>1 DEF CheckInv, Frames
<1>3. PICK k : k = calls'
  OBVIOUS
<1>4. /\ k \in Seq(Frames) /\ Len(k) = n
      /\ \A i \in 1 .. n : k[i].node = calls[i].node
      /\ \A i \in 1 .. n - 1 : k[i].todo = calls[i].todo
      /\ k[n].todo = calls[n].todo \ {s}
  <2>1. k = Taken(calls, s)
    BY <1>3 DEF Taken
  <2> QED BY <1>1, <1>2, <2>1, LessToDo
<1>5. InStack' = InStack
  <2>1. InStack = {calls[i].node : i \in 1 .. n}
    BY <1>1, <1>2 DEF InStack
  <2>2. InStack' = {k[i].node : i \in 1 .. n}
    BY <1>3, <1>4 DEF InStack
  <2> QED BY <1>4, <2>1, <2>2
<1>6. Returned' = Returned /\ s \in Returned
  BY <1>5 DEF Returned
<1>7. \A u : Successors(u)' = Successors(u) /\ Predecessors(deps, u)' = Predecessors(deps, u)
  BY DEF Successors, Predecessors
<1>8. \A i, j \in 1 .. n : k[i].node = k[j].node => i = j
  BY <1>1, <1>4 DEF CheckInv
<1>9. \A i \in 1 .. n - 1 : <<k[i].node, k[i + 1].node>> \in deps
  <2>1. \A i \in 1 .. n - 1 : i \in 1 .. n /\ i + 1 \in 1 .. n
    BY <1>2
  <2> QED BY <1>1, <1>4, <2>1 DEF CheckInv
<1>10. ASSUME NEW i \in 1 .. n
       PROVE  /\ k[i].todo \subseteq Successors(k[i].node)
              /\ \A u \in Successors(k[i].node) \ k[i].todo :
                     u \in Returned \/ (i < n /\ u = k[i + 1].node)
  <2>1. /\ calls[i].todo \subseteq Successors(calls[i].node)
        /\ \A u \in Successors(calls[i].node) \ calls[i].todo :
               u \in Returned \/ (i < n /\ u = calls[i + 1].node)
    BY <1>1 DEF CheckInv
  <2>2. i < n => i + 1 \in 1 .. n /\ i \in 1 .. n - 1
    BY <1>2
  <2>3. k[i].todo = calls[i].todo \/ k[i].todo = calls[i].todo \ {s}
    BY <1>2, <1>4, <2>2
  <2> QED BY <1>4, <1>6, <2>1, <2>2, <2>3
<1>11. (\A r \in Returned : Successors(r) \subseteq Returned)' /\ AcyclicWithin(Returned)'
  BY <1>6, <1>7 DEF CheckInv, AcyclicWithin
<1>12. (seen \subseteq Tasks)' /\ (InStack \subseteq seen)'
  BY <1>5 DEF CheckInv
<1>13. (calls \in Seq([node : Tasks, todo : SUBSET Tasks]))' /\ Len(calls)' = n
  BY <1>3, <1>4 DEF Frames
<1>14. (\A i, j \in 1 .. Len(calls) : calls[i].node = calls[j].node => i = j)'
  BY <1>13, <1>3, <1>4, <1>8
<1>15. (\A i \in 1 .. Len(calls) - 1 : <<calls[i].node, calls[i + 1].node>> \in deps)'
  BY <1>13, <1>3, <1>4, <1>9
<1>16. (\A i \in 1 .. Len(calls) :
             /\ calls[i].todo \subseteq Successors(calls[i].node)
             /\ \A u \in Successors(calls[i].node) \ calls[i].todo :
                    u \in Returned \/ (i < Len(calls) /\ u = calls[i + 1].node))'
  BY <1>13, <1>3, <1>4, <1>6, <1>7, <1>10
<1> QED BY <1>13, <1>14, <1>15, <1>16, <1>11, <1>12 DEF CheckInv

\* The innermost call returns: nothing that has returned waits for its task.
LEMMA ReturnKeeps ==
    ASSUME CheckInv, calls # << >>, calls[Len(calls)].todo = {}, calls' = Front(calls), seen' = seen, deps' = deps
    PROVE  CheckInv'
<1>1. PICK n : n = Len(calls)
  OBVIOUS
<1>2. calls \in Seq(Frames) /\ n \in Nat \ {0} /\ n - 1 \in Nat
  BY <1>1 DEF CheckInv, Frames
<1>3. PICK k : k = calls'
  OBVIOUS
<1>4. k \in Seq(Frames) /\ Len(k) = n - 1 /\ \A i \in 1 .. n - 1 : k[i] = calls[i]
  BY <1>1, <1>2, <1>3 DEF Front
<1>5. PICK top : top = calls[n].node
  OBVIOUS
<1>6. InStack = {calls[i].node : i \in 1 .. n} /\ InStack' = {calls[i].node : i \in 1 .. n - 1}
  <2>1. InStack = {calls[i].node : i \in 1 .. n}
    BY <1>1, <1>2 DEF InStack
  <2>2. InStack' = {k[i].node : i \in 1 .. n - 1}
    BY <1>3, <1>4 DEF InStack
  <2> QED BY <1>4, <2>1, <2>2
<1>7. InStack' = InStack \ {top} /\ top \in InStack
  <2>1. \A i \in 1 .. n : (i \in 1 .. n - 1 \/ i = n) /\ (i \in 1 .. n - 1 => calls[i].node # top)
    BY <1>1, <1>2, <1>5 DEF CheckInv
  <2>2. 1 .. n - 1 \subseteq 1 .. n /\ n \in 1 .. n
    BY <1>2
  <2> QED BY <1>5, <1>6, <2>1, <2>2
<1>8. top \in Tasks /\ top \in seen /\ top \notin Returned /\ Returned' = Returned \cup {top} /\ Returned \subseteq Tasks
  BY <1>7 DEF CheckInv, Returned
<1>9. \A u : Successors(u)' = Successors(u) /\ Predecessors(deps, u)' = Predecessors(deps, u)
  BY DEF Successors, Predecessors
<1>10. Successors(top) \subseteq Returned
  <2>1. n \in 1 .. Len(calls) /\ ~ (n < Len(calls))
    BY <1>1, <1>2
  <2> QED BY <1>1, <1>5, <2>1 DEF CheckInv
<1>11. \A r \in Returned' : Successors(r) \subseteq Returned'
  BY <1>8, <1>10 DEF CheckInv
<1>12. ASSUME NEW S \in SUBSET Returned', S # {}
       PROVE  \E t \in S : Predecessors(deps, t) \cap S = {}
  <2>1. CASE top \in S
    <3>1. ASSUME NEW p \in S, p \in Predecessors(deps, top) PROVE FALSE
      <4>1. top \in Successors(p)
        BY <1>8, <3>1 DEF Successors, Predecessors
      <4>2. Successors(p) \subseteq Returned
        BY <1>8, <1>10, <3>1 DEF CheckInv
      <4> QED BY <1>8, <4>1, <4>2
    <3> QED BY <2>1, <3>1
  <2>2. CASE top \notin S
    <3>1. S \in SUBSET Returned
      BY <1>8, <2>2
    <3> QED BY <1>12, <3>1 DEF CheckInv, AcyclicWithin
  <2> QED BY <2>1, <2>2
<1>13. AcyclicWithin(Returned)'
  BY <1>9, <1>12 DEF AcyclicWithin
<1>14. \A i, j \in 1 .. n - 1 : k[i].node = k[j].node => i = j
  <2>1. 1 .. n - 1 \subseteq 1 .. n
    BY <1>2
  <2> QED BY <1>1, <1>4, <2>1 DEF CheckInv
<1>15. \A i \in 1 .. n - 1 - 1 : <<k[i].node, k[i + 1].node>> \in deps
  <2>1. \A i \in 1 .. n - 1 - 1 : i \in 1 .. n - 1 /\ i + 1 \in 1 .. n - 1
    BY <1>2
  <2> QED BY <1>1, <1>4, <2>1 DEF CheckInv
<1>16. ASSUME NEW i \in 1 .. n - 1
       PROVE  /\ k[i].todo \subseteq Successors(k[i].node)
              /\ \A u \in Successors(k[i].node) \ k[i].todo :
                     u \in Returned' \/ (i < n - 1 /\ u = k[i + 1].node)
  <2>1. i \in 1 .. n /\ i < n /\ (i < n - 1 => i + 1 \in 1 .. n - 1) /\ (~ (i < n - 1) => i + 1 = n)
    BY <1>2
  <2>2. /\ calls[i].todo \subseteq Successors(calls[i].node)
        /\ \A u \in Successors(calls[i].node) \ calls[i].todo : u \in Returned \/ u = calls[i + 1].node
    BY <1>1, <2>1 DEF CheckInv
  <2> QED BY <1>4, <1>5, <1>8, <2>1, <2>2
<1>17. (seen \subseteq Tasks)' /\ (InStack \subseteq seen)'
  BY <1>7 DEF CheckInv
<1>18. (calls \in Seq([node : Tasks, todo : SUBSET Tasks]))' /\ Len(calls)' = n - 1
  BY <1>3, <1>4 DEF Frames
<1>19. (\A i, j \in 1 .. Len(calls) : calls[i].node = calls[j].node => i = j)'
  BY <1>18, <1>3, <1>4, <1>14
<1>20. (\A i \in 1 .. Len(calls) - 1 : <<calls[i].node, calls[i + 1].node>> \in deps)'
  BY <1>18, <1>3, <1>4, <1>15
<1>21. (\A i \in 1 .. Len(calls) :
             /\ calls[i].todo \subseteq Successors(calls[i].node)
             /\ \A u \in Successors(calls[i].node) \ calls[i].todo :
                    u \in Returned \/ (i < Len(calls) /\ u = calls[i + 1].node))'
  BY <1>18, <1>3, <1>4, <1>9, <1>16
<1> QED BY <1>18, <1>19, <1>20, <1>21, <1>9, <1>11, <1>13, <1>17 DEF CheckInv

\* A successor of the innermost active task that is active itself closes a cycle.
LEMMA ActiveClosesCycle ==
    ASSUME CheckInv, calls # << >>, NEW s \in calls[Len(calls)].todo, s \in InStack
    PROVE  ~ Acyclic(deps)
<1>1. PICK n : n = Len(calls)
  OBVIOUS
<1>2. calls \in Seq(Frames) /\ n \in Nat \ {0}
  BY <1>1 DEF CheckInv, Frames
<1>3. PICK i \in 1 .. n : calls[i].node = s
  BY <1>1, <1>2 DEF InStack
<1>4. PICK S : S = {calls[j].node : j \in i .. n}
  OBVIOUS
<1>5. S \in SUBSET Tasks /\ S # {}
  <2>1. i .. n \subseteq 1 .. n /\ i \in i .. n
    BY <1>2
  <2>2. \A j \in 1 .. n : calls[j].node \in Tasks
    BY <1>1, <1>2, CallOfTask
  <2> QED BY <1>4, <2>1, <2>2
<1>6. ASSUME NEW t \in S PROVE Predecessors(deps, t) \cap S # {}
  <2>1. PICK j \in i .. n : t = calls[j].node
    BY <1>4
  <2>2. CASE j = i
    <3>1. n \in i .. n /\ n \in 1 .. n /\ calls[n].node \in Tasks
      BY <1>1, <1>2, CallOfTask
    <3>2. s \in Successors(calls[n].node)
      BY <1>1, <3>1 DEF CheckInv
    <3>3. calls[n].node \in Predecessors(deps, t)
      BY <1>3, <2>1, <2>2, <3>1, <3>2 DEF Successors, Predecessors
    <3>4. calls[n].node \in S
      BY <1>4, <3>1
    <3> QED BY <3>3, <3>4
  <2>3. CASE j # i
    <3>1. j - 1 \in i .. n /\ j - 1 \in 1 .. n - 1 /\ j - 1 + 1 = j /\ j - 1 \in 1 .. n
      BY <1>2, <2>3
    <3>2. <<calls[j - 1].node, calls[j].node>> \in deps /\ calls[j - 1].node \in Tasks
      BY <1>1, <1>2, <3>1, CallOfTask DEF CheckInv
    <3>3. calls[j - 1].node \in S
      BY <1>4, <3>1
    <3> QED BY <2>1, <3>2, <3>3 DEF Predecessors
  <2> QED BY <2>2, <2>3
<1> QED BY <1>5, <1>6 DEF Acyclic

\* A check that went through all tasks has met no cycle.
LEMMA AllReturned ==
    ASSUME CheckInv, calls = << >>, seen = Tasks
    PROVE  Acyclic(deps)
<1>1. InStack = {}
  BY DEF InStack
<1>2. Returned = Tasks
  BY <1>1 DEF Returned
<1> QED BY <1>2 DEF CheckInv, AcyclicWithin, Acyclic

\* The tasks a sequence lists.
LEMMA Listed == ASSUME NEW c \in Seq(Tasks)
                PROVE  ToSet(c) = {c[i] : i \in 1 .. Len(c)} /\ ToSet(c) \subseteq Tasks
BY DEF ToSet

\* A task of the queue is listed: what waits for it alone joins the queue.
LEMMA SortKeeps ==
    ASSUME SortInv, NEW t \in Tasks, Sort(t)
    PROVE  SortInv'
<1>1. PICK n : n = Len(topo)
  OBVIOUS
<1>2. topo \in Seq(Tasks) /\ n \in Nat
  BY <1>1 DEF SortInv
<1>3. PICK k : k = Append(topo, t)
  OBVIOUS
<1>4. k \in Seq(Tasks) /\ Len(k) = n + 1 /\ k[n + 1] = t /\ \A i \in 1 .. n : k[i] = topo[i]
  BY <1>1, <1>2, <1>3
<1>5. topo' = k /\ deps' = deps /\ t \in queue
  BY <1>3 DEF Sort
<1>6. PICK listed : listed = ToSet(topo)
  OBVIOUS
<1>7. listed = {topo[i] : i \in 1 .. n} /\ listed \subseteq Tasks
  BY <1>1, <1>2, <1>6, Listed
<1>8. ToSet(topo)' = listed \cup {t}
  <2>1. ToSet(k) = {k[i] : i \in 1 .. n + 1}
    BY <1>4, Listed
  <2>2. \A i \in 1 .. n + 1 : i \in 1 .. n \/ i = n + 1
    BY <1>2
  <2>3. 1 .. n \subseteq 1 .. n + 1 /\ n + 1 \in 1 .. n + 1
    BY <1>2
  <2>4. ToSet(k) \subseteq listed \cup {t}
    BY <1>4, <1>7, <2>1, <2>2
  <2>5. listed \cup {t} \subseteq ToSet(k)
    BY <1>4, <1>7, <2>1, <2>3
  <2>6. ToSet(topo)' = ToSet(k)
    BY <1>5
  <2> QED BY <2>4, <2>5, <2>6
<1>9. \A u : Predecessors(deps, u)' = Predecessors(deps, u)
  BY <1>5
<1>10. t \notin listed /\ Predecessors(deps, t) \subseteq listed
  BY <1>5, <1>6 DEF SortInv
<1>11. \A u \in listed : Predecessors(deps, u) \subseteq listed
  <2>1. ASSUME NEW i \in 1 .. n, NEW p \in Predecessors(deps, topo[i]) PROVE p \in listed
    <3>1. PICK j \in 1 .. i - 1 : topo[j] = p
      BY <1>1, <2>1 DEF SortInv
    <3>2. j \in 1 .. n
      BY <1>2
    <3> QED BY <1>7, <3>1, <3>2
  <2> QED BY <1>7, <2>1
<1>12. inDegree' = [u \in Tasks |-> Predecessors(deps, u) \ (listed \cup {t})]
  <2>1. \A u \in Tasks : inDegree[u] = Predecessors(deps, u) \ listed
    BY <1>6 DEF SortInv
  <2>2. inDegree' = [u \in Tasks |-> inDegree[u] \ {t}]
    BY DEF Sort
  <2> QED BY <2>1, <2>2
<1>13. queue' = {u \in Tasks : Predecessors(deps, u) \subseteq listed \cup {t}} \ (listed \cup {t})
  <2>1. queue = {u \in Tasks : Predecessors(deps, u) \subseteq listed} \ listed
    BY <1>6 DEF SortInv
  <2>2. queue' = (queue \ {t}) \cup NewlyReady(t)
    BY DEF Sort
  <2>3. \A u : u \in NewlyReady(t) <=>
            u \in Tasks /\ t \in Predecessors(deps, u) /\ Predecessors(deps, u) \ listed = {t}
    BY <1>6 DEF NewlyReady, Successors, Predecessors, SortInv
  <2>4. ASSUME NEW u \in NewlyReady(t)
        PROVE  u \in Tasks /\ Predecessors(deps, u) \subseteq listed \cup {t} /\ u \notin listed /\ u # t
    BY <1>10, <1>11, <2>3
  <2>5. ASSUME NEW u \in Tasks, Predecessors(deps, u) \subseteq listed \cup {t}, u \notin listed, u # t
        PROVE  u \in queue \/ u \in NewlyReady(t)
    BY <1>10, <2>1, <2>3, <2>5
  <2> QED BY <2>1, <2>2, <2>4, <2>5
<1>14. \A i, j \in 1 .. n + 1 : k[i] = k[j] => i = j
  <2>1. \A i \in 1 .. n + 1 : i \in 1 .. n \/ i = n + 1
    BY <1>2
  <2>2. \A i \in 1 .. n : k[i] \in listed
    BY <1>4, <1>7
  <2>3. \A i, j \in 1 .. n : topo[i] = topo[j] => i = j
    BY <1>1 DEF SortInv
  <2> QED BY <1>4, <1>10, <2>1, <2>2, <2>3
<1>15. ASSUME NEW i \in 1 .. n + 1, NEW p \in Predecessors(deps, k[i])
       PROVE  \E j \in 1 .. i - 1 : k[j] = p
  <2>1. CASE i \in 1 .. n
    <3>1. PICK j \in 1 .. i - 1 : topo[j] = p
      BY <1>1, <1>4, <1>15, <2>1 DEF SortInv
    <3>2. j \in 1 .. n
      BY <1>2, <2>1
    <3> QED BY <1>4, <3>1, <3>2
  <2>2. CASE i = n + 1
    <3>1. p \in listed
      BY <1>4, <1>10, <1>15, <2>2
    <3>2. PICK j \in 1 .. n : topo[j] = p
      BY <1>7, <3>1
    <3>3. j \in 1 .. i - 1
      BY <1>2, <2>2
    <3> QED BY <1>4, <3>2, <3>3
  <2> QED BY <1>2, <2>1, <2>2
<1>16. (/\ topo \in Seq(Tasks)
        /\ inDegree = [u \in Tasks |-> Predecessors(deps, u) \ ToSet(topo)]
        /\ queue = {u \in Tasks : Predecessors(deps, u) \subseteq ToSet(topo)} \ ToSet(topo))'
  BY <1>4, <1>5, <1>8, <1>9, <1>12, <1>13
<1>17. (\A i, j \in 1 .. Len(topo) : topo[i] = topo[j] => i = j)'
  BY <1>4, <1>5, <1>14
<1>18. (\A i \in 1 .. Len(topo) : \A p \in Predecessors(deps, topo[i]) : \E j \in 1 .. i - 1 : topo[j] = p)'
  BY <1>4, <1>5, <1>15
<1> QED BY <1>16, <1>17, <1>18 DEF SortInv

\* On a graph without a cycle the queue runs empty only when all are listed.
LEMMA QueueEmpty ==
    ASSUME SortInv, queue = {}, Acyclic(deps)
    PROVE  ToSet(topo) = Tasks
<1>1. PICK rest : rest = Tasks \ ToSet(topo)
  OBVIOUS
<1>2. ASSUME rest # {} PROVE FALSE
  <2>1. PICK t \in rest : Predecessors(deps, t) \cap rest = {}
    BY <1>1, <1>2 DEF Acyclic
  <2>2. Predecessors(deps, t) \subseteq ToSet(topo)
    BY <1>1, <2>1 DEF Predecessors
  <2> QED BY <1>1, <2>1, <2>2 DEF SortInv
<1>3. ToSet(topo) \subseteq Tasks
  BY Listed DEF SortInv
<1> QED BY <1>1, <1>2, <1>3

\* What the function's own variables stand for holds at its start and after
\* each of its steps.
LEMMA CriticalSteps ==
    /\ CriticalInit => CriticalInv
    /\ CriticalInv /\ [CriticalNext]_criticalVars => CriticalInv'
<1>1. ASSUME CriticalInit PROVE CriticalInv
  <2>1. /\ deps \subseteq {e \in Edges : e[1] # e[2]} /\ stage = "check"
        /\ seen = {} /\ calls = << >> /\ topo = << >>
        /\ inDegree = [t \in Tasks |-> Predecessors(deps, t)]
        /\ queue = {t \in Tasks : Predecessors(deps, t) = {}}
    BY <1>1 DEF CriticalInit
  <2>2. InStack = {} /\ Returned = {} /\ Len(calls) = 0
    BY <2>1 DEF InStack, Returned
  <2>3. CheckInv
    BY <2>1, <2>2 DEF CheckInv, AcyclicWithin
  <2>4. topo \in Seq(Tasks) /\ Len(topo) = 0 /\ ToSet(topo) = {}
    BY <2>1 DEF ToSet
  <2>5. SortInv
    BY <2>1, <2>4 DEF SortInv
  <2> QED BY <2>1, <2>3, <2>5 DEF CriticalInv, CycleVerdict
<1>2. ASSUME CriticalInv, [CriticalNext]_criticalVars PROVE CriticalInv'
  <2> USE <1>2
  <2>1. ASSUME UNCHANGED <<deps, seen, calls>> PROVE CheckInv' <=> CheckInv
    <3>1. /\ InStack' = InStack /\ Returned' = Returned
          /\ \A u : Successors(u)' = Successors(u) /\ Predecessors(deps, u)' = Predecessors(deps, u)
      BY <2>1 DEF InStack, Returned, Successors
    <3> QED BY <2>1, <3>1 DEF CheckInv, AcyclicWithin
  <2>2. ASSUME UNCHANGED <<deps, sort>> PROVE (SortInv' <=> SortInv) /\ ToSet(topo)' = ToSet(topo)
    BY <2>2 DEF SortInv, sort
  <2>3. ASSUME NEW t \in Tasks, StartVisit(t) PROVE CriticalInv'
    <3>1. /\ stage = "check" /\ stage' = stage /\ CheckInv /\ calls = << >> /\ t \notin seen
          /\ Visit(t, calls) /\ UNCHANGED <<deps, sort>>
      BY <2>3 DEF StartVisit, CriticalInv
    <3>2. calls \in Seq(Frames) /\ Len(calls) = 0
      BY <3>1 DEF CheckInv, Frames
    <3>3. CheckInv'
      <4>1. 0 \in Nat /\ 0 = Len(calls) /\ ~ (0 > 0) /\ \A i \in 1 .. 0 : FALSE
        BY <3>2
      <4>2. Calling(calls, 0, t)
        BY <4>1 DEF Calling
      <4> QED BY <3>1, <3>2, <4>1, <4>2, VisitKeeps
    <3> QED BY <2>2, <3>1, <3>3 DEF CriticalInv, CycleVerdict, sort
  <2>4. ASSUME NEW s \in Tasks, Neighbour(s) PROVE CriticalInv'
    <3>1. /\ stage = "check" /\ CheckInv /\ calls # << >> /\ s \in calls[Len(calls)].todo
          /\ UNCHANGED <<deps, sort>>
      BY <2>4 DEF Neighbour, CriticalInv
    <3>2. PICK rest : rest = [calls EXCEPT ![Len(calls)].todo = @ \ {s}]
      OBVIOUS
    <3>3. \/ s \notin seen /\ Visit(s, rest) /\ stage' = stage
          \/ s \in InStack /\ stage' = "failed" /\ UNCHANGED check
          \/ s \in seen \ InStack /\ calls' = rest /\ UNCHANGED <<seen, stage>>
      BY <2>4, <3>2 DEF Neighbour
    <3>4. CASE s \notin seen /\ Visit(s, rest) /\ stage' = stage
      <4>1. CheckInv'
        <5>1. rest = Taken(calls, s)
          BY <3>2 DEF Taken
        <5> QED BY <3>1, <3>4, <5>1, NextCall
      <4> QED BY <2>2, <3>1, <3>4, <4>1 DEF CriticalInv, CycleVerdict, sort
    <3>5. CASE s \in InStack /\ stage' = "failed" /\ UNCHANGED check
      <4>1. ~ Acyclic(deps)'
        BY <3>1, <3>5, ActiveClosesCycle
      <4> QED BY <2>2, <3>1, <3>5, <4>1 DEF CriticalInv, CycleVerdict, sort
    <3>6. CASE s \in seen \ InStack /\ calls' = rest /\ UNCHANGED <<seen, stage>>
      <4>1. CheckInv'
        BY <3>1, <3>2, <3>6, PassOnKeeps
      <4> QED BY <2>2, <3>1, <3>6, <4>1 DEF CriticalInv, CycleVerdict, sort
    <3> QED BY <3>3, <3>4, <3>5, <3>6
  <2>5. CASE Return
    <3>1. /\ stage = "check" /\ stage' = stage /\ CheckInv /\ calls # << >>
          /\ calls[Len(calls)].todo = {} /\ calls' = Front(calls) /\ UNCHANGED <<deps, seen, sort>>
      BY <2>5 DEF Return, CriticalInv
    <3>2. CheckInv'
      BY <3>1, ReturnKeeps
    <3> QED BY <2>2, <3>1, <3>2 DEF CriticalInv, CycleVerdict, sort
  <2>6. CASE CheckPassed
    <3>1. /\ stage = "check" /\ stage' = "sort" /\ CheckInv /\ calls = << >> /\ seen = Tasks
          /\ UNCHANGED <<deps, sort>>
      BY <2>6 DEF CheckPassed, CriticalInv
    <3>2. Acyclic(deps)'
      BY <3>1, AllReturned
    <3> QED BY <2>2, <3>1, <3>2 DEF CriticalInv, CycleVerdict
  <2>7. ASSUME NEW t \in Tasks, Sort(t) PROVE CriticalInv'
    <3>1. stage = "sort" /\ stage' = stage /\ deps' = deps
      BY <2>7 DEF Sort
    <3>2. SortInv'
      BY <2>7, SortKeeps DEF CriticalInv
    <3> QED BY <3>1, <3>2 DEF CriticalInv, CycleVerdict
  <2>8. CASE SortDone
    <3>1. /\ stage = "sort" /\ stage' = "relax" /\ queue = {} /\ UNCHANGED <<deps, sort>>
          /\ Acyclic(deps) /\ SortInv
      BY <2>8 DEF SortDone, CriticalInv, CycleVerdict
    <3>2. ToSet(topo) = Tasks
      BY <3>1, QueueEmpty
    <3> QED BY <2>2, <3>1, <3>2 DEF CriticalInv, CycleVerdict
  <2>9. ASSUME UNCHANGED <<deps, sort>>,
               stage \in {"relax", "walk"}, stage' \in {"relax", "walk", "done"}
        PROVE  CriticalInv'
    BY <2>2, <2>9 DEF CriticalInv, CycleVerdict
  <2>10. CASE Relax
    BY <2>9, <2>10 DEF Relax
  <2>11. ASSUME NEW t \in Tasks, ChooseEnd(t) PROVE CriticalInv'
    BY <2>9, <2>11 DEF ChooseEnd
  <2>12. CASE WalkBack
    BY <2>9, <2>12 DEF WalkBack
  <2>13. CASE UNCHANGED criticalVars
    <3>1. UNCHANGED <<deps, stage, seen, calls, sort>>
      BY <2>13 DEF criticalVars, check
    <3>2. UNCHANGED topo
      BY <3>1 DEF sort
    <3> QED BY <2>1, <2>2, <3>1, <3>2 DEF CriticalInv, CycleVerdict
  <2> QED BY <2>3, <2>4, <2>5, <2>6, <2>7, <2>8, <2>10, <2>11, <2>12, <2>13 DEF CriticalNext
<1> QED BY <1>1, <1>2

\* The cycle check raises its error on a graph with a cycle and on no other,
\* for any number of tasks and any graph on them.
THEOREM CheckDecides == CriticalSpec => []CycleVerdict
<1>1. CriticalInv => CycleVerdict
  BY DEF CriticalInv
<1> QED BY <1>1, CriticalSteps, PTL DEF CriticalSpec

\* The sort lists every task once and after all its predecessors, for any
\* number of tasks and any graph the check lets through.
THEOREM SortOrders == CriticalSpec => []TopoIsOrder
<1>1. ASSUME CriticalInv PROVE TopoIsOrder
  <2> SUFFICES ASSUME stage \in {"relax", "walk", "done"}
               PROVE  /\ ToSet(topo) = Tasks /\ IsInjective(topo)
                      /\ \A i, j \in DOMAIN topo : <<topo[i], topo[j]>> \in deps => i < j
    BY DEF TopoIsOrder
  <2>1. PICK n : n = Len(topo)
    OBVIOUS
  <2>2. /\ topo \in Seq(Tasks) /\ n \in Nat /\ DOMAIN topo = 1 .. n
        /\ \A i, j \in 1 .. n : topo[i] = topo[j] => i = j
        /\ \A i \in 1 .. n : \A p \in Predecessors(deps, topo[i]) : \E j \in 1 .. i - 1 : topo[j] = p
    BY <1>1, <2>1 DEF CriticalInv, SortInv
  <2>3. ToSet(topo) = Tasks
    BY <1>1 DEF CriticalInv
  <2>4. IsInjective(topo)
    BY <2>2 DEF IsInjective
  <2>5. ASSUME NEW i \in 1 .. n, NEW j \in 1 .. n, <<topo[i], topo[j]>> \in deps PROVE i < j
    <3>1. topo[i] \in Predecessors(deps, topo[j])
      BY <2>2, <2>5 DEF Predecessors
    <3>2. PICK m \in 1 .. j - 1 : topo[m] = topo[i]
      BY <2>2, <3>1
    <3>3. m \in 1 .. n /\ m < j
      BY <2>2
    <3>4. m = i
      BY <2>2, <3>2, <3>3
    <3> QED BY <3>3, <3>4
  <2> QED BY <2>2, <2>3, <2>4, <2>5
<1> QED BY <1>1, CriticalSteps, PTL DEF CriticalSpec
==============================================================================
