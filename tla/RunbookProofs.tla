----------------------------- MODULE RunbookProofs -----------------------------
(* Proofs about the runbook for any set of tasks and any length of time.  What *)
(* holds for any number of workers is proved for any; the order of execution   *)
(* and the dependency graph are safe only while no two requests overlap, and   *)
(* the theorems that need it say so with OneAtATime.                           *)
EXTENDS Runbook, DependencyDagProofs

OneAtATime == \A v, w \in Workers : v = w

\* What a prepared write still has to be when it is committed.
LegalWrite(r) ==
    /\ r.status \in TASK_TRANSITIONS[status[r.task]]
    /\ r.start <= clock
    /\ r.status = "in_progress" =>
          PredecessorsDone(r.task) /\ (r.start # Unset \/ started[r.task] # Unset)
    /\ r.status \in Ended =>
          r.start = Unset /\ started[r.task] # Unset /\ started[r.task] <= r.end

WritesStillLegal ==
    \A w \in Workers :
        /\ write[w].kind = "edge" => SafeToAdd(deps, write[w].edge[1], write[w].edge[2])
        /\ write[w].kind = "task" => status[write[w].task] # "unused"
        /\ write[w].kind = "task" /\ write[w].task \in rows => LegalWrite(write[w])

\* A task that is or was running has its start recorded, never in the future.
StartsRecorded ==
    /\ \A t \in Tasks : started[t] <= clock
    /\ \A t \in rows : status[t] \in Ended \cup {"in_progress"} => started[t] # Unset

SerialInv ==
    RunbookTypeOK /\ DepsAcyclic /\ WritesStillLegal /\ StartsRecorded /\ EndsAfterStart

------------------------------------------------------------------------------
\* What a worker holds is nothing, a task write or an edge write, by its kind.
LEMMA WriteKinds ==
    ASSUME RunbookTypeOK, NEW w \in Workers
    PROVE  /\ write[w].kind = "nothing" \/ write[w].kind = "task" \/ write[w].kind = "edge"
           /\ write[w].kind = "task" => write[w] \in TaskWrites
           /\ write[w].kind = "edge" => write[w] \in EdgeWrites
BY DEF RunbookTypeOK, Nothing, TaskWrites, EdgeWrites

\* Every request leaves the rows well typed and every dependency between two
\* tasks that exist, however requests interleave.
THEOREM RunbookType == RunbookSpec => []RunbookTypeOK
<1>1. RunbookInit => RunbookTypeOK
  BY RunbookAssumption
     DEF RunbookInit, Init, RunbookTypeOK, rows, TaskStatuses, Times, Unset, Nothing
<1>2. RunbookTypeOK /\ [RunbookNext]_vars => RunbookTypeOK'
  <2> SUFFICES ASSUME RunbookTypeOK, [RunbookNext]_vars
               PROVE  RunbookTypeOK'
    OBVIOUS
  <2> USE DEF RunbookTypeOK
  <2>1. CASE UNCHANGED vars
    BY <2>1 DEF vars, task, rows
  <2>2. ASSUME NEW w \in Workers, NEW r \in TaskWrites \cup EdgeWrites, Prepare(w, r)
        PROVE  RunbookTypeOK'
    BY <2>2 DEF Prepare, task, rows
  <2>3. ASSUME NEW w \in Workers, NEW t \in Tasks, NEW new \in TaskStatuses,
               TransitionTask(w, t, new)
        PROVE  RunbookTypeOK'
    <3> DEFINE r == [kind   |-> "task",
                     task   |-> t,
                     status |-> new,
                     start  |-> StartStamp(t, new),
                     end    |-> EndStamp(t, new)]
    <3>1. r \in TaskWrites
      BY DEF TaskWrites, StartStamp, EndStamp
    <3>2. Prepare(w, r)
      BY <2>3 DEF TransitionTask
    <3>3. QED  BY <2>2, <3>1, <3>2
  <2>4. ASSUME NEW w \in Workers, NEW t \in Tasks, StartTask(w, t) \/ CompleteTask(w, t)
        PROVE  RunbookTypeOK'
    <3>1. PICK r \in TaskWrites : Prepare(w, r)
      <4> DEFINE a == [kind |-> "task", task |-> t, status |-> "in_progress",
                       start |-> clock, end |-> Unset]
                 b == [kind |-> "task", task |-> t, status |-> "completed",
                       start |-> Unset, end |-> clock]
      <4>1. a \in TaskWrites /\ b \in TaskWrites
        BY DEF TaskWrites, TaskStatuses
      <4>2. Prepare(w, a) \/ Prepare(w, b)
        BY <2>4 DEF StartTask, CompleteTask
      <4>3. QED  BY <4>1, <4>2
    <3>2. QED  BY <2>2, <3>1
  <2>5. ASSUME NEW w \in Workers, NEW p \in Tasks, NEW s \in Tasks, AddDependency(w, p, s)
        PROVE  RunbookTypeOK'
    <3> DEFINE r == [kind |-> "edge", edge |-> <<p, s>>]
    <3>1. r \in EdgeWrites
      BY DEF EdgeWrites, Edges
    <3>2. Prepare(w, r)
      BY <2>5 DEF AddDependency
    <3>3. QED  BY <2>2, <3>1, <3>2
  <2>6. ASSUME NEW w \in Workers, CommitTask(w)
        PROVE  RunbookTypeOK'
    <3>1. write[w] \in TaskWrites
      BY <2>6, WriteKinds DEF CommitTask
    <3>2. /\ write[w].status \in TaskStatuses
          /\ write[w].start \in Times \cup {Unset}
          /\ write[w].end \in Times \cup {Unset}
          /\ write[w].task \in Tasks
      BY <3>1 DEF TaskWrites
    <3>3. /\ status' \in [Tasks -> TaskStatuses \cup {"unused", "deleted"}]
          /\ rows' = rows
      BY <2>6, <3>2 DEF CommitTask, rows
    <3>4. started' \in [Tasks -> Times \cup {Unset}] /\ ended' \in [Tasks -> Times \cup {Unset}]
      BY <2>6, <3>2 DEF CommitTask
    <3>5. write' \in [Workers -> {Nothing} \cup TaskWrites \cup EdgeWrites]
      BY <2>6 DEF CommitTask
    <3>6. QED  BY <2>6, <3>3, <3>4, <3>5 DEF CommitTask
  <2>7. ASSUME NEW w \in Workers, CommitEdge(w)
        PROVE  RunbookTypeOK'
    BY <2>7 DEF CommitEdge, task, rows
  <2>8. ASSUME NEW t \in Tasks, CreateTask(t)
        PROVE  RunbookTypeOK'
    BY <2>8 DEF CreateTask, rows, TaskStatuses
  <2>9. ASSUME NEW T \in SUBSET Tasks, DeleteTasks(T)
        PROVE  RunbookTypeOK'
    BY <2>9 DEF DeleteTasks, DependenciesOf, rows, TaskStatuses
  <2>10. ASSUME NEW e \in Edges, DeleteDependency(e)
         PROVE  RunbookTypeOK'
    BY <2>10 DEF DeleteDependency, task, rows
  <2>11. CASE Tick
    BY <2>11, RunbookAssumption DEF Tick, task, rows, Times
  <2>12. QED
    BY <2>1, <2>3, <2>4, <2>5, <2>6, <2>7, <2>8, <2>9, <2>10, <2>11 DEF RunbookNext
<1>3. QED  BY <1>1, <1>2, PTL DEF RunbookSpec

\* The war room's count of blocked tasks and the check of start_task agree,
\* because no dependency outlives a task.
THEOREM BlockedAgrees == RunbookSpec => []BlockedIsRefused
<1>1. RunbookTypeOK => BlockedIsRefused
  BY DEF RunbookTypeOK, BlockedIsRefused, Blocked, PredecessorsDone, Predecessors
<1>2. QED  BY <1>1, RunbookType, PTL

------------------------------------------------------------------------------
(* One request at a time                                                      *)

\* A request that has just checked its write holds a legal one.
LEMMA PrepareKeeps ==
    ASSUME SerialInv, NEW w \in Workers, NEW r \in TaskWrites \cup EdgeWrites, Prepare(w, r),
           r.kind = "edge" => SafeToAdd(deps, r.edge[1], r.edge[2]),
           r.kind = "task" => r.task \in rows /\ LegalWrite(r)
    PROVE  DepsAcyclic' /\ WritesStillLegal' /\ StartsRecorded' /\ EndsAfterStart'
<1> USE DEF SerialInv
<1>1. /\ UNCHANGED <<deps, status, started, ended, clock, rows>>
      /\ write' = [write EXCEPT ![w] = r]
  BY DEF Prepare, task, rows
<1>2. DepsAcyclic' /\ StartsRecorded' /\ EndsAfterStart'
  BY <1>1 DEF DepsAcyclic, StartsRecorded, EndsAfterStart
<1>3. ASSUME NEW v \in Workers
      PROVE  /\ write'[v].kind = "edge" => SafeToAdd(deps, write'[v].edge[1], write'[v].edge[2])
             /\ write'[v].kind = "task" => status[write'[v].task] # "unused"
             /\ write'[v].kind = "task" /\ write'[v].task \in rows => LegalWrite(write'[v])
  <2>1. write'[v] = IF v = w THEN r ELSE write[v]
    BY <1>1 DEF RunbookTypeOK
  <2>2. CASE v = w
    BY <2>1, <2>2 DEF rows, TaskStatuses
  <2>3. CASE v # w
    BY <2>1, <2>3 DEF WritesStillLegal
  <2>4. QED  BY <2>2, <2>3
<1>4. WritesStillLegal'
  BY <1>1, <1>3 DEF WritesStillLegal, LegalWrite, PredecessorsDone
<1>5. QED  BY <1>2, <1>4

\* The guards of the three task requests are what makes their writes legal.
LEMMA TaskRequestsKeep ==
    ASSUME SerialInv, NEW w \in Workers, NEW t \in Tasks, NEW new \in TaskStatuses,
           TransitionTask(w, t, new) \/ StartTask(w, t) \/ CompleteTask(w, t)
    PROVE  DepsAcyclic' /\ WritesStillLegal' /\ StartsRecorded' /\ EndsAfterStart'
<1> USE DEF SerialInv
<1> DEFINE Row(st, from, to) ==
        [kind |-> "task", task |-> t, status |-> st, start |-> from, end |-> to]
<1>1. /\ clock \in Times /\ clock # Unset /\ started[t] \in Times \cup {Unset}
      /\ started[t] <= clock /\ Unset <= clock /\ clock <= clock
  BY DEF RunbookTypeOK, StartsRecorded, Times, Unset
<1>2. PICK st \in TaskStatuses, from \in Times \cup {Unset}, to \in Times \cup {Unset} :
          /\ Prepare(w, Row(st, from, to))
          /\ t \in rows /\ st \in TASK_TRANSITIONS[status[t]]
          /\ st = "in_progress" => PredecessorsDone(t) /\ (from # Unset \/ started[t] # Unset)
          /\ st \in Ended => from = Unset /\ to = clock
          /\ from <= clock
  <2>1. CASE TransitionTask(w, t, new)
    <3> DEFINE from == IF new = "in_progress" /\ started[t] = Unset THEN clock ELSE Unset
               to == IF new \in Ended THEN clock ELSE Unset
    <3>1. /\ Prepare(w, Row(new, from, to))
          /\ t \in rows /\ new \in TASK_TRANSITIONS[status[t]]
          /\ new = "in_progress" => PredecessorsDone(t)
      BY <2>1 DEF TransitionTask, MayBecome, StartStamp, EndStamp
    <3>2. "in_progress" \notin Ended
      BY DEF Ended
    <3>3. from \in Times \cup {Unset} /\ to \in Times \cup {Unset} /\ from <= clock
      BY <1>1
    <3> HIDE DEF Row
    <3>4. QED  BY <1>1, <3>1, <3>2, <3>3
  <2>2. CASE StartTask(w, t)
    <3>1. /\ Prepare(w, Row("in_progress", clock, Unset))
          /\ t \in rows /\ "in_progress" \in TASK_TRANSITIONS[status[t]]
          /\ PredecessorsDone(t)
      BY <2>2 DEF StartTask, rows, TaskStatuses, TASK_TRANSITIONS
    <3>2. "in_progress" \in TaskStatuses /\ "in_progress" \notin Ended
      BY DEF TaskStatuses, Ended
    <3> HIDE DEF Row
    <3>3. QED  BY <1>1, <3>1, <3>2
  <2>3. CASE CompleteTask(w, t)
    <3>1. /\ Prepare(w, Row("completed", Unset, clock))
          /\ t \in rows /\ "completed" \in TASK_TRANSITIONS[status[t]]
      BY <2>3 DEF CompleteTask, rows, TaskStatuses, TASK_TRANSITIONS
    <3>2. "completed" \in TaskStatuses /\ "completed" # "in_progress"
      BY DEF TaskStatuses
    <3> HIDE DEF Row
    <3>3. QED  BY <1>1, <3>1, <3>2
  <2>4. QED  BY <2>1, <2>2, <2>3
<1>3. Row(st, from, to) \in TaskWrites
  BY DEF TaskWrites
<1>4. st \in Ended => started[t] # Unset
  <2>1. st \in Ended => status[t] \in Ended \cup {"in_progress"}
    BY <1>2 DEF rows, TaskStatuses, TASK_TRANSITIONS, Ended
  <2>2. QED  BY <1>2, <2>1 DEF StartsRecorded
<1>5. LegalWrite(Row(st, from, to))
  BY <1>1, <1>2, <1>4 DEF LegalWrite
<1>6. QED  BY <1>2, <1>3, <1>5, PrepareKeeps

\* What is committed was still legal: nothing but deletions came in between.
LEMMA CommitTaskKeeps ==
    ASSUME OneAtATime, SerialInv, NEW w \in Workers, CommitTask(w)
    PROVE  DepsAcyclic' /\ WritesStillLegal' /\ StartsRecorded' /\ EndsAfterStart'
<1> USE DEF SerialInv
<1> DEFINE r == write[w]
<1>1. r \in TaskWrites /\ deps' = deps /\ clock' = clock
  BY WriteKinds DEF CommitTask
<1>2. \A v \in Workers : write'[v] = Nothing
  BY DEF CommitTask, OneAtATime, RunbookTypeOK
<1>3. DepsAcyclic' /\ WritesStillLegal'
  BY <1>1, <1>2 DEF DepsAcyclic, WritesStillLegal, Nothing
<1>4. CASE r.task \notin rows
  <2>1. UNCHANGED <<status, started, ended, rows>>
    BY <1>4 DEF CommitTask, rows
  <2>2. QED  BY <1>1, <1>3, <2>1 DEF StartsRecorded, EndsAfterStart
<1>5. CASE r.task \in rows
  <2>1. /\ r.task \in Tasks /\ r.status \in TaskStatuses
        /\ r.start \in Times \cup {Unset} /\ r.end \in Times \cup {Unset}
    BY <1>1 DEF TaskWrites
  <2>2. /\ status' = [status EXCEPT ![r.task] = r.status]
        /\ started' = [started EXCEPT ![r.task] = IF r.start = Unset THEN @ ELSE r.start]
        /\ ended' = [ended EXCEPT ![r.task] = IF r.end = Unset THEN @ ELSE r.end]
        /\ rows' = rows
    BY <1>5, <2>1 DEF CommitTask, rows, RunbookTypeOK
  <2>3. LegalWrite(r) /\ r.kind = "task"
    BY <1>5 DEF WritesStillLegal, CommitTask
  <2>4. StartsRecorded'
    BY <1>1, <2>1, <2>2, <2>3
       DEF StartsRecorded, LegalWrite, RunbookTypeOK, Ended, Times, Unset
  <2>5. EndsAfterStart'
    BY <2>1, <2>2, <2>3 DEF EndsAfterStart, LegalWrite, RunbookTypeOK, Ended, Times, Unset
  <2>6. QED  BY <1>3, <2>4, <2>5
<1>6. QED  BY <1>4, <1>5

\* The edge is inserted if its tasks are still there, and closes no cycle then.
LEMMA CommitEdgeKeeps ==
    ASSUME OneAtATime, SerialInv, NEW w \in Workers, CommitEdge(w)
    PROVE  DepsAcyclic' /\ WritesStillLegal' /\ StartsRecorded' /\ EndsAfterStart'
<1> USE DEF SerialInv
<1>1. write[w] \in EdgeWrites /\ write[w].kind = "edge" /\ UNCHANGED <<task, clock, rows>>
  BY WriteKinds DEF CommitEdge, task, rows
<1>2. \A v \in Workers : write'[v] = Nothing
  BY DEF CommitEdge, OneAtATime, RunbookTypeOK
<1>3. WritesStillLegal'
  BY <1>2 DEF WritesStillLegal, Nothing
<1>4. StartsRecorded' /\ EndsAfterStart'
  BY <1>1 DEF StartsRecorded, EndsAfterStart, task
<1>5. DepsAcyclic'
  <2> DEFINE e == write[w].edge
  <2>1. e[1] \in Tasks /\ e[2] \in Tasks /\ e = <<e[1], e[2]>>
    BY <1>1 DEF EdgeWrites, Edges
  <2>2. SafeToAdd(deps, e[1], e[2])
    BY <1>1 DEF WritesStillLegal
  <2>3. deps' = deps \/ deps' = deps \cup {<<e[1], e[2]>>}
    BY <2>1 DEF CommitEdge
  <2>4. QED  BY <2>1, <2>2, <2>3, AddKeepsAcyclic DEF DepsAcyclic
<1>6. QED  BY <1>3, <1>4, <1>5

\* Creating and deleting rows, and time, leave a checked write legal: they only
\* take predecessors away, and a new task precedes nothing.
LEMMA OthersKeep ==
    ASSUME SerialInv, RunbookTypeOK',
           \/ \E t \in Tasks : CreateTask(t)
           \/ \E T \in SUBSET Tasks : DeleteTasks(T)
           \/ \E e \in Edges : DeleteDependency(e)
           \/ Tick
           \/ UNCHANGED vars
    PROVE  DepsAcyclic' /\ WritesStillLegal' /\ StartsRecorded' /\ EndsAfterStart'
<1> USE DEF SerialInv
<1>1. deps' \in SUBSET deps /\ UNCHANGED <<started, ended, write>> /\ clock <= clock'
  BY DEF CreateTask, DeleteTasks, DeleteDependency, Tick, vars, task, RunbookTypeOK, Times
<1>2. \A t \in Tasks : \/ status'[t] = status[t]
                       \/ status[t] = "unused" /\ status'[t] = "not_started"
                       \/ status'[t] = "deleted" /\ t \in rows
  BY DEF CreateTask, DeleteTasks, DeleteDependency, Tick, vars, task, RunbookTypeOK
<1>3. DepsAcyclic'
  BY <1>1, SubsetKeepsAcyclic DEF DepsAcyclic
<1>4. ASSUME NEW t \in rows' PROVE
          \/ t \in rows /\ status'[t] = status[t]
          \/ status[t] = "unused" /\ status'[t] = "not_started"
  BY <1>2 DEF rows, TaskStatuses
<1>5. StartsRecorded' /\ EndsAfterStart'
  <2>1. \A t \in rows' : status'[t] \in Ended \cup {"in_progress"} =>
            t \in rows /\ status'[t] = status[t]
    BY <1>4 DEF Ended
  <2>2. \A t \in Tasks : started'[t] <= clock'
    BY <1>1 DEF StartsRecorded, RunbookTypeOK, Times, Unset
  <2>3. QED  BY <1>1, <2>1, <2>2 DEF StartsRecorded, EndsAfterStart, rows
<1>6. ASSUME NEW t \in rows, PredecessorsDone(t) PROVE PredecessorsDone(t)'
  <2> SUFFICES ASSUME NEW p \in Predecessors(deps', t) \cap rows'
               PROVE  status'[p] \in Done
    BY DEF PredecessorsDone
  <2>1. <<p, t>> \in deps /\ p \in Predecessors(deps, t) \cap rows
    BY <1>1 DEF Predecessors, RunbookTypeOK
  <2>2. status'[p] = status[p]
    BY <1>4, <2>1 DEF rows, TaskStatuses
  <2>3. QED  BY <1>6, <2>1, <2>2 DEF PredecessorsDone
<1>7. ASSUME NEW w \in Workers
      PROVE  /\ write[w].kind = "edge" => SafeToAdd(deps', write[w].edge[1], write[w].edge[2])
             /\ write[w].kind = "task" => status'[write[w].task] # "unused"
             /\ write[w].kind = "task" /\ write[w].task \in rows' => LegalWrite(write[w])'
  <2>1. write[w].kind = "edge" => SafeToAdd(deps', write[w].edge[1], write[w].edge[2])
    BY <1>1, SubsetKeepsSafe DEF WritesStillLegal
  <2>2. ASSUME write[w].kind = "task"
        PROVE  /\ status'[write[w].task] # "unused"
               /\ write[w].task \in rows' => LegalWrite(write[w])'
    <3> DEFINE r == write[w]
    <3>1. r.task \in Tasks /\ status[r.task] # "unused" /\ r.start \in Times \cup {Unset}
      BY <2>2, WriteKinds DEF TaskWrites, WritesStillLegal
    <3>2. status'[r.task] # "unused"
      BY <1>2, <3>1
    <3>3. ASSUME r.task \in rows' PROVE LegalWrite(r)'
      <4>1. r.task \in rows /\ status'[r.task] = status[r.task] /\ LegalWrite(r)
        BY <1>4, <2>2, <3>1, <3>3 DEF WritesStillLegal
      <4>2. r.start <= clock'
        BY <1>1, <3>1, <4>1 DEF LegalWrite, RunbookTypeOK, Times, Unset
      <4>3. PredecessorsDone(r.task) => PredecessorsDone(r.task)'
        BY <1>1, <1>6, <4>1 DEF PredecessorsDone
      <4>4. QED  BY <1>1, <4>1, <4>2, <4>3 DEF LegalWrite
    <3>4. QED  BY <3>2, <3>3
  <2>3. QED  BY <2>1, <2>2
<1>8. WritesStillLegal'
  BY <1>1, <1>7 DEF WritesStillLegal
<1>9. QED  BY <1>3, <1>5, <1>8

\* SerialInv is inductive.
LEMMA SerialInvHolds ==
    ASSUME OneAtATime
    PROVE  RunbookSpec => []SerialInv
<1>1. RunbookInit => SerialInv
  <2> SUFFICES ASSUME RunbookInit PROVE SerialInv
    OBVIOUS
  <2>1. RunbookTypeOK
    BY RunbookAssumption
       DEF RunbookInit, Init, RunbookTypeOK, rows, TaskStatuses, Times, Unset, Nothing
  <2>2. DepsAcyclic
    BY DEF RunbookInit, Init, DepsAcyclic, Acyclic, Predecessors
  <2>3. rows = {}
    BY DEF RunbookInit, rows, TaskStatuses
  <2>4. WritesStillLegal /\ StartsRecorded /\ EndsAfterStart
    BY <2>3 DEF RunbookInit, WritesStillLegal, StartsRecorded, EndsAfterStart, Nothing, Unset
  <2>5. QED  BY <2>1, <2>2, <2>4 DEF SerialInv
<1>2. SerialInv /\ RunbookTypeOK' /\ [RunbookNext]_vars => SerialInv'
  <2> SUFFICES ASSUME SerialInv, RunbookTypeOK', [RunbookNext]_vars
               PROVE  DepsAcyclic' /\ WritesStillLegal' /\ StartsRecorded' /\ EndsAfterStart'
    BY DEF SerialInv
  <2> DEFINE Kept == DepsAcyclic' /\ WritesStillLegal' /\ StartsRecorded' /\ EndsAfterStart'
  <2>1. ASSUME NEW w \in Workers, NEW t \in Tasks, NEW new \in TaskStatuses,
               TransitionTask(w, t, new) \/ StartTask(w, t) \/ CompleteTask(w, t)
        PROVE  Kept
    BY <2>1, TaskRequestsKeep
  <2>2. ASSUME NEW w \in Workers, NEW p \in Tasks, NEW s \in Tasks, AddDependency(w, p, s)
        PROVE  Kept
    <3> DEFINE r == [kind |-> "edge", edge |-> <<p, s>>]
    <3>1. r \in TaskWrites \cup EdgeWrites
      BY DEF EdgeWrites, Edges
    <3>2. Prepare(w, r) /\ SafeToAdd(deps, r.edge[1], r.edge[2]) /\ r.kind # "task"
      BY <2>2 DEF AddDependency
    <3>3. QED  BY <3>1, <3>2, PrepareKeeps
  <2>3. ASSUME NEW w \in Workers, CommitTask(w) \/ CommitEdge(w)
        PROVE  Kept
    BY <2>3, CommitTaskKeeps, CommitEdgeKeeps
  <2>4. CASE \/ \E t \in Tasks : CreateTask(t)
             \/ \E T \in SUBSET Tasks : DeleteTasks(T)
             \/ \E e \in Edges : DeleteDependency(e)
             \/ Tick
             \/ UNCHANGED vars
    BY <2>4, OthersKeep
  <2>5. "completed" \in TaskStatuses
    BY DEF TaskStatuses
  <2>6. QED  BY <2>1, <2>2, <2>3, <2>4, <2>5 DEF RunbookNext
<1>3. QED  BY <1>1, <1>2, RunbookType, PTL DEF RunbookSpec

\* Whatever was created, linked, deleted, rolled back or reset, there is always
\* an open task the dependency check lets through: of the open tasks, one waits
\* for no other open one.
THEOREM RunbookNeverStuck ==
    ASSUME OneAtATime
    PROVE  RunbookSpec => []NeverStuck
<1>1. SerialInv => NeverStuck
  <2> SUFFICES ASSUME SerialInv, Open # {}
               PROVE  \E t \in Open : PredecessorsDone(t)
    BY DEF NeverStuck
  <2>1. PICK t \in Open : Predecessors(deps, t) \cap Open = {}
    BY DEF SerialInv, DepsAcyclic, Acyclic, Open, rows
  <2>2. PredecessorsDone(t)
    BY <2>1 DEF PredecessorsDone, Open
  <2>3. QED  BY <2>2
<1>2. QED  BY <1>1, SerialInvHolds, PTL

\* A recorded end is never before the recorded start, over any number of
\* failures, retries, roll-backs and second runs.
THEOREM RunbookEndsAfterStart ==
    ASSUME OneAtATime
    PROVE  RunbookSpec => []EndsAfterStart
<1>1. SerialInv => EndsAfterStart
  BY DEF SerialInv
<1>2. QED  BY <1>1, SerialInvHolds, PTL

\* While requests do not overlap, the finish-to-start constraint holds of every
\* start, through either endpoint, at the moment it becomes visible.
THEOREM RunbookStartsAfterPredecessors ==
    ASSUME OneAtATime
    PROVE  RunbookSpec => StartsAfterPredecessors
<1> DEFINE Ordered ==
        \A t \in Tasks : status[t] # "in_progress" /\ status'[t] = "in_progress" => PredecessorsDone(t)
<1>1. SerialInv /\ [RunbookNext]_vars => [Ordered]_vars
  <2> SUFFICES ASSUME SerialInv, [RunbookNext]_vars,
                      NEW t \in Tasks, status[t] # "in_progress", status'[t] = "in_progress"
               PROVE  PredecessorsDone(t)
    OBVIOUS
  <2>1. PICK w \in Workers : CommitTask(w)
    BY DEF RunbookNext, vars, task, TransitionTask, StartTask, CompleteTask, AddDependency,
           Prepare, CommitEdge, CreateTask, DeleteTasks, DeleteDependency, Tick,
           SerialInv, RunbookTypeOK
  <2> DEFINE r == write[w]
  <2>2. r.kind = "task" /\ r.task \in rows /\ status' = [status EXCEPT ![r.task] = r.status]
    BY <2>1 DEF CommitTask
  <2>3. r.task = t /\ r.status = "in_progress"
    BY <2>2 DEF SerialInv, RunbookTypeOK, rows
  <2>4. QED  BY <2>2, <2>3 DEF SerialInv, WritesStillLegal, LegalWrite
<1>2. QED  BY <1>1, SerialInvHolds, PTL DEF RunbookSpec, StartsAfterPredecessors

\* While requests do not overlap, the executed runbook's dependencies behave as
\* DependencyDag says.
THEOREM RunbookImplementsDag ==
    ASSUME OneAtATime
    PROVE  RunbookSpec => ImplementsDag
<1>1. RunbookInit => Init
  BY DEF RunbookInit
<1>2. SerialInv /\ [RunbookNext]_vars => [Next]_deps
  <2> SUFFICES ASSUME SerialInv, [RunbookNext]_vars
               PROVE  [Next]_deps
    OBVIOUS
  <2>1. CASE UNCHANGED deps
    BY <2>1
  <2>2. ASSUME NEW w \in Workers, CommitEdge(w)
        PROVE  [Next]_deps
    <3> DEFINE e == write[w].edge
    <3>1. write[w] \in EdgeWrites /\ write[w].kind = "edge"
      BY <2>2, WriteKinds DEF CommitEdge, SerialInv
    <3>2. e[1] \in Tasks /\ e[2] \in Tasks /\ e = <<e[1], e[2]>>
      BY <3>1 DEF EdgeWrites, Edges
    <3>3. SafeToAdd(deps, e[1], e[2])
      BY <3>1 DEF SerialInv, WritesStillLegal
    <3>4. deps' = deps \/ Add(e[1], e[2])
      BY <2>2, <3>2, <3>3 DEF CommitEdge, Add
    <3>5. QED  BY <3>2, <3>4 DEF Next
  <2>3. ASSUME NEW e \in Edges, DeleteDependency(e)
        PROVE  Next
    <3>1. Drop({e}) /\ {e} \in SUBSET deps
      BY <2>3 DEF DeleteDependency, Drop
    <3>2. QED  BY <3>1 DEF Next
  <2>4. ASSUME NEW T \in SUBSET Tasks, DeleteTasks(T)
        PROVE  [Next]_deps
    <3> DEFINE E == DependenciesOf(deps, T)
    <3>1. deps' = deps \ E /\ E \in SUBSET deps
      BY <2>4 DEF DeleteTasks, DependenciesOf
    <3>2. CASE E = {}
      BY <3>1, <3>2
    <3>3. CASE E # {}
      BY <3>1, <3>3 DEF Next, Drop
    <3>4. QED  BY <3>2, <3>3
  <2>5. QED
    BY <2>1, <2>2, <2>3, <2>4
       DEF RunbookNext, TransitionTask, StartTask, CompleteTask, AddDependency, Prepare,
           CommitTask, CreateTask, Tick, vars
<1>3. QED  BY <1>1, <1>2, SerialInvHolds, PTL DEF RunbookSpec, ImplementsDag, Spec
==============================================================================
