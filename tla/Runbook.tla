------------------------------- MODULE Runbook -------------------------------
(* The runbook of one cutover plan while it is executed: the status of its    *)
(* tasks, the times the war room shows, and the dependencies that decide what *)
(* may start.  A request first loads rows and checks them, then commits what  *)
(* it computed; nothing locks the rows in between, so a Worker's check and    *)
(* its commit are two steps and other requests run between them.  The cycle   *)
(* check, which DependencyWalk takes apart, is one step here.                 *)
EXTENDS DependencyDag

CONSTANTS
    Workers,    \* request threads
    MaxTime     \* bound on the clock

ASSUME RunbookAssumption == MaxTime \in Nat \ {0}

VARIABLES
    status,     \* RunbookTask.status; "unused" and "deleted" ids have no row
    started,    \* RunbookTask.actual_start, Unset or a time
    ended,      \* RunbookTask.actual_end
    clock,      \* the time of day
    write       \* what each worker is about to commit

task == <<status, started, ended>>
vars == <<deps, task, clock, write>>

TaskStatuses ==
    {"not_started", "in_progress", "completed", "failed", "skipped", "rolled_back"}

TASK_TRANSITIONS == [
    not_started |-> {"in_progress", "skipped"},
    in_progress |-> {"completed", "failed", "rolled_back"},
    completed   |-> {"rolled_back"},
    failed      |-> {"in_progress", "rolled_back", "skipped"},
    skipped     |-> {"not_started"},
    rolled_back |-> {"not_started"}]

Done == {"completed", "skipped"}
Ended == {"completed", "failed", "rolled_back"}

Unset == 0
Times == 1 .. MaxTime

\* What a request is about to write.  None writes an unset time: it stands
\* for an attribute the request leaves alone.
Nothing == [kind |-> "nothing"]

TaskWrites == [kind : {"task"}, task : Tasks, status : TaskStatuses,
               start : Times \cup {Unset}, end : Times \cup {Unset}]
EdgeWrites == [kind : {"edge"}, edge : Edges]

rows == {t \in Tasks : status[t] \in TaskStatuses}

PredecessorsDone(t) ==
    \A p \in Predecessors(deps, t) \cap rows : status[p] \in Done

RunbookInit ==
    /\ Init
    /\ status = [t \in Tasks |-> "unused"]
    /\ started = [t \in Tasks |-> Unset]
    /\ ended = [t \in Tasks |-> Unset]
    /\ clock = 1
    /\ write = [w \in Workers |-> Nothing]

Prepare(w, r) ==
    /\ write[w] = Nothing
    /\ write' = [write EXCEPT ![w] = r]
    /\ UNCHANGED <<deps, task, clock>>

\* Mutant: a retry of a failed task does not look at its predecessors again.
MayBecomeOnRetry(t, new) ==
    /\ new \in TASK_TRANSITIONS[status[t]]
    /\ new = "in_progress" /\ status[t] = "not_started" => PredecessorsDone(t)

MayBecome(t, new) ==
    /\ new \in TASK_TRANSITIONS[status[t]]
    /\ new = "in_progress" => PredecessorsDone(t)

\* Mutant: the end is stamped once, as a plan's is.
FirstEndStamp(t, new) == IF new \in Ended /\ ended[t] = Unset THEN clock ELSE Unset

\* The first start is recorded, every end is.
StartStamp(t, new) == IF new = "in_progress" /\ started[t] = Unset THEN clock ELSE Unset
EndStamp(t, new) == IF new \in Ended THEN clock ELSE Unset

\* POST /tasks/<id>/transition: any legal step.
TransitionTask(w, t, new) ==
    /\ t \in rows
    /\ MayBecome(t, new)
    /\ Prepare(w, [kind |-> "task", task |-> t, status |-> new,
                   start |-> StartStamp(t, new), end |-> EndStamp(t, new)])

\* POST /cutover/.../tasks/<id>/start of the war room: every start is recorded.
StartTask(w, t) ==
    /\ status[t] = "not_started"
    /\ PredecessorsDone(t)
    /\ Prepare(w, [kind |-> "task", task |-> t, status |-> "in_progress",
                   start |-> clock, end |-> Unset])

\* .../complete of the war room.
CompleteTask(w, t) ==
    /\ status[t] = "in_progress"
    /\ Prepare(w, [kind |-> "task", task |-> t, status |-> "completed",
                   start |-> Unset, end |-> clock])

\* Mutant: the cycle check only refuses a task as its own predecessor.
AddUnlessSelf(w, p, s) ==
    /\ p \in rows /\ s \in rows
    /\ p # s
    /\ <<p, s>> \notin deps
    /\ Prepare(w, [kind |-> "edge", edge |-> <<p, s>>])

AddDependency(w, p, s) ==
    /\ p \in rows /\ s \in rows
    /\ SafeToAdd(deps, p, s)
    /\ <<p, s>> \notin deps
    /\ Prepare(w, [kind |-> "edge", edge |-> <<p, s>>])

\* The UPDATE writes the attributes the request changed, over whatever the row
\* holds by now; the row itself must still be there.
CommitTask(w) ==
    /\ write[w].kind = "task"
    /\ LET r == write[w] IN
       IF r.task \in rows
       THEN /\ status' = [status EXCEPT ![r.task] = r.status]
            /\ started' = [started EXCEPT ![r.task] = IF r.start = Unset THEN @ ELSE r.start]
            /\ ended' = [ended EXCEPT ![r.task] = IF r.end = Unset THEN @ ELSE r.end]
       ELSE UNCHANGED <<status, started, ended>>
    /\ write' = [write EXCEPT ![w] = Nothing]
    /\ UNCHANGED <<deps, clock>>

\* The INSERT passes the foreign keys and the unique constraint or fails.
CommitEdge(w) ==
    /\ write[w].kind = "edge"
    /\ deps' = IF write[w].edge \in rows \X rows THEN deps \cup {write[w].edge} ELSE deps
    /\ write' = [write EXCEPT ![w] = Nothing]
    /\ UNCHANGED <<task, clock>>

CreateTask(t) ==
    /\ status[t] = "unused"
    /\ status' = [status EXCEPT ![t] = "not_started"]
    /\ UNCHANGED <<deps, started, ended, clock, write>>

\* A task is deleted, or a scope item with all its tasks.
DeleteTasks(T) ==
    /\ T # {} /\ T \subseteq rows
    /\ status' = [t \in Tasks |-> IF t \in T THEN "deleted" ELSE status[t]]
    /\ deps' = deps \ DependenciesOf(deps, T)
    /\ UNCHANGED <<started, ended, clock, write>>

DeleteDependency(e) ==
    /\ e \in deps
    /\ deps' = deps \ {e}
    /\ UNCHANGED <<task, clock, write>>

Tick ==
    /\ clock < MaxTime
    /\ clock' = clock + 1
    /\ UNCHANGED <<deps, task, write>>

\* Mutant: a skipped predecessor still blocks.
BlockedUntilCompleted ==
    {t \in rows : /\ status[t] = "not_started"
                  /\ ~ (Predecessors(deps, t) \subseteq {p \in rows : status[p] = "completed"})}

\* _count_blocked_tasks, the war room's blocked tasks: a not started one with a
\* predecessor outside the done ones.
Blocked ==
    {t \in rows : /\ status[t] = "not_started"
                  /\ ~ (Predecessors(deps, t) \subseteq {p \in rows : status[p] \in Done})}

RunbookNext ==
    \/ \E w \in Workers, t \in Tasks :
          \/ \E new \in TaskStatuses : TransitionTask(w, t, new)
          \/ StartTask(w, t)
          \/ CompleteTask(w, t)
          \/ \E s \in Tasks : AddDependency(w, t, s)
    \/ \E w \in Workers : CommitTask(w) \/ CommitEdge(w)
    \/ \E t \in Tasks : CreateTask(t)
    \/ \E T \in SUBSET Tasks : DeleteTasks(T)
    \/ \E e \in Edges : DeleteDependency(e)
    \/ Tick

RunbookSpec == RunbookInit /\ [][RunbookNext]_vars

------------------------------------------------------------------------------
RunbookTypeOK ==
    /\ deps \subseteq rows \X rows
    /\ status \in [Tasks -> TaskStatuses \cup {"unused", "deleted"}]
    /\ started \in [Tasks -> Times \cup {Unset}]
    /\ ended \in [Tasks -> Times \cup {Unset}]
    /\ clock \in Times
    /\ write \in [Workers -> {Nothing} \cup TaskWrites \cup EdgeWrites]

\* The runbook can always be worked off: while some task is open there is an
\* open one whose predecessors are all done, so that start_task, a restart, a
\* completion or a reset of it is not refused by the dependency check.
Open == {t \in rows : status[t] \notin Done}

NeverStuck == Open # {} => \E t \in Open : PredecessorsDone(t)

\* The war room counts a waiting task as blocked exactly when starting it would
\* be refused.
BlockedIsRefused ==
    \A t \in rows : status[t] = "not_started" => (t \in Blocked <=> ~ PredecessorsDone(t))

\* A task is started, for the first time or again, only while all the tasks it
\* depends on are completed or skipped.
StartsAfterPredecessors ==
    [][\A t \in Tasks :
          status[t] # "in_progress" /\ status'[t] = "in_progress" => PredecessorsDone(t)]_vars

\* A task that ended, well or badly, was started before, and its recorded end
\* is not before its recorded start: actual_duration_min is never negative.
EndsAfterStart ==
    \A t \in rows : status[t] \in Ended =>
        Unset < started[t] /\ started[t] <= ended[t]
==============================================================================
