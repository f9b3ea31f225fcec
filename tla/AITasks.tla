------------------------------- MODULE AITasks -------------------------------
(* Workflows that run in the background: a row for each, and a daemon thread  *)
(* of the web process that took the request.  The thread makes an application *)
(* of its own, runs the workflow and writes the outcome.  A cancellation only *)
(* flushes: its request never commits, but it holds the row until it ends.    *)
(* Processes restart, commits fail, and the reply of a commit may be lost.    *)
CONSTANTS
    Tasks,          \* ids of tasks
    Hosts           \* web processes

VARIABLES
    task,           \* the status of each AITask row
    stage,          \* how far the request or the thread of each task has come
    host,           \* the process it runs in
    running,        \* _running_tasks: the registered tasks, of all processes
    cancelling,     \* tasks a cancellation request holds
    excuse,         \* history: why a task may keep running for ever
    twice           \* history: tasks whose outcome was written after a lost reply

taskVars == <<task, stage, host, running, cancelling, excuse, twice>>

Outcomes == {"completed", "failed"}
Absent == "absent"
Alive == {"submitted", "started", "executing", "returned", "unusable", "raised", "leaving"}

TasksInit ==
    /\ task = [k \in Tasks |-> Absent]
    /\ stage = [k \in Tasks |-> Absent]
    /\ host \in [Tasks -> Hosts]
    /\ running = {}
    /\ cancelling = {}
    /\ excuse = [k \in Tasks |-> "none"]
    /\ twice = {}

At(k, from, to) == stage[k] = from /\ stage' = [stage EXCEPT ![k] = to]

\* submit commits the row before the thread exists ...
Submit(k) ==
    /\ At(k, Absent, "submitted")
    /\ task' = [task EXCEPT ![k] = "running"]
    /\ UNCHANGED <<host, running, cancelling, excuse, twice>>

\* ... then registers and starts it.
Start(k) ==
    /\ At(k, "submitted", "started")
    /\ running' = running \cup {k}
    /\ UNCHANGED <<task, host, cancelling, excuse, twice>>

\* Without a Flask application the thread returns at once.
NoApplication(k) ==
    /\ At(k, "started", "ended")
    /\ excuse' = [excuse EXCEPT ![k] = "no application"]
    /\ UNCHANGED <<task, host, running, cancelling, twice>>

EnterApplication(k) ==
    /\ At(k, "started", "executing")
    /\ UNCHANGED <<task, host, running, cancelling, excuse, twice>>

\* The workflow returns, perhaps with a session that needs a rollback, or raises.
Execute(k) ==
    /\ \E outcome \in {"returned", "unusable", "raised"} : At(k, "executing", outcome)
    /\ UNCHANGED <<task, host, running, cancelling, excuse, twice>>

\* Mutant: the outcome is only written for a task that still waits to be run.
WritesPendingOnly(k) == stage[k] = "returned" /\ k \notin cancelling /\ task[k] = "pending"

WritesResult(k) == stage[k] = "returned" /\ k \notin cancelling /\ task[k] # "cancelled"

Complete(k) ==
    /\ WritesResult(k)
    /\ \/ At(k, "returned", "leaving") /\ task' = [task EXCEPT ![k] = "completed"] /\ UNCHANGED twice
       \/ At(k, "returned", "raised") /\ UNCHANGED <<task, twice>>
       \/ /\ At(k, "returned", "raised")
          /\ task' = [task EXCEPT ![k] = "completed"]
          /\ twice' = twice \cup {k}
    /\ UNCHANGED <<host, running, cancelling, excuse>>

\* The handler writes the failure whatever the status; what it raises is dropped.
Fail(k) ==
    /\ stage[k] \in {"raised", "unusable"}
    /\ stage[k] = "raised" => k \notin cancelling
    /\ stage' = [stage EXCEPT ![k] = "leaving"]
    /\ \/ /\ stage[k] = "raised"
          /\ task' = [task EXCEPT ![k] = "failed"]
          /\ UNCHANGED excuse
       \/ /\ excuse' = [excuse EXCEPT ![k] = "not written"]
          /\ UNCHANGED task
    /\ UNCHANGED <<host, running, cancelling, twice>>

Leave(k) ==
    /\ At(k, "leaving", "ended")
    /\ running' = running \ {k}
    /\ UNCHANGED <<task, host, cancelling, excuse, twice>>

\* A cancellation served by process p: the flushed status is seen by nobody
\* else, the registry is that of p.
Cancel(k, p) ==
    /\ task[k] = "running"
    /\ k \notin cancelling
    /\ cancelling' = cancelling \cup {k}
    /\ running' = IF host[k] = p THEN running \ {k} ELSE running
    /\ UNCHANGED <<task, stage, host, excuse, twice>>

\* The request ends and the session is rolled back.
EndCancel(k) ==
    /\ k \in cancelling
    /\ cancelling' = cancelling \ {k}
    /\ UNCHANGED <<task, stage, host, running, excuse, twice>>

\* The threads are daemons: nothing waits for them, nothing takes them up again.
Restart(p) ==
    LET lost == {k \in Tasks : host[k] = p /\ stage[k] \in Alive}
    IN  /\ stage' = [k \in Tasks |-> IF k \in lost THEN "ended" ELSE stage[k]]
        /\ excuse' = [k \in Tasks |-> IF k \in lost THEN "restarted" ELSE excuse[k]]
        /\ running' = {k \in running : host[k] # p}
        /\ UNCHANGED <<task, host, cancelling, twice>>

ThreadStep(k) ==
    Start(k) \/ NoApplication(k) \/ EnterApplication(k) \/ Execute(k) \/ Complete(k) \/ Fail(k) \/ Leave(k)

TasksNext ==
    \/ \E k \in Tasks : Submit(k) \/ ThreadStep(k) \/ EndCancel(k)
    \/ \E k \in Tasks, p \in Hosts : Cancel(k, p)
    \/ \E p \in Hosts : Restart(p)

TasksSpec == TasksInit /\ [][TasksNext]_taskVars

------------------------------------------------------------------------------
(* Properties                                                                 *)

TasksTypeOK ==
    /\ task \in [Tasks -> {Absent, "running"} \cup Outcomes]
    /\ stage \in [Tasks -> {Absent, "ended"} \cup Alive]
    /\ host \in [Tasks -> Hosts]
    /\ running \subseteq Tasks
    /\ cancelling \subseteq Tasks
    /\ excuse \in [Tasks -> {"none", "no application", "not written", "restarted"}]
    /\ twice \subseteq Tasks

\* An outcome that was written stays, cancellations and restarts included; only
\* a commit whose reply was lost is followed by a failure.
TaskVerdictStands ==
    [][\A k \in Tasks : task[k] \in Outcomes /\ k \notin twice => task'[k] = task[k]]_taskVars

\* What is registered is being run, unless its thread found no application.
RegisteredIsAlive ==
    \A k \in running : stage[k] \in Alive \/ excuse[k] = "no application"

\* Every submitted task gets an outcome, unless a restart, a missing application
\* or a failure to write leaves its row running.
TaskEnds ==
    \A k \in Tasks : task[k] = "running" ~> task[k] \in Outcomes \/ excuse[k] # "none"
==============================================================================
