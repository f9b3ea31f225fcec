------------------------------ MODULE Transports ------------------------------
(* One SAP transport request and the log of its imports.  The log is a JSON   *)
(* column: recording an import reads it, appends an event and writes it back  *)
(* as a whole, while a column whose value does not change is not written.     *)
EXTENDS Naturals, SequencesExt

CONSTANTS
    Systems,            \* systems that the bodies of requests name
    SetStatuses,        \* statuses that they set; nothing checks them
    MaxImports,         \* bound on the imports
    TransportThreads    \* threads serving requests

Outcomes == {"imported", "failed"}
Statuses == {"created"} \cup Outcomes \cup SetStatuses
Places == {"DEV"} \cup Systems

ASSUME TransportAssumption == MaxImports \in Nat

VARIABLES
    transport,          \* the TransportRequest row: current_system, status, import_log
    importJob,          \* the columns each thread is about to write
    recorded,           \* history: the events of all commits, in their order
    overlapped,         \* history: a request began while another one was running
    moved,              \* history: an update set the status or the system
    origin              \* history: the system it was created at

transportVars == <<transport, importJob, recorded, overlapped, moved, origin>>

Quiet == << >>

\* The body may say where a new transport is, and its status.
TransportInit ==
    /\ origin \in Places
    /\ \E status \in {"created"} \cup SetStatuses :
           transport = [current |-> origin, status |-> status, log |-> << >>]
    /\ importJob = [t \in TransportThreads |-> Quiet]
    /\ recorded = << >>
    /\ overlapped = FALSE
    /\ moved = FALSE

\* The columns of the new row that differ from the one that was loaded.
Changes(new) == [c \in {c \in DOMAIN transport : new[c] # transport[c]} |-> new[c]]

\* A request has loaded the row.
BeginTransport(t, new) ==
    /\ importJob[t] = Quiet
    /\ Changes(new) # Quiet
    /\ importJob' = [importJob EXCEPT ![t] = Changes(new)]
    /\ overlapped' = (overlapped \/ \E o \in TransportThreads : importJob[o] # Quiet)
    /\ UNCHANGED <<transport, recorded, moved, origin>>

\* Mutant: the event replaces the log.
OnlyEvent(event) == <<event>>

Logged(event) == Append(transport.log, event)

\* POST .../import-result.  A successful import moves the transport.
RecordImportResult(t, system, status) ==
    /\ Len(recorded) < MaxImports
    /\ BeginTransport(t, [
           log |-> Logged([system |-> system, status |-> status]),
           status |-> status,
           current |-> IF status = "imported" THEN system ELSE transport.current])

\* PUT sets the system and the status as it likes.
UpdateTransport(t, system, status) ==
    BeginTransport(t, [transport EXCEPT !.current = system, !.status = status])

CommitTransport(t) ==
    LET job == importJob[t]
        Written(c) == IF c \in DOMAIN job THEN job[c] ELSE transport[c]
    IN  /\ job # Quiet
        /\ transport' = [c \in DOMAIN transport |-> Written(c)]
        /\ recorded' = IF "log" \in DOMAIN job
                       THEN Append(recorded, Last(job.log))
                       ELSE recorded
        /\ moved' = (moved \/ "log" \notin DOMAIN job)
        /\ importJob' = [importJob EXCEPT ![t] = Quiet]
        /\ UNCHANGED <<overlapped, origin>>

TransportNext ==
    \E t \in TransportThreads :
        \/ \E system \in Systems, status \in Outcomes : RecordImportResult(t, system, status)
        \/ \E system \in Systems, status \in SetStatuses : UpdateTransport(t, system, status)
        \/ CommitTransport(t)

TransportSpec == TransportInit /\ [][TransportNext]_transportVars

------------------------------------------------------------------------------
Events == [system : Systems, status : Outcomes]

TransportTypeOK ==
    /\ transport.current \in Places /\ transport.status \in Statuses /\ origin \in Places
    /\ transport.log \in Seq(Events) /\ recorded \in Seq(Events)
    /\ overlapped \in BOOLEAN /\ moved \in BOOLEAN

\* The system that the events lead to, applied in order.
Reached(from, events) ==
    LET successes == {i \in DOMAIN events : events[i].status = "imported"}
    IN  IF successes = {} THEN from
        ELSE events[CHOOSE i \in successes : \A j \in successes : j <= i].system

\* The log is a selection of the events, in their order and each at most once.
SelectedFrom(log, events) ==
    \E f \in [DOMAIN log -> DOMAIN events] :
        /\ \A i \in DOMAIN log : log[i] = events[f[i]]
        /\ \A i, j \in DOMAIN log : i < j => f[i] < f[j]

\* Whatever requests overlapped, the log shows imports that were recorded, in
\* the order of their commits and none of them twice, and the last one last.
\* Unless requests overlapped it is the audit trail of all imports, and then,
\* unless the row is also set by hand, its status and system are those that the
\* trail leads to from the system the transport was created at.
AuditTrail ==
    /\ TransportTypeOK
    /\ SelectedFrom(transport.log, recorded)
    /\ recorded # << >> => Last(transport.log) = Last(recorded)
    /\ ~overlapped => transport.log = recorded
    /\ ~overlapped /\ ~moved => transport.current = Reached(origin, recorded)
    /\ ~overlapped /\ ~moved /\ recorded # << >> => transport.status = Last(recorded).status
==============================================================================
