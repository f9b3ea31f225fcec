------------------------------- MODULE Defects -------------------------------
(* The life of one defect: its status, how often it was reopened, when it was *)
(* resolved, and the history that is written with every change.  A request    *)
(* loads the defect and checks the transition, and commits what it assigned.  *)
(* The body of a request may hold null for the status: it is checked against  *)
(* nothing, and no later change of the status is legal.                       *)
EXTENDS Integers, Sequences, FiniteSets

CONSTANTS
    BornCounts,         \* reopen counts a defect is created with, null as zero
    MaxHistory,         \* bound on the changes of the defect
    DefectThreads       \* threads serving requests

ASSUME DefectAssumption == BornCounts \subseteq Int /\ MaxHistory \in Nat

VARIABLES
    defect,             \* the Defect row
    history,            \* its DefectHistory rows about the status, oldest first
    defectJob,          \* what each thread is about to commit
    defectRaced,        \* history: a request ran while another one was running
    born                \* history: status and reopen count it was created with

defectRows == <<defect, history>>
defectVars == <<defectRows, defectJob, defectRaced, born>>

VALID_TRANSITIONS == [
    new         |-> {"assigned", "rejected", "deferred"},
    assigned    |-> {"in_progress", "deferred"},
    in_progress |-> {"resolved", "deferred"},
    resolved    |-> {"retest"},
    retest      |-> {"closed", "reopened"},
    reopened    |-> {"assigned"},
    closed      |-> {"reopened"},
    deferred    |-> {"assigned"},
    rejected    |-> {}]

DEFECT_STATUSES == DOMAIN VALID_TRANSITIONS

\* A status column that holds NULL.
NoStatus == ""

Allowed(s) == IF s \in DEFECT_STATUSES THEN VALID_TRANSITIONS[s] ELSE {}

\* Rows that are older than the nine statuses hold one of these.
LEGACY_DEFECT_STATUS_ALIASES == [open |-> "assigned", fixed |-> "resolved"]

Legacy == DOMAIN LEGACY_DEFECT_STATUS_ALIASES
canonicalize_defect_status(s) == IF s \in Legacy THEN LEGACY_DEFECT_STATUS_ALIASES[s] ELSE s

Settled == {"closed", "rejected"}
NoUpdate == [op |-> "none"]

\* A defect may be created with any status; none of them sets resolved_at.  Its
\* reopen count is taken from the body.
DefectInit ==
    /\ defect \in [status : DEFECT_STATUSES \cup Legacy, reopenCount : BornCounts, resolved : {FALSE}]
    /\ history = << >>
    /\ defectJob = [t \in DefectThreads |-> NoUpdate]
    /\ defectRaced = FALSE
    /\ born = [status   |-> canonicalize_defect_status(defect.status),
               reopened |-> defect.reopenCount]

\* Bound: after two requests have overlapped no further one begins.
UpdateDefect(t, new) ==
    LET old == canonicalize_defect_status(defect.status) IN
    /\ defectJob[t] = NoUpdate
    /\ ~defectRaced
    /\ Len(history) < MaxHistory
    /\ new \notin {old, NoStatus} => new \in Allowed(old)
    /\ defectRaced' = (\E o \in DefectThreads : defectJob[o] # NoUpdate)
    /\ defectJob' = [defectJob EXCEPT ![t] = [op |-> "update", saw |-> defect, new |-> new]]
    /\ UNCHANGED <<defectRows, born>>

\* Mutant: the defect keeps the time it was resolved at.
ReopenedOnly(saw, old, new) == [
    status      |-> new,
    reopenCount |-> IF new = "reopened" /\ old # "reopened" THEN saw.reopenCount + 1
                                                            ELSE saw.reopenCount,
    resolved    |-> (new \in Settled /\ old \notin Settled) \/ saw.resolved]

\* The row a request leaves that loaded saw, with canonical status old.
Updated(saw, old, new) == [
    status      |-> new,
    reopenCount |-> IF new = "reopened" /\ old # "reopened" THEN saw.reopenCount + 1
                                                            ELSE saw.reopenCount,
    resolved    |-> \/ new \in Settled /\ old \notin Settled
                    \/ saw.resolved /\ ~(new = "reopened" /\ old # "reopened")]

\* Only attributes that differ from the loaded ones are written.
CommitDefect(t) ==
    /\ defectJob[t] # NoUpdate
    /\ LET saw == defectJob[t].saw
           old == canonicalize_defect_status(saw.status)
           new == Updated(saw, old, defectJob[t].new)
       IN  /\ defect' = [a \in DOMAIN defect |-> IF new[a] # saw[a] THEN new[a] ELSE defect[a]]
           /\ history' = IF new.status = old THEN history
                         ELSE Append(history, [old |-> old, new |-> new.status])
    /\ defectJob' = [defectJob EXCEPT ![t] = NoUpdate]
    /\ UNCHANGED <<defectRaced, born>>

DefectNext ==
    \E t \in DefectThreads : CommitDefect(t) \/ \E new \in DEFECT_STATUSES \cup {NoStatus} : UpdateDefect(t, new)

DefectSpec == DefectInit /\ [][DefectNext]_defectVars

------------------------------------------------------------------------------
Reopenings == {i \in DOMAIN history : history[i].new = "reopened"}
Current == canonicalize_defect_status(defect.status)

\* The last entry that does not lead to NULL: what comes after NULL is NULL.
LastReached == IF Current = NoStatus THEN Len(history) - 1 ELSE Len(history)

\* The history explains the row.  Whatever requests overlapped, each entry is a
\* legal transition or clears the status, none begins at a cleared one, and no
\* reopening is counted that the history does not show.  While requests do not
\* overlap the entries lead from the first status to the present one, each
\* reopening is counted, and a resolution time is there just when the last
\* change to a status settled the defect.
DefectAudited ==
    /\ \A i \in DOMAIN history :
           /\ history[i].old # NoStatus
           /\ history[i].new \in Allowed(history[i].old) \cup {NoStatus}
    /\ defect.reopenCount <= born.reopened + Cardinality(Reopenings)
    /\ ~defectRaced =>
        /\ defect.reopenCount = born.reopened + Cardinality(Reopenings)
        /\ \A i \in DOMAIN history :
               history[i].old = IF i = 1 THEN born.status ELSE history[i - 1].new
        /\ Current = IF history = << >> THEN born.status ELSE history[Len(history)].new
        /\ defect.resolved <=> LastReached > 0 /\ history[LastReached].new \in Settled
==============================================================================
