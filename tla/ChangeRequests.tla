--------------------------- MODULE ChangeRequests ---------------------------
(* One change request from its creation to its closing: the decisions of the  *)
(* board, the freeze windows and the exceptions from them, its implementations *)
(* and the reviews after them.  A request loads the change and checks it, and *)
(* commits what it assigned; only attributes that differ from the loaded ones *)
(* are written.  What a request reads after its first UPDATE it reads while   *)
(* it holds the row, so that belongs to its commit.                           *)
EXTENDS Naturals, Sequences

CONSTANTS
    Windows,            \* calendar windows of type freeze or blackout
    MaxExceptions,      \* bounds on the rows of one change
    MaxImplementations,
    ChangeThreads       \* threads serving requests

ASSUME ChangeAssumption == MaxExceptions \in Nat /\ MaxImplementations \in Nat

VARIABLES
    change,             \* the ChangeRequest row
    decided,            \* the status the last ChangeDecision stands for
    inForce,            \* windows that are active and apply to the change
    exceptions,         \* its FreezeException rows, oldest first
    implementations,    \* the status of its ChangeImplementation rows
    reviews,            \* the status of its ChangePIR rows
    changeJob,          \* what each thread is about to commit
    changeRaced,        \* history: a request ran while another one was running
    waived              \* history: requires_pir was set to false by hand

changeRows == <<change, decided, inForce, exceptions, implementations, reviews>>
changeVars == <<changeRows, changeJob, changeRaced, waived>>

CHANGE_REQUEST_DECISION_STATUS == [
    approved                 |-> "approved",
    approved_with_conditions |-> "approved",
    deferred                 |-> "deferred",
    rejected                 |-> "rejected",
    emergency_authorized     |-> "ecab_authorized"]

DecisionStatuses ==
    {CHANGE_REQUEST_DECISION_STATUS[d] : d \in DOMAIN CHANGE_REQUEST_DECISION_STATUS}
CHANGE_STATUSES == DecisionStatuses \cup
    {"draft", "submitted", "assessed", "cab_pending", "scheduled", "implementing",
     "implemented", "validated", "backed_out", "pir_pending", "closed"}
IMPLEMENTATION_STATUSES ==
    {"planned", "in_progress", "completed", "failed", "validated", "rolled_back"}
PIR_STATUSES == {"pending", "in_review", "completed"}
EXCEPTION_STATUSES == {"pending", "approved", "rejected"}
Approved == {"approved", "ecab_authorized"}
BackedOut == {"failed", "rolled_back"}

\* A promoted scope change request brings its status along.
SCOPE_CHANGE_TO_CHANGE_STATUS ==
    {"draft", "assessed", "approved", "rejected", "implemented", "deferred"}

Undecided == "none"
NoJob == [op |-> "none"]

\* Created as a draft, approved by a standard template, or promoted.
ChangeInit ==
    /\ change \in [status : SCOPE_CHANGE_TO_CHANGE_STATUS, requiresPir : BOOLEAN,
                   approved : BOOLEAN, over : {{}}]
    /\ change.approved <=> change.status \in Approved
    /\ decided = IF change.status \in DecisionStatuses THEN change.status ELSE Undecided
    /\ inForce = {}
    /\ exceptions = << >> /\ implementations = << >> /\ reviews = << >>
    /\ changeJob = [t \in ChangeThreads |-> NoJob]
    /\ changeRaced = FALSE
    /\ waived = FALSE

------------------------------------------------------------------------------
(* Requests                                                                   *)

\* Bound: after two requests have overlapped no further one begins.
EnterRequest ==
    /\ ~changeRaced
    /\ changeRaced' = (\E t \in ChangeThreads : changeJob[t] # NoJob)

BeginChange(t, job) ==
    /\ changeJob[t] = NoJob
    /\ EnterRequest
    /\ changeJob' = [changeJob EXCEPT ![t] = job]
    /\ UNCHANGED <<changeRows, waived>>

\* A request whose writes do not depend on what it read.
AtOnce == EnterRequest /\ UNCHANGED changeJob

\* _set_status on the loaded row.
SetStatus(row, status) ==
    [row EXCEPT !.status = status, !.approved = @ \/ status \in Approved]

\* What the row holds after a request that loaded saw and leaves new.
Saved(saw, new) == [a \in DOMAIN change |-> IF new[a] # saw[a] THEN new[a] ELSE change[a]]

Finish(t) ==
    /\ changeJob' = [changeJob EXCEPT ![t] = NoJob]
    /\ UNCHANGED changeRaced

OpenReviews == {i \in DOMAIN reviews : reviews[i] \in {"pending", "in_review"}}

_ensure_pir_record == IF OpenReviews = {} THEN Append(reviews, "pending") ELSE reviews

------------------------------------------------------------------------------
(* From draft to the board                                                    *)

\* Requests that check the loaded status and set another.
BeginStatus(t, from, to) ==
    change.status \in from /\ BeginChange(t, [op |-> "status", to |-> to, saw |-> change])

SubmitChange(t) == BeginStatus(t, {"draft"}, "submitted")
RouteChange(t) == BeginStatus(t, {"assessed", "deferred"}, "cab_pending")

\* The assessment may also say whether a review is required.
AssessChange(t, requires) ==
    /\ change.status \in {"draft", "submitted"}
    /\ BeginChange(t, [op |-> "assess", requires |-> requires, saw |-> change])

\* A decision is recorded whatever the status.
CreateDecision(t, decision) ==
    BeginChange(t, [op |-> "decide", to |-> CHANGE_REQUEST_DECISION_STATUS[decision], saw |-> change])

CommitStatus(t) ==
    /\ changeJob[t].op = "status"
    /\ LET job == changeJob[t] IN change' = Saved(job.saw, SetStatus(job.saw, job.to))
    /\ Finish(t)
    /\ UNCHANGED <<decided, inForce, exceptions, implementations, reviews, waived>>

CommitAssessment(t) ==
    /\ changeJob[t].op = "assess"
    /\ LET job == changeJob[t]
           new == [SetStatus(job.saw, "assessed") EXCEPT !.requiresPir = job.requires]
       IN  /\ change' = Saved(job.saw, new)
           /\ waived' = (waived \/ (job.saw.requiresPir /\ ~job.requires))
    /\ Finish(t)
    /\ UNCHANGED <<decided, inForce, exceptions, implementations, reviews>>

\* Mutant: an approval stands whatever is decided later.
ApprovalStands(saw, status) == IF saw.status \in Approved THEN saw ELSE SetStatus(saw, status)

DecidedRow(saw, status) == SetStatus(saw, status)

CommitDecision(t) ==
    /\ changeJob[t].op = "decide"
    /\ LET job == changeJob[t] IN
           /\ change' = Saved(job.saw, DecidedRow(job.saw, job.to))
           /\ decided' = job.to
    /\ Finish(t)
    /\ UNCHANGED <<inForce, exceptions, implementations, reviews, waived>>

\* PATCH of the change: the review requirement and the planned dates, which
\* lie over a set of windows.
UpdateChange(requires, over) ==
    /\ AtOnce
    /\ change' = [change EXCEPT !.requiresPir = requires, !.over = over]
    /\ waived' = (waived \/ (change.requiresPir /\ ~requires))
    /\ UNCHANGED <<decided, inForce, exceptions, implementations, reviews>>
------------------------------------------------------------------------------
(* Freeze windows                                                             *)

\* A window is created, moved, switched on or off.
UpdateWindow(w) ==
    /\ AtOnce
    /\ inForce' = IF w \in inForce THEN inForce \ {w} ELSE inForce \cup {w}
    /\ UNCHANGED <<change, decided, exceptions, implementations, reviews, waived>>

\* evaluate_window_conflicts over planned dates.
Conflicts(over) == over \cap inForce

Covered == {exceptions[i].window : i \in {j \in DOMAIN exceptions : exceptions[j].status = "approved"}}

\* The planned dates of the request are flushed before the windows are read.
ScheduleChange(t, over) ==
    /\ change.status \in Approved
    /\ BeginChange(t, [op |-> "schedule", over |-> over, saw |-> change])

CommitSchedule(t) ==
    /\ changeJob[t].op = "schedule"
    /\ LET job == changeJob[t]
           new == [SetStatus(job.saw, "scheduled") EXCEPT !.over = job.over]
       IN  IF Conflicts(job.over) \subseteq Covered
           THEN change' = Saved(job.saw, new)
           ELSE UNCHANGED change
    /\ Finish(t)
    /\ UNCHANGED <<decided, inForce, exceptions, implementations, reviews, waived>>

\* The window may be one the change does not conflict with; the latest exception
\* from it must not be pending.
CreateFreezeException(t, w) ==
    /\ Len(exceptions) < MaxExceptions
    /\ Conflicts(change.over) # {}
    /\ \A i \in DOMAIN exceptions :
           exceptions[i] = [window |-> w, status |-> "pending"]
               => \E j \in DOMAIN exceptions : j > i /\ exceptions[j].window = w
    /\ BeginChange(t, [op |-> "except", window |-> w, saw |-> change])

CommitException(t) ==
    /\ changeJob[t].op = "except"
    /\ LET job == changeJob[t] IN
           /\ change' = Saved(job.saw, [job.saw EXCEPT !.requiresPir = TRUE])
           /\ exceptions' = Append(exceptions, [window |-> job.window, status |-> "pending"])
    /\ Finish(t)
    /\ UNCHANGED <<decided, inForce, implementations, reviews, waived>>

DecideFreezeException(t, i, verdict) ==
    /\ exceptions[i].status = "pending"
    /\ BeginChange(t, [op |-> "rule", row |-> i, to |-> verdict, saw |-> change])

CommitRuling(t) ==
    /\ changeJob[t].op = "rule"
    /\ exceptions' = [exceptions EXCEPT ![changeJob[t].row].status = changeJob[t].to]
    /\ Finish(t)
    /\ UNCHANGED <<change, decided, inForce, implementations, reviews, waived>>

------------------------------------------------------------------------------
(* Implementations                                                            *)

CreateImplementation(t) ==
    /\ Len(implementations) < MaxImplementations
    /\ change.status \in Approved \cup {"scheduled"}
    /\ BeginChange(t, [op |-> "plan", saw |-> change])

CommitImplementation(t) ==
    /\ changeJob[t].op = "plan"
    /\ implementations' = Append(implementations, "planned")
    /\ Finish(t)
    /\ UNCHANGED <<change, decided, inForce, exceptions, reviews, waived>>

\* The status of the change is not looked at.
StartImplementation(t, i) ==
    /\ implementations[i] \in {"planned", "validated"}
    /\ BeginChange(t, [op |-> "run", row |-> i, to |-> "in_progress", saw |-> change])

CompleteImplementation(t, i, result) ==
    /\ implementations[i] = "in_progress"
    /\ BeginChange(t, [op |-> IF result \in BackedOut THEN "back_out" ELSE "run",
                       row |-> i, to |-> result, saw |-> change])

CreateRollback(t, i) == BeginChange(t, [op |-> "back_out", row |-> i, to |-> "rolled_back", saw |-> change])

CommitRun(t) ==
    /\ changeJob[t].op = "run"
    /\ LET job == changeJob[t]
           status == IF job.to = "in_progress" THEN "implementing" ELSE "implemented"
       IN  /\ implementations' = [implementations EXCEPT ![job.row] = job.to]
           /\ change' = Saved(job.saw, SetStatus(job.saw, status))
    /\ Finish(t)
    /\ UNCHANGED <<decided, inForce, exceptions, reviews, waived>>

\* Mutant: a change that was backed out does not get its review required.
BackOutOnly(saw) == [change EXCEPT !.status = "pir_pending"]

\* The status is written twice, so also when it was pir_pending before.
BackOut(saw) == [Saved(saw, [saw EXCEPT !.requiresPir = TRUE]) EXCEPT !.status = "pir_pending"]

CommitBackOut(t) ==
    /\ changeJob[t].op = "back_out"
    /\ implementations' = [implementations EXCEPT ![changeJob[t].row] = changeJob[t].to]
    /\ change' = BackOut(changeJob[t].saw)
    /\ reviews' = _ensure_pir_record
    /\ Finish(t)
    /\ UNCHANGED <<decided, inForce, exceptions, waived>>

------------------------------------------------------------------------------
(* Validation, review and closing                                             *)

ValidateChange(t) == change.status = "implemented" /\ BeginChange(t, [op |-> "validate", saw |-> change])

CommitValidation(t) ==
    /\ changeJob[t].op = "validate"
    /\ LET saw == changeJob[t].saw
           requires == saw.requiresPir \/ Covered # {}
           status == IF requires THEN "pir_pending" ELSE "validated"
       IN  /\ change' = Saved(saw, [SetStatus(saw, status) EXCEPT !.requiresPir = requires])
           /\ reviews' = IF requires THEN _ensure_pir_record ELSE reviews
    /\ Finish(t)
    /\ UNCHANGED <<decided, inForce, exceptions, implementations, waived>>

\* Any change may be put under review; an open review is looked for first.
CreatePir(t) ==
    BeginChange(t, [op |-> "review", insert |-> OpenReviews = {}, saw |-> change])

CommitPir(t) ==
    /\ changeJob[t].op = "review"
    /\ LET job == changeJob[t]
           status == IF job.saw.status = "closed" THEN "closed" ELSE "pir_pending"
       IN  /\ reviews' = IF job.insert THEN Append(reviews, "pending") ELSE reviews
           /\ change' = Saved(job.saw, SetStatus(job.saw, status))
    /\ Finish(t)
    /\ UNCHANGED <<decided, inForce, exceptions, implementations, waived>>

\* complete_pir, or update_pir to any status.
UpdatePir(i, status) ==
    /\ AtOnce
    /\ reviews' = [reviews EXCEPT ![i] = status]
    /\ UNCHANGED <<change, decided, inForce, exceptions, implementations, waived>>

CloseChange(t) ==
    /\ change.requiresPir => \E i \in DOMAIN reviews : reviews[i] = "completed"
    /\ BeginStatus(t, {"validated", "pir_pending"}, "closed")

------------------------------------------------------------------------------
ChangeCommit(t) ==
    \/ CommitStatus(t) \/ CommitAssessment(t) \/ CommitDecision(t) \/ CommitSchedule(t)
    \/ CommitException(t) \/ CommitRuling(t) \/ CommitImplementation(t) \/ CommitRun(t)
    \/ CommitBackOut(t) \/ CommitValidation(t) \/ CommitPir(t)

ChangeNext ==
    \/ \E t \in ChangeThreads :
        \/ SubmitChange(t) \/ RouteChange(t) \/ ValidateChange(t) \/ CloseChange(t)
        \/ CreateImplementation(t) \/ CreatePir(t) \/ ChangeCommit(t)
        \/ \E requires \in BOOLEAN : AssessChange(t, requires)
        \/ \E d \in DOMAIN CHANGE_REQUEST_DECISION_STATUS : CreateDecision(t, d)
        \/ \E over \in SUBSET Windows : ScheduleChange(t, over)
        \/ \E w \in Windows : CreateFreezeException(t, w)
        \/ \E i \in DOMAIN exceptions, v \in {"approved", "rejected"} :
               DecideFreezeException(t, i, v)
        \/ \E i \in DOMAIN implementations :
            \/ StartImplementation(t, i) \/ CreateRollback(t, i)
            \/ \E r \in BackedOut \cup {"completed", "validated"} : CompleteImplementation(t, i, r)
    \/ \E requires \in BOOLEAN, over \in SUBSET Windows : UpdateChange(requires, over)
    \/ \E w \in Windows : UpdateWindow(w)
    \/ \E i \in DOMAIN reviews, s \in PIR_STATUSES : UpdatePir(i, s)

ChangeSpec == ChangeInit /\ [][ChangeNext]_changeVars

------------------------------------------------------------------------------
ChangeTypeOK ==
    /\ change \in [status : CHANGE_STATUSES \ {"backed_out"}, requiresPir : BOOLEAN,
                   approved : BOOLEAN, over : SUBSET Windows]
    /\ decided \in DecisionStatuses \cup {Undecided}
    /\ inForce \subseteq Windows
    /\ exceptions \in Seq([window : Windows, status : EXCEPTION_STATUSES])
    /\ implementations \in Seq(IMPLEMENTATION_STATUSES)
    /\ reviews \in Seq(PIR_STATUSES)

Some(rows, statuses) == \E i \in DOMAIN rows : rows[i] \in statuses

\* The status of a change is explained by its other rows: nothing is planned for
\* one that was never approved, one under review has a review, and while
\* requests do not overlap a decision that shows is the last one taken, one
\* being implemented has an implementation under way, and one implemented here
\* has an implementation that succeeded.
StatusExplained ==
    /\ implementations # << >> => change.approved
    /\ change.status = "pir_pending" => reviews # << >>
    /\ changeRaced \/
       /\ change.status \in DecisionStatuses => change.status = decided
       /\ change.status = "implementing" => Some(implementations, {"in_progress"})
       /\ change.status = "implemented" /\ implementations # << >>
              => Some(implementations, {"completed", "validated"})

\* While requests do not overlap, a change that was backed out or had asked for
\* an exception from a freeze is closed only over a completed review, unless
\* the requirement was taken back by hand, and is scheduled only into windows
\* it has approved exceptions from.
StepsJustified ==
    [][changeRaced' \/ change'.status = change.status \/
       /\ change'.status = "closed" /\ ~waived
              /\ (exceptions # << >> \/ Some(implementations, BackedOut))
              => Some(reviews, {"completed"})
       /\ change'.status = "scheduled" => Conflicts(change'.over) \subseteq Covered]_changeVars
==============================================================================
