----------------------------- MODULE TestApproval -----------------------------
(* A test case on its way through an approval workflow: one record for each   *)
(* stage of each submission, decided by different users at the same time.     *)
(* Deciding a record updates its row before the other records are read, so a  *)
(* request holds that row from there to its commit.                           *)
EXTENDS Naturals, Sequences

CONSTANTS
    Stages,             \* stages a workflow may have
    MaxSubmissions,     \* bound on the submissions of the case
    ApprovalThreads     \* threads serving requests

ASSUME ApprovalAssumption == MaxSubmissions \in Nat

VARIABLES
    required,           \* for each stage of the workflow, whether it is required
    records,            \* for each submission, the ApprovalRecord of each stage
    caseStatus,         \* TestCase.status
    approvalJob,        \* what each thread is doing
    approvalRaced,      \* history: a request ran while another one was running
    meddled             \* history: status or workflow were edited by hand

approvalRows == <<required, records, caseStatus>>
approvalVars == <<approvalRows, approvalJob, approvalRaced, meddled>>

APPROVAL_STATUSES == {"pending", "approved", "rejected", "skipped"}
TEST_CASE_STATUSES == {"draft", "ready", "approved", "deprecated"}

NoRequest == [op |-> "none"]

ApprovalInit ==
    /\ required \in [Stages -> BOOLEAN]
    /\ records = << >>
    /\ caseStatus \in TEST_CASE_STATUSES
    /\ approvalJob = [t \in ApprovalThreads |-> NoRequest]
    /\ approvalRaced = FALSE
    /\ meddled = FALSE

Required == {s \in DOMAIN required : required[s]}

\* The records of rs, as <<submission, stage>>, and those with some status.
Keys(rs) == UNION {{n} \X DOMAIN rs[n] : n \in DOMAIN rs}
With(rs, status) == {k \in Keys(rs) : rs[k[1]][k[2]] = status}

\* rs with another status for the records in keys.
Marked(rs, keys, status) ==
    [n \in DOMAIN rs |->
        [s \in DOMAIN rs[n] |-> IF <<n, s>> \in keys THEN status ELSE rs[n][s]]]

Doing(t, op) == approvalJob[t].op = op

\* Bound: after two requests have overlapped no further one begins.
BeginApproval(t, job) ==
    /\ Doing(t, "none")
    /\ ~approvalRaced
    /\ approvalRaced' = (\E o \in ApprovalThreads : ~Doing(o, "none"))
    /\ approvalJob' = [approvalJob EXCEPT ![t] = job]
    /\ UNCHANGED <<approvalRows, meddled>>

EndApproval(t) ==
    /\ approvalJob' = [approvalJob EXCEPT ![t] = NoRequest]
    /\ UNCHANGED <<required, approvalRaced, meddled>>

------------------------------------------------------------------------------
\* The workflow is read and no record of the case may be pending.
SubmitForApproval(t) ==
    /\ With(records, "pending") = {}
    /\ Len(records) < MaxSubmissions
    /\ BeginApproval(t, [op |-> "submit", stages |-> DOMAIN required, saw |-> caseStatus])

\* Only a status that differs from the loaded one is written.
SaveStatus(saw, status) == caseStatus' = IF status = saw THEN caseStatus ELSE status

CommitSubmission(t) ==
    /\ Doing(t, "submit")
    /\ records' = Append(records, [s \in approvalJob[t].stages |-> "pending"])
    /\ SaveStatus(approvalJob[t].saw, "submitted")
    /\ EndApproval(t)

DecideApproval(t, key, decision) ==
    /\ key \in With(records, "pending")
    /\ BeginApproval(t, [op |-> "decide", key |-> key, decision |-> decision])

Holds(t, key) == Doing(t, "decided") /\ approvalJob[t].key = key

\* The decision is flushed, which waits for a request that holds the row, and
\* the other records, the workflow and the case are read.
Flush(t) ==
    /\ Doing(t, "decide")
    /\ \A o \in ApprovalThreads : ~Holds(o, approvalJob[t].key)
    /\ LET job == approvalJob[t] IN
       approvalJob' = [approvalJob EXCEPT ![t] =
           [op |-> "decided", key |-> job.key, decision |-> job.decision,
            read |-> Marked(records, {job.key}, job.decision),
            required |-> Required, saw |-> caseStatus]]
    /\ UNCHANGED <<approvalRows, approvalRaced, meddled>>

\* Mutant: the stages that are left stay open.
NothingSkipped(job) == {}

\* The records a rejection closes.
Skipped(job) == IF job.decision = "rejected" THEN With(job.read, "pending") ELSE {}

\* Mutant: the stages already decided have to be approved.
NothingOpenOrRefused(job) == With(job.read, "pending") = {}

\* All required stages are approved, by records of any submission.
AllRequiredApproved(job) ==
    job.required \subseteq {k[2] : k \in With(job.read, "approved")}

\* What the decision makes of the case.
StatusAfter(job) ==
    IF job.decision = "rejected" THEN "draft"
    ELSE IF AllRequiredApproved(job) THEN "approved" ELSE job.saw

\* t cannot commit before o does.
WaitsFor(t, o) ==
    /\ t # o /\ Doing(t, "decided") /\ Doing(o, "decided")
    /\ approvalJob[o].key \in Skipped(approvalJob[t])

CommitApproval(t) ==
    /\ Doing(t, "decided")
    /\ \A o \in ApprovalThreads : ~WaitsFor(t, o)
    /\ LET job == approvalJob[t] IN
           /\ records' = Marked(Marked(records, {job.key}, job.decision), Skipped(job), "skipped")
           /\ SaveStatus(job.saw, StatusAfter(job))
    /\ EndApproval(t)

\* Two rejections that wait for each other: the database fails one of them.
Deadlocked(t) ==
    /\ \E o \in ApprovalThreads : WaitsFor(t, o) /\ WaitsFor(o, t)
    /\ EndApproval(t)
    /\ UNCHANGED <<records, caseStatus>>

------------------------------------------------------------------------------
(* Requests that write what they are given                                    *)

AtOnceToo == ~approvalRaced /\ meddled' = TRUE
    /\ approvalRaced' = (\E t \in ApprovalThreads : ~Doing(t, "none"))
    /\ UNCHANGED <<records, approvalJob>>

\* An edit of the case, or the restoration of one of its versions.
SetCaseStatus(status) ==
    AtOnceToo /\ caseStatus' = status /\ UNCHANGED required

\* The stages of a workflow are replaced while cases are on their way.
UpdateWorkflow(stages) ==
    AtOnceToo /\ required' \in [stages -> BOOLEAN] /\ UNCHANGED caseStatus

ApprovalNext ==
    \/ \E t \in ApprovalThreads :
        \/ SubmitForApproval(t) \/ CommitSubmission(t)
        \/ \E k \in Keys(records), d \in {"approved", "rejected"} : DecideApproval(t, k, d)
        \/ Flush(t) \/ CommitApproval(t) \/ Deadlocked(t)
    \/ \E status \in TEST_CASE_STATUSES : SetCaseStatus(status)
    \/ \E stages \in SUBSET Stages : UpdateWorkflow(stages)

ApprovalSpec == ApprovalInit /\ [][ApprovalNext]_approvalVars

------------------------------------------------------------------------------
ApprovalTypeOK ==
    /\ required \in UNION {[S -> BOOLEAN] : S \in SUBSET Stages}
    /\ records \in Seq(UNION {[S -> APPROVAL_STATUSES] : S \in SUBSET Stages})
    /\ caseStatus \in TEST_CASE_STATUSES \cup {"submitted"}

LastRound == IF records = << >> THEN << >> ELSE <<records[Len(records)]>>
StagesWith(rs, status) == {k[2] : k \in With(rs, status)}

\* While requests do not overlap and nobody edits the case or its workflow, the
\* status agrees with the records of the last submission: a rejection leaves
\* no stage open and the case a draft, a case that has its approvals is
\* approved, and one submitted once has no approval it did not get.
StatusFollowsRecords ==
    records = << >> \/ approvalRaced \/ meddled \/
    /\ StagesWith(LastRound, "rejected") # {} =>
           StagesWith(LastRound, "pending") = {} /\ caseStatus = "draft"
    /\ StagesWith(LastRound, "rejected") = {} =>
           LET all == Required \subseteq StagesWith(LastRound, "approved")
               some == StagesWith(LastRound, "approved") # {}
           IN  /\ all /\ some => caseStatus = "approved"
               /\ caseStatus = "approved" /\ Len(records) = 1 => all /\ some

\* The last submission but one was rejected.
Resubmitted == Len(records) > 1 /\ StagesWith(<<records[Len(records) - 1]>>, "rejected") # {}

\* The diagram of the master plan of test management leads from a rejection back
\* to the draft, and from there to the final state through the approval of each
\* stage: a case that was rejected and submitted again to a workflow of required
\* stages is not approved before its new submission has got all approvals.
ApprovedStageByStage ==
    Resubmitted /\ DOMAIN required = Required /\ ~approvalRaced /\ ~meddled
        => (caseStatus = "approved" => Required \subseteq StagesWith(LastRound, "approved"))
==============================================================================
