---------------------------- MODULE HypercareExit ----------------------------
(* Leaving hypercare: the exit criteria of a plan are seeded, evaluated from  *)
(* live data or set by hand, the exit is signed off, and the plan is closed.  *)
(* A request loads rows and decides, and commits later; an evaluation queries *)
(* the live data once for each criterion.  Of the sign-off records only the   *)
(* state that SignoffHistory implements is seen here.                         *)
EXTENDS Naturals

CONSTANTS
    Standard,       \* criteria_types seeded as standard criteria
    Custom,         \* ids of criteria the user creates
    Copies,         \* how often the standard criteria can be seeded
    Values,         \* what the live data of each standard criterion can measure
    ExitThreads,    \* threads serving requests
    MaxEdits,       \* bound on the manual edits
    Offered         \* the edits users make

_STANDARD_EXIT_CRITERIA == [
    incident |-> [operator |-> "lte", threshold |-> 0,  mandatory |-> TRUE],
    sla      |-> [operator |-> "gte", threshold |-> 95, mandatory |-> TRUE],
    kt       |-> [operator |-> "gte", threshold |-> 80, mandatory |-> TRUE],
    handover |-> [operator |-> "gte", threshold |-> 80, mandatory |-> TRUE],
    metric   |-> [operator |-> "gte", threshold |-> 80, mandatory |-> FALSE]]

CriteriaStatuses == {"not_met", "partially_met", "met"}

\* An edit gives some attributes a new value: each is a set of at most one.
\* What it sets to the loaded value is not written.
Optional(S) == {{}} \cup {{x} : x \in S}
Edits == [status : Optional(CriteriaStatuses), auto : Optional(BOOLEAN), mandatory : Optional(BOOLEAN)]

ASSUME ExitAssumption ==
    /\ Standard \subseteq DOMAIN _STANDARD_EXIT_CRITERIA
    /\ Custom \cap Standard = {}
    /\ Copies \subseteq Nat
    /\ Values \in [Standard -> SUBSET Nat]
    /\ MaxEdits \in Nat
    /\ Offered \subseteq Edits

VARIABLES
    criteria,       \* the HypercareExitCriteria rows, by row
    value,          \* what the live data of each standard criterion measures
    approval,       \* the state of the hypercare_exit sign-off
    exitPlan,       \* CutoverPlan.status, from hypercare on
    exitJob,        \* what each thread is doing
    edits,          \* number of manual edits so far
    exitRaced,      \* history: a request began while another one was running
    evidence,       \* history: criteria the live data has met at some time
    edited,         \* history: rows that were edited by hand
    readyOnce,      \* history: there were mandatory criteria and all were met
    bypassed        \* history: the exit was signed with nothing to meet, or in general

exitHistory == <<exitRaced, evidence, edited, readyOnce, bypassed>>
exitVars == <<criteria, value, approval, exitPlan, exitJob, edits, exitHistory>>

Sign == INSTANCE Approval

\* A row is one seeded copy of a standard criterion, or a custom criterion.
Rows == (Standard \X Copies) \cup (Custom \X {0})
Kind(row) == row[1]
NoRow == [status |-> "absent", auto |-> FALSE, mandatory |-> FALSE]
RowStates == [status : CriteriaStatuses, auto : BOOLEAN, mandatory : BOOLEAN]

Defined == {row \in Rows : criteria[row] # NoRow}
Mandatory == {row \in Defined : criteria[row].mandatory}

_check_threshold(v, c) ==
    IF c.operator = "lte" THEN v <= c.threshold ELSE v >= c.threshold

\* Mutant: half of the target is good enough.
LenientEvaluation(v, c) ==
    IF _check_threshold(v, c) \/ (c.operator = "gte" /\ 2 * v >= c.threshold) THEN "met" ELSE "not_met"

Evaluation(v, c) ==
    IF _check_threshold(v, c) THEN "met"
    ELSE IF \/ c.operator = "gte" /\ 2 * v >= c.threshold
            \/ c.operator = "lte" /\ v <= 2 * c.threshold + 3
         THEN "partially_met"
         ELSE "not_met"

Measurements == {v \in [Standard -> UNION {Values[k] : k \in Standard}] :
                     \A k \in Standard : v[k] \in Values[k]}

Holds(k, v) == _check_threshold(v[k], _STANDARD_EXIT_CRITERIA[k])
AllMet(rows, c) == \A row \in rows : c[row].status = "met"

Idle == [op |-> "idle"]

ExitInit ==
    /\ criteria = [row \in Rows |-> NoRow]
    /\ value \in Measurements
    /\ approval = "none"
    /\ exitPlan = "hypercare"
    /\ exitJob = [t \in ExitThreads |-> Idle]
    /\ edits = 0
    /\ exitRaced = FALSE
    /\ evidence = {k \in Standard : Holds(k, value)}
    /\ edited = {}
    /\ readyOnce = FALSE
    /\ bypassed = FALSE

\* A request begins: it has read what it needs, and decided.
Begin(t, job) ==
    /\ exitJob[t] = Idle
    /\ exitJob' = [exitJob EXCEPT ![t] = job]
    /\ exitRaced' = (exitRaced \/ \E o \in ExitThreads \ {t} : exitJob[o] # Idle)

\* A request commits these rows, and is done.
CommitRows(t, new) ==
    /\ criteria' = new
    /\ exitJob' = [exitJob EXCEPT ![t] = Idle]
    /\ readyOnce' = (readyOnce \/ LET m == {row \in Rows : new[row] # NoRow /\ new[row].mandatory}
                                  IN  m # {} /\ AllMet(m, new))

\* The incidents, sessions and metrics the criteria measure change.
DataChanges(k, v) ==
    /\ value' = [value EXCEPT ![k] = v]
    /\ evidence' = evidence \cup {s \in Standard : Holds(s, value')}
    /\ UNCHANGED <<criteria, approval, exitPlan, exitJob, edits, exitRaced, edited, readyOnce, bypassed>>

------------------------------------------------------------------------------
(* The rows                                                                   *)

NothingDefined == Defined = {}

SeedExitCriteria(t) ==
    /\ NothingDefined
    /\ Begin(t, [op |-> "seed"])
    /\ UNCHANGED <<criteria, value, approval, exitPlan, edits, evidence, edited, readyOnce, bypassed>>

SeedCommit(t) ==
    /\ exitJob[t].op = "seed"
    /\ \E n \in Copies :
        /\ \A k \in Standard, m \in Copies : m >= n => criteria[<<k, m>>] = NoRow
        /\ \A m \in Copies : m < n => \E k \in Standard : criteria[<<k, m>>] # NoRow
        /\ CommitRows(t, [row \in Rows |->
               IF row[1] \in Standard /\ row[2] = n
               THEN [status |-> "not_met", auto |-> TRUE,
                     mandatory |-> _STANDARD_EXIT_CRITERIA[row[1]].mandatory]
               ELSE criteria[row]])
    /\ UNCHANGED <<value, approval, exitPlan, edits, exitRaced, evidence, edited, bypassed>>

CreateExitCriterion(t, k, mandatory) ==
    /\ exitJob[t] = Idle
    /\ criteria[<<k, 0>>] = NoRow
    /\ CommitRows(t, [criteria EXCEPT ![<<k, 0>>] =
                        [status |-> "not_met", auto |-> FALSE, mandatory |-> mandatory]])
    /\ UNCHANGED <<value, approval, exitPlan, edits, exitRaced, evidence, edited, bypassed>>

Written(new, old) == CHOOSE x \in (IF new = {} THEN {old} ELSE new) : TRUE

\* BR-E02: no met by hand on a criterion that stays auto-evaluated.
ManualMetAllowed(row, e) == e.status = {"met"} /\ criteria[row].auto => e.auto = {FALSE}

UpdateExitCriterion(t, row, e) ==
    /\ edits < MaxEdits
    /\ edits' = edits + 1
    /\ row \in Defined
    /\ ManualMetAllowed(row, e)
    /\ Begin(t, [op |-> "edit", row |-> row, write |->
                 [status |-> e.status \ {criteria[row].status}, auto |-> e.auto \ {criteria[row].auto},
                  mandatory |-> e.mandatory \ {criteria[row].mandatory}]])
    /\ UNCHANGED <<criteria, value, approval, exitPlan, evidence, edited, readyOnce, bypassed>>

UpdateCommit(t) ==
    /\ exitJob[t].op = "edit"
    /\ LET row == exitJob[t].row
           w == exitJob[t].write
       IN  /\ CommitRows(t, [criteria EXCEPT ![row] =
                  [status |-> Written(w.status, @.status), auto |-> Written(w.auto, @.auto),
                   mandatory |-> Written(w.mandatory, @.mandatory)]])
           /\ edited' = edited \cup {row}
    /\ UNCHANGED <<value, approval, exitPlan, edits, exitRaced, evidence, bypassed>>

------------------------------------------------------------------------------
(* evaluate_exit_criteria: one query for each auto-evaluated row, one commit  *)

\* Mutant: every criterion is evaluated, the manual ones too.
MeasuredRows == {row \in Defined : Kind(row) \in Standard}

AutoRows == {row \in Defined : criteria[row].auto}

\* The loaded rows wait in seen for their query; only a status that differs
\* from the loaded one is written.
EvaluateExitCriteria(t) ==
    /\ Defined # {}
    /\ Begin(t, [op |-> "evaluate", seen |-> [row \in AutoRows |-> criteria[row].status],
                 new |-> [row \in {} |-> "met"]])
    /\ UNCHANGED <<criteria, value, approval, exitPlan, edits, evidence, edited, readyOnce, bypassed>>

\* A custom criterion has no threshold: its status stays.
EvaluateRow(t, row) ==
    /\ exitJob[t].op = "evaluate"
    /\ row \in DOMAIN exitJob[t].seen
    /\ LET seen == exitJob[t].seen
           new == exitJob[t].new
           k == Kind(row)
           status == IF k \in Standard THEN Evaluation(value[k], _STANDARD_EXIT_CRITERIA[k]) ELSE seen[row]
           written == DOMAIN new \cup (IF status = seen[row] THEN {} ELSE {row})
       IN  exitJob' = [exitJob EXCEPT ![t] =
               [op |-> "evaluate", seen |-> [r \in DOMAIN seen \ {row} |-> seen[r]],
                new |-> [r \in written |-> IF r \in DOMAIN new THEN new[r] ELSE status]]]
    /\ UNCHANGED <<criteria, value, approval, exitPlan, edits, exitHistory>>

EvaluateCommit(t) ==
    /\ exitJob[t].op = "evaluate"
    /\ DOMAIN exitJob[t].seen = {}
    /\ LET new == exitJob[t].new
       IN  CommitRows(t, [row \in Rows |->
               IF row \in DOMAIN new THEN [criteria[row] EXCEPT !.status = new[row]] ELSE criteria[row]])
    /\ UNCHANGED <<value, approval, exitPlan, edits, exitRaced, evidence, edited, bypassed>>

------------------------------------------------------------------------------
(* Sign-off and closing                                                       *)

MandatoryMet == AllMet(Mandatory, criteria)

\* BR-E01.  With no mandatory criterion there is nothing to be unmet.
RequestExitSignoff(t) ==
    /\ MandatoryMet
    /\ Begin(t, [op |-> "signoff"])
    /\ bypassed' = (bypassed \/ Mandatory = {})
    /\ UNCHANGED <<criteria, value, approval, exitPlan, edits, evidence, edited, readyOnce>>

SignoffCommit(t) ==
    /\ exitJob[t].op = "signoff"
    /\ Sign!Approve
    /\ exitJob' = [exitJob EXCEPT ![t] = Idle]
    /\ UNCHANGED <<criteria, value, exitPlan, edits, exitHistory>>

\* The general sign-off request knows nothing of the criteria.
GeneralSignoff ==
    /\ Sign!Approve
    /\ bypassed' = TRUE
    /\ UNCHANGED <<criteria, value, exitPlan, exitJob, edits, exitRaced, evidence, edited, readyOnce>>

RevokeSignoff ==
    /\ Sign!Revoke
    /\ UNCHANGED <<criteria, value, exitPlan, exitJob, edits, exitHistory>>

\* Mutant: only a withdrawn sign-off keeps the plan open.
NotWithdrawn == approval # "revoked"

IsEntityApproved == approval = "approved"

ClosePlan(t) ==
    /\ exitPlan = "hypercare"
    /\ IsEntityApproved
    /\ Begin(t, [op |-> "close"])
    /\ UNCHANGED <<criteria, value, approval, exitPlan, edits, evidence, edited, readyOnce, bypassed>>

CloseCommit(t) ==
    /\ exitJob[t].op = "close"
    /\ exitPlan' = "closed"
    /\ exitJob' = [exitJob EXCEPT ![t] = Idle]
    /\ UNCHANGED <<criteria, value, approval, edits, exitHistory>>

ExitNext ==
    \/ \E k \in Standard : \E v \in Values[k] : DataChanges(k, v)
    \/ \E t \in ExitThreads :
        \/ SeedExitCriteria(t) \/ SeedCommit(t)
        \/ \E k \in Custom, m \in BOOLEAN : CreateExitCriterion(t, k, m)
        \/ \E row \in Rows, e \in Offered : UpdateExitCriterion(t, row, e)
        \/ UpdateCommit(t)
        \/ EvaluateExitCriteria(t) \/ EvaluateCommit(t)
        \/ \E row \in Rows : EvaluateRow(t, row)
        \/ RequestExitSignoff(t) \/ SignoffCommit(t)
        \/ ClosePlan(t) \/ CloseCommit(t)
    \/ GeneralSignoff \/ RevokeSignoff

ExitSpec == ExitInit /\ [][ExitNext]_exitVars

------------------------------------------------------------------------------
(* Properties                                                                 *)

ExitTypeOK ==
    /\ criteria \in [Rows -> RowStates \cup {NoRow}]
    /\ value \in Measurements
    /\ approval \in Sign!Approvals
    /\ exitPlan \in {"hypercare", "closed"}
    /\ edits \in 0 .. MaxEdits
    /\ evidence \subseteq Standard /\ edited \subseteq Rows

\* BR-E01 and BR-E05 together: a plan that was closed had, at one moment, all
\* its mandatory criteria met, unless somebody used the general sign-off or no
\* criterion was mandatory; the revocations, re-evaluations and edits that run
\* in between do not let it slip through.
ClosedWasReady == exitPlan = "closed" => readyOnce \/ bypassed

\* A criterion nobody edited is met only if the live data has met its
\* threshold, however evaluations overlap and overwrite one another.
MetHasEvidence ==
    \A row \in Defined \ edited :
        criteria[row].status = "met" => Kind(row) \in evidence

\* BR-E03: seeding again adds nothing, as long as requests do not overlap.
SeededOnce ==
    ~exitRaced => \A k \in Standard, m, n \in Copies : {<<k, m>>, <<k, n>>} \subseteq Defined => m = n

\* The list of criteria tells the truth: nothing is met without evidence and
\* nothing is listed twice.
CriteriaTruthful == MetHasEvidence /\ SeededOnce

\* What a manual criterion says is the user's: as long as requests do not
\* overlap no evaluation changes it.
ManualStatusStays ==
    [][~exitRaced' =>
        \A row \in Defined : ~criteria[row].auto /\ criteria'[row].status # criteria[row].status =>
            \E t \in ExitThreads : exitJob[t].op = "edit" /\ exitJob[t].row = row]_exitVars
==============================================================================
