--------------------------- MODULE HypercareProofs ---------------------------
(* Hypercare, for any number of threads, criteria, rules, targets and         *)
(* updates: the sign-off log shows only withdrawals of approvals and, read    *)
(* through its latest record, implements Approval; the closing of the plan    *)
(* was earned; and the SLA verdicts and the escalations of an incident tell   *)
(* the truth.                                                                 *)
EXTENDS MCHypercare, FiniteSetTheorems, WellFoundedInduction, TLAPS

------------------------------------------------------------------------------
(* The sign-off log                                                           *)

SignerJobs == {SignerIdle} \cup {Decided(a) : a \in VALID_ACTIONS} \cup {Inserted(rec) : rec \in Records}

\* A revocation on its way has read an approval that is already in the log,
\* and its own id comes after it.
Grounded(r) ==
    /\ signing[r].stage = "decided" /\ signing[r].action = "revoked" =>
           \E y \in records : y.action \in ApprovedActions
    /\ signing[r].stage = "inserted" /\ signing[r].record.action = "revoked" =>
           \E y \in records : y.id < signing[r].record.id /\ y.action \in ApprovedActions

\* What no overlap means: one signer at a time, which appends at the end of
\* the log, and revokes only what is still approved.
OneSigner ==
    /\ \A r, s \in Signers : r # s => signing[r].stage = "idle" \/ signing[s].stage = "idle"
    /\ \A r \in Signers : signing[r].stage = "inserted" =>
           \A x \in records : x.id < signing[r].record.id
    /\ \A r \in Signers : signing[r].stage = "decided" /\ signing[r].action = "revoked" => CanRevoke
    /\ \A r \in Signers : signing[r].stage = "inserted" /\ signing[r].record.action = "revoked" => CanRevoke
    /\ \A x, y \in records : x.id = y.id => x = y

SignoffInv ==
    /\ SignoffTypeOK
    /\ \A x \in records : x.id < nextId
    /\ \A r \in Signers : signing[r].stage = "inserted" => signing[r].record.id < nextId
    /\ RevocationsFollowApprovals
    /\ \A r \in Signers : Grounded(r)
    /\ ~raced => OneSigner
    /\ RevokedOnce

\* The shape of what a signer is doing.
LEMMA JobShape ==
    ASSUME NEW j \in SignerJobs
    PROVE  /\ j.stage \in {"idle", "decided", "inserted"}
           /\ j.stage = "decided" => j.action \in VALID_ACTIONS /\ j = Decided(j.action)
           /\ j.stage = "inserted" => j.record \in Records /\ j = Inserted(j.record)
BY DEF SignerJobs, SignerIdle, Decided, Inserted

\* The initial state satisfies the invariant.
LEMMA SignoffInitInv == SignoffInit => SignoffInv
<1> SUFFICES ASSUME SignoffInit PROVE SignoffInv
  OBVIOUS
<1> USE DEF SignoffInit
<1>1. \A r \in Signers : signing[r].stage = "idle"
  BY DEF SignerIdle
<1>2. SignoffTypeOK
  <2>1. nextId \in 1 .. MaxId + 1 /\ records \subseteq Records
    BY SignoffAssumption
  <2>3. raced \in BOOLEAN
    OBVIOUS
  <2>2. signing \in [Signers -> SignerJobs]
    BY DEF SignerJobs
  <2> QED BY <2>1, <2>2, <2>3 DEF SignoffTypeOK, SignerJobs
<1>3. RevocationsFollowApprovals /\ RevokedOnce
  BY DEF RevocationsFollowApprovals, RevokedOnce
<1>4. (\A r \in Signers : Grounded(r)) /\ OneSigner
  BY <1>1 DEF Grounded, OneSigner
<1> QED BY <1>1, <1>2, <1>3, <1>4 DEF SignoffInv

\* Every step preserves the invariant.
LEMMA SignoffStepInv == SignoffInv /\ [SignoffNext]_signoffVars => SignoffInv'
<1> SUFFICES ASSUME SignoffInv, [SignoffNext]_signoffVars PROVE SignoffInv'
  OBVIOUS
<1> USE DEF SignoffInv
<1>j. /\ signing \in [Signers -> SignerJobs]
      /\ SignoffTypeOK
  BY DEF SignoffTypeOK, SignerJobs
<1>1. CASE UNCHANGED signoffVars
  BY <1>1 DEF signoffVars, SignoffTypeOK, RevocationsFollowApprovals, Grounded, OneSigner, CanRevoke, IsLatest, RevokedOnce
<1>2. ASSUME NEW r \in Signers, NEW a \in VALID_ACTIONS, Serving(r, Decided(a)), a = "revoked" => CanRevoke
      PROVE  SignoffInv'
  <2> USE <1>2 DEF Serving
  <2>1. signing' \in [Signers -> SignerJobs] /\ signing'[r] = Decided(a) /\ \A s \in Signers \ {r} : signing'[s] = signing[s]
    BY <1>j DEF SignerJobs
  <2>2. Decided(a).stage = "decided" /\ Decided(a).action = a
    BY DEF Decided
  <2>3. SignoffTypeOK'
    BY <2>1, <1>j DEF SignoffTypeOK, SignerJobs
  <2>4. (\A x \in records : x.id < nextId)' /\ RevocationsFollowApprovals' /\ RevokedOnce'
    BY DEF RevocationsFollowApprovals, RevokedOnce
  <2>5. (\A s \in Signers : signing[s].stage = "inserted" => signing[s].record.id < nextId)'
    BY <2>1, <2>2
  <2>6. (\A s \in Signers : Grounded(s))'
    BY <2>1, <2>2, <1>j DEF Grounded, CanRevoke, IsLatest, SignoffTypeOK, Records, VALID_ACTIONS
  <2>7. (~raced => OneSigner)'
    BY <2>1, <2>2 DEF OneSigner, CanRevoke, IsLatest
  <2> QED BY <2>3, <2>4, <2>5, <2>6, <2>7
<1>3. ASSUME NEW r \in Signers, InsertRecord(r) PROVE SignoffInv'
  <2> DEFINE rec == [id |-> nextId, action |-> signing[r].action]
  <2> USE <1>3 DEF InsertRecord
  <2>0. rec \in Records /\ nextId' = nextId + 1 /\ nextId \in Nat /\ nextId' \in 1 .. MaxId + 1
    BY <1>j, JobShape, SignoffAssumption DEF Records, SignoffTypeOK, Ids
  <2>1. signing' \in [Signers -> SignerJobs] /\ signing'[r] = Inserted(rec) /\ \A s \in Signers \ {r} : signing'[s] = signing[s]
    BY <1>j, <2>0 DEF SignerJobs
  <2>2. /\ Inserted(rec).stage = "inserted" /\ Inserted(rec).record = rec
        /\ rec.id = nextId /\ rec.action = signing[r].action
    BY DEF Inserted
  <2> HIDE DEF rec
  <2>3. SignoffTypeOK'
    BY <2>0, <2>1, <1>j DEF SignoffTypeOK, SignerJobs
  <2>n. \A x \in records : x.id \in Nat
    BY <1>j DEF SignoffTypeOK, Records, Ids
  <2>4. (\A x \in records : x.id < nextId)' /\ RevocationsFollowApprovals' /\ RevokedOnce'
    BY <2>0, <2>n DEF RevocationsFollowApprovals, RevokedOnce
  <2>m. \A s \in Signers : signing[s].stage = "inserted" => signing[s].record.id \in Nat
    BY <1>j, JobShape DEF Records, Ids
  <2>5. (\A s \in Signers : signing[s].stage = "inserted" => signing[s].record.id < nextId)'
    BY <2>0, <2>1, <2>2, <2>m
  <2>6. (\A s \in Signers : Grounded(s))'
    BY <2>1, <2>2 DEF Grounded
  <2>7. (~raced => OneSigner)'
    BY <2>1, <2>2 DEF OneSigner, CanRevoke, IsLatest
  <2> QED BY <2>3, <2>4, <2>5, <2>6, <2>7
<1>4. ASSUME NEW r \in Signers, CommitRecord(r) PROVE SignoffInv'
  <2> DEFINE rec == signing[r].record
  <2> USE <1>4 DEF CommitRecord
  <2>0. rec \in Records /\ rec.id \in Nat /\ rec.id < nextId /\ records \subseteq Records
        /\ rec.action \in VALID_ACTIONS /\ \A x \in records : x.id \in Nat /\ x.action \in VALID_ACTIONS
    BY <1>j, JobShape DEF Records, Ids, SignoffTypeOK
  <2>1. signing' \in [Signers -> SignerJobs] /\ signing'[r] = SignerIdle /\ \A s \in Signers \ {r} : signing'[s] = signing[s]
    BY <1>j DEF SignerJobs
  <2>2. SignerIdle.stage = "idle"
    BY DEF SignerIdle
  <2>a. rec.action = "revoked" => \E y \in records : y.id < rec.id /\ y.action \in ApprovedActions
    BY DEF Grounded
  <2>b. ~raced => /\ \A x \in records : x.id < rec.id
                  /\ rec.action = "revoked" => CanRevoke
    BY DEF OneSigner
  <2>c. records' = records \cup {rec} /\ nextId' = nextId /\ raced' = raced
    OBVIOUS
  <2> HIDE DEF rec
  <2>3. SignoffTypeOK'
    BY <2>0, <2>1, <2>c, <1>j DEF SignoffTypeOK, SignerJobs
  <2>4. (\A x \in records : x.id < nextId)'
    BY <2>0, <2>c
  <2>5. (\A s \in Signers : signing[s].stage = "inserted" => signing[s].record.id < nextId)'
    BY <2>1, <2>2, <2>c
  <2>6. RevocationsFollowApprovals'
    BY <2>0, <2>a, <2>c DEF RevocationsFollowApprovals
  <2>7. (\A s \in Signers : Grounded(s))'
    BY <2>1, <2>2, <2>c DEF Grounded
  <2>8. (~raced => OneSigner)'
    <3> SUFFICES ASSUME ~raced PROVE OneSigner'
      BY <2>c
    <3>1. OneSigner /\ \A s \in Signers \ {r} : signing[s].stage = "idle"
      BY DEF OneSigner
    <3>2. \A s \in Signers : signing'[s].stage = "idle"
      BY <2>1, <2>2, <3>1
    <3>3. \A x, y \in records' : x.id = y.id => x = y
      BY <2>0, <2>b, <2>c, <3>1 DEF OneSigner
    <3> QED BY <3>2, <3>3 DEF OneSigner
  <2>9. RevokedOnce'
    <3> SUFFICES ASSUME ~raced, NEW x \in records', NEW y \in records',
                        x.action = "revoked", y.action = "revoked", x.id < y.id
                 PROVE  \E z \in records' : x.id < z.id /\ z.id < y.id /\ z.action \in ApprovedActions
      BY <2>c DEF RevokedOnce
    <3>1. CASE x \in records /\ y \in records
      BY <3>1, <2>c DEF RevokedOnce
    <3>2. CASE x = rec
      <4> y \in records
        BY <3>2, <2>0, <2>c
      <4> QED BY <3>2, <2>0, <2>b
    <3>3. CASE x \in records /\ y = rec
      <4>1. PICK z \in records : IsLatest(z) /\ z.action # "revoked"
        BY <3>3, <2>b DEF CanRevoke
      <4>2. x.id <= z.id /\ x # z /\ x.id # z.id
        BY <3>3, <4>1 DEF IsLatest, OneSigner
      <4>3. x.id < z.id /\ z.id < rec.id /\ z.action \in ApprovedActions
        BY <3>3, <4>1, <4>2, <2>0, <2>b DEF VALID_ACTIONS
      <4> QED BY <4>3, <3>3, <2>c
    <3> QED BY <3>1, <3>2, <3>3, <2>c
  <2> QED BY <2>3, <2>4, <2>5, <2>6, <2>7, <2>8, <2>9
<1>5. ASSUME NEW r \in Signers, RollbackRecord(r) PROVE SignoffInv'
  <2> USE <1>5 DEF RollbackRecord
  <2>1. signing' \in [Signers -> SignerJobs] /\ signing'[r] = SignerIdle /\ \A s \in Signers \ {r} : signing'[s] = signing[s]
    BY <1>j DEF SignerJobs
  <2>2. SignerIdle.stage = "idle"
    BY DEF SignerIdle
  <2>3. SignoffTypeOK'
    BY <2>1, <1>j DEF SignoffTypeOK, SignerJobs
  <2>4. (\A x \in records : x.id < nextId)' /\ RevocationsFollowApprovals' /\ RevokedOnce'
    BY DEF RevocationsFollowApprovals, RevokedOnce
  <2>5. (\A s \in Signers : signing[s].stage = "inserted" => signing[s].record.id < nextId)'
    BY <2>1, <2>2
  <2>6. (\A s \in Signers : Grounded(s))'
    BY <2>1, <2>2 DEF Grounded
  <2>7. (~raced => OneSigner)'
    BY <2>1, <2>2 DEF OneSigner, CanRevoke, IsLatest
  <2> QED BY <2>3, <2>4, <2>5, <2>6, <2>7
<1> QED
  BY <1>1, <1>2, <1>3, <1>4, <1>5
     DEF SignoffNext, ApproveEntity, RevokeApproval, VALID_ACTIONS, ApprovedActions

\* The strengthened invariant holds in every reachable state.
THEOREM SignoffInvariant == SignoffSpec => []SignoffInv
BY SignoffInitInv, SignoffStepInv, PTL DEF SignoffSpec

\* Records, ids and requests stay well formed.
THEOREM SignoffTypeCorrect == SignoffSpec => []SignoffTypeOK
BY SignoffInvariant, PTL DEF SignoffInv

\* No record of the log revokes what was never approved, for any number of
\* concurrent requests.
THEOREM RevocationsGrounded == SignoffSpec => []RevocationsFollowApprovals
BY SignoffInvariant, PTL DEF SignoffInv

\* Without overlapping requests nothing is revoked twice in a row.
THEOREM NoDoubleRevocation == SignoffSpec => []RevokedOnce
BY SignoffInvariant, PTL DEF SignoffInv

\* The log starts as an artifact nobody signed.
LEMMA SignoffRefinesInit == SignoffInit => A!Init
BY DEF SignoffInit, A!Init, CurrentApproval

\* Every step of the log approves, revokes what is approved, or changes
\* nothing that the latest record shows.
LEMMA SignoffRefinesStep ==
    SignoffInv /\ [SignoffNext]_signoffVars => [A!Approve \/ A!Revoke]_CurrentApproval
<1> SUFFICES ASSUME SignoffInv, [SignoffNext]_signoffVars, CurrentApproval' # CurrentApproval
             PROVE  A!Approve \/ A!Revoke
  BY DEF A!Approve, A!Revoke
<1>1. PICK r \in Signers : CommitRecord(r)
  <2>1. (UNCHANGED records) => CurrentApproval' = CurrentApproval
    BY DEF CurrentApproval, IsLatest
  <2> QED BY <2>1 DEF SignoffNext, ApproveEntity, RevokeApproval, Serving, InsertRecord, RollbackRecord, signoffVars
<1>2. PICK rec \in Records :
          /\ rec = signing[r].record
          /\ records' = records \cup {rec} /\ rec.id \in Nat /\ rec.action \in VALID_ACTIONS
          /\ \A x \in records : x.id \in Nat
  BY <1>1, JobShape DEF CommitRecord, SignoffInv, SignoffTypeOK, SignerJobs, Records, Ids
<1>3. rec.action = "revoked" => records # {}
  BY <1>1, <1>2 DEF SignoffInv, Grounded, CommitRecord
<1>4. records' # {}
  BY <1>2
<1>5. CASE rec.action = "revoked"
  <2>1. CASE \E x \in records : IsLatest(x) /\ x.action = "revoked"
    <3>1. PICK x \in records : IsLatest(x) /\ x.action = "revoked"
      BY <2>1
    <3>2. IsLatest(x)' \/ IsLatest(rec)'
      BY <3>1, <1>2 DEF IsLatest
    <3>3. CurrentApproval' = "revoked" /\ CurrentApproval = "revoked"
      BY <3>1, <3>2, <1>2, <1>4, <1>5 DEF CurrentApproval
    <3> QED BY <3>3
  <2>2. CASE ~ \E x \in records : IsLatest(x) /\ x.action = "revoked"
    <3>1. CurrentApproval = "approved" /\ CurrentApproval' \in {"approved", "revoked"}
      BY <2>2, <1>3, <1>4, <1>5 DEF CurrentApproval
    <3> QED BY <3>1 DEF A!Revoke
  <2> QED BY <2>1, <2>2
<1>6. CASE rec.action # "revoked"
  <2>1. CASE \E x \in records' : IsLatest(x)' /\ x.action = "revoked"
    <3>1. PICK x \in records' : IsLatest(x)' /\ x.action = "revoked"
      BY <2>1
    <3>2. x \in records /\ IsLatest(x)
      BY <3>1, <1>2, <1>6 DEF IsLatest
    <3>3. CurrentApproval' = "revoked" /\ CurrentApproval = "revoked"
      BY <3>1, <3>2, <1>4 DEF CurrentApproval
    <3> QED BY <3>3
  <2>2. CASE ~ \E x \in records' : IsLatest(x)' /\ x.action = "revoked"
    BY <2>2, <1>4 DEF CurrentApproval, A!Approve
  <2> QED BY <2>1, <2>2
<1> QED BY <1>5, <1>6

\* The records, read through the latest one, implement the approval state that
\* the gates of the cutover plan and of change management rely on.
THEOREM SignoffRefines == SignoffSpec => ImplementsApproval
<1>1. SignoffInit => A!Init
  BY SignoffRefinesInit
<1>2. SignoffInv /\ [SignoffNext]_signoffVars => [A!Approve \/ A!Revoke]_CurrentApproval
  BY SignoffRefinesStep
<1> QED BY <1>1, <1>2, SignoffInvariant, PTL DEF SignoffSpec, ImplementsApproval, A!Spec

------------------------------------------------------------------------------
(* The exit criteria and the closing of the plan                              *)

Writable == [status : SUBSET CriteriaStatuses, auto : SUBSET BOOLEAN, mandatory : SUBSET BOOLEAN]

\* What a request under way knows: the rows it has read are still there, and
\* what an evaluation found met has evidence, or was edited meanwhile.
JobOK(job) ==
    /\ job # Idle => job.op # "idle"
    /\ job.op = "edit" => job.row \in Defined /\ job.write \in Writable
    /\ job.op = "evaluate" =>
           /\ DOMAIN job.seen \cup DOMAIN job.new \subseteq Defined
           /\ \A row \in DOMAIN job.new :
                  /\ job.new[row] \in CriteriaStatuses
                  /\ job.new[row] = "met" => row \in edited \/ Kind(row) \in evidence

\* What it still knows when no other request runs: a seeding finds nothing
\* standard, and an evaluation only what is evaluated automatically.
AloneJob(job) ==
    /\ job.op = "seed" => \A row \in Defined : Kind(row) \notin Standard
    /\ job.op = "evaluate" => DOMAIN job.seen \cup DOMAIN job.new \subseteq AutoRows

OneRequest ==
    /\ \A t, o \in ExitThreads : exitJob[t] # Idle /\ exitJob[o] # Idle => t = o
    /\ \A t \in ExitThreads : AloneJob(exitJob[t])

\* ClosedWasReady needs its reason: when the mandatory criteria are met this
\* was seen, and whoever signs, has signed or closes has seen it or bypassed it.
ReadyInv ==
    /\ Mandatory # {} /\ MandatoryMet => readyOnce
    /\ approval = "approved" \/ exitPlan = "closed" => readyOnce \/ bypassed
    /\ \A t \in ExitThreads : exitJob[t].op \in {"signoff", "close"} => readyOnce \/ bypassed

ExitInv ==
    /\ ExitTypeOK
    /\ exitJob = [t \in ExitThreads |-> exitJob[t]]
    /\ \A t \in ExitThreads : JobOK(exitJob[t])
    /\ {k \in Standard : Holds(k, value)} \subseteq evidence
    /\ ~exitRaced => OneRequest
    /\ ReadyInv
    /\ CriteriaTruthful

\* A request begins with nothing but what it has just read.
LEMMA ExitBegins ==
    ASSUME ExitInv, NEW t \in ExitThreads, NEW job, Begin(t, job), job.op # "idle", JobOK(job),
           ~exitRaced /\ (\A o \in ExitThreads : exitJob[o] = Idle) => AloneJob(job),
           job.op \in {"signoff", "close"} => readyOnce \/ bypassed',
           bypassed => bypassed', edits' \in 0 .. MaxEdits,
           UNCHANGED <<criteria, value, approval, exitPlan, evidence, edited, readyOnce>>
    PROVE  ExitInv'
<1>1. /\ exitJob' = [o \in ExitThreads |-> exitJob'[o]]
      /\ exitJob'[t] = job /\ \A o \in ExitThreads \ {t} : exitJob'[o] = exitJob[o]
      /\ exitJob[t] = Idle
  <2>1. exitJob' = [exitJob EXCEPT ![t] = job] /\ exitJob[t] = Idle
    BY DEF Begin
  <2> QED BY <2>1 DEF ExitInv
<1>2. ExitTypeOK'
  BY DEF ExitInv, ExitTypeOK
<1>3. \A o \in ExitThreads : JobOK(exitJob[o])'
  BY <1>1 DEF ExitInv, JobOK, Defined
<1>4. ~exitRaced' => OneRequest'
  <2>1. SUFFICES ASSUME ~exitRaced' PROVE OneRequest'
    OBVIOUS
  <2>2. ~exitRaced /\ \A o \in ExitThreads : exitJob[o] = Idle
    BY <1>1, <2>1 DEF Begin
  <2>3. AloneJob(job)
    BY <2>2
  <2>4. ~(Idle.op \in {"seed", "evaluate"})
    BY DEF Idle
  <2> QED BY <1>1, <2>2, <2>3, <2>4 DEF OneRequest, AloneJob, Defined, AutoRows
<1>5. ReadyInv'
  BY <1>1 DEF ExitInv, ReadyInv, Mandatory, MandatoryMet, AllMet, Defined
<1>6. CriteriaTruthful'
  <2>1. UNCHANGED <<criteria, edited, evidence>> /\ (~exitRaced' => ~exitRaced) /\ CriteriaTruthful
    BY DEF ExitInv, Begin
  <2> QED BY <2>1 DEF CriteriaTruthful, MetHasEvidence, SeededOnce, Defined
<1> QED BY <1>1, <1>2, <1>3, <1>4, <1>5, <1>6 DEF ExitInv, Holds

\* A request commits rows: none goes away, what is met has evidence or was
\* edited, and without overlap no other request minds.
LEMMA ExitCommits ==
    ASSUME ExitInv, NEW t \in ExitThreads, NEW new \in [Rows -> RowStates \cup {NoRow}],
           CommitRows(t, new), \A row \in Defined : new[row] # NoRow,
           \A row \in Rows \ edited' : new[row] # NoRow /\ new[row].status = "met" => Kind(row) \in evidence,
           ~exitRaced => SeededOnce' /\ \A o \in ExitThreads \ {t} : AloneJob(exitJob[o])',
           edited \subseteq edited', edited' \subseteq Rows,
           UNCHANGED <<value, approval, exitPlan, edits, exitRaced, evidence, bypassed>>
    PROVE  ExitInv'
<1>1. /\ exitJob' = [o \in ExitThreads |-> exitJob'[o]]
      /\ exitJob'[t] = Idle /\ \A o \in ExitThreads \ {t} : exitJob'[o] = exitJob[o]
      /\ criteria' = new
  <2>1. exitJob' = [exitJob EXCEPT ![t] = Idle] /\ criteria' = new
    BY DEF CommitRows
  <2> QED BY <2>1 DEF ExitInv
<1>2. ExitTypeOK'
  BY <1>1 DEF ExitInv, ExitTypeOK
<1>3. Defined \subseteq Defined'
  BY <1>1 DEF Defined
<1>4. \A o \in ExitThreads : JobOK(exitJob[o])'
  BY <1>1, <1>3 DEF ExitInv, JobOK, Idle
<1>5. ~exitRaced' => OneRequest'
  BY <1>1 DEF ExitInv, OneRequest, AloneJob, Idle
<1>6. ReadyInv'
  BY <1>1 DEF ExitInv, ReadyInv, CommitRows, Mandatory, MandatoryMet, AllMet, Defined, Idle
<1>7. CriteriaTruthful'
  BY <1>1 DEF CriteriaTruthful, MetHasEvidence, SeededOnce, Defined
<1> QED BY <1>1, <1>2, <1>4, <1>5, <1>6, <1>7 DEF ExitInv, Holds

\* At first no criterion is defined.
LEMMA ExitInitInv == ExitInit => ExitInv
<1> SUFFICES ASSUME ExitInit PROVE ExitInv
  OBVIOUS
<1>1. Defined = {} /\ Mandatory = {}
  BY DEF ExitInit, Defined, Mandatory
<1>2. \A t \in ExitThreads : exitJob[t] = Idle
  BY DEF ExitInit
<1>3. Idle.op = "idle"
  BY DEF Idle
<1>4. ExitTypeOK
  BY ExitAssumption DEF ExitInit, ExitTypeOK, Sign!Approvals
<1> QED BY <1>1, <1>2, <1>3, <1>4 DEF ExitInit, ExitInv, JobOK, OneRequest, AloneJob, ReadyInv,
                                      CriteriaTruthful, MetHasEvidence, SeededOnce

\* A row is a pair of a criterion and a copy.
LEMMA RowShape ==
    ASSUME NEW row \in Rows
    PROVE  /\ Kind(row) = row[1] /\ row = <<row[1], row[2]>>
           /\ Kind(row) \in Standard => row[2] \in Copies
           /\ Kind(row) \notin Standard => Kind(row) \in Custom /\ row[2] = 0
BY ExitAssumption DEF Rows, Kind

\* Every step preserves the invariant.
LEMMA ExitStepInv == ExitInv /\ [ExitNext]_exitVars => ExitInv'
<1> SUFFICES ASSUME ExitInv, [ExitNext]_exitVars PROVE ExitInv'
  OBVIOUS
<1>t. /\ criteria \in [Rows -> RowStates \cup {NoRow}] /\ edits \in 0 .. MaxEdits /\ MaxEdits \in Nat
      /\ edited \subseteq Rows /\ evidence \subseteq Standard /\ value \in Measurements
      /\ \A t \in ExitThreads : JobOK(exitJob[t])
  BY ExitAssumption DEF ExitInv, ExitTypeOK
<1>r. \A row \in Rows : criteria[row] # NoRow <=> criteria[row] \in RowStates
  BY <1>t DEF NoRow, RowStates, CriteriaStatuses
<1>m. \A row \in Rows \ edited : criteria[row] # NoRow /\ criteria[row].status = "met" => Kind(row) \in evidence
  BY DEF ExitInv, CriteriaTruthful, MetHasEvidence, Defined
<1>i. Idle.op = "idle"
  BY DEF Idle
<1>1. ASSUME NEW k \in Standard, NEW v \in Values[k], DataChanges(k, v) PROVE ExitInv'
  <2>1. value' \in Measurements
    <3>1. value' = [value EXCEPT ![k] = v]
      BY <1>1 DEF DataChanges
    <3> QED BY <1>t, <3>1 DEF Measurements
  <2>2. /\ evidence' = evidence \cup {s \in Standard : Holds(s, value')}
        /\ UNCHANGED <<criteria, approval, exitPlan, exitJob, edits, exitRaced, edited, readyOnce, bypassed>>
    BY <1>1 DEF DataChanges
  <2>3. ExitTypeOK'
    BY <2>1, <2>2 DEF ExitInv, ExitTypeOK
  <2>4. \A t \in ExitThreads : JobOK(exitJob[t])'
    BY <1>t, <2>2 DEF JobOK, Defined
  <2>5. CriteriaTruthful'
    BY <2>2 DEF ExitInv, CriteriaTruthful, MetHasEvidence, SeededOnce, Defined
  <2> QED BY <2>2, <2>3, <2>4, <2>5 DEF ExitInv, ReadyInv, Mandatory, MandatoryMet, AllMet, Defined,
                                        OneRequest, AloneJob, AutoRows
<1>2. ASSUME NEW t \in ExitThreads, SeedExitCriteria(t) PROVE ExitInv'
  <2>1. PICK job : job = [op |-> "seed"]
    OBVIOUS
  <2>2. job.op = "seed" /\ JobOK(job) /\ AloneJob(job)
    BY <1>2, <2>1 DEF SeedExitCriteria, NothingDefined, JobOK, AloneJob
  <2> QED BY <1>2, <1>t, <2>1, <2>2, ExitBegins DEF SeedExitCriteria
<1>3. ASSUME NEW t \in ExitThreads, SeedCommit(t) PROVE ExitInv'
  <2>1. PICK n \in Copies :
          /\ \A k \in Standard, m \in Copies : m >= n => criteria[<<k, m>>] = NoRow
          /\ \A m \in Copies : m < n => \E k \in Standard : criteria[<<k, m>>] # NoRow
          /\ CommitRows(t, [row \in Rows |->
               IF row[1] \in Standard /\ row[2] = n
               THEN [status |-> "not_met", auto |-> TRUE,
                     mandatory |-> _STANDARD_EXIT_CRITERIA[row[1]].mandatory]
               ELSE criteria[row]])
    BY <1>3 DEF SeedCommit
  <2>2. PICK new : new = [row \in Rows |->
               IF row[1] \in Standard /\ row[2] = n
               THEN [status |-> "not_met", auto |-> TRUE,
                     mandatory |-> _STANDARD_EXIT_CRITERIA[row[1]].mandatory]
               ELSE criteria[row]]
    OBVIOUS
  <2>3. \A k \in Standard : _STANDARD_EXIT_CRITERIA[k].mandatory \in BOOLEAN
    <3>1. Standard \subseteq {"incident", "sla", "kt", "handover", "metric"}
      BY ExitAssumption DEF _STANDARD_EXIT_CRITERIA
    <3>2. _STANDARD_EXIT_CRITERIA["incident"].mandatory \in BOOLEAN
      BY DEF _STANDARD_EXIT_CRITERIA
    <3>3. _STANDARD_EXIT_CRITERIA["sla"].mandatory \in BOOLEAN
      BY DEF _STANDARD_EXIT_CRITERIA
    <3>4. _STANDARD_EXIT_CRITERIA["kt"].mandatory \in BOOLEAN
      BY DEF _STANDARD_EXIT_CRITERIA
    <3>5. _STANDARD_EXIT_CRITERIA["handover"].mandatory \in BOOLEAN
      BY DEF _STANDARD_EXIT_CRITERIA
    <3>6. _STANDARD_EXIT_CRITERIA["metric"].mandatory \in BOOLEAN
      BY DEF _STANDARD_EXIT_CRITERIA
    <3> QED BY <3>1, <3>2, <3>3, <3>4, <3>5, <3>6
  <2>4. \A row \in Rows : IF row[1] \in Standard /\ row[2] = n
                          THEN new[row] \in RowStates /\ new[row].status = "not_met" /\ criteria[row] = NoRow
                          ELSE new[row] = criteria[row]
    <3>1. SUFFICES ASSUME NEW row \in Rows, row[1] \in Standard, row[2] = n
                   PROVE  new[row] \in RowStates /\ new[row].status = "not_met" /\ criteria[row] = NoRow
      BY <2>2
    <3>2. new[row] = [status |-> "not_met", auto |-> TRUE,
                      mandatory |-> _STANDARD_EXIT_CRITERIA[row[1]].mandatory]
      BY <2>2, <3>1
    <3>3. criteria[<<row[1], n>>] = NoRow
      BY <2>1, <3>1, ExitAssumption
    <3> QED BY <2>3, <3>1, <3>2, <3>3, RowShape DEF RowStates, CriteriaStatuses
  <2>5. new \in [Rows -> RowStates \cup {NoRow}] /\ \A row \in Defined : new[row] # NoRow
    BY <1>t, <1>r, <2>2, <2>4 DEF Defined
  <2>6. \A row \in Rows \ edited : new[row] # NoRow /\ new[row].status = "met" => Kind(row) \in evidence
    BY <1>m, <2>4
  <2>7. exitJob[t] # Idle /\ criteria' = new /\ UNCHANGED exitRaced
    BY <1>3, <1>i, <2>1, <2>2 DEF SeedCommit, CommitRows
  <2>8. ~exitRaced => SeededOnce' /\ \A o \in ExitThreads \ {t} : AloneJob(exitJob[o])'
    <3>1. SUFFICES ASSUME ~exitRaced PROVE SeededOnce' /\ \A o \in ExitThreads \ {t} : AloneJob(exitJob[o])'
      OBVIOUS
    <3>2. /\ \A o \in ExitThreads \ {t} : exitJob[o] = Idle
          /\ \A row \in Defined : Kind(row) \notin Standard
      BY <1>3, <2>7, <3>1 DEF ExitInv, OneRequest, AloneJob, SeedCommit
    <3>3. exitJob' = [exitJob EXCEPT ![t] = Idle]
      BY <2>1 DEF CommitRows
    <3>4. \A o \in ExitThreads \ {t} : exitJob'[o] = Idle
      BY <3>2, <3>3 DEF ExitInv
    <3>5. \A k \in Standard, m \in Copies : <<k, m>> \in Defined' => m = n
      <4>1. SUFFICES ASSUME NEW k \in Standard, NEW m \in Copies, <<k, m>> \in Defined', m # n PROVE FALSE
        OBVIOUS
      <4>2. PICK row \in Rows : row = <<k, m>>
        BY DEF Rows
      <4>3. row \in Defined
        BY <2>4, <2>7, <4>1, <4>2 DEF Defined
      <4> QED BY <3>2, <4>2, <4>3 DEF Kind
    <3> QED BY <1>i, <3>4, <3>5 DEF SeededOnce, AloneJob
  <2> QED BY <1>3, <1>t, <2>1, <2>2, <2>5, <2>6, <2>8, ExitCommits DEF SeedCommit
<1>4. ASSUME NEW t \in ExitThreads, NEW k \in Custom, NEW m \in BOOLEAN, CreateExitCriterion(t, k, m) PROVE ExitInv'
  <2>1. PICK new : new = [criteria EXCEPT ![<<k, 0>>] = [status |-> "not_met", auto |-> FALSE, mandatory |-> m]]
    OBVIOUS
  <2>2. PICK row \in Rows : row = <<k, 0>> /\ Kind(row) = k /\ k \notin Standard
    <3>1. <<k, 0>> \in Rows /\ Kind(<<k, 0>>) = k
      BY DEF Rows, Kind
    <3> QED BY <3>1, ExitAssumption
  <2>3. [status |-> "not_met", auto |-> FALSE, mandatory |-> m] \in RowStates
    BY DEF RowStates, CriteriaStatuses
  <2>4. /\ new[row] \in RowStates /\ new[row].status = "not_met"
        /\ \A r \in Rows \ {row} : new[r] = criteria[r]
        /\ new \in [Rows -> RowStates \cup {NoRow}]
    BY <1>t, <2>1, <2>2, <2>3
  <2>5. criteria' = new /\ criteria[row] = NoRow /\ UNCHANGED exitRaced /\ exitJob[t] = Idle
    BY <1>4, <2>1, <2>2 DEF CreateExitCriterion, CommitRows
  <2>6. \A r \in Defined : new[r] # NoRow /\ new[r] = criteria[r]
    BY <1>r, <2>4, <2>5 DEF Defined
  <2>7. Defined' = Defined \cup {row}
    BY <1>r, <2>4, <2>5 DEF Defined, NoRow, RowStates, CriteriaStatuses
  <2>8. ~exitRaced => SeededOnce' /\ \A o \in ExitThreads \ {t} : AloneJob(exitJob[o])'
    <3>1. SUFFICES ASSUME ~exitRaced PROVE SeededOnce' /\ \A o \in ExitThreads \ {t} : AloneJob(exitJob[o])'
      OBVIOUS
    <3>2. exitJob' = [exitJob EXCEPT ![t] = Idle]
      BY <1>4 DEF CreateExitCriterion, CommitRows
    <3>3. \A o \in ExitThreads \ {t} : exitJob'[o] = exitJob[o]
      BY <3>2 DEF ExitInv
    <3>4. AutoRows \subseteq AutoRows'
      BY <2>5, <2>6, <2>7 DEF AutoRows
    <3>5. \A o \in ExitThreads \ {t} : AloneJob(exitJob[o])'
      BY <2>2, <2>7, <3>1, <3>3, <3>4 DEF ExitInv, OneRequest, AloneJob
    <3>6. SeededOnce'
      BY <2>2, <2>5, <2>7, <3>1 DEF ExitInv, CriteriaTruthful, SeededOnce, Kind
    <3> QED BY <3>5, <3>6
  <2>9. \A r \in Rows \ edited : new[r] # NoRow /\ new[r].status = "met" => Kind(r) \in evidence
    BY <1>m, <2>4
  <2>10. /\ CommitRows(t, new)
         /\ UNCHANGED <<value, approval, exitPlan, edits, exitRaced, evidence, edited, bypassed>>
    BY <1>4, <2>1 DEF CreateExitCriterion
  <2> QED BY <1>t, <2>4, <2>6, <2>8, <2>9, <2>10, ExitCommits
<1>5. ASSUME NEW t \in ExitThreads, NEW row \in Rows, NEW e \in Offered, UpdateExitCriterion(t, row, e) PROVE ExitInv'
  <2>1. PICK w : w = [status |-> e.status \ {criteria[row].status}, auto |-> e.auto \ {criteria[row].auto},
                      mandatory |-> e.mandatory \ {criteria[row].mandatory}]
    OBVIOUS
  <2>2. w \in Writable
    <3>1. e \in Edits
      BY ExitAssumption
    <3>2. e.status \subseteq CriteriaStatuses /\ e.auto \subseteq BOOLEAN /\ e.mandatory \subseteq BOOLEAN
      BY <3>1 DEF Edits, Optional
    <3> QED BY <2>1, <3>2 DEF Writable
  <2>3. PICK job : job = [op |-> "edit", row |-> row, write |-> w]
    OBVIOUS
  <2>4. job.op = "edit" /\ JobOK(job) /\ AloneJob(job)
    BY <1>5, <2>2, <2>3 DEF UpdateExitCriterion, JobOK, AloneJob
  <2>5. edits' \in 0 .. MaxEdits
    BY <1>5, <1>t DEF UpdateExitCriterion
  <2> QED BY <1>5, <2>1, <2>3, <2>4, <2>5, ExitBegins DEF UpdateExitCriterion
<1>6. ASSUME NEW t \in ExitThreads, UpdateCommit(t) PROVE ExitInv'
  <2>1. exitJob[t].row \in Defined /\ exitJob[t].row \in Rows /\ exitJob[t].write \in Writable
    BY <1>6, <1>t DEF UpdateCommit, JobOK, Defined
  <2>2. PICK row \in Rows : row = exitJob[t].row
    BY <2>1
  <2>3. PICK w \in Writable : w = exitJob[t].write
    BY <2>1
  <2>4. criteria[row] \in RowStates
    BY <1>r, <2>1, <2>2 DEF Defined
  <2>5. PICK r : r = [status |-> Written(w.status, criteria[row].status), auto |-> Written(w.auto, criteria[row].auto),
                      mandatory |-> Written(w.mandatory, criteria[row].mandatory)]
    OBVIOUS
  <2>6. r \in RowStates
    <3>1. ASSUME NEW S, NEW new \in SUBSET S, NEW old \in S PROVE Written(new, old) \in S
      BY <3>1 DEF Written
    <3>2. Written(w.status, criteria[row].status) \in CriteriaStatuses
      BY <2>4, <3>1 DEF Writable, RowStates
    <3>3. Written(w.auto, criteria[row].auto) \in BOOLEAN
      BY <2>4, <3>1 DEF Writable, RowStates
    <3>4. Written(w.mandatory, criteria[row].mandatory) \in BOOLEAN
      BY <2>4, <3>1 DEF Writable, RowStates
    <3> QED BY <2>5, <3>2, <3>3, <3>4 DEF RowStates
  <2>7. PICK new : new = [criteria EXCEPT ![row] = r]
    OBVIOUS
  <2>8. /\ new \in [Rows -> RowStates \cup {NoRow}] /\ new[row] = r
        /\ \A o \in Rows \ {row} : new[o] = criteria[o]
    BY <1>t, <2>6, <2>7
  <2>9. CommitRows(t, new) /\ edited' = edited \cup {row}
    BY <1>6, <2>2, <2>3, <2>5, <2>7 DEF UpdateCommit
  <2>10. \A o \in Defined : new[o] # NoRow
    BY <1>r, <2>6, <2>8 DEF Defined, NoRow, RowStates, CriteriaStatuses
  <2>11. \A o \in Rows \ edited' : new[o] # NoRow /\ new[o].status = "met" => Kind(o) \in evidence
    BY <1>m, <2>8, <2>9
  <2>12. ~exitRaced => SeededOnce' /\ \A o \in ExitThreads \ {t} : AloneJob(exitJob[o])'
    <3>1. SUFFICES ASSUME ~exitRaced PROVE SeededOnce' /\ \A o \in ExitThreads \ {t} : AloneJob(exitJob[o])'
      OBVIOUS
    <3>2. exitJob' = [exitJob EXCEPT ![t] = Idle] /\ criteria' = new
      BY <2>9 DEF CommitRows
    <3>3. \A o \in ExitThreads \ {t} : exitJob'[o] = Idle
      BY <1>6, <1>i, <3>1, <3>2 DEF UpdateCommit, ExitInv, OneRequest
    <3>4. Defined' = Defined
      BY <2>1, <2>2, <2>8, <2>10, <3>2 DEF Defined
    <3> QED BY <1>6, <1>i, <3>1, <3>3, <3>4 DEF UpdateCommit, ExitInv, CriteriaTruthful, SeededOnce, AloneJob
  <2> QED BY <1>6, <1>t, <2>8, <2>9, <2>10, <2>11, <2>12, ExitCommits DEF UpdateCommit
<1>7. ASSUME NEW t \in ExitThreads, EvaluateExitCriteria(t) PROVE ExitInv'
  <2>1. PICK seen : seen = [row \in AutoRows |-> criteria[row].status]
    OBVIOUS
  <2>2. PICK new : new = [row \in {} |-> "met"]
    OBVIOUS
  <2>3. PICK job : job = [op |-> "evaluate", seen |-> seen, new |-> new]
    OBVIOUS
  <2>4. job.op = "evaluate" /\ DOMAIN job.seen = AutoRows /\ DOMAIN job.new = {}
    BY <2>1, <2>2, <2>3
  <2>5. JobOK(job) /\ AloneJob(job)
    BY <2>4 DEF JobOK, AloneJob, AutoRows
  <2> QED BY <1>7, <1>t, <2>1, <2>2, <2>3, <2>4, <2>5, ExitBegins DEF EvaluateExitCriteria
<1>8. ASSUME NEW t \in ExitThreads, EvaluateCommit(t) PROVE ExitInv'
  <2>1. PICK w : w = exitJob[t].new
    OBVIOUS
  <2>2. /\ DOMAIN w \subseteq Defined
        /\ \A row \in DOMAIN w : /\ w[row] \in CriteriaStatuses
                                 /\ w[row] = "met" => row \in edited \/ Kind(row) \in evidence
    BY <1>8, <1>t, <2>1 DEF EvaluateCommit, JobOK
  <2>3. PICK new : new = [row \in Rows |->
             IF row \in DOMAIN w THEN [criteria[row] EXCEPT !.status = w[row]] ELSE criteria[row]]
    OBVIOUS
  <2>4. \A row \in Rows : IF row \in DOMAIN w
                          THEN new[row] \in RowStates /\ new[row].status = w[row]
                          ELSE new[row] = criteria[row]
    <3>1. SUFFICES ASSUME NEW row \in Rows, row \in DOMAIN w
                   PROVE  new[row] \in RowStates /\ new[row].status = w[row]
      BY <2>3
    <3>2. criteria[row] \in RowStates /\ w[row] \in CriteriaStatuses
      BY <1>r, <2>2, <3>1 DEF Defined
    <3>3. new[row] = [criteria[row] EXCEPT !.status = w[row]]
      BY <2>3, <3>1
    <3> QED BY <3>2, <3>3 DEF RowStates
  <2>5. CommitRows(t, new)
    BY <1>8, <2>1, <2>3 DEF EvaluateCommit
  <2>6. new \in [Rows -> RowStates \cup {NoRow}]
    BY <1>t, <2>3, <2>4
  <2>7. \A row \in Defined : new[row] # NoRow
    BY <2>4 DEF Defined, NoRow, RowStates, CriteriaStatuses
  <2>8. \A row \in Rows \ edited : new[row] # NoRow /\ new[row].status = "met" => Kind(row) \in evidence
    BY <1>m, <2>2, <2>4
  <2>9. ~exitRaced => SeededOnce' /\ \A o \in ExitThreads \ {t} : AloneJob(exitJob[o])'
    <3>1. SUFFICES ASSUME ~exitRaced PROVE SeededOnce' /\ \A o \in ExitThreads \ {t} : AloneJob(exitJob[o])'
      OBVIOUS
    <3>2. exitJob' = [exitJob EXCEPT ![t] = Idle] /\ criteria' = new
      BY <2>5 DEF CommitRows
    <3>3. \A o \in ExitThreads \ {t} : exitJob'[o] = Idle
      BY <1>8, <1>i, <3>1, <3>2 DEF EvaluateCommit, ExitInv, OneRequest
    <3>4. Defined' = Defined
      BY <2>2, <2>4, <2>7, <3>2 DEF Defined
    <3> QED BY <1>8, <1>i, <3>1, <3>3, <3>4 DEF EvaluateCommit, ExitInv, CriteriaTruthful, SeededOnce, AloneJob
  <2> QED BY <1>8, <1>t, <2>5, <2>6, <2>7, <2>8, <2>9, ExitCommits DEF EvaluateCommit
<1>9. ASSUME NEW t \in ExitThreads, NEW row \in Rows, EvaluateRow(t, row) PROVE ExitInv'
  <2>1. PICK seen : seen = exitJob[t].seen
    OBVIOUS
  <2>2. PICK new : new = exitJob[t].new
    OBVIOUS
  <2>3. PICK k : k = Kind(row)
    OBVIOUS
  <2>4. PICK status : status = IF k \in Standard THEN Evaluation(value[k], _STANDARD_EXIT_CRITERIA[k]) ELSE seen[row]
    OBVIOUS
  <2>5. PICK W : W = DOMAIN new \cup (IF status = seen[row] THEN {} ELSE {row})
    OBVIOUS
  <2>6. PICK s : s = [r \in DOMAIN seen \ {row} |-> seen[r]]
    OBVIOUS
  <2>7. PICK n : n = [r \in W |-> IF r \in DOMAIN new THEN new[r] ELSE status]
    OBVIOUS
  <2>8. PICK job : job = [op |-> "evaluate", seen |-> s, new |-> n]
    OBVIOUS
  <2>9. exitJob' = [exitJob EXCEPT ![t] = job]
    BY <1>9, <2>1, <2>2, <2>3, <2>4, <2>5, <2>6, <2>7, <2>8 DEF EvaluateRow
  <2>10. /\ exitJob[t].op = "evaluate" /\ row \in DOMAIN seen
         /\ UNCHANGED <<criteria, value, approval, exitPlan, edits, exitRaced, evidence, edited, readyOnce, bypassed>>
    BY <1>9, <2>1 DEF EvaluateRow, exitHistory
  <2>11. job.op = "evaluate" /\ DOMAIN job.seen \subseteq DOMAIN seen /\ DOMAIN job.new \subseteq DOMAIN new \cup {row}
    BY <2>5, <2>6, <2>7, <2>8
  <2>12. /\ DOMAIN seen \cup DOMAIN new \subseteq Defined
         /\ \A r \in DOMAIN new : /\ new[r] \in CriteriaStatuses
                                  /\ new[r] = "met" => r \in edited \/ Kind(r) \in evidence
    BY <1>t, <2>1, <2>2, <2>10 DEF JobOK
  <2>13. k \in Standard => status \in CriteriaStatuses /\ (status = "met" => k \in evidence)
    BY <2>4 DEF Evaluation, CriteriaStatuses, ExitInv, Holds
  <2>14. \A r \in DOMAIN job.new : /\ job.new[r] \in CriteriaStatuses
                                   /\ job.new[r] = "met" => r \in edited \/ Kind(r) \in evidence
    BY <2>3, <2>4, <2>5, <2>7, <2>8, <2>12, <2>13
  <2>15. JobOK(job)
    BY <2>10, <2>11, <2>12, <2>14 DEF JobOK
  <2>16. AloneJob(exitJob[t]) => AloneJob(job)
    BY <2>1, <2>2, <2>10, <2>11 DEF AloneJob
  <2>17. /\ exitJob' = [o \in ExitThreads |-> exitJob'[o]]
         /\ exitJob'[t] = job /\ \A o \in ExitThreads \ {t} : exitJob'[o] = exitJob[o]
         /\ exitJob[t] # Idle
    BY <1>i, <2>9, <2>10 DEF ExitInv
  <2>18. \A o \in ExitThreads : JobOK(exitJob[o])'
    BY <1>t, <2>10, <2>15, <2>17 DEF JobOK, Defined
  <2>19. ~exitRaced => OneRequest'
    BY <2>10, <2>16, <2>17 DEF ExitInv, OneRequest, AloneJob, Defined, AutoRows
  <2>20. ReadyInv'
    BY <2>10, <2>11, <2>17 DEF ExitInv, ReadyInv, Mandatory, MandatoryMet, AllMet, Defined
  <2> QED BY <2>10, <2>17, <2>18, <2>19, <2>20
          DEF ExitInv, ExitTypeOK, Holds, CriteriaTruthful, MetHasEvidence, SeededOnce, Defined
<1>10. ASSUME NEW t \in ExitThreads, RequestExitSignoff(t) \/ ClosePlan(t) PROVE ExitInv'
  <2>1. CASE RequestExitSignoff(t)
    <3>1. PICK job : job = [op |-> "signoff"]
      OBVIOUS
    <3>2. job.op = "signoff" /\ JobOK(job) /\ AloneJob(job)
      BY <3>1 DEF JobOK, AloneJob
    <3>3. readyOnce \/ bypassed'
      BY <2>1 DEF RequestExitSignoff, ExitInv, ReadyInv
    <3> QED BY <1>t, <2>1, <3>1, <3>2, <3>3, ExitBegins DEF RequestExitSignoff
  <2>2. CASE ClosePlan(t)
    <3>1. PICK job : job = [op |-> "close"]
      OBVIOUS
    <3>2. job.op = "close" /\ JobOK(job) /\ AloneJob(job)
      BY <3>1 DEF JobOK, AloneJob
    <3>3. readyOnce \/ bypassed
      BY <2>2 DEF ClosePlan, IsEntityApproved, ExitInv, ReadyInv
    <3> QED BY <1>t, <2>2, <3>1, <3>2, <3>3, ExitBegins DEF ClosePlan
  <2> QED BY <1>10, <2>1, <2>2
<1>11. ASSUME NEW t \in ExitThreads, SignoffCommit(t) \/ CloseCommit(t) PROVE ExitInv'
  <2>1. /\ exitJob' = [exitJob EXCEPT ![t] = Idle] /\ exitJob[t].op \in {"signoff", "close"}
        /\ UNCHANGED <<criteria, value, edits, exitRaced, evidence, edited, readyOnce, bypassed>>
        /\ approval' \in {approval, "approved"} /\ exitPlan' \in {exitPlan, "closed"}
    BY <1>11 DEF SignoffCommit, CloseCommit, Sign!Approve, exitHistory
  <2>2. /\ exitJob' = [o \in ExitThreads |-> exitJob'[o]]
        /\ exitJob'[t] = Idle /\ \A o \in ExitThreads \ {t} : exitJob'[o] = exitJob[o]
    BY <2>1 DEF ExitInv
  <2>3. ExitTypeOK'
    BY <2>1 DEF ExitInv, ExitTypeOK, Sign!Approvals
  <2>4. \A o \in ExitThreads : JobOK(exitJob[o])'
    BY <1>t, <1>i, <2>1, <2>2 DEF JobOK, Defined
  <2>5. ~exitRaced => OneRequest'
    BY <1>i, <2>1, <2>2 DEF ExitInv, OneRequest, AloneJob, Defined, AutoRows
  <2>6. ReadyInv'
    BY <1>i, <2>1, <2>2 DEF ExitInv, ReadyInv, Mandatory, MandatoryMet, AllMet, Defined
  <2> QED BY <2>1, <2>2, <2>3, <2>4, <2>5, <2>6
          DEF ExitInv, Holds, CriteriaTruthful, MetHasEvidence, SeededOnce, Defined
<1>12. CASE GeneralSignoff \/ RevokeSignoff
  <2>1. /\ UNCHANGED <<criteria, value, exitPlan, exitJob, edits, exitRaced, evidence, edited, readyOnce>>
        /\ approval' \in Sign!Approvals /\ (bypassed => bypassed')
        /\ approval' = "approved" => bypassed'
    BY <1>12 DEF GeneralSignoff, RevokeSignoff, Sign!Approve, Sign!Revoke, Sign!Approvals, exitHistory
  <2> QED BY <2>1 DEF ExitInv, ExitTypeOK, JobOK, OneRequest, AloneJob, ReadyInv, Mandatory, MandatoryMet, AllMet,
                      Holds, CriteriaTruthful, MetHasEvidence, SeededOnce, Defined, AutoRows
<1>13. CASE UNCHANGED exitVars
  BY <1>13 DEF exitVars, exitHistory, ExitInv, ExitTypeOK, JobOK, OneRequest, AloneJob, ReadyInv, Mandatory, MandatoryMet,
               AllMet, Holds, CriteriaTruthful, MetHasEvidence, SeededOnce, Defined, AutoRows
<1> QED BY <1>1, <1>2, <1>3, <1>4, <1>5, <1>6, <1>7, <1>8, <1>9, <1>10, <1>11, <1>12, <1>13 DEF ExitNext

\* A closed plan was ready to be closed at some moment.
THEOREM ClosingWasEarned == ExitSpec => []ClosedWasReady
<1>1. ExitInv => ClosedWasReady
  BY DEF ExitInv, ReadyInv, ClosedWasReady
<1> QED BY <1>1, ExitInitInv, ExitStepInv, PTL DEF ExitSpec

\* The list of criteria tells the truth.
THEOREM CriteriaAreTruthful == ExitSpec => []CriteriaTruthful
<1>1. ExitInv => CriteriaTruthful
  BY DEF ExitInv
<1> QED BY <1>1, ExitInitInv, ExitStepInv, PTL DEF ExitSpec

\* No evaluation changes what a user said of a manual criterion.
THEOREM ManualVerdictStands == ExitSpec => ManualStatusStays
<1> DEFINE Stays == ~exitRaced' =>
        \A row \in Defined : ~criteria[row].auto /\ criteria'[row].status # criteria[row].status =>
            \E t \in ExitThreads : exitJob[t].op = "edit" /\ exitJob[t].row = row
<1>1. ExitInv /\ [ExitNext]_exitVars => [Stays]_exitVars
  <2> SUFFICES ASSUME ExitInv, [ExitNext]_exitVars, ~exitRaced', NEW row \in Defined,
                      ~criteria[row].auto, criteria'[row].status # criteria[row].status
               PROVE  \E t \in ExitThreads : exitJob[t].op = "edit" /\ exitJob[t].row = row
    OBVIOUS
  <2>1. row \in Rows /\ criteria[row] # NoRow /\ criteria' # criteria
    BY DEF Defined
  <2>2. ASSUME NEW t \in ExitThreads, SeedCommit(t) PROVE FALSE
    <3>1. PICK n \in Copies :
            /\ \A k \in Standard, m \in Copies : m >= n => criteria[<<k, m>>] = NoRow
            /\ criteria'[row] # criteria[row] => row[1] \in Standard /\ row[2] = n
      BY <2>1, <2>2 DEF SeedCommit, CommitRows
    <3> QED BY <2>1, <3>1, RowShape, ExitAssumption
  <2>3. ASSUME NEW t \in ExitThreads, NEW k \in Custom, NEW m \in BOOLEAN, CreateExitCriterion(t, k, m) PROVE FALSE
    <3>1. criteria' = [criteria EXCEPT ![<<k, 0>>] = [status |-> "not_met", auto |-> FALSE, mandatory |-> m]]
      BY <2>3 DEF CreateExitCriterion, CommitRows
    <3>2. criteria[<<k, 0>>] = NoRow
      BY <2>3 DEF CreateExitCriterion
    <3> QED BY <2>1, <3>1, <3>2 DEF ExitInv, ExitTypeOK
  <2>4. ASSUME NEW t \in ExitThreads, UpdateCommit(t)
        PROVE  exitJob[t].op = "edit" /\ exitJob[t].row = row
    <3>1. exitJob[t].op = "edit" /\ \E r : criteria' = [criteria EXCEPT ![exitJob[t].row] = r]
      BY <2>4 DEF UpdateCommit, CommitRows
    <3> QED BY <2>1, <3>1 DEF ExitInv, ExitTypeOK
  <2>5. ASSUME NEW t \in ExitThreads, EvaluateCommit(t) PROVE FALSE
    <3>1. /\ exitJob[t].op = "evaluate" /\ ~exitRaced
          /\ row \notin DOMAIN exitJob[t].new => criteria'[row] = criteria[row]
      BY <2>1, <2>5 DEF EvaluateCommit, CommitRows
    <3>2. row \in AutoRows
      BY <3>1 DEF ExitInv, OneRequest, AloneJob
    <3> QED BY <3>2 DEF AutoRows
  <2> QED BY <2>1, <2>2, <2>3, <2>4, <2>5
      DEF ExitNext, DataChanges, SeedExitCriteria, UpdateExitCriterion, EvaluateExitCriteria, EvaluateRow,
          RequestExitSignoff, SignoffCommit, ClosePlan, CloseCommit, GeneralSignoff, RevokeSignoff, exitVars
<1> QED BY <1>1, ExitInitInv, ExitStepInv, PTL DEF ExitSpec, ManualStatusStays

------------------------------------------------------------------------------
(* An incident and its escalation                                             *)

Attributes == {"status", "severity", "due", "response", "responseBreached", "resolutionBreached",
               "level", "count", "activity"}
Flags == {"responseBreached", "resolutionBreached"}
EventRows == [level : Levels, auto : BOOLEAN]

\* What an attribute may hold, and what a request may write to it.
Valid(a, x) ==
    /\ a = "status" => x \in DOMAIN INCIDENT_TRANSITIONS \cup Given("status")
    /\ a = "severity" => x \in Severities \cup Given("severity")
    /\ a = "level" => x \in Levels \cup {"none"} \cup Given("level")
    /\ a = "due" => x \in [response : Nat, resolution : Nat]
    /\ a \in {"response", "activity"} => x \in 0 .. minute
    /\ a = "count" => x \in Nat
    /\ a \in Flags => x \in BOOLEAN

ValidRow ==
    /\ incident = [a \in Attributes |-> incident[a]]
    /\ \A a \in Attributes : Valid(a, incident[a])

\* The response is flagged late, or will be when it comes.
FlagEarned(inc) ==
    inc["responseBreached"] =>
        (IF inc["response"] = Never THEN minute ELSE inc["response"]) > inc["due"].response

\* OneEventPerLevel and LadderInOrder of any list of events.
Fresh(s) == \A m, n \in DOMAIN s : m < n /\ s[n].auto => s[m].level # s[n].level
Ladder(s) ==
    \A n \in DOMAIN s : s[n].auto =>
        \E r \in Rules :
            /\ r.level = s[n].level /\ r.severity = incident.severity
            /\ \A q \in Rules : q.severity = r.severity /\ q.trigger = r.trigger
                                /\ q.order < r.order /\ q.after <= r.after =>
                   \E m \in 1 .. n - 1 : s[m].level = q.level
Untouched == touched \cap {"rules", "severity"} = {}

\* What a request will write, whatever overlaps it: flags are only raised, a
\* late response raises its flag, a resolution breach has its reason, and the
\* counter is not ahead of the events.
Writes(set, append) ==
    /\ DOMAIN set \subseteq Attributes \ {"due"}
    /\ \A a \in DOMAIN set : Valid(a, set[a]) /\ (a \in Flags => set[a] = TRUE)
    /\ append \in Seq(EventRows)
    /\ Exists =>
        /\ "response" \in DOMAIN set /\ set["response"] > incident.due.response =>
               "responseBreached" \in DOMAIN set \/ incident.responseBreached
        /\ "resolutionBreached" \in DOMAIN set => openLate \/ "resolved again" \in touched
        /\ append # << >> => "count" \in DOMAIN set
        /\ "count" \in DOMAIN set => set["count"] <= Len(events) + Len(append)

\* What it will write when nothing overlaps it leaves the records in agreement.
WritesAlone(set, append) ==
    Exists =>
        /\ FlagEarned(WrittenRow(set))
        /\ WrittenRow(set)["count"] = Len(events) + Len(append)
        /\ Fresh(events \o append)
        /\ Untouched => Ladder(events \o append) /\ "severity" \notin DOMAIN set

IncidentInv ==
    /\ incident # Deleted => ValidRow
    /\ ~Exists => events = << >>
    /\ events \in Seq(EventRows)
    /\ active \subseteq Rules /\ ("rules" \notin touched => active \in {{}, Rules})
    /\ minute \in 1 .. MaxMinutes
    /\ deskJob = [t \in DeskThreads |-> deskJob[t]]
    /\ \A t \in DeskThreads : deskJob[t] = [set |-> deskJob[t].set, append |-> deskJob[t].append]
    /\ \A t \in DeskThreads : Writes(deskJob[t].set, deskJob[t].append)
    /\ UnresolvedLate(incident, minute) => openLate
    /\ ~deskRaced =>
        /\ \A t, o \in DeskThreads : deskJob[t] # Quiet /\ deskJob[o] # Quiet => t = o
        /\ \A t \in DeskThreads : WritesAlone(deskJob[t].set, deskJob[t].append)
        /\ Exists => FlagEarned(incident)
    /\ SlaVerdicts
    /\ EscalationsAgree

\* The shape of a list of events, and of two.
LEMMA ListShape ==
    ASSUME NEW R, NEW s \in Seq(R)
    PROVE  /\ Len(s) \in Nat /\ DOMAIN s = 1 .. Len(s) /\ (Len(s) = 0 <=> s = << >>)
           /\ << >> \in Seq(R) /\ s \o << >> = s
OBVIOUS

\* The clock has started, and there are events or not.
LEMMA IncidentShape ==
    ASSUME IncidentInv
    PROVE  /\ minute \in Nat /\ 1 <= minute /\ minute <= MaxMinutes /\ MaxMinutes \in Nat
           /\ events \in Seq(EventRows) /\ Len(events) \in Nat /\ DOMAIN events = 1 .. Len(events)
<1>1. MaxMinutes \in Nat \ {0}
  BY IncidentsAssumption
<1>2. minute \in 1 .. MaxMinutes /\ events \in Seq(EventRows)
  BY DEF IncidentInv
<1> QED BY <1>1, <1>2, ListShape

\* A thread that serves nobody writes nothing.
LEMMA QuietWrites == DOMAIN Quiet.set = {} /\ Quiet.append = << >>
BY DEF Quiet

\* The least of some natural numbers.
LEMMA LeastNatural ==
    ASSUME NEW S \in SUBSET Nat, S # {}
    PROVE  \E m \in S : \A n \in S : m <= n
<1>1. PICK R : R = OpToRel(<, Nat)
  OBVIOUS
<1>2. IsWellFoundedOn(R, Nat)
  BY <1>1, NatLessThanWellFounded
<1>3. \A x, y \in Nat : x < y => <<x, y>> \in R
  BY <1>1 DEF OpToRel
<1>4. PICK m \in S : \A n \in S : ~ (<<n, m>> \in R)
  BY <1>2, WFMin
<1>5. \A n \in S : n \in Nat /\ ~(n < m)
  BY <1>3, <1>4
<1> QED BY <1>5

\* A new incident is well formed and not late.
LEMMA DeskInitInv == DeskInit => IncidentInv
<1> SUFFICES ASSUME DeskInit PROVE IncidentInv
  OBVIOUS
<1>1. PICK s \in Severities, service \in {"hypercare", "cutover"} : incident = CreateIncident(s, service)
  BY DEF DeskInit
<1>2. /\ events = << >> /\ active = {} /\ minute = 1 /\ ~deskRaced /\ touched = {}
      /\ deskJob = [t \in DeskThreads |-> Quiet] /\ \A t \in DeskThreads : deskJob[t] = Quiet
  BY DEF DeskInit
<1>3. PICK d : d = Deadlines(s, service)
  OBVIOUS
<1>4. d \in [response : Nat, resolution : Nat] /\ d.resolution >= 1
  <2>1. Targets[s] \in [response : Nat, resolution : Nat] /\ MaxMinutes \in Nat \ {0}
    BY IncidentsAssumption
  <2>2. PICK a \in Nat, b \in Nat : a = Targets[s].response /\ b = Targets[s].resolution
    BY <2>1
  <2> QED BY <1>3, <2>1, <2>2 DEF Deadlines
<1>5. incident = [status |-> "open", severity |-> s, due |-> d, response |-> 0, responseBreached |-> FALSE,
                  resolutionBreached |-> FALSE, level |-> "none", count |-> 0, activity |-> 1]
  BY <1>1, <1>3 DEF CreateIncident, Never
<1>6. incident # Deleted
  <2>1. incident.status = "open" /\ Deleted.status = "deleted"
    BY <1>5 DEF Deleted
  <2> QED BY <2>1
<1>7. incident = [a \in Attributes |-> incident[a]]
  BY <1>5 DEF Attributes
<1>8. "open" \in DOMAIN INCIDENT_TRANSITIONS
  BY DEF INCIDENT_TRANSITIONS
<1>9. \A a \in Attributes : Valid(a, incident[a])
  <2>1. /\ incident["status"] = "open" /\ incident["severity"] = s /\ incident["due"] = d
        /\ incident["response"] = 0 /\ incident["level"] = "none" /\ incident["count"] = 0
        /\ incident["activity"] = 1 /\ incident["responseBreached"] = FALSE
        /\ incident["resolutionBreached"] = FALSE
    BY <1>5
  <2>2. 0 \in 0 .. minute /\ 1 \in 0 .. minute
    BY <1>2
  <2>3. SUFFICES ASSUME NEW a \in Attributes PROVE Valid(a, incident[a])
    OBVIOUS
  <2>4. a \in {"response", "activity"} => incident[a] \in 0 .. minute
    BY <2>1, <2>2
  <2>5. a \in Flags => incident[a] \in BOOLEAN
    BY <2>1 DEF Flags
  <2> QED BY <1>4, <1>8, <2>1, <2>4, <2>5 DEF Valid
<1>10. ~UnresolvedLate(incident, minute)
  BY <1>2, <1>4, <1>5 DEF UnresolvedLate
<1>11. << >> \in Seq(EventRows) /\ << >> \o << >> = << >> /\ Len(<< >>) = 0 /\ 1 \in 1 .. MaxMinutes
  BY IncidentsAssumption
<1>12. Quiet = [set |-> Quiet.set, append |-> Quiet.append]
  BY DEF Quiet
<1>13. \A t \in DeskThreads : Writes(deskJob[t].set, deskJob[t].append)
  BY <1>2, <1>11, QuietWrites DEF Writes
<1>14. FlagEarned(incident)
  BY <1>5 DEF FlagEarned
<1>15. \A t \in DeskThreads : WritesAlone(deskJob[t].set, deskJob[t].append)
  <2>1. WrittenRow(Quiet.set) = incident
    BY <1>5, <1>7, QuietWrites DEF WrittenRow
  <2> QED BY <1>2, <1>5, <1>11, <1>14, <2>1, QuietWrites DEF WritesAlone, Fresh, Ladder
<1>16. SlaVerdicts /\ EscalationsAgree
  BY <1>2, <1>5, <1>11 DEF SlaVerdicts, ResponseVerdict, NoFalseBreach, Never, EscalationsAgree, CountIsEvents,
                       OneEventPerLevel, LadderInOrder
<1> QED BY <1>2, <1>6, <1>7, <1>9, <1>10, <1>11, <1>12, <1>13, <1>14, <1>15, <1>16 DEF IncidentInv, ValidRow

\* While a request runs, time goes on and others write: what it knows stays so.
LEMMA WritesKept ==
    ASSUME NEW set, NEW append, Writes(set, append), Exists' => Exists,
           minute \in Nat, minute' \in Nat, minute <= minute', events \in Seq(EventRows), events' \in Seq(EventRows),
           Exists' => /\ incident'.due = incident.due
                      /\ incident.responseBreached => incident'.responseBreached
                      /\ Len(events) <= Len(events'),
           openLate => openLate', touched \subseteq touched'
    PROVE  Writes(set, append)'
<1>1. \A a \in DOMAIN set : Valid(a, set[a])'
  <2>1. \A x \in 0 .. minute : x \in 0 .. minute'
    OBVIOUS
  <2>2. ASSUME NEW a \in DOMAIN set PROVE Valid(a, set[a])'
    <3>1. Valid(a, set[a])
      BY DEF Writes
    <3> QED BY <2>1, <3>1 DEF Valid
  <2> QED BY <2>2
<1>2. append \in Seq(EventRows)
  BY DEF Writes
<1>3. PICK k \in Nat : k = Len(append)
  BY <1>2
<1>4. PICK p \in Nat : p = Len(events)
  OBVIOUS
<1>5. PICK q \in Nat : q = Len(events')
  OBVIOUS
<1>6. "count" \in DOMAIN set => set["count"] \in Nat
  BY DEF Writes, Valid
<1>7. ASSUME Exists', "count" \in DOMAIN set PROVE set["count"] <= Len(events') + Len(append)
  <2>1. PICK c \in Nat : c = set["count"]
    BY <1>6, <1>7
  <2>2. c <= p + k /\ p <= q
    BY <1>3, <1>4, <1>5, <1>7, <2>1 DEF Writes
  <2> QED BY <1>3, <1>5, <2>1, <2>2
<1> QED BY <1>1, <1>2, <1>7 DEF Writes

\* What it writes alone stays right too, while nobody else writes.
LEMMA AloneKept ==
    ASSUME NEW set, NEW append, WritesAlone(set, append), DOMAIN set \subseteq Attributes \ {"due"},
           incident # Deleted => ValidRow, \A a \in DOMAIN set : Valid(a, set[a]),
           UNCHANGED <<incident, events>>,
           minute \in Nat, minute' \in Nat, minute <= minute', touched \subseteq touched'
    PROVE  WritesAlone(set, append)'
<1> SUFFICES ASSUME incident # Deleted PROVE WritesAlone(set, append)'
  BY DEF WritesAlone, Exists
<1>1. WrittenRow(set)' = WrittenRow(set)
  BY DEF WrittenRow
<1>2. PICK inc : inc = WrittenRow(set)
  OBVIOUS
<1>3. inc["due"].response \in Nat /\ inc["response"] \in Nat
  <2>1. /\ DOMAIN incident = Attributes /\ incident["due"] \in [response : Nat, resolution : Nat]
        /\ incident["response"] \in 0 .. minute
    BY DEF ValidRow, Valid, Attributes
  <2>2. "response" \in DOMAIN set => set["response"] \in 0 .. minute
    BY DEF Valid
  <2>3. inc["due"] = incident["due"]
    <3>1. "due" \in DOMAIN incident /\ "due" \notin DOMAIN set
      BY <2>1 DEF Attributes
    <3> QED BY <1>2, <3>1 DEF WrittenRow
  <2>4. \/ inc["response"] = incident["response"]
        \/ "response" \in DOMAIN set /\ inc["response"] = set["response"]
    <3>1. "response" \in DOMAIN incident
      BY <2>1 DEF Attributes
    <3> QED BY <1>2, <3>1 DEF WrittenRow
  <2> QED BY <2>1, <2>2, <2>3, <2>4
<1>4. FlagEarned(inc) /\ inc["count"] = Len(events) + Len(append)
  BY <1>2 DEF WritesAlone, Exists
<1>5. FlagEarned(inc)'
  BY <1>3, <1>4 DEF FlagEarned
<1>6. FlagEarned(WrittenRow(set))' /\ (WrittenRow(set)["count"] = Len(events) + Len(append))'
  BY <1>1, <1>2, <1>4, <1>5 DEF FlagEarned
<1>7. PICK s : s = events \o append
  OBVIOUS
<1>8. Fresh(s) /\ (Untouched => Ladder(s) /\ "severity" \notin DOMAIN set)
  BY <1>7 DEF WritesAlone, Exists
<1>9. (Untouched' => Untouched) /\ (Ladder(s) => Ladder(s)') /\ (Fresh(s) => Fresh(s)')
  BY DEF Untouched, Ladder, Fresh
<1>10. (events \o append)' = s
  BY <1>7
<1> QED BY <1>6, <1>8, <1>9, <1>10 DEF WritesAlone, Exists, Fresh, Ladder

\* And so does what the records say of each other.
LEMMA VerdictsKept ==
    ASSUME SlaVerdicts, EscalationsAgree, UNCHANGED <<incident, events>>, deskRaced => deskRaced',
           openLate => openLate', touched \subseteq touched'
    PROVE  SlaVerdicts' /\ EscalationsAgree'
<1>1. SlaVerdicts'
  BY DEF SlaVerdicts, ResponseVerdict, NoFalseBreach, Exists
<1>2. CountIsEvents'
  BY DEF EscalationsAgree, CountIsEvents, Exists
<1>3. OneEventPerLevel'
  BY DEF EscalationsAgree, OneEventPerLevel
<1>4. LadderInOrder'
  <2>1. touched' \cap {"rules", "severity"} = {} => touched \cap {"rules", "severity"} = {}
    OBVIOUS
  <2> QED BY <2>1 DEF EscalationsAgree, LadderInOrder
<1> QED BY <1>1, <1>2, <1>3, <1>4 DEF EscalationsAgree

\* What a handler decides from the rows it has loaded: the flags it raises are
\* right, and the events it adds follow those there are.
Decides(set, append) ==
    /\ DOMAIN set \subseteq Attributes \ {"due"}
    /\ \A a \in DOMAIN set : Valid(a, set[a]) /\ (a \in Flags => set[a] = TRUE)
    /\ append \in Seq(EventRows)
    /\ "response" \in DOMAIN set /\ set["response"] > incident.due.response => "responseBreached" \in DOMAIN set
    /\ "resolutionBreached" \in DOMAIN set => openLate \/ "resolved again" \in touched'
    /\ append = << >> => "count" \notin DOMAIN set
    /\ append # << >> => "count" \in DOMAIN set /\ set["count"] = incident["count"] + Len(append)
    /\ FlagEarned(WrittenRow(set))
    /\ Fresh(events \o append)
    /\ Untouched' => Ladder(events \o append) /\ "severity" \notin DOMAIN set

\* A request begins: what it will write is what its handler has decided.
LEMMA RequestBegins ==
    ASSUME IncidentInv, NEW t \in DeskThreads, NEW set, NEW append, Request(t, set, append),
           touched \subseteq touched', Decides(set, append)
    PROVE  IncidentInv'
<1>d. /\ DOMAIN set \subseteq Attributes \ {"due"}
      /\ \A a \in DOMAIN set : Valid(a, set[a]) /\ (a \in Flags => set[a] = TRUE)
      /\ append \in Seq(EventRows)
  BY DEF Decides
<1>e. /\ "response" \in DOMAIN set /\ set["response"] > incident.due.response => "responseBreached" \in DOMAIN set
      /\ "resolutionBreached" \in DOMAIN set => openLate \/ "resolved again" \in touched'
  BY DEF Decides
<1>f. /\ append = << >> => "count" \notin DOMAIN set
      /\ append # << >> => "count" \in DOMAIN set /\ set["count"] = incident["count"] + Len(append)
  BY DEF Decides
<1>g. /\ FlagEarned(WrittenRow(set)) /\ Fresh(events \o append)
      /\ Untouched' => Ladder(events \o append) /\ "severity" \notin DOMAIN set
  BY DEF Decides
<1>1. PICK w : w = [a \in {b \in DOMAIN set : set[b] # incident[b]} |-> set[a]]
  OBVIOUS
<1>2. PICK job : job = [set |-> w, append |-> append]
  OBVIOUS
<1>3. /\ deskJob' = [deskJob EXCEPT ![t] = job]
      /\ Exists /\ deskJob[t] = Quiet /\ ~deskRaced
      /\ deskRaced' = (deskRaced \/ \E o \in DeskThreads \ {t} : deskJob[o] # Quiet)
      /\ UNCHANGED <<incident, events, active, minute, openLate>>
  BY <1>1, <1>2 DEF Request
<1>4. /\ deskJob' = [o \in DeskThreads |-> deskJob'[o]]
      /\ deskJob'[t] = job /\ \A o \in DeskThreads \ {t} : deskJob'[o] = deskJob[o]
  BY <1>3 DEF IncidentInv
<1>5. /\ DOMAIN w = {a \in DOMAIN set : set[a] # incident[a]} /\ \A a \in DOMAIN w : w[a] = set[a]
      /\ job.set = w /\ job.append = append
  BY <1>1, <1>2
<1>6. /\ ValidRow /\ DOMAIN incident = Attributes /\ incident["count"] = Len(events)
      /\ Len(events) \in Nat /\ Len(append) \in Nat /\ (append # << >> => Len(append) # 0)
  <2>1. ValidRow /\ incident["count"] = Len(events) /\ events \in Seq(EventRows)
    BY <1>3 DEF IncidentInv, Exists, EscalationsAgree, CountIsEvents
  <2>2. DOMAIN incident = Attributes
    BY <2>1 DEF ValidRow
  <2> QED BY <1>d, <2>1, <2>2, ListShape
<1>7. \A a \in DOMAIN incident : WrittenRow(w)[a] = WrittenRow(set)[a]
  BY <1>5 DEF WrittenRow
<1>8. "count" \in DOMAIN w <=> append # << >>
  <2>1. PICK k \in Nat : k = Len(append)
    BY <1>6
  <2>2. PICK p \in Nat : p = Len(events)
    BY <1>6
  <2>3. append # << >> => "count" \in DOMAIN set /\ set["count"] = p + k /\ incident["count"] = p /\ k # 0
    BY <1>f, <1>6, <2>1, <2>2
  <2>4. append # << >> => "count" \in DOMAIN w
    BY <1>5, <2>3
  <2>5. append = << >> => "count" \notin DOMAIN w
    BY <1>f, <1>5
  <2> QED BY <2>4, <2>5
<1>9. Writes(w, append)'
  <2>1. \A a \in DOMAIN w : Valid(a, w[a])' /\ (a \in Flags => w[a] = TRUE)
    BY <1>d, <1>3, <1>5 DEF Valid
  <2>2. "response" \in DOMAIN w /\ w["response"] > incident.due.response =>
            "responseBreached" \in DOMAIN w \/ incident["responseBreached"]
    BY <1>d, <1>e, <1>5 DEF Flags
  <2>3. "count" \in DOMAIN w => w["count"] = Len(events) + Len(append)
    BY <1>f, <1>5, <1>6, <1>8
  <2>4. "resolutionBreached" \in DOMAIN w => openLate' \/ "resolved again" \in touched'
    BY <1>e, <1>3, <1>5
  <2>5. "count" \in DOMAIN w => w["count"] <= Len(events) + Len(append)
    <3>1. PICK n \in Nat : n = Len(events) + Len(append)
      BY <1>6
    <3> QED BY <2>3, <3>1
  <2>6. DOMAIN w \subseteq Attributes \ {"due"}
    BY <1>d, <1>5
  <2> QED BY <1>d, <1>3, <1>8, <2>1, <2>2, <2>4, <2>5, <2>6 DEF Writes
<1>10. \A o \in DeskThreads : Writes(deskJob[o].set, deskJob[o].append)'
  <2>1. ASSUME NEW o \in DeskThreads \ {t} PROVE Writes(deskJob[o].set, deskJob[o].append)'
    <3>1. PICK s, a : s = deskJob[o].set /\ a = deskJob[o].append
      OBVIOUS
    <3>2. Writes(s, a)
      BY <3>1 DEF IncidentInv
    <3>3. Writes(s, a)'
      BY <1>3, <3>2 DEF Writes, Valid
    <3> QED BY <1>4, <3>1, <3>3
  <2> QED BY <1>4, <1>5, <1>9, <2>1
<1>11. ASSUME ~deskRaced'
       PROVE  /\ \A o, p \in DeskThreads : deskJob'[o] # Quiet /\ deskJob'[p] # Quiet => o = p
              /\ \A o \in DeskThreads : WritesAlone(deskJob[o].set, deskJob[o].append)'
  <2>1. \A o \in DeskThreads \ {t} : deskJob[o] = Quiet /\ deskJob'[o] = Quiet
    BY <1>3, <1>4, <1>11
  <2>2. FlagEarned(WrittenRow(w)) /\ WrittenRow(w)["count"] = Len(events) + Len(append)
    <3>1. {"responseBreached", "response", "due", "count"} \subseteq DOMAIN incident
      BY <1>6 DEF Attributes
    <3>2. FlagEarned(WrittenRow(w))
      BY <1>g, <1>7, <3>1 DEF FlagEarned
    <3>3. WrittenRow(w)["count"] = Len(events) + Len(append)
      <4>1. WrittenRow(w)["count"] = IF "count" \in DOMAIN w THEN set["count"] ELSE incident["count"]
        BY <1>5, <3>1 DEF WrittenRow
      <4>2. append = << >> => Len(append) = 0
        BY <1>d, ListShape
      <4>3. CASE append = << >>
        BY <1>6, <1>8, <4>1, <4>2, <4>3
      <4>4. CASE append # << >>
        BY <1>f, <1>6, <1>8, <4>1, <4>4
      <4> QED BY <4>3, <4>4
    <3> QED BY <3>2, <3>3
  <2>3. WritesAlone(w, append)'
    <3>1. PICK inc : inc = WrittenRow(w)
      OBVIOUS
    <3>2. WrittenRow(w)' = inc
      BY <1>3, <3>1 DEF WrittenRow
    <3>3. FlagEarned(inc)' /\ inc["count"] = Len(events) + Len(append)
      BY <1>3, <2>2, <3>1 DEF FlagEarned
    <3>4. PICK s : s = events \o append
      OBVIOUS
    <3>5. (events \o append)' = s /\ Fresh(s) /\ (Untouched' => Ladder(s) /\ "severity" \notin DOMAIN w)
      BY <1>g, <1>3, <1>5, <3>4
    <3>6. Ladder(s) => Ladder(s)'
      BY <1>3 DEF Ladder
    <3>7. FlagEarned(WrittenRow(w))' /\ (WrittenRow(w)["count"] = Len(events) + Len(append))'
      BY <1>3, <3>2, <3>3 DEF FlagEarned
    <3>8. Fresh(events \o append)' /\ (Untouched => Ladder(events \o append))'
      BY <3>5, <3>6 DEF Fresh, Ladder
    <3> QED BY <3>5, <3>7, <3>8 DEF WritesAlone
  <2>4. ASSUME NEW o \in DeskThreads \ {t} PROVE WritesAlone(Quiet.set, Quiet.append)'
    <3>1. WritesAlone(Quiet.set, Quiet.append)
      BY <1>3, <2>1, <2>4 DEF IncidentInv
    <3>2. PICK q, a : q = Quiet.set /\ a = Quiet.append
      OBVIOUS
    <3>3. DOMAIN q \subseteq Attributes \ {"due"} /\ \A b \in DOMAIN q : Valid(b, q[b])
      BY <3>2, QuietWrites
    <3>4. minute \in Nat /\ minute' \in Nat /\ minute <= minute'
      BY <1>3, IncidentShape
    <3> QED BY <1>3, <1>6, <3>1, <3>2, <3>3, <3>4, AloneKept
  <2> QED BY <1>4, <1>5, <2>1, <2>3, <2>4
<1>12. \A o \in DeskThreads : deskJob'[o] = [set |-> deskJob'[o].set, append |-> deskJob'[o].append]
  BY <1>2, <1>4, <1>5 DEF IncidentInv
<1>13. SlaVerdicts' /\ EscalationsAgree'
  BY <1>3, VerdictsKept DEF IncidentInv
<1>14. /\ (incident # Deleted => ValidRow)' /\ (UnresolvedLate(incident, minute) => openLate)'
       /\ (Exists => FlagEarned(incident))'
  BY <1>3 DEF IncidentInv, ValidRow, Valid, UnresolvedLate, FlagEarned, Exists
<1> QED BY <1>3, <1>4, <1>10, <1>11, <1>12, <1>13, <1>14 DEF IncidentInv, Exists

\* A request commits what it has decided.
LEMMA RequestCommits == ASSUME IncidentInv, NEW t \in DeskThreads, CommitRequest(t) PROVE IncidentInv'
<1>1. PICK set, append : set = deskJob[t].set /\ append = deskJob[t].append
  OBVIOUS
<1>2. /\ deskJob[t] # Quiet /\ deskJob' = [deskJob EXCEPT ![t] = Quiet]
      /\ incident' = IF Exists THEN WrittenRow(set) ELSE incident
      /\ events' = IF Exists THEN events \o append ELSE events
      /\ openLate' = (openLate \/ UnresolvedLate(incident', minute))
      /\ UNCHANGED <<active, minute, deskRaced, touched>>
  BY <1>1 DEF CommitRequest, AppendedEvents
<1>3. /\ deskJob' = [o \in DeskThreads |-> deskJob'[o]]
      /\ deskJob'[t] = Quiet /\ \A o \in DeskThreads \ {t} : deskJob'[o] = deskJob[o]
  BY <1>2 DEF IncidentInv
<1>4. Writes(set, append) /\ append \in Seq(EventRows) /\ events \in Seq(EventRows) /\ Len(append) \in Nat
      /\ Len(events) \in Nat /\ minute \in Nat
  <2>1. Writes(set, append)
    BY <1>1 DEF IncidentInv
  <2>2. append \in Seq(EventRows)
    BY <2>1 DEF Writes
  <2> QED BY <2>1, <2>2, ListShape, IncidentShape
<1>5. /\ events' \in Seq(EventRows)
      /\ Exists => /\ Len(events') = Len(events) + Len(append)
                   /\ DOMAIN events' = 1 .. Len(events) + Len(append)
  BY <1>2, <1>4
<1>6. Quiet = [set |-> Quiet.set, append |-> Quiet.append]
  BY DEF Quiet
<1>7. \A o \in DeskThreads : deskJob'[o] = [set |-> deskJob'[o].set, append |-> deskJob'[o].append]
  BY <1>3, <1>6 DEF IncidentInv
<1>8. CASE ~Exists
  <2>1. incident' = incident /\ events' = events /\ ~Exists' /\ incident = Deleted
    BY <1>2, <1>8 DEF Exists
  <2>2. \A o \in DeskThreads : Writes(deskJob[o].set, deskJob[o].append)'
    <3>1. ASSUME NEW o \in DeskThreads, o # t PROVE Writes(deskJob[o].set, deskJob[o].append)'
      <4>1. PICK s, a : s = deskJob[o].set /\ a = deskJob[o].append
        OBVIOUS
      <4>2. Writes(s, a)
        BY <4>1 DEF IncidentInv
      <4>3. Writes(s, a)'
        BY <1>2, <2>1, <4>2 DEF Writes, Valid
      <4> QED BY <1>3, <3>1, <4>1, <4>3
    <3>2. Writes(Quiet.set, Quiet.append)'
      BY <2>1, QuietWrites DEF Writes
    <3> QED BY <1>3, <3>1, <3>2
  <2>3. \A o \in DeskThreads : WritesAlone(deskJob[o].set, deskJob[o].append)'
    BY <2>1 DEF WritesAlone
  <2>4. SlaVerdicts' /\ EscalationsAgree'
    BY <1>2, <2>1 DEF IncidentInv, SlaVerdicts, ResponseVerdict, NoFalseBreach, Exists, EscalationsAgree, CountIsEvents,
                OneEventPerLevel, LadderInOrder
  <2> QED BY <1>2, <1>3, <1>5, <1>7, <2>1, <2>2, <2>3, <2>4 DEF IncidentInv, UnresolvedLate, Exists
<1>9. CASE Exists
  <2>1. /\ ValidRow /\ DOMAIN incident = Attributes
        /\ incident["due"] \in [response : Nat, resolution : Nat] /\ incident["response"] \in Nat
        /\ incident["count"] \in Nat /\ incident["count"] <= Len(events)
        /\ incident["responseBreached"] \in BOOLEAN
        /\ incident["status"] # "deleted" => TRUE
    BY <1>9 DEF IncidentInv, ValidRow, Valid, Attributes, Flags, Exists, EscalationsAgree, CountIsEvents
  <2>2. /\ incident' = WrittenRow(set) /\ events' = events \o append /\ DOMAIN incident' = Attributes
        /\ incident' = [a \in Attributes |-> incident'[a]]
        /\ \A a \in Attributes : incident'[a] = IF a \in DOMAIN set THEN set[a] ELSE incident[a]
    BY <1>2, <1>9, <2>1 DEF WrittenRow
  <2>3. incident' # Deleted
    <3>1. "due" \in DOMAIN incident' /\ "due" \notin DOMAIN Deleted
      BY <2>2 DEF Attributes, Deleted
    <3> QED BY <3>1
  <2>4. ValidRow'
    <3>1. \A a \in Attributes : Valid(a, incident'[a])
      BY <1>4, <2>1, <2>2 DEF Writes, ValidRow
    <3>2. \A a \in Attributes : Valid(a, incident[a])'
      BY <1>2, <3>1 DEF Valid
    <3> QED BY <2>2, <3>2 DEF ValidRow
  <2>5. /\ incident'["due"] = incident["due"]
        /\ incident["responseBreached"] => incident'["responseBreached"]
    BY <1>4, <2>2 DEF Writes, Attributes, Flags
  <2>6. /\ (\E o \in DeskThreads : o # t /\ deskJob[o] # Quiet) => deskRaced
        /\ ~deskRaced => WritesAlone(set, append)
    BY <1>1, <1>2 DEF IncidentInv
  <2>7. \A o \in DeskThreads : Writes(deskJob[o].set, deskJob[o].append)'
    <3>1. ASSUME NEW o \in DeskThreads, o # t PROVE Writes(deskJob[o].set, deskJob[o].append)'
      <4>1. PICK s, a : s = deskJob[o].set /\ a = deskJob[o].append
        OBVIOUS
      <4>2. Writes(s, a)
        BY <4>1 DEF IncidentInv
      <4>3. Writes(s, a)'
        <5>1. /\ Len(events) <= Len(events') /\ (openLate => openLate') /\ touched \subseteq touched'
              /\ minute <= minute' /\ minute' \in Nat
          <6>1. PICK p \in Nat, k \in Nat : p = Len(events) /\ k = Len(append)
            BY <1>4
          <6>2. Len(events) <= Len(events')
            BY <1>5, <1>9, <6>1
          <6>3. openLate => openLate'
            BY <1>2
          <6>4. minute' = minute /\ touched' = touched
            BY <1>2
          <6> QED BY <1>4, <6>2, <6>3, <6>4
        <5> QED BY <1>4, <1>5, <1>9, <2>5, <4>2, <5>1, WritesKept
      <4> QED BY <1>3, <3>1, <4>1, <4>3
    <3>2. Writes(Quiet.set, Quiet.append)'
      BY QuietWrites DEF Writes
    <3> QED BY <1>3, <3>1, <3>2
  <2>8. ~deskRaced => /\ FlagEarned(incident') /\ incident'["count"] = Len(events')
                      /\ Fresh(events') /\ (Untouched => Ladder(events') /\ incident'["severity"] = incident["severity"])
    <3>1. ~deskRaced => FlagEarned(incident') /\ incident'["count"] = Len(events') /\ Fresh(events')
      BY <1>5, <1>9, <2>2, <2>6 DEF WritesAlone
    <3>2. ~deskRaced /\ Untouched => Ladder(events') /\ incident'["severity"] = incident["severity"]
      BY <1>9, <2>2, <2>6 DEF WritesAlone, Attributes
    <3> QED BY <3>1, <3>2
  <2>9. ~deskRaced => /\ FlagEarned(incident)' /\ Fresh(events') /\ (Untouched' => Ladder(events)')
    BY <1>2, <2>8 DEF FlagEarned, Untouched, Ladder
  <2>10. \A o \in DeskThreads : ~deskRaced => WritesAlone(deskJob[o].set, deskJob[o].append)'
    <3>1. SUFFICES ASSUME NEW o \in DeskThreads, ~deskRaced PROVE WritesAlone(deskJob[o].set, deskJob[o].append)'
      OBVIOUS
    <3>2. deskJob'[o] = Quiet
      BY <1>3, <2>6, <3>1
    <3>3. WrittenRow(Quiet.set)' = incident'
      BY <2>2, QuietWrites DEF WrittenRow
    <3>4. events' \o Quiet.append = events' /\ Len(events') + Len(Quiet.append) = Len(events')
      BY <1>4, <1>5, QuietWrites
    <3> QED BY <2>8, <2>9, <3>1, <3>2, <3>3, <3>4, QuietWrites DEF WritesAlone, FlagEarned, Ladder
  <2>11. SlaVerdicts'
    <3>1. incident'["response"] # Never /\ incident'["response"] > incident'["due"].response => incident'["responseBreached"]
      <4>1. CASE "response" \in DOMAIN set
        BY <1>4, <1>9, <2>2, <2>5, <4>1 DEF Writes, Attributes, Flags
      <4>2. CASE "response" \notin DOMAIN set
        BY <1>9, <2>2, <2>5, <4>2 DEF Attributes, IncidentInv, SlaVerdicts, ResponseVerdict
      <4> QED BY <4>1, <4>2
    <3>2. incident'["resolutionBreached"] => openLate' \/ "resolved again" \in touched'
      BY <1>2, <1>4, <1>9, <2>2 DEF Writes, Attributes, IncidentInv, SlaVerdicts, NoFalseBreach
    <3> QED BY <1>2, <2>8, <3>1, <3>2 DEF SlaVerdicts, ResponseVerdict, NoFalseBreach, FlagEarned
  <2>12. EscalationsAgree'
    <3>1. incident'["count"] <= Len(events')
      <4>1. CASE "count" \in DOMAIN set
        BY <1>4, <1>5, <1>9, <2>2, <4>1 DEF Writes, Attributes
      <4>2. CASE "count" \notin DOMAIN set
        <5>1. append = << >> /\ Len(append) = 0
          BY <1>4, <1>9, <4>2, ListShape DEF Writes
        <5>2. incident'["count"] = incident["count"]
          BY <2>2, <4>2 DEF Attributes
        <5> QED BY <1>4, <1>5, <1>9, <2>1, <5>1, <5>2
      <4> QED BY <4>1, <4>2
    <3> QED BY <1>2, <2>8, <2>9, <3>1
        DEF EscalationsAgree, CountIsEvents, OneEventPerLevel, LadderInOrder, Fresh, Ladder, Untouched
  <2>13. UnresolvedLate(incident, minute)' => openLate'
    BY <1>2 DEF UnresolvedLate
  <2> QED BY <1>2, <1>3, <1>5, <1>7, <2>3, <2>4, <2>6, <2>7, <2>9, <2>10, <2>11, <2>12, <2>13
      DEF IncidentInv, Exists
<1> QED BY <1>8, <1>9

\* Time passes, or the rules change.
LEMMA NothingWritten ==
    ASSUME IncidentInv, UNCHANGED <<incident, events, deskJob, deskRaced>>, openLate => openLate',
           touched \subseteq touched', minute <= minute', minute' \in 1 .. MaxMinutes,
           active' \subseteq Rules, "rules" \notin touched' => active' \in {{}, Rules},
           UnresolvedLate(incident, minute)' => openLate'
    PROVE  IncidentInv'
<1>1. minute \in Nat /\ minute' \in Nat
  BY IncidentShape
<1>2. (incident # Deleted => ValidRow)'
  <2>1. \A x \in 0 .. minute : x \in 0 .. minute'
    BY <1>1
  <2>2. ASSUME NEW a \in Attributes, Valid(a, incident[a]) PROVE Valid(a, incident[a])'
    BY <2>1, <2>2 DEF Valid
  <2> QED BY <2>2 DEF IncidentInv, ValidRow
<1>3. ASSUME NEW t \in DeskThreads PROVE Writes(deskJob[t].set, deskJob[t].append)'
  <2>1. PICK s, a : s = deskJob[t].set /\ a = deskJob[t].append
    OBVIOUS
  <2>2. Writes(s, a) /\ events \in Seq(EventRows) /\ Len(events) \in Nat
    BY <2>1, IncidentShape DEF IncidentInv
  <2>3. Writes(s, a)'
    BY <1>1, <2>2, WritesKept DEF Exists
  <2> QED BY <2>1, <2>3
<1>4. ASSUME NEW t \in DeskThreads, ~deskRaced PROVE WritesAlone(deskJob[t].set, deskJob[t].append)'
  <2>1. PICK s, a : s = deskJob[t].set /\ a = deskJob[t].append
    OBVIOUS
  <2>2. Writes(s, a) /\ WritesAlone(s, a) /\ (incident # Deleted => ValidRow)
    BY <1>4, <2>1 DEF IncidentInv
  <2>3. DOMAIN s \subseteq Attributes \ {"due"} /\ \A b \in DOMAIN s : Valid(b, s[b])
    BY <2>2 DEF Writes
  <2>4. WritesAlone(s, a)'
    BY <1>1, <2>2, <2>3, AloneKept
  <2> QED BY <2>1, <2>4
<1>5. ASSUME Exists, FlagEarned(incident) PROVE FlagEarned(incident)'
  <2>1. incident["due"].response \in Nat /\ incident["response"] \in Nat
    BY <1>5 DEF IncidentInv, ValidRow, Valid, Attributes, Exists
  <2> QED BY <1>1, <1>5, <2>1 DEF FlagEarned
<1>6. SlaVerdicts' /\ EscalationsAgree'
  BY VerdictsKept DEF IncidentInv
<1> QED BY <1>2, <1>3, <1>4, <1>5, <1>6 DEF IncidentInv, Exists

\* What the records agree on before a request that overlaps nothing.
LEMMA AloneShape ==
    ASSUME IncidentInv, Exists, ~deskRaced
    PROVE  /\ ValidRow /\ DOMAIN incident = Attributes /\ FlagEarned(incident) /\ Fresh(events)
           /\ Untouched => Ladder(events)
           /\ incident["due"] \in [response : Nat, resolution : Nat] /\ incident["response"] \in Nat
           /\ incident["count"] \in Nat /\ incident["responseBreached"] \in BOOLEAN
<1>1. ValidRow /\ FlagEarned(incident)
  BY DEF IncidentInv, Exists
<1>2. Fresh(events) /\ (Untouched => Ladder(events))
  BY DEF IncidentInv, EscalationsAgree, OneEventPerLevel, LadderInOrder, Fresh, Ladder, Untouched
<1>3. /\ incident["due"] \in [response : Nat, resolution : Nat] /\ incident["response"] \in 0 .. minute
      /\ incident["count"] \in Nat /\ incident["responseBreached"] \in BOOLEAN
  BY <1>1 DEF ValidRow, Valid, Attributes, Flags
<1> QED BY <1>1, <1>2, <1>3 DEF ValidRow

\* What is written when the response and its flag are left alone.
LEMMA FlagKept ==
    ASSUME IncidentInv, Exists, ~deskRaced, NEW set, {"response", "responseBreached", "due"} \cap DOMAIN set = {}
    PROVE  FlagEarned(WrittenRow(set))
<1>1. DOMAIN incident = Attributes /\ FlagEarned(incident)
  BY AloneShape
<1>2. {"response", "responseBreached", "due"} \subseteq DOMAIN incident
  BY <1>1 DEF Attributes
<1>3. \A a \in {"response", "responseBreached", "due"} : WrittenRow(set)[a] = incident[a]
  BY <1>2 DEF WrittenRow
<1> QED BY <1>1, <1>3 DEF FlagEarned

\* A handler that adds no event.
LEMMA DecidesNoEvent ==
    ASSUME IncidentInv, Exists, ~deskRaced, touched \subseteq touched', NEW set,
           DOMAIN set \subseteq Attributes \ {"due", "count"},
           \A a \in DOMAIN set : Valid(a, set[a]) /\ (a \in Flags => set[a] = TRUE),
           "response" \in DOMAIN set /\ set["response"] > incident.due.response => "responseBreached" \in DOMAIN set,
           "resolutionBreached" \in DOMAIN set => openLate \/ "resolved again" \in touched',
           FlagEarned(WrittenRow(set)), "severity" \in DOMAIN set => "severity" \in touched'
    PROVE  Decides(set, << >>)
<1>1. Fresh(events) /\ (Untouched => Ladder(events))
  BY AloneShape
<1>2. events \o << >> = events /\ << >> \in Seq(EventRows)
  <2>1. events \in Seq(EventRows)
    BY IncidentShape
  <2> QED BY <2>1, ListShape
<1>3. Untouched' => Untouched /\ "severity" \notin DOMAIN set
  BY DEF Untouched
<1> QED BY <1>1, <1>2, <1>3 DEF Decides

\* Events that follow others: those that come by the engine are new levels.
LEMMA FreshAppended ==
    ASSUME NEW s \in Seq(EventRows), NEW a \in Seq(EventRows), Fresh(s),
           \A n \in DOMAIN a : a[n].auto =>
               /\ \A m \in DOMAIN s : s[m].level # a[n].level
               /\ \A m \in DOMAIN a : m < n => a[m].level # a[n].level
    PROVE  Fresh(s \o a)
<1>1. PICK p \in Nat, k \in Nat : p = Len(s) /\ k = Len(a) /\ DOMAIN s = 1 .. p /\ DOMAIN a = 1 .. k
  BY ListShape
<1>2. /\ DOMAIN (s \o a) = 1 .. p + k
      /\ \A i \in 1 .. p : (s \o a)[i] = s[i]
      /\ \A i \in p + 1 .. p + k : i - p \in 1 .. k /\ (s \o a)[i] = a[i - p]
  BY <1>1
<1>3. PICK b : b = s \o a
  OBVIOUS
<1>4. ASSUME NEW m \in DOMAIN b, NEW n \in DOMAIN b, m < n, b[n].auto PROVE b[m].level # b[n].level
  <2>1. CASE n <= p
    BY <1>1, <1>2, <1>3, <1>4, <2>1 DEF Fresh
  <2>2. CASE p < n /\ m <= p
    <3>1. PICK j \in 1 .. k : b[n] = a[j]
      BY <1>1, <1>2, <1>3, <1>4, <2>2
    <3>2. m \in 1 .. p /\ b[m] = s[m]
      BY <1>1, <1>2, <1>3, <1>4, <2>2
    <3> QED BY <1>1, <1>4, <3>1, <3>2
  <2>3. CASE p < n /\ p < m
    <3>0. /\ m \in p + 1 .. p + k /\ n \in p + 1 .. p + k
          /\ m - p < n - p
      BY <1>1, <1>2, <1>3, <1>4, <2>3
    <3>1. PICK i \in 1 .. k, j \in 1 .. k : i = m - p /\ j = n - p /\ i < j
      BY <1>2, <3>0
    <3>2. b[m] = a[i] /\ b[n] = a[j]
      BY <1>2, <1>3, <3>0, <3>1
    <3> QED BY <1>1, <1>4, <3>1, <3>2
  <2> QED BY <1>1, <1>2, <1>3, <2>1, <2>2, <2>3
<1> QED BY <1>3, <1>4 DEF Fresh

\* The levels that the events a would skip are among those of s, or come
\* earlier in a.
Climbs(s, a) ==
    \A n \in DOMAIN a : a[n].auto =>
        \E r \in Rules :
            /\ r.level = a[n].level /\ r.severity = incident.severity
            /\ \A q \in Rules : q.severity = r.severity /\ q.trigger = r.trigger
                                /\ q.order < r.order /\ q.after <= r.after =>
                   \/ \E m \in DOMAIN s : s[m].level = q.level
                   \/ \E m \in DOMAIN a : m < n /\ a[m].level = q.level

\* Events that follow others and climb keep to the ladder.
LEMMA LadderAppended ==
    ASSUME NEW s \in Seq(EventRows), NEW a \in Seq(EventRows), Ladder(s), Climbs(s, a)
    PROVE  Ladder(s \o a)
<1>1. PICK p \in Nat, k \in Nat : p = Len(s) /\ k = Len(a) /\ DOMAIN s = 1 .. p /\ DOMAIN a = 1 .. k
  BY ListShape
<1>2. /\ DOMAIN (s \o a) = 1 .. p + k
      /\ \A i \in 1 .. p : (s \o a)[i] = s[i]
      /\ \A i \in p + 1 .. p + k : i - p \in 1 .. k /\ (s \o a)[i] = a[i - p]
      /\ \A j \in 1 .. k : p + j \in 1 .. p + k /\ (s \o a)[p + j] = a[j]
  BY <1>1
<1>3. PICK b : b = s \o a
  OBVIOUS
<1>4. ASSUME NEW n \in DOMAIN b, b[n].auto
      PROVE  \E r \in Rules :
                 /\ r.level = b[n].level /\ r.severity = incident.severity
                 /\ \A q \in Rules : q.severity = r.severity /\ q.trigger = r.trigger
                                     /\ q.order < r.order /\ q.after <= r.after =>
                        \E m \in 1 .. n - 1 : b[m].level = q.level
  <2>1. CASE n <= p
    <3>1. n \in DOMAIN s /\ b[n] = s[n] /\ \A m \in 1 .. n - 1 : b[m] = s[m]
      BY <1>1, <1>2, <1>3, <1>4, <2>1
    <3>2. PICK r \in Rules :
              /\ r.level = s[n].level /\ r.severity = incident.severity
              /\ \A q \in Rules : q.severity = r.severity /\ q.trigger = r.trigger
                                  /\ q.order < r.order /\ q.after <= r.after =>
                     \E m \in 1 .. n - 1 : s[m].level = q.level
      BY <1>4, <3>1 DEF Ladder
    <3> QED BY <3>1, <3>2
  <2>2. CASE p < n
    <3>1. PICK j \in 1 .. k : n = p + j /\ b[n] = a[j]
      <4>1. n \in p + 1 .. p + k
        BY <1>1, <1>2, <1>3, <1>4, <2>2
      <4>2. n - p \in 1 .. k /\ b[n] = a[n - p]
        BY <1>2, <1>3, <4>1
      <4>3. n = p + (n - p)
        BY <1>1, <4>1
      <4> QED BY <4>2, <4>3
    <3>2. PICK r \in Rules :
              /\ r.level = a[j].level /\ r.severity = incident.severity
              /\ \A q \in Rules : q.severity = r.severity /\ q.trigger = r.trigger
                                  /\ q.order < r.order /\ q.after <= r.after =>
                     \/ \E m \in DOMAIN s : s[m].level = q.level
                     \/ \E m \in DOMAIN a : m < j /\ a[m].level = q.level
      BY <1>1, <1>4, <3>1 DEF Climbs
    <3>3. ASSUME NEW q \in Rules, q.severity = r.severity, q.trigger = r.trigger, q.order < r.order, q.after <= r.after
          PROVE  \E m \in 1 .. n - 1 : b[m].level = q.level
      <4>1. CASE \E m \in DOMAIN s : s[m].level = q.level
        <5>1. PICK m \in 1 .. p : s[m].level = q.level
          BY <1>1, <4>1
        <5>2. m \in 1 .. n - 1 /\ b[m] = s[m]
          BY <1>2, <1>3, <3>1
        <5> QED BY <5>1, <5>2
      <4>2. CASE \E m \in DOMAIN a : m < j /\ a[m].level = q.level
        <5>1. PICK m \in 1 .. k : m < j /\ a[m].level = q.level
          BY <1>1, <4>2
        <5>2. p + m \in 1 .. n - 1 /\ b[p + m] = a[m]
          BY <1>2, <1>3, <3>1, <5>1
        <5> QED BY <5>1, <5>2
      <4> QED BY <3>2, <3>3, <4>1, <4>2
    <3> QED BY <3>1, <3>2, <3>3
  <2>3. n <= p \/ p < n
    BY <1>1, <1>2, <1>3, <1>4
  <2> QED BY <2>1, <2>2, <2>3
<1>5. Ladder(b)
  BY <1>4 DEF Ladder
<1> QED BY <1>3, <1>5

\* The rules that fire come in their order, each once, and all of them.
LEMMA AllFire ==
    ASSUME NEW rules \in SUBSET Rules, NEW fired \in InOrder(rules)
    PROVE  /\ \E k \in Nat : Len(fired) = k /\ DOMAIN fired = 1 .. k /\ fired \in [1 .. k -> rules]
           /\ \A m, n \in DOMAIN fired : m < n => fired[m].order < fired[n].order
           /\ \A r \in rules : \E n \in DOMAIN fired : fired[n] = r
<1>1. IsFiniteSet(rules) /\ Cardinality(rules) \in Nat
  BY IncidentsAssumption, FS_Subset, FS_CardinalityType
<1>2. PICK k \in Nat : k = Cardinality(rules)
  BY <1>1
<1>3. /\ fired \in [1 .. k -> rules] /\ DOMAIN fired = 1 .. k /\ Len(fired) = k
      /\ \A m, n \in 1 .. k : m < n => fired[m].order < fired[n].order
  BY <1>2 DEF InOrder
<1>4. \A m, n \in 1 .. k : fired[m] = fired[n] => m = n
  <2>1. ASSUME NEW m \in 1 .. k, NEW n \in 1 .. k, fired[m] = fired[n], m # n PROVE FALSE
    <3>1. fired[m].order \in Nat
      BY <1>3, IncidentsAssumption
    <3> QED BY <1>3, <2>1, <3>1
  <2> QED BY <2>1
<1>5. fired \in Injection(1 .. k, rules)
  BY <1>3, <1>4 DEF Injection, IsInjective
<1>6. Cardinality(1 .. k) = k
  BY FS_Interval
<1>7. fired \in Surjection(1 .. k, rules)
  BY <1>1, <1>2, <1>5, <1>6, FS_Injection
<1>8. \A r \in rules : \E n \in 1 .. k : fired[n] = r
  BY <1>7 DEF Surjection
<1> QED BY <1>3, <1>8

\* What the engine decides when nothing overlaps: it calls in no level twice,
\* and none without those that wait no longer.
LEMMA EngineDecides ==
    ASSUME IncidentInv, Exists, ~deskRaced, UNCHANGED touched, NEW fired \in InOrder(RulesToFire), RulesToFire # {},
           NEW set, set = [level |-> fired[Len(fired)].level, count |-> Counted(Len(fired))],
           NEW append, append = [n \in DOMAIN fired |-> [level |-> fired[n].level, auto |-> TRUE]]
    PROVE  Decides(set, append)
<1>1. PICK due : due = {r \in active : r.severity = incident.severity /\ Triggered(r) /\ r.level \notin EventLevels}
  OBVIOUS
<1>2. PICK rules : rules = RulesToFire /\ rules = {r \in due : ~ \E s \in due : s.level = r.level /\ s.order < r.order}
  BY <1>1 DEF RulesToFire
<1>3. due \subseteq active /\ active \subseteq Rules /\ rules \in SUBSET Rules /\ rules # {}
  BY <1>1, <1>2 DEF IncidentInv
<1>4. PICK k \in Nat : Len(fired) = k /\ DOMAIN fired = 1 .. k /\ fired \in [1 .. k -> rules]
  BY <1>2, <1>3, AllFire
<1>5. /\ \A m, n \in 1 .. k : m < n => fired[m].order < fired[n].order
      /\ \A r \in rules : \E n \in 1 .. k : fired[n] = r
  <2>1. fired \in InOrder(rules)
    BY <1>2
  <2>2. \A m, n \in DOMAIN fired : m < n => fired[m].order < fired[n].order
    BY <1>3, <2>1, AllFire
  <2>3. \A r \in rules : \E n \in DOMAIN fired : fired[n] = r
    BY <1>3, <2>1, AllFire
  <2> QED BY <1>4, <2>2, <2>3
<1>6. \A r \in Rules : r.level \in Levels /\ r.order \in Nat /\ r.after \in Nat
  BY IncidentsAssumption
<1>7. /\ DOMAIN append = 1 .. k /\ append \in Seq(EventRows) /\ Len(append) = k /\ append # << >>
      /\ \A n \in 1 .. k : append[n].level = fired[n].level
  <2>1. \A n \in 1 .. k : append[n] = [level |-> fired[n].level, auto |-> TRUE]
    BY <1>4
  <2>2. \A n \in 1 .. k : append[n] \in EventRows
    BY <1>3, <1>4, <1>6, <2>1 DEF EventRows
  <2>3. append \in [1 .. k -> EventRows]
    BY <1>4, <2>2
  <2>4. append \in Seq(EventRows) /\ Len(append) = k
    BY <2>3
  <2>5. k # 0
    BY <1>3, <1>5
  <2> QED BY <1>4, <2>1, <2>3, <2>4, <2>5, ListShape
<1>8. k \in 1 .. k /\ fired[k] \in Rules
  BY <1>3, <1>4, <1>7, ListShape
<1>9. Fresh(events \o append)
  <2>1. ASSUME NEW n \in 1 .. k PROVE /\ \A m \in DOMAIN events : events[m].level # append[n].level
                                    /\ \A m \in 1 .. k : m < n => append[m].level # append[n].level
    <3>1. fired[n] \in due /\ ~ \E s \in due : s.level = fired[n].level /\ s.order < fired[n].order
      BY <1>2, <1>4
    <3>2. fired[n].level \notin EventLevels
      BY <1>1, <3>1
    <3>3. ASSUME NEW m \in 1 .. k, m < n PROVE append[m].level # append[n].level
      <4>1. fired[m] \in due /\ fired[m].order < fired[n].order
        BY <1>2, <1>4, <1>5, <3>3
      <4> QED BY <1>7, <3>1, <4>1
    <3> QED BY <1>7, <3>2, <3>3 DEF EventLevels
  <2>2. \A n \in DOMAIN append : append[n].auto =>
            /\ \A m \in DOMAIN events : events[m].level # append[n].level
            /\ \A m \in DOMAIN append : m < n => append[m].level # append[n].level
    BY <1>7, <2>1
  <2>3. Fresh(events) /\ events \in Seq(EventRows)
    BY AloneShape, IncidentShape
  <2>4. append \in Seq(EventRows)
    BY <1>7
  <2> QED BY <2>2, <2>3, <2>4, FreshAppended
<1>10. ASSUME Untouched PROVE Ladder(events \o append)
  <2>1. active = Rules
    BY <1>2, <1>3, <1>10 DEF IncidentInv, Untouched
  <2>2. ASSUME NEW n \in 1 .. k, NEW q \in Rules, q.severity = fired[n].severity, q.trigger = fired[n].trigger,
               q.order < fired[n].order, q.after <= fired[n].after
        PROVE  \/ \E m \in DOMAIN events : events[m].level = q.level
               \/ \E m \in 1 .. k : m < n /\ append[m].level = q.level
    <3>1. fired[n] \in Rules /\ fired[n].severity = incident.severity /\ Triggered(fired[n])
      BY <1>1, <1>2, <1>3, <1>4
    <3>2. Triggered(q)
      <4>1. minute \in Nat /\ incident["activity"] \in 0 .. minute
        BY AloneShape, IncidentShape DEF ValidRow, Valid, Attributes
      <4>2. minute - 1 \in Int /\ minute - incident["activity"] \in Int
        BY <4>1
      <4>3. q.after \in Nat /\ fired[n].after \in Nat /\ q.after <= fired[n].after
        BY <1>6, <2>2, <3>1
      <4> QED BY <2>2, <3>1, <4>2, <4>3 DEF Triggered
    <3>3. SUFFICES ASSUME q.level \notin EventLevels
                   PROVE  \E m \in 1 .. k : m < n /\ append[m].level = q.level
      BY DEF EventLevels
    <3>4. q \in due
      BY <1>1, <2>1, <2>2, <3>1, <3>2, <3>3
    <3>5. PICK r \in rules : r.level = q.level /\ r.order <= q.order
      <4>1. PICK orders : orders = {s.order : s \in {x \in due : x.level = q.level}}
        OBVIOUS
      <4>2. orders \in SUBSET Nat /\ q.order \in orders
        BY <1>3, <1>6, <3>4, <4>1
      <4>3. PICK o \in orders : \A x \in orders : o <= x
        BY <4>2, LeastNatural
      <4>4. PICK r \in due : r.level = q.level /\ r.order = o
        BY <4>1, <4>3
      <4>5. ASSUME NEW s \in due, s.level = r.level, s.order < r.order PROVE FALSE
        <5>1. s.order \in orders /\ s.order \in Nat /\ o \in Nat
          BY <1>3, <1>6, <4>1, <4>2, <4>4, <4>5
        <5> QED BY <4>3, <4>4, <4>5, <5>1
      <4>6. r \in rules
        BY <1>2, <4>4, <4>5
      <4> QED BY <4>2, <4>3, <4>4, <4>6
    <3>6. PICK m \in 1 .. k : fired[m] = r
      BY <1>5
    <3>7. m < n
      <4>1. fired[m].order < fired[n].order
        BY <1>3, <1>6, <2>2, <3>1, <3>5, <3>6
      <4>2. ~(n < m) /\ n # m
        BY <1>3, <1>5, <1>6, <3>1, <3>6, <4>1
      <4> QED BY <4>2
    <3> QED BY <1>7, <3>5, <3>6, <3>7
  <2>3. \A n \in 1 .. k : fired[n] \in Rules /\ fired[n].severity = incident.severity
    BY <1>1, <1>2, <1>3, <1>4
  <2>4. Climbs(events, append)
    <3>1. SUFFICES ASSUME NEW n \in DOMAIN append
                   PROVE  \E r \in Rules :
                       /\ r.level = append[n].level /\ r.severity = incident.severity
                       /\ \A q \in Rules : q.severity = r.severity /\ q.trigger = r.trigger
                                           /\ q.order < r.order /\ q.after <= r.after =>
                              \/ \E m \in DOMAIN events : events[m].level = q.level
                              \/ \E m \in DOMAIN append : m < n /\ append[m].level = q.level
      BY DEF Climbs
    <3>2. n \in 1 .. k /\ fired[n] \in Rules
      BY <1>7, <2>3
    <3>r. PICK r \in Rules : r = fired[n]
      BY <3>2
    <3>3. r.level = append[n].level /\ r.severity = incident.severity
      BY <1>7, <2>3, <3>2, <3>r
    <3>4. \A q \in Rules : q.severity = r.severity /\ q.trigger = r.trigger
                          /\ q.order < r.order /\ q.after <= r.after =>
                              \/ \E m \in DOMAIN events : events[m].level = q.level
                              \/ \E m \in DOMAIN append : m < n /\ append[m].level = q.level
      <4>1. ASSUME NEW q \in Rules, q.severity = r.severity, q.trigger = r.trigger, q.order < r.order, q.after <= r.after
            PROVE  \/ \E m \in DOMAIN events : events[m].level = q.level
                   \/ \E m \in DOMAIN append : m < n /\ append[m].level = q.level
        <5>1. n \in 1 .. k
          BY <3>2
        <5>2. /\ q.severity = fired[n].severity /\ q.trigger = fired[n].trigger
              /\ q.order < fired[n].order /\ q.after <= fired[n].after
          BY <3>r, <4>1
        <5>3. \/ \E m \in DOMAIN events : events[m].level = q.level
              \/ \E m \in 1 .. k : m < n /\ append[m].level = q.level
          BY <2>2, <5>1, <5>2
        <5>4. DOMAIN append = 1 .. k
          BY <1>7
        <5> QED BY <5>3, <5>4
      <4> QED BY <4>1
    <3> QED BY <3>3, <3>4
  <2>5. Ladder(events) /\ events \in Seq(EventRows)
    BY <1>10, AloneShape, IncidentShape
  <2>6. append \in Seq(EventRows)
    BY <1>7
  <2> QED BY <2>4, <2>5, <2>6, LadderAppended
<1>11. DOMAIN set = {"level", "count"} /\ set["level"] \in Levels /\ set["count"] = incident["count"] + Len(append)
  BY <1>4, <1>6, <1>7, <1>8 DEF Counted
<1>12. incident["count"] \in Nat
  BY AloneShape
<1>13. PICK n \in Nat : n = incident["count"] + Len(append)
  BY <1>7, <1>12
<1>14. \A a \in DOMAIN set : Valid(a, set[a]) /\ (a \in Flags => set[a] = TRUE)
  BY <1>11, <1>13 DEF Valid, Flags
<1>15. FlagEarned(WrittenRow(set))
  BY <1>11, FlagKept
<1>16. Untouched' => Untouched
  BY DEF Untouched
<1>17. DOMAIN set \subseteq Attributes \ {"due"} /\ {"response", "resolutionBreached", "severity"} \cap DOMAIN set = {}
  BY <1>11 DEF Attributes
<1> QED BY <1>7, <1>9, <1>10, <1>11, <1>14, <1>15, <1>16, <1>17 DEF Decides

\* Every step preserves the invariant.
LEMMA DeskStepInv == IncidentInv /\ [DeskNext]_deskVars => IncidentInv'
<1> SUFFICES ASSUME IncidentInv, [DeskNext]_deskVars PROVE IncidentInv'
  OBVIOUS
<1>t. /\ minute \in Nat /\ 1 <= minute /\ minute <= MaxMinutes /\ MaxMinutes \in Nat /\ minute \in 1 .. MaxMinutes
      /\ events \in Seq(EventRows) /\ active \subseteq Rules
      /\ "rules" \notin touched => active \in {{}, Rules}
  BY IncidentShape DEF IncidentInv
<1>1. CASE Tick
  <2>1. /\ minute' \in 1 .. MaxMinutes /\ minute <= minute'
        /\ UNCHANGED <<incident, events, active, deskJob, deskRaced, touched>>
    BY <1>1, <1>t DEF Tick
  <2>2. (openLate => openLate') /\ (UnresolvedLate(incident, minute)' => openLate')
    BY <1>1 DEF Tick, UnresolvedLate
  <2> QED BY <1>t, <2>1, <2>2, NothingWritten
<1>2. CASE DeleteIncident
  <2>1. /\ incident' = Deleted /\ ~Exists' /\ events' = << >>
        /\ UNCHANGED <<active, minute, deskJob, deskRaced, openLate, touched>>
    BY <1>2 DEF DeleteIncident, Exists
  <2>2. \A t \in DeskThreads : Writes(deskJob[t].set, deskJob[t].append)'
    <3>1. ASSUME NEW t \in DeskThreads PROVE Writes(deskJob[t].set, deskJob[t].append)'
      <4>1. PICK s, a : s = deskJob[t].set /\ a = deskJob[t].append
        OBVIOUS
      <4>2. Writes(s, a)
        BY <4>1 DEF IncidentInv
      <4>3. Writes(s, a)'
        BY <2>1, <4>2 DEF Writes, Valid
      <4> QED BY <2>1, <4>1, <4>3
    <3> QED BY <3>1
  <2>3. \A t \in DeskThreads : WritesAlone(deskJob[t].set, deskJob[t].append)'
    BY <2>1 DEF WritesAlone
  <2>4. SlaVerdicts' /\ EscalationsAgree'
    <3>1. SlaVerdicts'
      BY <2>1 DEF SlaVerdicts, ResponseVerdict, NoFalseBreach
    <3>2. CountIsEvents'
      BY <2>1 DEF CountIsEvents
    <3>3. DOMAIN << >> = {}
      OBVIOUS
    <3>4. DOMAIN events' = {}
      BY <2>1, <3>3
    <3>5. OneEventPerLevel'
      BY <3>4 DEF OneEventPerLevel
    <3>6. LadderInOrder'
      BY <3>4 DEF LadderInOrder
    <3> QED BY <3>1, <3>2, <3>5, <3>6 DEF EscalationsAgree
  <2>5. events' \in Seq(EventRows)
    BY <1>t, <2>1, ListShape
  <2> QED BY <2>1, <2>2, <2>3, <2>4, <2>5 DEF IncidentInv, UnresolvedLate, Exists
<1>3. ASSUME SeedEscalationRules \/ \E r \in Rules : ChangeRule(r) PROVE IncidentInv'
  <2>1. /\ active' \subseteq Rules /\ touched \subseteq touched'
        /\ "rules" \notin touched' => active' \in {{}, Rules}
        /\ UNCHANGED <<incident, events, minute, deskJob, deskRaced, openLate>>
    BY <1>3, <1>t DEF SeedEscalationRules, ChangeRule, Touch
  <2>2. UnresolvedLate(incident, minute)' => openLate'
    BY <2>1 DEF IncidentInv, UnresolvedLate
  <2> QED BY <1>t, <2>1, <2>2, NothingWritten
<1>4. ASSUME NEW t \in DeskThreads, CommitRequest(t) PROVE IncidentInv'
  BY <1>4, RequestCommits
<1>5. ASSUME NEW t \in DeskThreads, NEW s \in DOMAIN INCIDENT_TRANSITIONS, TransitionIncident(t, s) PROVE IncidentInv'
  <2>1. PICK set : set = [status |-> s]
    OBVIOUS
  <2>2. DOMAIN set = {"status"} /\ set["status"] = s
    BY <2>1
  <2>3. Exists /\ ~deskRaced /\ touched' = touched /\ Request(t, set, << >>)
    BY <1>5, <2>1 DEF TransitionIncident, Request
  <2>4. DOMAIN set \subseteq Attributes \ {"due", "count"} /\ FlagEarned(WrittenRow(set))
    BY <2>2, <2>3, FlagKept DEF Attributes
  <2>5. \A a \in DOMAIN set : Valid(a, set[a]) /\ (a \in Flags => set[a] = TRUE)
    BY <2>2 DEF Valid, Flags
  <2>6. Decides(set, << >>)
    BY <2>2, <2>3, <2>4, <2>5, DecidesNoEvent
  <2> QED BY <2>3, <2>6, RequestBegins
<1>6. ASSUME NEW t \in DeskThreads, NEW u \in Updates, UpdateIncident(t, u[1], u[2]) PROVE IncidentInv'
  <2>a. u[1] \in {"status", "severity", "level"}
    BY IncidentsAssumption
  <2>b. PICK attribute : attribute = u[1]
    OBVIOUS
  <2>c. PICK to : to = u[2]
    OBVIOUS
  <2>1. attribute \in {"status", "severity", "level"} /\ attribute = u[1] /\ to = u[2]
    BY <2>a, <2>b, <2>c
  <2>2. PICK set : set = [a \in {attribute} |-> to]
    OBVIOUS
  <2>3. DOMAIN set = {attribute} /\ set[attribute] = to
    BY <2>2
  <2>4. Exists /\ ~deskRaced /\ touched' = touched \cup ({attribute} \ {"status"}) /\ Request(t, set, << >>)
    BY <1>6, <2>1, <2>2 DEF UpdateIncident, Request, Touch
  <2>5. DOMAIN set \subseteq Attributes \ {"due", "count"} /\ FlagEarned(WrittenRow(set))
    BY <2>1, <2>3, <2>4, FlagKept DEF Attributes
  <2>6. to \in Given(attribute)
    BY <2>1 DEF Given
  <2>7. \A a \in DOMAIN set : Valid(a, set[a]) /\ (a \in Flags => set[a] = TRUE)
    BY <2>1, <2>3, <2>6 DEF Valid, Flags
  <2>8. Decides(set, << >>)
    BY <2>1, <2>3, <2>4, <2>5, <2>7, DecidesNoEvent
  <2> QED BY <2>4, <2>8, RequestBegins
<1>7. ASSUME NEW t \in DeskThreads, NEW l \in Levels, EscalateIncidentManually(t, l) PROVE IncidentInv'
  <2>1. PICK set : set = [level |-> l, count |-> Counted(1), activity |-> minute]
    OBVIOUS
  <2>2. PICK e \in EventRows : e = [level |-> l, auto |-> FALSE]
    BY DEF EventRows
  <2>3. Exists /\ ~deskRaced /\ touched' = touched /\ Request(t, set, <<e>>)
    BY <1>7, <2>1, <2>2 DEF EscalateIncidentManually, Request
  <2>4. <<e>> \in Seq(EventRows) /\ Len(<<e>>) = 1 /\ DOMAIN <<e>> = {1} /\ <<e>>[1].auto = FALSE /\ <<e>> # << >>
    BY <2>2
  <2>5. PICK c \in Nat : c = incident["count"] + 1
    BY <2>3, AloneShape
  <2>6. DOMAIN set = {"level", "count", "activity"} /\ set["level"] = l /\ set["count"] = c /\ set["activity"] = minute
    BY <2>1, <2>5 DEF Counted
  <2>7. \A a \in DOMAIN set : Valid(a, set[a]) /\ (a \in Flags => set[a] = TRUE)
    <3>1. minute \in 0 .. minute
      BY <1>t
    <3>2. Valid("level", l) /\ Valid("count", c) /\ Valid("activity", minute)
      BY <2>5, <3>1 DEF Valid, Flags
    <3> QED BY <2>6, <3>2 DEF Flags
  <2>8. FlagEarned(WrittenRow(set))
    BY <2>3, <2>6, FlagKept
  <2>9. Fresh(events \o <<e>>)
    BY <1>t, <2>3, <2>4, AloneShape, FreshAppended
  <2>10. Untouched => Ladder(events \o <<e>>)
    BY <1>t, <2>3, <2>4, AloneShape, LadderAppended DEF Climbs
  <2>11. DOMAIN set \subseteq Attributes \ {"due"} /\ {"response", "resolutionBreached", "severity"} \cap DOMAIN set = {}
    BY <2>6 DEF Attributes
  <2>12. Untouched' => Untouched
    BY <2>3 DEF Untouched
  <2>13. Decides(set, <<e>>)
    BY <2>4, <2>5, <2>6, <2>7, <2>8, <2>9, <2>10, <2>11, <2>12 DEF Decides
  <2> QED BY <2>3, <2>13, RequestBegins
<1>8. ASSUME NEW t \in DeskThreads, AddFirstResponse(t) PROVE IncidentInv'
  <2>1. PICK set : set = ResponseNow
    OBVIOUS
  <2>2. Exists /\ ~deskRaced /\ touched' = touched /\ incident["response"] = Never /\ Request(t, set, << >>)
    BY <1>8, <2>1 DEF AddFirstResponse, Request
  <2>3. /\ DOMAIN set = {"response"} \cup Flag("responseBreached", minute > incident["due"].response)
        /\ set["response"] = minute
        /\ "responseBreached" \in DOMAIN set => set["responseBreached"] = TRUE
    BY <2>1 DEF ResponseNow, Flag
  <2>4. /\ DOMAIN set \subseteq {"response", "responseBreached"}
        /\ "responseBreached" \in DOMAIN set <=> minute > incident["due"].response
    BY <2>3 DEF Flag
  <2>5. \A a \in DOMAIN set : Valid(a, set[a]) /\ (a \in Flags => set[a] = TRUE)
    <3>1. minute \in 0 .. minute
      BY <1>t
    <3>2. Valid("response", minute) /\ Valid("responseBreached", TRUE)
      BY <3>1 DEF Valid, Flags
    <3> QED BY <2>3, <2>4, <3>2 DEF Flags
  <2>6. FlagEarned(WrittenRow(set))
    <3>1. FlagEarned(incident) /\ {"response", "responseBreached", "due"} \subseteq DOMAIN incident
      BY <2>2, AloneShape DEF Attributes
    <3>2. incident["responseBreached"] => minute > incident["due"].response
      BY <2>2, <3>1 DEF FlagEarned
    <3>3. PICK inc : inc = WrittenRow(set)
      OBVIOUS
    <3>4. /\ inc["due"] = incident["due"] /\ inc["response"] = minute
          /\ inc["responseBreached"] = IF "responseBreached" \in DOMAIN set THEN TRUE ELSE incident["responseBreached"]
      BY <2>3, <2>4, <3>1, <3>3 DEF WrittenRow
    <3> QED BY <2>4, <3>2, <3>3, <3>4 DEF FlagEarned
  <2>7. DOMAIN set \subseteq Attributes \ {"due", "count"}
    BY <2>4 DEF Attributes
  <2>8. Decides(set, << >>)
    BY <2>2, <2>3, <2>4, <2>5, <2>6, <2>7, DecidesNoEvent
  <2> QED BY <2>2, <2>8, RequestBegins
<1>9. ASSUME NEW t \in DeskThreads, ResolveIncident(t) PROVE IncidentInv'
  <2>1. PICK set : set = [a \in {"status"} \cup Flag("resolutionBreached", PastResolution) |->
                            IF a = "status" THEN "resolved" ELSE TRUE]
    OBVIOUS
  <2>2. /\ Exists /\ ~deskRaced /\ touched \subseteq touched' /\ incident["status"] # "resolved" /\ Request(t, set, << >>)
        /\ incident["status"] = "closed" => "resolved again" \in touched'
    BY <1>9, <2>1 DEF ResolveIncident, Request, Touch
  <2>3. /\ DOMAIN set \subseteq {"status", "resolutionBreached"} /\ ("status" \in DOMAIN set => set["status"] = "resolved")
        /\ "resolutionBreached" \in DOMAIN set => set["resolutionBreached"] = TRUE /\ PastResolution
    BY <2>1 DEF Flag
  <2>4. \A a \in DOMAIN set : Valid(a, set[a]) /\ (a \in Flags => set[a] = TRUE)
    BY <2>3 DEF Valid, Flags, INCIDENT_TRANSITIONS
  <2>5. "resolutionBreached" \in DOMAIN set => openLate \/ "resolved again" \in touched'
    BY <2>2, <2>3 DEF IncidentInv, PastResolution, UnresolvedLate, Exists
  <2>6. DOMAIN set \subseteq Attributes \ {"due", "count"} /\ FlagEarned(WrittenRow(set))
    BY <2>2, <2>3, FlagKept DEF Attributes
  <2>7. Decides(set, << >>)
    BY <2>2, <2>3, <2>4, <2>5, <2>6, DecidesNoEvent
  <2> QED BY <2>2, <2>7, RequestBegins
<1>10. ASSUME NEW t \in DeskThreads, GetSlaBreaches(t) PROVE IncidentInv'
  <2>1. PICK late : late = Flag("responseBreached", incident["response"] = Never /\ minute > incident["due"].response)
                           \cup Flag("resolutionBreached", PastResolution)
    OBVIOUS
  <2>2. PICK set : set = [a \in late |-> TRUE]
    OBVIOUS
  <2>3. /\ Exists /\ ~deskRaced /\ touched' = touched /\ incident["status"] \in Open /\ Request(t, set, << >>)
    BY <1>10, <2>1, <2>2 DEF GetSlaBreaches, Request
  <2>4. /\ DOMAIN set \subseteq Flags /\ \A a \in DOMAIN set : set[a] = TRUE
        /\ "responseBreached" \in DOMAIN set => incident["response"] = Never /\ minute > incident["due"].response
        /\ "resolutionBreached" \in DOMAIN set => PastResolution
    BY <2>1, <2>2 DEF Flag, Flags
  <2>5. \A a \in DOMAIN set : Valid(a, set[a]) /\ (a \in Flags => set[a] = TRUE)
    BY <2>4 DEF Valid, Flags
  <2>6. "resolutionBreached" \in DOMAIN set => openLate
    BY <2>3, <2>4 DEF IncidentInv, PastResolution, UnresolvedLate, Exists, Open
  <2>7. FlagEarned(WrittenRow(set))
    <3>1. FlagEarned(incident) /\ {"response", "responseBreached", "due"} \subseteq DOMAIN incident
      BY <2>3, AloneShape DEF Attributes
    <3>2. PICK inc : inc = WrittenRow(set)
      OBVIOUS
    <3>3. /\ inc["due"] = incident["due"] /\ inc["response"] = incident["response"]
          /\ "responseBreached" \notin DOMAIN set => inc["responseBreached"] = incident["responseBreached"]
      BY <2>4, <3>1, <3>2 DEF WrittenRow, Flags
    <3> QED BY <2>4, <3>1, <3>2, <3>3 DEF FlagEarned
  <2>8. DOMAIN set \subseteq Attributes \ {"due", "count"} /\ {"response", "severity"} \cap DOMAIN set = {}
    BY <2>4 DEF Attributes, Flags
  <2>9. Decides(set, << >>)
    BY <2>3, <2>5, <2>6, <2>7, <2>8, DecidesNoEvent
  <2> QED BY <2>3, <2>9, RequestBegins
<1>11. ASSUME NEW t \in DeskThreads, EvaluateEscalations(t) PROVE IncidentInv'
  <2>1. PICK fired \in InOrder(RulesToFire) :
            Request(t, [level |-> fired[Len(fired)].level, count |-> Counted(Len(fired))],
                       [n \in DOMAIN fired |-> [level |-> fired[n].level, auto |-> TRUE]])
    BY <1>11 DEF EvaluateEscalations
  <2>2. PICK set : set = [level |-> fired[Len(fired)].level, count |-> Counted(Len(fired))]
    OBVIOUS
  <2>3. PICK append : append = [n \in DOMAIN fired |-> [level |-> fired[n].level, auto |-> TRUE]]
    OBVIOUS
  <2>4. Request(t, set, append) /\ Exists /\ ~deskRaced /\ UNCHANGED touched /\ RulesToFire # {}
    <3>1. Request(t, set, append)
      BY <2>1, <2>2, <2>3
    <3>2. Exists /\ ~deskRaced
      BY <3>1 DEF Request
    <3>3. UNCHANGED touched /\ RulesToFire # {}
      BY <1>11 DEF EvaluateEscalations
    <3> QED BY <3>1, <3>2, <3>3
  <2>5. Decides(set, append)
    BY <2>2, <2>3, <2>4, EngineDecides
  <2> QED BY <2>4, <2>5, RequestBegins
<1>12. CASE UNCHANGED deskVars
  <2>1. UNCHANGED <<incident, events, active, minute, deskJob, deskRaced, openLate, touched>>
    BY <1>12 DEF deskVars
  <2>2. UnresolvedLate(incident, minute)' => openLate'
    BY <2>1 DEF IncidentInv, UnresolvedLate
  <2> QED BY <1>t, <2>1, <2>2, NothingWritten
<1> QED BY <1>1, <1>2, <1>3, <1>4, <1>5, <1>6, <1>7, <1>8, <1>9, <1>10, <1>11, <1>12 DEF DeskNext

\* The verdicts on the agreed times tell the truth about the clock, whatever
\* requests overlap.
THEOREM VerdictsAreTrue == DeskSpec => []SlaVerdicts
<1>1. IncidentInv => SlaVerdicts
  BY DEF IncidentInv
<1> QED BY <1>1, DeskInitInv, DeskStepInv, PTL DEF DeskSpec

\* The escalation record agrees with itself, and the incident is well typed.
THEOREM EscalationsHold == DeskSpec => []EscalationsAgree /\ []DeskTypeOK
<1>1. IncidentInv => EscalationsAgree
  BY DEF IncidentInv
<1>2. IncidentInv => DeskTypeOK
  <2> SUFFICES ASSUME IncidentInv PROVE DeskTypeOK
    OBVIOUS
  <2>1. \A x \in 0 .. minute : x \in 0 .. MaxMinutes
    BY IncidentShape
  <2> QED BY <2>1 DEF IncidentInv, ValidRow, Valid, Attributes, DeskTypeOK, Exists
<1> QED BY <1>1, <1>2, DeskInitInv, DeskStepInv, PTL DEF DeskSpec

------------------------------------------------------------------------------
(* The parts together                                                         *)

\* A behaviour of the composition is one of each part.
LEMMA HypercareParts == MCSpec => SignoffSpec /\ ExitSpec /\ DeskSpec
<1>1. MCInit => SignoffInit /\ ExitInit /\ DeskInit
  BY DEF MCInit
<1>2. [MCNext]_<<part, signoffVars, exitVars, deskVars>> => [SignoffNext]_signoffVars
  BY DEF MCNext
<1>3. [MCNext]_<<part, signoffVars, exitVars, deskVars>> => [ExitNext]_exitVars
  BY DEF MCNext, Closing
<1>4. [MCNext]_<<part, signoffVars, exitVars, deskVars>> => [DeskNext]_deskVars
  BY DEF MCNext, Deadline
<1> QED BY <1>1, <1>2, <1>3, <1>4, PTL DEF MCSpec, SignoffSpec, ExitSpec, DeskSpec

\* The records of hypercare keep their shape and the incident agrees with its
\* escalations, in every composition of the parts.
THEOREM IncidentsCohere == MCSpec => []IncidentCoherent
<1>1. ExitSpec => []ExitTypeOK
  <2>1. ExitInv => ExitTypeOK
    BY DEF ExitInv
  <2> QED BY <2>1, ExitInitInv, ExitStepInv, PTL DEF ExitSpec
<1>2. SignoffTypeOK /\ ExitTypeOK /\ DeskTypeOK /\ EscalationsAgree => IncidentCoherent
  BY DEF IncidentCoherent, HypercareTypeOK
<1> QED BY <1>1, <1>2, HypercareParts, SignoffTypeCorrect, EscalationsHold, PTL

\* What the parts promise holds of them together.
THEOREM HypercareHolds ==
    MCSpec => []ClosedWasReady /\ []CriteriaTruthful /\ []SlaVerdicts /\ ManualStatusStays /\ ImplementsApproval
BY HypercareParts, ClosingWasEarned, CriteriaAreTruthful, VerdictsAreTrue, ManualVerdictStands, SignoffRefines, PTL
==============================================================================
