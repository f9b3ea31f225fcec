--------------------------- MODULE SignoffHistory ---------------------------
(* The append-only sign-off records of one artifact.  A request that revokes  *)
(* reads the latest committed record and decides; the record it appends gets  *)
(* its id from the database when it is inserted, and is seen by others when   *)
(* it is committed.  Other requests run between these steps, so records can   *)
(* commit in another order than that of their ids, and ids can be lost.       *)
EXTENDS Naturals

CONSTANTS
    Signers,        \* threads serving sign-off requests
    MaxId           \* bound on the ids handed out

ASSUME SignoffAssumption == MaxId \in Nat \ {0}

VARIABLES
    records,        \* the committed SignoffRecord rows of the artifact
    nextId,         \* the id sequence
    signing,        \* what each signer is doing
    raced           \* history: a request began while another one was running

signoffVars == <<records, nextId, signing, raced>>

ApprovedActions == {"approved", "override_approved"}
VALID_ACTIONS == ApprovedActions \cup {"revoked"}

Ids == 1 .. MaxId
Records == [id : Ids, action : VALID_ACTIONS]

SignerIdle == [stage |-> "idle"]

Decided(a) == [stage |-> "decided", action |-> a]
Inserted(rec) == [stage |-> "inserted", record |-> rec]

SignoffInit ==
    /\ records = {}
    /\ nextId = 1
    /\ signing = [r \in Signers |-> SignerIdle]
    /\ raced = FALSE

IsLatest(rec) == rec \in records /\ \A o \in records : o.id <= rec.id

\* The state the dashboards and the gates read off the latest record.
CurrentApproval ==
    IF records = {} THEN "none"
    ELSE IF \E rec \in records : IsLatest(rec) /\ rec.action = "revoked" THEN "revoked"
    ELSE "approved"

\* Mutant: an artifact nobody signed can be revoked.
NotRevokedYet == ~ \E rec \in records : IsLatest(rec) /\ rec.action = "revoked"

CanRevoke == \E rec \in records : IsLatest(rec) /\ rec.action # "revoked"

Serving(r, job) ==
    /\ signing[r].stage = "idle"
    /\ signing' = [signing EXCEPT ![r] = job]
    /\ raced' = (raced \/ \E o \in Signers \ {r} : signing[o].stage # "idle")
    /\ UNCHANGED <<records, nextId>>

ApproveEntity(r) == \E a \in ApprovedActions : Serving(r, Decided(a))

RevokeApproval(r) == CanRevoke /\ Serving(r, Decided("revoked"))

InsertRecord(r) ==
    /\ signing[r].stage = "decided"
    /\ nextId \in Ids
    /\ signing' = [signing EXCEPT ![r] = Inserted([id |-> nextId, action |-> signing[r].action])]
    /\ nextId' = nextId + 1
    /\ UNCHANGED <<records, raced>>

CommitRecord(r) ==
    /\ signing[r].stage = "inserted"
    /\ records' = records \cup {signing[r].record}
    /\ signing' = [signing EXCEPT ![r] = SignerIdle]
    /\ UNCHANGED <<nextId, raced>>

\* The commit fails: the row is gone, its id is not handed out again.
RollbackRecord(r) ==
    /\ signing[r].stage = "inserted"
    /\ signing' = [signing EXCEPT ![r] = SignerIdle]
    /\ UNCHANGED <<records, nextId, raced>>

SignoffNext ==
    \E r \in Signers :
        \/ ApproveEntity(r) \/ RevokeApproval(r)
        \/ InsertRecord(r) \/ CommitRecord(r) \/ RollbackRecord(r)

SignoffSpec == SignoffInit /\ [][SignoffNext]_signoffVars

------------------------------------------------------------------------------
(* Properties                                                                 *)

SignoffTypeOK ==
    /\ records \subseteq Records
    /\ nextId \in 1 .. MaxId + 1
    /\ signing \in [Signers -> {SignerIdle} \cup {Decided(a) : a \in VALID_ACTIONS}
                               \cup {Inserted(rec) : rec \in Records}]
    /\ raced \in BOOLEAN

\* Every withdrawal in the log withdraws something: an approval with a smaller
\* id stands before it, whatever runs concurrently and whatever is lost.
RevocationsFollowApprovals ==
    \A x \in records : x.action = "revoked" =>
        \E y \in records : y.id < x.id /\ y.action \in ApprovedActions

\* "Revoking an already-revoked entity is a no-op error": as long as requests
\* do not overlap, an approval stands between two revocations.
RevokedOnce ==
    ~raced =>
        \A x, y \in records : x.action = "revoked" /\ y.action = "revoked" /\ x.id < y.id =>
            \E z \in records : x.id < z.id /\ z.id < y.id /\ z.action \in ApprovedActions

A == INSTANCE Approval WITH approval <- CurrentApproval

\* The log, read through its latest record, is the approval state every gate
\* relies on: concurrency and lost records never show a revocation of
\* something that was not approved.
ImplementsApproval == A!Spec
==============================================================================
