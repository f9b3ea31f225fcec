------------------------------ MODULE Approval ------------------------------
(* What the sign-off records promise of one artifact: it is approved, or its  *)
(* approval was revoked, or neither has happened yet.  An approval may come   *)
(* at any time; only what is approved can be revoked.                         *)
VARIABLE approval

Approvals == {"none", "approved", "revoked"}

Init == approval = "none"

Approve == approval' = "approved"

Revoke ==
    /\ approval = "approved"
    /\ approval' = "revoked"

Spec == Init /\ [][Approve \/ Revoke]_approval
==============================================================================
