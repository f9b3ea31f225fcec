------------------------------ MODULE MCRelease ------------------------------
(* One run over what has to be in order before a release: a change request, a *)
(* test case with its approval and its versions, the cycles it is executed    *)
(* in, a defect, a transport, and the synchronisation with SAP Cloud ALM.     *)
(* They share no row: a behaviour is one of the part chosen first, so the     *)
(* state spaces add up and do not multiply.  The change is taken in two: its  *)
(* way through the freeze windows, without implementations and reviews, and   *)
(* its implementations and reviews without windows.  So are the cycles: how   *)
(* they are filled, and the result of one execution.  The synchronisation is  *)
(* taken in three: the token and the circuit over calls that change nothing,  *)
(* two calls about one row while the clock stands, and one call at a time.    *)
EXTENDS ChangeRequests, TestApproval, Defects, CaseVersions, TestCycles, Transports, AlmGateway

VARIABLE part

testVars == <<approvalVars, defectVars, versionVars, cycleVars, transportVars>>
releaseVars == <<part, changeVars, testVars, almVars>>

MCInit ==
    /\ part \in {"freeze", "review", "approval", "defect", "versions",
                "cycles", "results", "transport", "circuit", "overlap", "alone"}
    /\ ChangeInit /\ ApprovalInit /\ DefectInit /\ VersionsInit
    /\ CyclesInit /\ TransportInit /\ AlmInit
    /\ part # "approval" => caseStatus = "draft" /\ required = [s \in Stages |-> TRUE]
    /\ part # "defect" => defect.status = "new" /\ born.reopened = CHOOSE n \in BornCounts : TRUE
    /\ part # "versions" => versions = << >> /\ content = CHOOSE c \in Contents : TRUE
    /\ part # "transport" => transport.current = "DEV" /\ transport.status = "created"
    /\ part \notin {"freeze", "review"} => change.status = "draft" /\ change.requiresPir
    /\ part = "freeze" => change.status \in {"approved", "implemented"}

Freeze ==
    /\ ChangeNext
    /\ implementations' = << >> /\ reviews' = << >>
    /\ decided' \in {"approved", Undecided}

Review ==
    /\ ChangeNext
    /\ inForce' = {} /\ change'.over = {}
    /\ Len(reviews') <= 2
    /\ Len(reviews') + Len(implementations') <= IF waived' THEN 2 ELSE 3
    /\ decided' \in {"approved", "rejected", Undecided}

\* What failed is carried forward into later cycles.
Filling ==
    /\ CyclesNext
    /\ \A e \in DOMAIN executions' : executions'[e] \in
           {NewExecution(c, k, result) : c \in Cycles, k \in Cases, result \in {"not_run", "fail"}}
    /\ \A t \in CycleThreads :
           /\ cycleJob'[t].kind # "derive"
           /\ cycleJob'[t].kind = "populate" =>
                  cycleJob'[t].from < cycleJob'[t].cycle /\ cycleJob'[t].cases # << >>

Executing ==
    /\ CyclesNext
    /\ pool' = {} /\ Len(executions') <= 1
    /\ \A e \in Executions' : executions'[e].cycle = 1
    /\ \A t \in CycleThreads : cycleJob'[t].kind \in {"none", "derive"}

Calling == {t \in AlmThreads : ~CallAt(t, "idle")}

Circuit ==
    /\ AlmNext
    /\ UNCHANGED <<alm, synced>>
    /\ issued' <= 1 \/ wallClock' <= 1
    /\ \A t \in Calling' : almCall'[t].op = "pull"

Overlap ==
    /\ AlmNext
    /\ UNCHANGED wallClock
    /\ issued' <= 1 /\ cachedToken' >= cachedToken /\ Len(failures') <= 2
    /\ \A t \in Calling' : almCall'[t].at # "denied"
    /\ \A r \in Synchronised : synced'[r].id # "simulated" /\ synced'[r].status # "pending"

Alone ==
    /\ AlmNext
    /\ wallClock' <= 1 /\ issued' <= 1
    /\ Cardinality(Calling') <= 1

MCNext ==
    /\ UNCHANGED part
    /\ \/ part = "freeze" /\ Freeze /\ UNCHANGED <<testVars, almVars>>
       \/ part = "review" /\ Review /\ UNCHANGED <<testVars, almVars>>
       \/ /\ part = "approval" /\ ApprovalNext
          /\ UNCHANGED <<changeVars, defectVars, versionVars, cycleVars, transportVars, almVars>>
       \/ /\ part = "defect" /\ DefectNext
          /\ UNCHANGED <<changeVars, approvalVars, versionVars, cycleVars, transportVars, almVars>>
       \/ /\ part = "versions" /\ VersionsNext
          /\ UNCHANGED <<changeVars, approvalVars, defectVars, cycleVars, transportVars, almVars>>
       \/ /\ \/ part = "cycles" /\ Filling
             \/ part = "results" /\ Executing
          /\ UNCHANGED <<changeVars, approvalVars, defectVars, versionVars, transportVars, almVars>>
       \/ /\ part = "transport" /\ TransportNext
          /\ UNCHANGED <<changeVars, approvalVars, defectVars, versionVars, cycleVars, almVars>>
       \/ part = "circuit" /\ Circuit /\ UNCHANGED <<changeVars, testVars>>
       \/ part = "overlap" /\ Overlap /\ UNCHANGED <<changeVars, testVars>>
       \/ part = "alone" /\ Alone /\ UNCHANGED <<changeVars, testVars>>
    /\ ~Some(reviews', {"in_review"})   \* it is treated as pending

MCSpec == MCInit /\ [][MCNext]_releaseVars

\* The rows of all parts stay well formed.
ReleaseTypeOK == ChangeTypeOK /\ ApprovalTypeOK /\ VersionsTypeOK /\ AlmTypeOK

\* They are well formed, and the status of the test case agrees with its records.
ApprovalCoherent == ReleaseTypeOK /\ StatusFollowsRecords

\* The parts share the names of their threads.
Symmetry == Permutations(ChangeThreads)
==============================================================================
