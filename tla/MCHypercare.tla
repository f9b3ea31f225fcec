---------------------------- MODULE MCHypercare ----------------------------
(* One run over the three parts of hypercare that share no row: the sign-off  *)
(* records, the exit criteria with the closing of the plan, and an incident   *)
(* with its escalation.  A behaviour is one of the part chosen first; the     *)
(* others keep still, so the state spaces add up instead of multiplying.  The *)
(* incident is taken in two: its deadlines without escalation, and escalation *)
(* of an incident without deadlines.  So is the exit: the criteria before any *)
(* sign-off, and the closing over one standard criterion.                     *)
EXTENDS SignoffHistory, HypercareExit, Incidents, TLC

VARIABLE part

MCValues == [sla |-> {50, 100}]

Edit(status, auto, mandatory) == [status |-> status, auto |-> auto, mandatory |-> mandatory]
MCOffered == {Edit({"met"}, {FALSE}, {}), Edit({"met"}, {}, {}), Edit({"not_met"}, {TRUE}, {FALSE})}

Rule(severity, level, order, trigger, after) ==
    [severity |-> severity, level |-> level, order |-> order, trigger |-> trigger, after |-> after]
MCRules == {Rule("P1", "L1", 1, "no_response", 1), Rule("P1", "L2", 2, "no_response", 2),
            Rule("P2", "L1", 1, "no_update", 1)}
MCTargets == [severity \in {"P1", "P2"} |-> [response |-> 1, resolution |-> 1]]
MCUpdates == {<<"status", "open">>, <<"severity", "P2">>}

MCInit ==
    /\ part \in {"signoff", "criteria", "closing", "deadlines", "ladder"}
    /\ SignoffInit /\ ExitInit /\ DeskInit
    /\ part \notin {"criteria", "closing"} => value = CHOOSE m \in Measurements : TRUE
    /\ part \notin {"deadlines", "ladder"} => incident = CreateIncident("P1", "hypercare")
    /\ part = "ladder" => \E s \in Severities : incident = CreateIncident(s, "cutover")

Closing == ExitNext /\ \A k \in Custom : criteria'[<<k, 0>>] = NoRow
Deadline == DeskNext /\ active' = {} /\ \A t \in DeskThreads : deskJob'[t].append = << >>

MCNext ==
    /\ UNCHANGED part
    /\ \/ part = "signoff" /\ SignoffNext /\ UNCHANGED <<exitVars, deskVars>>
       \/ part = "criteria" /\ ExitNext /\ UNCHANGED <<approval, signoffVars, deskVars>>
       \/ part = "closing" /\ Closing /\ UNCHANGED <<signoffVars, deskVars>>
       \/ part = "deadlines" /\ Deadline /\ UNCHANGED <<signoffVars, exitVars>>
       \/ part = "ladder" /\ DeskNext /\ UNCHANGED <<signoffVars, exitVars>>

MCSpec == MCInit /\ [][MCNext]_<<part, signoffVars, exitVars, deskVars>>

\* The records, criteria and incidents of all parts stay well formed.
HypercareTypeOK == SignoffTypeOK /\ ExitTypeOK /\ DeskTypeOK

\* They are well formed, and the incident agrees with its escalations.
IncidentCoherent == HypercareTypeOK /\ EscalationsAgree

\* The three parts share the names of their threads.
Symmetry == Permutations(Signers)
==============================================================================
