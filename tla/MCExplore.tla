------------------------------ MODULE MCExplore ------------------------------
(* One run over what the explore phase hands to the realize phase: the        *)
(* conversion of requirements, the open items that block them, and the way of *)
(* one backlog item to deployment.  A behaviour is one of the part chosen     *)
(* first, so the state spaces add up and do not multiply.                     *)
EXTENDS Requirements, BacklogFlow, TLC

VARIABLE part

MCInit ==
    /\ part \in {"conversion", "blocking", "flow"}
    /\ RequirementsInit /\ FlowInit

\* The conversion has at most one open item, the blocking no backlog items.
Conversion ==
    RequirementsNext /\ Cardinality({o \in OpenItems : openItem'[o] # Absent}) <= 1
Blocking == RequirementsNext /\ owner' = owner

MCNext ==
    /\ UNCHANGED part
    /\ \/ part = "conversion" /\ Conversion /\ UNCHANGED flowVars
       \/ part = "blocking" /\ Blocking /\ UNCHANGED flowVars
       \/ part = "flow" /\ FlowNext /\ UNCHANGED reqVars

MCSpec == MCInit /\ [][MCNext]_<<part, reqVars, flowVars>>

\* The rows of all parts stay well formed.
ExploreTypeOK == RequirementsTypeOK /\ FlowTypeOK

\* The rows are well formed, and those of the backlog item agree.
BacklogCoherent == ExploreTypeOK /\ RowsAgree

\* The parts share the names of their threads and ids.
Symmetry == Permutations(ReqThreads) \cup Permutations(OpenItems) \cup Permutations(Items)
==============================================================================
