------------------------------ MODULE MCCutover ------------------------------
(* One run over three parts of cutover planning, of which a behaviour is one: *)
(* two requests at once that add dependencies between two tasks, the com-     *)
(* putation of the critical path on any graph of three tasks, and the life of *)
(* a plan with its gates.                                                     *)
EXTENDS DependencyWalk, CriticalPath, CutoverPlan, TLC

VARIABLE part

cutoverVars == <<part, walkVars, criticalVars, planVars>>

\* A task the requests leave alone.
Spare == CHOOSE t \in Tasks : TRUE
Others == Tasks \ {Spare}

WalkPart ==
    /\ part = "walk"
    /\ PlanInit
    /\ WalkInit /\ edge \in [Adders -> Others \X Others]
    /\ CriticalInit /\ duration = [t \in Tasks |-> None]

NoWalk ==
    /\ row = [t \in Tasks |-> "live"]
    /\ phase = [w \in Adders |-> "idle"] /\ edge = [w \in Adders |-> <<Spare, Spare>>]
    /\ visited = [w \in Adders |-> {}] /\ stack = [w \in Adders |-> {}]
    /\ answer = [w \in Adders |-> "none"] /\ base = [w \in Adders |-> {}]

PathPart ==
    /\ part = "path"
    /\ CriticalInit /\ NoWalk /\ PlanInit

PlanPart ==
    /\ part = "plan"
    /\ CriticalInit /\ NoWalk /\ PlanInit
    /\ deps = {} /\ duration = [t \in Tasks |-> None]

MCInit == WalkPart \/ PathPart \/ PlanPart

ComputesPath == part = "path" /\ CriticalNext /\ UNCHANGED <<part, row, request, planVars>>

MCNext ==
    \/ /\ part = "walk" /\ WalkNext /\ row'[Spare] = "unused"
       /\ UNCHANGED <<part, duration, stage, check, sort, relax, path, planVars>>
    \/ ComputesPath
    \/ part = "plan" /\ PlanNext /\ UNCHANGED <<part, walkVars, criticalVars>>

\* A thread that serves a request keeps running until it has answered.
MCSpec ==
    /\ MCInit /\ [][MCNext]_cutoverVars
    /\ \A w \in Adders : WF_walkVars(Step(w))
    /\ WF_cutoverVars(ComputesPath)

\* Every request for a dependency is answered whatever it overlaps with (the walk
\* of validate_no_cycle ends), and on every stored graph, with a cycle or
\* without, the computation of the critical path (calculate_critical_path) ends.
AllAnswered == RequestsAnswered /\ (part = "path" => Terminates)
==============================================================================
