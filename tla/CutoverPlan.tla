----------------------------- MODULE CutoverPlan -----------------------------
(* The life of one cutover plan from draft to closed, with the things its     *)
(* guards look at: the rehearsals, the go/no-go checklist and the latest      *)
(* sign-off record of the hypercare exit.  Each request is one transaction;   *)
(* the requests come in any order.                                            *)
EXTENDS Naturals

CONSTANTS
    Rehearsals,     \* Rehearsal ids
    Items,          \* GoNoGoItem ids
    SeedItems,      \* the ids the standard checklist is seeded with
    MaxTime         \* bound on the clock

ASSUME CutoverPlanAssumption ==
    /\ SeedItems \subseteq Items
    /\ MaxTime \in Nat \ {0}

VARIABLES
    status,         \* CutoverPlan.status
    actualStart,    \* CutoverPlan.actual_start, Unset or a time
    actualEnd,      \* CutoverPlan.actual_end
    hypercareStart, \* CutoverPlan.hypercare_start
    rehearsal,      \* the status of each rehearsal, or that it has no row
    verdict,        \* the verdict of each checklist item
    signoff,        \* the latest sign-off action on ("hypercare_exit", plan)
    clock,
    rehearsed,      \* history: a rehearsal was completed since the plan exists
    rolledBack,     \* history: an execution was rolled back
    edited          \* history: the user edited the hypercare window

plan == <<status, actualStart, actualEnd, hypercareStart>>
gates == <<rehearsal, verdict, signoff>>
planVars == <<plan, gates, clock, rehearsed, rolledBack, edited>>

PLAN_TRANSITIONS == [
    draft       |-> {"approved"},
    approved    |-> {"rehearsal", "ready"},
    rehearsal   |-> {"approved", "ready"},
    ready       |-> {"executing", "approved"},
    executing   |-> {"completed", "rolled_back"},
    completed   |-> {"hypercare"},
    hypercare   |-> {"closed"},
    closed      |-> {},
    rolled_back |-> {"draft"}]

PlanStatuses == DOMAIN PLAN_TRANSITIONS

REHEARSAL_TRANSITIONS == [
    planned     |-> {"in_progress", "cancelled"},
    in_progress |-> {"completed", "cancelled"},
    completed   |-> {},
    cancelled   |-> {"planned"}]

Verdicts == {"pending", "go", "no_go", "waived"}
Absent == "absent"

Unset == 0
Times == 1 .. MaxTime

PlanInit ==
    /\ status = "draft"
    /\ actualStart = Unset /\ actualEnd = Unset /\ hypercareStart = Unset
    /\ rehearsal = [r \in Rehearsals |-> Absent]
    /\ verdict = [i \in Items |-> Absent]
    /\ signoff = "none"
    /\ clock = 1
    /\ rehearsed = FALSE /\ rolledBack = FALSE /\ edited = FALSE

Pending == {i \in Items : verdict[i] = "pending"}
IsApproved == signoff \in {"approved", "override_approved"}

------------------------------------------------------------------------------
(* transition_plan and start_cutover_clock                                    *)

\* Mutant: any rehearsal counts.
HasRehearsal == \E r \in Rehearsals : rehearsal[r] # Absent

HasCompletedRehearsal == \E r \in Rehearsals : rehearsal[r] = "completed"

TransitionGuard(new) ==
    /\ new \in PLAN_TRANSITIONS[status]
    /\ new = "ready" => HasCompletedRehearsal
    /\ new = "executing" => Pending = {}
    /\ status = "hypercare" /\ new = "closed" => IsApproved

\* Mutant: hypercare starts when somebody moves the plan there.
HypercareFromNow(new) ==
    IF new = "hypercare" /\ hypercareStart = Unset THEN clock ELSE hypercareStart

HypercareStamp(new) ==
    IF new = "hypercare" /\ hypercareStart = Unset
    THEN IF actualEnd # Unset THEN actualEnd ELSE clock
    ELSE hypercareStart

\* Start, end and hypercare start are stamped only where they are still unset;
\* hypercare starts at the recorded end.
TransitionPlan(new) ==
    /\ TransitionGuard(new)
    /\ status' = new
    /\ actualStart' = IF new = "executing" /\ actualStart = Unset THEN clock ELSE actualStart
    /\ actualEnd' = IF new \in {"completed", "rolled_back"} /\ actualEnd = Unset
                    THEN clock ELSE actualEnd
    /\ hypercareStart' = HypercareStamp(new)
    /\ rolledBack' = (rolledBack \/ new = "rolled_back")
    /\ UNCHANGED <<gates, clock, rehearsed, edited>>

\* The war room's button: stamps the start whatever it was before, and does not
\* look at the checklist.
StartClock ==
    /\ status = "ready"
    /\ status' = "executing"
    /\ actualStart' = clock
    /\ UNCHANGED <<actualEnd, hypercareStart, gates, clock, rehearsed, rolledBack, edited>>

\* update_plan: the hypercare window is the user's to edit, or to clear.
UpdatePlan(t) ==
    /\ hypercareStart' = t
    /\ edited' = TRUE
    /\ UNCHANGED <<status, actualStart, actualEnd, gates, clock, rehearsed, rolledBack>>

------------------------------------------------------------------------------
(* Rehearsals                                                                 *)

CreateRehearsal(r) ==
    /\ rehearsal[r] = Absent
    /\ rehearsal' = [rehearsal EXCEPT ![r] = "planned"]
    /\ UNCHANGED <<plan, verdict, signoff, clock, rehearsed, rolledBack, edited>>

TransitionRehearsal(r, new) ==
    /\ rehearsal[r] # Absent
    /\ new \in REHEARSAL_TRANSITIONS[rehearsal[r]]
    /\ rehearsal' = [rehearsal EXCEPT ![r] = new]
    /\ rehearsed' = (rehearsed \/ new = "completed")
    /\ UNCHANGED <<plan, verdict, signoff, clock, rolledBack, edited>>

DeleteRehearsal(r) ==
    /\ rehearsal[r] # Absent
    /\ rehearsal' = [rehearsal EXCEPT ![r] = Absent]
    /\ UNCHANGED <<plan, verdict, signoff, clock, rehearsed, rolledBack, edited>>

------------------------------------------------------------------------------
(* Go/no-go checklist                                                         *)

ChecklistUnchanged == UNCHANGED <<plan, rehearsal, signoff, clock, rehearsed, rolledBack, edited>>

\* create_go_no_go takes the verdict from the request, update_go_no_go any.
CreateItem(i, v) ==
    /\ verdict[i] = Absent
    /\ verdict' = [verdict EXCEPT ![i] = v]
    /\ ChecklistUnchanged

UpdateItem(i, v) ==
    /\ verdict[i] # Absent
    /\ verdict' = [verdict EXCEPT ![i] = v]
    /\ ChecklistUnchanged

DeleteItem(i) ==
    /\ verdict[i] # Absent
    /\ verdict' = [verdict EXCEPT ![i] = Absent]
    /\ ChecklistUnchanged

SeedChecklist ==
    /\ \A i \in Items : verdict[i] = Absent
    /\ verdict' = [i \in Items |-> IF i \in SeedItems THEN "pending" ELSE Absent]
    /\ ChecklistUnchanged

------------------------------------------------------------------------------
(* Sign-off of the hypercare exit                                             *)

SignoffUnchanged ==
    UNCHANGED <<plan, rehearsal, verdict, clock, rehearsed, rolledBack, edited>>

\* An approval may come at any time of the plan's life.
ApproveEntity(action) ==
    /\ signoff' = action
    /\ SignoffUnchanged

RevokeApproval ==
    /\ IsApproved
    /\ signoff' = "revoked"
    /\ SignoffUnchanged

Tick ==
    /\ clock < MaxTime
    /\ clock' = clock + 1
    /\ UNCHANGED <<plan, gates, rehearsed, rolledBack, edited>>

------------------------------------------------------------------------------
LifecycleNext ==
    \/ \E new \in PlanStatuses : TransitionPlan(new)
    \/ StartClock
    \/ \E t \in Times \cup {Unset} : UpdatePlan(t)
    \/ Tick

RehearsalNext ==
    \E r \in Rehearsals :
        \/ CreateRehearsal(r)
        \/ \E new \in DOMAIN REHEARSAL_TRANSITIONS : TransitionRehearsal(r, new)
        \/ DeleteRehearsal(r)

ChecklistNext ==
    \/ \E i \in Items :
          \/ \E v \in Verdicts : CreateItem(i, v) \/ UpdateItem(i, v)
          \/ DeleteItem(i)
    \/ SeedChecklist

SignoffNext ==
    \/ \E action \in {"approved", "override_approved"} : ApproveEntity(action)
    \/ RevokeApproval

PlanNext == LifecycleNext \/ RehearsalNext \/ ChecklistNext \/ SignoffNext

PlanSpec == PlanInit /\ [][PlanNext]_planVars

------------------------------------------------------------------------------
PlanTypeOK ==
    /\ status \in PlanStatuses
    /\ actualStart \in Times \cup {Unset}
    /\ actualEnd \in Times \cup {Unset}
    /\ hypercareStart \in Times \cup {Unset}
    /\ rehearsal \in [Rehearsals -> (DOMAIN REHEARSAL_TRANSITIONS) \cup {Absent}]
    /\ verdict \in [Items -> Verdicts \cup {Absent}]
    /\ signoff \in {"none", "approved", "override_approved", "revoked"}
    /\ clock \in Times
    /\ rehearsed \in BOOLEAN
    /\ rolledBack \in BOOLEAN
    /\ edited \in BOOLEAN

\* A plan that was never rolled back has exactly the times its status says:
\* none before it executes, a start while it does, and afterwards an end that
\* is not before the start.  Its hypercare starts when it went live, unless
\* the user says otherwise.
FirstExecutionTimes ==
    ~ rolledBack =>
        /\ status \in {"draft", "approved", "rehearsal", "ready"} =>
              actualStart = Unset /\ actualEnd = Unset
        /\ status = "executing" => actualStart # Unset /\ actualEnd = Unset
        /\ status \in {"completed", "hypercare", "closed"} =>
              actualStart # Unset /\ actualStart <= actualEnd
        /\ status \in {"hypercare", "closed"} /\ ~ edited => hypercareStart = actualEnd

\* No plan executes, by either button and in whatever order the requests come,
\* that has never had a rehearsal completed.
ExecutesRehearsed ==
    status \in {"ready", "executing", "completed", "hypercare", "closed"} => rehearsed
==============================================================================
