------------------------------ MODULE Incidents ------------------------------
(* One hypercare incident after its creation: its status, its SLA clock and   *)
(* its escalation.  Breaches and escalations are found lazily, by requests    *)
(* somebody sends, and two services change the same row by different rules.   *)
(* A request loads the incident, decides, and later commits the attributes it *)
(* changed and the events it adds; other requests run in between.             *)
EXTENDS Naturals, Sequences, FiniteSets

CONSTANTS
    Levels,         \* the escalation levels in use
    Rules,          \* the escalation rules of the plan
    Targets,        \* the SLA targets of each severity, in minutes
    Updates,        \* the <<attribute, value>> pairs users send to the general update
    DeskThreads,    \* threads serving requests
    MaxMinutes,     \* bound on the clock
    MaxEvents,      \* bound on the escalation events
    MaxTouched      \* bound on the kinds of general update in one behaviour

ESCALATION_LEVEL_ORDER == <<"L1", "L2", "L3", "vendor", "management">>
ESCALATION_TRIGGER_TYPES == {"no_response", "no_update", "no_resolution", "severity_escalation"}
Severities == DOMAIN Targets

ASSUME IncidentsAssumption ==
    /\ Levels \subseteq {ESCALATION_LEVEL_ORDER[n] : n \in 1 .. 5}
    /\ Targets \in [Severities -> [response : Nat, resolution : Nat]]
    /\ Updates \subseteq {"status", "severity", "level"} \X STRING
    /\ IsFiniteSet(Rules)
    /\ \A r \in Rules : /\ r.severity \in Severities /\ r.level \in Levels
                        /\ r.trigger \in ESCALATION_TRIGGER_TYPES /\ {r.order, r.after} \subseteq Nat
    /\ \A r, s \in Rules : r.severity = s.severity /\ r.order = s.order => r = s
    /\ MaxMinutes \in Nat \ {0} /\ {MaxEvents, MaxTouched} \subseteq Nat

VARIABLES
    incident,       \* the HypercareIncident row, or that it was deleted
    events,         \* its EscalationEvent rows, in order of creation
    active,         \* the escalation rules in force
    minute,         \* minutes since the incident was reported, from 1
    deskJob,        \* what each thread is about to commit
    deskRaced,      \* history: a request began while another one was running
    openLate,       \* history: it was unresolved after its resolution deadline
    touched         \* history: what the general updates changed

deskVars == <<incident, events, active, minute, deskJob, deskRaced, openLate, touched>>

INCIDENT_TRANSITIONS == [
    open          |-> {"investigating", "resolved", "closed"},
    investigating |-> {"resolved", "closed"},
    resolved      |-> {"closed", "open"},
    closed        |-> {"open"}]

Open == {"open", "investigating"}
Never == 0
Deleted == [status |-> "deleted"]
Exists == incident # Deleted
Quiet == [set |-> << >>, append |-> << >>]      \* the thread serves nobody

\* Only an incident created in the hypercare service has SLA deadlines; the
\* cutover service creates them without.
Deadlines(severity, service) ==
    IF service = "hypercare"
    THEN [response |-> 1 + Targets[severity].response, resolution |-> 1 + Targets[severity].resolution]
    ELSE [response |-> MaxMinutes, resolution |-> MaxMinutes]

CreateIncident(severity, service) == [
    status |-> "open", severity |-> severity, due |-> Deadlines(severity, service),
    response |-> Never, responseBreached |-> FALSE, resolutionBreached |-> FALSE,
    level |-> "none", count |-> 0, activity |-> 1]

UnresolvedLate(inc, m) ==
    inc # Deleted /\ inc.status \notin {"resolved", "closed"} /\ m > inc.due.resolution

DeskInit ==
    /\ \E s \in Severities, service \in {"hypercare", "cutover"} : incident = CreateIncident(s, service)
    /\ events = << >>
    /\ active = {}
    /\ minute = 1
    /\ deskJob = [t \in DeskThreads |-> Quiet]
    /\ deskRaced = FALSE
    /\ openLate = FALSE
    /\ touched = {}

\* A request begins: it will set these attributes, where they differ from the
\* loaded ones, and append these events.  Bound: after two requests have
\* overlapped no further one begins.
Request(t, set, append) ==
    /\ Exists
    /\ deskJob[t] = Quiet
    /\ ~deskRaced
    /\ Len(events) + Len(append) <= MaxEvents
    /\ LET changed == {a \in DOMAIN set : set[a] # incident[a]}
       IN  deskJob' = [deskJob EXCEPT ![t] = [set |-> [a \in changed |-> set[a]], append |-> append]]
    /\ deskRaced' = (deskRaced \/ \E o \in DeskThreads \ {t} : deskJob[o] # Quiet)
    /\ UNCHANGED <<incident, events, active, minute, openLate>>

AppendedEvents(new) == IF Exists THEN events \o new ELSE events

WrittenRow(set) == [a \in DOMAIN incident |-> IF a \in DOMAIN set THEN set[a] ELSE incident[a]]

\* A row that is gone meanwhile is an error: nothing is written.
CommitRequest(t) ==
    /\ deskJob[t] # Quiet
    /\ deskJob' = [deskJob EXCEPT ![t] = Quiet]
    /\ incident' = IF Exists THEN WrittenRow(deskJob[t].set) ELSE incident
    /\ events' = AppendedEvents(deskJob[t].append)
    /\ openLate' = (openLate \/ UnresolvedLate(incident', minute))
    /\ UNCHANGED <<active, minute, deskRaced, touched>>

Tick ==
    /\ minute < MaxMinutes
    /\ minute' = minute + 1
    /\ openLate' = (openLate \/ UnresolvedLate(incident, minute'))
    /\ UNCHANGED <<incident, events, active, deskJob, deskRaced, touched>>

Touch(kinds) ==
    /\ touched' = touched \cup kinds
    /\ Cardinality(touched') <= MaxTouched

------------------------------------------------------------------------------
(* Status and SLA                                                             *)

\* The hypercare service's update writes status, severity and level as given.
UpdateIncident(t, attribute, to) ==
    /\ Request(t, [a \in {attribute} |-> to], << >>)
    /\ Touch({attribute} \ {"status"})

\* The events go with the incident.
DeleteIncident ==
    /\ Exists
    /\ incident' = Deleted
    /\ events' = << >>
    /\ UNCHANGED <<active, minute, deskJob, deskRaced, openLate, touched>>

Flag(attribute, late) == IF late THEN {attribute} ELSE {}

ResponseNow ==
    [a \in {"response"} \cup Flag("responseBreached", minute > incident.due.response) |->
        IF a = "response" THEN minute ELSE TRUE]

AddFirstResponse(t) ==
    /\ Exists /\ incident.response = Never
    /\ Request(t, ResponseNow, << >>)
    /\ UNCHANGED touched

\* Mutant: the deadline itself counts as late.
LateAtDeadline == minute >= incident.due.resolution

PastResolution == minute > incident.due.resolution

\* Refuses what is resolved, not what is closed.
ResolveIncident(t) ==
    /\ Exists /\ incident.status # "resolved"
    /\ Request(t, [a \in {"status"} \cup Flag("resolutionBreached", PastResolution) |->
                      IF a = "status" THEN "resolved" ELSE TRUE], << >>)
    /\ Touch(IF incident.status = "closed" THEN {"resolved again"} ELSE {})

\* The cutover service's transition judges no SLA; reopening keeps the flags.
TransitionIncident(t, new) ==
    /\ Exists /\ new \in INCIDENT_TRANSITIONS[incident.status]
    /\ Request(t, [status |-> new], << >>)
    /\ UNCHANGED touched

\* Lazy breach check over the open incidents.
GetSlaBreaches(t) ==
    /\ Exists /\ incident.status \in Open
    /\ LET late == Flag("responseBreached", incident.response = Never /\ minute > incident.due.response)
                      \cup Flag("resolutionBreached", PastResolution)
       IN  Request(t, [a \in late |-> TRUE], << >>)
    /\ UNCHANGED touched

------------------------------------------------------------------------------
(* Escalation                                                                 *)

SeedEscalationRules ==
    /\ active = {} /\ "rules" \notin touched
    /\ active' = Rules
    /\ UNCHANGED <<incident, events, minute, deskJob, deskRaced, openLate, touched>>

\* A rule is created or activated, deleted or deactivated.
ChangeRule(r) ==
    /\ active' = IF r \in active THEN active \ {r} ELSE active \cup {r}
    /\ Touch({"rules"})
    /\ UNCHANGED <<incident, events, minute, deskJob, deskRaced, openLate>>

Triggered(r) ==
    \/ r.trigger = "no_response" /\ incident.response = Never /\ minute - 1 >= r.after
    \/ r.trigger = "no_update" /\ minute - incident.activity >= r.after
    \/ r.trigger = "no_resolution" /\ minute - 1 >= r.after

\* Mutant: a level is skipped only if the engine itself has escalated to it.
AutoLevels == {events[n].level : n \in {m \in DOMAIN events : events[m].auto}}

EventLevels == {events[n].level : n \in DOMAIN events}

\* Two rules of one severity may name one level: the first triggers, the
\* second finds the level reached.
RulesToFire ==
    LET due == {r \in active : r.severity = incident.severity /\ Triggered(r) /\ r.level \notin EventLevels}
    IN  {r \in due : ~ \E s \in due : s.level = r.level /\ s.order < r.order}

\* The rules in their order: the one sequence.
InOrder(rules) ==
    {s \in [1 .. Cardinality(rules) -> rules] : \A m, n \in DOMAIN s : m < n => s[m].order < s[n].order}

Counted(n) == incident.count + n

EvaluateEscalations(t) ==
    /\ Exists /\ incident.status \in Open
    /\ RulesToFire # {}
    /\ \E fired \in InOrder(RulesToFire) :
           Request(t, [level |-> fired[Len(fired)].level, count |-> Counted(Len(fired))],
                   [n \in DOMAIN fired |-> [level |-> fired[n].level, auto |-> TRUE]])
    /\ UNCHANGED touched

EscalateIncidentManually(t, level) ==
    /\ Exists /\ incident.status \notin {"resolved", "closed"}
    /\ Request(t, [level |-> level, count |-> Counted(1), activity |-> minute],
               <<[level |-> level, auto |-> FALSE]>>)
    /\ UNCHANGED touched

DeskNext ==
    \/ Tick \/ DeleteIncident \/ SeedEscalationRules
    \/ \E r \in Rules : ChangeRule(r)
    \/ \E t \in DeskThreads :
        \/ CommitRequest(t)
        \/ \E s \in DOMAIN INCIDENT_TRANSITIONS : TransitionIncident(t, s)
        \/ \E u \in Updates : UpdateIncident(t, u[1], u[2])
        \/ \E l \in Levels : EscalateIncidentManually(t, l)
        \/ AddFirstResponse(t) \/ ResolveIncident(t) \/ GetSlaBreaches(t) \/ EvaluateEscalations(t)

DeskSpec == DeskInit /\ [][DeskNext]_deskVars

------------------------------------------------------------------------------
(* Properties                                                                 *)

Given(attribute) == {u[2] : u \in {v \in Updates : v[1] = attribute}}

DeskTypeOK ==
    /\ Exists => /\ incident.status \in DOMAIN INCIDENT_TRANSITIONS \cup Given("status")
                 /\ incident.severity \in Severities \cup Given("severity")
                 /\ incident.level \in Levels \cup {"none"} \cup Given("level")
                 /\ {incident.response, incident.activity} \subseteq 0 .. MaxMinutes
    /\ ~Exists => events = << >>
    /\ active \subseteq Rules

\* A late first response is flagged whatever overlaps it, and as long as
\* requests do not overlap only a late one is.
ResponseVerdict ==
    Exists /\ incident.response # Never =>
        LET late == incident.response > incident.due.response
        IN  (late => incident.responseBreached) /\ (~deskRaced /\ incident.responseBreached => late)

\* A resolution breach is recorded only for an incident that was still
\* unresolved after its deadline: reopening, races and late checks give no
\* false alarm (resolving what is closed does, and is set apart).
NoFalseBreach ==
    Exists /\ incident.resolutionBreached => openLate \/ "resolved again" \in touched

\* Both verdicts on the agreed times tell the truth about the clock.
SlaVerdicts == ResponseVerdict /\ NoFalseBreach

\* The counter of the incident never exceeds its escalation events, and equals
\* their number as long as requests do not overlap.
CountIsEvents ==
    Exists => /\ incident.count <= Len(events)
              /\ ~deskRaced => incident.count = Len(events)

\* BR-ES06: the engine does not escalate to a level the incident has reached,
\* as long as requests do not overlap.
OneEventPerLevel ==
    ~deskRaced => \A m, n \in DOMAIN events : m < n /\ events[n].auto => events[m].level # events[n].level

\* The ladder: the engine calls in a level for want of a response only after
\* the levels that wait less for it, however late it runs.
LadderInOrder ==
    ~deskRaced /\ touched \cap {"rules", "severity"} = {} =>
        \A n \in DOMAIN events : events[n].auto =>
            \E r \in Rules :
                /\ r.level = events[n].level /\ r.severity = incident.severity
                /\ \A s \in Rules : s.severity = r.severity /\ s.trigger = r.trigger
                                    /\ s.order < r.order /\ s.after <= r.after =>
                       \E m \in 1 .. n - 1 : events[m].level = s.level

\* The escalation record agrees with itself: the counter with the events, the
\* events with the levels, the levels with the order of the rules.
EscalationsAgree == CountIsEvents /\ OneEventPerLevel /\ LadderInOrder
==============================================================================
