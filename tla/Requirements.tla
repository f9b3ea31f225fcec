---------------------------- MODULE Requirements ----------------------------
(* Requirements, the open items that block their approval, and the backlog    *)
(* or config items they are converted to.  A request loads rows, checks,      *)
(* assigns and commits at the end; other requests run before the commit.  A   *)
(* batch collects the refusals of its members and commits what it assigned.   *)
EXTENDS Naturals, FiniteSets

CONSTANTS
    Reqs,           \* requirements
    OpenItems,      \* open items
    Items,          \* ids of backlog and config items, never used twice
    EditedDelivery, \* the delivery statuses users write by hand
    ReqThreads      \* threads serving requests

DeliveryStatuses == {"none", "not_mapped", "mapped", "ready_for_test", "validated"}

\* What an item points to instead: it is unused, deleted, or without requirement.
Unused == "unused"
Gone == "gone"
NoRequirement == "none"

ASSUME RequirementsAssumption ==
    /\ EditedDelivery \subseteq DeliveryStatuses
    /\ Reqs \cap {Unused, Gone, NoRequirement} = {}

VARIABLES
    req,            \* the ExploreRequirement rows
    openItem,       \* the status of each ExploreOpenItem
    link,           \* the link_type of each RequirementOpenItemLink
    owner,          \* the requirement each backlog or config item points to
    worked,         \* items with specifications, test cases or defects
    reqJob,         \* what each thread is about to commit
    reqRaced,       \* history: a request began while another one was running
    pushedAnyway,   \* history: requirements a batch moved and reported refused
    handled         \* history: requirements whose items or delivery were edited by hand

reqHistory == <<reqRaced, pushedAnyway, handled>>
reqVars == <<req, openItem, link, owner, worked, reqJob, reqHistory>>

REQUIREMENT_TRANSITIONS == [
    submit_for_review |-> [from |-> {"draft"}, to |-> "under_review"],
    approve           |-> [from |-> {"under_review"}, to |-> "approved"],
    reject            |-> [from |-> {"under_review"}, to |-> "rejected"],
    return_to_draft   |-> [from |-> {"under_review"}, to |-> "draft"],
    defer             |-> [from |-> {"draft", "approved"}, to |-> "deferred"],
    push_to_alm       |-> [from |-> {"approved"}, to |-> "in_backlog"],
    mark_realized     |-> [from |-> {"in_backlog"}, to |-> "realized"],
    verify            |-> [from |-> {"realized"}, to |-> "verified"],
    reactivate        |-> [from |-> {"deferred"}, to |-> "draft"],
    unconvert         |-> [from |-> {"approved", "in_backlog", "realized"}, to |-> "approved"]]

OI_TRANSITIONS == [
    start_progress |-> [from |-> {"open"}, to |-> "in_progress"],
    mark_blocked   |-> [from |-> {"open", "in_progress"}, to |-> "blocked"],
    unblock        |-> [from |-> {"blocked"}, to |-> "in_progress"],
    close          |-> [from |-> {"open", "in_progress"}, to |-> "closed"],
    cancel         |-> [from |-> {"open", "in_progress", "blocked"}, to |-> "cancelled"],
    reopen         |-> [from |-> {"closed", "cancelled"}, to |-> "open"]]

ReqActions == DOMAIN REQUIREMENT_TRANSITIONS
ReqStatuses == {REQUIREMENT_TRANSITIONS[a].to : a \in ReqActions}
ItemStatuses == {OI_TRANSITIONS[a].to : a \in DOMAIN OI_TRANSITIONS}
Unresolved == {"open", "in_progress", "blocked"}

Absent == "absent"
Free == [op |-> "free"]

ItemsOf(r) == {i \in Items : owner[i] = r}
IsConverted(r) == ItemsOf(r) # {}
BlockingLinks(r) == {o \in OpenItems : link[r, o] = "blocks"}
GetBlockingOpenItems(r) == {o \in BlockingLinks(r) : openItem[o] \in Unresolved}

RequirementsInit ==
    /\ req = [r \in Reqs |-> [status |-> Absent, delivery |-> "none"]]
    /\ openItem = [o \in OpenItems |-> Absent]
    /\ link = [p \in Reqs \X OpenItems |-> "none"]
    /\ owner = [i \in Items |-> Unused]
    /\ worked = {}
    /\ reqJob = [t \in ReqThreads |-> Free]
    /\ reqRaced = FALSE
    /\ pushedAnyway = {}
    /\ handled = {}

------------------------------------------------------------------------------
(* Requests: what each is about to commit                                     *)

\* Bound: after two requests have overlapped no further one begins.
BeginRequest(t, job) ==
    /\ reqJob[t] = Free
    /\ ~reqRaced
    /\ reqJob' = [reqJob EXCEPT ![t] = job]
    /\ reqRaced' = (reqRaced \/ \E o \in ReqThreads \ {t} : reqJob[o] # Free)
    /\ UNCHANGED <<req, openItem, link, owner, worked, handled>>

\* Only the attributes that differ from the loaded row are written.
Changed(r, new) == [a \in {b \in DOMAIN new : new[b] # req[r][b]} |-> new[a]]

\* A request over the requirements in the domain of new: the attributes it
\* writes, the requirements that get an item, and the items it deletes.
BeginUpdate(t, new, converts, deletes) ==
    BeginRequest(t, [op |-> "update", set |-> [r \in DOMAIN new |-> Changed(r, new[r])],
                     converts |-> converts, deletes |-> deletes])

Written(row, set) == [a \in DOMAIN row |-> IF a \in DOMAIN set THEN set[a] ELSE row[a]]

\* A deleted item takes its specifications along.
RemainingWork(deleted) == worked \ deleted

\* New items get unused ids.
CommitUpdate(t) ==
    /\ reqJob[t].op = "update"
    /\ LET job == reqJob[t]
       IN  /\ req' = [r \in Reqs |-> IF r \in DOMAIN job.set THEN Written(req[r], job.set[r]) ELSE req[r]]
           /\ \E new \in [job.converts -> {i \in Items : owner[i] = Unused}] :
               /\ \A r, s \in job.converts : new[r] = new[s] => r = s
               /\ owner' = [i \in Items |->
                      IF i \in job.deletes THEN Gone
                      ELSE IF \E r \in job.converts : new[r] = i
                           THEN CHOOSE r \in job.converts : new[r] = i
                           ELSE owner[i]]
           /\ worked' = RemainingWork(job.deletes)
    /\ reqJob' = [reqJob EXCEPT ![t] = Free]
    /\ UNCHANGED <<openItem, link, reqHistory>>

------------------------------------------------------------------------------
(* The life cycle of a requirement                                            *)

CreateRequirement(r) ==
    /\ req[r].status = Absent
    /\ req' = [req EXCEPT ![r].status = "draft"]
    /\ UNCHANGED <<openItem, link, owner, worked, reqJob, reqHistory>>

DeliveryAfter(r, action) ==
    CASE action = "approve" /\ req[r].delivery = "none" -> "not_mapped"
      [] action = "push_to_alm"   -> "mapped"
      [] action = "mark_realized" -> "ready_for_test"
      [] action = "verify"        -> "validated"
      [] OTHER                    -> req[r].delivery

MayTransition(r, action) ==
    /\ req[r].status \in REQUIREMENT_TRANSITIONS[action].from
    /\ action = "approve" => GetBlockingOpenItems(r) = {}

\* ADR-1, checked after the status is assigned.
RefusedLate(r, action) == action = "push_to_alm" /\ ~IsConverted(r)

After(r, action) ==
    [status |-> REQUIREMENT_TRANSITIONS[action].to,
     delivery |-> IF RefusedLate(r, action) THEN req[r].delivery ELSE DeliveryAfter(r, action)]

\* A refusal ends the request without a commit.
TransitionRequirement(t, r, action) ==
    /\ MayTransition(r, action)
    /\ ~RefusedLate(r, action)
    /\ BeginUpdate(t, [x \in {r} |-> After(x, action)], {}, {})
    /\ UNCHANGED pushedAnyway

\* The refusals are caught one by one and the batch is committed.
BatchTransition(t, rs, action) ==
    LET moved == {r \in rs : MayTransition(r, action)}
    IN  /\ moved # {}
        /\ BeginUpdate(t, [r \in moved |-> After(r, action)], {}, {})
        /\ pushedAnyway' = pushedAnyway \cup {r \in moved : RefusedLate(r, action)}

------------------------------------------------------------------------------
(* Conversion                                                                 *)

Convertible(r) == req[r].status \in {"approved", "realized"} /\ ~IsConverted(r)

\* One requirement or, in batch_convert, several.
ConvertRequirements(t, rs) ==
    LET new == {r \in rs : Convertible(r)}
    IN  /\ new # {}
        /\ BeginUpdate(t, [r \in new |-> [req[r] EXCEPT !.delivery = "mapped"]], new, {})
        /\ UNCHANGED pushedAnyway

\* Mutant: the delivery status stays.
DeliveryNotReset(r) == [req[r] EXCEPT !.status = "approved"]

Unconverted(r) == [status |-> "approved", delivery |-> "not_mapped"]

\* Safe mode refuses when there is work on the items.  No status is excluded.
UnconvertRequirement(t, r, force) ==
    /\ IsConverted(r)
    /\ ItemsOf(r) \cap worked = {} \/ force
    /\ BeginUpdate(t, [x \in {r} |-> Unconverted(x)], {}, ItemsOf(r))
    /\ UNCHANGED pushedAnyway

------------------------------------------------------------------------------
(* Open items                                                                 *)

CreateOpenItem(o) ==
    /\ openItem[o] = Absent
    /\ openItem' = [openItem EXCEPT ![o] = "open"]
    /\ UNCHANGED <<req, link, owner, worked, reqJob, reqHistory>>

\* One link for each pair, its type for good.
LinkOpenItem(r, o, type) ==
    /\ req[r].status # Absent /\ openItem[o] # Absent
    /\ link[r, o] = "none"
    /\ link' = [link EXCEPT ![<<r, o>>] = type]
    /\ reqRaced' = (reqRaced \/ \E t \in ReqThreads : reqJob[t] # Free)
    /\ UNCHANGED <<req, openItem, owner, worked, reqJob, pushedAnyway, handled>>

\* Mutant: an item that is itself blocked is taken for resolved.
UnresolvedButBlocked == {"open", "in_progress"}

StillBlocking == {"open", "in_progress", "blocked"}

\* The requirements the item blocks and nothing else does.
CheckUnblockedRequirements(o) ==
    {r \in Reqs : /\ o \in BlockingLinks(r)
                  /\ \A x \in BlockingLinks(r) \ {o} : openItem[x] \notin StillBlocking}

TransitionOpenItem(t, o, action) ==
    /\ openItem[o] \in OI_TRANSITIONS[action].from
    /\ BeginRequest(t, [op |-> "item", item |-> o, to |-> OI_TRANSITIONS[action].to,
                        unblocked |-> IF action = "close" THEN CheckUnblockedRequirements(o) ELSE {}])
    /\ UNCHANGED pushedAnyway

CommitOpenItem(t) ==
    /\ reqJob[t].op = "item"
    /\ openItem' = [openItem EXCEPT ![reqJob[t].item] = reqJob[t].to]
    /\ reqJob' = [reqJob EXCEPT ![t] = Free]
    /\ UNCHANGED <<req, link, owner, worked, reqHistory>>

------------------------------------------------------------------------------
(* What others do to the same rows.  Bound: each requirement is edited by     *)
(* hand once.                                                                 *)

UpdateRequirement(r, delivery) ==
    /\ req[r].status # Absent /\ r \notin handled
    /\ req' = [req EXCEPT ![r].delivery = delivery]
    /\ handled' = handled \cup {r}
    /\ UNCHANGED <<openItem, link, owner, worked, reqJob, reqRaced, pushedAnyway>>

\* The backlog service creates an item for a requirement, points it elsewhere
\* (to nothing, too) or deletes it, whatever the requirement's status.
SetOwner(i, to) ==
    /\ {owner[i], to} \cap handled = {}
    /\ owner' = [owner EXCEPT ![i] = to]
    /\ worked' = RemainingWork(IF to = Gone THEN {i} ELSE {})
    /\ handled' = handled \cup ({owner[i], to} \cap Reqs)
    /\ UNCHANGED <<req, openItem, link, reqJob, reqRaced, pushedAnyway>>

CreateItemFor(i, r) == owner[i] = Unused /\ req[r].status # Absent /\ SetOwner(i, r)
RepointItem(i, to) == owner[i] \in Reqs /\ to # owner[i] /\ SetOwner(i, to)
DeleteItem(i) == owner[i] \in Reqs /\ SetOwner(i, Gone)

\* Specifications and test cases come and go.
Work(i) ==
    /\ owner[i] \in Reqs
    /\ worked' = IF i \in worked THEN worked \ {i} ELSE worked \cup {i}
    /\ UNCHANGED <<req, openItem, link, owner, reqJob, reqHistory>>

RequirementsNext ==
    \/ \E r \in Reqs :
        \/ CreateRequirement(r)
        \/ \E d \in EditedDelivery : UpdateRequirement(r, d)
        \/ \E o \in OpenItems, type \in {"blocks", "related"} : LinkOpenItem(r, o, type)
    \/ \E o \in OpenItems : CreateOpenItem(o)
    \/ \E i \in Items :
        \/ Work(i) \/ DeleteItem(i)
        \/ \E r \in Reqs : CreateItemFor(i, r)
        \/ \E r \in Reqs \cup {NoRequirement} : RepointItem(i, r)
    \/ \E t \in ReqThreads :
        \/ CommitUpdate(t) \/ CommitOpenItem(t)
        \/ \E r \in Reqs, a \in ReqActions : TransitionRequirement(t, r, a)
        \/ \E rs \in SUBSET Reqs, a \in ReqActions : BatchTransition(t, rs, a)
        \/ \E rs \in SUBSET Reqs : ConvertRequirements(t, rs)
        \/ \E r \in Reqs, force \in BOOLEAN : UnconvertRequirement(t, r, force)
        \/ \E o \in OpenItems, a \in DOMAIN OI_TRANSITIONS : TransitionOpenItem(t, o, a)

RequirementsSpec == RequirementsInit /\ [][RequirementsNext]_reqVars

------------------------------------------------------------------------------
(* Properties                                                                 *)

RequirementsTypeOK ==
    /\ \A r \in Reqs : req[r].status \in ReqStatuses \cup {Absent} /\ req[r].delivery \in DeliveryStatuses
    /\ openItem \in [OpenItems -> ItemStatuses \cup {Absent}]
    /\ link \in [Reqs \X OpenItems -> {"none", "blocks", "related"}]
    /\ \A i \in Items : owner[i] \in Reqs \cup {Unused, Gone, NoRequirement}
    /\ worked \subseteq {i \in Items : owner[i] \in Reqs \cup {NoRequirement}}

Delivering == {"in_backlog", "realized", "verified"}

\* "Must be converted first": what has gone to the backlog has an item there.
\* Here: along every sequence of transitions, conversions and withdrawals of
\* them that do not overlap, batch refusals and edits by hand apart.
BacklogHasItem ==
    \A r \in Reqs \ (pushedAnyway \cup handled) :
        ~reqRaced /\ req[r].status \in Delivering => IsConverted(r)

\* A requirement is converted to one item, however often it is withdrawn,
\* deferred, reactivated and converted again.
ConvertedOnce ==
    \A r \in Reqs \ handled : ~reqRaced => \A i, j \in ItemsOf(r) : i = j

\* The delivery status, kept apart from the life cycle, agrees with it: mapped
\* or further exactly with an item.
DeliveryFollowsItems ==
    \A r \in Reqs \ (pushedAnyway \cup handled) :
        ~reqRaced => (IsConverted(r) <=> req[r].delivery \in {"mapped", "ready_for_test", "validated"})

\* The conversion of a requirement and its record agree, in both directions.
ConversionAgrees == BacklogHasItem /\ ConvertedOnce /\ DeliveryFollowsItems

\* What a close reports unblocked is what an approval would no longer refuse:
\* the two services look at the blocking items by different queries.
UnblockedIsApprovable ==
    [][\A t \in ReqThreads, r \in Reqs :
          ~reqRaced /\ CommitOpenItem(t) /\ openItem'[reqJob[t].item] = "closed"
          /\ reqJob[t].item \in BlockingLinks(r) =>
              (r \in reqJob[t].unblocked <=> GetBlockingOpenItems(r)' = {})]_reqVars
==============================================================================
