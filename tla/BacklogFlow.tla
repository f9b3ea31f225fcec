----------------------------- MODULE BacklogFlow -----------------------------
(* One backlog item on its way to deployment, with its functional and         *)
(* technical specifications, its unit tests and its sprint.  Specifications   *)
(* and tests are created by several requests, each after its own look whether *)
(* there is one; the status moves by requests and by the approval of a        *)
(* technical specification.  A request checks, and commits later.             *)

CONSTANTS
    FsIds,          \* ids of functional specifications
    TsIds,          \* ids of technical specifications
    Tests,          \* ids of unit test cases
    PutStatuses,    \* statuses users set without a move
    FlowThreads     \* threads serving requests

BACKLOG_TRANSITIONS == [
    new       |-> {"design", "cancelled"},
    design    |-> {"build", "blocked", "cancelled"},
    build     |-> {"test", "blocked", "cancelled"},
    test      |-> {"deploy", "design", "blocked"},
    deploy    |-> {"closed", "blocked"},
    blocked   |-> {"new", "design", "build", "test"},
    closed    |-> {},
    cancelled |-> {}]

BACKLOG_STATUSES == DOMAIN BACKLOG_TRANSITIONS
SpecStatuses == {"draft", "approved"}       \* of the statuses only approved matters

NoFs == "none"

ASSUME FlowAssumption ==
    /\ PutStatuses \subseteq BACKLOG_STATUSES
    /\ NoFs \notin FsIds \cup TsIds

VARIABLES
    item,           \* the BacklogItem row: its status, and whether it is in the sprint
    fs,             \* the FunctionalSpec rows of the item, by id
    ts,             \* the TechnicalSpec rows, by id
    unitTest,       \* the unit TestCase rows of the item, by id
    sprint,         \* whether there is a sprint, and how far its deletion is
    flowJob,        \* what each thread is about to commit
    flowRaced,      \* history: a request began while another one was running
    put,            \* history: the status was set without a move
    approvedOnce,   \* history: a technical specification has been approved
    testedOnce,     \* history: there were unit tests and all had passed
    untested        \* history: a unit test was deleted

flowHistory == <<flowRaced, put, approvedOnce, testedOnce, untested>>
flowVars == <<item, fs, ts, unitTest, sprint, flowJob, flowHistory>>

NoItem == [status |-> "none", sprint |-> FALSE]
ItemDeleted == [status |-> "deleted", sprint |-> FALSE]
NoTs == [fs |-> "none", status |-> "none"]
Serves == [op |-> "nothing"]

ItemExists == item.status \in BACKLOG_STATUSES
FsRows == {f \in FsIds : fs[f] # NoFs}
TsRows(f) == {k \in TsIds : ts[k] # NoTs /\ ts[k].fs = f}
ApprovedTs(k) == ts[k].status = "approved"
UnitTests == {u \in Tests : unitTest[u] # "none"}
AllPassed == \A u \in UnitTests : unitTest[u] = "passed"

\* The relationship loads one row; of several, any.
LoadedFs == IF FsRows = {} THEN {NoFs} ELSE FsRows
LoadedTs(f) == IF TsRows(f) = {} THEN {NoFs} ELSE TsRows(f)

FlowInit ==
    /\ item = NoItem
    /\ fs = [f \in FsIds |-> NoFs]
    /\ ts = [k \in TsIds |-> NoTs]
    /\ unitTest = [u \in Tests |-> "none"]
    /\ sprint = "planned"
    /\ flowJob = [t \in FlowThreads |-> Serves]
    /\ flowRaced = FALSE
    /\ put = FALSE
    /\ approvedOnce = FALSE
    /\ testedOnce = FALSE
    /\ untested = FALSE

Nothing == [op |-> "commit", item |-> << >>, fs |-> "", ts |-> NoTs, test |-> FALSE,
            fsStatus |-> << >>, tsStatus |-> << >>]

\* Bound: after two requests have overlapped no further one begins.
BeginFlow(t, job) ==
    /\ flowJob[t] = Serves
    /\ ~flowRaced
    /\ flowJob' = [flowJob EXCEPT ![t] = job]
    /\ flowRaced' = (sprint \in {"locked", "unlocked"} \/ \E o \in FlowThreads \ {t} : flowJob[o] # Serves)
    /\ UNCHANGED <<item, fs, ts, unitTest, sprint, approvedOnce, testedOnce, untested>>

CreateBacklogItem(status) ==
    /\ item = NoItem
    /\ item' = [status |-> status, sprint |-> FALSE]
    /\ put' = (status # "new")
    /\ UNCHANGED <<fs, ts, unitTest, sprint, flowJob, flowRaced, approvedOnce, testedOnce, untested>>

------------------------------------------------------------------------------
(* The item                                                                   *)

UpdateBacklogItem(t, status) ==
    /\ ItemExists
    /\ BeginFlow(t, [Nothing EXCEPT !.item = [status |-> status]])
    /\ put' = TRUE

\* Mutant: any technical specification will do for the build.
TsExists(f, k) == k # NoFs

TsReady(f, k) == f # NoFs /\ k # NoFs /\ ApprovedTs(k)

NeedsTest == UnitTests = {}

\* Mutant: each move to design writes a new specification.
WritesFs(f) == TRUE

NeedsFs(f) == f = NoFs

MoveBacklogItem(t, new) ==
    /\ ItemExists
    /\ new \in BACKLOG_TRANSITIONS[item.status]
    /\ \E f \in LoadedFs : \E k \in LoadedTs(f) :
        /\ new = "build" => TsReady(f, k)
        /\ new = "deploy" => AllPassed
        /\ BeginFlow(t, [Nothing EXCEPT
               !.item = [status |-> new],
               !.fs = IF new = "design" /\ NeedsFs(f) THEN "draft" ELSE "",
               !.test = (new = "test" /\ NeedsTest)])
    /\ UNCHANGED put

PlanItem(t) ==
    /\ ItemExists
    /\ sprint # "deleted"
    /\ BeginFlow(t, [Nothing EXCEPT !.item = [sprint |-> TRUE]])
    /\ UNCHANGED put

\* Its specifications go with it; its test cases stay, without an item.
DeleteBacklogItem ==
    /\ ItemExists
    /\ sprint # "locked"
    /\ item' = ItemDeleted
    /\ fs' = [f \in FsIds |-> NoFs]
    /\ ts' = [k \in TsIds |-> NoTs]
    /\ unitTest' = [u \in Tests |-> "none"]
    /\ UNCHANGED <<sprint, flowJob, flowHistory>>

------------------------------------------------------------------------------
(* The specifications                                                         *)

CreateFunctionalSpec(t, status) ==
    /\ ItemExists /\ FsRows = {}
    /\ BeginFlow(t, [Nothing EXCEPT !.fs = status])
    /\ UNCHANGED put

CreateTechnicalSpec(t, f, status) ==
    /\ f \in FsRows /\ TsRows(f) = {}
    /\ BeginFlow(t, [Nothing EXCEPT !.ts = [fs |-> f, status |-> status]])
    /\ UNCHANGED put

\* The draft that is missing.  A new functional specification is not seen by
\* the request that makes it, which loaded none, so the technical one has to
\* wait for the next request.
GenerateSpecs(t) ==
    /\ ItemExists
    /\ \E f \in LoadedFs :
        \/ f = NoFs /\ BeginFlow(t, [Nothing EXCEPT !.fs = "draft"])
        \/ /\ f # NoFs /\ NoFs \in LoadedTs(f)
           /\ BeginFlow(t, [Nothing EXCEPT !.ts = [fs |-> f, status |-> "draft"]])
    /\ UNCHANGED put

\* Approving a functional specification creates the technical one.
UpdateFunctionalSpec(t, f, status) ==
    /\ f \in FsRows /\ status # fs[f]
    /\ \E k \in LoadedTs(f) :
        BeginFlow(t, [Nothing EXCEPT
            !.fsStatus = [x \in {f} |-> status],
            !.ts = IF status = "approved" /\ k = NoFs THEN [fs |-> f, status |-> "draft"] ELSE NoTs])
    /\ UNCHANGED put

\* Mutant: an approval moves the item wherever it stands.
MovesOnApproval == ItemExists

OnSpecStatusChange == item.status = "design"

\* Approving a technical specification moves the item from design to build.
UpdateTechnicalSpec(t, k, status) ==
    /\ ts[k] # NoTs /\ status # ts[k].status
    /\ BeginFlow(t, [Nothing EXCEPT
           !.tsStatus = [x \in {k} |-> status],
           !.item = IF status = "approved" /\ OnSpecStatusChange THEN [status |-> "build"] ELSE << >>])
    /\ UNCHANGED put

\* An update of a row that is gone fails the request, and so does a new
\* specification whose parent is gone.
RowsThere(job) ==
    /\ DOMAIN job.item # {} \/ job.fs # "" \/ job.test => ItemExists
    /\ "sprint" \in DOMAIN job.item => sprint # "deleted"
    /\ DOMAIN job.fsStatus \subseteq FsRows
    /\ \A k \in DOMAIN job.tsStatus : ts[k] # NoTs
    /\ job.ts.fs \in FsRows \cup {NoFs}

Overwritten(row, set) == [a \in DOMAIN row |-> IF a \in DOMAIN set THEN set[a] ELSE row[a]]

\* The update waits for the row lock of a sprint deletion.
CommitFlow(t) ==
    LET job == flowJob[t]
    IN  /\ job # Serves
        /\ RowsThere(job)
        /\ DOMAIN job.item # {} => sprint # "locked"
        /\ item' = Overwritten(item, job.item)
        /\ \E f \in FsIds, k \in TsIds, u \in Tests :
            /\ job.fs # "" => fs[f] = NoFs
            /\ fs' = [g \in FsIds |-> IF job.fs # "" /\ g = f THEN job.fs ELSE Overwritten(fs, job.fsStatus)[g]]
            /\ job.ts # NoTs => ts[k] = NoTs
            /\ ts' = [x \in TsIds |->
                   IF x \in DOMAIN job.tsStatus THEN [ts[x] EXCEPT !.status = job.tsStatus[x]]
                   ELSE IF x = k /\ job.ts # NoTs THEN job.ts ELSE ts[x]]
            /\ job.test => unitTest[u] = "none"
            /\ unitTest' = IF job.test THEN [unitTest EXCEPT ![u] = "open"] ELSE unitTest
        /\ approvedOnce' = (approvedOnce \/ \E k \in TsIds : ts'[k].status = "approved")
        /\ flowJob' = [flowJob EXCEPT ![t] = Serves]
        /\ UNCHANGED <<sprint, flowRaced, put, testedOnce, untested>>

FailFlow(t) ==
    /\ flowJob[t] # Serves
    /\ ~RowsThere(flowJob[t])
    /\ flowJob' = [flowJob EXCEPT ![t] = Serves]
    /\ UNCHANGED <<item, fs, ts, unitTest, sprint, flowHistory>>

------------------------------------------------------------------------------
(* Tests and the sprint                                                       *)

\* The test service creates, runs and deletes unit tests of the item.
ChangeTest(u, to) ==
    /\ ItemExists
    /\ unitTest[u] # to /\ (unitTest[u] = "none" => to = "open")
    /\ unitTest' = [unitTest EXCEPT ![u] = to]
    /\ untested' = (untested \/ to = "none")
    /\ testedOnce' = (testedOnce \/ LET tested == {unitTest'[x] : x \in Tests} \ {"none"}
                                    IN  tested = {"passed"})
    /\ UNCHANGED <<item, fs, ts, sprint, flowJob, flowRaced, put, approvedOnce>>

Unassigned == item.sprint

\* One UPDATE takes the items out of the sprint; a row it changes is locked.
DeleteSprint ==
    /\ sprint = "planned"
    /\ sprint' = IF Unassigned THEN "locked" ELSE "unlocked"
    /\ flowRaced' = (flowRaced \/ \E t \in FlowThreads : flowJob[t] # Serves)
    /\ UNCHANGED <<item, fs, ts, unitTest, flowJob, put, approvedOnce, testedOnce, untested>>

\* Then the items still in the sprint are loaded and deleted with it; one that
\* comes in after that query only loses its sprint.
FinishDeleteSprint ==
    /\ sprint \in {"locked", "unlocked"}
    /\ sprint' = "deleted"
    /\ \E loaded \in BOOLEAN :
        LET lost == loaded /\ sprint = "unlocked" /\ item.sprint
        IN  /\ item' = IF lost THEN [ItemDeleted EXCEPT !.sprint = TRUE] ELSE [item EXCEPT !.sprint = FALSE]
            /\ fs' = [f \in FsIds |-> IF lost THEN NoFs ELSE fs[f]]
            /\ ts' = [k \in TsIds |-> IF lost THEN NoTs ELSE ts[k]]
            /\ unitTest' = [u \in Tests |-> IF lost THEN "none" ELSE unitTest[u]]
    /\ UNCHANGED <<flowJob, flowHistory>>

FlowNext ==
    \/ \E s \in PutStatuses \cup {"new"} : CreateBacklogItem(s)
    \/ DeleteBacklogItem \/ DeleteSprint \/ FinishDeleteSprint
    \/ \E u \in Tests, to \in {"none", "open", "passed"} : ChangeTest(u, to)
    \/ \E t \in FlowThreads :
        \/ CommitFlow(t) \/ FailFlow(t) \/ PlanItem(t) \/ GenerateSpecs(t)
        \/ \E s \in PutStatuses : UpdateBacklogItem(t, s)
        \/ \E s \in BACKLOG_STATUSES : MoveBacklogItem(t, s)
        \/ \E s \in SpecStatuses :
            \/ CreateFunctionalSpec(t, s)
            \/ \E f \in FsIds : CreateTechnicalSpec(t, f, s) \/ UpdateFunctionalSpec(t, f, s)
            \/ \E k \in TsIds : UpdateTechnicalSpec(t, k, s)

FlowSpec == FlowInit /\ [][FlowNext]_flowVars

------------------------------------------------------------------------------
(* Properties                                                                 *)

FlowTypeOK ==
    /\ item \in [status : BACKLOG_STATUSES, sprint : BOOLEAN] \cup {NoItem, ItemDeleted}
                 \cup {[ItemDeleted EXCEPT !.sprint = TRUE]}
    /\ fs \in [FsIds -> SpecStatuses \cup {NoFs}]
    /\ \A k \in TsIds : ts[k] # NoTs => ts[k].fs \in FsRows /\ ts[k].status \in SpecStatuses
    /\ unitTest \in [Tests -> {"none", "open", "passed"}]
    /\ sprint \in {"planned", "locked", "unlocked", "deleted"}

\* "Design to build requires TS approved": by a move, by an approval, out of
\* design or out of blocked, and whatever runs at the same time, no item is in
\* build of which no technical specification has ever been approved.
BuiltFromApproved == item.status = "build" /\ ~put => approvedOnce

\* "Test to deploy requires all linked unit tests passed": an item is not
\* deployed untested, since the move to test leaves no item without a test.
DeployedWasTested == item.status \in {"deploy", "closed"} /\ ~put /\ ~untested => testedOnce

\* Both gates hold wherever the item comes from.
GatesHold == BuiltFromApproved /\ DeployedWasTested

\* An item has one functional and that one technical specification, although
\* five requests create them, as long as they do not overlap.
OneSpecification ==
    ~flowRaced => /\ \A f, g \in FsRows : f = g
                  /\ \A f \in FsRows : \A k, l \in TsRows(f) : k = l

\* "Delete a sprint and unassign its items": the deletion of a sprint deletes
\* no item, as long as nobody plans one into it meanwhile.
SprintLeavesItems == ~flowRaced => ~ (item.status = "deleted" /\ item.sprint)

\* Nothing is written twice, and nothing is deleted that nobody asked to delete.
RowsAgree == OneSpecification /\ SprintLeavesItems

\* "closed, cancelled: terminal": late approvals and moves do not bring an
\* item back, as long as requests do not overlap.
TerminalStays ==
    [][~flowRaced' /\ ~put' /\ item.status \in {"closed", "cancelled"} =>
          item'.status \in {item.status, "deleted"}]_flowVars
==============================================================================
