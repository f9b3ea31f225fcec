# Verification of the SAP Transformation Platform

This directory holds TLA+ models of the platform's core logic, the TLC
configurations that check them, and proofs for TLAPS. Every definition is
translated from the code under `src/`; `PROJECT.json` names, for each one, the
lines it stands for.

## 1. Inventory

The platform is a Flask application over SQLAlchemy and PostgreSQL (about 108,000
lines of Python in `app/`). Gunicorn runs it with two worker processes of
four threads (`docker/Dockerfile`), so two requests on the same record run
at the same time in different threads or processes. Transactions use the
database's default isolation, READ COMMITTED. No row carries a version and hardly
anything locks one: a service function loads rows, checks them, assigns
attributes and commits. Between the load and the commit other requests commit.
That pattern, **check, then commit**, is where the hard behaviour is. An UPDATE
writes only the attributes whose value differs from the loaded one, so two
requests that overlap merge rather than replace each other. That pattern is in
nearly every module: an action that loads and checks, and one that commits.

| Component | State | Operations | Hard behaviour | What makes it correct |
|---|---|---|---|---|
| Runbook dependency graph (`cutover_service`, `models/cutover`) | `TaskDependency` rows between `RunbookTask` rows | add (with cycle walk), delete, deletion of a task or scope item | the walk is a query per task while others commit; insert in a later commit | the graph stays a DAG; refusals are justified; rows never outlive tasks; every request is answered |
| Runbook execution (`cutover_service`) | task status, actual start and end | generic transition, war room start and complete | two requests on one task or on a task and its predecessor | starts respect predecessors; times stay ordered; the runbook is never stuck |
| Critical path (`cutover_service`) | local: visited sets, queue, distances | one function | recursion, set order, cyclic input | verdict on cycles, topological order, longest path, termination |
| Plan life cycle (`cutover_service`) | plan status and times, rehearsals, checklist | transition, start clock, CRUD on the gates | two paths into execution; rollback and rerun; gates change after they were passed | executes only after a rehearsal; times tell the truth |
| Sign-off records (`signoff_service`) | append-only history per artifact | approve, override, revoke | two requests judged against the same latest record; ids and commits in different order | the log reads as one approval state; revocations are grounded |
| Hypercare (`hypercare_service`, `cutover_service`) | incidents, SLA flags, escalation rules and events, exit criteria | respond, resolve, escalate, evaluate, seed, sign off, close | two services change one incident by different rules; manual and automatic criteria; lazily found breaches | closed only after readiness; no breach or escalation that did not happen |
| Background AI tasks (`ai/task_runner`) | `AITask` rows, threads and a registry of one process | submit, cancel, run | cancel races completion and failure; a restart loses the thread | a final status is final; every task ends |
| Suggestion review queue (`ai/suggestion_queue`) | `AISuggestion` rows | approve, reject, modify, apply | two reviewers | one decision per suggestion; only approved ones are applied |
| AI gateway, cache, token budget (`ai/gateway`, `ai/cache`, `ai/budget`) | two cache tiers, budget counters and reset date | chat, look up, store, check, record, reset | lost updates, calls in flight at the limit and at the reset, row locks, sessions that need a rollback | no stale answer, recorded usage is real usage, no call hangs |
| Fit propagation and workshops (`fit_propagation`, `workshop_session`, `signoff`, `explore_service`) | fit decisions L4 to L2, readiness, confirmation, sessions | decide, complete, reopen, sign off, override, confirm, recalculate | derived fields that are not recomputed; sessions out of order | derived fields agree with what they derive from |
| Requirement and open item life cycles (`requirement_lifecycle`, `open_item_lifecycle`) | status, blocking links, conversions | transitions, batches, convert, unconvert | one of several failing; a blocker reopened; items edited behind the requirement's back | conversion and its record agree; what is unblocked is approvable |
| Backlog (`backlog_service`, `blueprints/backlog_bp`) | item, specifications, unit tests, sprint | move, create, update, approve | side effects between services; two requests create one specification each | gates hold along every way to deployment |
| Change management (`change_management_service`) | change, decisions, freeze windows, exceptions, implementations, reviews | the requests between draft and closed | windows that move between schedule and commit; rollback and review | a status is explained by the other rows |
| Test management (`testing_service`, `approval_bp`, `models/testing`) | approvals by stage, defects with history, case versions | submit, decide, transition, edit, snapshot, restore | records of earlier submissions; two snapshots at once | status agrees with records, defect with history, version with case |
| Cloud ALM integration (`integrations/alm_gateway`, `cloud_alm_service`) | token cache, circuit breaker, sync columns | push, pull, token fetch | lost answers, refused tokens, threads that share the breaker, restarts | the ALM is spared; what is shown as synchronised is there |
| Interfaces, data factory, transports, programs, RAID, RACI, governance, knowledge base, notifications | one row per artifact | CRUD and small transition tables | few | table-conform statuses |
| Traceability, reporting, dashboards | none | queries | none | |
| Identity, permissions, tenancy; scheduler | sessions, roles, a permission cache, job records | sign-in, checks, run, toggle | cache invalidation, overlapping runs | |
| Front end, migrations, scripts | none here | | | |

How they interact: blueprints call one service function per request; services
share state only through the database. `calculate_critical_path` relies on the
graph `add_dependency` keeps acyclic; `start_task` relies on the same graph to
be workable; `transition_plan` reads the rehearsals, the checklist and, through
`is_entity_approved`, the sign-off history; hypercare begins with the times the
plan recorded and ends with a sign-off it delegates to `approve_entity`; workshops
feed requirements, those become backlog items, and those carry specifications
and test cases; the AI assistants call the gateway inside the transaction of
their request.

The hazards, each at its line, are the `hazards` list of `PROJECT.json`.

## 2. Modules

| Module | Models |
|---|---|
| `DependencyDag` | abstract: a dependency table changes only by an edge that closes no cycle, or by deletions |
| `DependencyWalk` | `add_dependency` and `validate_no_cycle`, one database query a step, by several request threads |
| `Runbook` | the requests that execute a runbook, each split into its check and its commit |
| `CutoverPlan` | the plan's life cycle with rehearsals, checklist and exit sign-off |
| `CriticalPath` | `calculate_critical_path`, loop by loop |
| `Approval` | abstract: an artifact is unsigned, approved or revoked, and only what is approved is revoked |
| `SignoffHistory` | the append-only records that implement it, with ids, commits and rollbacks |
| `HypercareExit` | exit criteria, their evaluation, the exit sign-off and the closing of the plan |
| `Incidents` | one incident: status by two services, SLA clock, escalation rules and events |
| `FitPropagation` | fit decisions from a workshop's steps to L4, L3 and L2, with sessions, sign-off and edits |
| `Requirements` | requirements, the open items that block them, conversion and its withdrawal |
| `BacklogFlow` | one backlog item, its specifications, unit tests and sprint |
| `AISuggestions`, `AITasks`, `AIGateway` | the review queue; background workflows; calls with cache, budget, retries |
| `ChangeRequests` | one change request with its decisions, windows, exceptions, implementations, reviews |
| `TestApproval`, `Defects`, `CaseVersions` | one test case on its way to approval; one defect; the versions of one case |
| `TestCycles` | executions of test cases in cycles: populating, results from steps, pass rate and exit criteria |
| `Transports` | one transport request with the log of its imports |
| `AlmGateway` | calls to SAP Cloud ALM: token, circuit breaker, retries, and the rows a synchronisation writes |
| `MC...` | compositions, symmetry, and (`MCRunbook`) a check of the definition of acyclicity |
| `DependencyDagProofs`, `RunbookProofs` | theorems about `DependencyDag`, `Runbook` |
| `CutoverProofs` | theorems about `DependencyWalk`, `CutoverPlan`, `CriticalPath` |
| `FitProofs` | theorems about `FitPropagation` |
| `HypercareProofs` | theorems about `SignoffHistory`, `HypercareExit`, `Incidents` and their composition |
| `ExploreProofs` | theorems about `Requirements`, `BacklogFlow` and their composition |
| `AiProofs` | theorems about `AISuggestions`, `AITasks`, `AIGateway` |
| `ReleaseProofs` | theorems about `ChangeRequests`, `TestApproval`, `Defects`, `CaseVersions`, `TestCycles`, `Transports`, `AlmGateway` and their composition |

`DependencyWalk`, `Runbook` and `CriticalPath` extend `DependencyDag`: they share the
variable `deps` and the operators over it. The first two implement it, which their
`ImplementsDag` states; `SignoffHistory` implements `Approval`, and `HypercareExit` uses
`Approval` in the place of the records.

Modules that share no row but belong to one question are composed in an MC module
by a variable `part`: a behaviour belongs to the part chosen first and the others keep
still, so the state spaces add up instead of multiplying, and one run checks the
properties of all of them. Where one module is itself too large, it is taken in several
parts, each with a restriction of its inputs that the comment of the MC module names;
no definition of the module is changed.

Common conventions. A thread's job variable (`exitJob`, `deskJob`, `reqJob`, ...) holds what
a request has loaded and is about to write; its first action has the code's checks as
guards, its commit has the writes. History variables, marked in their declaration, are read
by properties only (and by the bounds on overlapping): `...Raced` or `overlapped` says that two
requests have been in flight together. A property with `~...Raced` holds for requests that do
not overlap, in every order; one without it holds in spite of overlapping, too.
A definition whose comment begins with `Mutant:` is a plausible mistake in the definition that
follows it; no action uses it, and a run with the mistake in place violates the property it is listed with.

### Cutover: DependencyDag, DependencyWalk, Runbook, CutoverPlan, CriticalPath

`deps` is the set of `<<predecessor, successor>>` rows of `task_dependencies`. `Acyclic`
is defined by minimal elements, the form proofs use; `MCRunbook` has TLC
check, for every relation over the instance's tasks, that it means that no task
reaches itself. `SafeToAdd(E, p, s)` says what an exhaustive backwards walk from `p`
that does not meet `s` has found: a set around `p`, closed under predecessors and
without `s`.

`Ask` is the beginning of `add_dependency` up to the initialisation of the walk, `Pop`
one turn of its `while` loop with its query, `CheckUnique` the end of the loop and
the duplicate check, `Commit` the insert, which the unique constraint and the
foreign keys may refuse. The stack is a set: the order of its elements does not matter
to any property, and an element pushed twice is skipped the second time.
`RemoveTasks` is `delete_task` and `delete_scope_item`, whose cascades remove the
dependency rows; ids are never used twice. Tenant and plan scoping is a constant:
the model is one plan.

In `Runbook`, `TransitionTask`, `StartTask`, `CompleteTask` and `AddDependency` are the first
halves of the requests and `write` is what SQLAlchemy will send. `CommitTask` and `CommitEdge` are the
commits. The start is stamped by `transition_task` only if unset and by
`start_task` always, ends by every ending; `Unset` in a `write` is an attribute left
alone. The guard treats every dependency as finish-to-start, as the code does, whatever
`dependency_type` says. `BlockedIsRefused` is about `_count_blocked_tasks`.
The cycle check is one step here; `DependencyWalk` takes it apart.

In `CutoverPlan`, `TransitionPlan` is `transition_plan` with its
guards and stamps, `StartClock` is `start_cutover_clock`. Each request is one
transaction in this module. Verdicts of items are the four the code knows,
though the code does not check what it is sent; an unknown one counts as resolved, as
`go` does.

`calculate_critical_path` works on rows it loaded, so nothing else runs in between. `calls` is the
Python call stack of `_dfs_cycle_check`; wherever the code iterates over a set or over
rows in no given order, the next element is any. `inDegree` holds the predecessors
that the code counts. The walk back ends in the task without `prev`. The initial states are all
graphs without self-loops (a check constraint refuses those) and all
assignments of durations: the table may hold a cycle, as `dependency_race` shows.

### Hypercare: Approval, SignoffHistory, HypercareExit, Incidents

`SignoffHistory` takes a request apart into the look at the latest committed record, the
insert that draws an id, and the commit or rollback: records can commit in another order than
that of their ids, and the state everybody reads is that of the highest id.
`HypercareExit` knows only the state (`approval`). `EvaluateExitCriteria`, `EvaluateRow` and `EvaluateCommit`
are `evaluate_exit_criteria` with one query of live data for each criterion, between which the
data change. `RequestExitSignoff` is BR-E01's check; `GeneralSignoff` is the general sign-off request, which
does not look at criteria. Live measurements are numbers around the thresholds, since only the
comparison matters.

`Incidents` is one row under two services: `UpdateIncident`, `AddFirstResponse`,
`ResolveIncident`, `GetSlaBreaches`, `EvaluateEscalations` and `EscalateIncidentManually` are the hypercare service's,
`TransitionIncident` the cutover service's, whose incidents have no deadlines. `minute` is the time since the
report. `RulesToFire` are the rules that the engine's loop finds due, `InOrder` the order in which it takes them: of two due
rules that name one level the second finds the level reached.

### Explore and realize: FitPropagation, Requirements, BacklogFlow

`tree` holds one L2 with its L3s and L4s, `step` the decision of each workshop about each L4. The
operators from a hierarchy to a hierarchy are the functions of `fit_propagation.py`; a request uses one of them
and is one transaction, except for the two decision endpoints and the confirmation, which are taken apart: the second endpoint commits the
decision, reads it again and propagates, and `ConfirmL2` looks at a readiness that other requests may have changed when it commits.
A process has no fit, one of `Decisions`, or `pending`, with which the hierarchy's endpoints create it and which `update_process_level`
writes like any other; the catalog's endpoints create it without one. In `fit_levels` one process is created pending
(`MCInit` says which starts are taken); any may be created or edited so later. `outdated` and `unread` name the L3s and the L2 that
edits, interim sessions and overrides leave behind, which are the documented exceptions.

In `Requirements`, `After` with `RefusedLate` keeps the order of `transition_requirement`: the status is
assigned before ADR-1 is checked, which matters in a batch, where the refusal is caught and the
batch committed. `CommitUpdate` gives converted requirements unused ids. `SetOwner` is what the
backlog service does to the same rows. `BacklogFlow` follows one item through its statuses with
everything that moves it: requests, the side effects of a specification's approval, and the unit test gate.
`BeginFlow` is the first half of each of its requests, with what was loaded and what will be written in `flowJob`; `CommitFlow`
writes it, `FailFlow` answers that a row is gone.

### AI: AISuggestions, AITasks, AIGateway

`stage` in `AITasks` is how far the request or its thread has come, `running` the registry
`_running_tasks` of all processes, `cancelling` the rows a cancellation has flushed and not committed
(it never commits: the request ends with a rollback). A commit succeeds, fails, or succeeds while its reply is lost.
`AIGateway` keeps one prompt, one budget row and one unit of usage per answer. `call[c].at` is where a
call is in `LLMGateway.chat`; `plan` is what its next flush writes, `held` and `booked` what the
transaction has flushed and so locked. `Flush` waits for locks, `Deadlock` is the database's choice of a
victim, `Aborted` a session that refuses everything until it is rolled back, and what each caller of a flush makes of that.

### Release: ChangeRequests, TestApproval, Defects, CaseVersions, TestCycles, Transports, AlmGateway

`ChangeRequests`: requests that assign the loaded row end in `Saved(saw, new)`, which writes what differs.
What a request reads after its first UPDATE it reads while it holds the row, so it belongs to the
commit: `CommitSchedule` looks at the windows, `CommitBackOut` and `CommitValidation` at open reviews.
`over` is the set of windows the planned dates lie over. Windows and windows' scopes are sets, dates are left out.

`TestApproval` keeps `records` by submission and stage; `DecideApproval`, `Flush` and `CommitApproval` are
`decide_approval`, with the rows a rejection skips and waits for. `CaseVersions` follows row locks closely: the
UPDATE that ends the current versions chooses its rows, waits for those another request holds, looks at
them again, and does not see new ones. The content of a case is its row and, apart, the suites, trace links and steps: only a change of the row
locks it (`WritesCase`), so edits and restorations of the rest run into each other as explicit snapshots do. `Defects` is `update_defect` with its
table, aliases and history. A defect is created with any reopen count (`BornCounts`), and a status of null passes the validation (`NoStatus`).

In `TestCycles`, `executions` are the rows of one plan and `pool` the cases to be executed; a cycle is populated from
the pool or from the failures of an earlier cycle, and the result of an execution is derived from its steps, with the
query and the commit apart. `Transports` keeps the log as the sequence it is: a request reads the JSON column, appends
and writes all of it. A transport is created wherever the body says (`origin`), in any status.

`AlmGateway` is one process and tenant. `BeginAlmCall` looks at the circuit, `AlmServes` is the handling in the ALM
with the answer arriving or lost, `Served`, `Denied` and `Failed` what the gateway's loop makes of
it, `CommitSync` the columns the service writes. `RestartAlmProcess` loses cache, breaker and calls in flight.
`alm` stands for the external system; its behaviour is taken from how the service reads answers.

## 3. Runs

| Run | Instance | Shows |
|---|---|---|
| `dependency_race` | 2 tasks, 2 threads | violated: two requests close a cycle |
| `runbook_serial` | execution: 3 tasks, 1 thread, 2 times, at most 1 deleted task; walk: 3 tasks, 1 thread that adds | never stuck; an end is never before its start; starts respect predecessors; blocked tasks are those refused; refusals of a dependency are justified by the table at the request's begin; both parts implement `DependencyDag` |
| `cutover` | walk: 2 tasks, 2 threads; path: all graphs on 3 tasks, 2 weights; plan: 2 rehearsals, 1 item, 2 times | no dependency outlives its tasks and every request is answered; cycles are told, the order is topological, the path longest, and the function ends; a plan executes only rehearsed, with consistent times |
| `hypercare` | 2 threads in each of 5 parts, 4 ids, 2 criteria, 3 rules, 3 minutes | the log implements `Approval`; a plan is closed only after readiness; criteria, SLA flags and escalations tell the truth |
| `explore` | conversion: 1 requirement, 2 items; blocking: 2 open items; flow: 1 backlog item; 2 threads each | a conversion and its record agree; a close reports what an approval no longer refuses; gates hold; final statuses stay |
| `fit_levels` | levels: 2 L3s, 2 L4s, 1 workshop, 2 edits; sessions: 2 workshops | suggestion, decision, override and readiness agree with what they derive from; an override stands; only a decided area is confirmed |
| `fit_interim` | the same, 1 thread | violated: the bulk endpoint propagates a decision of an interim session |
| `ai_services` | 1 suggestion, 1 task, 2 callers and processes; cache and budget apart | verdicts stand; spending is accounted for; everything begun ends |
| `release` | 11 parts, 2 threads each | a change's status is explained; approval agrees with records, defect with history, version with case, executions with their cycles, an import log with the imports; the ALM is spared and rows are truthful |
| `approval_resubmit` | 2 stages, 2 submissions | violated: a case rejected at stage 2 and submitted again is approved by stage 2 alone |
| `alm_pause` | threshold 3, window 4, pause 2, 1 thread | violated: the circuit opens again without a new failure |
| `retest_exit` | 2 cycles, 2 cases, 1 thread | violated: a failure that was retested and passed stays in the pass rate |

The runs named violated are disagreements between the code and its own documentation;
`findings` quotes both. `dependency_race` would be mended by locking the plan row
(`SELECT ... FOR UPDATE`), `fit_interim` by passing the session to the propagation, `approval_resubmit` by
counting the records of the last submission, `alm_pause` by dropping the counted failures when the circuit opens,
`retest_exit` by counting the last execution of each case.

### Bounds

Three tasks are enough for a cycle through a third task, for a walk that meets a task twice, and for
two chains of different length between the same two tasks, one of which the function meets
visited but not active. Two tasks and two threads are the smallest race. The clock of the cutover modules takes two
values: the end of a first execution before the start of a second, or a start before an end.

In most modules no further request begins after two have overlapped: every pair of requests is met in
every state that requests one after another reach, and the merge of their writes is seen, but not a third request on
its result. Where a property excludes raced behaviours nothing is lost; the others are about what is committed by the pair itself.
The other bounds: `MaxEdits` and `MaxByHand` (edits by hand in a behaviour, each of which excuses one
kind of disagreement), `MaxTouched` (kinds of general update to one incident), `MaxMinutes` (one minute beyond
each deadline and each rule's delay), `MaxEvents`, `MaxId` (two approvals and two revocations), `MaxTime` and `MaxClock` (an entry, window,
pause or period begins, ends and one more unit passes; for the breaker the window is longer than the pause, as in the code),
`MaxSpent` and `TokenLimit` (calls at, below and over the limit), `MaxAttempts` (a retry and its fallback are alike), `MaxHistory` (eight changes
lead through each cycle of the defect's table), `MaxSubmissions`, `MaxVersions` (a second version that two requests race for),
`MaxExceptions`, `MaxImplementations` (one that fails while another is completed), `MaxTokens` (a refused token and its successor), `MaxExecutions` (two cases in
two cycles), `MaxSteps` (a step that passes and one that fails), `MaxImports` (an import and its repetition, or two systems). In `MCRelease`
the part `review` has at most three implementations and reviews together, two where the review was waived, and the part `circuit` a second token
only while the clock is at its beginning. `MCRunbook` deletes at most one task. In
`AlmGateway`, `FailureThreshold` is 2 for 5 in the code and 60 s and 30 s are 2 and 1 units: only their order matters.
`Decisions` has the one verdict `gap` in `fit_levels`: with undecided processes it gives all three suggestions but `fit`, which is symmetric.

Ids are finite and not reused, clocks stop at their bound, and overlapping ends a behaviour, so most
cfgs do not check for deadlock; each says why.
Symmetry is used for ids and threads of one kind, and in no run with a liveness property.

### Fairness

`cutover` assumes weak fairness of one thread's steps in the walk: a thread
that serves a request is scheduled until it has answered. It is enough because a walk looks
at each task once however the table changes; nothing is assumed of the arrival of
requests or of other users. A running computation of the critical path keeps running, too.
`ai_services` assumes strong fairness of the steps of a task's thread and of a caller: a thread is
scheduled, a request ends by commit or rollback, and the queue of a row lock serves its waiters in turn, so a
flush that is possible again and again happens. Weak fairness would not do for a waiter, whom others may
overtake for ever. Cancellation requests end (weak fairness of `EndCancel`). Nothing is assumed of restarts,
cancellations, new calls, or the success of any commit. `TaskEnds` names what leaves a row running for ever: a restart, a missing
application, and a failure that could not be written.

### Seen without a run

Smaller disagreements and consequences met while modelling; the properties say where they exclude them.

* Cutover: under overlapping requests a task may start though a predecessor is no longer done, and two legal
  transitions commit one over the other. The war room's start ignores pending checklist items and overwrites the recorded start of a plan that
  was rolled back. A planned duration of zero counts as one in the critical path.
  The delay and the critical flag of a task stay as they were computed when its plan changes. Task codes come from a count, so two creations at
  once, or one after a deletion, give a code twice. Two upserts at once leave a RACI activity with two accountable entries, after which
  `scalar_one_or_none` raises.
* Hypercare: with no mandatory criterion the exit may be signed off. Two seedings at once double the items. `update_incident` takes any
  string for a status. Resolving a closed incident judges its SLA again. `pending_approval` of
  a post-go-live change request is set by no handler, so neither its approval nor its rejection can succeed.
* Requirements: a batch moves a requirement to `in_backlog` that it reports refused for want of a conversion.
  `code_generator.py:12` says "All codes are project-wide unique. Thread-safe via DB query + retry." There is no retry: a code
  is the count plus one, so two requests at once collide, and a deletion has its code given again.
* Backlog: `generate_specs_for_backlog_item` reads `item.functional_spec` again after it has made one and calls it "refreshed after
  flush" (`spec_template_service.py:267`). A flush does not refresh a relationship that was loaded as None, so a new functional
  specification comes without the technical one and the answer says `no_fs_parent`; `GenerateSpecs` does the same.
* AI: a cancellation by request is rolled back and so never takes effect. A budget of a program alone is
  recorded and never enforced. A second insert of one prompt fails and each retry pays again. A reset that
  races a booking keeps old usage. `cache_clear` never commits. Activating a version of the knowledge base that was superseded
  brings its chunks back, and only one of several active versions is deactivated.
* Change management: decisions, implementation starts and reviews are accepted in any status, so a closed change can be
  reopened and a draft be completed without approval; an approved change may be implemented without being scheduled, so freeze
  windows bind only the scheduling. An early completed review lets a change close while that of a later failure is
  pending. Two promotions of one scope change at once leave two canonical rows, after which `get_canonical` raises. With nobody present
  a quorum counts all who were invited.
* Test management: two approvals in flight at once miss each other and the case stays submitted. An empty stage list is
  accepted, after which a submission waits for nothing for ever. Two submissions at once double the records. Two explicit
  snapshots at once can leave two current versions. `derive_result_from_steps` is documented to return `not_run` otherwise and returns
  the present result. A cycle populated from an earlier one gets two executions for a case that failed twice. A pass rate of 94.96 % is
  rounded before it is compared with 95 %. `attempt_number` is commented "retest tracking (carry-forward increments)"
  (`models/testing.py:814`); no population of a cycle increments it. Nothing keeps to one execution for each cycle and case.
  A status of null is written without a check and no later change is legal, so the defect stays without one. Two edits of a case's suites or steps at once
  leave two current versions, too.
* Transports: two imports at once lose one event of the log, which its docstring calls a full audit trail. System and status of a transport
  are taken from the body when it is created, in spite of the empty log.
* Fit propagation: processes are created `pending`, and `calculate_system_suggested_fit` counts every fit that is set. So an L3 whose processes are all
  pending is suggested `partial_fit`, where `fit_propagation.py:15` says "any pending → partial_fit (if some decided) or pending (if none)" and line 111 "No
  children or no assessed children → None"; the sign-off, the readiness and the confirmation then take it for assessed. An L3 may lose its decision between the look and the commit of a confirmation.
* ALM: after a lost answer the retry reports an update, so the row is synchronised and has no `alm_id`. A malformed token
  answer raises in a gateway documented to never raise. A refused token evicts the one another thread has just fetched.
* Scheduler: the escalation job adds the number of keys of a dictionary, four, to its count for each program. The overdue scanner
  imports `RaidAction` and an `OpenItem` of `models.explore`, which do not exist, and goes on with a warning.

## 4. Proofs

All theorems are about arbitrary sets of tasks, threads, requests, items, rows and ids, and any bound of the models. They assume
the named assumptions of the modules, which TLC evaluates in every run: that the values which mark a missing row
(`Unused`, `NoFs`, `None`) are no ids, that bounds are natural numbers, that reopen counts are integers, that the statuses users set are statuses, and that no two escalation
rules of one severity have the same place in the order, which a unique constraint refuses. L3s, test cases and the threads that call
the ALM or a language model are finite sets, since the code counts or lists them. Thirty-seven of the forty properties of the passing runs are stated by a theorem.

The proofs share one argument. A property of the rows is not inductive, because a commit writes what its
request decided from rows it read earlier. The invariant adds what each request in flight still knows: a part that survives every
step of the others, and a part that holds only while requests do not overlap (guarded by `~...Raced`). Then there are two
obligations: a request begins with that knowledge (one lemma for the common first half, one for each handler), and
the rows stay right when it commits. A module's proof is laid out that way.

* `DependencyDagProofs`: adding an edge that `SafeToAdd` allows keeps the table acyclic
  (`AddKeepsAcyclic`): in a set of tasks that has a member in the closed set around `p`,
  a minimal member of that part is minimal in the whole. Hence `DagIsAcyclic`.
* `CutoverProofs`, the walk: `WalkType` and `RowsHaveTasks` hold under any concurrency.
  `SerialWalkCorrect` and `WalkImplementsDag` assume `OneAtATime`, that at most one
  thread adds dependencies, while deletions still come between its queries.
  `DepsAcyclic` is not inductive: that an insert is safe follows from
  what the walk has seen. `WalkInv` says it: whatever was visited has its present predecessors
  visited or on the stack, so an empty stack makes `visited` the closed set `SafeToAdd` asks for.
  Deletions keep it, since they take predecessors away. `WalkReached` adds that only
  what was reachable at the begin is visited, which justifies refusals.
  The plan: `CutoverPlanType`, `FirstExecution` (with the bound that no recorded
  time lies in the future) and `ExecutionRehearsed` (a rehearsal that is completed now was
  completed since the plan exists).
  The critical path: `CheckDecides` and `SortOrders`, for any graph. The check is a depth-first search with a stack; its invariant says that
  the stack is a chain of dependencies, that what has been left has only left tasks as neighbours, and that what was left contains
  no cycle, in the sense of `DependencyDag`: every set of such tasks has a minimal member. The sort keeps in `inDegree` the
  predecessors not yet listed; that it lists everything is the minimal member of what would remain.
* `RunbookProofs`: `RunbookType` and `BlockedAgrees` hold under any concurrency. The others assume
  `OneAtATime`, which `dependency_race` shows to be needed. Their invariant, `SerialInv`, adds to the
  properties that a write that was
  checked is still legal when it is committed (`WritesStillLegal`) and that a task in progress or
  ended has a recorded start (`StartsRecorded`).
* `HypercareProofs`, all three parts of the run `hypercare` and all six of its properties, together in `HypercareHolds`.
  Sign-off: `SignoffTypeCorrect`, `RevocationsGrounded` and `SignoffRefines` hold for overlapping requests.
  That the log implements `Approval` needs that ids are unique among committed and inserted records, and that a revocation
  in flight has an approval with a smaller id that is already committed and stays. `NoDoubleRevocation` is about requests that do not overlap.
  Exit: `ClosingWasEarned` and `ManualVerdictStands` hold in spite of overlapping requests, as do the parts of `CriteriaAreTruthful` that do not exclude it.
  The criteria can be edited between the check and the commit of a sign-off, so `ClosedWasReady` rests on the history of readiness (`ReadyInv`):
  whoever signs or closes has seen it, or signed by the way that does not look. `JobOK` says that what an evaluation found met has evidence.
  Incidents: `Writes` is what a request will write in spite of all others (a flag is only raised, a late response
  raises its flag, the counter is not ahead of the events), `WritesAlone` what it leaves when nothing overlaps it. `Decides` is what a handler
  establishes; that the engine's events keep the ladder is shown of the rules in their order (`Climbs`). Hence `VerdictsAreTrue`, `EscalationsHold`.
* `ExploreProofs`, both parts of the run `explore` and all five of its properties, together in `ExploreHolds`.
  `ConversionsAgree` and `ClosesUnblock` are about requests that do not overlap. `ReqInv` says that
  the row a request will leave and the items that will then be there agree (`Right`), that it converts only what has no item, and that
  a close still reports what it unblocks (`Knows`), although creations, links and edits by hand come in between.
  `GatesAlwaysHold` holds for all overlaps: `Gated` says that a status about to be written has passed its gate, or that the user set one by hand
  or deleted a test. An approval or a passed test is remembered, and an item that exists does not lose its last unit test otherwise (`GateReasons`).
  `EndsStand` and `BacklogRowsAgree` need that the request in flight alone writes what it found missing (`Missing`), which the deletion
  of the item or of its sprint cannot take from it.
* `FitProofs`, all four properties of the run `fit_levels`. `FitInv` says what rows a request may be about to write, whatever has come in
  between, and `FitSerial` what holds while nothing overlaps: a request commits what it worked out from the rows as they are (`WorkedOut`), an L3 which is
  not `outdated` has the fit that its processes suggest, its decision is explained, and the readiness is the share of decided L3s unless it is `unread`. The lemmas say what each level of the propagation leaves alone (`OverridesStand` follows from one of them) and that a
  readiness of 100 means that all L3s in scope are decided, which is integer arithmetic and needs them to be finitely many. `ConfirmationsWereDecided` is about the step in
  which a confirmation looks, and that no other step confirms; what is decided may be undecided again before the commit.
* `AiProofs`: `SuggestionsEndorsed` and `RegistryIsAlive` are invariants under any concurrency; `SuggestionsStand` and `TasksStand`
  say that verdicts are final, save where two reviews overlap or a commit is repeated after its reply was lost. An applied suggestion needs that
  one which can be applied was endorsed, whoever set its status; a final task needs that its thread has no writing step ahead.
  `SpendingIsAccounted`, for any number of answers, attempts, processes and periods: no usage is booked that was not spent, a budget is overrun by no more
  than the calls let in together, a call alone books what it got and pays once, no answer is served after its term. The booked counter says too little of calls in flight, so
  `GatewayInv` counts them: the counter and the answers that are not booked yet add up to no more than was spent (`Within`), and what a call will write,
  read before others committed, leaves room for their answers and for those let in (`BookingOK`). A call that nothing overlaps sees the rows as they are
  (`AloneOK`), which is why no flush of it is refused. The theorem keeps the model's bound that no call begins once two have overlapped: there may be any number
  of callers, but at most two of them are in flight. `SpendingCoheres` is the property of the run.
* `ReleaseProofs`: `HistoryExplains` counts reopenings, so it has lemmas about the cardinality of the positions in a sequence to which an
  entry is appended; `UpdateChecked` says that the reopenings a request loaded are in the history already, or were there from the first.
  `VersionsHold` follows the row lock: one request at a time is between the flush of the case and its
  commit, and what it will end is what is current then (`OneVersions`), as long as all that overlap write the row. `ImportsAudited` holds for overlapping requests
  as far as the log shows a selection of the imports: what a request writes extends a log that was one when it was loaded (`AddsOne`), and a selection stays one (`SelectedAppend`).
  For the rest it needs that the last success of a log exists (`HasLatest`), which is how the `CHOOSE` of `Reached` is tied to the row. `SyncIsTruthful` and `RefusedTokenUnused` hold under any concurrency and any loss of
  answers: what an answer confirms is in the ALM, which forgets nothing, and a token that was refused is older than any cached one (`CallInv`).
  `AlmIsSpared`: the failures that the breaker counts and the attempts that the calls it let through have left stay below the threshold and the attempts of
  all threads together (`BreakerInv`), since a call is let through only below the threshold and every failure uses up an attempt.
  `ApprovalsDecide`: while nothing overlaps and nobody edits the status by hand, only the last submission has open stages, and a request in flight has read
  the status and the records that are there (`ApprovalCurrent`). `StatusesExplained` and `StepsAreJustified`: `ChangeInv` keeps what a request has checked, the part that survives overlaps apart
  from the part that does not. `DoublesAreExplained`: a request that fills a cycle knows that what the cycle has of its cases came after it looked, and that
  a case it carries twice was there twice (`PopulationSound`); one that derives a result brings its date (`DerivationSound`).
  `ReleaseParts` shows that a behaviour of the run is one of each part, hence `RecordsAgree` and `ApprovalsCohere`.

Only model-checked, and why:

* liveness (`AllAnswered`, `EverythingEnds`), beyond the prover;
* `PathIsLongest` of `CriticalPath`, about sums over sequences, which needs induction over data.

Not proved because false: the properties of the violated runs.

## 5. Not modelled

The models cover the parts in which requests, threads, processes or several rows have to agree. The larger
part of the code by lines is record keeping (validation and serialisation of single rows), queries for dashboards and
reports, prompts and texts, seeds, migrations and the browser's code; a model of it would restate it line by line and could violate nothing.
So the lines named in `PROJECT.json` are a small share of the implementation, seven to eight per cent: of the 124,000 lines counted about
half are seeds, scripts, migrations, table declarations and serialisation, and most of the rest are endpoints over one row.

Left out of the modelled components: descriptive fields, codes, notes, tenancy and permission checks; `delete_plan`, which
ends the modelled plan; `delay_minutes` and the war room's estimates; the hypercare window's end; the
types and lags of dependencies, which no code reads when it decides; negative planned
durations, which nothing refuses; acknowledgements of escalations, war rooms of hypercare; workshop dependencies, attendees and
agenda; boards, meetings and standard templates of change management; quick runs and test runs, UAT sign-offs, performance results, scopes and
data sets of test plans, the status and the entry and exit validation of a cycle; waves and backlog links of transports; streaming, embeddings and
retrieval of the AI services; the process mining gateway, whose breaker is a copy of the one modelled.
Components with status `not_modelled` in `PROJECT.json` have their reason there.

## 6. Plan

1. Done: cutover, sign-off, hypercare, fit propagation, requirements, backlog flow, AI services, change requests, test approval,
   defects, versions, test cycles, transports, ALM gateway, each with runs for its concurrent cases; proofs of cutover (but that
   the path is the longest), hypercare, explore, fit propagation, the AI services, and the release.
2. Next, proofs: `SpendingIsAccounted` without the bound of two overlapping calls, which needs runs of three callers first.
3. Then, as models: the codes that come from a count, RACI and the versions of the knowledge base, the data factory; the split of
   `CutoverPlan` into check and commit; acknowledgements of escalations.
