------------------------------ MODULE TestCycles ------------------------------
(* The cycles of one test plan.  The plan has a pool of test cases; a cycle   *)
(* is populated from the pool or takes over what failed in an earlier cycle,  *)
(* testers record results by hand or derive them from the results of the      *)
(* steps, and the exit criteria of the plan are evaluated over all cycles.  A *)
(* request that fills the pool, populates or derives reads rows and commits   *)
(* later; only the pool has a unique constraint.                              *)
EXTENDS Naturals, Sequences, FiniteSets, SequencesExt

CONSTANTS
    Cases,              \* test cases
    Cycles,             \* test cycles of the plan, in their order
    Recorded,           \* the results testers record
    StepOutcomes,       \* the results of steps they record
    MaxExecutions,      \* bound on the executions
    MaxSteps,           \* bound on the step results of an execution
    CycleThreads        \* threads serving requests

Results == {"not_run", "pass", "fail", "blocked", "deferred"}

ASSUME CycleAssumption ==
    /\ IsFiniteSet(Cases)
    /\ Cycles \subseteq Nat \ {0}
    /\ Recorded \subseteq Results
    /\ StepOutcomes \subseteq {"not_run", "pass", "fail", "blocked"}

VARIABLES
    pool,               \* the PlanTestCase rows
    executions,         \* the TestExecution rows by id
    cycleJob,           \* what each thread is about to commit
    doubled,            \* history: <<cycle, case>> that may be there twice
    undated             \* history: executions whose update derived the result

cycleVars == <<pool, executions, cycleJob, doubled, undated>>

NoCycleJob == [kind |-> "none"]
Deleted == [cycle |-> 0]

NoSteps == [o \in StepOutcomes |-> 0]
NewExecution(c, k, result) ==
    [cycle |-> c, case |-> k, result |-> result, dated |-> result # "not_run", steps |-> NoSteps]

Executions == {e \in DOMAIN executions : executions[e] # Deleted}
In(c) == {e \in Executions : executions[e].cycle = c}
CaseOf(e) == executions[e].case
CasesIn(c) == {CaseOf(e) : e \in In(c)}

CyclesInit ==
    /\ pool = {}
    /\ executions = << >>
    /\ cycleJob = [t \in CycleThreads |-> NoCycleJob]
    /\ doubled = {}
    /\ undated = {}

BeginJob(t, job) ==
    /\ cycleJob[t] = NoCycleJob
    /\ cycleJob' = [cycleJob EXCEPT ![t] = job]
    /\ UNCHANGED <<pool, executions, doubled, undated>>

EndJob(t) == cycleJob' = [cycleJob EXCEPT ![t] = NoCycleJob]

------------------------------------------------------------------------------
\* The pool.  Cases are added one by one, as a list or from a suite; those in
\* the pool are skipped, and when another request was faster all are refused.
AddToPool(t, S) == S \ pool # {} /\ BeginJob(t, [kind |-> "pool", cases |-> S \ pool])

CommitPool(t) ==
    /\ cycleJob[t].kind = "pool"
    /\ pool' = IF cycleJob[t].cases \cap pool = {} THEN pool \cup cycleJob[t].cases ELSE pool
    /\ EndJob(t)
    /\ UNCHANGED <<executions, doubled, undated>>

RemoveFromPool(k) ==
    /\ k \in pool
    /\ pool' = pool \ {k}
    /\ UNCHANGED <<executions, cycleJob, doubled, undated>>

------------------------------------------------------------------------------
\* Mutant: whatever the cycle has is entered again.
AlsoThose(c, k) == TRUE

NotYetIn(c, k) == k \notin CasesIn(c)

Populate(t, c, from, cases) ==
    BeginJob(t, [kind |-> "populate", cycle |-> c, from |-> from, cases |-> cases,
                 saw |-> Len(executions)])

\* POST /cycles/<c>/populate: an execution for each case of the pool.
PopulateFromPlan(t, c) == Populate(t, c, 0, SetToSeq({k \in pool : NotYetIn(c, k)}))

\* filter=failed, blocked, failed_blocked, or anything else for all.
StatusMap == {{"fail"}, {"blocked"}, {"fail", "blocked"}, Results}

\* POST /cycles/<c>/populate-from-cycle/<prev>: one for each execution there
\* that the filter lets through, in no particular order.
PopulateFromPrevious(t, c, prev, filter) ==
    LET carried == SetToSeq({e \in In(prev) :
                                executions[e].result \in filter /\ NotYetIn(c, CaseOf(e))})
    IN  Populate(t, c, prev, [i \in DOMAIN carried |-> CaseOf(carried[i])])

CommitPopulation(t) ==
    LET job == cycleJob[t]
        new == [i \in DOMAIN job.cases |-> NewExecution(job.cycle, job.cases[i], "not_run")]
        overlapped == {CaseOf(e) : e \in {e \in In(job.cycle) : e > job.saw}}
    IN  /\ job.kind = "populate"
        /\ Len(executions) + Len(new) <= MaxExecutions
        /\ executions' = executions \o new
        /\ doubled' = doubled \cup
               {<<job.cycle, k>> : k \in {k \in ToSet(job.cases) :
                                             k \in overlapped \/ <<job.from, k>> \in doubled}}
        /\ EndJob(t)
        /\ UNCHANGED <<pool, undated>>

\* POST /cycles/<c>/executions: a tester enters one, a retest for instance.
CreateExecution(c, k, result) ==
    /\ Len(executions) < MaxExecutions
    /\ executions' = Append(executions, NewExecution(c, k, result))
    /\ doubled' = IF k \in CasesIn(c) THEN doubled \cup {<<c, k>>} ELSE doubled
    /\ UNCHANGED <<pool, cycleJob, undated>>

DeleteExecution(e) ==
    /\ executions' = [executions EXCEPT ![e] = Deleted]
    /\ UNCHANGED <<pool, cycleJob, doubled, undated>>

------------------------------------------------------------------------------
UpdateRow(e, row) ==
    /\ executions' = [executions EXCEPT ![e] = row]
    /\ UNCHANGED <<pool, cycleJob, doubled, undated>>

\* The time of an execution is set with its first result.
Dated(x, result) == x.dated \/ result # "not_run"

\* PUT /executions/<e> with a result.
RecordResult(e, result) ==
    UpdateRow(e, [executions[e] EXCEPT !.result = result, !.dated = Dated(executions[e], result)])

StepCount(x) == FoldFunction(LAMBDA n, sum : n + sum, 0, x.steps)

CreateStepResult(e, o) ==
    /\ StepCount(executions[e]) < MaxSteps
    /\ UpdateRow(e, [executions[e] EXCEPT !.steps[o] = @ + 1])

DeleteStepResult(e, o) ==
    /\ executions[e].steps[o] > 0
    /\ UpdateRow(e, [executions[e] EXCEPT !.steps[o] = @ - 1])

UpdateStepResult(e, o, new) ==
    /\ executions[e].steps[o] > 0
    /\ new # o
    /\ UpdateRow(e, [executions[e] EXCEPT !.steps[o] = @ - 1, !.steps[new] = @ + 1])

\* What the steps say of the execution; steps that passed and steps that were
\* not run say nothing, and it stays as it is.
derive_result_from_steps(x) ==
    LET present == {o \in StepOutcomes : x.steps[o] > 0}
    IN  CASE present = {} -> x.result
          [] present = {"pass"} -> "pass"
          [] "fail" \in present -> "fail"
          [] "fail" \notin present /\ "blocked" \in present -> "blocked"
          [] present = {"not_run"} -> "not_run"
          [] OTHER -> x.result

\* POST /executions/<e>/derive-result, and PUT with derive_from_steps, which
\* leaves the date alone.
DeriveResult(t, e, byUpdate) ==
    LET x == executions[e]
        result == derive_result_from_steps(x)
    IN  BeginJob(t, [kind |-> "derive", id |-> e, byUpdate |-> byUpdate,
                     result |-> {result} \ {x.result},
                     dated |-> ~byUpdate /\ Dated(x, result)])

\* What does not change is not written, and a row that is gone is not either.
CommitDerived(t) ==
    LET job == cycleJob[t]
    IN  /\ job.kind = "derive"
        /\ IF job.id \in Executions
           THEN executions' = [executions EXCEPT
                    ![job.id].result = IF job.result = {} THEN @ ELSE CHOOSE r \in job.result : TRUE,
                    ![job.id].dated = @ \/ job.dated]
           ELSE UNCHANGED executions
        /\ undated' = IF job.byUpdate THEN undated \cup {job.id} ELSE undated
        /\ EndJob(t)
        /\ UNCHANGED <<pool, doubled>>

CyclesNext ==
    \/ \E t \in CycleThreads :
        \/ \E S \in SUBSET Cases : AddToPool(t, S)
        \/ \E c \in Cycles : PopulateFromPlan(t, c)
        \/ \E c, prev \in Cycles, filter \in StatusMap : PopulateFromPrevious(t, c, prev, filter)
        \/ \E e \in Executions, byUpdate \in BOOLEAN : DeriveResult(t, e, byUpdate)
        \/ CommitPool(t) \/ CommitPopulation(t) \/ CommitDerived(t)
    \/ \E k \in Cases : RemoveFromPool(k)
    \/ \E c \in Cycles, k \in Cases, result \in Recorded : CreateExecution(c, k, result)
    \/ \E e \in Executions :
        \/ DeleteExecution(e)
        \/ \E result \in Recorded : RecordResult(e, result)
        \/ \E o \in StepOutcomes :
            \/ CreateStepResult(e, o) \/ DeleteStepResult(e, o)
            \/ \E new \in StepOutcomes : UpdateStepResult(e, o, new)

CyclesSpec == CyclesInit /\ [][CyclesNext]_cycleVars

------------------------------------------------------------------------------
\* evaluate_exit_criteria, as far as executions go: no open S1 or S2 defect and
\* every data set ready.  Percentages are rounded to one decimal.
AtLeast95(part, whole) == whole > 0 /\ 2000 * part >= 1899 * whole

Count(results) == Cardinality({e \in Executions : executions[e].result \in results})

ExitPasses ==
    /\ AtLeast95(Count({"pass"}), Count({"pass", "fail"}))
    /\ AtLeast95(Count(Results \ {"not_run"}), Count(Results))

CyclesTypeOK ==
    /\ pool \subseteq Cases
    /\ \A e \in Executions :
        /\ executions[e] \in [cycle : Cycles, case : Cases, result : Results, dated : BOOLEAN,
                              steps : [StepOutcomes -> Nat]]
    /\ doubled \subseteq Cycles \X Cases

\* A case has two executions in a cycle only if a tester entered one more, if
\* two requests overlapped, or if it was carried over from a cycle where it had
\* two; and a result has no date only if an update derived it.
ExecutionsExplained ==
    /\ CyclesTypeOK
    /\ \A e, f \in Executions :
        e # f /\ executions[e].cycle = executions[f].cycle /\ CaseOf(e) = CaseOf(f)
            => <<executions[e].cycle, CaseOf(e)>> \in doubled
    /\ \A e \in Executions : executions[e].result # "not_run" /\ ~executions[e].dated => e \in undated

\* The later executions of the same case.
Retests(e) == {f \in Executions : CaseOf(f) = CaseOf(e) /\ f > e}

\* Retests count: once each case that failed or was blocked in a cycle has
\* passed in a later one, the plan fulfils its exit criteria (the scenario SIT
\* of docs/plans/ADR-008-Test-Architecture-Redesign.md).
RetestsCount ==
    /\ Executions # {}
    /\ \A e \in Executions : \A f \in Retests(e) : executions[e].cycle < executions[f].cycle
    /\ \A e \in Executions : Retests(e) = {} => executions[e].result = "pass"
    => ExitPasses
==============================================================================
