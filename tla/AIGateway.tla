------------------------------ MODULE AIGateway ------------------------------
(* Calls of a language model through the gateway: a cache in the memory of    *)
(* each process and in a table, a budget row checked before the call and      *)
(* increased after it, retries and fallbacks.  The gateway only flushes; the  *)
(* request that called it commits, or does not.  A row that a transaction has *)
(* flushed is locked until it ends: other flushes of it wait.  A flush that   *)
(* fails ends the transaction, and the session refuses everything until it is *)
(* rolled back.  One prompt, one budget row, and one unit for each answer.    *)
EXTENDS Naturals, FiniteSets

CONSTANTS
    Callers,        \* threads serving requests that call the gateway
    Workers,        \* web processes
    Ttl,            \* how long an answer may be cached
    Period,         \* length of a budget period
    TokenLimit,     \* units per period
    MaxAttempts,    \* retries and fallbacks of a call
    MaxTime,        \* bound on the clock
    MaxSpent        \* bound: no call begins after so many answers in a period

ASSUME GatewayAssumption ==
    /\ IsFiniteSet(Callers)
    /\ {Ttl, Period, TokenLimit, MaxAttempts} \subseteq Nat \ {0}
    /\ {MaxTime, MaxSpent} \subseteq Nat

VARIABLES
    memory,         \* the cache of each process
    stored,         \* the committed AIResponseCache row
    budget,         \* the committed AITokenBudget row
    scope,          \* what the budget row names: a program, a user or both
    call,           \* what each caller is doing
    now,            \* the clock
    overlapped,     \* history: a call began while another one was running
    crossed,        \* history: the counters were reset while another call was running
    dropped,        \* history: an answer was not booked, or its booking not committed
    spent           \* history: answers within the scope since the counters were reset

gatewayHistory == <<overlapped, crossed, dropped, spent>>
gatewayVars == <<memory, stored, budget, scope, call, now, gatewayHistory>>

NoEntry == [at |-> 0, expires |-> 0]
Entry(t) == [at |-> t, expires |-> t + Ttl]
Gone(row) == row.entry = NoEntry

\* A plan is what the next flush writes; held and booked are what the
\* transaction has flushed to the cache row and to the budget row.
NoPlan == [kind |-> "none"]
Nothing == [used |-> {}, resetAt |-> {}]    \* new values, sets of at most one
NoCall == [at |-> "idle"]
NewCall(w, named, cached) == [
    at |-> IF cached THEN "lookup" ELSE "check", worker |-> w, named |-> named, cached |-> cached,
    plan |-> NoPlan, held |-> NoPlan, booked |-> Nothing, usable |-> TRUE,
    attempts |-> 0, answers |-> 0, age |-> 0]

InFlight(c) == call[c] # NoCall
Resets(c) ==
    /\ InFlight(c)
    /\ call[c].booked.resetAt # {} \/ (call[c].plan.kind = "book" /\ call[c].plan.resetAt # {})
Crossing == \E c, o \in Callers : c # o /\ Resets(c) /\ InFlight(o)
InScope(c) == scope # "program" \/ call[c].named

GatewayInit ==
    /\ memory = [w \in Workers |-> NoEntry]
    /\ stored = [id |-> 0, entry |-> NoEntry]
    /\ budget = [used |-> 0, resetAt |-> Period]
    /\ scope \in {"program", "user", "both"}
    /\ call = [c \in Callers |-> NoCall]
    /\ now = 0
    /\ overlapped = FALSE /\ crossed = FALSE /\ dropped = FALSE
    /\ spent = 0

Tick ==
    /\ now < MaxTime
    /\ now' = now + 1
    /\ UNCHANGED <<memory, stored, budget, scope, call, gatewayHistory>>

\* Bound: after two calls, or a call and a reset, have overlapped, no further
\* call begins.
BeginCall(c, w, named, cached) ==
    /\ ~InFlight(c)
    /\ spent < MaxSpent
    /\ ~overlapped /\ ~crossed
    /\ call' = [call EXCEPT ![c] = NewCall(w, named, cached)]
    /\ overlapped' = (overlapped \/ \E o \in Callers \ {c} : InFlight(o))
    /\ crossed' = (crossed \/ Crossing')
    /\ UNCHANGED <<memory, stored, budget, scope, now, dropped, spent>>

\* The call goes on to its next stage, with these changes.
Step(c, from, new) ==
    /\ call[c].at = from
    /\ call' = [call EXCEPT ![c] = new]

------------------------------------------------------------------------------
(* The cache                                                                  *)

\* The row as the transaction sees it.
SeenRow(c) == IF call[c].held.kind = "delete" THEN [stored EXCEPT !.entry = NoEntry] ELSE stored

RowPlan(kind, row, entry) == [kind |-> kind, id |-> row.id, entry |-> entry]

\* Mutant: an entry taken over from the table lives a full term again.
Renewed(entry) == [entry EXCEPT !.expires = now + Ttl]

Promoted(entry) == entry

\* get: the memory of the process, then the table; what has expired is removed.
Lookup(c) ==
    LET w == call[c].worker
        hot == memory[w]
        row == stored
    IN  /\ call[c].at = "lookup"
        /\ \/ /\ hot.expires > now
              /\ Step(c, "lookup", [call[c] EXCEPT !.at = "ending", !.age = now - hot.at])
              /\ UNCHANGED memory
           \/ /\ hot.expires <= now /\ ~Gone(row) /\ now <= row.entry.expires
              /\ Step(c, "lookup", [call[c] EXCEPT !.at = "flush", !.age = now - row.entry.at,
                                                   !.plan = RowPlan("touch", row, row.entry)])
              /\ memory' = [memory EXCEPT ![w] = Promoted(row.entry)]
           \/ /\ hot.expires <= now /\ ~Gone(row) /\ now > row.entry.expires
              /\ Step(c, "lookup", [call[c] EXCEPT !.at = "flush", !.plan = RowPlan("delete", row, NoEntry)])
              /\ memory' = [memory EXCEPT ![w] = NoEntry]
           \/ /\ hot.expires <= now /\ Gone(row)
              /\ Step(c, "lookup", [call[c] EXCEPT !.at = "check"])
              /\ memory' = [memory EXCEPT ![w] = NoEntry]
        /\ UNCHANGED <<stored, budget, scope, now, gatewayHistory>>

\* set: the memory at once, then the table, unless the session refuses.
Store(c) ==
    LET row == SeenRow(c)
    IN  /\ call[c].at = "store"
        /\ memory' = [memory EXCEPT ![call[c].worker] = Entry(now)]
        /\ Step(c, "store",
                IF call[c].usable
                THEN [call[c] EXCEPT !.at = "flush",
                                     !.plan = RowPlan(IF Gone(row) THEN "insert" ELSE "update", row, Entry(now))]
                ELSE [call[c] EXCEPT !.at = "record"])
        /\ UNCHANGED <<stored, budget, scope, now, gatewayHistory>>

------------------------------------------------------------------------------
(* The budget                                                                 *)

\* check filters by program and user together ...
Checked(c) == scope = "both" \/ (scope = "user" /\ ~call[c].named)

\* ... and the row as the transaction sees it.
Written(new, old) == CHOOSE x \in (IF new = {} THEN {old} ELSE new) : TRUE
SeenUsed(c) == Written(call[c].booked.used, budget.used)
ResetDue(c) == now >= Written(call[c].booked.resetAt, budget.resetAt)

_compute_reset_at == (now \div Period + 1) * Period

BookPlan(used, resetAt) == [kind |-> "book", used |-> used, resetAt |-> resetAt]

is_exceeded(used) == used >= TokenLimit

CheckBudget(c) ==
    /\ Step(c, "check",
            IF ~call[c].usable \/ (Checked(c) /\ ~ResetDue(c) /\ is_exceeded(budget.used))
            THEN [call[c] EXCEPT !.at = "ending"]
            ELSE IF Checked(c) /\ ResetDue(c)
            THEN [call[c] EXCEPT !.at = "flush",
                                 !.plan = BookPlan({0} \ {budget.used}, {_compute_reset_at})]
            ELSE [call[c] EXCEPT !.at = "provider"])
    /\ crossed' = (crossed \/ Crossing')
    /\ UNCHANGED <<memory, stored, budget, scope, now, overlapped, dropped, spent>>

\* A failed attempt is followed by another one, or by the end of the call.
NextAttempt(c) ==
    [call[c] EXCEPT !.attempts = @ + 1, !.at = IF call[c].attempts + 1 < MaxAttempts THEN "provider" ELSE "ending"]

\* record filters by program alone and by user alone.
RecordUsage(c) ==
    /\ Step(c, "record",
            IF ~call[c].usable THEN NextAttempt(c)
            ELSE IF ~InScope(c) THEN [call[c] EXCEPT !.at = "ending"]
            ELSE [call[c] EXCEPT !.at = "flush",
                      !.plan = IF ResetDue(c) THEN BookPlan({1}, {_compute_reset_at})
                                              ELSE BookPlan({SeenUsed(c) + 1}, {})])
    /\ crossed' = (crossed \/ Crossing')
    /\ UNCHANGED <<memory, stored, budget, scope, now, overlapped, dropped, spent>>

ResetBudget ==
    /\ \A c \in Callers : InFlight(c) => call[c].booked = Nothing
    /\ budget' = [used |-> 0, resetAt |-> _compute_reset_at]
    /\ spent' = 0
    /\ crossed' = (crossed \/ \E c \in Callers : InFlight(c))
    /\ UNCHANGED <<memory, stored, scope, call, now, overlapped, dropped>>

------------------------------------------------------------------------------
(* Provider, flushes, and the end of the request                              *)

Provider(c) ==
    /\ \/ /\ Step(c, "provider", [call[c] EXCEPT !.answers = @ + 1,
                                                 !.at = IF call[c].cached THEN "store" ELSE "record"])
          /\ spent' = IF InScope(c) THEN spent + 1 ELSE spent
       \/ /\ Step(c, "provider", NextAttempt(c))
          /\ UNCHANGED spent
    /\ UNCHANGED <<memory, stored, budget, scope, now, overlapped, crossed, dropped>>

Books(c) == call[c].plan.kind = "book"
Locks(o, c) == InFlight(o) /\ IF Books(c) THEN call[o].booked # Nothing ELSE call[o].held # NoPlan
WaitsFor(c, o) == c # o /\ InFlight(c) /\ call[c].at = "flush" /\ Locks(o, c)

\* Where a call goes after the flush of its plan.
AfterFlush(c) ==
    CASE call[c].plan.kind \in {"insert", "update"} -> "record"
      [] call[c].plan.kind = "delete" -> "check"
      [] Books(c) /\ call[c].answers = 0 -> "provider"
      [] OTHER -> "ending"

Flushed(c) ==
    LET p == call[c].plan
    IN  [call[c] EXCEPT !.at = AfterFlush(c), !.plan = NoPlan,
            !.held = IF Books(c) THEN @ ELSE p,
            !.booked = IF Books(c)
                       THEN [used |-> IF p.used = {} THEN @.used ELSE p.used,
                             resetAt |-> IF p.resetAt = {} THEN @.resetAt ELSE p.resetAt]
                       ELSE @]

\* The cache catches what its flushes raise and goes on with the session as it
\* is; the check raises, the record fails the attempt.
Aborted(c) ==
    LET gone == [call[c] EXCEPT !.usable = FALSE, !.plan = NoPlan, !.held = NoPlan, !.booked = Nothing]
    IN  CASE call[c].plan.kind \in {"insert", "update"} -> [gone EXCEPT !.at = "record"]
          [] call[c].plan.kind \in {"touch", "delete"} -> [gone EXCEPT !.at = "check"]
          [] Books(c) /\ call[c].answers = 0 -> [gone EXCEPT !.at = "ending"]
          [] OTHER -> [NextAttempt(c) EXCEPT !.usable = FALSE, !.plan = NoPlan,
                                             !.held = NoPlan, !.booked = Nothing]

\* The unique hash refuses a second row; a row that was replaced is not found.
Refused(c) ==
    LET p == call[c].plan
        row == SeenRow(c)
    IN  CASE p.kind = "insert" -> ~Gone(row)
          [] p.kind \in {"touch", "update"} -> Gone(row) \/ row.id # p.id
          [] OTHER -> FALSE

Flush(c) ==
    /\ call[c].at = "flush"
    /\ \A o \in Callers : ~WaitsFor(c, o)
    /\ Step(c, "flush", IF Refused(c) THEN Aborted(c) ELSE Flushed(c))
    /\ UNCHANGED <<memory, stored, budget, scope, now, gatewayHistory>>

\* The database breaks a cycle of waits by failing one of the flushes.
Deadlock(c) ==
    /\ \E o \in Callers : WaitsFor(c, o) /\ WaitsFor(o, c)
    /\ Step(c, "flush", Aborted(c))
    /\ UNCHANGED <<memory, stored, budget, scope, now, gatewayHistory>>

\* The caller commits; a session that needs a rollback has nothing to commit.
CommitCall(c) ==
    LET held == call[c].held
        booked == call[c].booked
    IN  /\ Step(c, "ending", NoCall)
        /\ stored' = CASE held.kind = "insert" -> [id |-> stored.id + 1, entry |-> held.entry]
                       [] held.kind = "update" -> [stored EXCEPT !.entry = held.entry]
                       [] held.kind = "delete" -> [stored EXCEPT !.entry = NoEntry]
                       [] OTHER -> stored
        /\ budget' = [used |-> Written(booked.used, budget.used),
                      resetAt |-> Written(booked.resetAt, budget.resetAt)]
        /\ spent' = IF booked.resetAt = {} THEN spent ELSE call[c].answers
        /\ dropped' = (dropped \/ (InScope(c) /\ call[c].answers > 0 /\ booked = Nothing))
        /\ UNCHANGED <<memory, scope, now, overlapped, crossed>>

\* These requests end without a commit.
Abandon(calls) ==
    /\ call' = [c \in Callers |-> IF c \in calls THEN NoCall ELSE call[c]]
    /\ dropped' = (dropped \/ \E c \in calls : InScope(c) /\ call[c].answers > 0)
    /\ UNCHANGED <<stored, budget, scope, now, overlapped, crossed, spent>>

RollbackCall(c) ==
    /\ call[c].at = "ending"
    /\ Abandon({c})
    /\ UNCHANGED memory

RestartWorker(w) ==
    /\ Abandon({c \in Callers : InFlight(c) /\ call[c].worker = w})
    /\ memory' = [memory EXCEPT ![w] = NoEntry]

\* The request that clears the cache never commits: only the memory goes.
ClearCache(w) ==
    /\ memory' = [memory EXCEPT ![w] = NoEntry]
    /\ UNCHANGED <<stored, budget, scope, call, now, gatewayHistory>>

\* What a call does by itself, and where it may have to wait.
Works(c) == Lookup(c) \/ CheckBudget(c) \/ Provider(c) \/ Store(c) \/ RecordUsage(c) \/ CommitCall(c) \/ RollbackCall(c)
Waits(c) == Flush(c) \/ Deadlock(c)

GatewayNext ==
    \/ Tick \/ ResetBudget
    \/ \E w \in Workers : RestartWorker(w) \/ ClearCache(w)
    \/ \E c \in Callers :
        \/ \E w \in Workers, named, cached \in BOOLEAN : BeginCall(c, w, named, cached)
        \/ Works(c) \/ Waits(c)

GatewaySpec == GatewayInit /\ [][GatewayNext]_gatewayVars

------------------------------------------------------------------------------
(* Properties                                                                 *)

GatewayTypeOK ==
    /\ \A w \in Workers : memory[w].at \in 0 .. MaxTime
    /\ stored.entry.expires \in 0 .. MaxTime + Ttl
    /\ budget.used \in Nat /\ budget.resetAt \in Nat
    /\ \A c \in Callers : InFlight(c) => call[c].attempts \in 0 .. MaxAttempts

\* No answer is served from the cache later than its term after it was given,
\* though it passes from the table to the memory and back.
ServedInTime == \A c \in Callers : InFlight(c) => call[c].age <= Ttl

\* A budget of a program and a user is overrun by at most the calls that were
\* let in together.
OverrunBounded == scope = "both" /\ ~crossed => budget.used < TokenLimit + Cardinality(Callers)

\* Lost updates lose usage, nothing invents any, unless the counters were reset
\* under a running call; alone, and committed, a call books what it got.
BookedWasSpent ==
    ~crossed =>
        /\ budget.used <= spent
        /\ ~overlapped /\ ~dropped /\ (\A c \in Callers : ~InFlight(c)) => budget.used = spent

\* A call pays for a second answer only when another call ran into it.
PaidOnce == ~overlapped => \A c \in Callers : InFlight(c) => call[c].answers <= 1

SpendingAccounted == ServedInTime /\ OverrunBounded /\ BookedWasSpent /\ PaidOnce

\* Every call ends, whoever waits for whom.
CallEnds == \A c \in Callers : InFlight(c) ~> ~InFlight(c)
==============================================================================
