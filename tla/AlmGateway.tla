------------------------------ MODULE AlmGateway ------------------------------
(* The calls of one web process to SAP Cloud ALM for one tenant: the token    *)
(* cache and the circuit breaker its threads share, the retries, and the      *)
(* requirement rows that a synchronisation writes.  A request, its handling   *)
(* in the ALM and its answer are steps of their own, and answers get lost.    *)
EXTENDS Naturals, Sequences, FiniteSets

CONSTANTS
    Synchronised,       \* requirements
    FailureThreshold,   \* failures within the window before the circuit opens
    FailureWindow,      \* failure counting window
    OpenDuration,       \* how long the circuit stays open
    MaxClock,           \* bound on the clock
    MaxTokens,          \* bound on the tokens issued
    AlmThreads          \* threads serving requests

ASSUME AlmAssumption ==
    /\ {FailureThreshold, FailureWindow, OpenDuration} \subseteq Nat \ {0}
    /\ {MaxClock, MaxTokens} \subseteq Nat
    /\ IsFiniteSet(AlmThreads)

VARIABLES
    wallClock,          \* the time
    failures,           \* the failures the breaker remembers, oldest first
    openUntil,          \* the end of the pause, or 0
    cachedToken,        \* the cached token that has not expired, or 0
    issued,             \* the number of tokens issued so far
    alm,                \* the requirements the ALM has
    synced,             \* the alm_* columns of each ExploreRequirement row
    almCall             \* what each thread is doing

breaker == <<failures, openUntil>>
almVars == <<wallClock, breaker, cachedToken, issued, alm, synced, almCall>>

_RETRY_MAX == 2
NoCall == [at |-> "idle"]
NoAnswer == [ok |-> FALSE, created |-> {}, updated |-> {}, errors |-> {}]

AlmInit ==
    /\ wallClock = 0
    /\ failures = << >> /\ openUntil = 0
    /\ cachedToken = 0 /\ issued = 0
    /\ alm = {}
    /\ synced = [r \in Synchronised |-> [id |-> "none", synced |-> FALSE, status |-> "none"]]
    /\ almCall = [t \in AlmThreads |-> NoCall]

CallAt(t, at) == almCall[t].at = at

\* The call of t moves on with some of its fields changed.
Onward(t, call) == almCall' = [almCall EXCEPT ![t] = call]

------------------------------------------------------------------------------
(* The circuit breaker                                                        *)

Paused == openUntil > wallClock

\* The places of the failures within the window.
Recent == {i \in DOMAIN failures : failures[i] + FailureWindow >= wallClock}
TooMany == Cardinality(Recent) >= FailureThreshold
_circuit_closed == ~Paused /\ ~TooMany

\* What a look at the circuit does to it.  Failures are remembered in the order
\* of their times, so those within the window are the last ones.
Inspect ==
    /\ failures' = IF Paused THEN failures
                   ELSE SubSeq(failures, Len(failures) - Cardinality(Recent) + 1, Len(failures))
    /\ openUntil' = IF ~Paused /\ TooMany THEN wallClock + OpenDuration ELSE openUntil

_record_failure == failures' = Append(failures, wallClock) /\ UNCHANGED openUntil
_record_success == failures' = << >> /\ openUntil' = 0

------------------------------------------------------------------------------
(* A call: loads, token, request, answer, commit                              *)

BeginAlmCall(t, op, batch) ==
    /\ CallAt(t, "idle")
    /\ Inspect
    /\ Onward(t, [at |-> IF _circuit_closed THEN "token" ELSE "commit", op |-> op,
                  batch |-> batch, saw |-> synced, attempt |-> 0, token |-> 0, refused |-> 0,
                  answer |-> NoAnswer])
    /\ UNCHANGED <<wallClock, cachedToken, issued, alm, synced>>

GetToken(t) ==
    /\ CallAt(t, "token")
    /\ Onward(t, [almCall[t] EXCEPT !.at = IF cachedToken = 0 THEN "fetch" ELSE "send",
                                    !.token = cachedToken])
    /\ UNCHANGED <<wallClock, breaker, cachedToken, issued, alm, synced>>

TokenArrives(t) ==
    /\ CallAt(t, "fetch")
    /\ issued < MaxTokens
    /\ issued' = issued + 1
    /\ cachedToken' = issued'
    /\ Onward(t, [almCall[t] EXCEPT !.at = "send", !.token = issued'])
    /\ UNCHANGED <<wallClock, breaker, alm, synced>>

\* An answer without access_token is an exception that no handler catches: the
\* request ends and nothing of it is committed.
TokenMalformed(t) ==
    /\ CallAt(t, "fetch")
    /\ Onward(t, NoCall)
    /\ UNCHANGED <<wallClock, breaker, cachedToken, issued, alm, synced>>

\* The call of t with its next attempt, if there is one.
NextTry(call) == [call EXCEPT !.at = IF call.attempt < _RETRY_MAX THEN "token" ELSE "commit",
                              !.attempt = @ + 1]

TokenFails(t) ==
    /\ CallAt(t, "fetch")
    /\ _record_failure
    /\ Onward(t, NextTry(almCall[t]))
    /\ UNCHANGED <<wallClock, cachedToken, issued, alm, synced>>

\* The ALM takes the requirements but for some, and tells which it knew.
Accepts(batch, errors) ==
    [ok |-> TRUE, created |-> (batch \ errors) \ alm, updated |-> (batch \ errors) \cap alm,
     errors |-> errors]

\* The ALM handles a request, and the answer arrives or is lost.
AlmServes(t) ==
    /\ CallAt(t, "send")
    /\ \E errors \in SUBSET almCall[t].batch, lost \in BOOLEAN :
           LET call == almCall[t]
               answer == IF call.op = "push" THEN Accepts(call.batch, errors)
                         ELSE [NoAnswer EXCEPT !.ok = TRUE, !.updated = alm]
           IN  /\ alm' = alm \cup answer.created
               /\ Onward(t, [call EXCEPT !.at = IF lost THEN "failed" ELSE "served",
                                         !.answer = IF lost THEN NoAnswer ELSE answer])
    /\ UNCHANGED <<wallClock, breaker, cachedToken, issued, synced>>

\* The request is refused, fails or never arrives, or the answer is empty.
AlmFails(t) ==
    /\ CallAt(t, "send")
    /\ \E at \in {"denied", "failed", "served"} :
           Onward(t, [almCall[t] EXCEPT !.at = at,
                                        !.answer = [NoAnswer EXCEPT !.ok = (at = "served")]])
    /\ UNCHANGED <<wallClock, breaker, cachedToken, issued, alm, synced>>

Served(t) ==
    /\ CallAt(t, "served")
    /\ _record_success
    /\ Onward(t, [almCall[t] EXCEPT !.at = "commit"])
    /\ UNCHANGED <<wallClock, cachedToken, issued, alm, synced>>

\* Mutant: a refused token stays in the cache.
TokenKept == cachedToken

invalidate_token == 0

\* The first refusal evicts the token, whichever is cached, and is no failure.
Denied(t) ==
    /\ CallAt(t, "denied")
    /\ almCall[t].refused = 0
    /\ cachedToken' = invalidate_token
    /\ Onward(t, NextTry([almCall[t] EXCEPT !.refused = almCall[t].token]))
    /\ UNCHANGED <<wallClock, breaker, issued, alm, synced>>

Failed(t) ==
    /\ CallAt(t, "failed") \/ (CallAt(t, "denied") /\ almCall[t].refused # 0)
    /\ _record_failure
    /\ Onward(t, NextTry(almCall[t]))
    /\ UNCHANGED <<wallClock, cachedToken, issued, alm, synced>>

\* Mutant: an answer stands for the whole batch.
WholeBatch(call) == IF call.answer.ok THEN call.batch \cup call.answer.updated ELSE {}

\* The requirements an answer confirms.
Confirmed(call) == call.answer.created \cup call.answer.updated

\* The columns after a call that loaded row.  A push leaves the id of what it
\* updated alone.
AfterCall(call, r, row) ==
    IF r \in Confirmed(call)
    THEN IF call.op = "push" /\ r \notin call.answer.created THEN [row EXCEPT !.status = "synced"]
         ELSE [id |-> "alm", synced |-> TRUE, status |-> "synced"]
    ELSE IF call.op = "push" /\ r \in (IF call.answer.ok THEN call.answer.errors ELSE call.batch)
         THEN [row EXCEPT !.status = "sync_error"]
    ELSE row

\* Only columns that differ from the loaded ones are written.  A pull loads the
\* rows just before.
CommitSync(t) ==
    /\ CallAt(t, "commit")
    /\ LET call == almCall[t]
           saw == IF call.op = "push" THEN call.saw ELSE synced
       IN  synced' = [r \in Synchronised |->
               LET new == AfterCall(call, r, saw[r]) IN
               [c \in DOMAIN new |-> IF new[c] # saw[r][c] THEN new[c] ELSE synced[r][c]]]
    /\ Onward(t, NoCall)
    /\ UNCHANGED <<wallClock, breaker, cachedToken, issued, alm>>

------------------------------------------------------------------------------
(* What happens beside the calls                                              *)

AlmTick ==
    /\ wallClock < MaxClock
    /\ wallClock' = wallClock + 1
    /\ UNCHANGED <<breaker, cachedToken, issued, alm, synced, almCall>>

\* The token expires, or the configuration is saved.
ForgetToken ==
    /\ cachedToken # 0
    /\ cachedToken' = 0
    /\ UNCHANGED <<wallClock, breaker, issued, alm, synced, almCall>>

RestartAlmProcess ==
    /\ failures' = << >> /\ openUntil' = 0 /\ cachedToken' = 0
    /\ almCall' = [t \in AlmThreads |-> NoCall]
    /\ UNCHANGED <<wallClock, issued, alm, synced>>

\* The explore workbench still has a synchronisation that calls nobody.
SimulatedSync(r) ==
    /\ synced' = [synced EXCEPT ![r] = [id |-> IF @.id = "none" THEN "simulated" ELSE @.id,
                                        synced |-> TRUE, status |-> "synced"]]
    /\ UNCHANGED <<wallClock, breaker, cachedToken, issued, alm, almCall>>

\* A requirement goes to the backlog, or its conversion is taken back.
TransitionSync(r) ==
    /\ \E status \in {"pending", "none"} : synced' = [synced EXCEPT ![r].status = status]
    /\ UNCHANGED <<wallClock, breaker, cachedToken, issued, alm, almCall>>

AlmNext ==
    \/ \E t \in AlmThreads :
        \/ \E batch \in SUBSET Synchronised \ {{}} : BeginAlmCall(t, "push", batch)
        \/ BeginAlmCall(t, "pull", {})
        \/ GetToken(t) \/ TokenArrives(t) \/ TokenMalformed(t) \/ TokenFails(t)
        \/ AlmServes(t) \/ AlmFails(t)
        \/ Served(t) \/ Denied(t) \/ Failed(t) \/ CommitSync(t)
    \/ \E r \in Synchronised : SimulatedSync(r) \/ TransitionSync(r)
    \/ AlmTick \/ ForgetToken \/ RestartAlmProcess

AlmSpec == AlmInit /\ [][AlmNext]_almVars

------------------------------------------------------------------------------
AlmTypeOK ==
    /\ failures \in Seq(0..wallClock) /\ openUntil \in 0..(MaxClock + OpenDuration)
    /\ wallClock \in 0..MaxClock /\ issued \in 0..MaxTokens /\ cachedToken \in 0..issued
    /\ alm \subseteq Synchronised
    /\ synced \in [Synchronised -> [id : {"none", "simulated", "alm"}, synced : BOOLEAN,
                                    status : {"none", "pending", "synced", "sync_error"}]]

\* The threads of the process together never count more failures in one window
\* than those below the threshold and the attempts of calls that were let
\* through with them, and a call never sends a token again that the ALM refused.
AlmSpared ==
    /\ Cardinality(Recent) < FailureThreshold + Cardinality(AlmThreads) * (_RETRY_MAX + 1)
    /\ \A t \in AlmThreads : CallAt(t, "send") /\ almCall[t].refused # 0
           => almCall[t].token # almCall[t].refused

\* A requirement that shows an id of the ALM or counts as synchronised is in the
\* ALM, whatever answers were lost and whichever calls overlapped, unless the
\* simulation gave it its id.
SyncTruthful ==
    \A r \in Synchronised :
        /\ synced[r].id = "alm" => r \in alm
        /\ synced[r].status = "synced" /\ synced[r].id # "simulated" => r \in alm
        /\ synced[r].synced => synced[r].id # "none"

\* "Circuit breaker: >=5 failures in 60 s -> 30 s pause per tenant": when a
\* pause is over the circuit opens again only upon a failure made since it began.
PauseEnds ==
    [][openUntil # 0 /\ openUntil' > openUntil =>
           \E i \in DOMAIN failures : failures[i] >= openUntil - OpenDuration]_almVars
================================================================================
