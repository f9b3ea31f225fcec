-------------------------------- MODULE MCAi --------------------------------
(* One run over the AI services that share no row: background tasks, the      *)
(* review queue and the gateway.  A behaviour is one of the part chosen       *)
(* first.  The gateway is taken in two: calls that use the cache under a      *)
(* budget that binds them all, and calls that bypass it under other budgets.  *)
EXTENDS AISuggestions, AITasks, AIGateway

VARIABLE part

aiVars == <<part, suggestionVars, taskVars, gatewayVars>>

MCInit ==
    /\ part \in {"review", "tasks", "caching", "budget"}
    /\ SuggestionsInit /\ TasksInit /\ GatewayInit
    /\ part # "tasks" => host = CHOOSE h \in [Tasks -> Hosts] : TRUE
    /\ scope = "both" <=> part # "budget"

Caching == GatewayNext /\ ~ResetBudget /\ \A c \in Callers : InFlight(c)' => call'[c].cached /\ call'[c].named
Budgeting == GatewayNext /\ \A c \in Callers : InFlight(c)' => ~call'[c].cached

MCNext ==
    /\ UNCHANGED part
    /\ \/ part = "review" /\ SuggestionsNext /\ UNCHANGED <<taskVars, gatewayVars>>
       \/ part = "tasks" /\ TasksNext /\ UNCHANGED <<suggestionVars, gatewayVars>>
       \/ part = "caching" /\ Caching /\ UNCHANGED <<suggestionVars, taskVars>>
       \/ part = "budget" /\ Budgeting /\ UNCHANGED <<suggestionVars, taskVars>>

\* A thread is scheduled and a request ends; what waits for a row is served in
\* turn, or fails.
MCFairness ==
    /\ \A k \in Tasks : SF_taskVars(ThreadStep(k)) /\ WF_taskVars(EndCancel(k))
    /\ \A c \in Callers : SF_gatewayVars(Works(c) \/ Waits(c))

MCSpec == MCInit /\ [][MCNext]_aiVars /\ MCFairness

\* The rows of all parts stay well formed.
AiTypeOK == SuggestionsTypeOK /\ TasksTypeOK /\ GatewayTypeOK

\* They are well formed, and what was spent is accounted for.
SpendingCoherent == AiTypeOK /\ SpendingAccounted

\* Decisions stand: those of reviewers and those of background tasks.
VerdictsStand == SuggestionVerdictStands /\ TaskVerdictStands /\ []AppliedWasEndorsed /\ []RegisteredIsAlive

\* What was begun comes to an end: background tasks and calls.
EverythingEnds == TaskEnds /\ CallEnds
==============================================================================
