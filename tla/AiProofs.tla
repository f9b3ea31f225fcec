------------------------------ MODULE AiProofs ------------------------------
(* Decisions about AI suggestions and outcomes of background tasks stand, and *)
(* what calls of a language model spend is accounted for, for any number of   *)
(* suggestions, reviewers, tasks, web processes and calls.                    *)
EXTENDS MCAi, FiniteSetTheorems, TLAPS

------------------------------------------------------------------------------
(* The review queue                                                           *)

\* What a review request that has passed its check knows of its suggestion: an
\* application was preceded by an endorsement, and while nobody else reviews
\* the suggestion its status is still the one that was checked.
ReviewGrounded(r) ==
    review[r] # NoReview =>
        /\ review[r].verdict = "applied" => review[r].of \in endorsed
        /\ review[r].of \notin contested => suggestion[review[r].of] \in ReviewedFrom(review[r].verdict)

\* Two requests under way about one suggestion have contested it.
OverlapsContested ==
    \A r, q \in Reviewers :
        r # q /\ review[r] # NoReview /\ review[q] # NoReview /\ review[r].of = review[q].of =>
            review[r].of \in contested

\* AppliedWasEndorsed is not inductive: a suggestion that can be applied must
\* have been endorsed, by whichever request set its status.
ReviewInv ==
    /\ SuggestionsTypeOK
    /\ AppliedWasEndorsed
    /\ \A s \in Suggestions : suggestion[s] \in {"approved", "modified"} => s \in endorsed
    /\ \A r \in Reviewers : ReviewGrounded(r)
    /\ OverlapsContested

Reviews == [verdict : Verdicts, of : Suggestions]

\* A request under way has a verdict about a suggestion.
LEMMA ReviewShape ==
    ASSUME NEW j \in {NoReview} \cup Reviews, j # NoReview
    PROVE  j \in Reviews /\ j.verdict \in Verdicts /\ j.of \in Suggestions
BY DEF Reviews

\* A request under way is what Reviewing looks for.
LEMMA ReviewingShape ==
    ASSUME SuggestionsTypeOK, NEW r \in Reviewers
    PROVE  review[r] # NoReview <=> review[r].verdict # "none"
<1>1. review[r] \in {NoReview} \cup Reviews
  BY DEF SuggestionsTypeOK, Reviews
<1>2. NoReview.verdict = "none"
  BY DEF NoReview
<1>3. ASSUME review[r] # NoReview PROVE review[r].verdict # "none"
  BY <1>1, <1>3, ReviewShape DEF Verdicts
<1> QED BY <1>2, <1>3

\* The invariant holds initially.
LEMMA ReviewInitInv == SuggestionsInit => ReviewInv
BY DEF SuggestionsInit, ReviewInv, SuggestionsTypeOK, AppliedWasEndorsed, ReviewGrounded,
       OverlapsContested, NoSuggestion, SUGGESTION_STATUSES

\* Every step of the queue preserves it.
LEMMA ReviewStepInv == ReviewInv /\ [SuggestionsNext]_suggestionVars => ReviewInv'
<1> SUFFICES ASSUME ReviewInv, [SuggestionsNext]_suggestionVars PROVE ReviewInv'
  OBVIOUS
<1> USE DEF ReviewInv
<1>t. /\ suggestion \in [Suggestions -> SUGGESTION_STATUSES \cup {NoSuggestion}]
      /\ proposal \in [Suggestions -> {"ai", "reviewer"}]
      /\ review \in [Reviewers -> {NoReview} \cup Reviews]
      /\ contested \subseteq Suggestions /\ endorsed \subseteq Suggestions
  BY DEF SuggestionsTypeOK, Reviews
<1>0. \A r \in Reviewers : review[r] # NoReview => review[r].verdict \in Verdicts /\ review[r].of \in Suggestions
  BY <1>t, ReviewShape
<1>1. ASSUME NEW s \in Suggestions, CreateSuggestion(s) PROVE ReviewInv'
  <2> USE <1>1 DEF CreateSuggestion
  <2>1. /\ suggestion'[s] = "pending" /\ suggestion[s] = NoSuggestion
        /\ \A x \in Suggestions \ {s} : suggestion'[x] = suggestion[x]
    BY <1>t
  <2>2. SuggestionsTypeOK'
    BY <1>t DEF SuggestionsTypeOK, Reviews, SUGGESTION_STATUSES
  <2>3. AppliedWasEndorsed' /\ (\A x \in Suggestions : suggestion[x] \in {"approved", "modified"} => x \in endorsed)'
    BY <2>1 DEF AppliedWasEndorsed
  <2>4. ASSUME NEW r \in Reviewers PROVE ReviewGrounded(r)'
    BY <2>1, <1>0 DEF ReviewGrounded, ReviewedFrom, NoSuggestion
  <2>5. OverlapsContested'
    BY DEF OverlapsContested
  <2> QED BY <2>2, <2>3, <2>4, <2>5
<1>2. ASSUME NEW r \in Reviewers, CommitReview(r) PROVE ReviewInv'
  <2> DEFINE s == review[r].of
             v == review[r].verdict
  <2>1. /\ review[r] # NoReview /\ s \in Suggestions /\ v \in Verdicts
        /\ suggestion' = [suggestion EXCEPT ![s] = v]
        /\ proposal' = [proposal EXCEPT ![s] = IF v = "modified" THEN "reviewer" ELSE @]
        /\ endorsed' = IF v \in {"approved", "modified"} THEN endorsed \cup {s} ELSE endorsed
        /\ review' = [review EXCEPT ![r] = NoReview]
        /\ contested' = contested
        /\ v = "applied" => s \in endorsed
        /\ s \notin contested => suggestion[s] \in ReviewedFrom(v)
        /\ \A q \in Reviewers \ {r} : review[q] # NoReview /\ review[q].of = s => s \in contested
    BY <1>2, <1>0 DEF CommitReview, ReviewGrounded, OverlapsContested
  <2> HIDE DEF s, v
  <2>2. /\ suggestion'[s] = v /\ \A x \in Suggestions \ {s} : suggestion'[x] = suggestion[x]
        /\ review'[r] = NoReview /\ \A q \in Reviewers \ {r} : review'[q] = review[q]
        /\ v = "modified" => proposal'[s] = "reviewer"
        /\ \A x \in Suggestions \ {s} : proposal'[x] = proposal[x]
        /\ endorsed \subseteq endorsed'
    BY <1>t, <2>1
  <2>3. SuggestionsTypeOK'
    <3>1. suggestion' \in [Suggestions -> SUGGESTION_STATUSES \cup {NoSuggestion}]
      BY <1>t, <2>1 DEF SUGGESTION_STATUSES
    <3>2. proposal' \in [Suggestions -> {"ai", "reviewer"}]
      BY <1>t, <2>1
    <3>3. review' \in [Reviewers -> {NoReview} \cup Reviews]
      BY <1>t, <2>1
    <3> QED BY <1>t, <2>1, <3>1, <3>2, <3>3 DEF SuggestionsTypeOK, Reviews
  <2>4. AppliedWasEndorsed'
    BY <2>1, <2>2 DEF AppliedWasEndorsed, Verdicts
  <2>5. (\A x \in Suggestions : suggestion[x] \in {"approved", "modified"} => x \in endorsed)'
    BY <2>1, <2>2
  <2>6. ASSUME NEW q \in Reviewers PROVE ReviewGrounded(q)'
    BY <2>1, <2>2, <1>0 DEF ReviewGrounded
  <2>7. OverlapsContested'
    BY <2>1, <2>2 DEF OverlapsContested
  <2> QED BY <2>3, <2>4, <2>5, <2>6, <2>7
<1>3. ASSUME NEW r \in Reviewers, NEW s \in Suggestions, NEW v \in Verdicts, Review(r, s, v) PROVE ReviewInv'
  <2> DEFINE new == [verdict |-> v, of |-> s]
  <2>1. /\ review[r] = NoReview
        /\ suggestion[s] \in ReviewedFrom(v)
        /\ review' = [review EXCEPT ![r] = new]
        /\ contested' = IF Reviewing(s) = {} THEN contested ELSE contested \cup {s}
        /\ UNCHANGED <<suggestion, proposal, endorsed>>
        /\ new \in Reviews /\ new.verdict = v /\ new.of = s /\ new # NoReview
    BY <1>3 DEF Review, Reviews, NoReview
  <2> HIDE DEF new
  <2>2. /\ review'[r] = new /\ \A q \in Reviewers \ {r} : review'[q] = review[q]
        /\ review' \in [Reviewers -> {NoReview} \cup Reviews]
        /\ contested \subseteq contested' /\ contested' \subseteq Suggestions
    BY <1>t, <2>1
  <2>3. \A q \in Reviewers : review[q] # NoReview /\ review[q].of = s => s \in contested'
    BY <2>1, ReviewingShape DEF Reviewing
  <2>4. SuggestionsTypeOK' /\ AppliedWasEndorsed'
    BY <1>t, <2>1, <2>2 DEF SuggestionsTypeOK, Reviews, AppliedWasEndorsed
  <2>5. (\A x \in Suggestions : suggestion[x] \in {"approved", "modified"} => x \in endorsed)'
    BY <2>1
  <2>6. ASSUME NEW q \in Reviewers PROVE ReviewGrounded(q)'
    <3>1. CASE q = r
      BY <2>1, <2>2, <3>1 DEF ReviewGrounded, ReviewedFrom
    <3>2. CASE q # r
      BY <2>1, <2>2, <3>2 DEF ReviewGrounded
    <3> QED BY <3>1, <3>2
  <2>7. OverlapsContested'
    BY <2>1, <2>2, <2>3 DEF OverlapsContested
  <2> QED BY <2>4, <2>5, <2>6, <2>7
<1>4. CASE UNCHANGED suggestionVars
  BY <1>4 DEF suggestionVars, SuggestionsTypeOK, AppliedWasEndorsed, ReviewGrounded, OverlapsContested
<1> QED BY <1>1, <1>2, <1>3, <1>4 DEF SuggestionsNext

\* No step changes the verdict on a suggestion that nobody contests, but for
\* applying what was approved.
LEMMA ReviewStepStands ==
    ASSUME ReviewInv, [SuggestionsNext]_suggestionVars,
           NEW s \in Suggestions \ contested'
    PROVE  /\ suggestion[s] \in {"rejected", "applied"} => suggestion'[s] = suggestion[s]
           /\ suggestion[s] \in {"approved", "modified"} => suggestion'[s] \in {suggestion[s], "applied"}
<1>t. /\ suggestion \in [Suggestions -> SUGGESTION_STATUSES \cup {NoSuggestion}]
      /\ review \in [Reviewers -> {NoReview} \cup Reviews]
  BY DEF ReviewInv, SuggestionsTypeOK, Reviews
<1>1. ASSUME NEW x \in Suggestions, CreateSuggestion(x)
      PROVE  suggestion[s] # NoSuggestion => suggestion'[s] = suggestion[s]
  BY <1>1, <1>t DEF CreateSuggestion
<1>2. ASSUME NEW r \in Reviewers, CommitReview(r)
      PROVE  \/ suggestion'[s] = suggestion[s]
             \/ suggestion[s] = "pending"
             \/ suggestion[s] \in {"approved", "modified"} /\ suggestion'[s] = "applied"
  <2>1. /\ review[r] # NoReview /\ contested' = contested
        /\ suggestion' = [suggestion EXCEPT ![review[r].of] = review[r].verdict]
    BY <1>2 DEF CommitReview
  <2>2. review[r].of = s => suggestion[s] \in ReviewedFrom(review[r].verdict)
    BY <2>1 DEF ReviewInv, ReviewGrounded
  <2> QED BY <2>1, <2>2, <1>t DEF ReviewedFrom
<1>3. ASSUME NEW r \in Reviewers, NEW x \in Suggestions, NEW v \in Verdicts, Review(r, x, v)
      PROVE  suggestion'[s] = suggestion[s]
  BY <1>3 DEF Review
<1>4. UNCHANGED suggestionVars => suggestion'[s] = suggestion[s]
  BY DEF suggestionVars
<1> QED BY <1>1, <1>2, <1>3, <1>4 DEF SuggestionsNext, NoSuggestion

\* Nothing is applied that nobody approved, however many reviewers interleave.
THEOREM SuggestionsEndorsed == SuggestionsSpec => []AppliedWasEndorsed
<1>1. ReviewInv => AppliedWasEndorsed
  BY DEF ReviewInv
<1> QED BY <1>1, ReviewInitInv, ReviewStepInv, PTL DEF SuggestionsSpec

\* A suggestion reviewed by one request at a time keeps its verdict.
THEOREM SuggestionsStand == SuggestionsSpec => SuggestionVerdictStands
<1> DEFINE Stand ==
      \A s \in Suggestions \ contested' :
          /\ suggestion[s] \in {"rejected", "applied"} => suggestion'[s] = suggestion[s]
          /\ suggestion[s] \in {"approved", "modified"} => suggestion'[s] \in {suggestion[s], "applied"}
<1>1. ReviewInv /\ [SuggestionsNext]_suggestionVars => Stand
  BY ReviewStepStands
<1> HIDE DEF Stand
<1>2. SuggestionsSpec => [][Stand]_suggestionVars
  BY <1>1, ReviewInitInv, ReviewStepInv, PTL DEF SuggestionsSpec
<1> QED BY <1>2 DEF Stand, SuggestionVerdictStands

------------------------------------------------------------------------------
(* Background tasks                                                           *)

\* Where the thread of a task stands when it has nothing left to write.
Done == {"leaving", "ended"}

\* TaskVerdictStands needs to know that a thread whose outcome is written, by a
\* commit that was not lost, has no writing step ahead of it; a task that is
\* still to be submitted has no outcome.
TaskInv ==
    /\ TasksTypeOK
    /\ RegisteredIsAlive
    /\ \A k \in Tasks : task[k] \in Outcomes /\ k \notin twice => stage[k] \in Done

\* The invariant holds initially.
LEMMA TaskInitInv == TasksInit => TaskInv
BY DEF TasksInit, TaskInv, TasksTypeOK, RegisteredIsAlive, Absent, Outcomes

\* Every step of a task, its cancellation or its process preserves it.
LEMMA TaskStepInv == TaskInv /\ [TasksNext]_taskVars => TaskInv'
<1> SUFFICES ASSUME TaskInv, [TasksNext]_taskVars PROVE TaskInv'
  OBVIOUS
<1> USE DEF TaskInv, TasksTypeOK
<1>1. ASSUME NEW k \in Tasks, Submit(k) PROVE TaskInv'
  BY <1>1 DEF Submit, At, RegisteredIsAlive, Absent, Alive, Outcomes
<1>2. ASSUME NEW k \in Tasks, Start(k) PROVE TaskInv'
  BY <1>2 DEF Start, At, RegisteredIsAlive, Alive, Done
<1>3. ASSUME NEW k \in Tasks, NoApplication(k) PROVE TaskInv'
  BY <1>3 DEF NoApplication, At, RegisteredIsAlive, Alive, Done
<1>4. ASSUME NEW k \in Tasks, EnterApplication(k) PROVE TaskInv'
  BY <1>4 DEF EnterApplication, At, RegisteredIsAlive, Alive, Done
<1>5. ASSUME NEW k \in Tasks, Execute(k) PROVE TaskInv'
  BY <1>5 DEF Execute, At, RegisteredIsAlive, Alive, Done
<1>6. ASSUME NEW k \in Tasks, Complete(k) PROVE TaskInv'
  BY <1>6 DEF Complete, WritesResult, At, RegisteredIsAlive, Alive, Done, Outcomes
<1>7. ASSUME NEW k \in Tasks, Fail(k) PROVE TaskInv'
  <2>1. TasksTypeOK'
    BY <1>7 DEF Fail, Alive, Outcomes
  <2>2. RegisteredIsAlive'
    BY <1>7 DEF Fail, RegisteredIsAlive, Alive
  <2>3. stage' = [stage EXCEPT ![k] = "leaving"] /\ UNCHANGED twice /\ \A j \in Tasks \ {k} : task'[j] = task[j]
    BY <1>7 DEF Fail
  <2>4. \A j \in Tasks : task'[j] \in Outcomes /\ j \notin twice' => stage'[j] \in Done
    BY <2>3 DEF Done
  <2> QED BY <2>1, <2>2, <2>4
<1>8. ASSUME NEW k \in Tasks, Leave(k) PROVE TaskInv'
  BY <1>8 DEF Leave, At, RegisteredIsAlive, Alive, Done
<1>9. ASSUME NEW k \in Tasks, EndCancel(k) PROVE TaskInv'
  BY <1>9 DEF EndCancel, RegisteredIsAlive
<1>10. ASSUME NEW k \in Tasks, NEW p \in Hosts, Cancel(k, p) PROVE TaskInv'
  BY <1>10 DEF Cancel, RegisteredIsAlive
<1>11. ASSUME NEW p \in Hosts, Restart(p) PROVE TaskInv'
  <2> DEFINE lost == {k \in Tasks : host[k] = p /\ stage[k] \in Alive}
  <2>1. /\ stage' = [k \in Tasks |-> IF k \in lost THEN "ended" ELSE stage[k]]
        /\ excuse' = [k \in Tasks |-> IF k \in lost THEN "restarted" ELSE excuse[k]]
        /\ running' = {k \in running : host[k] # p}
        /\ UNCHANGED <<task, host, cancelling, twice>>
    BY <1>11 DEF Restart
  <2>2. TasksTypeOK'
    BY <2>1
  <2>3. RegisteredIsAlive'
    BY <2>1 DEF RegisteredIsAlive
  <2>4. (\A k \in Tasks : task[k] \in Outcomes /\ k \notin twice => stage[k] \in Done)'
    BY <2>1 DEF Done
  <2> QED BY <2>2, <2>3, <2>4
<1>12. CASE UNCHANGED taskVars
  BY <1>12 DEF taskVars, RegisteredIsAlive
<1> QED BY <1>1, <1>2, <1>3, <1>4, <1>5, <1>6, <1>7, <1>8, <1>9, <1>10, <1>11, <1>12 DEF TasksNext, ThreadStep

\* No step overwrites an outcome that was written once.
LEMMA TaskStepStands ==
    ASSUME TaskInv, [TasksNext]_taskVars,
           NEW k \in Tasks, task[k] \in Outcomes, k \notin twice
    PROVE  task'[k] = task[k]
<1>1. stage[k] \in Done /\ task \in [Tasks -> {Absent, "running"} \cup Outcomes]
  BY DEF TaskInv, TasksTypeOK
<1>2. ASSUME NEW o \in Tasks, Submit(o) \/ Complete(o) \/ Fail(o)
      PROVE  o # k /\ (task' = task \/ \E v : task' = [task EXCEPT ![o] = v])
  BY <1>1, <1>2 DEF Submit, Complete, WritesResult, Fail, At, Done, Absent
<1>3. ASSUME NEW o \in Tasks,
             Start(o) \/ NoApplication(o) \/ EnterApplication(o) \/ Execute(o) \/ Leave(o) \/ EndCancel(o)
      PROVE  task' = task
  BY <1>3 DEF Start, NoApplication, EnterApplication, Execute, Leave, EndCancel
<1>4. ASSUME NEW p \in Hosts, Restart(p) \/ \E o \in Tasks : Cancel(o, p)
      PROVE  task' = task
  BY <1>4 DEF Restart, Cancel
<1>5. UNCHANGED taskVars => task' = task
  BY DEF taskVars
<1> QED BY <1>1, <1>2, <1>3, <1>4, <1>5 DEF TasksNext, ThreadStep

\* What is registered is being run, unless its thread found no application,
\* whatever cancellations and restarts do to the registry of each process.
THEOREM RegistryIsAlive == TasksSpec => []RegisteredIsAlive
<1>1. TaskInv => RegisteredIsAlive
  BY DEF TaskInv
<1> QED BY <1>1, TaskInitInv, TaskStepInv, PTL DEF TasksSpec

\* The outcome of a task stays, unless a commit was repeated for a lost reply.
THEOREM TasksStand == TasksSpec => TaskVerdictStands
<1> DEFINE Stand == \A k \in Tasks : task[k] \in Outcomes /\ k \notin twice => task'[k] = task[k]
<1>1. TaskInv /\ [TasksNext]_taskVars => Stand
  BY TaskStepStands
<1> HIDE DEF Stand
<1>2. TasksSpec => [][Stand]_taskVars
  BY <1>1, TaskInitInv, TaskStepInv, PTL DEF TasksSpec
<1> QED BY <1>2 DEF Stand, TaskVerdictStands

------------------------------------------------------------------------------
(* The budget of the calls                                                    *)

Entries == {e \in [at : 0 .. MaxTime, expires : 0 .. MaxTime + Ttl] : e.expires <= e.at + Ttl}
Optionally(S) == {{}} \cup {{v} : v \in S}
RowKinds == {"touch", "delete", "insert", "update"}
Plans ==
    {NoPlan} \cup [kind : RowKinds, id : Nat, entry : Entries]
             \cup [kind : {"book"}, used : Optionally(Nat), resetAt : Optionally(Nat)]
CallRows == [
    at : {"lookup", "check", "provider", "store", "record", "flush", "ending"},
    worker : Workers, named : BOOLEAN, cached : BOOLEAN, plan : Plans, held : Plans,
    booked : [used : Optionally(Nat), resetAt : Optionally(Nat)], usable : BOOLEAN,
    attempts : 0 .. MaxAttempts, answers : Nat, age : Int]

\* What a call has at each stage.  A session that cannot be used has flushed
\* nothing; one that can asks for one answer, and books it as its last step.
StageOK(x) ==
    /\ x.at # "ending" => x.attempts < MaxAttempts
    /\ x.at = "flush" <=> x.plan.kind # "none"
    /\ x.age <= Ttl
    /\ x.at \in {"lookup", "check"} \/ x.plan.kind \in {"touch", "delete"} =>
           x.answers = 0 /\ x.attempts = 0 /\ x.booked = Nothing
    /\ x.at = "lookup" \/ x.plan.kind \in {"touch", "delete"} => x.usable /\ x.held = NoPlan
    /\ x.at \in {"store", "record"} \/ x.plan.kind \in {"insert", "update"} => x.answers > 0
    /\ x.usable => x.answers <= 1 /\ (x.at = "provider" => x.answers = 0)
    /\ ~x.usable => x.plan = NoPlan /\ x.held = NoPlan /\ x.booked = Nothing
    /\ x.at # "ending" => x.booked.used \subseteq {0} /\ (x.booked.used # {} => x.booked.resetAt # {})
    /\ x.booked.used # {} /\ x.booked.resetAt = {} => x.answers = 1
    /\ x.plan.kind = "book" =>
           IF x.answers = 0 THEN x.booked = Nothing /\ x.plan.used \subseteq {0} /\ x.plan.resetAt # {}
           ELSE x.plan.used # {}

\* The usage it will write, and whether it writes the end of a period.
Pending(x) == x.booked.used \cup (IF x.plan.kind = "book" THEN x.plan.used ELSE {})
Renews(x) == x.booked.resetAt # {} \/ (x.plan.kind = "book" /\ x.plan.resetAt # {})

\* The calls with an answer that counts, and those that may still book one.
Answered == {c \in Callers : InFlight(c) /\ InScope(c) /\ call[c].answers > 0}
MayBook(x) ==
    /\ x.usable
    /\ x.at \in {"provider", "store", "record"} \/ x.plan.kind \in {"insert", "update", "book"}
LetIn == {c \in Callers : InFlight(c) /\ MayBook(call[c])}
Ceiling == TokenLimit + Cardinality(Callers)
Others(c) == {o \in Callers \ {c} : InFlight(o)}

\* What a call will write leaves room for the answers of the others.
BookingOK(c, x) ==
    /\ Renews(x) \/ Pending(x) # {} => InScope(c)
    /\ \A v \in Pending(x) :
           /\ v + Cardinality(Answered \ {c}) <= spent
           /\ scope = "both" => v + Cardinality(LetIn \ {c}) < Ceiling
           /\ ~overlapped \/ Others(c) # {} => v <= budget.used + 1
           /\ Renews(x) => v <= x.answers
    /\ Renews(x) /\ Pending(x) = {} => budget.used = 0
    /\ Renews(x) => Others(c) = {}
    /\ x.plan.kind = "book" => InScope(c)

\* A call that nothing overlaps finds the rows as it has seen them, and books
\* exactly what it got.
AloneOK(c, x) ==
    /\ x.usable
    /\ x.plan.kind = "insert" => Gone(SeenRow(c))
    /\ x.plan.kind \in {"touch", "update"} => ~Gone(SeenRow(c)) /\ SeenRow(c).id = x.plan.id
    /\ ~crossed /\ ~dropped =>
           /\ budget.used + (IF InScope(c) THEN x.answers ELSE 0) = spent
           /\ InScope(c) /\ x.answers > 0 =>
                  /\ x.at = "ending" =>
                         x.booked.used = {IF x.booked.resetAt # {} THEN 1 ELSE budget.used + 1}
                  /\ x.plan.kind = "book" => x.plan.used = {IF Renews(x) THEN 1 ELSE budget.used + 1}

GatewayRows ==
    /\ memory \in [Workers -> Entries] /\ stored \in [id : Nat, entry : Entries]
    /\ budget \in [used : Nat, resetAt : Nat] /\ scope \in {"program", "user", "both"}
    /\ now \in 0 .. MaxTime /\ spent \in Nat
    /\ overlapped \in BOOLEAN /\ crossed \in BOOLEAN /\ dropped \in BOOLEAN
    /\ DOMAIN call = Callers
    /\ \A c \in Callers : call[c] = NoCall \/ (call[c] \in CallRows /\ StageOK(call[c]))

\* No call begins once two have overlapped.
AtMostTwo ==
    /\ \A a, b, c \in Callers : InFlight(a) /\ InFlight(b) /\ InFlight(c) => a = b \/ b = c \/ a = c
    /\ ~overlapped => \A a, b \in Callers : InFlight(a) /\ InFlight(b) => a = b

Within ==
    /\ budget.used + Cardinality(Answered) <= spent
    /\ scope = "both" =>
           /\ budget.used < Ceiling
           /\ (\A c \in Callers : ~Resets(c)) => budget.used + Cardinality(LetIn) < Ceiling

GatewayInv ==
    /\ GatewayRows /\ AtMostTwo
    /\ ~crossed => Within /\ \A c \in Callers : InFlight(c) => BookingOK(c, call[c])
    /\ ~overlapped => \A c \in Callers : InFlight(c) => AloneOK(c, call[c])
    /\ ~overlapped /\ ~crossed /\ ~dropped /\ (\A c \in Callers : ~InFlight(c)) => budget.used = spent

\* Sets of calls are finite, and counted like numbers.
LEMMA CallsCounted ==
    ASSUME NEW S \in SUBSET Callers
    PROVE  /\ Cardinality(S) \in Nat /\ Cardinality(S) <= Cardinality(Callers)
           /\ \A T \in SUBSET S : Cardinality(T) <= Cardinality(S)
<1>1. IsFiniteSet(Callers) /\ IsFiniteSet(S)
  BY GatewayAssumption, FS_Subset
<1> QED BY <1>1, FS_Subset, FS_CardinalityType

\* One more call counts one more.
LEMMA CallCounted ==
    ASSUME NEW S \in SUBSET Callers, NEW T \in SUBSET Callers, NEW c, T \subseteq S \cup {c}
    PROVE  /\ Cardinality(T) <= Cardinality(S) + 1
           /\ T \subseteq S => Cardinality(T) <= Cardinality(S)
<1>1. IsFiniteSet(S) /\ IsFiniteSet(T)
  BY GatewayAssumption, FS_Subset
<1>2. /\ IsFiniteSet(S \cup {c})
      /\ Cardinality(S \cup {c}) = Cardinality(S) \/ Cardinality(S \cup {c}) = Cardinality(S) + 1
  BY <1>1, FS_AddElement
<1>3. Cardinality(T) <= Cardinality(S \cup {c})
  BY <1>2, FS_Subset
<1>4. Cardinality(T) \in Nat /\ Cardinality(S) \in Nat
  BY <1>1, FS_CardinalityType
<1> QED BY <1>1, <1>2, <1>3, <1>4, FS_Subset

\* A call that is left out counts one less.
LEMMA CallLeftOut ==
    ASSUME NEW S \in SUBSET Callers, NEW c \in S
    PROVE  Cardinality(S) = Cardinality(S \ {c}) + 1
<1>1. IsFiniteSet(S)
  BY GatewayAssumption, FS_Subset
<1>2. Cardinality(S \ {c}) = Cardinality(S) - 1 /\ Cardinality(S) \in Nat
  BY <1>1, FS_RemoveElement, FS_CardinalityType
<1> QED BY <1>2

\* A call is on its way, with the attributes of its stage, or there is none.
LEMMA CallIs ==
    ASSUME GatewayRows, NEW c \in Callers
    PROVE  /\ InFlight(c) => call[c] \in CallRows /\ StageOK(call[c])
           /\ InFlight(c) <=> call[c].at # "idle"
           /\ call[c].at # "idle" => call[c] \in CallRows /\ StageOK(call[c])
<1>1. NoCall.at = "idle"
  BY DEF NoCall
<1>2. \A x \in CallRows : x.at # "idle"
  BY DEF CallRows
<1> QED BY <1>1, <1>2 DEF GatewayRows, InFlight

\* What a step of one call leaves of the others.
LEMMA OthersStay ==
    ASSUME GatewayRows, NEW c \in Callers, InFlight(c), NEW y \in CallRows, y.named = call[c].named,
           call' = [call EXCEPT ![c] = y], scope' = scope
    PROVE  /\ InFlight(c)' /\ call'[c] = y
           /\ \A o \in Callers : InFlight(o)' = InFlight(o) /\ InScope(o)' = InScope(o)
           /\ \A o \in Callers \ {c} : call'[o] = call[o]
           /\ Answered' \ {c} = Answered \ {c} /\ LetIn' \ {c} = LetIn \ {c}
           /\ \A o \in Callers : Others(o)' = Others(o)
<1>1. DOMAIN call = Callers
  BY DEF GatewayRows
<1>2. call'[c] = y /\ \A o \in Callers \ {c} : call'[o] = call[o]
  BY <1>1
<1>3. y # NoCall
  BY DEF NoCall, CallRows
<1>4. InFlight(c)' /\ \A o \in Callers : InFlight(o)' = InFlight(o) /\ InScope(o)' = InScope(o)
  BY <1>2, <1>3 DEF InFlight, InScope
<1>5. \A o \in Callers : Others(o)' = Others(o)
  BY <1>4 DEF Others
<1>6. Answered' \ {c} = Answered \ {c} /\ LetIn' \ {c} = LetIn \ {c}
  BY <1>2, <1>4 DEF Answered, LetIn, MayBook
<1> QED BY <1>2, <1>4, <1>5, <1>6

\* The attributes of a call, one by one.
LEMMA CallRowIs ==
    ASSUME NEW x \in CallRows
    PROVE  /\ x.at \in {"lookup", "check", "provider", "store", "record", "flush", "ending"}
           /\ x.worker \in Workers /\ x.named \in BOOLEAN /\ x.cached \in BOOLEAN /\ x.usable \in BOOLEAN
           /\ x.plan \in Plans /\ x.held \in Plans
           /\ x.booked = [used |-> x.booked.used, resetAt |-> x.booked.resetAt]
           /\ x.booked.used \in Optionally(Nat) /\ x.booked.resetAt \in Optionally(Nat)
           /\ x.attempts \in 0 .. MaxAttempts /\ x.answers \in Nat /\ x.age \in Int
           /\ x.plan.kind = "book" => x.plan.used \in Optionally(Nat) /\ x.plan.resetAt \in Optionally(Nat)
           /\ x.plan.kind # "none" /\ x.plan.kind # "book" =>
                  x.plan.kind \in RowKinds /\ x.plan.id \in Nat /\ x.plan.entry \in Entries
           /\ x.plan.kind = "none" => x.plan = NoPlan
           /\ x.plan = NoPlan => x.plan.kind = "none"
           /\ Pending(x) \subseteq Nat
<1>1. x.plan \in Plans
  BY DEF CallRows
<1>2. NoPlan.kind = "none"
  BY DEF NoPlan
<1>3. /\ x.plan.kind = "book" => x.plan.used \in Optionally(Nat) /\ x.plan.resetAt \in Optionally(Nat)
      /\ x.plan.kind # "none" /\ x.plan.kind # "book" =>
             x.plan.kind \in RowKinds /\ x.plan.id \in Nat /\ x.plan.entry \in Entries
      /\ x.plan.kind = "none" => x.plan = NoPlan
      /\ x.plan = NoPlan => x.plan.kind = "none"
  BY <1>1, <1>2 DEF Plans, RowKinds
<1>4. x.booked.used \in Optionally(Nat) /\ x.booked.resetAt \in Optionally(Nat)
  BY DEF CallRows
<1>5. \A S \in Optionally(Nat) : S \subseteq Nat
  BY DEF Optionally
<1>6. Pending(x) \subseteq Nat
  BY <1>3, <1>4, <1>5 DEF Pending
<1> QED BY <1>1, <1>3, <1>4, <1>6 DEF CallRows

\* A step of one call that keeps its own part keeps the parts of the others.
LEMMA OthersBook ==
    ASSUME GatewayRows, AtMostTwo, Within, NEW c \in Callers, InFlight(c), NEW y \in CallRows,
           y.named = call[c].named, call' = [call EXCEPT ![c] = y], UNCHANGED <<scope, budget, overlapped>>,
           spent' \in {spent, spent + 1}, c \in Answered' => c \in Answered \/ spent' = spent + 1,
           scope = "both" /\ c \in LetIn' => c \in LetIn \/ Renews(y) \/ budget.used < TokenLimit,
           Renews(y) => Others(c) = {},
           NEW o \in Callers, o # c, InFlight(o), BookingOK(o, call[o])
    PROVE  BookingOK(o, call[o])'
<1>1. PICK x : x = call[o] /\ x = call'[o] /\ x \in CallRows
  BY OthersStay, CallIs
<1>2. /\ InScope(o)' = InScope(o) /\ Others(o)' = Others(o)
      /\ Answered' \ {c} = Answered \ {c} /\ LetIn' \ {c} = LetIn \ {c}
  BY OthersStay
<1>3. Answered \subseteq Callers /\ LetIn \subseteq Callers /\ Answered' \subseteq Callers /\ LetIn' \subseteq Callers
  BY DEF Answered, LetIn
<1>4. c \in Others(o) /\ o \in Others(c)
  BY DEF Others
<1>5. ~Renews(y) /\ ~Renews(x)
  BY <1>1, <1>4 DEF BookingOK
<1>6. PICK m, n, m1, n1, used, all \in Nat :
          /\ m = Cardinality(Answered \ {o}) /\ n = Cardinality(LetIn \ {o}) /\ used = budget.used
          /\ m1 = Cardinality(Answered' \ {o}) /\ n1 = Cardinality(LetIn' \ {o}) /\ all = Cardinality(Callers)
  BY <1>3, CallsCounted DEF GatewayRows
<1>7. spent \in Nat /\ TokenLimit \in Nat /\ Ceiling = TokenLimit + all
  BY <1>6, GatewayAssumption DEF GatewayRows, Ceiling
<1>8. m1 <= m \/ (m1 <= m + 1 /\ spent' = spent + 1)
  <2>1. Answered' \ {o} \subseteq (Answered \ {o}) \cup {c}
    BY <1>2
  <2>2. CASE c \in Answered \/ c \notin Answered'
    <3>1. Answered' \ {o} \subseteq Answered \ {o}
      BY <1>2, <2>2
    <3> QED BY <1>3, <1>6, <2>1, <3>1, CallCounted
  <2>3. CASE c \in Answered' /\ c \notin Answered
    BY <1>3, <1>6, <2>1, <2>3, CallCounted
  <2> QED BY <2>2, <2>3
<1>9. scope = "both" => n1 <= n \/ (n1 + 1 <= all /\ used < TokenLimit)
  <2>1. LetIn' \ {o} \subseteq (LetIn \ {o}) \cup {c}
    BY <1>2
  <2>2. CASE c \in LetIn \/ c \notin LetIn'
    <3>1. LetIn' \ {o} \subseteq LetIn \ {o}
      BY <1>2, <2>2
    <3> QED BY <1>3, <1>6, <2>1, <3>1, CallCounted
  <2>3. CASE c \in LetIn' /\ c \notin LetIn
    <3>1. scope = "both" => used < TokenLimit
      BY <1>5, <1>6, <2>3
    <3>2. Cardinality(Callers) = Cardinality(Callers \ {o}) + 1
      BY CallLeftOut
    <3>3. LetIn' \ {o} \in SUBSET (Callers \ {o})
      BY <1>3
    <3>4. n1 <= Cardinality(Callers \ {o}) /\ Cardinality(Callers \ {o}) \in Nat
      BY <1>6, <3>3, CallsCounted
    <3> QED BY <1>6, <3>1, <3>2, <3>4
  <2> QED BY <2>2, <2>3
<1>10. ASSUME NEW v \in Pending(x)
       PROVE  /\ v + m1 <= spent'
              /\ scope = "both" => v + n1 < Ceiling
              /\ v <= used + 1
  <2>1. v \in Nat
    BY <1>1, CallRowIs
  <2>2. v + m <= spent /\ (scope = "both" => v + n < Ceiling) /\ v <= used + 1
    BY <1>1, <1>4, <1>6 DEF BookingOK
  <2> QED BY <1>6, <1>7, <1>8, <1>9, <2>1, <2>2
<1>11. Ceiling' = Ceiling
  BY DEF Ceiling
<1> QED BY <1>1, <1>2, <1>5, <1>6, <1>10, <1>11 DEF BookingOK

\* A step of one call, with what it has to keep: its own part, and the ceiling
\* when it is let in.
LEMMA CallMoves ==
    ASSUME GatewayInv, NEW c \in Callers, InFlight(c), NEW y \in CallRows, StageOK(y), y.named = call[c].named,
           call' = [call EXCEPT ![c] = y],
           memory' \in [Workers -> Entries], UNCHANGED <<stored, budget, scope, now, overlapped, dropped>>,
           crossed' \in BOOLEAN, crossed => crossed', ~crossed' /\ Renews(y) => Others(c) = {},
           spent' \in {spent, spent + 1}, c \in Answered' => c \in Answered \/ spent' = spent + 1,
           ~crossed' /\ scope = "both" /\ c \in LetIn' => c \in LetIn \/ Renews(y) \/ budget.used < TokenLimit,
           c \in LetIn' /\ Renews(call[c]) => Renews(y),
           ~crossed' => BookingOK(c, y)',
           ~overlapped => AloneOK(c, y)'
    PROVE  GatewayInv'
<1>1. /\ InFlight(c)' /\ call'[c] = y
      /\ \A o \in Callers : InFlight(o)' = InFlight(o) /\ InScope(o)' = InScope(o)
      /\ \A o \in Callers \ {c} : call'[o] = call[o]
      /\ Answered' \ {c} = Answered \ {c} /\ LetIn' \ {c} = LetIn \ {c}
  BY OthersStay DEF GatewayInv
<1>2. GatewayRows'
  <2>1. DOMAIN call' = Callers
    BY DEF GatewayInv, GatewayRows
  <2>2. spent' \in Nat
    BY DEF GatewayInv, GatewayRows
  <2>3. \A o \in Callers : call'[o] = NoCall \/ (call'[o] \in CallRows /\ StageOK(call'[o]))
    BY <1>1 DEF GatewayInv, GatewayRows
  <2>4. \A x : StageOK(x)' <=> StageOK(x)
    BY DEF StageOK
  <2> QED BY <2>1, <2>2, <2>3, <2>4 DEF GatewayInv, GatewayRows
<1>3. AtMostTwo'
  BY <1>1 DEF GatewayInv, AtMostTwo
<1>4. ASSUME ~crossed' PROVE Within'
  <2>1. Within /\ BookingOK(c, call[c]) /\ (Renews(y) => Others(c) = {})
    BY <1>4 DEF GatewayInv
  <2>2. Answered \subseteq Callers /\ LetIn \subseteq Callers /\ Answered' \subseteq Callers /\ LetIn' \subseteq Callers
    BY DEF Answered, LetIn
  <2>3. PICK m, n, m1, n1, used, all \in Nat :
            /\ m = Cardinality(Answered) /\ n = Cardinality(LetIn) /\ used = budget.used
            /\ m1 = Cardinality(Answered') /\ n1 = Cardinality(LetIn') /\ all = Cardinality(Callers) /\ n1 <= all
    BY <2>2, CallsCounted DEF GatewayInv, GatewayRows
  <2>4. spent \in Nat /\ TokenLimit \in Nat /\ Ceiling = TokenLimit + all /\ Ceiling' = Ceiling
    BY <2>3, GatewayAssumption DEF GatewayInv, GatewayRows, Ceiling
  <2>5. m1 <= m \/ (m1 <= m + 1 /\ spent' = spent + 1)
    BY <1>1, <2>2, <2>3, CallCounted
  <2>6. ASSUME scope = "both", \A o \in Callers : ~Resets(o)' PROVE used + n1 < Ceiling
    <3>1. ~Renews(y)
      BY <1>1, <2>6 DEF Resets, Renews
    <3>2. CASE c \in LetIn \/ c \notin LetIn'
      <4>1. LetIn' \subseteq LetIn
        BY <1>1, <3>2
      <4>2. n1 <= n
        BY <2>2, <2>3, <4>1, CallCounted
      <4>3. CASE \A o \in Callers : ~Resets(o)
        BY <2>1, <2>3, <2>4, <2>6, <4>2, <4>3 DEF Within
      <4>4. CASE \E o \in Callers : Resets(o)
        <5>1. PICK o \in Callers : Resets(o)
          BY <4>4
        <5>2. o = c
          BY <1>1, <2>6, <5>1 DEF Resets
        <5>3. Others(c) = {}
          BY <2>1, <5>1, <5>2 DEF Resets, BookingOK, Renews
        <5>4. LetIn' \subseteq {c} /\ c \notin LetIn'
          BY <1>1, <3>1, <5>1, <5>2, <5>3 DEF Others, LetIn, Resets, Renews
        <5>5. n1 = 0
          <6>1. LetIn' = {}
            BY <5>4
          <6> QED BY <2>3, <6>1, FS_EmptySet
        <5> QED BY <2>1, <2>3, <2>4, <2>6, <5>5 DEF Within
      <4> QED BY <4>3, <4>4
    <3>3. CASE c \in LetIn' /\ c \notin LetIn
      BY <1>4, <2>3, <2>4, <2>6, <3>1, <3>3
    <3> QED BY <3>2, <3>3
  <2> QED BY <2>1, <2>3, <2>4, <2>5, <2>6 DEF Within
<1>5. ASSUME ~crossed', NEW o \in Callers, InFlight(o)' PROVE BookingOK(o, call[o])'
  <2>1. CASE o = c
    <3>1. BookingOK(c, y)'
      BY <1>5
    <3> QED BY <1>1, <2>1, <3>1 DEF BookingOK, Renews, Pending
  <2>2. CASE o # c
    <3>1. Within /\ BookingOK(o, call[o]) /\ InFlight(o)
      BY <1>1, <1>5 DEF GatewayInv
    <3>2. scope = "both" /\ c \in LetIn' => c \in LetIn \/ Renews(y) \/ budget.used < TokenLimit
      BY <1>5
    <3>3. Renews(y) => Others(c) = {}
      BY <1>5
    <3> QED BY <2>2, <3>1, <3>2, <3>3, OthersBook DEF GatewayInv
  <2> QED BY <2>1, <2>2
<1>6. ASSUME ~overlapped', NEW o \in Callers, InFlight(o)' PROVE AloneOK(o, call[o])'
  <2>1. o = c
    BY <1>1, <1>6 DEF GatewayInv, AtMostTwo
  <2>2. AloneOK(c, y)'
    BY <1>6
  <2> QED BY <1>1, <2>1, <2>2 DEF AloneOK, Renews
<1> QED BY <1>1, <1>2, <1>3, <1>4, <1>5, <1>6 DEF GatewayInv

\* A call that has nothing to book.
LEMMA BookingNothing ==
    ASSUME NEW c \in Callers, NEW y, Pending(y) = {}, ~Renews(y), y.plan.kind # "book"
    PROVE  BookingOK(c, y)'
<1>1. Pending(y)' = Pending(y) /\ Renews(y)' = Renews(y)
  BY DEF Pending, Renews
<1> QED BY <1>1 DEF BookingOK

\* A call that has no more to book than before.
LEMMA BookingStays ==
    ASSUME GatewayRows, NEW c \in Callers, InFlight(c), NEW y \in CallRows, y.named = call[c].named,
           call' = [call EXCEPT ![c] = y], UNCHANGED <<scope, budget, overlapped>>,
           spent' \in {spent, spent + 1}, BookingOK(c, call[c]),
           Pending(y) \subseteq Pending(call[c]), Pending(call[c]) # {} => Pending(y) # {},
           Renews(y) <=> Renews(call[c]), call[c].answers <= y.answers,
           y.plan.kind = "book" => call[c].plan.kind = "book"
    PROVE  BookingOK(c, y)'
<1>1. PICK x \in CallRows : x = call[c]
  BY CallIs
<1>2. /\ Answered' \ {c} = Answered \ {c} /\ LetIn' \ {c} = LetIn \ {c}
      /\ Others(c)' = Others(c) /\ InScope(c)' = InScope(c)
  BY OthersStay
<1>3. Pending(y)' = Pending(y) /\ Renews(y)' = Renews(y) /\ Ceiling' = Ceiling
  BY DEF Pending, Renews, Ceiling
<1>4. PICK m \in Nat : m = Cardinality(Answered \ {c})
  <2>1. Answered \ {c} \in SUBSET Callers
    BY DEF Answered
  <2> QED BY <2>1, CallsCounted
<1>5. spent \in Nat
  BY DEF GatewayRows
<1>6. ASSUME NEW v \in Pending(y)
      PROVE  /\ v + m <= spent' /\ (scope = "both" => v + Cardinality(LetIn \ {c}) < Ceiling)
             /\ ~overlapped \/ Others(c) # {} => v <= budget.used + 1
             /\ Renews(y) => v <= y.answers
  <2>1. v \in Nat /\ x.answers \in Nat /\ y.answers \in Nat
    BY CallRowIs
  <2>2. /\ v + m <= spent /\ (scope = "both" => v + Cardinality(LetIn \ {c}) < Ceiling)
        /\ ~overlapped \/ Others(c) # {} => v <= budget.used + 1
        /\ Renews(y) => v <= x.answers
    BY <1>1, <1>4 DEF BookingOK
  <2> QED BY <1>1, <1>4, <1>5, <2>1, <2>2
<1> QED BY <1>1, <1>2, <1>3, <1>4, <1>6 DEF BookingOK

\* An entry that is in the cache, and one that is not.
LEMMA EntryIs ==
    /\ NoEntry \in Entries
    /\ \A e \in Entries : /\ e.at \in 0 .. MaxTime /\ e.expires \in 0 .. MaxTime + Ttl
                          /\ e.expires <= e.at + Ttl
    /\ \A t \in 0 .. MaxTime : Entry(t) \in Entries
    /\ Nothing = [used |-> {}, resetAt |-> {}] /\ Nothing.used = {} /\ Nothing.resetAt = {}
    /\ {} \in Optionally(Nat) /\ \A v \in Nat : {v} \in Optionally(Nat)
BY GatewayAssumption DEF NoEntry, Entry, Entries, Nothing, Optionally

\* The cache is looked up.
LEMMA LookupKeeps ==
    ASSUME GatewayInv, NEW c \in Callers, Lookup(c)
    PROVE  GatewayInv'
<1>1. GatewayRows /\ InFlight(c) /\ call[c].at = "lookup"
  BY CallIs DEF Lookup, GatewayInv
<1>2. PICK x \in CallRows : x = call[c] /\ StageOK(x) /\ x.at = "lookup"
  BY <1>1, CallIs
<1>3. /\ x.answers = 0 /\ x.attempts = 0 /\ x.booked = Nothing /\ x.usable /\ x.held = NoPlan /\ x.attempts < MaxAttempts
      /\ x.plan.kind = "none" /\ x.plan = NoPlan
  BY <1>2, CallRowIs DEF StageOK
<1>4. PICK w, hot, row : w = x.worker /\ hot = memory[w] /\ row = stored
  OBVIOUS
<1>5. w \in Workers /\ hot \in Entries /\ row.id \in Nat /\ row.entry \in Entries
  BY <1>1, <1>2, <1>4, CallRowIs DEF GatewayRows
<1>6. now \in Nat /\ Ttl \in Nat
  BY <1>1, GatewayAssumption DEF GatewayRows
<1>7. UNCHANGED <<stored, budget, scope, now, overlapped, crossed, dropped, spent>>
  BY DEF Lookup, gatewayHistory
\* However the call goes on, it has nothing to book.
<1>8. ASSUME NEW at \in {"flush", "check", "ending"}, NEW age \in Int, age <= Ttl, NEW plan \in Plans,
             call' = [call EXCEPT ![c] = [x EXCEPT !.at = at, !.age = age, !.plan = plan]],
             memory' \in [Workers -> Entries],
             plan.kind \in {"none", "touch", "delete"}, at = "flush" <=> plan.kind # "none",
             plan.kind = "touch" => ~Gone(stored) /\ stored.id = plan.id
      PROVE  GatewayInv'
  <2>1. PICK y : y = [x EXCEPT !.at = at, !.age = age, !.plan = plan]
    OBVIOUS
  <2>2. /\ y \in CallRows /\ y.at = at /\ y.age = age /\ y.plan = plan /\ y.named = x.named /\ y.held = x.held
        /\ y.booked = x.booked /\ y.usable = x.usable /\ y.attempts = x.attempts /\ y.answers = x.answers
    BY <2>1 DEF CallRows
  <2>3. StageOK(y)
    BY <1>3, <1>8, <2>2, EntryIs DEF StageOK
  <2>4. Pending(y) = {} /\ ~Renews(y) /\ y.plan.kind # "book"
    BY <1>3, <1>8, <2>2, EntryIs DEF Pending, Renews
  <2>5. BookingOK(c, y)'
    BY <2>4, BookingNothing
  <2>6. ~MayBook(y) /\ call'[c] = y
    BY <1>1, <1>8, <2>1, <2>2 DEF MayBook, GatewayRows
  <2>7. c \notin LetIn' /\ c \notin Answered'
    BY <1>3, <2>2, <2>6 DEF LetIn, Answered
  <2>8. ASSUME ~overlapped PROVE AloneOK(c, y)'
    <3>1. AloneOK(c, x)
      BY <1>1, <1>2, <2>8 DEF GatewayInv, AloneOK, Renews
    <3>2. SeenRow(c)' = stored /\ InScope(c)' = InScope(c)
      BY <1>2, <1>3, <1>7, <2>2, <2>6 DEF SeenRow, InScope, NoPlan
    <3>3. y.plan.kind \notin {"insert", "update"}
      BY <1>8, <2>2
    <3>4. y.plan.kind = "touch" => ~Gone(stored) /\ stored.id = y.plan.id
      BY <1>8, <2>2
    <3> QED BY <1>3, <1>7, <2>2, <3>1, <3>2, <3>3, <3>4, <2>4 DEF AloneOK, Gone
  <2>9. call' = [call EXCEPT ![c] = y] /\ y.named = call[c].named
    BY <1>2, <1>8, <2>1, <2>2
  <2> QED BY <1>1, <1>7, <1>8, <2>2, <2>3, <2>4, <2>5, <2>7, <2>8, <2>9, CallMoves DEF GatewayRows
<1>9. NoPlan \in Plans /\ NoPlan.kind = "none" /\ x.age \in Int /\ x.age <= Ttl
  BY <1>2, CallRowIs DEF Plans, NoPlan, StageOK
<1>10. CASE /\ hot.expires > now /\ UNCHANGED memory
            /\ call' = [call EXCEPT ![c] = [x EXCEPT !.at = "ending", !.age = now - hot.at]]
  <2>1. PICK age : age = now - hot.at
    OBVIOUS
  <2>2. age \in Int /\ age <= Ttl
    BY <1>5, <1>6, <1>10, <2>1, EntryIs
  <2>3. [x EXCEPT !.at = "ending", !.age = age] = [x EXCEPT !.at = "ending", !.age = age, !.plan = NoPlan]
    BY <1>3 DEF CallRows
  <2>4. call' = [call EXCEPT ![c] = [x EXCEPT !.at = "ending", !.age = age, !.plan = NoPlan]]
    BY <1>10, <2>1, <2>3
  <2>5. memory' \in [Workers -> Entries]
    BY <1>1, <1>10 DEF GatewayRows
  <2> QED BY <1>8, <1>9, <2>2, <2>4, <2>5
<1>11. CASE /\ ~Gone(row) /\ now <= row.entry.expires /\ memory' = [memory EXCEPT ![w] = Promoted(row.entry)]
            /\ call' = [call EXCEPT ![c] = [x EXCEPT !.at = "flush", !.age = now - row.entry.at,
                                                   !.plan = RowPlan("touch", row, row.entry)]]
  <2>1. PICK age, plan : age = now - row.entry.at /\ plan = RowPlan("touch", row, row.entry)
    OBVIOUS
  <2>2. age \in Int /\ age <= Ttl
    BY <1>5, <1>6, <1>11, <2>1, EntryIs
  <2>3. plan \in Plans /\ plan.kind = "touch" /\ plan.id = stored.id
    BY <1>4, <1>5, <2>1 DEF RowPlan, Plans, RowKinds
  <2>4. call' = [call EXCEPT ![c] = [x EXCEPT !.at = "flush", !.age = age, !.plan = plan]]
    BY <1>11, <2>1
  <2>5. memory' \in [Workers -> Entries]
    BY <1>1, <1>5, <1>11 DEF GatewayRows, Promoted
  <2>6. ~Gone(stored)
    BY <1>4, <1>11
  <2> QED BY <1>8, <2>2, <2>3, <2>4, <2>5, <2>6
<1>12. CASE /\ ~Gone(row) /\ memory' = [memory EXCEPT ![w] = NoEntry]
            /\ call' = [call EXCEPT ![c] = [x EXCEPT !.at = "flush", !.plan = RowPlan("delete", row, NoEntry)]]
  <2>1. PICK plan : plan = RowPlan("delete", row, NoEntry)
    OBVIOUS
  <2>2. plan \in Plans /\ plan.kind = "delete"
    BY <1>5, <2>1, EntryIs DEF RowPlan, Plans, RowKinds
  <2>3. [x EXCEPT !.at = "flush", !.plan = plan] = [x EXCEPT !.at = "flush", !.age = x.age, !.plan = plan]
    BY DEF CallRows
  <2>4. call' = [call EXCEPT ![c] = [x EXCEPT !.at = "flush", !.age = x.age, !.plan = plan]]
    BY <1>12, <2>1, <2>3
  <2>5. memory' \in [Workers -> Entries]
    BY <1>1, <1>12, EntryIs DEF GatewayRows
  <2> QED BY <1>8, <1>9, <2>2, <2>4, <2>5
<1>13. CASE /\ memory' = [memory EXCEPT ![w] = NoEntry]
            /\ call' = [call EXCEPT ![c] = [x EXCEPT !.at = "check"]]
  <2>1. [x EXCEPT !.at = "check"] = [x EXCEPT !.at = "check", !.age = x.age, !.plan = NoPlan]
    BY <1>3 DEF CallRows
  <2>2. memory' \in [Workers -> Entries]
    BY <1>1, <1>13, EntryIs DEF GatewayRows
  <2> QED BY <1>8, <1>9, <1>13, <2>1, <2>2
<1> QED BY <1>2, <1>4, <1>10, <1>11, <1>12, <1>13 DEF Lookup, Step

\* A call that goes on, in short: what it keeps and what it has to show.
LEMMA CallGoesOn ==
    ASSUME GatewayInv, NEW c \in Callers, InFlight(c), NEW y \in CallRows, StageOK(y), y.named = call[c].named,
           call' = [call EXCEPT ![c] = y],
           memory' \in [Workers -> Entries], UNCHANGED <<stored, budget, scope, now, overlapped, crossed, dropped, spent>>,
           Pending(y) \subseteq Pending(call[c]), Pending(call[c]) # {} => Pending(y) # {}, Renews(y) <=> Renews(call[c]),
           call[c].answers = y.answers, y.plan.kind = "book" => call[c].plan.kind = "book",
           MayBook(y) => MayBook(call[c]) \/ (scope = "both" => budget.used < TokenLimit),
           ~overlapped => AloneOK(c, y)'
    PROVE  GatewayInv'
<1>1. GatewayRows
  BY DEF GatewayInv
<1>2. /\ InFlight(c)' /\ call'[c] = y /\ InScope(c)' = InScope(c)
  BY <1>1, OthersStay
<1>3. c \in Answered' => c \in Answered
  BY <1>2 DEF Answered
<1>4. ASSUME ~crossed' PROVE BookingOK(c, y)'
  <2>1. BookingOK(c, call[c])
    BY <1>4 DEF GatewayInv
  <2>2. call[c].answers <= y.answers
    <3>1. y.answers \in Nat
      BY CallRowIs
    <3> QED BY <3>1
  <2> QED BY <1>1, <2>1, <2>2, BookingStays
<1>5. c \in LetIn' => c \in LetIn \/ (scope = "both" => budget.used < TokenLimit)
  BY <1>2 DEF LetIn
<1>6. ~crossed' /\ Renews(y) => Others(c) = {}
  BY DEF GatewayInv, BookingOK
<1>7. crossed' \in BOOLEAN /\ (crossed => crossed') /\ spent' \in {spent, spent + 1}
  BY <1>1 DEF GatewayRows
<1> QED BY <1>3, <1>4, <1>5, <1>6, <1>7, CallMoves

\* The answer is stored.
LEMMA StoreKeeps ==
    ASSUME GatewayInv, NEW c \in Callers, Store(c)
    PROVE  GatewayInv'
<1>1. GatewayRows /\ InFlight(c) /\ call[c].at = "store"
  BY CallIs DEF Store, GatewayInv
<1>2. PICK x \in CallRows : x = call[c] /\ StageOK(x) /\ x.at = "store"
  BY <1>1, CallIs
<1>3. /\ x.answers > 0 /\ x.attempts < MaxAttempts /\ x.plan.kind = "none" /\ x.plan = NoPlan
      /\ MayBook(x) <=> x.usable
  BY <1>2, CallRowIs DEF StageOK, MayBook
<1>4. UNCHANGED <<stored, budget, scope, now, overlapped, crossed, dropped, spent>> /\ memory' \in [Workers -> Entries]
  <2>1. UNCHANGED <<stored, budget, scope, now, overlapped, crossed, dropped, spent>>
    BY DEF Store, gatewayHistory
  <2>2. memory' = [memory EXCEPT ![x.worker] = Entry(now)] /\ Entry(now) \in Entries
    BY <1>1, <1>2, EntryIs DEF Store, GatewayRows
  <2> QED BY <1>1, <2>1, <2>2 DEF GatewayRows
<1>5. ASSUME NEW at \in {"flush", "record"}, NEW plan \in Plans, plan.kind \in {"none", "insert", "update"},
             call' = [call EXCEPT ![c] = [x EXCEPT !.at = at, !.plan = plan]],
             at = "flush" <=> plan.kind # "none", plan.kind # "none" => x.usable,
             plan.kind = "insert" => Gone(SeenRow(c)),
             plan.kind = "update" => ~Gone(SeenRow(c)) /\ SeenRow(c).id = plan.id
      PROVE  GatewayInv'
  <2>1. PICK y : y = [x EXCEPT !.at = at, !.plan = plan]
    OBVIOUS
  <2>2. /\ y \in CallRows /\ y.at = at /\ y.age = x.age /\ y.plan = plan /\ y.named = x.named /\ y.held = x.held
        /\ y.booked = x.booked /\ y.usable = x.usable /\ y.attempts = x.attempts /\ y.answers = x.answers
    BY <2>1 DEF CallRows
  <2>3. StageOK(y)
    <3>1. plan = NoPlan \/ x.usable
      BY <1>5, <2>2, CallRowIs
    <3> QED BY <1>2, <1>3, <1>5, <2>2, <3>1 DEF StageOK
  <2>4. Pending(y) = Pending(x) /\ (Renews(y) <=> Renews(x)) /\ y.plan.kind # "book"
    BY <1>3, <1>5, <2>2 DEF Pending, Renews
  <2>5. MayBook(y) => MayBook(x)
    BY <1>3, <1>5, <2>2 DEF MayBook
  <2>6. call' = [call EXCEPT ![c] = y] /\ y.named = call[c].named /\ call'[c] = y
    BY <1>1, <1>2, <1>5, <2>1, <2>2 DEF GatewayRows
  <2>7. ASSUME ~overlapped PROVE AloneOK(c, y)'
    <3>1. AloneOK(c, x)
      BY <1>1, <1>2, <2>7 DEF GatewayInv, AloneOK, Renews
    <3>2. SeenRow(c)' = SeenRow(c) /\ InScope(c)' = InScope(c)
      BY <1>2, <1>4, <2>2, <2>6 DEF SeenRow, InScope
    <3>3. plan.kind # "touch" /\ y.at # "ending" /\ y.plan.kind # "book"
      BY <1>5, <2>2
    <3>4. y.plan.kind = "insert" => Gone(SeenRow(c))
      BY <1>5, <2>2
    <3>5. y.plan.kind = "update" => ~Gone(SeenRow(c)) /\ SeenRow(c).id = y.plan.id
      BY <1>5, <2>2
    <3> QED BY <1>4, <2>2, <3>1, <3>2, <3>3, <3>4, <3>5 DEF AloneOK, Gone
  <2> QED BY <1>1, <1>2, <1>4, <2>2, <2>3, <2>4, <2>5, <2>6, <2>7, CallGoesOn
<1>6. NoPlan \in Plans /\ NoPlan.kind = "none"
  BY DEF Plans, NoPlan
<1>7. CASE x.usable
  <2>1. PICK row, plan : row = SeenRow(c) /\ plan = RowPlan(IF Gone(row) THEN "insert" ELSE "update", row, Entry(now))
    OBVIOUS
  <2>2. row.id \in Nat
    BY <1>1, <2>1 DEF SeenRow, GatewayRows
  <2>3. Entry(now) \in Entries
    BY <1>1, EntryIs DEF GatewayRows
  <2>4. /\ plan \in Plans /\ plan.id = row.id
        /\ plan.kind = IF Gone(row) THEN "insert" ELSE "update"
    BY <2>1, <2>2, <2>3 DEF RowPlan, Plans, RowKinds
  <2>5. call' = [call EXCEPT ![c] = [x EXCEPT !.at = "flush", !.plan = plan]]
    BY <1>2, <1>7, <2>1 DEF Store, Step
  <2> QED BY <1>5, <1>7, <2>1, <2>4, <2>5 DEF Gone
<1>8. CASE ~x.usable
  <2>1. [x EXCEPT !.at = "record"] = [x EXCEPT !.at = "record", !.plan = NoPlan]
    BY <1>3 DEF CallRows
  <2>2. call' = [call EXCEPT ![c] = [x EXCEPT !.at = "record", !.plan = NoPlan]]
    BY <1>2, <1>8, <2>1 DEF Store, Step
  <2> QED BY <1>5, <1>6, <2>2
<1> QED BY <1>7, <1>8

\* Whether the counters are reset under a running call.
LEMMA CrossingIs ==
    ASSUME GatewayInv, NEW c \in Callers, InFlight(c), NEW y \in CallRows, y.named = call[c].named,
           call' = [call EXCEPT ![c] = y], scope' = scope
    PROVE  /\ ~crossed => ~Crossing
           /\ Renews(y) /\ Others(c) # {} => Crossing'
           /\ (Renews(y) => Renews(call[c])) => (Crossing' => Crossing)
<1>1. /\ InFlight(c)' /\ call'[c] = y /\ \A o \in Callers : InFlight(o)' = InFlight(o)
      /\ \A o \in Callers \ {c} : call'[o] = call[o]
  BY OthersStay DEF GatewayInv
<1>2. /\ \A o \in Callers : Resets(o) <=> InFlight(o) /\ Renews(call[o])
      /\ Resets(c)' <=> Renews(y)
      /\ \A o \in Callers \ {c} : Resets(o)' <=> Resets(o)
  BY <1>1 DEF Resets, Renews
<1>3. ~crossed => ~Crossing
  BY <1>2 DEF GatewayInv, Crossing, BookingOK, Others
<1>4. Renews(y) /\ Others(c) # {} => Crossing'
  BY <1>1, <1>2 DEF Crossing, Others
<1>5. (Renews(y) => Renews(call[c])) => (Crossing' => Crossing)
  BY <1>1, <1>2 DEF Crossing
<1> QED BY <1>3, <1>4, <1>5

\* A call without a plan for the cache, that has its numbers right, may be alone.
LEMMA AloneMoves ==
    ASSUME GatewayRows, NEW c \in Callers, InFlight(c), NEW y \in CallRows, y.named = call[c].named,
           call' = [call EXCEPT ![c] = y], UNCHANGED <<scope, budget>>,
           y.usable, y.plan.kind \notin {"insert", "update", "touch"},
           ~crossed' /\ ~dropped' => budget.used + (IF InScope(c) THEN y.answers ELSE 0) = spent',
           ~crossed' /\ ~dropped' /\ InScope(c) /\ y.answers > 0 =>
               /\ y.at = "ending" => y.booked.used = {IF y.booked.resetAt # {} THEN 1 ELSE budget.used + 1}
               /\ y.plan.kind = "book" => y.plan.used = {IF Renews(y) THEN 1 ELSE budget.used + 1}
    PROVE  AloneOK(c, y)'
<1>1. InScope(c)' = InScope(c)
  BY OthersStay
<1>2. Renews(y)' <=> Renews(y)
  BY DEF Renews
<1>3. budget'.used = budget.used
  OBVIOUS
<1> QED BY <1>1, <1>2, <1>3 DEF AloneOK

\* The budget is checked.
LEMMA CheckKeeps ==
    ASSUME GatewayInv, NEW c \in Callers, CheckBudget(c)
    PROVE  GatewayInv'
<1>1. GatewayRows /\ InFlight(c) /\ call[c].at = "check"
  BY CallIs DEF CheckBudget, Step, GatewayInv
<1>2. PICK x \in CallRows : x = call[c] /\ StageOK(x) /\ x.at = "check"
  BY <1>1, CallIs
<1>3. /\ x.answers = 0 /\ x.attempts = 0 /\ x.booked = Nothing /\ x.attempts < MaxAttempts
      /\ x.plan.kind = "none" /\ x.plan = NoPlan /\ ~MayBook(x)
  BY <1>2, CallRowIs DEF StageOK, MayBook
<1>4. /\ UNCHANGED <<memory, stored, budget, scope, now, overlapped, dropped, spent>>
      /\ crossed' = (crossed \/ Crossing')
  BY DEF CheckBudget
<1>5. memory' \in [Workers -> Entries] /\ crossed' \in BOOLEAN /\ spent' \in {spent, spent + 1}
  BY <1>1, <1>4 DEF GatewayRows
<1>6. Pending(x) = {} /\ ~Renews(x)
  BY <1>3, EntryIs DEF Pending, Renews
<1>7. ASSUME NEW at \in {"ending", "provider"}, call' = [call EXCEPT ![c] = [x EXCEPT !.at = at]],
             at = "provider" /\ x.usable => (scope = "both" => budget.used < TokenLimit)
      PROVE  GatewayInv'
  <2>1. PICK y : y = [x EXCEPT !.at = at]
    OBVIOUS
  <2>2. /\ y \in CallRows /\ y.at = at /\ y.age = x.age /\ y.plan = x.plan /\ y.named = x.named /\ y.held = x.held
        /\ y.booked = x.booked /\ y.usable = x.usable /\ y.attempts = x.attempts /\ y.answers = x.answers
    BY <2>1 DEF CallRows
  <2>3. StageOK(y)
    BY <1>2, <1>3, <2>2 DEF StageOK
  <2>4. Pending(y) = Pending(x) /\ (Renews(y) <=> Renews(x)) /\ y.plan.kind # "book"
    BY <1>3, <2>2 DEF Pending, Renews
  <2>5. MayBook(y) => (scope = "both" => budget.used < TokenLimit)
    BY <1>3, <1>7, <2>2 DEF MayBook
  <2>6. call' = [call EXCEPT ![c] = y] /\ y.named = call[c].named /\ call'[c] = y
    BY <1>1, <1>2, <1>7, <2>1, <2>2 DEF GatewayRows
  <2>7. ASSUME ~overlapped PROVE AloneOK(c, y)'
    <3>1. AloneOK(c, x)
      BY <1>1, <1>2, <2>7 DEF GatewayInv, AloneOK, Renews
    <3>2. x.usable /\ (~crossed /\ ~dropped => budget.used + 0 = spent)
      BY <1>3, <3>1 DEF AloneOK
    <3>3. crossed => crossed'
      BY <1>4
    <3>4. y.usable /\ y.answers = 0 /\ y.plan.kind = "none" /\ ~(y.answers > 0)
      BY <1>3, <2>2, <3>2
    <3>5. ~crossed' /\ ~dropped' => budget.used + (IF InScope(c) THEN y.answers ELSE 0) = spent'
      BY <1>4, <3>2, <3>3, <3>4
    <3> QED BY <1>1, <1>4, <2>2, <2>6, <3>4, <3>5, AloneMoves
  <2>8. crossed' = crossed
    BY <1>1, <1>2, <1>4, <2>2, <2>4, <2>6, CrossingIs DEF GatewayRows
  <2> QED BY <1>1, <1>2, <1>4, <1>5, <2>2, <2>3, <2>4, <2>5, <2>6, <2>7, <2>8, CallGoesOn
<1>8. ASSUME Checked(c), x.usable, NEW plan \in Plans, plan.kind = "book", plan.used = {0} \ {budget.used}, plan.resetAt # {},
             call' = [call EXCEPT ![c] = [x EXCEPT !.at = "flush", !.plan = plan]]
      PROVE  GatewayInv'
  <2>1. PICK y : y = [x EXCEPT !.at = "flush", !.plan = plan]
    OBVIOUS
  <2>2. /\ y \in CallRows /\ y.at = "flush" /\ y.age = x.age /\ y.plan = plan /\ y.named = x.named /\ y.held = x.held
        /\ y.booked = x.booked /\ y.usable = x.usable /\ y.attempts = x.attempts /\ y.answers = x.answers
    BY <2>1 DEF CallRows
  <2>3. StageOK(y)
    BY <1>2, <1>3, <1>8, <2>2, EntryIs DEF StageOK
  <2>4. Pending(y) = {0} \ {budget.used} /\ Renews(y)
    BY <1>3, <1>8, <2>2, EntryIs DEF Pending, Renews
  <2>5. call' = [call EXCEPT ![c] = y] /\ y.named = call[c].named /\ call'[c] = y
    BY <1>1, <1>2, <1>8, <2>1, <2>2 DEF GatewayRows
  <2>6. /\ Answered' \ {c} = Answered \ {c} /\ LetIn' \ {c} = LetIn \ {c} /\ Others(c)' = Others(c)
        /\ InScope(c)' = InScope(c)
    BY <1>1, <1>4, <2>2, <2>5, OthersStay
  <2>7. InScope(c)
    BY <1>8 DEF Checked, InScope
  <2>8. ~crossed' => Others(c) = {} /\ ~crossed
    BY <1>1, <1>4, <2>2, <2>4, <2>5, CrossingIs
  <2>9. ASSUME ~crossed' PROVE BookingOK(c, y)'
    <3>1. Answered' \ {c} = {} /\ LetIn' \ {c} = {} /\ Others(c)' = {}
      BY <2>6, <2>8, <2>9 DEF Others, Answered, LetIn
    <3>2. PICK none \in Nat : none = Cardinality(Answered' \ {c}) /\ none = Cardinality(LetIn' \ {c}) /\ none = 0
      BY <3>1, FS_EmptySet
    <3>3. PICK all \in Nat : all = Cardinality(Callers)
      BY CallsCounted
    <3>4. 0 < Ceiling' /\ Ceiling' \in Nat
      BY <3>3, GatewayAssumption DEF Ceiling
    <3>5. spent \in Nat /\ budget.used \in Nat
      BY <1>1 DEF GatewayRows
    <3>6. Pending(y)' = {0} \ {budget.used} /\ (Renews(y)' <=> Renews(y))
      BY <2>4 DEF Pending, Renews
    <3>7. \A v \in Pending(y)' : v = 0
      BY <3>6
    <3> QED BY <1>3, <1>4, <2>2, <2>4, <2>6, <2>7, <3>1, <3>2, <3>4, <3>5, <3>6, <3>7 DEF BookingOK
  <2>10. ASSUME ~overlapped PROVE AloneOK(c, y)'
    <3>1. AloneOK(c, x)
      BY <1>1, <1>2, <2>10 DEF GatewayInv, AloneOK, Renews
    <3>2. y.plan.kind = "book" /\ y.at # "ending" /\ y.answers = 0
      BY <1>3, <1>8, <2>2
    <3>3. ~crossed /\ ~dropped => budget.used + 0 = spent
      BY <1>3, <3>1 DEF AloneOK
    <3>4. crossed => crossed'
      BY <1>4
    <3>5. ~crossed' /\ ~dropped' => budget.used + (IF InScope(c) THEN y.answers ELSE 0) = spent'
      BY <1>4, <3>2, <3>3, <3>4
    <3>6. y.usable /\ ~(y.answers > 0) /\ y.plan.kind \notin {"insert", "update", "touch"}
      BY <1>8, <2>2, <3>2
    <3> QED BY <1>1, <1>4, <2>2, <2>5, <3>5, <3>6, AloneMoves
  <2>11. c \notin Answered'
    BY <1>3, <2>2, <2>5 DEF Answered
  <2>12. crossed => crossed'
    BY <1>4
  <2> QED BY <1>1, <1>4, <1>5, <1>6, <2>2, <2>3, <2>4, <2>5, <2>8, <2>9, <2>10, <2>11, <2>12, CallMoves
<1>9. CASE ~x.usable \/ (Checked(c) /\ ~ResetDue(c) /\ is_exceeded(budget.used))
  <2>1. call' = [call EXCEPT ![c] = [x EXCEPT !.at = "ending"]]
    BY <1>2, <1>9 DEF CheckBudget, Step
  <2> QED BY <1>7, <2>1
<1>10. CASE x.usable /\ Checked(c) /\ ResetDue(c)
  <2>1. PICK next, plan : next = _compute_reset_at /\ plan = BookPlan({0} \ {budget.used}, {next})
    OBVIOUS
  <2>2. next \in Nat
    BY <1>1, <2>1, GatewayAssumption DEF _compute_reset_at, GatewayRows
  <2>3. {0} \ {budget.used} \in Optionally(Nat) /\ {next} \in Optionally(Nat)
    <3>1. {0} \ {budget.used} = {} \/ {0} \ {budget.used} = {0}
      OBVIOUS
    <3> QED BY <2>2, <3>1, EntryIs
  <2>4. plan \in Plans /\ plan.kind = "book" /\ plan.used = {0} \ {budget.used} /\ plan.resetAt # {}
    BY <2>1, <2>3 DEF BookPlan, Plans
  <2>5. call' = [call EXCEPT ![c] = [x EXCEPT !.at = "flush", !.plan = plan]]
    BY <1>2, <1>10, <2>1 DEF CheckBudget, Step
  <2> QED BY <1>8, <1>10, <2>4, <2>5
<1>11. CASE x.usable /\ ~(Checked(c) /\ ~ResetDue(c) /\ is_exceeded(budget.used)) /\ ~(Checked(c) /\ ResetDue(c))
  <2>1. call' = [call EXCEPT ![c] = [x EXCEPT !.at = "provider"]]
    BY <1>2, <1>11 DEF CheckBudget, Step
  <2>2. scope = "both" => budget.used < TokenLimit
    BY <1>1, <1>11, GatewayAssumption DEF Checked, is_exceeded, GatewayRows
  <2> QED BY <1>7, <2>1, <2>2
<1> QED BY <1>9, <1>10, <1>11

\* A value that is written replaces the old one.
LEMMA WrittenIs ==
    ASSUME NEW old
    PROVE  /\ Written({}, old) = old
           /\ \A v : Written({v}, old) = v
<1>1. Written({}, old) = CHOOSE x \in {old} : TRUE
  BY DEF Written
<1>2. \A v : {v} # {} /\ Written({v}, old) = CHOOSE x \in {v} : TRUE
  BY DEF Written
<1>3. \A v : (CHOOSE x \in {v} : TRUE) = v
  OBVIOUS
<1> QED BY <1>1, <1>2, <1>3

\* The next attempt of a call.
LEMMA NextAttemptIs ==
    ASSUME NEW c \in Callers, NEW x \in CallRows, x = call[c], StageOK(x), x.attempts < MaxAttempts,
           NEW y, y = NextAttempt(c)
    PROVE  /\ y \in CallRows /\ y.at \in {"provider", "ending"} /\ y.age = x.age /\ y.plan = x.plan
           /\ y.named = x.named /\ y.worker = x.worker /\ y.held = x.held /\ y.booked = x.booked /\ y.usable = x.usable
           /\ y.attempts = x.attempts + 1 /\ y.answers = x.answers
           /\ y.at # "ending" => y.attempts < MaxAttempts
<1>1. PICK at, n : at = (IF x.attempts + 1 < MaxAttempts THEN "provider" ELSE "ending") /\ n = x.attempts + 1
  OBVIOUS
<1>2. y = [x EXCEPT !.attempts = n, !.at = at]
  BY <1>1 DEF NextAttempt
<1>3. n \in 0 .. MaxAttempts /\ at \in {"provider", "ending"} /\ (at # "ending" => n < MaxAttempts)
  <2>1. x.attempts \in 0 .. MaxAttempts /\ MaxAttempts \in Nat
    BY CallRowIs, GatewayAssumption
  <2> QED BY <1>1, <2>1
<1>4. y \in CallRows
  BY <1>2, <1>3 DEF CallRows
<1>5. /\ y.at = at /\ y.attempts = n /\ y.age = x.age /\ y.plan = x.plan /\ y.named = x.named /\ y.worker = x.worker
      /\ y.held = x.held /\ y.booked = x.booked /\ y.usable = x.usable /\ y.answers = x.answers
  BY <1>2 DEF CallRows
<1> QED BY <1>1, <1>3, <1>4, <1>5

\* The usage is recorded.
LEMMA RecordKeeps ==
    ASSUME GatewayInv, NEW c \in Callers, RecordUsage(c)
    PROVE  GatewayInv'
<1>1. GatewayRows /\ InFlight(c) /\ call[c].at = "record"
  BY CallIs DEF RecordUsage, Step, GatewayInv
<1>2. PICK x \in CallRows : x = call[c] /\ StageOK(x) /\ x.at = "record"
  BY <1>1, CallIs
<1>3. /\ x.answers \in Nat /\ x.answers > 0 /\ x.attempts < MaxAttempts /\ x.plan.kind = "none" /\ x.plan = NoPlan
      /\ x.booked.used \subseteq {0} /\ (x.booked.used # {} => x.booked.resetAt # {})
      /\ x.usable => x.answers = 1 /\ MayBook(x)
  <2>1. x.answers \in Nat /\ x.answers > 0 /\ (x.usable => x.answers <= 1)
    BY <1>2, CallRowIs DEF StageOK
  <2>2. x.usable => MayBook(x)
    BY <1>2 DEF MayBook
  <2>3. x.plan.kind = "none" /\ x.plan = NoPlan
    BY <1>2, CallRowIs DEF StageOK
  <2>4. x.booked.used \subseteq {0} /\ (x.booked.used # {} => x.booked.resetAt # {}) /\ x.attempts < MaxAttempts
    BY <1>2 DEF StageOK
  <2> QED BY <2>1, <2>2, <2>3, <2>4
<1>4. /\ UNCHANGED <<memory, stored, budget, scope, now, overlapped, dropped, spent>>
      /\ crossed' = (crossed \/ Crossing')
  BY DEF RecordUsage
<1>5. memory' \in [Workers -> Entries] /\ crossed' \in BOOLEAN /\ spent' \in {spent, spent + 1} /\ spent \in Nat /\ budget.used \in Nat
  BY <1>1, <1>4 DEF GatewayRows
<1>6. Pending(x) = x.booked.used /\ (Renews(x) <=> x.booked.resetAt # {})
  BY <1>3 DEF Pending, Renews
\* The call goes on without a booking.
<1>7. ASSUME NEW y \in CallRows, StageOK(y), y.at \in {"ending", "provider"}, y.plan = x.plan, y.named = x.named,
             y.booked = x.booked, y.usable = x.usable, y.answers = x.answers, call' = [call EXCEPT ![c] = y],
             y.usable => y.at = "ending" /\ ~InScope(c)
      PROVE  GatewayInv'
  <2>1. Pending(y) = Pending(x) /\ (Renews(y) <=> Renews(x)) /\ y.plan.kind # "book"
    BY <1>3, <1>7 DEF Pending, Renews
  <2>2. ~MayBook(y)
    BY <1>3, <1>7 DEF MayBook
  <2>3. crossed' = crossed
    BY <1>1, <1>2, <1>4, <1>7, <2>1, CrossingIs DEF GatewayRows
  <2>4. ASSUME ~overlapped PROVE AloneOK(c, y)'
    <3>1. AloneOK(c, x)
      BY <1>1, <1>2, <2>4 DEF GatewayInv, AloneOK, Renews
    <3>2. y.usable /\ ~InScope(c) /\ (~crossed /\ ~dropped => budget.used + 0 = spent)
      BY <1>7, <3>1 DEF AloneOK
    <3>3. y.plan.kind \notin {"insert", "update", "touch"}
      BY <1>3, <1>7
    <3> QED BY <1>1, <1>2, <1>4, <1>7, <2>3, <3>2, <3>3, AloneMoves
  <2> QED BY <1>1, <1>2, <1>4, <1>5, <1>7, <2>1, <2>2, <2>3, <2>4, CallGoesOn
\* It books one more than it sees.
<1>8. ASSUME InScope(c), x.usable, NEW plan \in Plans, NEW v \in Nat, plan.kind = "book", plan.used = {v},
             call' = [call EXCEPT ![c] = [x EXCEPT !.at = "flush", !.plan = plan]],
             IF x.booked.used # {} \/ plan.resetAt # {} THEN v = 1 ELSE v = budget.used + 1
      PROVE  GatewayInv'
  <2>1. PICK y : y = [x EXCEPT !.at = "flush", !.plan = plan]
    OBVIOUS
  <2>2. /\ y \in CallRows /\ y.at = "flush" /\ y.age = x.age /\ y.plan = plan /\ y.named = x.named /\ y.held = x.held
        /\ y.booked = x.booked /\ y.usable = x.usable /\ y.attempts = x.attempts /\ y.answers = x.answers
    BY <2>1 DEF CallRows
  <2>3. StageOK(y)
    <3>1. x.age <= Ttl
      BY <1>2 DEF StageOK
    <3>2. y.answers = 1 /\ y.plan.kind = "book" /\ y.plan.used # {} /\ y.usable
      BY <1>3, <1>8, <2>2
    <3> QED BY <1>3, <2>2, <3>1, <3>2 DEF StageOK
  <2>4. /\ Pending(y) = x.booked.used \cup {v}
        /\ Renews(y) <=> x.booked.resetAt # {} \/ plan.resetAt # {}
        /\ Renews(x) => Renews(y)
    BY <1>6, <1>8, <2>2 DEF Pending, Renews
  <2>5. call' = [call EXCEPT ![c] = y] /\ y.named = call[c].named /\ call'[c] = y
    BY <1>1, <1>2, <1>8, <2>1, <2>2 DEF GatewayRows
  <2>6. /\ Answered' \ {c} = Answered \ {c} /\ LetIn' \ {c} = LetIn \ {c} /\ Others(c)' = Others(c)
        /\ InScope(c)' = InScope(c)
    BY <1>1, <1>4, <2>2, <2>5, OthersStay
  <2>7. c \in Answered /\ c \in LetIn
    BY <1>1, <1>2, <1>3, <1>8 DEF Answered, LetIn
  <2>8. ~crossed' => ~crossed /\ (Renews(y) => Others(c) = {})
    BY <1>1, <1>4, <2>2, <2>5, CrossingIs
  <2>9. ASSUME ~crossed PROVE v <= budget.used + 1 /\ (Renews(y) => v = 1) /\ (~Renews(y) => v = budget.used + 1)
    <3>1. Renews(x) /\ Pending(x) = {} => budget.used = 0
      BY <1>1, <1>2, <2>9 DEF GatewayInv, BookingOK
    <3> QED BY <1>3, <1>5, <1>6, <1>8, <2>4, <3>1
  <2>10. ASSUME ~crossed' PROVE BookingOK(c, y)'
    <3>1. Within /\ BookingOK(c, x)
      BY <1>1, <1>2, <2>8, <2>10 DEF GatewayInv
    <3>2. Answered \in SUBSET Callers /\ LetIn \in SUBSET Callers /\ Answered \ {c} \in SUBSET Callers /\ LetIn \ {c} \in SUBSET Callers
      BY DEF Answered, LetIn
    <3>3. PICK m, n, all, used, total \in Nat :
              /\ m = Cardinality(Answered \ {c}) /\ n = Cardinality(LetIn \ {c}) /\ all = Cardinality(Callers)
              /\ used = budget.used /\ total = spent
      BY <1>5, <3>2, CallsCounted
    <3>4. Cardinality(Answered) = m + 1 /\ Cardinality(LetIn) = n + 1 /\ all = Cardinality(Callers \ {c}) + 1
      BY <2>7, <3>2, <3>3, CallLeftOut
    <3>5. all >= 1
      <4>1. Callers \ {c} \in SUBSET Callers
        OBVIOUS
      <4>2. Cardinality(Callers \ {c}) \in Nat
        BY <4>1, CallsCounted
      <4> QED BY <3>3, <3>4, <4>2
    <3>6. TokenLimit \in Nat /\ TokenLimit >= 1 /\ Ceiling = TokenLimit + all /\ Ceiling' = Ceiling
      BY <3>3, GatewayAssumption DEF Ceiling
    <3>7. used + m + 1 <= total
      BY <3>1, <3>3, <3>4 DEF Within
    <3>8. scope = "both" => v + n < Ceiling
      <4>1. CASE Renews(y)
        <5>1. LetIn \ {c} = {} /\ v = 1
          BY <2>8, <2>9, <2>10, <4>1 DEF Others, LetIn
        <5>2. n = 0
          BY <3>3, <5>1, FS_EmptySet
        <5> QED BY <3>3, <3>5, <3>6, <5>1, <5>2
      <4>2. CASE ~Renews(y) /\ \A o \in Callers : ~Resets(o)
        BY <2>8, <2>9, <2>10, <3>1, <3>3, <3>4, <3>6, <4>2 DEF Within
      <4>3. CASE ~Renews(y) /\ \E o \in Callers : Resets(o)
        <5>1. PICK o \in Callers : Resets(o)
          BY <4>3
        <5>2. o # c
          BY <1>2, <2>4, <4>3, <5>1 DEF Resets, Renews
        <5>3. BookingOK(o, call[o]) /\ Renews(call[o]) /\ c \in Others(o)
          BY <1>1, <2>8, <2>10, <5>1, <5>2 DEF GatewayInv, Resets, Renews, Others
        <5> QED BY <5>3 DEF BookingOK
      <4> QED BY <4>1, <4>2, <4>3
    <3>9. ASSUME NEW u \in Pending(y)
          PROVE  /\ u + m <= total /\ (scope = "both" => u + n < Ceiling) /\ u <= used + 1 /\ (Renews(y) => u <= 1)
      <4>1. CASE u = v
        BY <2>8, <2>9, <2>10, <3>3, <3>7, <3>8, <4>1
      <4>2. CASE u = 0
        BY <3>3, <3>7, <3>8, <4>2, <1>8, <3>6
      <4> QED BY <1>3, <2>4, <4>1, <4>2
    <3>10. Pending(y)' = Pending(y) /\ (Renews(y)' <=> Renews(y)) /\ Pending(y) # {}
      BY <2>4 DEF Pending, Renews
    <3>11. y.answers = 1
      BY <1>3, <1>8, <2>2
    <3> QED BY <1>4, <1>8, <2>6, <2>8, <2>10, <3>3, <3>6, <3>9, <3>10, <3>11 DEF BookingOK
  <2>11. ASSUME ~overlapped PROVE AloneOK(c, y)'
    <3>1. AloneOK(c, x)
      BY <1>1, <1>2, <2>11 DEF GatewayInv, AloneOK, Renews
    <3>2. y.plan.kind = "book" /\ y.at # "ending" /\ y.answers = 1 /\ y.plan.used = {v}
      BY <1>3, <1>8, <2>2
    <3>3. ~crossed /\ ~dropped => budget.used + 1 = spent
      BY <1>3, <1>8, <3>1 DEF AloneOK
    <3>4. ~crossed' => {v} = {IF Renews(y) THEN 1 ELSE budget.used + 1}
      BY <2>8, <2>9
    <3>5. ~crossed' /\ ~dropped' => budget.used + (IF InScope(c) THEN y.answers ELSE 0) = spent'
      BY <1>4, <1>8, <2>8, <3>2, <3>3
    <3>6. y.usable /\ y.plan.kind \notin {"insert", "update", "touch"}
      BY <1>8, <2>2, <3>2
    <3>7. ~crossed' => y.plan.used = {IF Renews(y) THEN 1 ELSE budget.used + 1}
      BY <3>2, <3>4
    <3> QED BY <1>1, <1>4, <2>2, <2>5, <3>2, <3>5, <3>6, <3>7, AloneMoves
  <2>12. crossed => crossed'
    BY <1>4
  <2> QED BY <1>1, <1>2, <1>4, <1>5, <2>2, <2>3, <2>4, <2>5, <2>7, <2>8, <2>10, <2>11, <2>12, CallMoves
<1>9. CASE ~x.usable
  <2>1. PICK y : y = NextAttempt(c)
    OBVIOUS
  <2>2. /\ y \in CallRows /\ y.at \in {"provider", "ending"} /\ y.age = x.age /\ y.plan = x.plan
        /\ y.named = x.named /\ y.held = x.held /\ y.booked = x.booked /\ y.usable = x.usable
        /\ y.answers = x.answers /\ (y.at # "ending" => y.attempts < MaxAttempts)
    BY <1>2, <1>3, <2>1, NextAttemptIs
  <2>3. StageOK(y)
    BY <1>2, <1>3, <1>9, <2>2 DEF StageOK
  <2>4. call' = [call EXCEPT ![c] = y]
    BY <1>2, <1>9, <2>1 DEF RecordUsage, Step
  <2> QED BY <1>7, <1>9, <2>2, <2>3, <2>4
<1>10. CASE x.usable /\ ~InScope(c)
  <2>1. PICK y : y = [x EXCEPT !.at = "ending"]
    OBVIOUS
  <2>2. /\ y \in CallRows /\ y.at = "ending" /\ y.age = x.age /\ y.plan = x.plan /\ y.named = x.named /\ y.held = x.held
        /\ y.booked = x.booked /\ y.usable = x.usable /\ y.attempts = x.attempts /\ y.answers = x.answers
    BY <2>1 DEF CallRows
  <2>3. StageOK(y)
    BY <1>2, <1>3, <1>10, <2>2 DEF StageOK
  <2>4. call' = [call EXCEPT ![c] = y]
    BY <1>2, <1>10, <2>1 DEF RecordUsage, Step
  <2> QED BY <1>7, <1>10, <2>2, <2>3, <2>4
<1>11. CASE x.usable /\ InScope(c) /\ ResetDue(c)
  <2>1. PICK next, plan : next = _compute_reset_at /\ plan = BookPlan({1}, {next})
    OBVIOUS
  <2>2. next \in Nat
    BY <1>1, <2>1, GatewayAssumption DEF _compute_reset_at, GatewayRows
  <2>3. plan \in Plans /\ plan.kind = "book" /\ plan.used = {1} /\ plan.resetAt # {}
    BY <2>1, <2>2, EntryIs DEF BookPlan, Plans
  <2>4. call' = [call EXCEPT ![c] = [x EXCEPT !.at = "flush", !.plan = plan]]
    BY <1>2, <1>11, <2>1 DEF RecordUsage, Step
  <2> QED BY <1>8, <1>11, <2>3, <2>4
<1>12. CASE x.usable /\ InScope(c) /\ ~ResetDue(c)
  <2>1. PICK v, plan : v = SeenUsed(c) + 1 /\ plan = BookPlan({v}, {})
    OBVIOUS
  <2>2. v \in Nat /\ IF x.booked.used # {} THEN v = 1 ELSE v = budget.used + 1
    <3>1. x.booked.used = {} \/ x.booked.used = {0}
      BY <1>3
    <3>2. SeenUsed(c) = IF x.booked.used # {} THEN 0 ELSE budget.used
      BY <1>2, <3>1, WrittenIs DEF SeenUsed
    <3> QED BY <1>5, <2>1, <3>2
  <2>3. plan \in Plans /\ plan.kind = "book" /\ plan.used = {v} /\ plan.resetAt = {}
    BY <2>1, <2>2, EntryIs DEF BookPlan, Plans
  <2>4. call' = [call EXCEPT ![c] = [x EXCEPT !.at = "flush", !.plan = plan]]
    BY <1>2, <1>12, <2>1 DEF RecordUsage, Step
  <2> QED BY <1>8, <1>12, <2>2, <2>3, <2>4
<1> QED BY <1>9, <1>10, <1>11, <1>12

\* The provider answers, or fails.
LEMMA ProviderKeeps ==
    ASSUME GatewayInv, NEW c \in Callers, Provider(c)
    PROVE  GatewayInv'
<1>1. GatewayRows /\ InFlight(c) /\ call[c].at = "provider"
  BY CallIs DEF Provider, Step, GatewayInv
<1>2. PICK x \in CallRows : x = call[c] /\ StageOK(x) /\ x.at = "provider"
  BY <1>1, CallIs
<1>3. /\ x.answers \in Nat /\ x.attempts < MaxAttempts /\ x.plan.kind = "none" /\ x.plan = NoPlan
      /\ x.booked.used \subseteq {0} /\ (x.booked.used # {} => x.booked.resetAt # {})
      /\ x.usable => x.answers = 0 /\ MayBook(x)
  BY <1>2, CallRowIs DEF StageOK, MayBook
<1>4. UNCHANGED <<memory, stored, budget, scope, now, overlapped, crossed, dropped>>
  BY DEF Provider
<1>5. memory' \in [Workers -> Entries] /\ crossed' \in BOOLEAN /\ spent \in Nat /\ budget.used \in Nat
  BY <1>1, <1>4 DEF GatewayRows
<1>6. ASSUME ~overlapped PROVE x.usable /\ (~crossed /\ ~dropped => budget.used + 0 = spent)
  <2>1. AloneOK(c, x)
    BY <1>1, <1>2, <1>6 DEF GatewayInv, AloneOK, Renews
  <2> QED BY <1>3, <2>1 DEF AloneOK
<1>7. CASE /\ call' = [call EXCEPT ![c] = [x EXCEPT !.answers = x.answers + 1, !.at = IF x.cached THEN "store" ELSE "record"]]
           /\ spent' = IF InScope(c) THEN spent + 1 ELSE spent
  <2>1. PICK at, n, y : /\ at = (IF x.cached THEN "store" ELSE "record") /\ n = x.answers + 1
                        /\ y = [x EXCEPT !.answers = n, !.at = at]
    OBVIOUS
  <2>2. /\ y \in CallRows /\ y.at \in {"store", "record"} /\ y.age = x.age /\ y.plan = x.plan /\ y.named = x.named
        /\ y.held = x.held /\ y.booked = x.booked /\ y.usable = x.usable /\ y.attempts = x.attempts /\ y.answers = x.answers + 1
    <3>1. n \in Nat /\ at \in {"store", "record"}
      BY <1>3, <2>1
    <3> QED BY <2>1, <3>1 DEF CallRows
  <2>3. StageOK(y)
    BY <1>2, <1>3, <2>2 DEF StageOK
  <2>4. Pending(y) = Pending(x) /\ (Renews(y) <=> Renews(x)) /\ y.plan.kind # "book"
    BY <1>3, <2>2 DEF Pending, Renews
  <2>5. call' = [call EXCEPT ![c] = y] /\ y.named = call[c].named /\ call'[c] = y
    BY <1>1, <1>2, <1>7, <2>1, <2>2 DEF GatewayRows
  <2>6. InScope(c)' = InScope(c)
    BY <1>1, <1>4, <2>2, <2>5, OthersStay
  <2>7. spent' \in {spent, spent + 1}
    BY <1>7
  <2>8. c \in Answered' => c \in Answered \/ spent' = spent + 1
    BY <1>7, <2>6 DEF Answered
  <2>9. c \in LetIn' => c \in LetIn
    BY <1>1, <1>2, <1>3, <2>2, <2>5 DEF LetIn, MayBook
  <2>10. ASSUME ~crossed' PROVE BookingOK(c, y)'
    <3>1. BookingOK(c, x) /\ x.answers <= y.answers
      BY <1>1, <1>2, <1>3, <1>4, <2>2, <2>10 DEF GatewayInv
    <3> QED BY <1>1, <1>2, <1>4, <2>2, <2>4, <2>5, <2>7, <3>1, BookingStays
  <2>11. ASSUME ~overlapped PROVE AloneOK(c, y)'
    <3>1. y.usable /\ y.answers = 1 /\ y.at # "ending" /\ y.plan.kind = "none"
      BY <1>3, <1>6, <2>2, <2>11
    <3>2. ~crossed' /\ ~dropped' => budget.used + (IF InScope(c) THEN y.answers ELSE 0) = spent'
      BY <1>4, <1>5, <1>6, <1>7, <2>11, <3>1
    <3> QED BY <1>1, <1>4, <2>2, <2>5, <3>1, <3>2, AloneMoves
  <2>12. ~crossed' /\ Renews(y) => Others(c) = {}
    BY <1>1, <1>2, <1>4, <2>4 DEF GatewayInv, BookingOK
  <2> QED BY <1>1, <1>2, <1>4, <1>5, <2>2, <2>3, <2>4, <2>5, <2>7, <2>8, <2>9, <2>10, <2>11, <2>12, CallMoves
<1>8. CASE call' = [call EXCEPT ![c] = NextAttempt(c)] /\ UNCHANGED spent
  <2>1. PICK y : y = NextAttempt(c)
    OBVIOUS
  <2>2. /\ y \in CallRows /\ y.at \in {"provider", "ending"} /\ y.age = x.age /\ y.plan = x.plan
        /\ y.named = x.named /\ y.held = x.held /\ y.booked = x.booked /\ y.usable = x.usable
        /\ y.answers = x.answers /\ (y.at # "ending" => y.attempts < MaxAttempts)
    BY <1>2, <1>3, <2>1, NextAttemptIs
  <2>3. StageOK(y)
    BY <1>2, <1>3, <2>2 DEF StageOK
  <2>4. Pending(y) = Pending(x) /\ (Renews(y) <=> Renews(x)) /\ y.plan.kind # "book"
    BY <1>3, <2>2 DEF Pending, Renews
  <2>5. call' = [call EXCEPT ![c] = y] /\ y.named = call[c].named
    BY <1>2, <1>8, <2>1, <2>2
  <2>6. MayBook(y) => MayBook(x)
    BY <1>3, <2>2 DEF MayBook
  <2>7. ASSUME ~overlapped PROVE AloneOK(c, y)'
    <3>1. y.usable /\ y.answers = 0 /\ y.plan.kind = "none"
      BY <1>3, <1>6, <2>2, <2>7
    <3>2. ~crossed' /\ ~dropped' => budget.used + (IF InScope(c) THEN y.answers ELSE 0) = spent'
      BY <1>4, <1>5, <1>6, <1>8, <2>7, <3>1
    <3>3. ~(y.answers > 0)
      BY <3>1
    <3> QED BY <1>1, <1>4, <2>2, <2>5, <3>1, <3>2, <3>3, AloneMoves
  <2> QED BY <1>1, <1>2, <1>4, <1>5, <1>8, <2>2, <2>3, <2>4, <2>5, <2>6, <2>7, CallGoesOn
<1> QED BY <1>2, <1>7, <1>8 DEF Provider, Step

\* A flush that fails leaves the call with a session it cannot use.
LEMMA AbortKeeps ==
    ASSUME GatewayInv, NEW c \in Callers, call[c].at = "flush", overlapped, call' = [call EXCEPT ![c] = Aborted(c)],
           UNCHANGED <<memory, stored, budget, scope, now, overlapped, crossed, dropped, spent>>
    PROVE  GatewayInv'
<1>1. GatewayRows /\ InFlight(c)
  BY CallIs DEF GatewayInv
<1>2. PICK x \in CallRows : x = call[c] /\ StageOK(x) /\ x.at = "flush"
  BY <1>1, CallIs
<1>3. /\ x.answers \in Nat /\ x.attempts < MaxAttempts /\ x.plan.kind # "none"
      /\ x.plan.kind \in {"touch", "delete"} => x.answers = 0 /\ x.attempts = 0
      /\ x.plan.kind \in {"insert", "update"} => x.answers > 0
      /\ x.plan.kind \in {"touch", "delete", "insert", "update", "book"}
  BY <1>2, CallRowIs DEF StageOK, RowKinds
<1>4. PICK y : y = Aborted(c)
  OBVIOUS
<1>5. \E at \in {"record", "check", "ending", "provider"}, n \in 0 .. MaxAttempts :
          /\ y = [x EXCEPT !.at = at, !.attempts = n, !.usable = FALSE, !.plan = NoPlan, !.held = NoPlan, !.booked = Nothing]
          /\ at # "ending" => n < MaxAttempts
          /\ at = "check" => x.answers = 0 /\ n = 0
          /\ at = "record" => x.answers > 0
  <2>1. x.attempts \in 0 .. MaxAttempts /\ MaxAttempts \in Nat
    BY CallRowIs, GatewayAssumption
  <2>2. PICK gone : gone = [x EXCEPT !.usable = FALSE, !.plan = NoPlan, !.held = NoPlan, !.booked = Nothing]
    OBVIOUS
  <2>3. CASE x.plan.kind \in {"insert", "update"}
    <3>1. y = [gone EXCEPT !.at = "record"]
      BY <1>2, <1>4, <2>2, <2>3 DEF Aborted, Books
    <3>2. y = [x EXCEPT !.at = "record", !.attempts = x.attempts, !.usable = FALSE, !.plan = NoPlan, !.held = NoPlan, !.booked = Nothing]
      BY <2>2, <3>1 DEF CallRows
    <3> QED BY <1>3, <2>1, <2>3, <3>2
  <2>4. CASE x.plan.kind \in {"touch", "delete"}
    <3>1. y = [gone EXCEPT !.at = "check"]
      BY <1>2, <1>4, <2>2, <2>4 DEF Aborted, Books
    <3>2. y = [x EXCEPT !.at = "check", !.attempts = x.attempts, !.usable = FALSE, !.plan = NoPlan, !.held = NoPlan, !.booked = Nothing]
      BY <2>2, <3>1 DEF CallRows
    <3> QED BY <1>3, <2>1, <2>4, <3>2
  <2>5. CASE x.plan.kind = "book" /\ x.answers = 0
    <3>1. y = [gone EXCEPT !.at = "ending"]
      BY <1>2, <1>4, <2>2, <2>5 DEF Aborted, Books
    <3>2. y = [x EXCEPT !.at = "ending", !.attempts = x.attempts, !.usable = FALSE, !.plan = NoPlan, !.held = NoPlan, !.booked = Nothing]
      BY <2>2, <3>1 DEF CallRows
    <3> QED BY <1>3, <2>1, <2>5, <3>2
  <2>6. CASE x.plan.kind = "book" /\ x.answers # 0
    <3>1. PICK at, n : at = (IF x.attempts + 1 < MaxAttempts THEN "provider" ELSE "ending") /\ n = x.attempts + 1
      OBVIOUS
    <3>2. n \in 0 .. MaxAttempts /\ at \in {"provider", "ending"} /\ (at # "ending" => n < MaxAttempts)
      BY <1>3, <2>1, <3>1
    <3>3. PICK next : next = NextAttempt(c) /\ next = [x EXCEPT !.attempts = n, !.at = at]
      BY <1>2, <3>1 DEF NextAttempt
    <3>4. y = [next EXCEPT !.usable = FALSE, !.plan = NoPlan, !.held = NoPlan, !.booked = Nothing]
      BY <1>2, <1>4, <2>6, <3>3 DEF Aborted, Books
    <3>5. y = [x EXCEPT !.at = at, !.attempts = n, !.usable = FALSE, !.plan = NoPlan, !.held = NoPlan, !.booked = Nothing]
      BY <3>3, <3>4 DEF CallRows
    <3> QED BY <3>2, <3>5
  <2> QED BY <1>3, <2>3, <2>4, <2>5, <2>6
<1>6. PICK at \in {"record", "check", "ending", "provider"}, n \in 0 .. MaxAttempts :
          /\ y = [x EXCEPT !.at = at, !.attempts = n, !.usable = FALSE, !.plan = NoPlan, !.held = NoPlan, !.booked = Nothing]
          /\ at # "ending" => n < MaxAttempts
          /\ at = "check" => x.answers = 0 /\ n = 0
          /\ at = "record" => x.answers > 0
  BY <1>5
<1>7. NoPlan \in Plans /\ Nothing \in [used : Optionally(Nat), resetAt : Optionally(Nat)] /\ NoPlan.kind = "none"
  BY EntryIs DEF Plans, NoPlan
<1>8. /\ y \in CallRows /\ y.at = at /\ y.attempts = n /\ y.usable = FALSE /\ y.plan = NoPlan /\ y.held = NoPlan
      /\ y.booked = Nothing /\ y.answers = x.answers /\ y.named = x.named /\ y.age = x.age
  BY <1>6, <1>7 DEF CallRows
<1>9. StageOK(y)
  BY <1>2, <1>6, <1>7, <1>8, EntryIs DEF StageOK
<1>10. Pending(y) = {} /\ ~Renews(y) /\ y.plan.kind # "book" /\ ~MayBook(y)
  BY <1>7, <1>8, EntryIs DEF Pending, Renews, MayBook
<1>11. BookingOK(c, y)'
  BY <1>10, BookingNothing
<1>12. call' = [call EXCEPT ![c] = y] /\ y.named = call[c].named /\ call'[c] = y
  BY <1>1, <1>2, <1>4, <1>8 DEF GatewayRows
<1>13. InScope(c)' = InScope(c)
  BY <1>1, <1>8, <1>12, OthersStay
<1>14. c \notin LetIn' /\ (c \in Answered' => c \in Answered)
  BY <1>1, <1>2, <1>8, <1>10, <1>12, <1>13 DEF LetIn, Answered, MayBook
<1>15. memory' \in [Workers -> Entries] /\ crossed' \in BOOLEAN
  BY <1>1 DEF GatewayRows
<1> QED BY <1>1, <1>8, <1>9, <1>10, <1>11, <1>12, <1>14, <1>15, CallMoves

\* A flush that is not refused: what it writes is held until the call ends.
LEMMA FlushedKeeps ==
    ASSUME GatewayInv, NEW c \in Callers, call[c].at = "flush", call' = [call EXCEPT ![c] = Flushed(c)],
           UNCHANGED <<memory, stored, budget, scope, now, overlapped, crossed, dropped, spent>>
    PROVE  GatewayInv'
<1>1. GatewayRows /\ InFlight(c)
  BY CallIs DEF GatewayInv
<1>2. PICK x \in CallRows : x = call[c] /\ StageOK(x) /\ x.at = "flush"
  BY <1>1, CallIs
<1>3. /\ x.answers \in Nat /\ x.attempts < MaxAttempts /\ x.plan.kind # "none" /\ x.usable /\ x.answers <= 1
      /\ x.plan.kind \in {"touch", "delete"} => x.answers = 0 /\ x.attempts = 0 /\ x.booked = Nothing
      /\ x.plan.kind \in {"insert", "update"} => x.answers > 0
      /\ x.plan.kind \in {"touch", "delete", "insert", "update", "book"}
      /\ x.booked.used \subseteq {0} /\ (x.booked.used # {} => x.booked.resetAt # {})
      /\ x.plan.kind = "book" =>
             IF x.answers = 0 THEN x.booked = Nothing /\ x.plan.used \subseteq {0} /\ x.plan.resetAt # {}
             ELSE x.plan.used # {}
  <2>1. x.usable
    BY <1>2, CallRowIs DEF StageOK
  <2> QED BY <1>2, <2>1, CallRowIs DEF StageOK, RowKinds
<1>4. memory' \in [Workers -> Entries] /\ budget.used \in Nat /\ spent \in Nat
  BY <1>1 DEF GatewayRows
<1>5. NoPlan \in Plans /\ NoPlan.kind = "none"
  BY DEF Plans, NoPlan
<1>6. ASSUME ~overlapped PROVE AloneOK(c, x)
  BY <1>1, <1>2, <1>6 DEF GatewayInv, AloneOK, Renews
\* However the call goes on, it does so with the same to book.
<1>7. ASSUME NEW at \in {"record", "check", "provider", "ending"}, NEW held \in Plans,
             NEW booked \in [used : Optionally(Nat), resetAt : Optionally(Nat)],
             call' = [call EXCEPT ![c] = [x EXCEPT !.at = at, !.plan = NoPlan, !.held = held, !.booked = booked]],
             IF x.plan.kind = "book"
             THEN /\ booked.used \subseteq Pending(x) /\ (Pending(x) # {} => booked.used # {})
                  /\ booked.resetAt # {} <=> Renews(x)
                  /\ IF x.answers = 0 THEN at = "provider" ELSE at = "ending" /\ booked.used = x.plan.used
             ELSE booked = x.booked /\ (at = "record" => x.plan.kind \in {"insert", "update"})
                  /\ at # "provider" /\ (at \in {"check", "ending"} => x.plan.kind \in {"touch", "delete"})
      PROVE  GatewayInv'
  <2>1. PICK y : y = [x EXCEPT !.at = at, !.plan = NoPlan, !.held = held, !.booked = booked]
    OBVIOUS
  <2>2. /\ y \in CallRows /\ y.at = at /\ y.age = x.age /\ y.plan = NoPlan /\ y.named = x.named /\ y.held = held
        /\ y.booked = booked /\ y.usable = x.usable /\ y.attempts = x.attempts /\ y.answers = x.answers
    BY <1>5, <2>1 DEF CallRows
  <2>3. /\ Pending(y) \subseteq Pending(x) /\ (Pending(x) # {} => Pending(y) # {}) /\ (Renews(y) <=> Renews(x))
        /\ y.plan.kind # "book"
    BY <1>5, <1>7, <2>2 DEF Pending, Renews
  <2>4. StageOK(y)
    <3>1. /\ x.plan.kind = "book" /\ x.answers = 0 => booked.used \subseteq {0} /\ booked.resetAt # {}
      BY <1>3, <1>7, EntryIs DEF Pending, Renews
    <3>2. x.plan.kind = "book" /\ x.answers # 0 => x.answers = 1 /\ at = "ending"
      BY <1>3, <1>7
    <3>3. at = "check" => x.answers = 0 /\ x.attempts = 0 /\ booked = Nothing
      BY <1>3, <1>7
    <3>4. at # "ending" => booked.used \subseteq {0} /\ (booked.used # {} => booked.resetAt # {})
      BY <1>3, <1>7, <3>1
    <3>5. booked.used # {} /\ booked.resetAt = {} => x.answers = 1
      BY <1>3, <1>7, <3>1, <3>2
    <3>6. (at = "provider" => x.answers = 0) /\ (at = "record" => x.answers > 0)
      BY <1>3, <1>7
    <3> QED BY <1>2, <1>3, <1>5, <2>2, <3>3, <3>4, <3>5, <3>6 DEF StageOK
  <2>5. MayBook(y) => MayBook(x)
    BY <1>3, <1>5, <1>7, <2>2 DEF MayBook
  <2>6. call' = [call EXCEPT ![c] = y] /\ y.named = call[c].named
    BY <1>2, <1>7, <2>1, <2>2
  <2>7. ASSUME ~overlapped PROVE AloneOK(c, y)'
    <3>1. AloneOK(c, x)
      BY <1>6, <2>7
    <3>2. y.plan.kind = "none" /\ y.usable /\ x.usable
      BY <1>3, <1>5, <2>2
    <3>3. ~crossed' /\ ~dropped' => budget.used + (IF InScope(c) THEN y.answers ELSE 0) = spent'
      BY <2>2, <3>1 DEF AloneOK
    <3>4. ASSUME ~crossed', ~dropped', InScope(c), y.answers > 0, y.at = "ending"
          PROVE  y.booked.used = {IF y.booked.resetAt # {} THEN 1 ELSE budget.used + 1}
      <4>1. x.plan.kind = "book" /\ x.answers > 0 /\ x.answers # 0
        BY <1>3, <1>7, <2>2, <3>4
      <4>2. x.plan.used = {IF Renews(x) THEN 1 ELSE budget.used + 1}
        BY <3>1, <3>4, <4>1 DEF AloneOK
      <4> QED BY <1>7, <2>2, <4>1, <4>2
    <3> QED BY <1>1, <2>2, <2>6, <3>2, <3>3, <3>4, AloneMoves
  <2> QED BY <1>1, <1>2, <1>4, <2>2, <2>3, <2>4, <2>5, <2>6, <2>7, CallGoesOn
<1>8. x.plan \in Plans /\ x.held \in Plans /\ x.booked \in [used : Optionally(Nat), resetAt : Optionally(Nat)]
  BY DEF CallRows
<1>9. CASE x.plan.kind = "book"
  <2>1. PICK at, booked :
            /\ at = (IF x.answers = 0 THEN "provider" ELSE "ending")
            /\ booked = [used |-> IF x.plan.used = {} THEN x.booked.used ELSE x.plan.used,
                         resetAt |-> IF x.plan.resetAt = {} THEN x.booked.resetAt ELSE x.plan.resetAt]
    OBVIOUS
  <2>2. Flushed(c) = [x EXCEPT !.at = at, !.plan = NoPlan, !.held = x.held, !.booked = booked]
    BY <1>2, <1>9, <2>1 DEF Flushed, AfterFlush, Books, CallRows
  <2>3. booked \in [used : Optionally(Nat), resetAt : Optionally(Nat)]
    BY <1>9, <2>1, CallRowIs
  <2>4. booked.used \subseteq Pending(x) /\ (Pending(x) # {} => booked.used # {}) /\ (booked.resetAt # {} <=> Renews(x))
    BY <1>9, <2>1 DEF Pending, Renews
  <2>5. IF x.answers = 0 THEN at = "provider" ELSE at = "ending" /\ booked.used = x.plan.used
    BY <1>3, <1>9, <2>1
  <2>6. at \in {"record", "check", "provider", "ending"}
    BY <2>1
  <2>7. call' = [call EXCEPT ![c] = [x EXCEPT !.at = at, !.plan = NoPlan, !.held = x.held, !.booked = booked]]
    BY <2>2
  <2> QED BY <1>7, <1>8, <1>9, <2>3, <2>4, <2>5, <2>6, <2>7
<1>10. CASE x.plan.kind # "book"
  <2>1. PICK at : at = CASE x.plan.kind \in {"insert", "update"} -> "record" [] x.plan.kind = "delete" -> "check" [] OTHER -> "ending"
    OBVIOUS
  <2>2. /\ at \in {"record", "check", "ending"} /\ (at = "record" => x.plan.kind \in {"insert", "update"})
        /\ at \in {"check", "ending"} => x.plan.kind \in {"touch", "delete"}
    BY <1>3, <1>10, <2>1
  <2>3. AfterFlush(c) = at
    BY <1>2, <1>3, <1>10, <2>1 DEF AfterFlush, Books
  <2>4. Flushed(c) = [x EXCEPT !.at = at, !.plan = NoPlan, !.held = x.plan, !.booked = x.booked]
    BY <1>2, <1>10, <2>3 DEF Flushed, Books, CallRows
  <2>5. at # "provider" /\ at \in {"record", "check", "provider", "ending"}
    BY <2>2
  <2>6. call' = [call EXCEPT ![c] = [x EXCEPT !.at = at, !.plan = NoPlan, !.held = x.plan, !.booked = x.booked]]
    BY <2>4
  <2> QED BY <1>7, <1>8, <1>10, <2>2, <2>5, <2>6
<1> QED BY <1>9, <1>10

\* A call that is alone is never refused.
LEMMA FlushKeeps ==
    ASSUME GatewayInv, NEW c \in Callers, Flush(c)
    PROVE  GatewayInv'
<1>1. call[c].at = "flush" /\ UNCHANGED <<memory, stored, budget, scope, now, overlapped, crossed, dropped, spent>>
  BY DEF Flush, gatewayHistory
<1>2. CASE Refused(c)
  <2>1. ASSUME ~overlapped PROVE FALSE
    <3>1. InFlight(c)
      BY <1>1, CallIs DEF GatewayInv
    <3>2. AloneOK(c, call[c])
      BY <2>1, <3>1 DEF GatewayInv
    <3> QED BY <1>2, <3>2 DEF AloneOK, Refused
  <2>2. call' = [call EXCEPT ![c] = Aborted(c)]
    BY <1>2 DEF Flush, Step
  <2>3. overlapped
    BY <2>1
  <2> QED BY <1>1, <2>2, <2>3, AbortKeeps
<1>3. CASE ~Refused(c)
  <2>1. call' = [call EXCEPT ![c] = Flushed(c)]
    BY <1>3 DEF Flush, Step
  <2> QED BY <1>1, <2>1, FlushedKeeps
<1> QED BY <1>2, <1>3

\* It takes two calls to wait for each other.
LEMMA DeadlockKeeps ==
    ASSUME GatewayInv, NEW c \in Callers, Deadlock(c)
    PROVE  GatewayInv'
<1>1. /\ call[c].at = "flush" /\ call' = [call EXCEPT ![c] = Aborted(c)]
      /\ UNCHANGED <<memory, stored, budget, scope, now, overlapped, crossed, dropped, spent>>
  BY DEF Deadlock, Step, gatewayHistory
<1>2. PICK o \in Callers : o # c /\ InFlight(o) /\ InFlight(c)
  BY DEF Deadlock, WaitsFor
<1>3. overlapped
  BY <1>2 DEF GatewayInv, AtMostTwo, GatewayRows
<1> QED BY <1>1, <1>3, AbortKeeps

\* What a call has flushed to the cache.
LEMMA PlanIs ==
    ASSUME NEW p \in Plans, p.kind \in {"insert", "update"}
    PROVE  p.entry \in Entries
BY DEF Plans, NoPlan, RowKinds

\* What is left when some calls are over.
LEMMA OthersLast ==
    ASSUME GatewayRows, NEW calls \in SUBSET Callers, scope' = scope,
           call' = [c \in Callers |-> IF c \in calls THEN NoCall ELSE call[c]]
    PROVE  /\ \A o \in calls : ~InFlight(o)'
           /\ \A o \in Callers \ calls : call'[o] = call[o] /\ InFlight(o)' = InFlight(o) /\ InScope(o)' = InScope(o)
           /\ Answered' = Answered \ calls /\ LetIn' = LetIn \ calls
           /\ \A o \in Callers : Others(o)' = Others(o) \ calls
           /\ DOMAIN call' = Callers /\ Ceiling' = Ceiling
           /\ \A o \in Callers : call'[o] = NoCall \/ (call'[o] \in CallRows /\ StageOK(call'[o]))
           /\ AtMostTwo /\ overlapped' = overlapped => AtMostTwo'
<1>1. \A o \in calls : ~InFlight(o)'
  BY DEF InFlight
<1>2. \A o \in Callers \ calls : call'[o] = call[o] /\ InFlight(o)' = InFlight(o) /\ InScope(o)' = InScope(o)
  BY DEF InFlight, InScope
<1>3. Answered' = Answered \ calls /\ LetIn' = LetIn \ calls /\ \A o \in Callers : Others(o)' = Others(o) \ calls
  BY <1>1, <1>2 DEF Answered, LetIn, MayBook, Others
<1>4. DOMAIN call' = Callers /\ Ceiling' = Ceiling
  BY DEF Ceiling
<1>5. \A o \in Callers : call'[o] = NoCall \/ (call'[o] \in CallRows /\ StageOK(call'[o]))
  <2>1. \A x : StageOK(x)' <=> StageOK(x)
    BY DEF StageOK
  <2> QED BY <1>2, <2>1 DEF GatewayRows
<1>6. AtMostTwo /\ overlapped' = overlapped => AtMostTwo'
  BY <1>1, <1>2 DEF AtMostTwo
<1> QED BY <1>1, <1>2, <1>3, <1>4, <1>5, <1>6

\* The request commits.
LEMMA CommitKeeps ==
    ASSUME GatewayInv, NEW c \in Callers, CommitCall(c)
    PROVE  GatewayInv'
<1>1. GatewayRows /\ InFlight(c) /\ call[c].at = "ending"
  BY CallIs DEF CommitCall, Step, GatewayInv
<1>2. PICK x \in CallRows : x = call[c] /\ StageOK(x) /\ x.at = "ending"
  BY <1>1, CallIs
<1>3. /\ x.answers \in Nat /\ x.plan.kind = "none" /\ (x.usable => x.answers <= 1)
      /\ x.booked.used # {} /\ x.booked.resetAt = {} => x.answers = 1
      /\ x.booked.used \in Optionally(Nat) /\ x.booked.resetAt \in Optionally(Nat) /\ x.held \in Plans
      /\ x.booked = [used |-> x.booked.used, resetAt |-> x.booked.resetAt]
  BY <1>2, CallRowIs DEF StageOK
<1>4. Pending(x) = x.booked.used /\ (Renews(x) <=> x.booked.resetAt # {})
  BY <1>3 DEF Pending, Renews
<1>5. PICK used, resetAt, total \in Nat : used = budget.used /\ resetAt = budget.resetAt /\ total = spent
  BY <1>1 DEF GatewayRows
<1>6. PICK used1, resetAt1 \in Nat :
          /\ budget' = [used |-> used1, resetAt |-> resetAt1]
          /\ (used1 = used /\ x.booked.used = {}) \/ x.booked.used = {used1}
  <2>1. Written(x.booked.resetAt, resetAt) \in Nat
    <3>1. CASE x.booked.resetAt = {}
      BY <1>5, <3>1, WrittenIs
    <3>2. CASE x.booked.resetAt # {}
      <4>1. PICK v \in Nat : x.booked.resetAt = {v}
        BY <1>3, <3>2 DEF Optionally
      <4> QED BY <4>1, WrittenIs
    <3> QED BY <3>1, <3>2
  <2>2. \E v \in Nat : Written(x.booked.used, used) = v /\ ((v = used /\ x.booked.used = {}) \/ x.booked.used = {v})
    <3>1. CASE x.booked.used = {}
      BY <1>5, <3>1, WrittenIs
    <3>2. CASE x.booked.used # {}
      <4>1. PICK v \in Nat : x.booked.used = {v}
        BY <1>3, <3>2 DEF Optionally
      <4> QED BY <4>1, WrittenIs
    <3> QED BY <3>1, <3>2
  <2>3. budget' = [used |-> Written(x.booked.used, used), resetAt |-> Written(x.booked.resetAt, resetAt)]
    BY <1>2, <1>5 DEF CommitCall
  <2> QED BY <2>1, <2>2, <2>3
<1>7. /\ UNCHANGED <<memory, scope, now, overlapped, crossed>>
      /\ spent' = IF x.booked.resetAt = {} THEN total ELSE x.answers
      /\ dropped' = (dropped \/ (InScope(c) /\ x.answers > 0 /\ x.booked = Nothing))
  BY <1>2, <1>5 DEF CommitCall
<1>8. call' = [o \in Callers |-> IF o \in {c} THEN NoCall ELSE call[o]]
  <2>1. call' = [call EXCEPT ![c] = NoCall] /\ DOMAIN call = Callers
    BY <1>1 DEF CommitCall, Step, GatewayRows
  <2> QED BY <2>1
<1>9. /\ ~InFlight(c)' /\ \A o \in Callers \ {c} : call'[o] = call[o] /\ InFlight(o)' = InFlight(o) /\ InScope(o)' = InScope(o)
      /\ Answered' = Answered \ {c} /\ LetIn' = LetIn \ {c} /\ \A o \in Callers : Others(o)' = Others(o) \ {c}
      /\ DOMAIN call' = Callers /\ Ceiling' = Ceiling
      /\ \A o \in Callers : call'[o] = NoCall \/ (call'[o] \in CallRows /\ StageOK(call'[o]))
      /\ AtMostTwo'
  <2>1. {c} \in SUBSET Callers
    OBVIOUS
  <2> QED BY <1>1, <1>7, <1>8, <2>1, OthersLast DEF GatewayInv
<1>10. GatewayRows'
  <2>1. stored' \in [id : Nat, entry : Entries]
    <3>1. stored \in [id : Nat, entry : Entries]
      BY <1>1 DEF GatewayRows
    <3>2. x.held.kind \in {"insert", "update"} => x.held.entry \in Entries
      BY <1>3, PlanIs
    <3>3. stored' = CASE x.held.kind = "insert" -> [id |-> stored.id + 1, entry |-> x.held.entry]
                      [] x.held.kind = "update" -> [stored EXCEPT !.entry = x.held.entry]
                      [] x.held.kind = "delete" -> [stored EXCEPT !.entry = NoEntry]
                      [] OTHER -> stored
      BY <1>2 DEF CommitCall
    <3> QED BY <3>1, <3>2, <3>3, EntryIs
  <2>2. budget' \in [used : Nat, resetAt : Nat] /\ spent' \in Nat /\ dropped' \in BOOLEAN
    BY <1>1, <1>3, <1>6, <1>7 DEF GatewayRows
  <2> QED BY <1>1, <1>7, <1>9, <2>1, <2>2 DEF GatewayRows
<1>11. PICK m, n, m0, n0, all \in Nat :
           /\ m = Cardinality(Answered \ {c}) /\ n = Cardinality(LetIn \ {c}) /\ all = Cardinality(Callers)
           /\ m0 = Cardinality(Answered) /\ n0 = Cardinality(LetIn) /\ m <= m0 /\ n <= n0
  <2>1. Answered \in SUBSET Callers /\ LetIn \in SUBSET Callers /\ Answered \ {c} \in SUBSET Answered /\ LetIn \ {c} \in SUBSET LetIn
        /\ Answered \ {c} \in SUBSET Callers /\ LetIn \ {c} \in SUBSET Callers
    BY DEF Answered, LetIn
  <2> QED BY <2>1, CallsCounted
<1>12. TokenLimit \in Nat /\ TokenLimit >= 1 /\ Ceiling = TokenLimit + all
  BY <1>11, GatewayAssumption DEF Ceiling
\* A call that renews the period is alone.
<1>13. ASSUME ~crossed, Renews(x) PROVE Others(c) = {} /\ m = 0 /\ n = 0 /\ used1 <= x.answers
  <2>1. BookingOK(c, x)
    BY <1>1, <1>2, <1>13 DEF GatewayInv
  <2>2. Others(c) = {}
    BY <1>13, <2>1 DEF BookingOK
  <2>3. Answered \ {c} = {} /\ LetIn \ {c} = {}
    BY <2>2 DEF Others, Answered, LetIn
  <2>4. m = 0 /\ n = 0
    BY <1>11, <2>3, FS_EmptySet
  <2>5. used1 <= x.answers
    <3>1. CASE x.booked.used = {}
      BY <1>3, <1>4, <1>5, <1>6, <1>13, <2>1, <3>1 DEF BookingOK
    <3>2. CASE x.booked.used = {used1}
      BY <1>4, <1>13, <2>1, <3>2 DEF BookingOK
    <3> QED BY <1>6, <3>1, <3>2
  <2> QED BY <2>2, <2>4, <2>5
<1>14. ASSUME ~crossed' PROVE Within'
  <2>1. ~crossed /\ Within /\ BookingOK(c, x)
    BY <1>1, <1>2, <1>7, <1>14 DEF GatewayInv
  <2>2. used1 + m <= spent'
    <3>1. CASE Renews(x)
      BY <1>3, <1>4, <1>7, <1>13, <2>1, <3>1
    <3>2. CASE ~Renews(x) /\ x.booked.used = {}
      BY <1>4, <1>5, <1>6, <1>7, <1>11, <2>1, <3>2 DEF Within
    <3>3. CASE ~Renews(x) /\ x.booked.used = {used1}
      BY <1>4, <1>5, <1>7, <1>11, <2>1, <3>3 DEF BookingOK
    <3> QED BY <1>6, <3>1, <3>2, <3>3
  <2>3. ASSUME scope = "both" PROVE used1 < Ceiling /\ ((\A o \in Callers : ~Resets(o)') => used1 + n < Ceiling)
    <3>1. CASE x.booked.used = {used1}
      <4>1. used1 + n < Ceiling
        BY <1>4, <1>11, <2>1, <2>3, <3>1 DEF BookingOK
      <4> QED BY <1>11, <1>12, <4>1
    <3>2. CASE used1 = used /\ Renews(x)
      BY <1>5, <1>11, <1>12, <1>13, <2>1, <2>3, <3>2 DEF Within
    <3>3. CASE used1 = used /\ ~Renews(x)
      <4>1. (\A o \in Callers : ~Resets(o)') => \A o \in Callers : ~Resets(o)
        BY <1>2, <1>9, <3>3 DEF Resets, Renews
      <4> QED BY <1>5, <1>11, <1>12, <2>1, <2>3, <3>3, <4>1 DEF Within
    <3> QED BY <1>6, <3>1, <3>2, <3>3
  <2> QED BY <1>6, <1>7, <1>9, <1>11, <2>2, <2>3 DEF Within
<1>15. ASSUME ~crossed', NEW o \in Callers, InFlight(o)' PROVE BookingOK(o, call[o])'
  <2>1. ~crossed /\ o # c /\ InFlight(o) /\ call'[o] = call[o] /\ InScope(o)' = InScope(o)
    BY <1>7, <1>9, <1>15
  <2>2. PICK z \in CallRows : z = call[o] /\ z = call'[o]
    BY <1>1, <2>1, CallIs
  <2>3. BookingOK(o, z)
    BY <2>1, <2>2 DEF GatewayInv
  <2>4. o \in Others(c) /\ c \in Others(o)
    BY <1>1, <2>1 DEF Others
  <2>5. ~Renews(x) /\ ~Renews(z) /\ spent' = total
    BY <1>4, <1>7, <1>13, <2>1, <2>3, <2>4 DEF BookingOK
  <2>6. overlapped' /\ Others(o)' = {}
    BY <1>1, <1>7, <1>9, <2>1 DEF GatewayInv, AtMostTwo, GatewayRows, Others
  <2>7. PICK m1, n1, m2, n2 \in Nat :
            /\ m1 = Cardinality(Answered \ {o}) /\ n1 = Cardinality(LetIn \ {o})
            /\ m2 = Cardinality(Answered' \ {o}) /\ n2 = Cardinality(LetIn' \ {o}) /\ m2 <= m1 /\ n2 <= n1
    <3>1. /\ Answered' \ {o} \in SUBSET (Answered \ {o}) /\ LetIn' \ {o} \in SUBSET (LetIn \ {o})
          /\ Answered \ {o} \in SUBSET Callers /\ LetIn \ {o} \in SUBSET Callers
          /\ Answered' \ {o} \in SUBSET Callers /\ LetIn' \ {o} \in SUBSET Callers
      BY <1>9 DEF Answered, LetIn
    <3> QED BY <3>1, CallsCounted
  <2>8. ASSUME NEW v \in Pending(z) PROVE v + m2 <= total /\ (scope = "both" => v + n2 < Ceiling)
    <3>1. v \in Nat
      BY CallRowIs
    <3>2. v + m1 <= total /\ (scope = "both" => v + n1 < Ceiling)
      BY <1>5, <2>3, <2>7 DEF BookingOK
    <3> QED BY <1>12, <2>7, <3>1, <3>2
  <2>9. Pending(z)' = Pending(z) /\ Renews(z)' = Renews(z)
    BY DEF Pending, Renews
  <2>10. BookingOK(o, z)'
    BY <1>7, <1>9, <2>1, <2>3, <2>5, <2>6, <2>7, <2>8, <2>9 DEF BookingOK
  <2> QED BY <2>2, <2>9, <2>10 DEF BookingOK, Pending, Renews
<1>16. ~overlapped' => \A o \in Callers : ~InFlight(o)'
  BY <1>1, <1>7, <1>9 DEF GatewayInv, AtMostTwo
<1>17. ASSUME ~overlapped', ~crossed', ~dropped' PROVE budget'.used = spent'
  <2>1. ~overlapped /\ ~crossed /\ ~dropped /\ AloneOK(c, x) /\ BookingOK(c, x)
    <3>1. ~overlapped /\ ~crossed /\ ~dropped
      BY <1>7, <1>17
    <3>2. AloneOK(c, call[c]) /\ BookingOK(c, call[c])
      BY <1>1, <3>1 DEF GatewayInv
    <3> QED BY <1>2, <3>1, <3>2
  <2>2. x.answers <= 1 /\ used + (IF InScope(c) THEN x.answers ELSE 0) = total
    BY <1>3, <1>5, <2>1 DEF AloneOK
  <2>3. CASE InScope(c) /\ x.answers > 0
    <3>1. x.booked.used = {IF x.booked.resetAt # {} THEN 1 ELSE used + 1}
      BY <1>2, <1>5, <2>1, <2>3 DEF AloneOK
    <3>2. used1 = IF x.booked.resetAt # {} THEN 1 ELSE used + 1
      BY <1>6, <3>1
    <3> QED BY <1>3, <1>5, <1>6, <1>7, <2>2, <2>3, <3>2
  <2>4. CASE InScope(c) /\ x.answers = 0
    <3>1. CASE x.booked.resetAt = {}
      BY <1>3, <1>5, <1>6, <1>7, <2>2, <2>4, <3>1
    <3>2. CASE x.booked.resetAt # {}
      BY <1>4, <1>6, <1>7, <1>13, <2>1, <2>4, <3>2
    <3> QED BY <3>1, <3>2
  <2>5. CASE ~InScope(c)
    <3>1. x.booked.used = {} /\ x.booked.resetAt = {}
      BY <1>4, <2>1, <2>5 DEF BookingOK
    <3> QED BY <1>5, <1>6, <1>7, <2>2, <2>5, <3>1
  <2> QED BY <1>3, <2>3, <2>4, <2>5
<1> QED BY <1>9, <1>10, <1>14, <1>15, <1>16, <1>17 DEF GatewayInv

\* Requests end without a commit.
LEMMA AbandonKeeps ==
    ASSUME GatewayInv, NEW calls \in SUBSET Callers, \A o \in calls : InFlight(o), Abandon(calls),
           memory' \in [Workers -> Entries]
    PROVE  GatewayInv'
<1>1. GatewayRows /\ AtMostTwo
  BY DEF GatewayInv
<1>2. /\ UNCHANGED <<stored, budget, scope, now, overlapped, crossed, spent>>
      /\ dropped' = (dropped \/ \E o \in calls : InScope(o) /\ call[o].answers > 0)
      /\ call' = [c \in Callers |-> IF c \in calls THEN NoCall ELSE call[c]]
  BY DEF Abandon
<1>3. /\ \A o \in calls : ~InFlight(o)'
      /\ \A o \in Callers \ calls : call'[o] = call[o] /\ InFlight(o)' = InFlight(o) /\ InScope(o)' = InScope(o)
      /\ Answered' = Answered \ calls /\ LetIn' = LetIn \ calls
      /\ \A o \in Callers : Others(o)' = Others(o) \ calls
      /\ DOMAIN call' = Callers /\ Ceiling' = Ceiling
      /\ \A o \in Callers : call'[o] = NoCall \/ (call'[o] \in CallRows /\ StageOK(call'[o]))
      /\ AtMostTwo'
  BY <1>1, <1>2, OthersLast
<1>4. GatewayRows'
  <2>1. dropped' \in BOOLEAN
    BY <1>1, <1>2 DEF GatewayRows
  <2> QED BY <1>1, <1>2, <1>3, <2>1 DEF GatewayRows
<1>5. Answered \in SUBSET Callers /\ LetIn \in SUBSET Callers /\ Answered' \in SUBSET Callers /\ LetIn' \in SUBSET Callers
  BY DEF Answered, LetIn
<1>6. PICK m, n, m1, n1, all, used, total \in Nat :
          /\ m = Cardinality(Answered) /\ n = Cardinality(LetIn) /\ all = Cardinality(Callers)
          /\ m1 = Cardinality(Answered') /\ n1 = Cardinality(LetIn') /\ m1 <= m /\ n1 <= n
          /\ used = budget.used /\ total = spent
  <2>1. Answered' \in SUBSET Answered /\ LetIn' \in SUBSET LetIn
    BY <1>3
  <2> QED BY <1>1, <1>5, <2>1, CallsCounted DEF GatewayRows
<1>7. TokenLimit \in Nat /\ TokenLimit >= 1 /\ Ceiling = TokenLimit + all
  BY <1>6, GatewayAssumption DEF Ceiling
<1>8. ASSUME ~crossed' PROVE Within'
  <2>1. Within /\ ~crossed
    BY <1>2, <1>8 DEF GatewayInv
  <2>2. ASSUME scope = "both", \A o \in Callers : ~Resets(o)' PROVE used + n1 < Ceiling
    <3>1. CASE \A o \in Callers : ~Resets(o)
      BY <1>6, <1>7, <2>1, <2>2, <3>1 DEF Within
    <3>2. CASE \E o \in Callers : Resets(o)
      <4>1. PICK o \in Callers : Resets(o)
        BY <3>2
      <4>2. o \in calls
        BY <1>3, <2>2, <4>1 DEF Resets
      <4>3. Others(o) = {}
        BY <2>1, <4>1 DEF GatewayInv, BookingOK, Resets, Renews
      <4>4. LetIn' = {}
        BY <1>3, <4>2, <4>3 DEF Others, LetIn
      <4>5. n1 = 0
        BY <1>6, <4>4, FS_EmptySet
      <4> QED BY <1>6, <2>1, <2>2, <4>5 DEF Within
    <3> QED BY <3>1, <3>2
  <2> QED BY <1>2, <1>3, <1>6, <2>1, <2>2 DEF Within
<1>9. ASSUME ~crossed', NEW o \in Callers, InFlight(o)' PROVE BookingOK(o, call[o])'
  <2>1. ~crossed /\ o \notin calls /\ InFlight(o) /\ call'[o] = call[o] /\ InScope(o)' = InScope(o)
    BY <1>2, <1>3, <1>9
  <2>2. PICK z \in CallRows : z = call[o] /\ z = call'[o]
    BY <1>1, <2>1, CallIs
  <2>3. BookingOK(o, z)
    BY <2>1, <2>2 DEF GatewayInv
  <2>4. PICK a, b, a1, b1 \in Nat :
            /\ a = Cardinality(Answered \ {o}) /\ b = Cardinality(LetIn \ {o})
            /\ a1 = Cardinality(Answered' \ {o}) /\ b1 = Cardinality(LetIn' \ {o}) /\ a1 <= a /\ b1 <= b
    <3>1. /\ Answered' \ {o} \in SUBSET (Answered \ {o}) /\ LetIn' \ {o} \in SUBSET (LetIn \ {o})
          /\ Answered \ {o} \in SUBSET Callers /\ LetIn \ {o} \in SUBSET Callers
          /\ Answered' \ {o} \in SUBSET Callers /\ LetIn' \ {o} \in SUBSET Callers
      BY <1>3, <1>5
    <3> QED BY <3>1, CallsCounted
  <2>5. ASSUME NEW v \in Pending(z) PROVE v + a1 <= total /\ (scope = "both" => v + b1 < Ceiling)
    <3>1. v \in Nat
      BY CallRowIs
    <3>2. v + a <= total /\ (scope = "both" => v + b < Ceiling)
      BY <1>6, <2>3, <2>4 DEF BookingOK
    <3> QED BY <1>7, <2>4, <3>1, <3>2
  <2>6. Pending(z)' = Pending(z) /\ Renews(z)' = Renews(z)
    BY DEF Pending, Renews
  <2>7. Others(o) = {} => Others(o)' = {}
    BY <1>3
  <2>8. BookingOK(o, z)'
    BY <1>2, <1>3, <1>6, <2>1, <2>3, <2>4, <2>5, <2>6, <2>7 DEF BookingOK
  <2> QED BY <2>2, <2>6, <2>8 DEF BookingOK, Pending, Renews
<1>10. ASSUME ~overlapped', NEW o \in Callers, InFlight(o)' PROVE AloneOK(o, call[o])'
  <2>1. ~overlapped /\ InFlight(o) /\ call'[o] = call[o] /\ InScope(o)' = InScope(o)
    BY <1>2, <1>3, <1>10
  <2>2. PICK z \in CallRows : z = call[o] /\ z = call'[o]
    BY <1>1, <2>1, CallIs
  <2>3. AloneOK(o, call[o])
    BY <2>1 DEF GatewayInv
  <2>4. AloneOK(o, z)
    BY <2>2, <2>3 DEF AloneOK, Renews
  <2>5. SeenRow(o)' = SeenRow(o) /\ Renews(z)' = Renews(z) /\ (dropped => dropped')
    BY <1>2, <2>1 DEF SeenRow, Renews
  <2>6. AloneOK(o, z)'
    BY <1>2, <2>1, <2>4, <2>5 DEF AloneOK, Gone
  <2> QED BY <2>2, <2>6 DEF AloneOK, Renews
<1>11. ASSUME ~overlapped', ~crossed', ~dropped', \A o \in Callers : ~InFlight(o)' PROVE budget'.used = spent'
  <2>1. ~overlapped /\ ~crossed /\ ~dropped /\ \A o \in calls : ~(InScope(o) /\ call[o].answers > 0)
    BY <1>2, <1>11
  <2>2. CASE \A o \in Callers : ~InFlight(o)
    BY <1>2, <2>1, <2>2 DEF GatewayInv
  <2>3. CASE \E o \in Callers : InFlight(o)
    <3>1. PICK o \in Callers : InFlight(o)
      BY <2>3
    <3>2. o \in calls
      BY <1>3, <1>11, <3>1
    <3>3. PICK z \in CallRows : z = call[o]
      BY <1>1, <3>1, CallIs
    <3>4. budget.used + (IF InScope(o) THEN z.answers ELSE 0) = spent
      BY <2>1, <3>1, <3>3 DEF GatewayInv, AloneOK
    <3>5. z.answers \in Nat /\ ~(InScope(o) /\ z.answers > 0)
      BY <2>1, <3>2, <3>3, CallRowIs
    <3> QED BY <1>2, <1>6, <3>4, <3>5
  <2> QED BY <2>2, <2>3
<1> QED BY <1>3, <1>4, <1>8, <1>9, <1>10, <1>11 DEF GatewayInv

\* The counters are reset: by a request of its own.
LEMMA ResetKeeps ==
    ASSUME GatewayInv, ResetBudget
    PROVE  GatewayInv'
<1>1. GatewayRows /\ AtMostTwo
  BY DEF GatewayInv
<1>2. /\ UNCHANGED <<memory, stored, scope, call, now, overlapped, dropped>> /\ spent' = 0
      /\ budget' = [used |-> 0, resetAt |-> _compute_reset_at]
      /\ crossed' = (crossed \/ \E c \in Callers : InFlight(c))
  BY DEF ResetBudget
<1>3. \A o \in Callers : InFlight(o)' = InFlight(o) /\ call'[o] = call[o] /\ InScope(o)' = InScope(o) /\ SeenRow(o)' = SeenRow(o)
  BY <1>2 DEF InFlight, InScope, SeenRow
<1>4. GatewayRows' /\ AtMostTwo'
  <2>1. _compute_reset_at \in Nat
    BY <1>1, GatewayAssumption DEF _compute_reset_at, GatewayRows
  <2>2. budget' \in [used : Nat, resetAt : Nat] /\ crossed' \in BOOLEAN
    BY <1>1, <1>2, <2>1 DEF GatewayRows
  <2>3. \A x : StageOK(x)' <=> StageOK(x)
    BY DEF StageOK
  <2> QED BY <1>1, <1>2, <1>3, <2>2, <2>3 DEF GatewayRows, AtMostTwo
<1>5. ~crossed' => \A o \in Callers : ~InFlight(o)'
  BY <1>2, <1>3
<1>6. ASSUME ~crossed' PROVE Within'
  <2>1. Answered' = {} /\ LetIn' = {}
    BY <1>5, <1>6 DEF Answered, LetIn
  <2>2. PICK none \in Nat : none = 0 /\ none = Cardinality(Answered') /\ none = Cardinality(LetIn')
    BY <2>1, FS_EmptySet
  <2>3. 0 < Ceiling'
    <3>1. PICK all \in Nat : all = Cardinality(Callers)
      BY CallsCounted
    <3> QED BY <3>1, GatewayAssumption DEF Ceiling
  <2> QED BY <1>2, <2>2, <2>3 DEF Within
<1>7. ASSUME ~overlapped', NEW o \in Callers, InFlight(o)' PROVE AloneOK(o, call[o])'
  <2>1. AloneOK(o, call[o]) /\ crossed'
    BY <1>2, <1>3, <1>7 DEF GatewayInv
  <2> QED BY <1>2, <1>3, <2>1 DEF AloneOK, Gone
<1>8. budget'.used = spent'
  BY <1>2
<1> QED BY <1>4, <1>5, <1>6, <1>7, <1>8 DEF GatewayInv

\* The clock, and the memory of a process: nothing of the calls.
LEMMA RestKeeps ==
    ASSUME GatewayInv, UNCHANGED <<stored, budget, scope, call, overlapped, crossed, dropped, spent>>,
           memory' \in [Workers -> Entries], now' \in 0 .. MaxTime
    PROVE  GatewayInv'
<1>1. GatewayRows /\ AtMostTwo
  BY DEF GatewayInv
<1>2. \A o \in Callers : InFlight(o)' = InFlight(o) /\ call'[o] = call[o] /\ InScope(o)' = InScope(o) /\ SeenRow(o)' = SeenRow(o)
                         /\ Resets(o)' = Resets(o)
  BY DEF InFlight, InScope, SeenRow, Resets
<1>3. GatewayRows' /\ AtMostTwo'
  <2>1. \A x : StageOK(x)' <=> StageOK(x)
    BY DEF StageOK
  <2> QED BY <1>1, <1>2, <2>1 DEF GatewayRows, AtMostTwo
<1>4. Answered' = Answered /\ LetIn' = LetIn /\ Ceiling' = Ceiling /\ \A o \in Callers : Others(o)' = Others(o)
  BY <1>2 DEF Answered, LetIn, MayBook, Ceiling, Others
<1>5. Within => Within'
  BY <1>2, <1>4 DEF Within
<1>6. ASSUME NEW o \in Callers, BookingOK(o, call[o]) PROVE BookingOK(o, call[o])'
  <2>1. Pending(call[o])' = Pending(call[o]) /\ Renews(call[o])' = Renews(call[o])
    BY DEF Pending, Renews
  <2> QED BY <1>2, <1>4, <1>6, <2>1 DEF BookingOK
<1>7. ASSUME NEW o \in Callers, AloneOK(o, call[o]) PROVE AloneOK(o, call[o])'
  <2>1. Renews(call[o])' = Renews(call[o])
    BY DEF Renews
  <2> QED BY <1>2, <1>7, <2>1 DEF AloneOK, Gone
<1> QED BY <1>2, <1>3, <1>5, <1>6, <1>7 DEF GatewayInv

\* A call begins.
LEMMA BeginKeeps ==
    ASSUME GatewayInv, NEW c \in Callers, NEW w \in Workers, NEW named \in BOOLEAN, NEW cached \in BOOLEAN,
           BeginCall(c, w, named, cached)
    PROVE  GatewayInv'
<1>1. GatewayRows /\ AtMostTwo /\ ~overlapped /\ ~crossed /\ ~InFlight(c)
  BY DEF GatewayInv, BeginCall
<1>2. PICK y : y = NewCall(w, named, cached)
  OBVIOUS
<1>3. /\ UNCHANGED <<memory, stored, budget, scope, now, dropped, spent>> /\ call' = [call EXCEPT ![c] = y]
      /\ overlapped' \in BOOLEAN /\ (overlapped' <=> \E o \in Callers \ {c} : InFlight(o))
      /\ crossed' \in BOOLEAN /\ (crossed' <=> Crossing')
  <2>1. UNCHANGED <<memory, stored, budget, scope, now, dropped, spent>> /\ call' = [call EXCEPT ![c] = y]
    BY <1>2 DEF BeginCall
  <2>2. overlapped' \in BOOLEAN /\ (overlapped' <=> \E o \in Callers \ {c} : InFlight(o))
    BY <1>1 DEF BeginCall
  <2>3. crossed' \in BOOLEAN /\ (crossed' <=> Crossing')
    BY <1>1 DEF BeginCall
  <2> QED BY <2>1, <2>2, <2>3
<1>4. /\ y \in CallRows /\ y.at \in {"lookup", "check"} /\ y.plan = NoPlan /\ y.held = NoPlan /\ y.booked = Nothing
      /\ y.usable /\ y.answers = 0 /\ y.attempts = 0 /\ y.age = 0 /\ y.named = named
  <2>1. NoPlan \in Plans /\ Nothing \in [used : Optionally(Nat), resetAt : Optionally(Nat)]
    BY EntryIs DEF Plans
  <2>2. 0 \in 0 .. MaxAttempts /\ 0 \in Int
    BY GatewayAssumption
  <2> QED BY <1>2, <2>1, <2>2 DEF NewCall, CallRows
<1>5. NoPlan.kind = "none"
  BY DEF NoPlan
<1>6. StageOK(y)
  BY <1>4, <1>5, GatewayAssumption, EntryIs DEF StageOK
<1>7. Pending(y) = {} /\ ~Renews(y) /\ y.plan.kind # "book" /\ ~MayBook(y)
  BY <1>4, <1>5, EntryIs DEF Pending, Renews, MayBook
<1>8. /\ call'[c] = y /\ InFlight(c)'
      /\ \A o \in Callers \ {c} : call'[o] = call[o] /\ InFlight(o)' = InFlight(o) /\ InScope(o)' = InScope(o)
      /\ DOMAIN call' = Callers
  <2>1. y # NoCall
    BY <1>4 DEF NoCall
  <2> QED BY <1>1, <1>3, <2>1 DEF GatewayRows, InFlight, InScope
<1>9. GatewayRows'
  <2>1. \A o \in Callers : call'[o] = NoCall \/ (call'[o] \in CallRows /\ StageOK(call'[o]))
    BY <1>1, <1>4, <1>6, <1>8 DEF GatewayRows
  <2>2. \A x : StageOK(x)' <=> StageOK(x)
    BY DEF StageOK
  <2> QED BY <1>1, <1>3, <1>8, <2>1, <2>2 DEF GatewayRows
<1>10. AtMostTwo'
  <2>1. ASSUME ~overlapped' PROVE \A o \in Callers \ {c} : ~InFlight(o)
    BY <1>3, <2>1
  <2> QED BY <1>1, <1>8, <2>1 DEF AtMostTwo
<1>11. /\ Answered' = Answered /\ LetIn' = LetIn /\ Ceiling' = Ceiling
       /\ \A o \in Callers \ {c} : Others(o)' = Others(o) \cup {c}
       /\ ~Resets(c)' /\ \A o \in Callers \ {c} : Resets(o)' = Resets(o)
  <2>1. Answered' = Answered /\ LetIn' = LetIn
    BY <1>1, <1>4, <1>7, <1>8 DEF Answered, LetIn, MayBook
  <2>2. ~Resets(c)' /\ \A o \in Callers \ {c} : Resets(o)' = Resets(o)
    BY <1>7, <1>8 DEF Resets, Renews
  <2>3. \A o \in Callers \ {c} : Others(o)' = Others(o) \cup {c}
    BY <1>8 DEF Others
  <2> QED BY <2>1, <2>2, <2>3 DEF Ceiling
<1>12. ASSUME ~crossed' PROVE Within'
  <2>1. Within /\ ~Resets(c)
    BY <1>1 DEF GatewayInv, Resets
  <2>2. (\A o \in Callers : ~Resets(o)') => \A o \in Callers : ~Resets(o)
    BY <1>11, <2>1
  <2> QED BY <1>3, <1>11, <2>1, <2>2 DEF Within
<1>13. ASSUME ~crossed', NEW o \in Callers, InFlight(o)' PROVE BookingOK(o, call[o])'
  <2>1. CASE o = c
    <3>1. BookingOK(c, y)'
      BY <1>7, BookingNothing
    <3> QED BY <1>8, <2>1, <3>1 DEF BookingOK, Renews, Pending
  <2>2. CASE o # c
    <3>1. InFlight(o) /\ call'[o] = call[o] /\ InScope(o)' = InScope(o)
      BY <1>8, <1>13, <2>2
    <3>2. PICK z : z = call[o] /\ z = call'[o]
      BY <3>1
    <3>3. BookingOK(o, call[o])
      BY <1>1, <3>1 DEF GatewayInv
    <3>4. BookingOK(o, z)
      BY <3>2, <3>3 DEF BookingOK, Renews, Pending
    <3>5. ~Renews(z)
      <4>1. ~Resets(o)'
        BY <1>3, <1>8, <1>13, <2>2 DEF Crossing
      <4> QED BY <1>13, <3>2, <4>1 DEF Resets, Renews
    <3>6. Pending(z)' = Pending(z) /\ Renews(z)' = Renews(z)
      BY DEF Pending, Renews
    <3>7. Answered' \ {o} = Answered \ {o} /\ LetIn' \ {o} = LetIn \ {o}
      BY <1>11
    <3>8. \A v \in Pending(z) : v <= budget.used + 1
      BY <1>1, <3>4 DEF BookingOK
    <3>9. BookingOK(o, z)'
      BY <1>3, <1>11, <3>1, <3>4, <3>5, <3>6, <3>7, <3>8 DEF BookingOK
    <3> QED BY <3>2, <3>6, <3>9 DEF BookingOK, Renews, Pending
  <2> QED BY <2>1, <2>2
<1>14. ASSUME ~overlapped', NEW o \in Callers, InFlight(o)' PROVE AloneOK(o, call[o])'
  <2>1. \A p \in Callers : ~InFlight(p)
    BY <1>1, <1>3, <1>14
  <2>2. o = c
    BY <1>8, <1>14, <2>1
  <2>3. ~dropped => budget.used = spent /\ budget.used + 0 = spent
    BY <1>1, <2>1 DEF GatewayInv, GatewayRows
  <2>4. Renews(y)' <=> Renews(y)
    BY DEF Renews
  <2>5. AloneOK(c, y)'
    BY <1>3, <1>4, <1>5, <2>3, <2>4 DEF AloneOK
  <2> QED BY <1>8, <2>2, <2>5 DEF AloneOK, Renews
<1> QED BY <1>8, <1>9, <1>10, <1>12, <1>13, <1>14 DEF GatewayInv

\* Nothing has been spent at the start.
LEMMA GatewayInitInv == GatewayInit => GatewayInv
<1> SUFFICES ASSUME GatewayInit PROVE GatewayInv
  OBVIOUS
<1>1. \A o \in Callers : call[o] = NoCall /\ ~InFlight(o)
  BY DEF GatewayInit, InFlight
<1>2. Answered = {} /\ LetIn = {}
  BY <1>1 DEF Answered, LetIn
<1>3. PICK none \in Nat : none = 0 /\ none = Cardinality(Answered) /\ none = Cardinality(LetIn)
  BY <1>2, FS_EmptySet
<1>4. 0 < Ceiling
  <2>1. PICK all \in Nat : all = Cardinality(Callers)
    BY CallsCounted
  <2> QED BY <2>1, GatewayAssumption DEF Ceiling
<1>5. GatewayRows
  <2>1. Period \in Nat /\ 0 \in 0 .. MaxTime
    BY GatewayAssumption
  <2> QED BY <1>1, <2>1, EntryIs DEF GatewayInit, GatewayRows
<1> QED BY <1>1, <1>3, <1>4, <1>5 DEF GatewayInit, GatewayInv, AtMostTwo, Within

\* Every step keeps what the calls have and what they will write.
LEMMA GatewayStepInv == GatewayInv /\ [GatewayNext]_gatewayVars => GatewayInv'
<1> SUFFICES ASSUME GatewayInv, [GatewayNext]_gatewayVars PROVE GatewayInv'
  OBVIOUS
<1>1. GatewayRows
  BY DEF GatewayInv
<1>2. CASE Tick
  <2>1. now' \in 0 .. MaxTime
    BY <1>1, <1>2, GatewayAssumption DEF Tick, GatewayRows
  <2> QED BY <1>1, <1>2, <2>1, RestKeeps DEF Tick, gatewayHistory, GatewayRows
<1>3. CASE ResetBudget
  BY <1>3, ResetKeeps
<1>4. ASSUME NEW w \in Workers, RestartWorker(w) PROVE GatewayInv'
  <2>1. PICK calls : calls = {o \in Callers : InFlight(o) /\ call[o].worker = w} /\ Abandon(calls)
    BY <1>4 DEF RestartWorker
  <2>2. memory' \in [Workers -> Entries]
    BY <1>1, <1>4, EntryIs DEF RestartWorker, GatewayRows
  <2> QED BY <2>1, <2>2, AbandonKeeps
<1>5. ASSUME NEW w \in Workers, ClearCache(w) PROVE GatewayInv'
  <2>1. memory' \in [Workers -> Entries] /\ now' \in 0 .. MaxTime
    BY <1>1, <1>5, EntryIs DEF ClearCache, GatewayRows
  <2> QED BY <1>5, <2>1, RestKeeps DEF ClearCache, gatewayHistory
<1>6. ASSUME NEW c \in Callers, RollbackCall(c) PROVE GatewayInv'
  <2>1. InFlight(c) /\ Abandon({c}) /\ memory' \in [Workers -> Entries]
    BY <1>1, <1>6, CallIs DEF RollbackCall, GatewayRows
  <2> QED BY <2>1, AbandonKeeps
<1>7. ASSUME NEW c \in Callers, Works(c) PROVE GatewayInv'
  BY <1>6, <1>7, LookupKeeps, CheckKeeps, ProviderKeeps, StoreKeeps, RecordKeeps, CommitKeeps DEF Works
<1>8. ASSUME NEW c \in Callers, Waits(c) PROVE GatewayInv'
  BY <1>8, FlushKeeps, DeadlockKeeps DEF Waits
<1>9. CASE UNCHANGED gatewayVars
  BY <1>1, <1>9, RestKeeps DEF gatewayVars, gatewayHistory, GatewayRows
<1> QED BY <1>2, <1>3, <1>4, <1>5, <1>7, <1>8, <1>9, BeginKeeps DEF GatewayNext

\* The rows are well formed, and what was spent is accounted for.
LEMMA GatewayInvSafe == GatewayInv => GatewayTypeOK /\ SpendingAccounted
<1> SUFFICES ASSUME GatewayInv PROVE GatewayTypeOK /\ SpendingAccounted
  OBVIOUS
<1>1. GatewayRows
  BY DEF GatewayInv
<1>2. \A c \in Callers : InFlight(c) => call[c].attempts \in 0 .. MaxAttempts /\ call[c].age <= Ttl
                                      /\ call[c].answers \in Nat /\ (call[c].usable => call[c].answers <= 1)
  BY <1>1, CallIs, CallRowIs DEF StageOK
<1>3. GatewayTypeOK
  BY <1>1, <1>2, EntryIs DEF GatewayTypeOK, GatewayRows
<1>4. ServedInTime /\ PaidOnce
  BY <1>2 DEF ServedInTime, PaidOnce, GatewayInv, AloneOK
<1>5. OverrunBounded
  BY DEF OverrunBounded, GatewayInv, Within, Ceiling
<1>6. BookedWasSpent
  <2>1. ASSUME ~crossed PROVE budget.used <= spent
    <3>1. Answered \in SUBSET Callers
      BY DEF Answered
    <3>2. PICK m, used, total \in Nat : m = Cardinality(Answered) /\ used = budget.used /\ total = spent
      BY <1>1, <3>1, CallsCounted DEF GatewayRows
    <3> QED BY <2>1, <3>2 DEF GatewayInv, Within
  <2> QED BY <2>1 DEF BookedWasSpent, GatewayInv
<1> QED BY <1>3, <1>4, <1>5, <1>6 DEF SpendingAccounted

\* Over the gateway alone: the counters never exceed what the provider gave, a
\* budget is overrun by no more than the calls let in together, a call alone
\* books what it got and pays once, and no answer is served after its term.
THEOREM SpendingIsAccounted == GatewaySpec => [](GatewayTypeOK /\ SpendingAccounted)
<1> QED BY GatewayInitInv, GatewayStepInv, GatewayInvSafe, PTL DEF GatewaySpec

------------------------------------------------------------------------------
(* All, as they are run together                                              *)

\* The composition gives each part behaviours of its own specification.
LEMMA PartsRun == MCSpec => SuggestionsSpec /\ TasksSpec /\ GatewaySpec
<1>1. MCInit => SuggestionsInit /\ TasksInit /\ GatewayInit
  BY DEF MCInit
<1>2. [MCNext]_aiVars => [SuggestionsNext]_suggestionVars /\ [TasksNext]_taskVars /\ [GatewayNext]_gatewayVars
  BY DEF MCNext, Caching, Budgeting, aiVars
<1> QED BY <1>1, <1>2, PTL DEF MCSpec, SuggestionsSpec, TasksSpec, GatewaySpec

\* Decisions stand: of reviewers, and of background tasks.
THEOREM DecisionsStand == MCSpec => VerdictsStand
BY PartsRun, SuggestionsEndorsed, SuggestionsStand, RegistryIsAlive, TasksStand, PTL DEF VerdictsStand

\* The rows of all parts stay well formed, and what was spent is accounted for.
THEOREM SpendingCoheres == MCSpec => []SpendingCoherent
<1>1. ReviewInv => SuggestionsTypeOK
  BY DEF ReviewInv
<1>2. TaskInv => TasksTypeOK
  BY DEF TaskInv
<1>3. SuggestionsSpec => []SuggestionsTypeOK
  BY <1>1, ReviewInitInv, ReviewStepInv, PTL DEF SuggestionsSpec
<1>4. TasksSpec => []TasksTypeOK
  BY <1>2, TaskInitInv, TaskStepInv, PTL DEF TasksSpec
<1>5. SuggestionsTypeOK /\ TasksTypeOK /\ GatewayTypeOK /\ SpendingAccounted => SpendingCoherent
  BY DEF SpendingCoherent, AiTypeOK
<1> QED BY <1>3, <1>4, <1>5, PartsRun, SpendingIsAccounted, PTL
==============================================================================
