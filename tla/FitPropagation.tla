---------------------------- MODULE FitPropagation ----------------------------
(* The fit decisions of the explore phase.  A workshop decides steps, each    *)
(* about one L4 process; decisions go up to the L4's status, the L3's         *)
(* suggested and consolidated fit and the L2's readiness, which the area is   *)
(* confirmed on.  Beside the workshops the business signs off and overrides   *)
(* L3s, and the hierarchy is edited without any propagation.                  *)
EXTENDS Naturals, FiniteSets

CONSTANTS
    L3s, L4s,       \* the scope items and processes under one L2
    Parent,         \* the L3 of each L4
    Workshops,
    Decisions,      \* the decisions taken in workshops and by the business
    MaxByHand,      \* bound: decisions and edits outside the workshops
    FitThreads      \* threads serving requests

ASSUME FitAssumption ==
    /\ IsFiniteSet(L3s)
    /\ Parent \in [L4s -> L3s]
    /\ Decisions \subseteq {"fit", "gap", "partial_fit"}
    /\ MaxByHand \in Nat

VARIABLES
    tree,           \* the ProcessLevel rows: the L2, the L3s and the L4s
    step,           \* the fit_decision of each ProcessStep, by workshop and L4
    workshop,       \* the ExploreWorkshop rows
    fitJob,         \* what each thread is about to do or to commit
    byHand,         \* decisions and edits outside the workshops so far
    fitRaced,       \* history: a request began or committed while another was running
    outdated,       \* history: L3s with changes nothing has propagated since
    unread          \* history: an L3 has changed without a look at its L2 since

fitVars == <<tree, step, workshop, fitJob, byHand, fitRaced, outdated, unread>>

Undecided == "none"
Pending == "pending"            \* given to a process when it is created
Rated == Decisions \cup {Undecided, Pending}
NoStep == "absent"
Confirmed == {"confirmed"}      \* with or without risks
FitFree == [op |-> "free"]

InScope(h) == {y \in L3s : h.l3[y].scope = "in_scope"}
ChildrenOf(h, y) == {x \in L4s : Parent[x] = y /\ h.l4[x].scope = "in_scope"}
StepsOf(w) == {x \in L4s : step[w, x] # NoStep}
Decided(w) == {x \in StepsOf(w) : step[w, x] # Undecided}

\* rated: the processes created with a fit, of which no suggestion knows.
FitRows(rated) ==
    /\ tree = [l2 |-> [readiness |-> 0, confirmation |-> "none"],
               l3 |-> [y \in L3s |-> [scope |-> "in_scope", suggested |-> Undecided,
                                      decision |-> Undecided, override |-> FALSE]],
               l4 |-> [x \in L4s |-> [scope |-> "in_scope",
                                      fit |-> IF x \in rated THEN Pending ELSE Undecided]]]
    /\ outdated = {Parent[x] : x \in rated}
    /\ step = [p \in Workshops \X L4s |-> NoStep]
    /\ workshop = [w \in Workshops |-> [status |-> "none", final |-> FALSE]]
    /\ fitJob = [t \in FitThreads |-> FitFree]
    /\ byHand = 0
    /\ fitRaced = FALSE
    /\ unread = FALSE

FitInit == \E rated \in SUBSET L4s : FitRows(rated)

------------------------------------------------------------------------------
(* The propagation, from a hierarchy to a hierarchy                           *)

\* Mutant: processes nobody has decided yet do not count.
DecidedChildrenOnly(h, y) ==
    LET found == {h.l4[x].fit : x \in ChildrenOf(h, y)} \ {Undecided}
    IN  IF found = {} THEN Undecided
        ELSE IF Cardinality(found) = 1 THEN CHOOSE f \in found : TRUE
        ELSE "partial_fit"

\* A pending process counts as an assessed one.
SystemSuggestedFit(h, y) ==
    LET found == {h.l4[x].fit : x \in ChildrenOf(h, y)}
    IN  IF found \subseteq {Undecided} THEN Undecided
        ELSE IF found \in {{"fit"}, {"gap"}} THEN CHOOSE f \in found : TRUE
        ELSE "partial_fit"

\* Mutant: the suggestion replaces an override.
NoOverride(l3) == FALSE

Overridden(l3) == l3.override

RecalculateL3Consolidated(h, ys) ==
    LET fit(y) == SystemSuggestedFit(h, y)
        decision(y) == IF Overridden(h.l3[y]) THEN h.l3[y].decision ELSE fit(y)
    IN  [h EXCEPT !.l3 = [y \in L3s |->
            IF y \in ys THEN [h.l3[y] EXCEPT !.suggested = fit(y), !.decision = decision(y)]
            ELSE h.l3[y]]]

\* An L2 without L3s in scope keeps its confirmation status.
RecalculateL2Readiness(h) ==
    LET assessed == {y \in InScope(h) : h.l3[y].decision # Undecided}
        readiness == (100 * Cardinality(assessed)) \div Cardinality(InScope(h))
    IN  IF InScope(h) = {} THEN [h EXCEPT !.l2.readiness = 0]
        ELSE [h EXCEPT !.l2 =
                 [readiness |-> readiness,
                  confirmation |-> IF @.confirmation \in Confirmed THEN @.confirmation
                                   ELSE IF readiness >= 100 THEN "ready" ELSE "not_ready"]]

\* Mutant: the L2 is left alone.
PropagateToL3(h, decided, final) ==
    LET known == [h EXCEPT !.l4 = [x \in L4s |->
                     IF x \in DOMAIN decided THEN [h.l4[x] EXCEPT !.fit = decided[x]] ELSE h.l4[x]]]
    IN  IF final THEN RecalculateL3Consolidated(known, {Parent[x] : x \in DOMAIN decided}) ELSE known

\* decided: the decision about each of some L4s.
PropagateFit(h, decided, final) ==
    LET known == [h EXCEPT !.l4 = [x \in L4s |->
                     IF x \in DOMAIN decided THEN [h.l4[x] EXCEPT !.fit = decided[x]] ELSE h.l4[x]]]
    IN  IF final /\ DOMAIN decided # {}
        THEN RecalculateL2Readiness(RecalculateL3Consolidated(known, {Parent[x] : x \in DOMAIN decided}))
        ELSE known

RecalculateProjectHierarchy(h) ==
    RecalculateL2Readiness(RecalculateL3Consolidated(h, InScope(h)))

------------------------------------------------------------------------------
(* Requests.  The ones that take a decision in a workshop, or confirm the     *)
(* area, are split into what they read and their commit, the others are one   *)
(* transaction.                                                               *)

Overlap == fitRaced \/ \E t \in FitThreads : fitJob[t].op = "write"

\* Only attributes that differ from the loaded row are written.
Differing(before, after) == [a \in {b \in DOMAIN before : after[b] # before[b]} |-> after[a]]
Rows(before, after) == [r \in DOMAIN before |-> Differing(before[r], after[r])]

Written(before, set) == [a \in DOMAIN before |-> IF a \in DOMAIN set THEN set[a] ELSE before[a]]

IsFinal(w) == workshop[w].final

\* The decision about one process, or about one step.
About(p, decision) == [q \in {p} |-> decision]

\* What a decision about x leads to, on top of what else the request writes.
Prepared(x, decision, final, steps) ==
    LET after == IF decision = Undecided THEN tree ELSE PropagateFit(tree, About(x, decision), final)
        parent == IF decision = Undecided THEN {} ELSE {Parent[x]}
    IN  [op |-> "write", step |-> steps, l2 |-> Differing(tree.l2, after.l2),
         l3 |-> Rows(tree.l3, after.l3), l4 |-> Rows(tree.l4, after.l4),
         recalculated |-> IF final THEN parent ELSE {},
         left |-> IF final THEN {} ELSE parent, looked |-> final /\ parent # {}]

Prepare(t, job) ==
    /\ fitJob' = [fitJob EXCEPT ![t] = job]
    /\ fitRaced' = Overlap
    /\ UNCHANGED <<tree, step, workshop, byHand, outdated, unread>>

\* A step is decided, or its decision taken back, whatever the workshop's status.
UpdateProcessStep(t, w, x, decision) ==
    /\ fitJob[t] = FitFree /\ x \in StepsOf(w)
    /\ Prepare(t, Prepared(x, decision, IsFinal(w), About(<<w, x>>, decision)))

\* The second endpoint commits the decision first, ...
SetFitDecision(t, w, x, decision) ==
    /\ fitJob[t] = FitFree /\ x \in StepsOf(w)
    /\ step' = [step EXCEPT ![<<w, x>>] = decision]
    /\ fitJob' = [fitJob EXCEPT ![t] = [op |-> "decided", at |-> <<w, x>>]]
    /\ fitRaced' = Overlap
    /\ UNCHANGED <<tree, workshop, byHand, outdated, unread>>

\* ... then reads it again and propagates it, as if the session were final.
PropagateDecision(t) ==
    /\ fitJob[t].op = "decided"
    /\ LET at == fitJob[t].at
       IN  Prepare(t, Prepared(at[2], step[at], TRUE, << >>))

\* Its failure is logged and the answer is the same.
AbandonPropagation(t) ==
    /\ fitJob[t].op = "decided"
    /\ fitJob' = [fitJob EXCEPT ![t] = FitFree]
    /\ UNCHANGED <<tree, step, workshop, byHand, fitRaced, outdated, unread>>

CommitDecision(t) ==
    /\ fitJob[t].op = "write"
    /\ LET job == fitJob[t]
       IN  /\ step' = Written(step, job.step)
           /\ tree' = [l2 |-> Written(tree.l2, job.l2),
                       l3 |-> [y \in L3s |-> Written(tree.l3[y], job.l3[y])],
                       l4 |-> [x \in L4s |-> Written(tree.l4[x], job.l4[x])]]
           /\ outdated' = (outdated \ job.recalculated) \cup job.left
           /\ unread' = (unread /\ ~job.looked)
    /\ fitJob' = [fitJob EXCEPT ![t] = FitFree]
    /\ UNCHANGED <<workshop, byHand, fitRaced>>

\* A request that changes the hierarchy at once: the L3s it recalculates, the
\* ones it leaves behind.
Replace(h, recalculated, left) ==
    /\ tree' = h
    /\ outdated' = (outdated \ recalculated) \cup left
    /\ fitRaced' = Overlap

ByHand == byHand < MaxByHand /\ byHand' = byHand + 1

------------------------------------------------------------------------------
(* Workshops                                                                  *)

CreateWorkshop(w, final) ==
    /\ workshop[w].status = "none"
    /\ workshop' = [workshop EXCEPT ![w] = [status |-> "draft", final |-> final]]
    /\ UNCHANGED <<tree, step, fitJob, byHand, fitRaced, outdated, unread>>

\* A delta design is a session of its own, the only one.
CreateDeltaWorkshop(w) ==
    /\ \E original \in Workshops : workshop[original].status = "completed"
    /\ CreateWorkshop(w, TRUE)

\* Steps for the processes in scope; carrying steps over from an earlier
\* session finds none, since it is given this one.
StartWorkshop(w) ==
    /\ workshop[w].status = "draft"
    /\ workshop' = [workshop EXCEPT ![w].status = "in_progress"]
    /\ step' = [p \in Workshops \X L4s |->
           IF p[1] = w /\ step[p] = NoStep /\ tree.l4[p[2]].scope = "in_scope" THEN Undecided ELSE step[p]]
    /\ fitRaced' = Overlap
    /\ UNCHANGED <<tree, fitJob, byHand, outdated, unread>>

\* The governance gate wants all steps of the last session decided.
CompleteWorkshop(w, force) ==
    /\ workshop[w].status = "in_progress"
    /\ IsFinal(w) /\ ~force => Decided(w) = StepsOf(w)
    /\ workshop' = [workshop EXCEPT ![w].status = "completed"]
    /\ IF IsFinal(w)
       THEN Replace(PropagateFit(tree, [x \in Decided(w) |-> step[w, x]], TRUE),
                    {Parent[x] : x \in Decided(w)}, {})
       ELSE Replace(tree, {}, {})
    /\ unread' = (unread /\ ~ (IsFinal(w) /\ Decided(w) # {}))
    /\ UNCHANGED <<step, fitJob, byHand>>

ReopenWorkshop(w) ==
    /\ workshop[w].status = "completed"
    /\ workshop' = [workshop EXCEPT ![w].status = "in_progress"]
    /\ UNCHANGED <<tree, step, fitJob, byHand, fitRaced, outdated, unread>>

------------------------------------------------------------------------------
(* The business                                                               *)

Decide(h, y, decision, override) ==
    [h EXCEPT !.l3[y] = [h.l3[y] EXCEPT !.decision = decision, !.override = override]]

\* Agreeing with the suggestion, or deciding without one, is no override.
SignoffL3(y, decision, force) ==
    /\ force \/ \A x \in ChildrenOf(tree, y) : tree.l4[x].fit # Undecided
    /\ LET override == tree.l3[y].suggested \notin {Undecided, decision}
       IN  Replace(RecalculateL2Readiness(Decide(tree, y, decision, override)), {}, {})
    /\ unread' = FALSE
    /\ ByHand
    /\ UNCHANGED <<step, workshop, fitJob>>

\* The L2 is not looked at.
OverrideL3Fit(y, decision) ==
    /\ Replace(Decide(tree, y, decision, TRUE), {}, {})
    /\ unread' = TRUE
    /\ ByHand
    /\ UNCHANGED <<step, workshop, fitJob>>

ConsolidateFit(y) ==
    /\ Replace(RecalculateL2Readiness(RecalculateL3Consolidated(tree, {y})), {y}, {})
    /\ unread' = FALSE
    /\ UNCHANGED <<step, workshop, fitJob, byHand>>

\* Mutant: the stored readiness is taken for granted.
StoredReadiness == tree

FreshReadiness == RecalculateL2Readiness(tree)

Confirmation(status) ==
    [op |-> "write", step |-> << >>,
     l2 |-> Differing(tree.l2, [FreshReadiness.l2 EXCEPT !.confirmation = status]),
     l3 |-> Rows(tree.l3, tree.l3), l4 |-> Rows(tree.l4, tree.l4),
     recalculated |-> {}, left |-> {}, looked |-> TRUE]

\* The readiness is computed again; a refusal commits nothing.
ConfirmL2(t, status) ==
    /\ fitJob[t] = FitFree
    /\ FreshReadiness.l2.readiness >= 100
    /\ Prepare(t, Confirmation(status))

RunFitPropagation ==
    /\ Replace(RecalculateProjectHierarchy(tree), InScope(tree), {})
    /\ unread' = FALSE
    /\ UNCHANGED <<step, workshop, fitJob, byHand>>

------------------------------------------------------------------------------
(* Edits, none of which propagates                                            *)

Edit(h, left) ==
    /\ ByHand
    /\ Replace(h, {}, left)
    /\ UNCHANGED <<step, fitJob>>

\* By hand, or by the implementation of a scope change request.
UpdateL3(y, scope) ==
    /\ tree.l3[y].scope # scope
    /\ Edit([tree EXCEPT !.l3[y].scope = scope], {y})
    /\ unread' = TRUE
    /\ UNCHANGED workshop

UpdateL4(x, scope, fit) ==
    /\ tree.l4[x].scope # "deleted"
    /\ tree.l4[x] # [scope |-> scope, fit |-> fit]
    /\ Edit([tree EXCEPT !.l4[x] = [scope |-> scope, fit |-> fit]], {Parent[x]})
    /\ UNCHANGED <<workshop, unread>>

HasNoSteps(x) == \A w \in Workshops : step[w, x] = NoStep

\* Steps keep their L4 from being deleted.
DeleteL4(x) ==
    /\ tree.l4[x].scope # "deleted" /\ HasNoSteps(x)
    /\ Edit([tree EXCEPT !.l4[x].scope = "deleted"], {Parent[x]})
    /\ UNCHANGED <<workshop, unread>>

AddL4(x, row) ==
    /\ tree.l4[x].scope = "deleted"
    /\ Edit([tree EXCEPT !.l4[x] = row], {Parent[x]})
    /\ UNCHANGED <<workshop, unread>>

\* Below an L3, by name or from the catalog: without a fit.
AddL4Child(x, scope) == AddL4(x, [scope |-> scope, fit |-> Undecided])

\* In the hierarchy, alone or in bulk: with a fit, pending unless the request
\* has another.
CreateProcessLevel(x, scope, fit) == AddL4(x, [scope |-> scope, fit |-> fit])

\* A workshop's status and number of sessions are fields like any other.
UpdateWorkshop(w, row) ==
    /\ workshop[w].status # "none" /\ row # workshop[w]
    /\ Edit(tree, {})
    /\ workshop' = [workshop EXCEPT ![w] = row]
    /\ UNCHANGED unread

FitRequests ==
    \/ \E t \in FitThreads, w \in Workshops, x \in L4s, d \in Decisions \cup {Undecided} :
        UpdateProcessStep(t, w, x, d) \/ SetFitDecision(t, w, x, d)
    \/ \E w \in Workshops :
        \/ StartWorkshop(w) \/ ReopenWorkshop(w) \/ CreateDeltaWorkshop(w)
        \/ \E b \in BOOLEAN : CreateWorkshop(w, b) \/ CompleteWorkshop(w, b)
        \/ \E s \in {"draft", "in_progress", "completed"}, f \in BOOLEAN :
            UpdateWorkshop(w, [status |-> s, final |-> f])
    \/ \E y \in L3s :
        \/ ConsolidateFit(y)
        \/ \E d \in Decisions : OverrideL3Fit(y, d) \/ \E b \in BOOLEAN : SignoffL3(y, d, b)
        \/ \E s \in {"in_scope", "out_of_scope"} : UpdateL3(y, s)
    \/ \E x \in L4s :
        \/ DeleteL4(x)
        \/ \E s \in {"in_scope", "out_of_scope"} :
            \/ AddL4Child(x, s)
            \/ \E f \in Rated : UpdateL4(x, s, f) \/ CreateProcessLevel(x, s, f)
    \/ \E t \in FitThreads, s \in Confirmed : ConfirmL2(t, s)

\* Bound: after two requests have overlapped none begins but the full
\* recalculation.
FitNext ==
    \/ ~fitRaced /\ FitRequests
    \/ \E t \in FitThreads : PropagateDecision(t) \/ AbandonPropagation(t) \/ CommitDecision(t)
    \/ RunFitPropagation

FitSpec == FitInit /\ [][FitNext]_fitVars

------------------------------------------------------------------------------
(* Properties                                                                 *)

FitTypeOK ==
    /\ tree.l2.readiness \in 0 .. 100
    /\ tree.l2.confirmation \in Confirmed \cup {"none", "not_ready", "ready"}
    /\ \A y \in L3s :
        /\ tree.l3[y].scope \in {"in_scope", "out_of_scope"}
        /\ {tree.l3[y].suggested, tree.l3[y].decision} \subseteq {Undecided, "fit", "gap", "partial_fit"}
    /\ \A w \in Workshops, x \in L4s :
        step[w, x] # NoStep => workshop[w].status # "none" /\ tree.l4[x].scope # "deleted"

\* The suggestion is all processes' fit or gap, none when no process has a
\* status, and partial fit otherwise -- pending being a status, also when no
\* process has any other: whichever of the requests changed a process last, as
\* long as they do not overlap.  Only edits of the hierarchy, processes created
\* with a status and interim sessions leave an L3 behind.
SuggestionCurrent ==
    ~fitRaced => \A y \in L3s \ outdated :
        LET fits(f) == {x \in ChildrenOf(tree, y) : tree.l4[x].fit = f}
            children == ChildrenOf(tree, y)
        IN  CASE children = fits(Undecided) -> tree.l3[y].suggested = Undecided
              [] children # {} /\ children = fits("fit") -> tree.l3[y].suggested = "fit"
              [] children # {} /\ children = fits("gap") -> tree.l3[y].suggested = "gap"
              [] OTHER -> tree.l3[y].suggested = "partial_fit"

\* "Business can override system suggestion at L3": a consolidated decision
\* that differs from the suggestion is an override, or was signed off when
\* there was no suggestion; and an override is a decision.
DecisionExplained ==
    ~fitRaced => \A y \in L3s :
        IF tree.l3[y].override THEN tree.l3[y].decision # Undecided
        ELSE tree.l3[y].suggested \in {Undecided, tree.l3[y].decision}

\* The rows are well formed, and suggestion, decision and override flag of each
\* L3 agree with its processes and with each other.
ConsolidationAgrees == FitTypeOK /\ SuggestionCurrent /\ DecisionExplained

\* An overridden decision changes by sign-off or another override only.
OverrideStands ==
    [][\A y \in L3s :
          ~fitRaced' /\ tree.l3[y].override /\ tree'.l3[y].decision # tree.l3[y].decision =>
              \E d \in Decisions : OverrideL3Fit(y, d) \/ \E b \in BOOLEAN : SignoffL3(y, d, b)]_fitVars

\* The stored readiness is the share of L3s with a decision, overrides and
\* scope changes since the last look apart.
ReadinessCurrent ==
    ~fitRaced /\ ~unread => tree.l2.readiness = RecalculateL2Readiness(tree).l2.readiness

Confirms(job) ==
    job.op = "write" /\ "confirmation" \in DOMAIN job.l2 /\ job.l2["confirmation"] \in Confirmed

BecomesConfirmed == tree'.l2.confirmation \in Confirmed /\ tree.l2.confirmation \notin Confirmed

\* The partial fit that pending processes lead to is a decision as well.
AreaDecided == InScope(tree) # {} /\ \A y \in InScope(tree) : tree.l3[y].decision # Undecided

\* A confirmation is begun only with a decision for each of the area's L3s in
\* scope, and at least one of them, also when the stored readiness is stale; an
\* area becomes confirmed by nothing else, and when no other request came in
\* between, all of that still holds.
ConfirmedWasDecided ==
    [][/\ \A t \in FitThreads : Confirms(fitJob'[t]) /\ ~Confirms(fitJob[t]) => AreaDecided
       /\ BecomesConfirmed => /\ \E t \in FitThreads : Confirms(fitJob[t])
                              /\ ~fitRaced' => AreaDecided]_fitVars

\* "Propagation only on final session of multi-session workshops (GAP-10)":
\* what a decision of an interim session is about to write is about no L3.
InterimStaysBelow ==
    [][\A t \in FitThreads, w \in Workshops, x \in L4s :
          fitJob[t] = [op |-> "decided", at |-> <<w, x>>] /\ ~IsFinal(w) /\ PropagateDecision(t) =>
              \A y \in L3s : DOMAIN fitJob'[t].l3[y] = {}]_fitVars
==============================================================================
