------------------------------- MODULE FitProofs -------------------------------
(* Proofs about the fit decisions of the explore phase, for any number of     *)
(* scope items, processes, workshops and threads.                             *)
EXTENDS FitPropagation, FiniteSetTheorems, TLAPS

Fits == {Undecided, "fit", "gap", "partial_fit"}
Taken == Decisions \cup {Undecided}
L2Rows == [readiness : 0 .. 100, confirmation : Confirmed \cup {"none", "not_ready", "ready"}]
L3Rows == [scope : {"in_scope", "out_of_scope"}, suggested : Fits, decision : Fits, override : BOOLEAN]
L4Rows == [scope : {"in_scope", "out_of_scope", "deleted"}, fit : Rated]
Trees == [l2 : L2Rows, l3 : [L3s -> L3Rows], l4 : [L4s -> L4Rows]]
StepRows == [Workshops \X L4s -> Taken \cup {NoStep}]
WorkshopRows == [status : {"none", "draft", "in_progress", "completed"}, final : BOOLEAN]

\* The share of the L3s in scope that have a decision.
Assessed(h) == {y \in InScope(h) : h.l3[y].decision # Undecided}
Score(h) ==
    IF InScope(h) = {} THEN 0 ELSE (100 * Cardinality(Assessed(h))) \div Cardinality(InScope(h))

Suggests(h, y) == h.l3[y].suggested = SystemSuggestedFit(h, y)
UpToDate(h, out) == \A y \in L3s \ out : Suggests(h, y)
Explained(h) ==
    \A y \in L3s : IF h.l3[y].override THEN h.l3[y].decision # Undecided
                   ELSE h.l3[y].suggested \in {Undecided, h.l3[y].decision}
OverridesKept(h, g) ==
    \A y \in L3s : h.l3[y].override => g.l3[y].override /\ g.l3[y].decision = h.l3[y].decision
\* What confirms nothing: the confirmation stays or falls to an unconfirmed one.
ConfirmsNothing(h, g) ==
    g.l2.confirmation = h.l2.confirmation \/ g.l2.confirmation \in {"not_ready", "ready"}

\* A step exists in a workshop that exists, about a process that exists.
StepsStand ==
    \A w \in Workshops, x \in L4s :
        step[w, x] # NoStep => workshop[w].status # "none" /\ tree.l4[x].scope # "deleted"

\* What a request may be about to do or to commit.
L2Part(set) ==
    /\ "readiness" \in DOMAIN set => set["readiness"] \in 0 .. 100
    /\ "confirmation" \in DOMAIN set => set["confirmation"] \in Confirmed \cup {"not_ready", "ready"}
L3Part(set) ==
    /\ "suggested" \in DOMAIN set => set["suggested"] \in Fits
    /\ "decision" \in DOMAIN set => set["decision"] \in Fits
    /\ "scope" \notin DOMAIN set /\ "override" \notin DOMAIN set
L4Part(set) == "scope" \notin DOMAIN set /\ ("fit" \in DOMAIN set => set["fit"] \in Rated)
StepPart(set) == \A p \in DOMAIN set : p \in Workshops \X L4s /\ step[p] # NoStep /\ set[p] \in Taken

WriteJob(job) ==
    /\ job.op = "write"
    /\ StepPart(job.step) /\ L2Part(job.l2)
    /\ \A y \in L3s : L3Part(job.l3[y])
    /\ \A x \in L4s : L4Part(job.l4[x])
DecidedJob(job) == job.op = "decided" /\ job.at \in Workshops \X L4s /\ step[job.at] # NoStep
FitJobOK(job) == job = FitFree \/ WriteJob(job) \/ DecidedJob(job)

\* A request that nothing overlaps commits what it worked out from the rows as
\* they are.
WorkedOut(job) ==
    \/ \E x \in L4s, d \in Taken, f \in BOOLEAN : \E s : job = Prepared(x, d, f, s)
    \/ \E s \in Confirmed : job = Confirmation(s) /\ FreshReadiness.l2.readiness >= 100

ReadinessFresh == ~unread => tree.l2.readiness = Score(tree)

FitSerial ==
    /\ Explained(tree) /\ UpToDate(tree, outdated) /\ ReadinessFresh
    /\ \A t \in FitThreads : fitJob[t].op = "write" =>
           /\ WorkedOut(fitJob[t])
           /\ \A o \in FitThreads : fitJob[o].op = "write" => o = t

FitInv ==
    /\ tree \in Trees /\ step \in StepRows /\ workshop \in [Workshops -> WorkshopRows]
    /\ StepsStand
    /\ fitJob = [t \in FitThreads |-> fitJob[t]]
    /\ \A t \in FitThreads : FitJobOK(fitJob[t])
    /\ fitRaced \in BOOLEAN
    /\ ~fitRaced => FitSerial

------------------------------------------------------------------------------
(* The propagation                                                            *)

\* A row of each kind, attribute by attribute.
LEMMA TreeShape ==
    ASSUME NEW h \in Trees
    PROVE  /\ h = [l2 |-> h.l2, l3 |-> h.l3, l4 |-> h.l4]
           /\ h.l2 \in L2Rows /\ h.l3 \in [L3s -> L3Rows] /\ h.l4 \in [L4s -> L4Rows]
           /\ h.l2 = [readiness |-> h.l2.readiness, confirmation |-> h.l2.confirmation]
           /\ \A y \in L3s : h.l3[y] \in L3Rows
           /\ \A x \in L4s : h.l4[x] \in L4Rows
           /\ InScope(h) \subseteq L3s
BY DEF Trees, L2Rows, InScope

\* Replacing a part of the rows.
LEMMA TreeExcept ==
    ASSUME NEW h \in Trees, NEW m
    PROVE  /\ [h EXCEPT !.l2 = m] = [l2 |-> m, l3 |-> h.l3, l4 |-> h.l4]
           /\ [h EXCEPT !.l3 = m] = [l2 |-> h.l2, l3 |-> m, l4 |-> h.l4]
           /\ [h EXCEPT !.l4 = m] = [l2 |-> h.l2, l3 |-> h.l3, l4 |-> m]
BY DEF Trees

\* The suggestion is a function of the fits found.
SuggestedFor(found) ==
    IF found \subseteq {Undecided} THEN Undecided
    ELSE IF found \in {{"fit"}, {"gap"}} THEN CHOOSE f \in found : TRUE
    ELSE "partial_fit"

\* The one fit found.
LEMMA SuggestedForOK ==
    ASSUME NEW found
    PROVE  SuggestedFor(found) = IF found \subseteq {Undecided} THEN Undecided
                                 ELSE IF found = {"fit"} THEN "fit"
                                 ELSE IF found = {"gap"} THEN "gap" ELSE "partial_fit"
<1>1. (CHOOSE f \in {"fit"} : TRUE) = "fit" /\ (CHOOSE f \in {"gap"} : TRUE) = "gap"
  OBVIOUS
<1>2. CASE found = {"fit"}
  <2>1. SuggestedFor({"fit"}) = "fit"
    BY <1>1 DEF SuggestedFor, Undecided
  <2> QED BY <1>2, <2>1 DEF Undecided
<1>3. CASE found = {"gap"}
  <2>1. SuggestedFor({"gap"}) = "gap"
    BY <1>1 DEF SuggestedFor, Undecided
  <2> QED BY <1>3, <2>1 DEF Undecided
<1>4. CASE found # {"fit"} /\ found # {"gap"}
  BY <1>4 DEF SuggestedFor
<1> QED BY <1>2, <1>3, <1>4

\* The fits of an L3's processes.
LEMMA SuggestionIs ==
    ASSUME NEW h, NEW y
    PROVE  SystemSuggestedFit(h, y) = SuggestedFor({h.l4[x].fit : x \in ChildrenOf(h, y)})
BY DEF SystemSuggestedFit, SuggestedFor

\* The suggestion of an L3 follows from its processes, as the comment says.
LEMMA SuggestionOK ==
    ASSUME NEW h \in Trees, NEW y \in L3s
    PROVE  /\ SystemSuggestedFit(h, y) \in Fits
           /\ LET children == ChildrenOf(h, y)
                  fits(f) == {x \in children : h.l4[x].fit = f}
              IN  /\ children = fits(Undecided) => SystemSuggestedFit(h, y) = Undecided
                  /\ children # {} /\ children = fits("fit") => SystemSuggestedFit(h, y) = "fit"
                  /\ children # {} /\ children = fits("gap") => SystemSuggestedFit(h, y) = "gap"
                  /\ children # fits(Undecided) /\ children # fits("fit") /\ children # fits("gap")
                        => SystemSuggestedFit(h, y) = "partial_fit"
<1> DEFINE children == ChildrenOf(h, y)
           found == {h.l4[x].fit : x \in children}
<1> SUFFICES \E S : /\ S = SystemSuggestedFit(h, y) /\ S \in Fits
                    /\ (\A x \in children : h.l4[x].fit = Undecided) => S = Undecided
                    /\ children # {} /\ (\A x \in children : h.l4[x].fit = "fit") => S = "fit"
                    /\ children # {} /\ (\A x \in children : h.l4[x].fit = "gap") => S = "gap"
                    /\ (\E x \in children : h.l4[x].fit # Undecided) /\ (\E x \in children : h.l4[x].fit # "fit")
                          /\ (\E x \in children : h.l4[x].fit # "gap") => S = "partial_fit"
  OBVIOUS
<1>2. SystemSuggestedFit(h, y) = IF found \subseteq {Undecided} THEN Undecided
                                 ELSE IF found = {"fit"} THEN "fit"
                                 ELSE IF found = {"gap"} THEN "gap" ELSE "partial_fit"
  BY SuggestionIs, SuggestedForOK
<1>3. /\ found \subseteq {Undecided} <=> \A x \in children : h.l4[x].fit = Undecided
      /\ found = {"fit"} <=> children # {} /\ \A x \in children : h.l4[x].fit = "fit"
      /\ found = {"gap"} <=> children # {} /\ \A x \in children : h.l4[x].fit = "gap"
  OBVIOUS
<1> HIDE DEF found, children
<1> QED BY <1>2, <1>3 DEF Fits, Undecided

\* It depends on the processes of that L3 only.
LEMMA SuggestionLocal ==
    ASSUME NEW h \in Trees, NEW g \in Trees, NEW y \in L3s,
           \A x \in L4s : Parent[x] = y => g.l4[x] = h.l4[x]
    PROVE  SystemSuggestedFit(g, y) = SystemSuggestedFit(h, y)
<1>1. ChildrenOf(g, y) = ChildrenOf(h, y)
  BY DEF ChildrenOf
<1>2. \A x \in ChildrenOf(g, y) : g.l4[x].fit = h.l4[x].fit
  BY DEF ChildrenOf
<1>3. {g.l4[x].fit : x \in ChildrenOf(g, y)} = {h.l4[x].fit : x \in ChildrenOf(h, y)}
  BY <1>1, <1>2
<1> QED BY <1>3, SuggestionIs

\* A share in percent.
LEMMA Percentage ==
    ASSUME NEW a \in Nat, NEW n \in Nat, n # 0, a <= n
    PROVE  (100 * a) \div n \in 0 .. 100 /\ ((100 * a) \div n >= 100 => a = n)
<1>1. PICK q : q = (100 * a) \div n
  OBVIOUS
<1>2. q \in Int /\ n * q <= 100 * a /\ 100 * a < n * q + n
  BY <1>1
<1>3. q < 0 => n * q + n <= 0
  BY <1>2
<1>4. q > 100 => n * q >= 100 * n + n
  BY <1>2
<1>5. q >= 100 => n * q >= 100 * n
  BY <1>2
<1> QED BY <1>1, <1>2, <1>3, <1>4, <1>5

\* The score is a percentage, of which 100 says that something is in scope and
\* all of it is decided.
LEMMA ScoreOK ==
    ASSUME NEW h \in Trees
    PROVE  /\ Score(h) \in 0 .. 100
           /\ Score(h) >= 100 => InScope(h) # {} /\ \A y \in InScope(h) : h.l3[y].decision # Undecided
<1>1. CASE InScope(h) = {}
  BY <1>1 DEF Score
<1>2. CASE InScope(h) # {}
  <2>1. IsFiniteSet(InScope(h)) /\ Assessed(h) \subseteq InScope(h)
    BY FitAssumption, FS_Subset, TreeShape DEF Assessed
  <2>2. /\ Cardinality(InScope(h)) \in Nat /\ Cardinality(Assessed(h)) \in Nat
        /\ Cardinality(InScope(h)) # 0 /\ Cardinality(Assessed(h)) <= Cardinality(InScope(h))
        /\ Cardinality(Assessed(h)) = Cardinality(InScope(h)) => Assessed(h) = InScope(h)
    BY <1>2, <2>1, FS_CardinalityType, FS_Subset, FS_EmptySet
  <2>3. Score(h) = (100 * Cardinality(Assessed(h))) \div Cardinality(InScope(h))
    BY <1>2 DEF Score
  <2>4. Score(h) \in 0 .. 100 /\ (Score(h) >= 100 => Assessed(h) = InScope(h))
    BY <2>2, <2>3, Percentage
  <2> QED BY <1>2, <2>4 DEF Assessed
<1> QED BY <1>1, <1>2

\* It depends on the L3s only.
LEMMA ScoreLocal ==
    ASSUME NEW h, NEW g, g.l3 = h.l3
    PROVE  Score(g) = Score(h)
BY DEF Score, Assessed, InScope

\* A look at the L2 sets its readiness to the score and confirms nothing.
LEMMA ReadinessOK ==
    ASSUME NEW h \in Trees, NEW g, g = RecalculateL2Readiness(h)
    PROVE  /\ g \in Trees /\ g.l3 = h.l3 /\ g.l4 = h.l4
           /\ g.l2.readiness = Score(g) /\ Score(g) = Score(h)
           /\ ConfirmsNothing(h, g)
<1> DEFINE n == [readiness |-> Score(h),
                 confirmation |-> IF InScope(h) = {} \/ h.l2.confirmation \in Confirmed THEN h.l2.confirmation
                                  ELSE IF Score(h) >= 100 THEN "ready" ELSE "not_ready"]
<1>1. g = [h EXCEPT !.l2 = n]
  <2>1. CASE InScope(h) = {}
    <3>1. n = [readiness |-> 0, confirmation |-> h.l2.confirmation]
      BY <2>1 DEF Score
    <3>2. [h.l2 EXCEPT !.readiness = 0] = [readiness |-> 0, confirmation |-> h.l2.confirmation]
      <4>1. \A r \in L2Rows : [r EXCEPT !.readiness = 0] = [readiness |-> 0, confirmation |-> r.confirmation]
        BY DEF L2Rows
      <4> QED BY <4>1, TreeShape
    <3>3. g = [h EXCEPT !.l2.readiness = 0]
      BY <2>1 DEF RecalculateL2Readiness
    <3> QED BY <3>1, <3>2, <3>3, TreeShape
  <2>2. CASE InScope(h) # {}
    BY <2>2 DEF RecalculateL2Readiness, Score, Assessed
  <2> QED BY <2>1, <2>2
<1>2. n \in L2Rows
  BY ScoreOK, TreeShape DEF L2Rows
<1>3. g = [l2 |-> n, l3 |-> h.l3, l4 |-> h.l4]
  BY <1>1, TreeShape
<1>4. g \in Trees /\ g.l3 = h.l3 /\ g.l4 = h.l4 /\ g.l2 = n
  BY <1>2, <1>3, TreeShape DEF Trees
<1>5. Score(g) = Score(h)
  BY <1>4, ScoreLocal
<1>6. ConfirmsNothing(h, g)
  BY <1>4 DEF ConfirmsNothing
<1> QED BY <1>4, <1>5, <1>6

\* Recalculating some L3s sets their suggestions, and the decisions of those
\* that are not overridden.
LEMMA ConsolidatedOK ==
    ASSUME NEW h \in Trees, NEW ys, NEW g, g = RecalculateL3Consolidated(h, ys)
    PROVE  /\ g \in Trees /\ g.l2 = h.l2 /\ g.l4 = h.l4
           /\ \A y \in L3s : g.l3[y].scope = h.l3[y].scope /\ g.l3[y].override = h.l3[y].override
           /\ \A y \in L3s \ ys : g.l3[y] = h.l3[y]
           /\ \A y \in L3s \cap ys : /\ Suggests(g, y)
                                     /\ IF h.l3[y].override THEN g.l3[y].decision = h.l3[y].decision
                                        ELSE g.l3[y].decision = g.l3[y].suggested
<1> DEFINE S(y) == SystemSuggestedFit(h, y)
           N(y) == IF y \notin ys THEN h.l3[y]
                   ELSE [scope |-> h.l3[y].scope, suggested |-> S(y),
                         decision |-> IF h.l3[y].override THEN h.l3[y].decision ELSE S(y),
                         override |-> h.l3[y].override]
<1>1. \A y \in L3s : h.l3[y] = [scope |-> h.l3[y].scope, suggested |-> h.l3[y].suggested,
                                decision |-> h.l3[y].decision, override |-> h.l3[y].override]
  BY TreeShape DEF L3Rows
<1>2. g = [h EXCEPT !.l3 = [y \in L3s |->
               IF y \in ys THEN [h.l3[y] EXCEPT !.suggested = S(y),
                                     !.decision = IF h.l3[y].override THEN h.l3[y].decision ELSE S(y)]
               ELSE h.l3[y]]]
  BY DEF RecalculateL3Consolidated, Overridden
<1>3. g.l2 = h.l2 /\ g.l4 = h.l4 /\ g = [l2 |-> g.l2, l3 |-> g.l3, l4 |-> g.l4]
      /\ g.l3 = [y \in L3s |->
               IF y \in ys THEN [h.l3[y] EXCEPT !.suggested = S(y),
                                     !.decision = IF h.l3[y].override THEN h.l3[y].decision ELSE S(y)]
               ELSE h.l3[y]]
  BY <1>2, TreeShape
<1>4. \A y \in L3s : S(y) \in Fits
  BY SuggestionOK
<1>5. ASSUME NEW y \in L3s
      PROVE  N(y) \in L3Rows /\ g.l3[y] = N(y)
  <2>1. CASE y \in ys
    <3>1. g.l3[y] = [h.l3[y] EXCEPT !.suggested = S(y),
                                    !.decision = IF h.l3[y].override THEN h.l3[y].decision ELSE S(y)]
      BY <1>3, <2>1
    <3>2. g.l3[y] = N(y)
      BY <3>1, <2>1, <1>1
    <3>3. N(y) \in L3Rows
      BY <2>1, <1>4, TreeShape DEF L3Rows
    <3> QED BY <3>2, <3>3
  <2>2. CASE y \notin ys
    BY <1>3, <2>2, TreeShape
  <2> QED BY <2>1, <2>2
<1>6. g.l3 \in [L3s -> L3Rows]
  BY <1>3, <1>5
<1>7. g \in Trees
  BY <1>3, <1>6, TreeShape DEF Trees
<1>8. \A y \in L3s : SystemSuggestedFit(g, y) = S(y)
  BY <1>3, <1>7, SuggestionLocal
<1>9. ASSUME NEW y \in L3s
      PROVE  g.l3[y].scope = h.l3[y].scope /\ g.l3[y].override = h.l3[y].override
  <2>1. CASE y \in ys
    <3>1. g.l3[y] = [scope |-> h.l3[y].scope, suggested |-> S(y),
                     decision |-> IF h.l3[y].override THEN h.l3[y].decision ELSE S(y),
                     override |-> h.l3[y].override]
      BY <1>5, <2>1
    <3> QED BY <3>1
  <2>2. CASE y \notin ys
    BY <1>5, <2>2
  <2> QED BY <2>1, <2>2
<1>10. \A y \in L3s \ ys : g.l3[y] = h.l3[y]
  BY <1>5
<1>11. ASSUME NEW y \in L3s \cap ys
       PROVE  /\ Suggests(g, y)
              /\ IF h.l3[y].override THEN g.l3[y].decision = h.l3[y].decision
                 ELSE g.l3[y].decision = g.l3[y].suggested
  <2>1. g.l3[y] = N(y) /\ SystemSuggestedFit(g, y) = S(y)
    BY <1>5, <1>8
  <2>2. g.l3[y].suggested = S(y) /\ g.l3[y].decision = IF h.l3[y].override THEN h.l3[y].decision ELSE S(y)
    BY <2>1
  <2> HIDE DEF S, N
  <2> QED BY <2>1, <2>2 DEF Suggests
<1> QED BY <1>3, <1>7, <1>9, <1>10, <1>11

\* What recalculating some L3s means for the invariants.
LEMMA ConsolidatedKeeps ==
    ASSUME NEW h \in Trees, NEW ys, NEW g, g = RecalculateL3Consolidated(h, ys)
    PROVE  /\ OverridesKept(h, g)
           /\ Explained(h) => Explained(g)
           /\ \A out : UpToDate(h, out) => UpToDate(g, out \ ys)
           /\ \A y \in L3s \cap ys : Suggests(g, y)
           /\ InScope(g) = InScope(h)
<1>0. g \in Trees /\ g.l4 = h.l4
  BY ConsolidatedOK
<1>1. ASSUME NEW y \in L3s
      PROVE  /\ h.l3[y].override => g.l3[y].override /\ g.l3[y].decision = h.l3[y].decision
             /\ g.l3[y].override = h.l3[y].override
             /\ g.l3[y].override \/ g.l3[y] = h.l3[y] \/ g.l3[y].decision = g.l3[y].suggested
  <2>1. CASE y \in ys
    BY <2>1, ConsolidatedOK
  <2>2. CASE y \notin ys
    BY <2>2, ConsolidatedOK
  <2> QED BY <2>1, <2>2
<1>2. OverridesKept(h, g)
  BY <1>1 DEF OverridesKept
<1>3. Explained(h) => Explained(g)
  BY <1>1 DEF Explained
<1>4. ASSUME NEW out, UpToDate(h, out), NEW y \in L3s, y \notin out \/ y \in ys
      PROVE  Suggests(g, y)
  <2>1. CASE y \in ys
    BY <2>1, ConsolidatedOK
  <2>2. CASE y \notin ys
    <3>1. g.l3[y] = h.l3[y] /\ SystemSuggestedFit(g, y) = SystemSuggestedFit(h, y) /\ Suggests(h, y)
      BY <1>0, <1>4, <2>2, ConsolidatedOK, SuggestionLocal DEF UpToDate
    <3> QED BY <3>1 DEF Suggests
  <2> QED BY <2>1, <2>2
<1>5. \A out : UpToDate(h, out) => UpToDate(g, out \ ys)
  BY <1>4 DEF UpToDate
<1>6. InScope(g) = InScope(h)
  BY ConsolidatedOK DEF InScope
<1> QED BY <1>2, <1>3, <1>5, <1>6, ConsolidatedOK

\* A look at the L2 disturbs no L3.
LEMMA ReadinessKeeps ==
    ASSUME NEW h \in Trees, NEW g, g = RecalculateL2Readiness(h)
    PROVE  /\ OverridesKept(h, g)
           /\ Explained(h) => Explained(g)
           /\ \A out : UpToDate(h, out) => UpToDate(g, out)
<1>1. g \in Trees /\ g.l3 = h.l3 /\ g.l4 = h.l4
  BY ReadinessOK
<1>2. \A y \in L3s : SystemSuggestedFit(g, y) = SystemSuggestedFit(h, y)
  BY <1>1, SuggestionLocal
<1>3. OverridesKept(h, g)
  BY <1>1 DEF OverridesKept
<1>4. Explained(h) => Explained(g)
  BY <1>1 DEF Explained
<1> QED BY <1>1, <1>2, <1>3, <1>4 DEF UpToDate, Suggests

\* What a propagation that recalculates the given L3s, or leaves them behind,
\* may do to the rows.
Propagated(h, g, final, parents) ==
    /\ g \in Trees
    /\ \A x \in L4s : g.l4[x].scope = h.l4[x].scope
    /\ \A y \in L3s : g.l3[y].scope = h.l3[y].scope /\ g.l3[y].override = h.l3[y].override
    /\ ConfirmsNothing(h, g) /\ OverridesKept(h, g)
    /\ Explained(h) => Explained(g)
    /\ final => \A out : UpToDate(h, out) => UpToDate(g, out \ parents)
    /\ ~final => \A out : UpToDate(h, out) => UpToDate(g, out \cup parents)
    /\ IF final /\ parents # {} THEN g.l2.readiness = Score(g)
       ELSE g.l2 = h.l2 /\ Score(g) = Score(h)

\* Decisions about some L4s: what is written, what is recalculated and what is
\* left behind.
LEMMA PropagateOK ==
    ASSUME NEW h \in Trees, NEW decided, DOMAIN decided \subseteq L4s,
           \A x \in DOMAIN decided : decided[x] \in Taken,
           NEW final \in BOOLEAN, NEW g, g = PropagateFit(h, decided, final),
           NEW parents, parents = {Parent[x] : x \in DOMAIN decided}
    PROVE  Propagated(h, g, final, parents)
<1>10. parents # {} <=> DOMAIN decided # {}
  OBVIOUS
<1> SUFFICES
    /\ g \in Trees
    /\ \A x \in L4s : g.l4[x].scope = h.l4[x].scope
    /\ \A y \in L3s : g.l3[y].scope = h.l3[y].scope /\ g.l3[y].override = h.l3[y].override
    /\ ConfirmsNothing(h, g) /\ OverridesKept(h, g)
    /\ Explained(h) => Explained(g)
    /\ final => \A out : UpToDate(h, out) => UpToDate(g, out \ parents)
    /\ ~final => \A out : UpToDate(h, out) => UpToDate(g, out \cup parents)
    /\ IF final /\ DOMAIN decided # {} THEN g.l2.readiness = Score(g)
       ELSE g.l2 = h.l2 /\ Score(g) = Score(h)
  BY <1>10 DEF Propagated
<1>0. PICK n : n = [x \in L4s |-> IF x \in DOMAIN decided THEN [h.l4[x] EXCEPT !.fit = decided[x]] ELSE h.l4[x]]
  OBVIOUS
<1>1. PICK k : k = [h EXCEPT !.l4 = n]
  OBVIOUS
<1>2. k.l2 = h.l2 /\ k.l3 = h.l3 /\ k = [l2 |-> k.l2, l3 |-> k.l3, l4 |-> k.l4]
      /\ k.l4 = n
  <2>1. k = [l2 |-> h.l2, l3 |-> h.l3, l4 |-> n]
    BY <1>1, TreeExcept
  <2> QED BY <2>1
<1>3. ASSUME NEW x \in L4s
      PROVE  k.l4[x] \in L4Rows /\ k.l4[x].scope = h.l4[x].scope /\ (x \notin DOMAIN decided => k.l4[x] = h.l4[x])
  <2>1. h.l4[x] \in L4Rows
    BY TreeShape
  <2>2. CASE x \in DOMAIN decided
    <3>1. k.l4[x] = [h.l4[x] EXCEPT !.fit = decided[x]] /\ decided[x] \in Taken
      BY <1>0, <1>2, <2>2
    <3>2. \A r \in L4Rows, f \in Taken : [r EXCEPT !.fit = f] \in L4Rows /\ [r EXCEPT !.fit = f].scope = r.scope
      BY DEF L4Rows, Rated, Taken
    <3> QED BY <2>1, <2>2, <3>1, <3>2
  <2>3. CASE x \notin DOMAIN decided
    BY <1>0, <1>2, <2>1, <2>3
  <2> QED BY <2>2, <2>3
<1>4. k \in Trees
  <2>1. k.l4 \in [L4s -> L4Rows]
    BY <1>0, <1>2, <1>3
  <2> QED BY <1>2, <2>1, TreeShape DEF Trees
<1>5. \A y \in L3s \ parents : SystemSuggestedFit(k, y) = SystemSuggestedFit(h, y)
  <2> SUFFICES ASSUME NEW y \in L3s, y \notin parents
               PROVE  SystemSuggestedFit(k, y) = SystemSuggestedFit(h, y)
    OBVIOUS
  <2>1. \A x \in L4s : Parent[x] = y => x \notin DOMAIN decided
    OBVIOUS
  <2> QED BY <1>3, <1>4, <2>1, SuggestionLocal
<1>6. OverridesKept(h, k) /\ (Explained(h) => Explained(k)) /\ Score(k) = Score(h)
  BY <1>2, ScoreLocal DEF OverridesKept, Explained
<1>7. \A out : UpToDate(h, out) => UpToDate(k, out \cup parents)
  BY <1>2, <1>5 DEF UpToDate, Suggests
<1>8. CASE ~ (final /\ DOMAIN decided # {})
  <2>1. g = k
    BY <1>0, <1>1, <1>8 DEF PropagateFit
  <2>2. final => parents = {}
    BY <1>8
  <2>3. ConfirmsNothing(h, g)
    BY <1>2, <2>1 DEF ConfirmsNothing
  <2>4. final => \A out : UpToDate(h, out) => UpToDate(g, out \ parents)
    BY <1>7, <2>1, <2>2 DEF UpToDate
  <2>5. ~final => \A out : UpToDate(h, out) => UpToDate(g, out \cup parents)
    BY <1>7, <2>1
  <2> QED BY <1>2, <1>3, <1>4, <1>6, <1>8, <2>1, <2>3, <2>4, <2>5
<1>9. CASE final /\ DOMAIN decided # {}
  <2>1. PICK c : c = RecalculateL3Consolidated(k, parents)
    OBVIOUS
  <2>2. g = RecalculateL2Readiness(c)
    BY <1>0, <1>1, <1>9, <2>1 DEF PropagateFit
  <2>3. c \in Trees /\ c.l2 = k.l2 /\ c.l4 = k.l4
        /\ \A y \in L3s : c.l3[y].scope = k.l3[y].scope /\ c.l3[y].override = k.l3[y].override
    BY <1>4, <2>1, ConsolidatedOK
  <2>4. g \in Trees /\ g.l3 = c.l3 /\ g.l4 = c.l4 /\ g.l2.readiness = Score(g) /\ ConfirmsNothing(c, g)
    BY <2>2, <2>3, ReadinessOK
  <2>5. /\ OverridesKept(k, c) /\ (Explained(k) => Explained(c))
        /\ \A out : UpToDate(k, out) => UpToDate(c, out \ parents)
    BY <1>4, <2>1, ConsolidatedKeeps
  <2>6. /\ OverridesKept(c, g) /\ (Explained(c) => Explained(g))
        /\ \A out : UpToDate(c, out) => UpToDate(g, out)
    BY <2>2, <2>3, ReadinessKeeps
  <2>7. ConfirmsNothing(h, g)
    BY <1>2, <2>3, <2>4 DEF ConfirmsNothing
  <2>8. OverridesKept(h, g)
    BY <1>6, <2>5, <2>6 DEF OverridesKept
  <2>9. ASSUME NEW out, UpToDate(h, out)
        PROVE  UpToDate(g, out \ parents)
    <3>1. UpToDate(g, (out \cup parents) \ parents)
      BY <1>7, <2>5, <2>6, <2>9
    <3>2. (out \cup parents) \ parents = out \ parents
      OBVIOUS
    <3> QED BY <3>1, <3>2
  <2>10. \A x \in L4s : g.l4[x].scope = h.l4[x].scope
    BY <1>3, <2>3, <2>4
  <2>11. \A y \in L3s : g.l3[y].scope = h.l3[y].scope /\ g.l3[y].override = h.l3[y].override
    BY <1>2, <2>3, <2>4
  <2> QED BY <1>6, <1>9, <2>4, <2>5, <2>6, <2>7, <2>8, <2>9, <2>10, <2>11
<1> QED BY <1>8, <1>9

------------------------------------------------------------------------------
(* Requests                                                                   *)

\* Writing what differs gives the row that was meant.
LEMMA DifferingIsMeant ==
    ASSUME NEW before, NEW after, before = [a \in DOMAIN before |-> before[a]],
           after = [a \in DOMAIN after |-> after[a]], DOMAIN after = DOMAIN before
    PROVE  /\ Written(before, Differing(before, after)) = after
           /\ DOMAIN Differing(before, after) = {a \in DOMAIN before : after[a] # before[a]}
           /\ \A a \in DOMAIN Differing(before, after) : Differing(before, after)[a] = after[a]
BY DEF Written, Differing

\* So does writing what differs in each of several rows.
LEMMA RowsAreMeant ==
    ASSUME NEW h \in Trees, NEW g \in Trees
    PROVE  /\ Written(h.l2, Differing(h.l2, g.l2)) = g.l2
           /\ [y \in L3s |-> Written(h.l3[y], Rows(h.l3, g.l3)[y])] = g.l3
           /\ [x \in L4s |-> Written(h.l4[x], Rows(h.l4, g.l4)[x])] = g.l4
<1>1. Written(h.l2, Differing(h.l2, g.l2)) = g.l2
  <2>1. h.l2 \in L2Rows /\ g.l2 \in L2Rows
    BY TreeShape
  <2>2. \A a, b \in L2Rows : a = [i \in DOMAIN a |-> a[i]] /\ DOMAIN a = DOMAIN b
    BY DEF L2Rows
  <2> QED BY <2>1, <2>2, DifferingIsMeant
<1>2. ASSUME NEW y \in L3s
      PROVE  Rows(h.l3, g.l3)[y] = Differing(h.l3[y], g.l3[y]) /\ Written(h.l3[y], Rows(h.l3, g.l3)[y]) = g.l3[y]
  <2>1. h.l3[y] \in L3Rows /\ g.l3[y] \in L3Rows /\ DOMAIN h.l3 = L3s
    BY TreeShape
  <2>2. \A a, b \in L3Rows : a = [i \in DOMAIN a |-> a[i]] /\ DOMAIN a = DOMAIN b
    BY DEF L3Rows
  <2>3. Rows(h.l3, g.l3)[y] = Differing(h.l3[y], g.l3[y])
    BY <2>1 DEF Rows
  <2>4. Written(h.l3[y], Differing(h.l3[y], g.l3[y])) = g.l3[y]
    BY <2>1, <2>2, DifferingIsMeant
  <2> QED BY <2>3, <2>4
<1>3. ASSUME NEW x \in L4s
      PROVE  Rows(h.l4, g.l4)[x] = Differing(h.l4[x], g.l4[x]) /\ Written(h.l4[x], Rows(h.l4, g.l4)[x]) = g.l4[x]
  <2>1. h.l4[x] \in L4Rows /\ g.l4[x] \in L4Rows /\ DOMAIN h.l4 = L4s
    BY TreeShape
  <2>2. \A a, b \in L4Rows : a = [i \in DOMAIN a |-> a[i]] /\ DOMAIN a = DOMAIN b
    BY DEF L4Rows
  <2>3. Rows(h.l4, g.l4)[x] = Differing(h.l4[x], g.l4[x])
    BY <2>1 DEF Rows
  <2>4. Written(h.l4[x], Differing(h.l4[x], g.l4[x])) = g.l4[x]
    BY <2>1, <2>2, DifferingIsMeant
  <2> QED BY <2>3, <2>4
<1> QED BY <1>1, <1>2, <1>3, TreeShape

\* Only values of the right kind are written, and only where a propagation may
\* change them.
LEMMA DifferingParts ==
    ASSUME NEW h \in Trees, NEW g \in Trees,
           ConfirmsNothing(h, g) \/ g.l2.confirmation \in Confirmed,
           \A x \in L4s : g.l4[x].scope = h.l4[x].scope,
           \A y \in L3s : g.l3[y].scope = h.l3[y].scope /\ g.l3[y].override = h.l3[y].override
    PROVE  /\ L2Part(Differing(h.l2, g.l2))
           /\ LET set == Differing(h.l2, g.l2)
              IN  ConfirmsNothing(h, g) /\ "confirmation" \in DOMAIN set => set["confirmation"] \notin Confirmed
           /\ \A y \in L3s : L3Part(Rows(h.l3, g.l3)[y])
           /\ \A x \in L4s : L4Part(Rows(h.l4, g.l4)[x])
<1>1. /\ L2Part(Differing(h.l2, g.l2))
      /\ LET set == Differing(h.l2, g.l2)
         IN  ConfirmsNothing(h, g) /\ "confirmation" \in DOMAIN set => set["confirmation"] \notin Confirmed
  <2>1. h.l2 \in L2Rows /\ g.l2 \in L2Rows
    BY TreeShape
  <2>2. DOMAIN h.l2 = {"readiness", "confirmation"}
        /\ g.l2.readiness \in 0 .. 100
        /\ (g.l2.confirmation # h.l2.confirmation => g.l2.confirmation \in Confirmed \cup {"not_ready", "ready"})
        /\ (ConfirmsNothing(h, g) /\ g.l2.confirmation # h.l2.confirmation => g.l2.confirmation \notin Confirmed)
    BY <2>1 DEF L2Rows, ConfirmsNothing, Confirmed
  <2> QED BY <2>2 DEF L2Part, Differing
<1>2. ASSUME NEW y \in L3s
      PROVE  L3Part(Rows(h.l3, g.l3)[y])
  <2>1. h.l3[y] \in L3Rows /\ g.l3[y] \in L3Rows /\ DOMAIN h.l3 = L3s
    BY TreeShape
  <2>2. DOMAIN h.l3[y] = {"scope", "suggested", "decision", "override"}
        /\ g.l3[y].suggested \in Fits /\ g.l3[y].decision \in Fits
    BY <2>1 DEF L3Rows
  <2>3. Rows(h.l3, g.l3)[y] = Differing(h.l3[y], g.l3[y])
    BY <2>1 DEF Rows
  <2> QED BY <2>2, <2>3 DEF L3Part, Differing
<1>3. ASSUME NEW x \in L4s
      PROVE  L4Part(Rows(h.l4, g.l4)[x])
  <2>1. h.l4[x] \in L4Rows /\ g.l4[x] \in L4Rows /\ DOMAIN h.l4 = L4s
    BY TreeShape
  <2>2. DOMAIN h.l4[x] = {"scope", "fit"} /\ g.l4[x].fit \in Rated
    BY <2>1 DEF L4Rows
  <2>3. Rows(h.l4, g.l4)[x] = Differing(h.l4[x], g.l4[x])
    BY <2>1 DEF Rows
  <2> QED BY <2>2, <2>3 DEF L4Part, Differing
<1> QED BY <1>1, <1>2, <1>3

\* Overwriting a row keeps its kind.
LEMMA WrittenOK ==
    /\ \A row \in L2Rows : \A set : L2Part(set) =>
          /\ Written(row, set) \in L2Rows
          /\ \/ Written(row, set).confirmation \in {row.confirmation, "not_ready", "ready"}
             \/ "confirmation" \in DOMAIN set /\ set["confirmation"] \in Confirmed
    /\ \A row \in L3Rows : \A set : L3Part(set) => Written(row, set) \in L3Rows
    /\ \A row \in L4Rows : \A set : L4Part(set) =>
          Written(row, set) \in L4Rows /\ Written(row, set).scope = row.scope
<1>1. ASSUME NEW row \in L2Rows, NEW set, L2Part(set)
      PROVE  /\ Written(row, set) \in L2Rows
             /\ \/ Written(row, set).confirmation \in {row.confirmation, "not_ready", "ready"}
                \/ "confirmation" \in DOMAIN set /\ set["confirmation"] \in Confirmed
  <2>1. DOMAIN row = {"readiness", "confirmation"} /\ row.readiness \in 0 .. 100
        /\ row.confirmation \in Confirmed \cup {"none", "not_ready", "ready"}
    BY DEF L2Rows
  <2>2. PICK w : w = Written(row, set)
    OBVIOUS
  <2>3. w = [a \in {"readiness", "confirmation"} |-> IF a \in DOMAIN set THEN set[a] ELSE row[a]]
    BY <2>1, <2>2 DEF Written
  <2>4. w = [readiness |-> w["readiness"], confirmation |-> w["confirmation"]]
    BY <2>3
  <2>5. /\ w["readiness"] \in 0 .. 100 /\ w["confirmation"] \in Confirmed \cup {"none", "not_ready", "ready"}
        /\ \/ w["confirmation"] \in {row.confirmation, "not_ready", "ready"}
           \/ "confirmation" \in DOMAIN set /\ set["confirmation"] \in Confirmed
    BY <1>1, <2>1, <2>3 DEF L2Part
  <2> QED BY <2>1, <2>2, <2>4, <2>5 DEF L2Rows
<1>2. ASSUME NEW row \in L3Rows, NEW set, L3Part(set)
      PROVE  Written(row, set) \in L3Rows
  <2>1. DOMAIN row = {"scope", "suggested", "decision", "override"} /\ row.scope \in {"in_scope", "out_of_scope"}
        /\ row.suggested \in Fits /\ row.decision \in Fits /\ row.override \in BOOLEAN
    BY DEF L3Rows
  <2>2. PICK w : w = Written(row, set)
    OBVIOUS
  <2>3. w = [a \in {"scope", "suggested", "decision", "override"} |-> IF a \in DOMAIN set THEN set[a] ELSE row[a]]
    BY <2>1, <2>2 DEF Written
  <2>4. w = [scope |-> w["scope"], suggested |-> w["suggested"], decision |-> w["decision"], override |-> w["override"]]
    BY <2>3
  <2>5. w["scope"] = row.scope /\ w["override"] = row.override /\ w["suggested"] \in Fits /\ w["decision"] \in Fits
    BY <1>2, <2>1, <2>3 DEF L3Part
  <2> QED BY <2>1, <2>2, <2>4, <2>5 DEF L3Rows
<1>3. ASSUME NEW row \in L4Rows, NEW set, L4Part(set)
      PROVE  Written(row, set) \in L4Rows /\ Written(row, set).scope = row.scope
  <2>1. DOMAIN row = {"scope", "fit"} /\ row.scope \in {"in_scope", "out_of_scope", "deleted"} /\ row.fit \in Rated
    BY DEF L4Rows
  <2>2. PICK w : w = Written(row, set)
    OBVIOUS
  <2>3. w = [a \in {"scope", "fit"} |-> IF a \in DOMAIN set THEN set[a] ELSE row[a]]
    BY <2>1, <2>2 DEF Written
  <2>4. w = [scope |-> w["scope"], fit |-> w["fit"]]
    BY <2>3
  <2>5. w["scope"] = row.scope /\ w["fit"] \in Rated
    BY <1>3, <2>1, <2>3 DEF L4Part
  <2> QED BY <2>1, <2>2, <2>4, <2>5 DEF L4Rows
<1> QED BY <1>1, <1>2, <1>3

\* The rows a commit will leave when nothing comes before it, and how they
\* relate to the rows as they are.
WillLeave(job, after) ==
    /\ after = [l2 |-> Written(tree.l2, job.l2),
                l3 |-> [y \in L3s |-> Written(tree.l3[y], job.l3[y])],
                l4 |-> [z \in L4s |-> Written(tree.l4[z], job.l4[z])]]
    /\ OverridesKept(tree, after)
    /\ Explained(tree) => Explained(after)
    /\ UpToDate(tree, outdated) => UpToDate(after, (outdated \ job.recalculated) \cup job.left)
    /\ IF job.looked THEN after.l2.readiness = Score(after)
       ELSE after.l2 = tree.l2 /\ Score(after) = Score(tree)

\* What a request is about to commit, and the rows it will leave when nothing
\* comes between.
LEMMA PreparedOK ==
    ASSUME tree \in Trees, NEW x \in L4s, NEW d \in Taken, NEW f \in BOOLEAN, NEW s, NEW job, job = Prepared(x, d, f, s)
    PROVE  /\ job.op = "write" /\ job.step = s /\ L2Part(job.l2)
           /\ \A y \in L3s : L3Part(job.l3[y])
           /\ \A z \in L4s : L4Part(job.l4[z])
           /\ ~Confirms(job)
           /\ \E after \in Trees : WillLeave(job, after)
<1>1. PICK after : after = IF d = Undecided THEN tree ELSE PropagateFit(tree, About(x, d), f)
  OBVIOUS
<1>2. PICK parents : parents = IF d = Undecided THEN {} ELSE {Parent[x]}
  OBVIOUS
<1>12. PICK looked \in BOOLEAN : looked = (f /\ parents # {})
  OBVIOUS
<1>3. job = [op |-> "write", step |-> s, l2 |-> Differing(tree.l2, after.l2),
             l3 |-> Rows(tree.l3, after.l3), l4 |-> Rows(tree.l4, after.l4),
             recalculated |-> IF f THEN parents ELSE {}, left |-> IF f THEN {} ELSE parents,
             looked |-> looked]
  BY <1>1, <1>2, <1>12 DEF Prepared
<1>4. Propagated(tree, after, f, parents)
  <2>1. CASE d = Undecided
    <3>1. after = tree /\ parents = {}
      BY <1>1, <1>2, <2>1
    <3>2. \A out : UpToDate(tree, out) => UpToDate(tree, out \ {}) /\ UpToDate(tree, out \cup {})
      BY DEF UpToDate
    <3> QED BY <3>1, <3>2 DEF Propagated, ConfirmsNothing, OverridesKept
  <2>2. CASE d # Undecided
    <3>1. PICK decided : decided = About(x, d)
      OBVIOUS
    <3>2. DOMAIN decided = {x} /\ decided[x] = d
      BY <3>1 DEF About
    <3>3. parents = {Parent[z] : z \in DOMAIN decided}
      BY <1>2, <2>2, <3>2
    <3>4. after = PropagateFit(tree, decided, f)
      BY <1>1, <2>2, <3>1
    <3>5. DOMAIN decided \subseteq L4s /\ \A z \in DOMAIN decided : decided[z] \in Taken
      BY <3>2
    <3> HIDE <1>1, <3>1, <3>2
    <3> QED BY <3>3, <3>4, <3>5, PropagateOK
  <2> QED BY <2>1, <2>2
<1>5. /\ L2Part(job.l2) /\ ~Confirms(job)
      /\ \A y \in L3s : L3Part(job.l3[y])
      /\ \A z \in L4s : L4Part(job.l4[z])
  <2>1. job.l2 = Differing(tree.l2, after.l2) /\ job.l3 = Rows(tree.l3, after.l3) /\ job.l4 = Rows(tree.l4, after.l4)
    BY <1>3
  <2>2. after \in Trees /\ ConfirmsNothing(tree, after)
        /\ (\A z \in L4s : after.l4[z].scope = tree.l4[z].scope)
        /\ (\A y \in L3s : after.l3[y].scope = tree.l3[y].scope /\ after.l3[y].override = tree.l3[y].override)
    BY <1>4 DEF Propagated
  <2>3. /\ L2Part(job.l2)
        /\ "confirmation" \in DOMAIN job.l2 => job.l2["confirmation"] \notin Confirmed
        /\ \A y \in L3s : L3Part(job.l3[y])
        /\ \A z \in L4s : L4Part(job.l4[z])
    BY <2>1, <2>2, DifferingParts
  <2> QED BY <2>3 DEF Confirms
<1>6. after = [l2 |-> Written(tree.l2, job.l2),
               l3 |-> [y \in L3s |-> Written(tree.l3[y], job.l3[y])],
               l4 |-> [z \in L4s |-> Written(tree.l4[z], job.l4[z])]]
  <2>1. job.l2 = Differing(tree.l2, after.l2) /\ job.l3 = Rows(tree.l3, after.l3) /\ job.l4 = Rows(tree.l4, after.l4)
    BY <1>3
  <2>2. after = [l2 |-> after.l2, l3 |-> after.l3, l4 |-> after.l4]
    BY <1>4, TreeShape DEF Propagated
  <2>3. /\ Written(tree.l2, job.l2) = after.l2
        /\ [y \in L3s |-> Written(tree.l3[y], job.l3[y])] = after.l3
        /\ [z \in L4s |-> Written(tree.l4[z], job.l4[z])] = after.l4
    BY <1>4, <2>1, RowsAreMeant DEF Propagated
  <2> QED BY <2>2, <2>3
<1>7. job.op = "write" /\ job.step = s
      /\ job.recalculated = (IF f THEN parents ELSE {}) /\ job.left = (IF f THEN {} ELSE parents)
      /\ (job.looked <=> f /\ parents # {})
  <2>1. job.op = "write" /\ job.step = s /\ job.looked = looked
        /\ job.recalculated = (IF f THEN parents ELSE {}) /\ job.left = (IF f THEN {} ELSE parents)
    BY <1>3
  <2> QED BY <1>12, <2>1
<1>8. UpToDate(tree, outdated) => UpToDate(after, (outdated \ job.recalculated) \cup job.left)
  <2> SUFFICES ASSUME UpToDate(tree, outdated)
               PROVE  UpToDate(after, (outdated \ job.recalculated) \cup job.left)
    OBVIOUS
  <2>1. CASE f
    <3>1. (outdated \ job.recalculated) \cup job.left = outdated \ parents
      BY <1>7, <2>1
    <3> QED BY <1>4, <2>1, <3>1 DEF Propagated
  <2>2. CASE ~f
    <3>1. (outdated \ job.recalculated) \cup job.left = outdated \cup parents
      BY <1>7, <2>2
    <3> QED BY <1>4, <2>2, <3>1 DEF Propagated
  <2> QED BY <2>1, <2>2
<1>9. IF job.looked THEN after.l2.readiness = Score(after)
      ELSE after.l2 = tree.l2 /\ Score(after) = Score(tree)
  BY <1>4, <1>7 DEF Propagated
<1>10. after \in Trees /\ OverridesKept(tree, after) /\ (Explained(tree) => Explained(after))
  BY <1>4 DEF Propagated
<1>11. WillLeave(job, after)
  BY <1>6, <1>8, <1>9, <1>10 DEF WillLeave
<1> QED BY <1>5, <1>7, <1>10, <1>11

\* A readiness of 100 that has just been worked out says that the area is
\* decided.
LEMMA FreshReadinessOK ==
    ASSUME tree \in Trees, FreshReadiness.l2.readiness >= 100
    PROVE  AreaDecided
BY ReadinessOK, ScoreOK DEF FreshReadiness, AreaDecided

\* So is what a confirmation is about to commit.
LEMMA ConfirmationOK ==
    ASSUME tree \in Trees, NEW s \in Confirmed, NEW job, job = Confirmation(s)
    PROVE  /\ job.op = "write" /\ job.step = << >> /\ L2Part(job.l2)
           /\ \A y \in L3s : L3Part(job.l3[y])
           /\ \A z \in L4s : L4Part(job.l4[z])
           /\ \E after \in Trees : WillLeave(job, after)
<1>1. PICK r : r = RecalculateL2Readiness(tree)
  OBVIOUS
<1>2. r \in Trees /\ r.l3 = tree.l3 /\ r.l4 = tree.l4 /\ r.l2.readiness = Score(r) /\ Score(r) = Score(tree)
  BY <1>1, ReadinessOK
<1>3. PICK row : row = [r.l2 EXCEPT !.confirmation = s]
  OBVIOUS
<1>4. row \in L2Rows /\ row.readiness = r.l2.readiness /\ row.confirmation = s
  <2>1. \A q \in L2Rows : \A n : n = [q EXCEPT !.confirmation = s] =>
            n \in L2Rows /\ n.readiness = q.readiness /\ n.confirmation = s
    BY DEF L2Rows
  <2> QED BY <1>2, <1>3, <2>1, TreeShape
<1>5. PICK after : after = [l2 |-> row, l3 |-> tree.l3, l4 |-> tree.l4]
  OBVIOUS
<1>6. /\ after \in Trees /\ after.l2 = row /\ after.l3 = tree.l3 /\ after.l4 = tree.l4
      /\ after = [l2 |-> after.l2, l3 |-> after.l3, l4 |-> after.l4]
  BY <1>4, <1>5, TreeShape DEF Trees
<1>7. job = [op |-> "write", step |-> << >>, l2 |-> Differing(tree.l2, after.l2),
             l3 |-> Rows(tree.l3, after.l3), l4 |-> Rows(tree.l4, after.l4),
             recalculated |-> {}, left |-> {}, looked |-> TRUE]
  BY <1>1, <1>3, <1>6 DEF Confirmation, FreshReadiness
<1>8. /\ job.op = "write" /\ job.step = << >> /\ job.recalculated = {} /\ job.left = {} /\ job.looked
      /\ job.l2 = Differing(tree.l2, after.l2) /\ job.l3 = Rows(tree.l3, after.l3) /\ job.l4 = Rows(tree.l4, after.l4)
  BY <1>7
<1>9. /\ L2Part(job.l2)
      /\ \A y \in L3s : L3Part(job.l3[y])
      /\ \A z \in L4s : L4Part(job.l4[z])
  BY <1>4, <1>6, <1>8, DifferingParts
<1>10. after = [l2 |-> Written(tree.l2, job.l2),
                l3 |-> [y \in L3s |-> Written(tree.l3[y], job.l3[y])],
                l4 |-> [z \in L4s |-> Written(tree.l4[z], job.l4[z])]]
  <2>1. /\ Written(tree.l2, job.l2) = after.l2
        /\ [y \in L3s |-> Written(tree.l3[y], job.l3[y])] = after.l3
        /\ [z \in L4s |-> Written(tree.l4[z], job.l4[z])] = after.l4
    BY <1>6, <1>8, RowsAreMeant
  <2> QED BY <1>6, <2>1
<1>11. OverridesKept(tree, after) /\ (Explained(tree) => Explained(after))
  BY <1>6 DEF OverridesKept, Explained
<1>12. UpToDate(tree, outdated) => UpToDate(after, (outdated \ job.recalculated) \cup job.left)
  <2>1. (outdated \ job.recalculated) \cup job.left = outdated
    BY <1>8
  <2>2. \A y \in L3s : SystemSuggestedFit(after, y) = SystemSuggestedFit(tree, y)
    BY <1>6, SuggestionLocal
  <2>3. UpToDate(tree, outdated) => UpToDate(after, outdated)
    BY <1>6, <2>2 DEF UpToDate, Suggests
  <2> QED BY <2>1, <2>3
<1>13. after.l2.readiness = Score(after)
  BY <1>2, <1>4, <1>6, ScoreLocal
<1>14. WillLeave(job, after)
  BY <1>8, <1>10, <1>11, <1>12, <1>13 DEF WillLeave
<1> QED BY <1>6, <1>8, <1>9, <1>14

\* What a request worked out from the rows as they are, and when it confirms.
LEMMA WorkedOutOK ==
    ASSUME tree \in Trees, NEW job, WorkedOut(job)
    PROVE  (\E after \in Trees : WillLeave(job, after)) /\ (Confirms(job) => AreaDecided)
<1>1. CASE \E x \in L4s, d \in Taken, f \in BOOLEAN : \E s : job = Prepared(x, d, f, s)
  <2>1. PICK x \in L4s, d \in Taken, f \in BOOLEAN : \E s : job = Prepared(x, d, f, s)
    BY <1>1
  <2>2. PICK s : job = Prepared(x, d, f, s)
    BY <2>1
  <2> QED BY <2>2, PreparedOK
<1>2. CASE \E s \in Confirmed : job = Confirmation(s) /\ FreshReadiness.l2.readiness >= 100
  BY <1>2, ConfirmationOK, FreshReadinessOK
<1> QED BY <1>1, <1>2 DEF WorkedOut

\* Each job is one of three kinds.
LEMMA JobKinds ==
    /\ FitFree.op = "free"
    /\ \A job : WriteJob(job) => job.op = "write"
    /\ \A job : DecidedJob(job) => job.op = "decided"
BY DEF FitFree, WriteJob, DecidedJob

\* At first nothing is decided, and no suggestion knows of the processes that
\* were created with a status.
LEMMA FitInitInv == FitInit => FitInv
<1> SUFFICES ASSUME NEW rated \in SUBSET L4s, FitRows(rated) PROVE FitInv
  BY DEF FitInit
<1>1. /\ tree = [l2 |-> [readiness |-> 0, confirmation |-> "none"],
                 l3 |-> [y \in L3s |-> [scope |-> "in_scope", suggested |-> Undecided,
                                        decision |-> Undecided, override |-> FALSE]],
                 l4 |-> [x \in L4s |-> [scope |-> "in_scope",
                                        fit |-> IF x \in rated THEN Pending ELSE Undecided]]]
      /\ step = [p \in Workshops \X L4s |-> NoStep]
      /\ workshop = [w \in Workshops |-> [status |-> "none", final |-> FALSE]]
      /\ fitJob = [t \in FitThreads |-> FitFree] /\ fitRaced = FALSE /\ outdated = {Parent[x] : x \in rated}
      /\ unread = FALSE
  BY DEF FitRows
<1>2. tree \in Trees
  <2>1. tree.l2 \in L2Rows /\ tree = [l2 |-> tree.l2, l3 |-> tree.l3, l4 |-> tree.l4]
    BY <1>1 DEF L2Rows
  <2>2. tree.l3 \in [L3s -> L3Rows]
    BY <1>1 DEF L3Rows, Fits
  <2>3. tree.l4 \in [L4s -> L4Rows]
    BY <1>1 DEF L4Rows, Rated
  <2> QED BY <2>1, <2>2, <2>3 DEF Trees
<1>3. step \in StepRows /\ workshop \in [Workshops -> WorkshopRows]
  BY <1>1 DEF StepRows, WorkshopRows
<1>4. StepsStand
  BY <1>1 DEF StepsStand
<1>5. \A t \in FitThreads : fitJob[t] = FitFree
  BY <1>1
<1>6. \A y \in L3s : tree.l3[y] = [scope |-> "in_scope", suggested |-> Undecided,
                                   decision |-> Undecided, override |-> FALSE]
  BY <1>1
<1>7. Explained(tree)
  BY <1>6 DEF Explained
<1>8. UpToDate(tree, outdated)
  <2> SUFFICES ASSUME NEW y \in L3s \ outdated PROVE Suggests(tree, y)
    BY DEF UpToDate
  <2>1. \A x \in ChildrenOf(tree, y) : tree.l4[x].fit = Undecided
    BY <1>1 DEF ChildrenOf
  <2>2. ChildrenOf(tree, y) = {x \in ChildrenOf(tree, y) : tree.l4[x].fit = Undecided}
    BY <2>1
  <2>3. SystemSuggestedFit(tree, y) = Undecided
    BY <1>2, <2>2, SuggestionOK
  <2> QED BY <1>6, <2>3 DEF Suggests
<1>9. ReadinessFresh
  <2>1. \A y \in L3s : tree.l3[y].decision = Undecided
    BY <1>6
  <2>2. Assessed(tree) = {}
    BY <2>1 DEF Assessed, InScope
  <2>3. Cardinality(Assessed(tree)) = 0
    BY <2>2, FS_EmptySet
  <2>4. Score(tree) = 0
    <3>1. CASE InScope(tree) = {}
      BY <3>1 DEF Score
    <3>2. CASE InScope(tree) # {}
      <4>1. IsFiniteSet(InScope(tree)) /\ Cardinality(InScope(tree)) \in Nat /\ Cardinality(InScope(tree)) # 0
        BY <1>2, <3>2, TreeShape, FitAssumption, FS_Subset, FS_CardinalityType, FS_EmptySet
      <4>2. \A n \in Nat : n # 0 => (100 * 0) \div n = 0
        OBVIOUS
      <4> QED BY <2>3, <3>2, <4>1, <4>2 DEF Score
    <3> QED BY <3>1, <3>2
  <2>5. tree.l2.readiness = 0
    BY <1>1
  <2> QED BY <2>4, <2>5 DEF ReadinessFresh
<1>10. FitSerial
  BY <1>5, <1>7, <1>8, <1>9, JobKinds DEF FitSerial
<1> QED BY <1>1, <1>2, <1>3, <1>4, <1>5, <1>10 DEF FitInv, FitJobOK

\* As long as the rows stay, so does what a request worked out from them.
LEMMA WorkedOutStays ==
    ASSUME NEW job, tree' = tree
    PROVE  WorkedOut(job) => WorkedOut(job)'
<1>1. ASSUME NEW x \in L4s, NEW d \in Taken, NEW f \in BOOLEAN, NEW s
      PROVE  Prepared(x, d, f, s)' = Prepared(x, d, f, s)
  BY DEF Prepared
<1>2. ASSUME NEW s \in Confirmed
      PROVE  Confirmation(s)' = Confirmation(s)
  BY DEF Confirmation, FreshReadiness
<1>3. FreshReadiness' = FreshReadiness
  BY DEF FreshReadiness
<1> QED BY <1>1, <1>2, <1>3 DEF WorkedOut

\* A request has read what it needs and is about to commit.
LEMMA FitBegins ==
    ASSUME FitInv, NEW t \in FitThreads, NEW job, Prepare(t, job), WriteJob(job), WorkedOut(job)
    PROVE  FitInv'
<1>1. /\ fitJob' = [fitJob EXCEPT ![t] = job] /\ fitRaced' = Overlap
      /\ tree' = tree /\ step' = step /\ workshop' = workshop /\ outdated' = outdated /\ unread' = unread
  BY DEF Prepare
<1>2. /\ tree \in Trees /\ step \in StepRows /\ workshop \in [Workshops -> WorkshopRows]
      /\ StepsStand /\ fitRaced \in BOOLEAN /\ \A o \in FitThreads : FitJobOK(fitJob[o])
      /\ fitJob = [o \in FitThreads |-> fitJob[o]]
  BY DEF FitInv
<1>3. /\ fitJob' = [o \in FitThreads |-> fitJob'[o]]
      /\ fitJob'[t] = job /\ \A o \in FitThreads : o # t => fitJob'[o] = fitJob[o]
  BY <1>1, <1>2
<1>4. (tree \in Trees /\ step \in StepRows /\ workshop \in [Workshops -> WorkshopRows] /\ StepsStand)'
  BY <1>1, <1>2 DEF StepsStand
<1>5. \A o \in FitThreads : FitJobOK(fitJob[o])'
  <2> SUFFICES ASSUME NEW o \in FitThreads PROVE FitJobOK(fitJob[o])'
    OBVIOUS
  <2>1. PICK j : j = fitJob'[o]
    OBVIOUS
  <2>2. FitJobOK(j)
    BY <1>2, <1>3, <2>1 DEF FitJobOK
  <2>3. FitJobOK(j)'
    BY <1>1, <2>2 DEF FitJobOK, WriteJob, DecidedJob, StepPart
  <2> QED BY <2>1, <2>3
<1>6. ASSUME ~fitRaced'
      PROVE  FitSerial'
  <2>1. ~fitRaced /\ \A o \in FitThreads : fitJob[o].op # "write"
    BY <1>1, <1>6 DEF Overlap
  <2>2. Explained(tree) /\ UpToDate(tree, outdated) /\ ReadinessFresh
    BY <2>1 DEF FitInv, FitSerial
  <2>3. (Explained(tree) /\ UpToDate(tree, outdated) /\ ReadinessFresh)'
    BY <1>1, <2>2 DEF ReadinessFresh
  <2>4. WorkedOut(job)'
    BY <1>1, WorkedOutStays
  <2>5. \A o \in FitThreads : fitJob'[o].op = "write" => o = t /\ WorkedOut(fitJob[o])'
    BY <1>3, <2>1, <2>4
  <2> QED BY <2>3, <2>5 DEF FitSerial
<1>7. fitRaced' \in BOOLEAN
  BY <1>1, <1>2 DEF Overlap
<1> QED BY <1>3, <1>4, <1>5, <1>6, <1>7 DEF FitInv

\* A job that has begun is still one of the three kinds when no step is gone.
LEMMA JobStays ==
    ASSUME NEW job, FitJobOK(job), \A p \in Workshops \X L4s : step[p] # NoStep => step'[p] # NoStep
    PROVE  FitJobOK(job)'
BY DEF FitJobOK, WriteJob, DecidedJob, StepPart

\* A request that is one transaction: what it leaves must be right if what it
\* found was.
LEMMA FitReplaces ==
    ASSUME FitInv, NEW h \in Trees, NEW recalculated, NEW left, Replace(h, recalculated, left),
           fitJob' = fitJob, step' \in StepRows, workshop' \in [Workshops -> WorkshopRows], StepsStand',
           \A p \in Workshops \X L4s : step[p] # NoStep => step'[p] # NoStep,
           Explained(tree) => Explained(h),
           UpToDate(tree, outdated) => UpToDate(h, (outdated \ recalculated) \cup left),
           ReadinessFresh => (~unread' => h.l2.readiness = Score(h))
    PROVE  FitInv'
<1>1. tree' = h /\ outdated' = (outdated \ recalculated) \cup left /\ fitRaced' = Overlap
  BY DEF Replace
<1>2. fitRaced' \in BOOLEAN /\ fitJob = [t \in FitThreads |-> fitJob[t]]
  BY <1>1 DEF FitInv, Overlap
<1>3. \A t \in FitThreads : FitJobOK(fitJob[t])'
  <2> SUFFICES ASSUME NEW t \in FitThreads PROVE FitJobOK(fitJob[t])'
    OBVIOUS
  <2>1. PICK j : j = fitJob[t]
    OBVIOUS
  <2>2. FitJobOK(j)
    BY <2>1 DEF FitInv
  <2>3. FitJobOK(j)'
    BY <2>2, JobStays
  <2> QED BY <2>1, <2>3
<1>4. ASSUME ~fitRaced'
      PROVE  FitSerial'
  <2>1. ~fitRaced /\ \A t \in FitThreads : fitJob[t].op # "write"
    BY <1>1, <1>4 DEF Overlap
  <2>2. Explained(tree) /\ UpToDate(tree, outdated) /\ ReadinessFresh
    BY <2>1 DEF FitInv, FitSerial
  <2>3. (Explained(tree) /\ UpToDate(tree, outdated) /\ ReadinessFresh)'
    BY <1>1, <2>2 DEF ReadinessFresh
  <2> QED BY <2>1, <2>3 DEF FitSerial
<1> QED BY <1>1, <1>2, <1>3, <1>4 DEF FitInv

\* The first of the two transactions of the second endpoint.
LEMMA FitDecides ==
    ASSUME FitInv, NEW t \in FitThreads, NEW w \in Workshops, NEW x \in L4s, NEW d \in Taken, SetFitDecision(t, w, x, d)
    PROVE  FitInv'
<1>1. PICK job : job = [op |-> "decided", at |-> <<w, x>>]
  OBVIOUS
<1>2. /\ step[<<w, x>>] # NoStep
      /\ step' = [step EXCEPT ![<<w, x>>] = d] /\ fitJob' = [fitJob EXCEPT ![t] = job] /\ fitRaced' = Overlap
      /\ tree' = tree /\ workshop' = workshop /\ outdated' = outdated /\ unread' = unread
  BY <1>1 DEF SetFitDecision, StepsOf
<1>3. d # NoStep
  BY FitAssumption DEF Taken, Undecided, NoStep
<1>4. /\ step' \in StepRows
      /\ \A p \in Workshops \X L4s : step'[p] # NoStep <=> step[p] # NoStep
  <2>1. step \in StepRows
    BY DEF FitInv
  <2> QED BY <1>2, <1>3, <2>1 DEF StepRows
<1>5. StepsStand'
  <2>1. StepsStand
    BY DEF FitInv
  <2>2. \A v \in Workshops, z \in L4s : step'[<<v, z>>] # NoStep => step[<<v, z>>] # NoStep
    BY <1>4
  <2> QED BY <1>2, <2>1, <2>2 DEF StepsStand
<1>6. \A o \in FitThreads : FitJobOK(fitJob[o]) /\ fitJob = [u \in FitThreads |-> fitJob[u]]
  BY DEF FitInv
<1>7. /\ fitJob' = [o \in FitThreads |-> fitJob'[o]]
      /\ fitJob'[t] = job /\ \A o \in FitThreads : o # t => fitJob'[o] = fitJob[o]
  BY <1>2, <1>6
<1>8. \A o \in FitThreads : FitJobOK(fitJob[o])'
  <2> SUFFICES ASSUME NEW o \in FitThreads PROVE FitJobOK(fitJob[o])'
    OBVIOUS
  <2>1. PICK j : j = fitJob'[o]
    OBVIOUS
  <2>2. CASE o # t
    <3>1. FitJobOK(j)
      BY <1>6, <1>7, <2>1, <2>2
    <3>2. FitJobOK(j)'
      BY <1>4, <3>1, JobStays
    <3> QED BY <2>1, <3>2
  <2>3. CASE o = t
    <3>1. j.op = "decided" /\ j.at = <<w, x>>
      BY <1>1, <1>7, <2>1, <2>3
    <3>2. step'[<<w, x>>] # NoStep /\ <<w, x>> \in Workshops \X L4s
      BY <1>2, <1>4
    <3>3. DecidedJob(j)'
      BY <3>1, <3>2 DEF DecidedJob
    <3>4. FitJobOK(j)'
      BY <3>3 DEF FitJobOK
    <3> QED BY <2>1, <3>4
  <2> QED BY <2>2, <2>3
<1>9. ASSUME ~fitRaced'
      PROVE  FitSerial'
  <2>1. ~fitRaced /\ \A o \in FitThreads : fitJob[o].op # "write"
    BY <1>2, <1>9 DEF Overlap
  <2>2. Explained(tree) /\ UpToDate(tree, outdated) /\ ReadinessFresh
    BY <2>1 DEF FitInv, FitSerial
  <2>3. (Explained(tree) /\ UpToDate(tree, outdated) /\ ReadinessFresh)'
    BY <1>2, <2>2 DEF ReadinessFresh
  <2>4. \A o \in FitThreads : fitJob'[o].op # "write"
    BY <1>1, <1>7, <2>1
  <2> QED BY <2>3, <2>4 DEF FitSerial
<1>10. fitRaced' \in BOOLEAN /\ tree \in Trees /\ workshop \in [Workshops -> WorkshopRows]
  BY <1>2 DEF FitInv, Overlap
<1> QED BY <1>2, <1>4, <1>5, <1>7, <1>8, <1>9, <1>10 DEF FitInv

\* The rows a commit leaves are of the right kind whatever overlapped it, and
\* only a confirmation's confirms the L2.
LEMMA CommitRows ==
    ASSUME tree \in Trees, step \in StepRows, NEW job, WriteJob(job),
           NEW h, h = [l2 |-> Written(tree.l2, job.l2),
                       l3 |-> [y \in L3s |-> Written(tree.l3[y], job.l3[y])],
                       l4 |-> [x \in L4s |-> Written(tree.l4[x], job.l4[x])]]
    PROVE  /\ h \in Trees /\ (ConfirmsNothing(tree, h) \/ Confirms(job))
           /\ \A x \in L4s : h.l4[x].scope = tree.l4[x].scope
           /\ Written(step, job.step) \in StepRows
           /\ \A p \in Workshops \X L4s : Written(step, job.step)[p] # NoStep <=> step[p] # NoStep
<1>1. L2Part(job.l2) /\ (\A y \in L3s : L3Part(job.l3[y])) /\ (\A x \in L4s : L4Part(job.l4[x]))
  BY DEF WriteJob
<1>2. tree.l2 \in L2Rows /\ (\A y \in L3s : tree.l3[y] \in L3Rows) /\ (\A x \in L4s : tree.l4[x] \in L4Rows)
  BY TreeShape
<1>3. /\ h.l2 \in L2Rows
      /\ \/ h.l2.confirmation \in {tree.l2.confirmation, "not_ready", "ready"}
         \/ "confirmation" \in DOMAIN job.l2 /\ job.l2["confirmation"] \in Confirmed
  BY <1>1, <1>2, WrittenOK
<1>4. \A y \in L3s : Written(tree.l3[y], job.l3[y]) \in L3Rows
  BY <1>1, <1>2, WrittenOK
<1>5. \A x \in L4s : Written(tree.l4[x], job.l4[x]) \in L4Rows
                       /\ Written(tree.l4[x], job.l4[x]).scope = tree.l4[x].scope
  BY <1>1, <1>2, WrittenOK
<1>6. h.l3 \in [L3s -> L3Rows] /\ h.l4 \in [L4s -> L4Rows] /\ (\A x \in L4s : h.l4[x].scope = tree.l4[x].scope)
      /\ h = [l2 |-> h.l2, l3 |-> h.l3, l4 |-> h.l4]
  BY <1>4, <1>5
<1>7. h \in Trees /\ (ConfirmsNothing(tree, h) \/ Confirms(job))
  BY <1>3, <1>6 DEF Trees, ConfirmsNothing, Confirms, WriteJob
<1>8. \A d \in Taken : d # NoStep
  BY FitAssumption DEF Taken, Undecided, NoStep
<1>9. PICK new : new = Written(step, job.step)
  OBVIOUS
<1>10. DOMAIN step = Workshops \X L4s /\ \A p \in Workshops \X L4s : step[p] \in Taken \cup {NoStep}
  BY DEF StepRows
<1>11. new = [p \in Workshops \X L4s |-> IF p \in DOMAIN job.step THEN job.step[p] ELSE step[p]]
  BY <1>9, <1>10 DEF Written
<1>12. \A p \in DOMAIN job.step : p \in Workshops \X L4s /\ step[p] # NoStep /\ job.step[p] \in Taken
  BY DEF WriteJob, StepPart
<1>13. \A p \in Workshops \X L4s : new[p] \in Taken \cup {NoStep} /\ (new[p] # NoStep <=> step[p] # NoStep)
  BY <1>8, <1>10, <1>11, <1>12
<1>14. new \in StepRows
  BY <1>11, <1>13 DEF StepRows
<1> QED BY <1>6, <1>7, <1>9, <1>13, <1>14

\* A request commits, and overrides stand unless it raced with another.
LEMMA FitCommits ==
    ASSUME FitInv, NEW t \in FitThreads, CommitDecision(t)
    PROVE  /\ FitInv' /\ (~fitRaced' => OverridesKept(tree, tree'))
           /\ ConfirmsNothing(tree, tree') \/ (Confirms(fitJob[t]) /\ (~fitRaced' => AreaDecided))
<1>1. PICK job : job = fitJob[t]
  OBVIOUS
<1>2. PICK h : h = [l2 |-> Written(tree.l2, job.l2),
                    l3 |-> [y \in L3s |-> Written(tree.l3[y], job.l3[y])],
                    l4 |-> [x \in L4s |-> Written(tree.l4[x], job.l4[x])]]
  OBVIOUS
<1>3. /\ job.op = "write" /\ step' = Written(step, job.step) /\ tree' = h
      /\ outdated' = (outdated \ job.recalculated) \cup job.left
      /\ unread' = (unread /\ ~job.looked)
      /\ fitJob' = [fitJob EXCEPT ![t] = FitFree]
      /\ workshop' = workshop /\ fitRaced' = fitRaced
  BY <1>1, <1>2 DEF CommitDecision
<1>4. /\ tree \in Trees /\ step \in StepRows /\ workshop \in [Workshops -> WorkshopRows]
      /\ StepsStand /\ fitRaced \in BOOLEAN
      /\ fitJob = [u \in FitThreads |-> fitJob[u]] /\ \A o \in FitThreads : FitJobOK(fitJob[o])
  BY DEF FitInv
<1>5. WriteJob(job)
  BY <1>1, <1>3, <1>4, JobKinds DEF FitJobOK
<1>6. /\ h \in Trees /\ (ConfirmsNothing(tree, h) \/ Confirms(job))
      /\ \A x \in L4s : h.l4[x].scope = tree.l4[x].scope
      /\ step' \in StepRows
      /\ \A p \in Workshops \X L4s : step'[p] # NoStep <=> step[p] # NoStep
  BY <1>2, <1>3, <1>4, <1>5, CommitRows
<1>7. StepsStand'
  <2>1. \A v \in Workshops, z \in L4s : step'[<<v, z>>] # NoStep => step[<<v, z>>] # NoStep
    BY <1>6
  <2> QED BY <1>3, <1>4, <1>6, <2>1 DEF StepsStand
<1>8. /\ fitJob' = [o \in FitThreads |-> fitJob'[o]]
      /\ fitJob'[t] = FitFree /\ \A o \in FitThreads : o # t => fitJob'[o] = fitJob[o]
  BY <1>3, <1>4
<1>9. \A o \in FitThreads : FitJobOK(fitJob[o])'
  <2> SUFFICES ASSUME NEW o \in FitThreads PROVE FitJobOK(fitJob[o])'
    OBVIOUS
  <2>1. PICK j : j = fitJob'[o]
    OBVIOUS
  <2>2. FitJobOK(j)
    BY <1>4, <1>8, <2>1 DEF FitJobOK
  <2>3. FitJobOK(j)'
    BY <1>6, <2>2, JobStays
  <2> QED BY <2>1, <2>3
<1>10. ASSUME ~fitRaced'
       PROVE  FitSerial' /\ OverridesKept(tree, h) /\ (Confirms(job) => AreaDecided)
  <2>1. FitSerial
    BY <1>3, <1>10 DEF FitInv
  <2>2. WorkedOut(job) /\ \A o \in FitThreads : fitJob[o].op = "write" => o = t
    BY <1>1, <1>3, <2>1 DEF FitSerial
  <2>3. Confirms(job) => AreaDecided
    BY <1>4, <2>2, WorkedOutOK
  <2>4. PICK after \in Trees : WillLeave(job, after)
    BY <1>4, <2>2, WorkedOutOK
  <2>5. /\ after = [l2 |-> Written(tree.l2, job.l2),
                    l3 |-> [y \in L3s |-> Written(tree.l3[y], job.l3[y])],
                    l4 |-> [z \in L4s |-> Written(tree.l4[z], job.l4[z])]]
        /\ OverridesKept(tree, after)
        /\ Explained(tree) => Explained(after)
        /\ UpToDate(tree, outdated) => UpToDate(after, (outdated \ job.recalculated) \cup job.left)
        /\ IF job.looked THEN after.l2.readiness = Score(after)
           ELSE after.l2 = tree.l2 /\ Score(after) = Score(tree)
    BY <2>4 DEF WillLeave
  <2>6. after = h
    BY <1>2, <2>5
  <2>7. Explained(tree) /\ UpToDate(tree, outdated) /\ ReadinessFresh
    BY <2>1 DEF FitSerial
  <2>8. (Explained(tree) /\ UpToDate(tree, outdated))'
    BY <1>3, <2>5, <2>6, <2>7
  <2>9. ~unread' => h.l2.readiness = Score(h)
    BY <1>3, <2>5, <2>6, <2>7 DEF ReadinessFresh
  <2>10. ReadinessFresh'
    BY <1>3, <2>9 DEF ReadinessFresh
  <2>11. \A o \in FitThreads : fitJob'[o].op # "write"
    BY <1>8, <2>2, JobKinds
  <2> QED BY <2>3, <2>5, <2>6, <2>8, <2>10, <2>11 DEF FitSerial
<1>11. FitInv'
  BY <1>3, <1>4, <1>6, <1>7, <1>8, <1>9, <1>10 DEF FitInv
<1> QED BY <1>1, <1>3, <1>6, <1>10, <1>11

\* A propagation that fails leaves everything as it is.
LEMMA FitAbandons ==
    ASSUME FitInv, NEW t \in FitThreads, AbandonPropagation(t)
    PROVE  FitInv'
<1>1. /\ fitJob' = [fitJob EXCEPT ![t] = FitFree] /\ fitRaced' = fitRaced
      /\ tree' = tree /\ step' = step /\ workshop' = workshop /\ outdated' = outdated /\ unread' = unread
  BY DEF AbandonPropagation
<1>2. /\ tree \in Trees /\ step \in StepRows /\ workshop \in [Workshops -> WorkshopRows]
      /\ StepsStand /\ fitRaced \in BOOLEAN
      /\ fitJob = [u \in FitThreads |-> fitJob[u]] /\ \A o \in FitThreads : FitJobOK(fitJob[o])
  BY DEF FitInv
<1>3. /\ fitJob' = [o \in FitThreads |-> fitJob'[o]]
      /\ fitJob'[t] = FitFree /\ \A o \in FitThreads : o # t => fitJob'[o] = fitJob[o]
  BY <1>1, <1>2
<1>4. ASSUME NEW o \in FitThreads
      PROVE  FitJobOK(fitJob[o])' /\ (~fitRaced /\ fitJob'[o].op = "write" =>
                 WorkedOut(fitJob[o])' /\ \A u \in FitThreads : fitJob'[u].op = "write" => u = o)
  <2>1. PICK j : j = fitJob'[o]
    OBVIOUS
  <2>2. FitJobOK(j)
    BY <1>2, <1>3, <2>1 DEF FitJobOK
  <2>3. FitJobOK(j)'
    BY <1>1, <2>2, JobStays
  <2>4. ASSUME ~fitRaced, j.op = "write"
        PROVE  WorkedOut(j)' /\ \A u \in FitThreads : fitJob'[u].op = "write" => u = o
    <3>1. o # t /\ j = fitJob[o] /\ FitSerial
      BY <1>3, <2>1, <2>4, JobKinds DEF FitInv
    <3>2. WorkedOut(j) /\ \A u \in FitThreads : fitJob[u].op = "write" => u = o
      BY <2>4, <3>1 DEF FitSerial
    <3>3. WorkedOut(j)'
      BY <1>1, <3>2, WorkedOutStays
    <3> QED BY <1>3, <3>2, <3>3, JobKinds
  <2> QED BY <2>1, <2>3, <2>4
<1>5. ~fitRaced => (Explained(tree) /\ UpToDate(tree, outdated) /\ ReadinessFresh)'
  BY <1>1 DEF FitInv, FitSerial, ReadinessFresh
<1>6. StepsStand'
  BY <1>1, <1>2 DEF StepsStand
<1>7. ~fitRaced' => FitSerial'
  BY <1>1, <1>4, <1>5 DEF FitSerial
<1> QED BY <1>1, <1>2, <1>3, <1>4, <1>6, <1>7 DEF FitInv

\* What a request must not do to a confirmation or, unless it raced, to an
\* override.
Respects == ConfirmsNothing(tree, tree') /\ OverridesKept(tree, tree')

\* A job that writes no step.
LEMMA NothingWritten == DOMAIN << >> = {}
OBVIOUS

\* The rows of a state that the proofs start from.
LEMMA RowsAre ==
    ASSUME FitInv
    PROVE  /\ tree \in Trees /\ step \in StepRows /\ workshop \in [Workshops -> WorkshopRows] /\ StepsStand
           /\ Decisions \subseteq {"fit", "gap", "partial_fit"} /\ Decisions \subseteq Fits \ {Undecided}
BY FitAssumption DEF FitInv, Fits, Undecided

\* Leaving the rows alone respects everything.
LEMMA SameRespects == tree' = tree => Respects
BY DEF Respects, ConfirmsNothing, OverridesKept

\* Creating and reopening a workshop.
LEMMA FitWorkshops ==
    ASSUME FitInv, UNCHANGED <<tree, step, fitJob, fitRaced, outdated, unread>>,
           workshop' \in [Workshops -> WorkshopRows],
           \A w \in Workshops : workshop[w].status # "none" => workshop'[w].status # "none"
    PROVE  FitInv'
<1>1. \A t \in FitThreads : FitJobOK(fitJob[t])'
  BY DEF FitInv, FitJobOK, WriteJob, DecidedJob, StepPart
<1>2. StepsStand'
  BY DEF FitInv, StepsStand
<1>3. \A t \in FitThreads : WorkedOut(fitJob[t]) => WorkedOut(fitJob[t])'
  <2> SUFFICES ASSUME NEW t \in FitThreads, WorkedOut(fitJob[t]) PROVE WorkedOut(fitJob[t])'
    OBVIOUS
  <2>1. PICK j : j = fitJob[t]
    OBVIOUS
  <2>2. WorkedOut(j)'
    BY <2>1, WorkedOutStays
  <2> QED BY <2>1, <2>2
<1>4. FitSerial => FitSerial'
  BY <1>3 DEF FitSerial, ReadinessFresh
<1> QED BY <1>1, <1>2, <1>4 DEF FitInv

\* Starting a workshop gives it steps about processes that exist.
LEMMA FitStarts ==
    ASSUME FitInv, NEW w \in Workshops, StartWorkshop(w)
    PROVE  FitInv' /\ Respects
<1>1. /\ workshop[w].status = "draft" /\ workshop' = [workshop EXCEPT ![w].status = "in_progress"]
      /\ step' = [p \in Workshops \X L4s |->
              IF p[1] = w /\ step[p] = NoStep /\ tree.l4[p[2]].scope = "in_scope" THEN Undecided ELSE step[p]]
      /\ tree' = tree /\ fitJob' = fitJob /\ outdated' = outdated /\ unread' = unread /\ fitRaced' = Overlap
  BY DEF StartWorkshop
<1>2. /\ tree \in Trees /\ step \in StepRows /\ workshop \in [Workshops -> WorkshopRows] /\ StepsStand
  BY RowsAre
<1>3. /\ workshop' \in [Workshops -> WorkshopRows] /\ workshop'[w].status = "in_progress"
      /\ \A v \in Workshops : v # w => workshop'[v] = workshop[v]
  <2>1. \A r \in WorkshopRows : [r EXCEPT !.status = "in_progress"] \in WorkshopRows
                                 /\ [r EXCEPT !.status = "in_progress"].status = "in_progress"
    BY DEF WorkshopRows
  <2> QED BY <1>1, <1>2, <2>1
<1>4. Undecided \in Taken /\ Undecided # NoStep
  BY DEF Taken, Undecided, NoStep
<1>5. step' \in StepRows
  BY <1>1, <1>2, <1>4 DEF StepRows
<1>6. ASSUME NEW v \in Workshops, NEW x \in L4s
      PROVE  /\ step'[<<v, x>>] # NoStep => step[<<v, x>>] # NoStep \/ (v = w /\ tree.l4[x].scope = "in_scope")
             /\ step[<<v, x>>] # NoStep => step'[<<v, x>>] # NoStep
  BY <1>1, <1>4
<1>7. StepsStand'
  BY <1>1, <1>2, <1>3, <1>6 DEF StepsStand
<1>8. Replace(tree, {}, {})
  BY <1>1 DEF Replace
<1>9. (outdated \ {}) \cup {} = outdated
  OBVIOUS
<1>10. \A p \in Workshops \X L4s : step[p] # NoStep => step'[p] # NoStep
  BY <1>6
<1>11. ReadinessFresh => (~unread' => tree.l2.readiness = Score(tree))
  BY <1>1 DEF ReadinessFresh
<1>12. fitJob' = fitJob /\ tree' = tree
  BY <1>1
<1> HIDE <1>1
<1> QED BY <1>2, <1>3, <1>5, <1>7, <1>8, <1>9, <1>10, <1>11, <1>12, FitReplaces, SameRespects

\* A request that leaves the workshops, their steps and the processes' scope
\* alone.
LEMMA FitReplacesRows ==
    ASSUME FitInv, NEW h \in Trees, NEW recalculated, NEW left, Replace(h, recalculated, left),
           UNCHANGED <<step, workshop, fitJob>>,
           \A x \in L4s : h.l4[x].scope = tree.l4[x].scope,
           Explained(tree) => Explained(h),
           UpToDate(tree, outdated) => UpToDate(h, (outdated \ recalculated) \cup left),
           ReadinessFresh => (~unread' => h.l2.readiness = Score(h))
    PROVE  FitInv'
<1>1. tree' = h
  BY DEF Replace
<1>2. StepsStand'
  BY <1>1, RowsAre DEF StepsStand
<1> QED BY <1>2, RowsAre, FitReplaces

\* Completing a workshop propagates the decisions of its steps.
LEMMA FitCompletes ==
    ASSUME FitInv, NEW w \in Workshops, NEW force \in BOOLEAN, CompleteWorkshop(w, force)
    PROVE  FitInv' /\ Respects
<1>1. /\ tree \in Trees /\ step \in StepRows /\ workshop \in [Workshops -> WorkshopRows] /\ StepsStand
  BY RowsAre
<1>2. /\ workshop[w].status = "in_progress" /\ workshop' = [workshop EXCEPT ![w].status = "completed"]
      /\ step' = step /\ fitJob' = fitJob
  BY DEF CompleteWorkshop
<1>3. /\ workshop' \in [Workshops -> WorkshopRows] /\ workshop'[w].status = "completed"
      /\ \A v \in Workshops : v # w => workshop'[v] = workshop[v]
  <2>1. \A r \in WorkshopRows : [r EXCEPT !.status = "completed"] \in WorkshopRows
                                 /\ [r EXCEPT !.status = "completed"].status = "completed"
    BY DEF WorkshopRows
  <2> QED BY <1>1, <1>2, <2>1
<1>4. PICK decided : decided = [x \in Decided(w) |-> step[w, x]]
  OBVIOUS
<1>5. DOMAIN decided = Decided(w) /\ DOMAIN decided \subseteq L4s /\ \A x \in DOMAIN decided : decided[x] \in Taken
  BY <1>1, <1>4 DEF Decided, StepsOf, StepRows
<1>6. PICK parents : parents = {Parent[x] : x \in DOMAIN decided}
  OBVIOUS
<1>7. PICK final \in BOOLEAN : final = IsFinal(w)
  BY <1>1 DEF IsFinal, WorkshopRows
<1>8. PICK g : g = PropagateFit(tree, decided, final)
  OBVIOUS
<1>9. Propagated(tree, g, final, parents)
  BY <1>1, <1>5, <1>6, <1>8, PropagateOK
<1>10. /\ g \in Trees /\ (\A x \in L4s : g.l4[x].scope = tree.l4[x].scope)
       /\ Explained(tree) => Explained(g)
       /\ ConfirmsNothing(tree, g) /\ OverridesKept(tree, g)
  BY <1>9 DEF Propagated
<1>11. tree' = g \/ tree' = tree => StepsStand'
  <2>1. \A v \in Workshops : workshop[v].status # "none" => workshop'[v].status # "none"
    BY <1>2, <1>3
  <2> QED BY <1>1, <1>2, <1>10, <2>1 DEF StepsStand
<1>12. CASE final
  <2>1. Replace(g, parents, {}) /\ unread' = (unread /\ ~ (Decided(w) # {}))
    <3>1. parents = {Parent[x] : x \in Decided(w)}
      BY <1>5, <1>6
    <3>2. Replace(PropagateFit(tree, decided, TRUE), parents, {})
      BY <1>4, <1>7, <1>12, <3>1 DEF CompleteWorkshop
    <3>3. unread' = (unread /\ ~ (IsFinal(w) /\ Decided(w) # {}))
      BY DEF CompleteWorkshop
    <3> QED BY <1>7, <1>8, <1>12, <3>2, <3>3
  <2>2. (outdated \ parents) \cup {} = outdated \ parents
    OBVIOUS
  <2>3. UpToDate(tree, outdated) => UpToDate(g, (outdated \ parents) \cup {})
    BY <1>9, <1>12, <2>2 DEF Propagated
  <2>4. ReadinessFresh => (~unread' => g.l2.readiness = Score(g))
    <3>1. parents # {} <=> Decided(w) # {}
      BY <1>5, <1>6
    <3> QED BY <1>9, <1>12, <2>1, <3>1 DEF Propagated, ReadinessFresh
  <2>5. tree' = g
    BY <2>1 DEF Replace
  <2>6. StepsStand'
    BY <1>11, <2>5
  <2>7. FitInv'
    BY <1>1, <1>2, <1>3, <1>10, <2>1, <2>3, <2>4, <2>6, FitReplaces
  <2> QED BY <1>10, <2>5, <2>7 DEF Respects
<1>13. CASE ~final
  <2>1. Replace(tree, {}, {}) /\ unread' = (unread /\ TRUE)
    BY <1>7, <1>13 DEF CompleteWorkshop
  <2>2. (outdated \ {}) \cup {} = outdated
    OBVIOUS
  <2>3. ReadinessFresh => (~unread' => tree.l2.readiness = Score(tree))
    BY <2>1 DEF ReadinessFresh
  <2>4. tree' = tree
    BY <2>1 DEF Replace
  <2>5. StepsStand'
    BY <1>11, <2>4
  <2>6. FitInv'
    BY <1>1, <1>2, <1>3, <2>1, <2>2, <2>3, <2>5, FitReplaces
  <2> QED BY <2>4, <2>6, SameRespects
<1> QED BY <1>12, <1>13

\* The row of one L3 changes.
LEMMA OneL3 ==
    ASSUME NEW h \in Trees, NEW y \in L3s, NEW row \in L3Rows,
           NEW k, k = [l2 |-> h.l2, l3 |-> [h.l3 EXCEPT ![y] = row], l4 |-> h.l4]
    PROVE  /\ k \in Trees /\ k.l2 = h.l2 /\ k.l4 = h.l4 /\ k.l3[y] = row
           /\ \A z \in L3s : z # y => k.l3[z] = h.l3[z]
           /\ \A out : UpToDate(h, out) /\ (y \in out \/ row.suggested = h.l3[y].suggested) => UpToDate(k, out)
<1>1. h.l2 \in L2Rows /\ h.l3 \in [L3s -> L3Rows] /\ h.l4 \in [L4s -> L4Rows]
  BY TreeShape
<1>2. k \in Trees
  BY <1>1 DEF Trees
<1>3. /\ k.l2 = h.l2 /\ k.l4 = h.l4 /\ k.l3[y] = row
      /\ \A z \in L3s : z # y => k.l3[z] = h.l3[z]
  BY <1>1
<1>4. \A z \in L3s : SystemSuggestedFit(k, z) = SystemSuggestedFit(h, z)
  BY <1>2, <1>3, SuggestionLocal
<1>5. ASSUME NEW out, UpToDate(h, out), y \in out \/ row.suggested = h.l3[y].suggested, NEW z \in L3s \ out
      PROVE  Suggests(k, z)
  <2>1. h.l3[z].suggested = SystemSuggestedFit(h, z) /\ SystemSuggestedFit(k, z) = SystemSuggestedFit(h, z)
    BY <1>4, <1>5 DEF UpToDate, Suggests
  <2>2. k.l3[z].suggested = h.l3[z].suggested
    BY <1>3, <1>5
  <2> QED BY <2>1, <2>2 DEF Suggests
<1> QED BY <1>2, <1>3, <1>5 DEF UpToDate

\* The row of one L4 changes, and its L3 is outdated.
LEMMA OneL4 ==
    ASSUME NEW h \in Trees, NEW x \in L4s, NEW row \in L4Rows,
           NEW m \in [L4s -> L4Rows], m[x] = row, \A z \in L4s : z # x => m[z] = h.l4[z],
           NEW k, k = [l2 |-> h.l2, l3 |-> h.l3, l4 |-> m]
    PROVE  /\ k \in Trees /\ k.l2 = h.l2 /\ k.l3 = h.l3 /\ k.l4[x] = row
           /\ \A z \in L4s : z # x => k.l4[z] = h.l4[z]
           /\ \A out : UpToDate(h, out) => UpToDate(k, (out \ {}) \cup {Parent[x]})
           /\ Score(k) = Score(h) /\ (Explained(h) => Explained(k))
           /\ ConfirmsNothing(h, k) /\ OverridesKept(h, k)
<1>1. h.l2 \in L2Rows /\ h.l3 \in [L3s -> L3Rows] /\ h.l4 \in [L4s -> L4Rows]
      /\ h = [l2 |-> h.l2, l3 |-> h.l3, l4 |-> h.l4]
  BY TreeShape
<1>3. k \in Trees
  BY <1>1 DEF Trees
<1>4. /\ k.l2 = h.l2 /\ k.l3 = h.l3 /\ k.l4[x] = row
      /\ \A z \in L4s : z # x => k.l4[z] = h.l4[z]
  BY <1>1
<1>5. ASSUME NEW y \in L3s, y # Parent[x]
      PROVE  SystemSuggestedFit(k, y) = SystemSuggestedFit(h, y)
  <2>1. \A z \in L4s : Parent[z] = y => k.l4[z] = h.l4[z]
    BY <1>4, <1>5
  <2> QED BY <1>3, <2>1, SuggestionLocal
<1>6. \A out : UpToDate(h, out) => UpToDate(k, (out \ {}) \cup {Parent[x]})
  BY <1>4, <1>5 DEF UpToDate, Suggests
<1>7. Score(k) = Score(h) /\ (Explained(h) => Explained(k)) /\ ConfirmsNothing(h, k) /\ OverridesKept(h, k)
  BY <1>4, ScoreLocal DEF Explained, ConfirmsNothing, OverridesKept
<1> QED BY <1>3, <1>4, <1>6, <1>7

\* The business signs off an L3.
LEMMA FitSignsOff ==
    ASSUME FitInv, NEW y \in L3s, NEW d \in Decisions, NEW force \in BOOLEAN, SignoffL3(y, d, force)
    PROVE  /\ FitInv' /\ ConfirmsNothing(tree, tree')
           /\ \A z \in L3s : z # y => tree'.l3[z].decision = tree.l3[z].decision
<1>1. tree \in Trees /\ tree.l3[y] \in L3Rows /\ d \in Fits \ {Undecided}
  BY RowsAre, TreeShape
<1>2. PICK o \in BOOLEAN : o = (tree.l3[y].suggested \notin {Undecided, d})
  OBVIOUS
<1>30. PICK row : row = [tree.l3[y] EXCEPT !.decision = d, !.override = o]
  OBVIOUS
<1>3. row \in L3Rows /\ row.decision = d /\ row.suggested = tree.l3[y].suggested /\ row.override = o
  <2>1. PICK r \in L3Rows : r = tree.l3[y]
    BY <1>1
  <2>2. row = [r EXCEPT !.decision = d, !.override = o] /\ d \in Fits
    BY <1>1, <1>30, <2>1
  <2>3. row \in L3Rows /\ row.decision = d /\ row.suggested = r.suggested /\ row.override = o
    BY <2>2 DEF L3Rows
  <2> QED BY <2>1, <2>3
<1>4. PICK k : k = [l2 |-> tree.l2, l3 |-> [tree.l3 EXCEPT ![y] = row], l4 |-> tree.l4]
  OBVIOUS
<1>5. Decide(tree, y, d, o) = k
  <2>1. Decide(tree, y, d, o) = [tree EXCEPT !.l3 = [tree.l3 EXCEPT ![y] = row]]
    BY <1>30 DEF Decide
  <2>2. [tree EXCEPT !.l3 = [tree.l3 EXCEPT ![y] = row]] = [l2 |-> tree.l2, l3 |-> [tree.l3 EXCEPT ![y] = row], l4 |-> tree.l4]
    BY <1>1, TreeExcept
  <2> QED BY <1>4, <2>1, <2>2
<1>6. PICK g : g = RecalculateL2Readiness(k)
  OBVIOUS
<1>7. Replace(g, {}, {}) /\ unread' = FALSE /\ UNCHANGED <<step, workshop, fitJob>>
  BY <1>2, <1>5, <1>6 DEF SignoffL3
<1>8. /\ k \in Trees /\ k.l2 = tree.l2 /\ k.l4 = tree.l4 /\ k.l3[y] = row
      /\ \A z \in L3s : z # y => k.l3[z] = tree.l3[z]
      /\ \A out : UpToDate(tree, out) => UpToDate(k, out)
  <2>1. /\ k \in Trees /\ k.l2 = tree.l2 /\ k.l4 = tree.l4 /\ k.l3[y] = row
        /\ \A z \in L3s : z # y => k.l3[z] = tree.l3[z]
        /\ \A out : UpToDate(tree, out) /\ (y \in out \/ row.suggested = tree.l3[y].suggested) => UpToDate(k, out)
    BY <1>1, <1>3, <1>4, OneL3
  <2> QED BY <1>3, <2>1
<1>9. /\ g \in Trees /\ g.l3 = k.l3 /\ g.l4 = k.l4 /\ g.l2.readiness = Score(g) /\ ConfirmsNothing(k, g)
      /\ Explained(k) => Explained(g)
      /\ \A out : UpToDate(k, out) => UpToDate(g, out)
  BY <1>6, <1>8, ReadinessOK, ReadinessKeeps
<1>10. Explained(tree) => Explained(k)
  BY <1>1, <1>2, <1>3, <1>8 DEF Explained
<1>11. UpToDate(tree, outdated) => UpToDate(g, (outdated \ {}) \cup {})
  <2>1. (outdated \ {}) \cup {} = outdated
    OBVIOUS
  <2> QED BY <1>8, <1>9, <2>1
<1>12. \A x \in L4s : g.l4[x].scope = tree.l4[x].scope
  BY <1>8, <1>9
<1>13. FitInv'
  BY <1>7, <1>9, <1>10, <1>11, <1>12, FitReplacesRows
<1>14. tree' = g
  BY <1>7 DEF Replace
<1>15. ConfirmsNothing(tree, g)
  BY <1>8, <1>9 DEF ConfirmsNothing
<1> QED BY <1>8, <1>9, <1>13, <1>14, <1>15

\* The business overrides an L3.
LEMMA FitOverrides ==
    ASSUME FitInv, NEW y \in L3s, NEW d \in Decisions, OverrideL3Fit(y, d)
    PROVE  /\ FitInv' /\ ConfirmsNothing(tree, tree')
           /\ \A z \in L3s : z # y => tree'.l3[z].decision = tree.l3[z].decision
<1>1. tree \in Trees /\ tree.l3[y] \in L3Rows /\ d \in Fits \ {Undecided}
  BY RowsAre, TreeShape
<1>30. PICK row : row = [tree.l3[y] EXCEPT !.decision = d, !.override = TRUE]
  OBVIOUS
<1>3. row \in L3Rows /\ row.decision = d /\ row.suggested = tree.l3[y].suggested /\ row.override = TRUE
  <2>1. PICK r \in L3Rows : r = tree.l3[y]
    BY <1>1
  <2>2. row = [r EXCEPT !.decision = d, !.override = TRUE] /\ d \in Fits
    BY <1>1, <1>30, <2>1
  <2>3. row \in L3Rows /\ row.decision = d /\ row.suggested = r.suggested /\ row.override = TRUE
    BY <2>2 DEF L3Rows
  <2> QED BY <2>1, <2>3
<1>4. PICK k : k = [l2 |-> tree.l2, l3 |-> [tree.l3 EXCEPT ![y] = row], l4 |-> tree.l4]
  OBVIOUS
<1>5. Decide(tree, y, d, TRUE) = k
  <2>1. Decide(tree, y, d, TRUE) = [tree EXCEPT !.l3 = [tree.l3 EXCEPT ![y] = row]]
    BY <1>30 DEF Decide
  <2>2. [tree EXCEPT !.l3 = [tree.l3 EXCEPT ![y] = row]] = [l2 |-> tree.l2, l3 |-> [tree.l3 EXCEPT ![y] = row], l4 |-> tree.l4]
    BY <1>1, TreeExcept
  <2> QED BY <1>4, <2>1, <2>2
<1>6. Replace(k, {}, {}) /\ unread' = TRUE /\ UNCHANGED <<step, workshop, fitJob>>
  BY <1>5 DEF OverrideL3Fit
<1>7. /\ k \in Trees /\ k.l2 = tree.l2 /\ k.l4 = tree.l4 /\ k.l3[y] = row
      /\ \A z \in L3s : z # y => k.l3[z] = tree.l3[z]
      /\ \A out : UpToDate(tree, out) => UpToDate(k, out)
  <2>1. /\ k \in Trees /\ k.l2 = tree.l2 /\ k.l4 = tree.l4 /\ k.l3[y] = row
        /\ \A z \in L3s : z # y => k.l3[z] = tree.l3[z]
        /\ \A out : UpToDate(tree, out) /\ (y \in out \/ row.suggested = tree.l3[y].suggested) => UpToDate(k, out)
    BY <1>1, <1>3, <1>4, OneL3
  <2> QED BY <1>3, <2>1
<1>8. Explained(tree) => Explained(k)
  BY <1>1, <1>3, <1>7 DEF Explained
<1>9. UpToDate(tree, outdated) => UpToDate(k, (outdated \ {}) \cup {})
  <2>1. (outdated \ {}) \cup {} = outdated
    OBVIOUS
  <2> QED BY <1>7, <2>1
<1>10. FitInv'
  BY <1>6, <1>7, <1>8, <1>9, FitReplacesRows
<1>11. tree' = k
  BY <1>6 DEF Replace
<1> QED BY <1>7, <1>10, <1>11 DEF ConfirmsNothing

\* One L3, or the whole hierarchy, is calculated again.
LEMMA FitRecalculates ==
    ASSUME FitInv, NEW ys, Replace(RecalculateL2Readiness(RecalculateL3Consolidated(tree, ys)), ys, {}),
           unread' = FALSE, UNCHANGED <<step, workshop, fitJob>>
    PROVE  FitInv' /\ Respects
<1>1. tree \in Trees
  BY RowsAre
<1>2. PICK c : c = RecalculateL3Consolidated(tree, ys)
  OBVIOUS
<1>3. PICK g : g = RecalculateL2Readiness(c)
  OBVIOUS
<1>4. c \in Trees /\ c.l2 = tree.l2 /\ c.l4 = tree.l4
  BY <1>1, <1>2, ConsolidatedOK
<1>5. /\ OverridesKept(tree, c) /\ (Explained(tree) => Explained(c))
      /\ \A out : UpToDate(tree, out) => UpToDate(c, out \ ys)
  BY <1>1, <1>2, ConsolidatedKeeps
<1>6. /\ g \in Trees /\ g.l3 = c.l3 /\ g.l4 = c.l4 /\ g.l2.readiness = Score(g) /\ ConfirmsNothing(c, g)
      /\ OverridesKept(c, g) /\ (Explained(c) => Explained(g))
      /\ \A out : UpToDate(c, out) => UpToDate(g, out)
  BY <1>3, <1>4, ReadinessOK, ReadinessKeeps
<1>7. Replace(g, ys, {})
  BY <1>2, <1>3
<1>8. UpToDate(tree, outdated) => UpToDate(g, (outdated \ ys) \cup {})
  <2>1. (outdated \ ys) \cup {} = outdated \ ys
    OBVIOUS
  <2> QED BY <1>5, <1>6, <2>1
<1>9. \A x \in L4s : g.l4[x].scope = tree.l4[x].scope
  BY <1>4, <1>6
<1>10. FitInv'
  BY <1>5, <1>6, <1>7, <1>8, <1>9, FitReplacesRows
<1>11. tree' = g
  BY <1>7 DEF Replace
<1>12. OverridesKept(tree, g)
  BY <1>5, <1>6 DEF OverridesKept
<1>13. ConfirmsNothing(tree, g)
  BY <1>4, <1>6 DEF ConfirmsNothing
<1> QED BY <1>10, <1>11, <1>12, <1>13 DEF Respects

\* An area is about to be confirmed.
LEMMA FitConfirms ==
    ASSUME FitInv, NEW t \in FitThreads, NEW s \in Confirmed, ConfirmL2(t, s)
    PROVE  FitInv' /\ tree' = tree /\ AreaDecided
<1>1. PICK job : job = Confirmation(s)
  OBVIOUS
<1>2. Prepare(t, job) /\ FreshReadiness.l2.readiness >= 100
  BY <1>1 DEF ConfirmL2
<1>3. StepPart(job.step) /\ WriteJob(job)
  BY <1>1, RowsAre, ConfirmationOK, NothingWritten DEF WriteJob, StepPart
<1>4. WorkedOut(job)
  BY <1>1, <1>2 DEF WorkedOut
<1> QED BY <1>2, <1>3, <1>4, FitBegins, RowsAre, FreshReadinessOK DEF Prepare

\* An L3 goes in or out of scope.
LEMMA FitScopes ==
    ASSUME FitInv, NEW y \in L3s, NEW scope \in {"in_scope", "out_of_scope"}, UpdateL3(y, scope)
    PROVE  FitInv' /\ Respects
<1>1. tree \in Trees /\ tree.l3[y] \in L3Rows
  BY RowsAre, TreeShape
<1>2. PICK row : row = [tree.l3[y] EXCEPT !.scope = scope]
  OBVIOUS
<1>3. /\ row \in L3Rows /\ row.decision = tree.l3[y].decision /\ row.suggested = tree.l3[y].suggested
      /\ row.override = tree.l3[y].override
  <2>1. \A r \in L3Rows : \A n : n = [r EXCEPT !.scope = scope] =>
            n \in L3Rows /\ n.decision = r.decision /\ n.suggested = r.suggested /\ n.override = r.override
    BY DEF L3Rows
  <2> QED BY <1>1, <1>2, <2>1
<1>4. PICK k : k = [l2 |-> tree.l2, l3 |-> [tree.l3 EXCEPT ![y] = row], l4 |-> tree.l4]
  OBVIOUS
<1>5. [tree EXCEPT !.l3[y].scope = scope] = k
  <2>1. [tree EXCEPT !.l3[y].scope = scope] = [tree EXCEPT !.l3 = [tree.l3 EXCEPT ![y] = row]]
    BY <1>2
  <2>2. [tree EXCEPT !.l3 = [tree.l3 EXCEPT ![y] = row]] = [l2 |-> tree.l2, l3 |-> [tree.l3 EXCEPT ![y] = row], l4 |-> tree.l4]
    BY <1>1, TreeExcept
  <2> QED BY <1>4, <2>1, <2>2
<1>6. Replace(k, {}, {y}) /\ unread' = TRUE /\ UNCHANGED <<step, workshop, fitJob>>
  BY <1>5 DEF UpdateL3, Edit
<1>7. /\ k \in Trees /\ k.l2 = tree.l2 /\ k.l4 = tree.l4 /\ k.l3[y] = row
      /\ \A z \in L3s : z # y => k.l3[z] = tree.l3[z]
      /\ \A out : UpToDate(tree, out) => UpToDate(k, out)
  <2>1. /\ k \in Trees /\ k.l2 = tree.l2 /\ k.l4 = tree.l4 /\ k.l3[y] = row
        /\ \A z \in L3s : z # y => k.l3[z] = tree.l3[z]
        /\ \A out : UpToDate(tree, out) /\ (y \in out \/ row.suggested = tree.l3[y].suggested) => UpToDate(k, out)
    BY <1>1, <1>3, <1>4, OneL3
  <2> QED BY <1>3, <2>1
<1>8. (Explained(tree) => Explained(k)) /\ OverridesKept(tree, k) /\ ConfirmsNothing(tree, k)
  BY <1>3, <1>7 DEF Explained, OverridesKept, ConfirmsNothing
<1>9. UpToDate(tree, outdated) => UpToDate(k, (outdated \ {}) \cup {y})
  BY <1>7 DEF UpToDate
<1>10. FitInv'
  BY <1>6, <1>7, <1>8, <1>9, FitReplacesRows
<1>11. tree' = k
  BY <1>6 DEF Replace
<1> QED BY <1>8, <1>10, <1>11 DEF Respects

\* An L4 is edited, deleted when no step is about it, or added.
LEMMA FitEdits ==
    ASSUME FitInv, NEW x \in L4s, NEW row \in L4Rows, Edit([tree EXCEPT !.l4[x] = row], {Parent[x]}),
           UNCHANGED <<workshop, unread>>,
           row.scope # "deleted" \/ HasNoSteps(x)
    PROVE  FitInv' /\ Respects
<1>1. tree \in Trees /\ step \in StepRows /\ workshop \in [Workshops -> WorkshopRows] /\ StepsStand
  BY RowsAre
<1>0. PICK m : m = [tree.l4 EXCEPT ![x] = row]
  OBVIOUS
<1>9. m \in [L4s -> L4Rows] /\ m[x] = row /\ \A z \in L4s : z # x => m[z] = tree.l4[z]
  BY <1>0, <1>1, TreeShape
<1>2. PICK k : k = [l2 |-> tree.l2, l3 |-> tree.l3, l4 |-> m]
  OBVIOUS
<1>20. [tree EXCEPT !.l4[x] = row] = k
  <2>1. [tree EXCEPT !.l4[x] = row] = [tree EXCEPT !.l4 = m]
    BY <1>0
  <2> QED BY <1>1, <1>2, <2>1, TreeExcept
<1>3. /\ k \in Trees /\ k.l2 = tree.l2 /\ k.l3 = tree.l3 /\ k.l4[x] = row
      /\ \A z \in L4s : z # x => k.l4[z] = tree.l4[z]
      /\ \A out : UpToDate(tree, out) => UpToDate(k, (out \ {}) \cup {Parent[x]})
      /\ Score(k) = Score(tree) /\ (Explained(tree) => Explained(k))
      /\ ConfirmsNothing(tree, k) /\ OverridesKept(tree, k)
  BY <1>1, <1>2, <1>9, OneL4
<1>4. Replace(k, {}, {Parent[x]}) /\ step' = step /\ fitJob' = fitJob /\ workshop' = workshop /\ unread' = unread
  BY <1>20 DEF Edit
<1>5. tree' = k
  BY <1>4 DEF Replace
<1>6. StepsStand'
  BY <1>1, <1>3, <1>4, <1>5 DEF StepsStand, HasNoSteps
<1>7. ReadinessFresh => (~unread' => k.l2.readiness = Score(k))
  BY <1>3, <1>4 DEF ReadinessFresh
<1>8. FitInv'
  BY <1>1, <1>3, <1>4, <1>6, <1>7, FitReplaces
<1> QED BY <1>3, <1>5, <1>8 DEF Respects

\* A workshop's fields are edited.
LEMMA FitWorkshopEdits ==
    ASSUME FitInv, NEW w \in Workshops, NEW row \in WorkshopRows, row.status # "none", UpdateWorkshop(w, row)
    PROVE  FitInv' /\ Respects
<1>1. tree \in Trees /\ step \in StepRows /\ workshop \in [Workshops -> WorkshopRows] /\ StepsStand
  BY RowsAre
<1>2. Replace(tree, {}, {}) /\ step' = step /\ fitJob' = fitJob /\ workshop' = [workshop EXCEPT ![w] = row] /\ unread' = unread
  BY DEF UpdateWorkshop, Edit
<1>3. tree' = tree
  BY <1>2 DEF Replace
<1>4. workshop' \in [Workshops -> WorkshopRows] /\ \A v \in Workshops : workshop'[v] = row \/ workshop'[v] = workshop[v]
  BY <1>1, <1>2
<1>5. StepsStand'
  BY <1>1, <1>2, <1>3, <1>4 DEF StepsStand
<1>6. ReadinessFresh => (~unread' => tree.l2.readiness = Score(tree))
  BY <1>2 DEF ReadinessFresh
<1>7. (outdated \ {}) \cup {} = outdated
  OBVIOUS
<1>8. FitInv'
  BY <1>1, <1>2, <1>4, <1>5, <1>6, <1>7, FitReplaces
<1> QED BY <1>3, <1>8, SameRespects

------------------------------------------------------------------------------
(* The steps and the theorems                                                 *)

\* The two actions that change an override, and what a commit that confirms
\* goes back to.
Decides == \E y \in L3s, d \in Decisions : OverrideL3Fit(y, d) \/ \E b \in BOOLEAN : SignoffL3(y, d, b)
CommitsConfirmation == (\E t \in FitThreads : Confirms(fitJob[t])) /\ (~fitRaced' => AreaDecided)

\* Every step keeps the invariant, and respects overrides and confirmations
\* unless it is one of those.
LEMMA FitStep ==
    ASSUME FitInv, FitNext
    PROVE  /\ FitInv'
           /\ ConfirmsNothing(tree, tree') \/ CommitsConfirmation
           /\ ~fitRaced' => OverridesKept(tree, tree') \/ Decides
<1> DEFINE Good == /\ FitInv'
                   /\ ConfirmsNothing(tree, tree') \/ CommitsConfirmation
                   /\ ~fitRaced' => OverridesKept(tree, tree') \/ Decides
<1>1. FitInv' /\ Respects => Good
  BY DEF Respects
<1>2. tree' = tree => Respects
  BY SameRespects
<1> SUFFICES Good
  BY DEF Good
<1> HIDE DEF Good
<1>3. ASSUME NEW t \in FitThreads, NEW w \in Workshops, NEW x \in L4s, NEW d \in Taken, UpdateProcessStep(t, w, x, d)
      PROVE  Good
  <2>1. PICK final \in BOOLEAN : final = IsFinal(w)
    BY RowsAre DEF IsFinal, WorkshopRows
  <2>2. PICK s : s = About(<<w, x>>, d)
    OBVIOUS
  <2>3. PICK job : job = Prepared(x, d, final, s)
    OBVIOUS
  <2>4. Prepare(t, job) /\ step[<<w, x>>] # NoStep
    BY <1>3, <2>1, <2>2, <2>3 DEF UpdateProcessStep, StepsOf
  <2>5. StepPart(s)
    BY <2>2, <2>4 DEF StepPart, About
  <2>6. WorkedOut(job)
    BY <2>3 DEF WorkedOut
  <2>7. WriteJob(job)
    BY <2>3, <2>5, RowsAre, PreparedOK DEF WriteJob
  <2>8. FitInv'
    BY <2>4, <2>6, <2>7, FitBegins
  <2>9. tree' = tree
    BY <2>4 DEF Prepare
  <2> QED BY <1>1, <1>2, <2>8, <2>9
<1>4. ASSUME NEW t \in FitThreads, PropagateDecision(t)
      PROVE  Good
  <2>1. PICK old : old = fitJob[t]
    OBVIOUS
  <2>2. DecidedJob(old)
    BY <1>4, <2>1, JobKinds DEF FitInv, FitJobOK, PropagateDecision
  <2>3. PICK x \in L4s : x = old.at[2]
    BY <2>2 DEF DecidedJob
  <2>4. PICK d \in Taken : d = step[old.at]
    BY <2>2, RowsAre DEF DecidedJob, StepRows
  <2>5. PICK s : s = << >>
    OBVIOUS
  <2>13. PICK f \in BOOLEAN : f = TRUE
    OBVIOUS
  <2>6. PICK job : job = Prepared(x, d, f, s)
    OBVIOUS
  <2>7. Prepare(t, job)
    BY <1>4, <2>1, <2>3, <2>4, <2>5, <2>6, <2>13 DEF PropagateDecision
  <2>8. StepPart(s)
    BY <2>5, NothingWritten DEF StepPart
  <2>9. WorkedOut(job)
    BY <2>6 DEF WorkedOut
  <2>10. WriteJob(job)
    BY <2>6, <2>8, RowsAre, PreparedOK DEF WriteJob
  <2>11. FitInv'
    BY <2>7, <2>9, <2>10, FitBegins
  <2>12. tree' = tree
    BY <2>7 DEF Prepare
  <2> QED BY <1>1, <1>2, <2>11, <2>12
<1>5. ASSUME NEW t \in FitThreads, CommitDecision(t)
      PROVE  Good
  BY <1>5, FitCommits DEF Good, CommitsConfirmation
<1>6. ASSUME NEW t \in FitThreads, AbandonPropagation(t)
      PROVE  Good
  BY <1>1, <1>2, <1>6, FitAbandons DEF AbandonPropagation
<1>7. ASSUME NEW t \in FitThreads, NEW w \in Workshops, NEW x \in L4s, NEW d \in Taken, SetFitDecision(t, w, x, d)
      PROVE  Good
  BY <1>1, <1>2, <1>7, FitDecides DEF SetFitDecision
<1>8. ASSUME NEW w \in Workshops, NEW b \in BOOLEAN, CreateWorkshop(w, b)
      PROVE  Good
  <2>1. UNCHANGED <<tree, step, fitJob, fitRaced, outdated, unread>>
        /\ workshop' = [workshop EXCEPT ![w] = [status |-> "draft", final |-> b]]
    BY <1>8 DEF CreateWorkshop
  <2>2. [status |-> "draft", final |-> b] \in WorkshopRows
    BY DEF WorkshopRows
  <2>3. workshop' \in [Workshops -> WorkshopRows]
        /\ \A v \in Workshops : workshop[v].status # "none" => workshop'[v].status # "none"
    BY <2>1, <2>2, RowsAre
  <2>4. FitInv'
    BY <2>1, <2>3, FitWorkshops
  <2> QED BY <1>1, <1>2, <2>1, <2>4
<1>9. ASSUME NEW w \in Workshops, ReopenWorkshop(w)
      PROVE  Good
  <2>1. UNCHANGED <<tree, step, fitJob, fitRaced, outdated, unread>>
        /\ workshop' = [workshop EXCEPT ![w].status = "in_progress"]
    BY <1>9 DEF ReopenWorkshop
  <2>2. \A r \in WorkshopRows : [r EXCEPT !.status = "in_progress"] \in WorkshopRows
                                 /\ [r EXCEPT !.status = "in_progress"].status = "in_progress"
    BY DEF WorkshopRows
  <2>3. workshop' \in [Workshops -> WorkshopRows]
        /\ \A v \in Workshops : workshop[v].status # "none" => workshop'[v].status # "none"
    BY <2>1, <2>2, RowsAre
  <2>4. FitInv'
    BY <2>1, <2>3, FitWorkshops
  <2> QED BY <1>1, <1>2, <2>1, <2>4
<1>10. ASSUME NEW w \in Workshops, NEW s \in {"draft", "in_progress", "completed"}, NEW f \in BOOLEAN,
              UpdateWorkshop(w, [status |-> s, final |-> f])
       PROVE  Good
  <2>1. PICK row : row = [status |-> s, final |-> f]
    OBVIOUS
  <2>2. row \in WorkshopRows /\ row.status # "none"
    BY <2>1 DEF WorkshopRows
  <2>3. UpdateWorkshop(w, row)
    BY <1>10, <2>1
  <2> QED BY <1>1, <2>2, <2>3, FitWorkshopEdits
<1>11. ASSUME NEW w \in Workshops, StartWorkshop(w)
       PROVE  Good
  BY <1>1, <1>11, FitStarts
<1>12. ASSUME NEW w \in Workshops, NEW b \in BOOLEAN, CompleteWorkshop(w, b)
       PROVE  Good
  BY <1>1, <1>12, FitCompletes
<1>13. ASSUME NEW y \in L3s, NEW d \in Decisions, OverrideL3Fit(y, d)
       PROVE  Good
  BY <1>13, FitOverrides DEF Good, Decides
<1>14. ASSUME NEW y \in L3s, NEW d \in Decisions, NEW b \in BOOLEAN, SignoffL3(y, d, b)
       PROVE  Good
  BY <1>14, FitSignsOff DEF Good, Decides
<1>15. ASSUME NEW t \in FitThreads, NEW s \in Confirmed, ConfirmL2(t, s)
       PROVE  Good
  BY <1>1, <1>2, <1>15, FitConfirms
<1>16. ASSUME NEW y \in L3s, ConsolidateFit(y)
       PROVE  Good
  BY <1>1, <1>16, FitRecalculates DEF ConsolidateFit
<1>17. CASE RunFitPropagation
  BY <1>1, <1>17, FitRecalculates DEF RunFitPropagation, RecalculateProjectHierarchy
<1>18. ASSUME NEW y \in L3s, NEW s \in {"in_scope", "out_of_scope"}, UpdateL3(y, s)
       PROVE  Good
  BY <1>1, <1>18, FitScopes
<1>19. ASSUME NEW x \in L4s, NEW s \in {"in_scope", "out_of_scope"}, NEW f \in Rated, UpdateL4(x, s, f)
       PROVE  Good
  <2>1. PICK row : row = [scope |-> s, fit |-> f]
    OBVIOUS
  <2>2. row \in L4Rows /\ row.scope # "deleted"
    BY <2>1 DEF L4Rows
  <2>3. Edit([tree EXCEPT !.l4[x] = row], {Parent[x]}) /\ UNCHANGED <<workshop, unread>>
    BY <1>19, <2>1 DEF UpdateL4
  <2> QED BY <1>1, <2>2, <2>3, FitEdits
<1>20. ASSUME NEW x \in L4s, NEW s \in {"in_scope", "out_of_scope"}, NEW f \in Rated, CreateProcessLevel(x, s, f)
       PROVE  Good
  <2>1. PICK row : row = [scope |-> s, fit |-> f]
    OBVIOUS
  <2>2. row \in L4Rows /\ row.scope # "deleted"
    BY <2>1 DEF L4Rows
  <2>3. Edit([tree EXCEPT !.l4[x] = row], {Parent[x]}) /\ UNCHANGED <<workshop, unread>>
    BY <1>20, <2>1 DEF CreateProcessLevel, AddL4
  <2> QED BY <1>1, <2>2, <2>3, FitEdits
<1>24. ASSUME NEW x \in L4s, NEW s \in {"in_scope", "out_of_scope"}, AddL4Child(x, s)
       PROVE  Good
  <2>1. Undecided \in Rated /\ CreateProcessLevel(x, s, Undecided)
    BY <1>24 DEF AddL4Child, CreateProcessLevel, Rated
  <2> QED BY <1>20, <2>1
<1>21. ASSUME NEW x \in L4s, DeleteL4(x)
       PROVE  Good
  <2>1. PICK row : row = [tree.l4[x] EXCEPT !.scope = "deleted"]
    OBVIOUS
  <2>2. row \in L4Rows
    <3>1. \A r \in L4Rows : [r EXCEPT !.scope = "deleted"] \in L4Rows
      BY DEF L4Rows
    <3> QED BY <2>1, <3>1, RowsAre, TreeShape
  <2>3. [tree EXCEPT !.l4[x].scope = "deleted"] = [tree EXCEPT !.l4[x] = row]
    BY <2>1
  <2>4. Edit([tree EXCEPT !.l4[x] = row], {Parent[x]}) /\ UNCHANGED <<workshop, unread>> /\ HasNoSteps(x)
    BY <1>21, <2>3 DEF DeleteL4
  <2> QED BY <1>1, <2>2, <2>4, FitEdits
<1>22. ASSUME NEW w \in Workshops, CreateDeltaWorkshop(w)
       PROVE  Good
  BY <1>8, <1>22 DEF CreateDeltaWorkshop
<1>23. CASE FitRequests
  <2>1. CASE \E t \in FitThreads, w \in Workshops, x \in L4s, d \in Decisions \cup {Undecided} :
                 UpdateProcessStep(t, w, x, d) \/ SetFitDecision(t, w, x, d)
    BY <1>3, <1>7, <2>1 DEF Taken
  <2>2. CASE \E w \in Workshops :
                 \/ StartWorkshop(w) \/ ReopenWorkshop(w) \/ CreateDeltaWorkshop(w)
                 \/ \E b \in BOOLEAN : CreateWorkshop(w, b) \/ CompleteWorkshop(w, b)
                 \/ \E s \in {"draft", "in_progress", "completed"}, f \in BOOLEAN :
                     UpdateWorkshop(w, [status |-> s, final |-> f])
    BY <1>8, <1>9, <1>10, <1>11, <1>12, <1>22, <2>2
  <2>3. CASE \E y \in L3s :
                 \/ ConsolidateFit(y)
                 \/ \E d \in Decisions : OverrideL3Fit(y, d) \/ \E b \in BOOLEAN : SignoffL3(y, d, b)
                 \/ \E s \in {"in_scope", "out_of_scope"} : UpdateL3(y, s)
    BY <1>13, <1>14, <1>16, <1>18, <2>3
  <2>4. CASE \E x \in L4s :
                 \/ DeleteL4(x)
                 \/ \E s \in {"in_scope", "out_of_scope"} :
                     \/ AddL4Child(x, s)
                     \/ \E f \in Rated : UpdateL4(x, s, f) \/ CreateProcessLevel(x, s, f)
    BY <1>19, <1>20, <1>21, <1>24, <2>4
  <2>5. CASE \E t \in FitThreads, s \in Confirmed : ConfirmL2(t, s)
    BY <1>15, <2>5
  <2> QED BY <1>23, <2>1, <2>2, <2>3, <2>4, <2>5 DEF FitRequests
<1> QED BY <1>4, <1>5, <1>6, <1>17, <1>23 DEF FitNext

\* The invariant says what the run's properties say.
LEMMA FitInvSays ==
    ASSUME FitInv
    PROVE  ConsolidationAgrees /\ ReadinessCurrent
<1>1. tree \in Trees /\ step \in StepRows /\ StepsStand
  BY RowsAre
<1>2. FitTypeOK
  <2>1. tree.l2.readiness \in 0 .. 100 /\ tree.l2.confirmation \in Confirmed \cup {"none", "not_ready", "ready"}
    BY <1>1, TreeShape DEF L2Rows
  <2>2. \A y \in L3s : tree.l3[y] \in L3Rows
    BY <1>1, TreeShape
  <2>3. \A y \in L3s : /\ tree.l3[y].scope \in {"in_scope", "out_of_scope"}
                       /\ {tree.l3[y].suggested, tree.l3[y].decision} \subseteq {Undecided, "fit", "gap", "partial_fit"}
    BY <2>2 DEF L3Rows, Fits
  <2> QED BY <1>1, <2>1, <2>3 DEF FitTypeOK, StepsStand
<1>3. DecisionExplained
  BY DEF DecisionExplained, FitInv, FitSerial, Explained
<1>4. SuggestionCurrent
  <2> SUFFICES ASSUME ~fitRaced, NEW y \in L3s \ outdated
               PROVE  LET fits(f) == {x \in ChildrenOf(tree, y) : tree.l4[x].fit = f}
                          children == ChildrenOf(tree, y)
                      IN  CASE children = fits(Undecided) -> tree.l3[y].suggested = Undecided
                            [] children # {} /\ children = fits("fit") -> tree.l3[y].suggested = "fit"
                            [] children # {} /\ children = fits("gap") -> tree.l3[y].suggested = "gap"
                            [] OTHER -> tree.l3[y].suggested = "partial_fit"
    BY DEF SuggestionCurrent
  <2> DEFINE children == ChildrenOf(tree, y)
             fits(f) == {x \in children : tree.l4[x].fit = f}
  <2>1. tree.l3[y].suggested = SystemSuggestedFit(tree, y)
    BY DEF FitInv, FitSerial, UpToDate, Suggests
  <2>2. /\ children = fits(Undecided) => tree.l3[y].suggested = Undecided
        /\ children # {} /\ children = fits("fit") => tree.l3[y].suggested = "fit"
        /\ children # {} /\ children = fits("gap") => tree.l3[y].suggested = "gap"
        /\ children # fits(Undecided) /\ children # fits("fit") /\ children # fits("gap")
              => tree.l3[y].suggested = "partial_fit"
    BY <1>1, <2>1, SuggestionOK
  <2>3. children = {} => children = fits(Undecided)
    OBVIOUS
  <2>4. children # {} => /\ ~ (children = fits(Undecided) /\ children = fits("fit"))
                         /\ ~ (children = fits(Undecided) /\ children = fits("gap"))
                         /\ ~ (children = fits("fit") /\ children = fits("gap"))
    BY DEF Undecided
  <2> HIDE DEF children, fits
  <2>5. (CASE children = fits(Undecided) -> tree.l3[y].suggested = Undecided
           [] children # {} /\ children = fits("fit") -> tree.l3[y].suggested = "fit"
           [] children # {} /\ children = fits("gap") -> tree.l3[y].suggested = "gap"
           [] OTHER -> tree.l3[y].suggested = "partial_fit")
    BY <2>2, <2>3, <2>4
  <2> QED BY <2>5 DEF children, fits
<1>5. ReadinessCurrent
  <2>1. RecalculateL2Readiness(tree).l2.readiness = Score(tree)
    BY <1>1, ReadinessOK
  <2> QED BY <2>1 DEF ReadinessCurrent, FitInv, FitSerial, ReadinessFresh
<1> QED BY <1>2, <1>3, <1>4, <1>5 DEF ConsolidationAgrees

\* The rows are of their kinds, and however requests overlap a step stays one
\* of a workshop and a process that exist.
THEOREM FitInvariant == FitSpec => []FitInv
<1>1. FitInv /\ [FitNext]_fitVars => FitInv'
  <2> SUFFICES ASSUME FitInv, [FitNext]_fitVars PROVE FitInv'
    OBVIOUS
  <2>1. CASE UNCHANGED fitVars
    BY <2>1, FitWorkshops, RowsAre DEF fitVars
  <2> QED BY <2>1, FitStep
<1> QED BY <1>1, FitInitInv, PTL DEF FitSpec

\* Suggestion, decision and override flag of each L3 agree with its processes
\* and with each other whenever no requests have overlapped.
THEOREM FitsConsolidate == FitSpec => []ConsolidationAgrees
<1>1. FitInv => ConsolidationAgrees
  BY FitInvSays
<1> QED BY <1>1, FitInvariant, PTL

\* The stored readiness is the share of decided L3s that a fresh look would
\* find, but for what the code changes without a look.
THEOREM ReadinessIsCurrent == FitSpec => []ReadinessCurrent
<1>1. FitInv => ReadinessCurrent
  BY FitInvSays
<1> QED BY <1>1, FitInvariant, PTL

\* No propagation touches a decision of the business.
THEOREM OverridesStand == FitSpec => OverrideStands
<1>1. FitInv /\ [FitNext]_fitVars =>
          [\A y \in L3s :
              ~fitRaced' /\ tree.l3[y].override /\ tree'.l3[y].decision # tree.l3[y].decision =>
                  \E d \in Decisions : OverrideL3Fit(y, d) \/ \E b \in BOOLEAN : SignoffL3(y, d, b)]_fitVars
  <2> SUFFICES ASSUME FitInv, FitNext, NEW y \in L3s,
                      ~fitRaced', tree.l3[y].override, tree'.l3[y].decision # tree.l3[y].decision
               PROVE  \E d \in Decisions : OverrideL3Fit(y, d) \/ \E b \in BOOLEAN : SignoffL3(y, d, b)
    OBVIOUS
  <2>1. Decides
    BY FitStep DEF OverridesKept
  <2>2. PICK z \in L3s, d \in Decisions : OverrideL3Fit(z, d) \/ \E b \in BOOLEAN : SignoffL3(z, d, b)
    BY <2>1 DEF Decides
  <2>3. z = y
    BY <2>2, FitOverrides, FitSignsOff
  <2> QED BY <2>2, <2>3
<1> QED BY <1>1, FitInvariant, PTL DEF FitSpec, OverrideStands

\* A confirmation begins on a decided area only: the other requests that are
\* about to commit confirm nothing.
LEMMA ConfirmationsBegin ==
    ASSUME FitInv, FitNext, NEW t \in FitThreads, Confirms(fitJob'[t]), ~Confirms(fitJob[t])
    PROVE  AreaDecided
<1>1. tree \in Trees /\ step \in StepRows /\ workshop \in [Workshops -> WorkshopRows]
      /\ fitJob = [o \in FitThreads |-> fitJob[o]] /\ \A o \in FitThreads : FitJobOK(fitJob[o])
  BY RowsAre DEF FitInv
<1>2. fitJob' # fitJob
  OBVIOUS
<1>3. ASSUME NEW o \in FitThreads, NEW job, fitJob' = [fitJob EXCEPT ![o] = job], ~Confirms(job)
      PROVE  FALSE
  BY <1>1, <1>3
<1>4. ASSUME NEW o \in FitThreads, CommitDecision(o) \/ AbandonPropagation(o)
      PROVE  FALSE
  BY <1>3, <1>4, JobKinds DEF CommitDecision, AbandonPropagation, Confirms
<1>5. ASSUME NEW o \in FitThreads, NEW x \in L4s, NEW d \in Taken, NEW f \in BOOLEAN, NEW s, Prepare(o, Prepared(x, d, f, s))
      PROVE  FALSE
  BY <1>1, <1>3, <1>5, PreparedOK DEF Prepare
<1>6. ASSUME NEW o \in FitThreads, NEW w \in Workshops, NEW x \in L4s, NEW d \in Taken, UpdateProcessStep(o, w, x, d)
      PROVE  FALSE
  <2>1. PICK final \in BOOLEAN : final = IsFinal(w)
    BY <1>1 DEF IsFinal, WorkshopRows
  <2> QED BY <1>5, <1>6, <2>1 DEF UpdateProcessStep
<1>7. ASSUME NEW o \in FitThreads, PropagateDecision(o)
      PROVE  FALSE
  <2>1. DecidedJob(fitJob[o])
    BY <1>1, <1>7, JobKinds DEF FitJobOK, PropagateDecision
  <2>2. PICK x \in L4s, d \in Taken : x = fitJob[o].at[2] /\ d = step[fitJob[o].at]
    BY <1>1, <2>1 DEF DecidedJob, StepRows
  <2> QED BY <1>5, <1>7, <2>2 DEF PropagateDecision
<1>8. ASSUME NEW o \in FitThreads, NEW w \in Workshops, NEW x \in L4s, NEW d \in Taken, SetFitDecision(o, w, x, d)
      PROVE  FALSE
  <2>1. PICK job : job = [op |-> "decided", at |-> <<w, x>>]
    OBVIOUS
  <2>2. job.op = "decided" /\ fitJob' = [fitJob EXCEPT ![o] = job]
    BY <1>8, <2>1 DEF SetFitDecision
  <2> QED BY <1>3, <2>2 DEF Confirms
<1>9. CASE FitRequests
  <2>1. PICK o \in FitThreads, s \in Confirmed : ConfirmL2(o, s)
    BY <1>2, <1>6, <1>8, <1>9
      DEF FitRequests, StartWorkshop, ReopenWorkshop, CreateDeltaWorkshop, CreateWorkshop, CompleteWorkshop,
          UpdateWorkshop, ConsolidateFit, OverrideL3Fit, SignoffL3, UpdateL3, DeleteL4, AddL4Child,
          CreateProcessLevel, AddL4, UpdateL4, Edit, Taken
  <2> QED BY <2>1, FitConfirms
<1> QED BY <1>2, <1>4, <1>7, <1>9 DEF FitNext, RunFitPropagation

\* A confirmation is begun on decisions there are, however stale the readiness
\* stored with the area is and however requests overlap; the area is confirmed
\* by nothing else, and when no requests have overlapped the decisions are
\* still there.
THEOREM ConfirmationsWereDecided == FitSpec => ConfirmedWasDecided
<1>1. FitInv /\ [FitNext]_fitVars =>
          [/\ \A t \in FitThreads : Confirms(fitJob'[t]) /\ ~Confirms(fitJob[t]) => AreaDecided
           /\ BecomesConfirmed => /\ \E t \in FitThreads : Confirms(fitJob[t])
                                  /\ ~fitRaced' => AreaDecided]_fitVars
  <2> SUFFICES ASSUME FitInv, FitNext
               PROVE  /\ \A t \in FitThreads : Confirms(fitJob'[t]) /\ ~Confirms(fitJob[t]) => AreaDecided
                      /\ BecomesConfirmed => /\ \E t \in FitThreads : Confirms(fitJob[t])
                                             /\ ~fitRaced' => AreaDecided
    OBVIOUS
  <2>1. BecomesConfirmed => ~ConfirmsNothing(tree, tree')
    BY DEF BecomesConfirmed, ConfirmsNothing, Confirmed
  <2>2. BecomesConfirmed => CommitsConfirmation
    BY <2>1, FitStep
  <2> QED BY <2>2, ConfirmationsBegin DEF CommitsConfirmation
<1> QED BY <1>1, FitInvariant, PTL DEF FitSpec, ConfirmedWasDecided
==============================================================================
