-------------------------- MODULE DependencyDagProofs --------------------------
(* Why a dependency that passed the cycle check keeps the runbook a DAG, for  *)
(* every set of tasks, finite or not.                                         *)
EXTENDS DependencyDag, TLAPS

\* An edge that a closed set separates closes no cycle.  Of a set S of tasks,
\* the part inside the closed set C has a member that waits for nothing in that
\* part, hence for nothing in S; a set that does not meet C has not got the new
\* edge's predecessor.
LEMMA AddKeepsAcyclic ==
    ASSUME NEW E, NEW p \in Tasks, NEW s \in Tasks, Acyclic(E), SafeToAdd(E, p, s)
    PROVE  Acyclic(E \cup {<<p, s>>})
<1> DEFINE F == E \cup {<<p, s>>}
<1>1. PICK C \in SUBSET Tasks : p \in C /\ s \notin C /\ PredecessorClosed(E, C)
  BY DEF SafeToAdd
<1>2. ASSUME NEW S \in SUBSET Tasks, S # {}
      PROVE  \E t \in S : Predecessors(F, t) \cap S = {}
  <2>1. CASE S \cap C = {}
    <3>1. PICK t \in S : Predecessors(E, t) \cap S = {}
      BY <1>2 DEF Acyclic
    <3>2. p \notin S
      BY <1>1, <2>1
    <3>3. Predecessors(F, t) \cap S = {}
      BY <3>1, <3>2 DEF Predecessors
    <3>4. QED  BY <3>3
  <2>2. CASE S \cap C # {}
    <3>1. PICK t \in S \cap C : Predecessors(E, t) \cap (S \cap C) = {}
      BY <2>2 DEF Acyclic
    <3>2. t # s /\ Predecessors(E, t) \subseteq C
      BY <1>1 DEF PredecessorClosed
    <3>3. Predecessors(F, t) = Predecessors(E, t)
      BY <3>2 DEF Predecessors
    <3>4. Predecessors(F, t) \cap S = {}
      BY <3>1, <3>2, <3>3
    <3>5. QED  BY <3>4
  <2>3. QED  BY <2>1, <2>2
<1>3. QED  BY <1>2 DEF Acyclic

\* Deleting dependencies, or the tasks they join, never makes a cycle.
LEMMA SubsetKeepsAcyclic ==
    ASSUME NEW E, NEW F, Acyclic(E), F \subseteq E
    PROVE  Acyclic(F)
BY DEF Acyclic, Predecessors

\* A set closed for more edges is closed for fewer.
LEMMA SubsetKeepsSafe ==
    ASSUME NEW E, NEW F \in SUBSET E, NEW p, NEW s, SafeToAdd(E, p, s)
    PROVE  SafeToAdd(F, p, s)
<1>1. PICK C \in SUBSET Tasks : p \in C /\ s \notin C /\ PredecessorClosed(E, C)
  BY DEF SafeToAdd
<1>2. PredecessorClosed(F, C)
  BY <1>1 DEF PredecessorClosed, Predecessors
<1>3. QED  BY <1>1, <1>2 DEF SafeToAdd

\* The rows that the abstract runbook holds are pairs of its tasks and form a
\* DAG, whatever dependencies users add and delete.
THEOREM DagIsAcyclic == Spec => [](TypeOK /\ DepsAcyclic)
<1>1. Init => TypeOK /\ DepsAcyclic
  BY DEF Init, TypeOK, DepsAcyclic, Acyclic, Predecessors
<1>2. TypeOK /\ DepsAcyclic /\ [Next]_deps => TypeOK' /\ DepsAcyclic'
  <2> SUFFICES ASSUME TypeOK, DepsAcyclic, [Next]_deps
               PROVE  TypeOK' /\ DepsAcyclic'
    OBVIOUS
  <2>1. CASE UNCHANGED deps
    BY <2>1 DEF TypeOK, DepsAcyclic
  <2>2. ASSUME NEW p \in Tasks, NEW s \in Tasks, Add(p, s)
        PROVE  TypeOK' /\ DepsAcyclic'
    <3>1. TypeOK'
      BY <2>2 DEF TypeOK, Add, Edges
    <3>2. DepsAcyclic'
      BY <2>2, AddKeepsAcyclic DEF Add, DepsAcyclic
    <3>3. QED  BY <3>1, <3>2
  <2>3. ASSUME NEW E \in SUBSET deps, Drop(E)
        PROVE  TypeOK' /\ DepsAcyclic'
    BY <2>3, SubsetKeepsAcyclic DEF Drop, TypeOK, DepsAcyclic
  <2>4. QED  BY <2>1, <2>2, <2>3 DEF Next
<1>3. QED  BY <1>1, <1>2, PTL DEF Spec
==============================================================================
