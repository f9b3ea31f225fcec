---------------------------- MODULE ReleaseProofs ----------------------------
(* What the records before a release agree on, for any number of threads,     *)
(* requirements, systems and contents, and for every bound of the model.      *)
EXTENDS MCRelease, FiniteSetTheorems, SequenceTheorems, TLAPS

------------------------------------------------------------------------------
(* The history of a defect                                                    *)

NewStatuses == DEFECT_STATUSES \cup {NoStatus}
DefectRows == [status : NewStatuses \cup Legacy, reopenCount : Int, resolved : BOOLEAN]
Entries == [old : NewStatuses, new : NewStatuses]
Updates == [op : {"update"}, saw : DefectRows, new : NewStatuses]

\* What a request has checked: the transition is legal from the status it
\* loaded, and the reopenings it loaded are in the history already, but for
\* those the defect was created with.
UpdateChecked(job) ==
    LET old == canonicalize_defect_status(job.saw.status)
    IN  /\ job.new \notin {old, NoStatus} => job.new \in Allowed(old)
        /\ job.saw.reopenCount <= born.reopened + Cardinality(Reopenings)

DefectInv ==
    /\ defect \in DefectRows /\ history \in Seq(Entries)
    /\ defectJob \in [DefectThreads -> {NoUpdate} \cup Updates]
    /\ defectRaced \in BOOLEAN /\ born \in [status : DEFECT_STATUSES, reopened : Int]
    /\ \A t \in DefectThreads : defectJob[t] # NoUpdate => UpdateChecked(defectJob[t])
    /\ ~defectRaced =>
           /\ \A t, o \in DefectThreads : defectJob[t] # NoUpdate /\ defectJob[o] # NoUpdate => t = o
           /\ \A t \in DefectThreads : defectJob[t] # NoUpdate => defectJob[t].saw = defect
    /\ DefectAudited

\* The statuses, and what the older ones become.
LEMMA CanonicalStatus ==
    /\ DEFECT_STATUSES = {"new", "assigned", "in_progress", "resolved", "retest", "reopened",
                          "closed", "deferred", "rejected"}
    /\ Legacy = {"open", "fixed"}
    /\ \A s \in DEFECT_STATUSES \cup Legacy : canonicalize_defect_status(s) \in DEFECT_STATUSES
    /\ \A s \in NewStatuses : canonicalize_defect_status(s) = s
    /\ \A s \in NewStatuses \cup Legacy : canonicalize_defect_status(s) \in NewStatuses
    /\ NoStatus \notin DEFECT_STATUSES \cup Legacy
<1>1. DEFECT_STATUSES = {"new", "assigned", "in_progress", "resolved", "retest", "reopened",
                          "closed", "deferred", "rejected"}
  BY DEF DEFECT_STATUSES, VALID_TRANSITIONS
<1>2. Legacy = {"open", "fixed"}
  BY DEF Legacy, LEGACY_DEFECT_STATUS_ALIASES
<1>3. canonicalize_defect_status("open") = "assigned" /\ canonicalize_defect_status("fixed") = "resolved"
  BY <1>2 DEF canonicalize_defect_status, LEGACY_DEFECT_STATUS_ALIASES
<1>4. NoStatus \notin DEFECT_STATUSES \cup Legacy
  BY <1>1, <1>2 DEF NoStatus
<1>5. \A s \in NewStatuses : canonicalize_defect_status(s) = s
  BY <1>1, <1>2, <1>4 DEF canonicalize_defect_status, NewStatuses
<1> QED BY <1>1, <1>2, <1>3, <1>4, <1>5 DEF NewStatuses

\* A transition leads from one status to another, and from a settled one to
\* reopened.
LEMMA SettledTransitions ==
    ASSUME NEW old, NEW new \in Allowed(old)
    PROVE  /\ old \in DEFECT_STATUSES /\ new \in DEFECT_STATUSES /\ new # old
           /\ old # NoStatus /\ new # NoStatus
           /\ old \in Settled => new = "reopened"
BY CanonicalStatus DEF Allowed, VALID_TRANSITIONS, Settled

ReopeningsOf(h) == {i \in DOMAIN h : h[i].new = "reopened"}

\* Reopenings are counted one by one.
LEMMA ReopeningsAppend ==
    ASSUME NEW h \in Seq(Entries), NEW e \in Entries
    PROVE  /\ Cardinality(ReopeningsOf(h)) \in Nat
           /\ Cardinality(ReopeningsOf(Append(h, e))) =
                  IF e.new = "reopened" THEN Cardinality(ReopeningsOf(h)) + 1
                                        ELSE Cardinality(ReopeningsOf(h))
<1>1. /\ Len(h) \in Nat /\ DOMAIN h = 1 .. Len(h) /\ DOMAIN Append(h, e) = 1 .. Len(h) + 1
      /\ Append(h, e)[Len(h) + 1] = e /\ \A i \in 1 .. Len(h) : Append(h, e)[i] = h[i]
  OBVIOUS
<1>2. IsFiniteSet(1 .. Len(h))
  BY <1>1, FS_Interval
<1>3. IsFiniteSet(ReopeningsOf(h))
  BY <1>1, <1>2, FS_Subset DEF ReopeningsOf
<1>4. ReopeningsOf(Append(h, e)) = IF e.new = "reopened" THEN ReopeningsOf(h) \cup {Len(h) + 1} ELSE ReopeningsOf(h)
  BY <1>1 DEF ReopeningsOf
<1>5. Len(h) + 1 \notin ReopeningsOf(h)
  BY <1>1 DEF ReopeningsOf
<1>6. Cardinality(ReopeningsOf(h)) \in Nat
  BY <1>3, FS_CardinalityType
<1>7. Cardinality(ReopeningsOf(h) \cup {Len(h) + 1}) = Cardinality(ReopeningsOf(h)) + 1
  BY <1>3, <1>5, FS_AddElement
<1> QED BY <1>4, <1>6, <1>7

\* A defect starts with an empty history.
LEMMA DefectInitInv == DefectInit => DefectInv
<1> SUFFICES ASSUME DefectInit PROVE DefectInv
  OBVIOUS
<1>0. defect \in [status : DEFECT_STATUSES \cup Legacy, reopenCount : BornCounts, resolved : {FALSE}]
  BY DEF DefectInit
<1>a. /\ defect.status \in DEFECT_STATUSES \cup Legacy
      /\ defect.reopenCount \in Int /\ ~defect.resolved
  BY <1>0, DefectAssumption
<1>b. defect \in DefectRows
  <2>1. {FALSE} \subseteq BOOLEAN /\ BornCounts \subseteq Int
    BY DefectAssumption
  <2> QED BY <1>0, <2>1 DEF DefectRows, NewStatuses
<1>1. /\ history = << >> /\ defectRaced = FALSE
      /\ born.status = Current /\ born.reopened = defect.reopenCount
      /\ born = [status |-> Current, reopened |-> defect.reopenCount]
      /\ defectJob = [t \in DefectThreads |-> NoUpdate]
  BY DEF DefectInit, Current
<1>2. Reopenings = {}
  BY <1>1 DEF Reopenings
<1>3. Cardinality(Reopenings) = 0
  BY <1>2, FS_EmptySet
<1>4. Current \in DEFECT_STATUSES /\ Current # NoStatus
  BY <1>a, CanonicalStatus DEF Current
<1>5. DefectAudited
  <2>1. LastReached = 0
    BY <1>1, <1>4 DEF LastReached
  <2> QED BY <1>a, <1>1, <1>3, <2>1 DEF DefectAudited
<1>6. history \in Seq(Entries) /\ defectJob \in [DefectThreads -> {NoUpdate} \cup Updates]
  BY <1>1
<1>7. born \in [status : DEFECT_STATUSES, reopened : Int]
  BY <1>a, <1>1, <1>4
<1> QED BY <1>b, <1>1, <1>5, <1>6, <1>7 DEF DefectInv

\* The row that a request means to leave.
LEMMA UpdatedRow ==
    ASSUME NEW saw \in DefectRows, NEW old, NEW new \in NewStatuses
    PROVE  /\ Updated(saw, old, new) \in DefectRows
           /\ Updated(saw, old, new).status = new
           /\ Updated(saw, old, new).reopenCount =
                  IF new = "reopened" /\ old # "reopened" THEN saw.reopenCount + 1 ELSE saw.reopenCount
           /\ Updated(saw, old, new).resolved <=>
                  \/ new \in Settled /\ old \notin Settled
                  \/ saw.resolved /\ ~(new = "reopened" /\ old # "reopened")
<1> DEFINE count == IF new = "reopened" /\ old # "reopened" THEN saw.reopenCount + 1 ELSE saw.reopenCount
           done == \/ new \in Settled /\ old \notin Settled
                   \/ saw.resolved /\ ~(new = "reopened" /\ old # "reopened")
<1>1. Updated(saw, old, new) = [status |-> new, reopenCount |-> count, resolved |-> done]
  BY DEF Updated
<1>2. count \in Int
  BY DEF DefectRows
<1>3. done \in BOOLEAN
  OBVIOUS
<1> HIDE DEF count, done
<1>4. [status |-> new, reopenCount |-> count, resolved |-> done] \in DefectRows
  BY <1>2, <1>3 DEF DefectRows
<1>5. /\ Updated(saw, old, new) \in DefectRows
      /\ Updated(saw, old, new).status = new
      /\ Updated(saw, old, new).reopenCount = count
      /\ Updated(saw, old, new).resolved <=> done
  BY <1>1, <1>4
<1> QED BY <1>5 DEF count, done

\* The row that is there after the commit: what differs from the loaded row.
LEMMA MergedDefect ==
    ASSUME NEW new \in DefectRows, NEW saw \in DefectRows, NEW row \in DefectRows,
           NEW m, m = [a \in DOMAIN row |-> IF new[a] # saw[a] THEN new[a] ELSE row[a]]
    PROVE  /\ m \in DefectRows
           /\ m.reopenCount = IF new.reopenCount # saw.reopenCount THEN new.reopenCount ELSE row.reopenCount
           /\ saw = row => m = new
<1>1. DOMAIN row = {"status", "reopenCount", "resolved"}
  BY DEF DefectRows
<1>2. DOMAIN m = {"status", "reopenCount", "resolved"}
  BY <1>1
<1>3. /\ m.status = IF new.status # saw.status THEN new.status ELSE row.status
      /\ m.reopenCount = IF new.reopenCount # saw.reopenCount THEN new.reopenCount ELSE row.reopenCount
      /\ m.resolved = IF new.resolved # saw.resolved THEN new.resolved ELSE row.resolved
  BY <1>1
<1>4. /\ m.status \in NewStatuses \cup Legacy /\ m.reopenCount \in Int /\ m.resolved \in BOOLEAN
  BY <1>3 DEF DefectRows
<1>5. m = [x \in {"status", "reopenCount", "resolved"} |-> m[x]]
  BY <1>1
<1>6. m \in DefectRows
  BY <1>4, <1>5 DEF DefectRows
<1>7. ASSUME saw = row PROVE m = new
  <2>1. m.status = new.status /\ m.reopenCount = new.reopenCount /\ m.resolved = new.resolved
    BY <1>3, <1>7
  <2> QED BY <1>6, <2>1 DEF DefectRows
<1> QED BY <1>3, <1>6, <1>7

\* A request that begins.
LEMMA DefectBegins ==
    ASSUME DefectInv, NEW t \in DefectThreads, NEW new \in NewStatuses, UpdateDefect(t, new)
    PROVE  DefectInv'
<1> USE DEF DefectInv
<1>1. PICK job : job = [op |-> "update", saw |-> defect, new |-> new]
  OBVIOUS
<1>2. job \in Updates /\ job.saw = defect /\ job.new = new
  BY <1>1 DEF Updates
<1>3. /\ ~defectRaced
      /\ new \notin {Current, NoStatus} => new \in Allowed(Current)
      /\ defectRaced' = (\E o \in DefectThreads : defectJob[o] # NoUpdate)
      /\ defectJob' = [defectJob EXCEPT ![t] = job]
      /\ UNCHANGED <<defect, history, born>>
  BY <1>1 DEF UpdateDefect, defectRows, Current
<1>4. /\ defectJob'[t] = job /\ \A o \in DefectThreads \ {t} : defectJob'[o] = defectJob[o]
      /\ defectJob' \in [DefectThreads -> {NoUpdate} \cup Updates]
  BY <1>2, <1>3
<1>5. UNCHANGED <<Reopenings, Current, LastReached, born>> /\ DefectAudited'
  BY <1>3 DEF DefectAudited, Reopenings, Current, LastReached
<1>6. defect.reopenCount <= born.reopened + Cardinality(Reopenings)
  BY DEF DefectAudited
<1>7. UpdateChecked(job)
  BY <1>2, <1>3, <1>6 DEF UpdateChecked, Current
<1>8. (\A o \in DefectThreads : defectJob[o] # NoUpdate => UpdateChecked(defectJob[o]))'
  BY <1>4, <1>5, <1>7 DEF UpdateChecked
<1>9. ASSUME ~defectRaced'
      PROVE  \A o \in DefectThreads : defectJob'[o] # NoUpdate => o = t /\ defectJob'[o].saw = defect'
  BY <1>2, <1>3, <1>4, <1>9
<1> QED BY <1>3, <1>4, <1>5, <1>8, <1>9

\* A request that commits.
LEMMA DefectCommits ==
    ASSUME DefectInv, NEW t \in DefectThreads, CommitDefect(t)
    PROVE  DefectInv'
<1> USE DEF DefectInv
<1>1. defectJob[t] # NoUpdate /\ defectJob[t] \in Updates
  BY DEF CommitDefect
<1>2. PICK job \in Updates : job = defectJob[t]
  BY <1>1
<1>3. PICK old \in NewStatuses : old = canonicalize_defect_status(job.saw.status)
  BY CanonicalStatus DEF Updates, DefectRows
<1>4. job.saw \in DefectRows /\ job.new \in NewStatuses /\ job.saw.reopenCount \in Int
  BY DEF Updates, DefectRows
<1>5. PICK new \in DefectRows : new = Updated(job.saw, old, job.new)
  BY <1>4, UpdatedRow
<1>6. /\ new.status = job.new
      /\ new.reopenCount = IF new.status = "reopened" /\ old # "reopened" THEN job.saw.reopenCount + 1 ELSE job.saw.reopenCount
      /\ new.resolved <=> \/ new.status \in Settled /\ old \notin Settled
                          \/ job.saw.resolved /\ ~(new.status = "reopened" /\ old # "reopened")
  BY <1>4, <1>5, UpdatedRow
<1>7. PICK row : row = [a \in DOMAIN defect |-> IF new[a] # job.saw[a] THEN new[a] ELSE defect[a]]
  OBVIOUS
<1>8. PICK e \in Entries : e = [old |-> old, new |-> new.status]
  BY <1>4, <1>6 DEF Entries
<1>9. /\ defect' = row
      /\ history' = IF new.status = old THEN history ELSE Append(history, e)
      /\ defectJob' = [defectJob EXCEPT ![t] = NoUpdate]
      /\ UNCHANGED <<defectRaced, born>>
  BY <1>2, <1>3, <1>5, <1>7, <1>8 DEF CommitDefect
<1>10. /\ row \in DefectRows
       /\ row.reopenCount = IF new.reopenCount # job.saw.reopenCount THEN new.reopenCount ELSE defect.reopenCount
       /\ job.saw = defect => row = new
  BY <1>4, <1>7, MergedDefect
<1>11. /\ new.status # old => old # NoStatus /\ new.status \in Allowed(old) \cup {NoStatus}
       /\ new.status \notin {old, NoStatus} => new.status \in Allowed(old)
       /\ job.saw.reopenCount <= born.reopened + Cardinality(Reopenings)
  <2>1. /\ new.status \notin {old, NoStatus} => new.status \in Allowed(old)
        /\ job.saw.reopenCount <= born.reopened + Cardinality(Reopenings)
    BY <1>1, <1>2, <1>3, <1>6 DEF UpdateChecked
  <2>2. new.status \in Allowed(old) => old # NoStatus
    BY SettledTransitions
  <2> QED BY <2>1, <2>2
<1>12. /\ e.old = old /\ e.new = new.status
       /\ defectJob'[t] = NoUpdate /\ \A o \in DefectThreads \ {t} : defectJob'[o] = defectJob[o]
       /\ defectJob' \in [DefectThreads -> {NoUpdate} \cup Updates]
       /\ history' \in Seq(Entries)
  BY <1>8, <1>9
<1>13. /\ Cardinality(Reopenings) \in Nat
       /\ Cardinality(Reopenings') = IF new.status = "reopened" /\ old # "reopened" THEN Cardinality(Reopenings) + 1
                                                                               ELSE Cardinality(Reopenings)
  <2>1. Reopenings = ReopeningsOf(history) /\ Reopenings' = ReopeningsOf(history')
    BY DEF Reopenings, ReopeningsOf
  <2>2. /\ Cardinality(ReopeningsOf(history)) \in Nat
        /\ Cardinality(ReopeningsOf(Append(history, e))) =
               IF e.new = "reopened" THEN Cardinality(ReopeningsOf(history)) + 1
                                     ELSE Cardinality(ReopeningsOf(history))
    BY ReopeningsAppend
  <2> QED BY <1>9, <1>12, <2>1, <2>2
<1>14. /\ Len(history) \in Nat /\ DOMAIN history = 1 .. Len(history)
       /\ history = << >> <=> Len(history) = 0
       /\ new.status # old =>
              /\ Len(history') = Len(history) + 1 /\ DOMAIN history' = 1 .. Len(history) + 1
              /\ history'[Len(history) + 1] = e
              /\ \A i \in 1 .. Len(history) : history'[i] = history[i]
       /\ new.status = old => history' = history
  BY <1>9
<1>15. \A i \in DOMAIN history' : /\ history'[i].old # NoStatus
                                 /\ history'[i].new \in Allowed(history'[i].old) \cup {NoStatus}
  <2>1. \A i \in DOMAIN history : /\ history[i].old # NoStatus
                                /\ history[i].new \in Allowed(history[i].old) \cup {NoStatus}
    BY DEF DefectAudited
  <2>2. CASE new.status = old
    BY <1>14, <2>1, <2>2
  <2>3. CASE new.status # old
    <3>1. e.old # NoStatus /\ e.new \in Allowed(e.old) \cup {NoStatus}
      BY <1>11, <1>12, <2>3
    <3>2. ASSUME NEW i \in DOMAIN history', i # Len(history) + 1 PROVE i \in 1 .. Len(history)
      BY <1>14, <2>3, <3>2
    <3> QED BY <1>14, <2>1, <2>3, <3>1, <3>2
  <2> QED BY <2>2, <2>3
<1>16. row.reopenCount <= born.reopened + Cardinality(Reopenings')
  <2>1. /\ defect.reopenCount \in Int /\ born.reopened \in Int
        /\ defect.reopenCount <= born.reopened + Cardinality(Reopenings)
    BY DEF DefectAudited, DefectRows
  <2> QED BY <1>4, <1>6, <1>10, <1>11, <1>13, <2>1
<1>17. ASSUME ~defectRaced
       PROVE  /\ job.saw = defect /\ old = Current /\ row = new /\ Current' = new.status
              /\ defect.reopenCount = born.reopened + Cardinality(Reopenings)
              /\ Current = IF history = << >> THEN born.status ELSE history[Len(history)].new
              /\ defect.resolved <=> LastReached > 0 /\ history[LastReached].new \in Settled
              /\ \A i \in DOMAIN history : history[i].old = IF i = 1 THEN born.status ELSE history[i - 1].new
  <2>1. job.saw = defect
    BY <1>1, <1>2, <1>17
  <2>2. Current' = new.status
    BY <1>4, <1>6, <1>9, <1>10, <2>1, CanonicalStatus DEF Current
  <2> QED BY <1>3, <1>10, <1>17, <2>1, <2>2 DEF DefectAudited, Current
<1>18. ASSUME ~defectRaced
       PROVE  /\ row.reopenCount = born.reopened + Cardinality(Reopenings')
              /\ Current' = IF history' = << >> THEN born.status ELSE history'[Len(history')].new
              /\ \A i \in DOMAIN history' : history'[i].old = IF i = 1 THEN born.status ELSE history'[i - 1].new
  <2>1. row.reopenCount = born.reopened + Cardinality(Reopenings')
    <3>1. born.reopened \in Int
      OBVIOUS
    <3> QED BY <1>6, <1>13, <1>17, <1>18, <3>1
  <2>2. CASE new.status = old
    BY <1>14, <1>17, <1>18, <2>1, <2>2
  <2>3. CASE new.status # old
    <3>1. history' # << >> /\ history'[Len(history')].new = new.status
      BY <1>12, <1>14, <2>3
    <3>2. ASSUME NEW i \in DOMAIN history'
          PROVE  history'[i].old = IF i = 1 THEN born.status ELSE history'[i - 1].new
      <4>1. CASE i = Len(history) + 1
        <5>1. history'[i].old = Current
          BY <1>12, <1>14, <1>17, <1>18, <2>3, <4>1
        <5>2. CASE Len(history) = 0
          BY <1>14, <1>17, <1>18, <4>1, <5>1, <5>2
        <5>3. CASE Len(history) # 0
          <6>1. i # 1 /\ history # << >> /\ i - 1 = Len(history) /\ history'[i - 1] = history[Len(history)]
            BY <1>14, <2>3, <4>1, <5>3
          <6> QED BY <1>17, <1>18, <5>1, <6>1
        <5> QED BY <5>2, <5>3
      <4>2. CASE i \in 1 .. Len(history)
        <5>1. history'[i] = history[i] /\ (i # 1 => history'[i - 1] = history[i - 1])
          BY <1>14, <2>3, <4>2
        <5> QED BY <1>14, <1>17, <1>18, <4>2, <5>1
      <4> QED BY <1>14, <2>3, <4>1, <4>2
    <3> QED BY <1>17, <1>18, <2>1, <3>1, <3>2
  <2> QED BY <2>2, <2>3
<1>19. ASSUME ~defectRaced
       PROVE  row.resolved <=> LastReached' > 0 /\ history'[LastReached'].new \in Settled
  <2>1. /\ new.resolved <=> \/ new.status \in Settled /\ old \notin Settled
                            \/ defect.resolved /\ ~(new.status = "reopened" /\ old # "reopened")
        /\ defect.resolved <=> LastReached > 0 /\ history[LastReached].new \in Settled
        /\ row = new /\ old = Current /\ Current' = new.status
    BY <1>6, <1>17, <1>19
  <2>2. NoStatus \notin Settled /\ "reopened" # NoStatus
    BY DEF NoStatus, Settled
  <2>3. CASE new.status = old
    <3>1. LastReached' = LastReached /\ history' = history
      BY <1>14, <2>1, <2>3 DEF LastReached
    <3>2. new.resolved <=> defect.resolved
      BY <2>1, <2>3
    <3> QED BY <2>1, <3>1, <3>2
  <2>4. CASE new.status # old /\ new.status = NoStatus
    <3>1. LastReached' = Len(history) /\ LastReached = Len(history)
      BY <1>11, <1>14, <2>1, <2>4 DEF LastReached
    <3>2. Len(history) > 0 => history'[Len(history)] = history[Len(history)]
      BY <1>14, <2>4
    <3>3. new.resolved <=> defect.resolved
      BY <2>1, <2>2, <2>4
    <3> QED BY <2>1, <3>1, <3>2, <3>3
  <2>5. CASE new.status # old /\ new.status # NoStatus
    <3>1. old # NoStatus /\ (old \in Settled => new.status = "reopened")
      BY <1>11, <2>5, SettledTransitions
    <3>2. LastReached' = Len(history) + 1 /\ LastReached = Len(history)
      BY <1>14, <2>1, <2>5, <3>1 DEF LastReached
    <3>3. history'[Len(history) + 1].new = new.status
      BY <1>12, <1>14, <2>5
    <3>4. defect.resolved => old \in Settled
      <4>1. LastReached > 0 => Current = history[LastReached].new
        BY <1>14, <1>17, <1>19, <3>2
      <4> QED BY <2>1, <4>1
    <3>5. new.resolved <=> new.status \in Settled
      BY <2>1, <2>5, <3>1, <3>4 DEF Settled
    <3> QED BY <1>14, <2>1, <3>2, <3>3, <3>5
  <2> QED BY <2>3, <2>4, <2>5
<1>20. DefectAudited'
  BY <1>9, <1>15, <1>16, <1>18, <1>19 DEF DefectAudited
<1>21. (\A o \in DefectThreads : defectJob[o] # NoUpdate => UpdateChecked(defectJob[o]))'
  <2>1. ASSUME NEW o \in DefectThreads, defectJob'[o] # NoUpdate PROVE UpdateChecked(defectJob[o])'
    <3>1. defectJob'[o] = defectJob[o] /\ UpdateChecked(defectJob[o]) /\ defectJob[o].saw.reopenCount \in Int
      BY <1>12, <2>1 DEF Updates, DefectRows
    <3>2. born' = born /\ born.reopened \in Int
      BY <1>9
    <3> QED BY <1>13, <3>1, <3>2 DEF UpdateChecked
  <2> QED BY <2>1
<1>22. ASSUME ~defectRaced PROVE \A o \in DefectThreads : defectJob'[o] = NoUpdate
  BY <1>1, <1>12, <1>22
<1> QED BY <1>9, <1>10, <1>12, <1>20, <1>21, <1>22

\* Every step preserves the invariant.
LEMMA DefectStepInv == DefectInv /\ [DefectNext]_defectVars => DefectInv'
<1> SUFFICES ASSUME DefectInv, [DefectNext]_defectVars PROVE DefectInv'
  OBVIOUS
<1>1. CASE UNCHANGED defectVars
  BY <1>1 DEF defectVars, defectRows, DefectInv, DefectAudited, UpdateChecked, Reopenings, Current, LastReached
<1> QED BY <1>1, DefectBegins, DefectCommits DEF DefectNext, NewStatuses

\* The history of a defect explains its row.
THEOREM HistoryExplains == DefectSpec => []DefectAudited
<1>1. DefectInv => DefectAudited
  BY DEF DefectInv
<1> QED BY <1>1, DefectInitInv, DefectStepInv, PTL DEF DefectSpec

------------------------------------------------------------------------------
(* The versions of a test case                                                *)

VersionJobs == [at : {"loaded", "marking", "marked", "numbered"}, saw : Contents, new : Contents,
                ends : SUBSET Nat, number : Nat]

Versions == [snapshot : Contents, current : BOOLEAN]

\* The request is between the flush of the case and its commit.
Versioning(t) == versionJob[t].at \in {"marking", "marked", "numbered"}

\* What the row lock of the case achieves: requests that overlap all write its
\* row, so one at a time touches the versions, and it ends all that are
\* current when it commits.
OneVersions ==
    /\ \A t, o \in VersionThreads : t # o /\ Busy(t) /\ Busy(o) => WritesCase(versionJob[t])
    /\ \A t, o \in VersionThreads : Versioning(t) /\ Versioning(o) => t = o
    /\ \A t \in VersionThreads : Versioning(t) => versionJob[t].ends = CurrentVersions

VersionInv ==
    /\ VersionsTypeOK
    /\ versionJob \in [VersionThreads -> {NoVersion} \cup VersionJobs]
    /\ ~versionRaced => ~unguarded /\ \A t, o \in VersionThreads : Busy(t) /\ Busy(o) => t = o
    /\ ~versionRaced /\ ~drifted => \A t \in VersionThreads : Busy(t) => versionJob[t].saw = content
    /\ ~unguarded => OneVersions
    /\ VersionsAgree

\* A request is busy until it has committed.
LEMMA VersionJobShape ==
    ASSUME NEW j \in {NoVersion} \cup VersionJobs
    PROVE  /\ j # NoVersion <=> j.at \in {"loaded", "marking", "marked", "numbered"}
           /\ j # NoVersion => j \in VersionJobs /\ j.saw \in Contents /\ j.new \in Contents
BY DEF NoVersion, VersionJobs

\* A case starts with one version or none.
LEMMA VersionsInitInv == VersionsInit => VersionInv
<1> SUFFICES ASSUME VersionsInit PROVE VersionInv
  OBVIOUS
<1>1. /\ content \in Contents /\ ~versionRaced /\ ~unguarded /\ ~drifted
      /\ versionRaced \in BOOLEAN /\ unguarded \in BOOLEAN /\ drifted \in BOOLEAN
      /\ versionJob = [t \in VersionThreads |-> NoVersion]
  BY DEF VersionsInit
<1>2. PICK v \in Versions : v = [snapshot |-> content, current |-> TRUE]
  BY <1>1 DEF Versions
<1>3. versions = << >> \/ (versions = <<v>> /\ v.snapshot = content /\ v.current)
  BY <1>2 DEF VersionsInit
<1>4. VersionsTypeOK
  <2>1. << >> \in Seq(Versions)
    OBVIOUS
  <2>2. <<v>> \in Seq(Versions)
    OBVIOUS
  <2> QED BY <1>1, <1>3, <2>1, <2>2 DEF VersionsTypeOK, Versions
<1>5. VersionsAgree
  BY <1>3 DEF VersionsAgree, CurrentVersions
<1>6. \A t \in VersionThreads : ~Busy(t) /\ ~Versioning(t)
  BY <1>1 DEF Busy, Versioning, NoVersion
<1> QED BY <1>1, <1>4, <1>5, <1>6 DEF VersionInv, OneVersions

\* A request that loads the case.
LEMMA VersionBegins ==
    ASSUME VersionInv, NEW t \in VersionThreads, NEW new \in Contents, BeginVersion(t, new)
    PROVE  VersionInv'
<1> USE DEF VersionInv
<1>1. PICK job : job = [at |-> "loaded", saw |-> content, new |-> new, ends |-> {}, number |-> 0]
  OBVIOUS
<1>2. job \in VersionJobs /\ job.at = "loaded" /\ job.saw = content /\ job.new = new
  BY <1>1 DEF VersionJobs, VersionsTypeOK, Versions
<1>3. /\ ~versionRaced /\ ~Busy(t)
      /\ versionRaced' = ({o \in VersionThreads \ {t} : Busy(o)} # {})
      /\ unguarded' = \E o \in {o \in VersionThreads \ {t} : Busy(o)} :
                          new.row = content.row \/ versionJob[o].new.row = versionJob[o].saw.row
      /\ versionJob' = [versionJob EXCEPT ![t] = job]
      /\ UNCHANGED <<content, versions, drifted>>
  BY <1>1 DEF BeginVersion, caseRows
<1>4. /\ versionJob'[t] = job /\ \A o \in VersionThreads \ {t} : versionJob'[o] = versionJob[o]
      /\ versionJob' \in [VersionThreads -> {NoVersion} \cup VersionJobs]
  BY <1>2, <1>3
<1>5. CurrentVersions' = CurrentVersions
  BY <1>3 DEF CurrentVersions
<1>6. VersionsTypeOK'
  BY <1>3 DEF VersionsTypeOK, Versions
<1>7. \A o \in VersionThreads \ {t} : Busy(o)' = Busy(o) /\ Versioning(o)' = Versioning(o)
  BY <1>4 DEF Busy, Versioning
<1>8. ~Versioning(t)'
  BY <1>2, <1>4 DEF Versioning
<1>9. ASSUME ~versionRaced'
      PROVE  ~unguarded' /\ \A o \in VersionThreads : Busy(o)' => o = t
  BY <1>3, <1>7, <1>9
<1>10. versionJob'[t].saw = content'
  BY <1>2, <1>3, <1>4
<1>11. ASSUME ~unguarded' PROVE OneVersions'
  <2>1. ~unguarded /\ \A u, o \in VersionThreads : Busy(u) /\ Busy(o) => u = o
    BY <1>3
  <2>2. ASSUME NEW o \in VersionThreads \ {t}, Busy(o)
        PROVE  WritesCase(versionJob[o]) /\ WritesCase(job)
    BY <1>2, <1>3, <1>11, <2>2 DEF WritesCase
  <2>3. (\A u, o \in VersionThreads : u # o /\ Busy(u) /\ Busy(o) => WritesCase(versionJob[u]))'
    BY <1>4, <1>7, <2>1, <2>2 DEF WritesCase
  <2>4. (\A u, o \in VersionThreads : Versioning(u) /\ Versioning(o) => u = o)'
    BY <1>7, <1>8, <2>1 DEF OneVersions
  <2>5. (\A u \in VersionThreads : Versioning(u) => versionJob[u].ends = CurrentVersions)'
    BY <1>4, <1>5, <1>7, <1>8, <2>1 DEF OneVersions
  <2> QED BY <2>3, <2>4, <2>5 DEF OneVersions
<1>12. VersionsAgree'
  BY <1>3, <1>5 DEF VersionsAgree
<1> QED BY <1>3, <1>4, <1>6, <1>9, <1>10, <1>11, <1>12

\* A request that goes on while the case stays as it is.
LEMMA VersionGoesOn ==
    ASSUME VersionInv, NEW t \in VersionThreads, versionJob[t] \in VersionJobs,
           NEW job \in VersionJobs, job.saw = versionJob[t].saw, job.new = versionJob[t].new,
           versionJob' = [versionJob EXCEPT ![t] = job],
           UNCHANGED <<content, versions, versionRaced, unguarded, drifted>>,
           ~unguarded => \A o \in VersionThreads \ {t} : ~Versioning(o),
           ~unguarded => job.ends = CurrentVersions
    PROVE  VersionInv'
<1> USE DEF VersionInv
<1>1. /\ versionJob'[t] = job /\ \A o \in VersionThreads \ {t} : versionJob'[o] = versionJob[o]
      /\ versionJob' \in [VersionThreads -> {NoVersion} \cup VersionJobs]
  OBVIOUS
<1>2. CurrentVersions' = CurrentVersions /\ VersionsTypeOK' /\ VersionsAgree'
  BY DEF CurrentVersions, VersionsTypeOK, Versions, VersionsAgree
<1>0. \A j \in VersionJobs : j # NoVersion
  BY DEF VersionJobs, NoVersion
<1>3. \A o \in VersionThreads : Busy(o)' <=> Busy(o)
  BY <1>0, <1>1 DEF Busy
<1>4. \A o \in VersionThreads \ {t} : Versioning(o)' = Versioning(o)
  BY <1>1 DEF Versioning
<1>5. \A o \in VersionThreads : Busy(o) => versionJob'[o].saw = versionJob[o].saw /\ versionJob'[o].new = versionJob[o].new
  BY <1>1
<1>6. ~unguarded => OneVersions'
  BY <1>1, <1>2, <1>3, <1>4, <1>5 DEF OneVersions, WritesCase
<1> QED BY <1>1, <1>2, <1>3, <1>5, <1>6

\* The content after a commit: what the request changed, and what was there.
LEMMA MergedContent ==
    ASSUME NEW new \in Contents, NEW saw \in Contents, NEW old \in Contents,
           NEW m, m = [p \in DOMAIN old |-> IF new[p] # saw[p] THEN new[p] ELSE old[p]]
    PROVE  m \in Contents /\ (saw = old => m = new)
<1>1. DOMAIN old = {"row", "others"} /\ DOMAIN m = {"row", "others"}
  BY DEF Contents
<1>2. /\ m.row = IF new.row # saw.row THEN new.row ELSE old.row
      /\ m.others = IF new.others # saw.others THEN new.others ELSE old.others
  BY <1>1
<1>3. m = [p \in {"row", "others"} |-> m[p]]
  BY <1>1
<1>4. m \in Contents
  BY <1>2, <1>3 DEF Contents
<1>5. ASSUME saw = old PROVE m = new
  <2>1. m.row = new.row /\ m.others = new.others
    BY <1>2, <1>5
  <2> QED BY <1>4, <2>1 DEF Contents
<1> QED BY <1>4, <1>5

\* A request that commits: its version is the last and, unless a request that
\* does not write the row ran into another one, the only current one.
LEMMA VersionCommits ==
    ASSUME VersionInv, NEW t \in VersionThreads, CommitVersion(t)
    PROVE  VersionInv'
<1> USE DEF VersionInv
<1>1. versionJob[t].at = "numbered" /\ versionJob[t] # NoVersion /\ Versioning(t) /\ Busy(t)
  BY VersionJobShape DEF CommitVersion, Versioning, Busy
<1>2. PICK job \in VersionJobs : job = versionJob[t]
  BY <1>1, VersionJobShape
<1>3. job.new \in Contents /\ job.saw \in Contents /\ content \in Contents /\ versions \in Seq(Versions)
  BY DEF VersionJobs, VersionsTypeOK, Versions
<1>4. /\ versionJob' = [versionJob EXCEPT ![t] = NoVersion]
      /\ UNCHANGED <<versionRaced, unguarded, drifted>>
  BY DEF CommitVersion, Goto
<1>5. /\ versionJob'[t] = NoVersion /\ \A o \in VersionThreads \ {t} : versionJob'[o] = versionJob[o]
      /\ versionJob' \in [VersionThreads -> {NoVersion} \cup VersionJobs]
  BY <1>4
<1>6. /\ ~Busy(t)' /\ ~Versioning(t)'
      /\ \A o \in VersionThreads \ {t} : (Busy(o)' <=> Busy(o)) /\ (Versioning(o)' <=> Versioning(o))
  BY <1>5 DEF Busy, Versioning, NoVersion
<1>7. ~unguarded => OneVersions'
  <2>1. ~unguarded => \A o \in VersionThreads \ {t} : ~Versioning(o)
    BY <1>1 DEF OneVersions
  <2> QED BY <1>5, <1>6, <2>1 DEF OneVersions, WritesCase
<1>8. ~versionRaced => \A o \in VersionThreads : ~Busy(o)'
  BY <1>1, <1>6
<1>9. CASE UNCHANGED caseRows
  <2>1. VersionsTypeOK' /\ VersionsAgree'
    BY <1>4, <1>9 DEF caseRows, VersionsTypeOK, VersionsAgree, CurrentVersions
  <2> QED BY <1>4, <1>5, <1>7, <1>8, <2>1
<1>10. CASE ~UNCHANGED caseRows
  <2> DEFINE ended == [n \in DOMAIN versions |-> [versions[n] EXCEPT !.current = @ /\ n \notin job.ends]]
  <2>1. PICK v : v = [snapshot |-> job.new, current |-> TRUE]
    OBVIOUS
  <2>2. v \in Versions /\ v.current /\ v.snapshot = job.new
    BY <1>3, <2>1 DEF Versions
  <2>3. /\ versions' = Append(ended, v)
        /\ content' = [p \in DOMAIN content |->
                          IF job.new[p] # job.saw[p] THEN job.new[p] ELSE content[p]]
    BY <1>2, <1>10, <2>1 DEF CommitVersion
  <2>c. content' \in Contents /\ (job.saw = content => content' = job.new)
    <3>1. PICK c : c = [p \in DOMAIN content |->
                          IF job.new[p] # job.saw[p] THEN job.new[p] ELSE content[p]]
      OBVIOUS
    <3>2. c \in Contents /\ (job.saw = content => c = job.new)
      BY <1>3, <3>1, MergedContent
    <3> QED BY <2>3, <3>1, <3>2
  <2>4. Len(versions) \in Nat /\ DOMAIN versions = 1 .. Len(versions)
    BY <1>3
  <2>5. \A n \in DOMAIN versions :
           /\ ended[n] \in Versions
           /\ ended[n].current <=> versions[n].current /\ n \notin job.ends
    <3>1. ASSUME NEW n \in DOMAIN versions
          PROVE  /\ ended[n] \in Versions
                 /\ ended[n].current <=> versions[n].current /\ n \notin job.ends
      <4>1. versions[n] \in Versions
        BY <1>3, <3>1, <2>4
      <4>2. PICK b \in BOOLEAN : b <=> versions[n].current /\ n \notin job.ends
        OBVIOUS
      <4>3. ended[n] = [versions[n] EXCEPT !.current = b]
        BY <3>1, <4>1, <4>2 DEF Versions
      <4> QED BY <4>1, <4>2, <4>3 DEF Versions
    <3> QED BY <3>1
  <2>e. DOMAIN ended = DOMAIN versions /\ ended = [n \in DOMAIN ended |-> ended[n]]
    OBVIOUS
  <2> HIDE DEF ended
  <2>6. ended \in Seq(Versions) /\ Len(ended) = Len(versions)
    <3>1. PICK k \in Nat : k = Len(versions)
      BY <2>4
    <3>2. DOMAIN ended = 1 .. k
      BY <2>4, <2>e, <3>1
    <3>3. ended \in [1 .. k -> Versions]
      <4>1. \A n \in 1 .. k : ended[n] \in Versions
        BY <2>5, <2>e, <3>2
      <4> QED BY <2>e, <3>2, <4>1
    <3>4. ended \in Seq(Versions)
      BY <3>3
    <3> QED BY <3>1, <3>2, <3>4
  <2>7. /\ versions' \in Seq(Versions)
        /\ Len(versions') = Len(versions) + 1 /\ DOMAIN versions' = 1 .. Len(versions) + 1
        /\ versions'[Len(versions) + 1] = v /\ \A n \in 1 .. Len(versions) : versions'[n] = ended[n]
        /\ versions' # << >>
    <3>1. versions' = Append(ended, v) /\ v \in Versions /\ ended \in Seq(Versions)
      BY <2>2, <2>3, <2>6
    <3>2. PICK k \in Nat : k = Len(versions) /\ k = Len(ended)
      BY <2>4, <2>6
    <3>3. /\ versions' \in Seq(Versions) /\ Len(versions') = k + 1
          /\ versions'[k + 1] = v /\ \A n \in 1 .. k : versions'[n] = ended[n]
      BY <3>1, <3>2
    <3> QED BY <3>2, <3>3
  <2>8. VersionsTypeOK'
    BY <1>4, <2>c, <2>7 DEF VersionsTypeOK, Versions
  <2>9. Len(versions) + 1 \in CurrentVersions'
    BY <2>2, <2>4, <2>7 DEF CurrentVersions
  <2>10. ~unguarded => CurrentVersions' \subseteq {Len(versions')}
    <3>1. ~unguarded => job.ends = CurrentVersions
      BY <1>1, <1>2 DEF OneVersions
    <3> QED BY <2>4, <2>5, <2>7, <3>1 DEF CurrentVersions
  <2>11. ~versionRaced /\ ~drifted => v.snapshot = content'
    <3>1. ~versionRaced /\ ~drifted => job.saw = content
      BY <1>1, <1>2
    <3> QED BY <2>2, <2>c, <3>1
  <2>12. VersionsAgree'
    BY <1>4, <2>7, <2>9, <2>10, <2>11 DEF VersionsAgree
  <2> QED BY <1>4, <1>5, <1>7, <1>8, <2>8, <2>12
<1> QED BY <1>9, <1>10

\* Every step preserves the invariant.
LEMMA VersionStepInv == VersionInv /\ [VersionsNext]_versionVars => VersionInv'
<1> SUFFICES ASSUME VersionInv, [VersionsNext]_versionVars PROVE VersionInv'
  OBVIOUS
<1>v. /\ versions \in Seq(Versions) /\ content \in Contents
      /\ versionJob \in [VersionThreads -> {NoVersion} \cup VersionJobs]
      /\ CurrentVersions \subseteq Nat
  BY DEF VersionInv, VersionsTypeOK, Versions, CurrentVersions
<1>1. ASSUME NEW t \in VersionThreads, EditCase(t) \/ TakeSnapshot(t) \/ RestoreVersion(t) PROVE VersionInv'
  <2>1. \A n \in DOMAIN versions : versions[n].snapshot \in Contents
    <3>1. \A n \in DOMAIN versions : versions[n] \in Versions
      BY <1>v
    <3> QED BY <3>1 DEF Versions
  <2> QED BY <1>1, <1>v, <2>1, VersionBegins DEF EditCase, TakeSnapshot, RestoreVersion
<1>2. ASSUME NEW t \in VersionThreads, FlushCase(t) PROVE VersionInv'
  <2>1. versionJob[t] \in VersionJobs /\ versionJob[t].at = "loaded" /\ Busy(t)
    BY <1>2, <1>v, VersionJobShape DEF FlushCase, Busy
  <2>2. PICK job : job = [versionJob[t] EXCEPT !.at = "marking", !.ends = CurrentVersions]
    OBVIOUS
  <2>3. /\ job \in VersionJobs /\ job.ends = CurrentVersions
        /\ job.saw = versionJob[t].saw /\ job.new = versionJob[t].new
    BY <1>v, <2>1, <2>2 DEF VersionJobs
  <2>4. ~unguarded => \A o \in VersionThreads \ {t} : ~Versioning(o)
    <3>1. SUFFICES ASSUME ~unguarded, NEW o \in VersionThreads \ {t}, Versioning(o) PROVE FALSE
      OBVIOUS
    <3>2. Busy(o)
      BY <1>v, <3>1, VersionJobShape DEF Versioning, Busy
    <3>3. WritesCase(versionJob[t]) /\ WritesCase(versionJob[o])
      BY <2>1, <3>1, <3>2 DEF VersionInv, OneVersions
    <3> QED BY <1>2, <3>1, <3>3 DEF FlushCase, Versioning
  <2> QED BY <1>2, <2>1, <2>2, <2>3, <2>4, VersionGoesOn DEF FlushCase, Goto, caseRows
<1>3. ASSUME NEW t \in VersionThreads, MarkVersions(t) \/ NextNumber(t) PROVE VersionInv'
  <2>1. versionJob[t] \in VersionJobs /\ Versioning(t)
    BY <1>3, <1>v, VersionJobShape DEF MarkVersions, NextNumber, Versioning
  <2>2. ~unguarded => versionJob[t].ends = CurrentVersions /\ \A o \in VersionThreads \ {t} : ~Versioning(o)
    BY <2>1 DEF VersionInv, OneVersions
  <2>3. CASE MarkVersions(t)
    <3>1. PICK job : job = [versionJob[t] EXCEPT !.at = "marked", !.ends = @ \cap CurrentVersions]
      OBVIOUS
    <3>2. /\ job \in VersionJobs /\ job.ends = versionJob[t].ends \cap CurrentVersions
          /\ job.saw = versionJob[t].saw /\ job.new = versionJob[t].new
      <4>1. PICK E \in SUBSET Nat : E = versionJob[t].ends \cap CurrentVersions
        BY <1>v, <2>1
      <4>2. job = [versionJob[t] EXCEPT !.at = "marked", !.ends = E]
        BY <2>1, <3>1, <4>1 DEF VersionJobs
      <4> QED BY <2>1, <4>1, <4>2 DEF VersionJobs
    <3>3. ~unguarded => job.ends = CurrentVersions
      BY <2>2, <3>2
    <3> QED BY <2>1, <2>2, <2>3, <3>1, <3>2, <3>3, VersionGoesOn DEF MarkVersions, Goto, caseRows
  <2>4. CASE NextNumber(t)
    <3>1. PICK n \in Nat : n = Len(versions) + 1
      BY <1>v
    <3>2. PICK job : job = [versionJob[t] EXCEPT !.at = "numbered", !.number = n]
      OBVIOUS
    <3>3. /\ job \in VersionJobs /\ job.ends = versionJob[t].ends
          /\ job.saw = versionJob[t].saw /\ job.new = versionJob[t].new
      BY <2>1, <3>2 DEF VersionJobs
    <3> QED BY <2>1, <2>2, <2>4, <3>1, <3>2, <3>3, VersionGoesOn DEF NextNumber, Goto, caseRows
  <2> QED BY <1>3, <2>3, <2>4
<1>4. ASSUME NEW t \in VersionThreads, CommitVersion(t) PROVE VersionInv'
  BY <1>4, VersionCommits
<1>5. ASSUME NEW c \in Contents, ChangeCase(c) PROVE VersionInv'
  BY <1>5 DEF ChangeCase, VersionInv, VersionsTypeOK, VersionsAgree, CurrentVersions, OneVersions,
              Busy, Versioning, WritesCase
<1>6. CASE UNCHANGED versionVars
  BY <1>6 DEF versionVars, caseRows, VersionInv, VersionsTypeOK, VersionsAgree, CurrentVersions,
              OneVersions, Busy, Versioning, WritesCase
<1> QED BY <1>1, <1>2, <1>3, <1>4, <1>5, <1>6 DEF VersionsNext

\* The versions of a case agree with the case and with each other.
THEOREM VersionsHold == VersionsSpec => []VersionsAgree
<1>1. VersionInv => VersionsAgree
  BY DEF VersionInv
<1> QED BY <1>1, VersionsInitInv, VersionStepInv, PTL DEF VersionsSpec

------------------------------------------------------------------------------
(* The import log of a transport                                              *)

Columns == {"current", "status", "log"}
TransportRow == [current : Places, status : Statuses, log : Seq(Events)]

\* What a request will write: some columns, the log with one event at least.
Writes(job) ==
    /\ DOMAIN job \subseteq Columns
    /\ "current" \in DOMAIN job => job.current \in Places
    /\ "status" \in DOMAIN job => job.status \in Statuses
    /\ "log" \in DOMAIN job => job.log \in Seq(Events) /\ job.log # << >>

\* What an import that no other request has overlapped will write: one event
\* more than the log has now, and the status and the system it leads to.
Continues(job) ==
    "log" \in DOMAIN job =>
        \E e \in Events :
            /\ job.log = Append(transport.log, e)
            /\ (IF "status" \in DOMAIN job THEN job.status ELSE transport.status) = e.status
            /\ (IF "current" \in DOMAIN job THEN job.current ELSE transport.current)
                   = IF e.status = "imported" THEN e.system ELSE transport.current

\* However requests overlap, an import writes one event more than a log that
\* was selected from what has been recorded.
AddsOne(job) ==
    "log" \in DOMAIN job =>
        \E e \in Events, front \in Seq(Events) :
            job.log = Append(front, e) /\ SelectedFrom(front, recorded)

\* If some event succeeded there is a latest one.
HasLatest(events) ==
    LET successes == {i \in DOMAIN events : events[i].status = "imported"}
    IN  successes # {} => \E m \in successes : \A i \in successes : i <= m

TransportInv ==
    /\ transport \in TransportRow
    /\ importJob = [t \in TransportThreads |-> importJob[t]]
    /\ \A t \in TransportThreads : Writes(importJob[t]) /\ AddsOne(importJob[t])
    /\ ~overlapped =>
           /\ \A t, o \in TransportThreads : importJob[t] # Quiet /\ importJob[o] # Quiet => t = o
           /\ \A t \in TransportThreads : Continues(importJob[t])
    /\ HasLatest(recorded)
    /\ AuditTrail

\* What is selected from the events is selected from more of them, and an event
\* added to both is selected too.
LEMMA SelectedAppend ==
    ASSUME NEW log \in Seq(Events), NEW events \in Seq(Events), NEW e \in Events,
           SelectedFrom(log, events)
    PROVE  /\ SelectedFrom(log, Append(events, e))
           /\ SelectedFrom(Append(log, e), Append(events, e))
<1>1. PICK f \in [DOMAIN log -> DOMAIN events] :
          /\ \A i \in DOMAIN log : log[i] = events[f[i]]
          /\ \A i, j \in DOMAIN log : i < j => f[i] < f[j]
  BY DEF SelectedFrom
<1>2. PICK n \in Nat : n = Len(log) /\ DOMAIN log = 1 .. n
  OBVIOUS
<1>3. PICK m \in Nat : m = Len(events) /\ DOMAIN events = 1 .. m
  OBVIOUS
<1>4. PICK more : more = Append(events, e)
  OBVIOUS
<1>5. DOMAIN more = 1 .. m + 1 /\ more[m + 1] = e /\ \A i \in 1 .. m : more[i] = events[i]
  BY <1>3, <1>4
<1>6. \A i \in 1 .. n : f[i] \in 1 .. m /\ f[i] \in 1 .. m + 1
  BY <1>1, <1>2, <1>3
<1>7. SelectedFrom(log, more)
  <2>1. f \in [DOMAIN log -> DOMAIN more]
    BY <1>1, <1>2, <1>3, <1>5, <1>6
  <2>2. \A i \in DOMAIN log : log[i] = more[f[i]]
    BY <1>1, <1>2, <1>5, <1>6
  <2> QED BY <1>1, <2>1, <2>2 DEF SelectedFrom
<1>8. SelectedFrom(Append(log, e), more)
  <2>1. PICK longer : longer = Append(log, e)
    OBVIOUS
  <2>2. DOMAIN longer = 1 .. n + 1 /\ longer[n + 1] = e /\ \A i \in 1 .. n : longer[i] = log[i]
    BY <1>2, <2>1
  <2>3. PICK g : g = [i \in 1 .. n + 1 |-> IF i = n + 1 THEN m + 1 ELSE f[i]]
    OBVIOUS
  <2>4. /\ g[n + 1] = m + 1
        /\ \A i \in 1 .. n : g[i] = f[i]
        /\ \A i \in 1 .. n + 1 : i = n + 1 \/ i \in 1 .. n
    BY <2>3
  <2>5. g \in [DOMAIN longer -> DOMAIN more]
    BY <1>5, <1>6, <2>2, <2>3, <2>4
  <2>6. \A i \in DOMAIN longer : longer[i] = more[g[i]]
    <3>1. longer[n + 1] = more[g[n + 1]]
      BY <1>5, <2>2, <2>4
    <3>2. ASSUME NEW i \in 1 .. n PROVE longer[i] = more[g[i]]
      <4>1. longer[i] = events[f[i]]
        BY <1>1, <1>2, <2>2
      <4>2. more[f[i]] = events[f[i]]
        BY <1>5, <1>6
      <4> QED BY <2>4, <4>1, <4>2
    <3> QED BY <2>2, <2>4, <3>1, <3>2
  <2>7. ASSUME NEW i \in 1 .. n + 1, NEW j \in 1 .. n + 1, i < j PROVE g[i] < g[j]
    <3>1. i \in 1 .. n /\ g[i] = f[i] /\ f[i] \in 1 .. m
      BY <1>6, <2>4, <2>7
    <3>2. CASE j = n + 1
      BY <2>4, <3>1, <3>2
    <3>3. CASE j \in 1 .. n
      <4>1. g[j] = f[j] /\ f[i] < f[j]
        BY <1>1, <1>2, <2>4, <2>7, <3>1, <3>3
      <4> QED BY <3>1, <4>1
    <3> QED BY <2>4, <3>2, <3>3
  <2> QED BY <2>1, <2>2, <2>5, <2>6, <2>7 DEF SelectedFrom
<1> QED BY <1>4, <1>7, <1>8

\* Appending an event moves what is reached only if it is a success.
LEMMA ReachedAppend ==
    ASSUME NEW from, NEW s \in Seq(Events), NEW e \in Events, HasLatest(s)
    PROVE  /\ Reached(from, Append(s, e)) = IF e.status = "imported" THEN e.system ELSE Reached(from, s)
           /\ HasLatest(Append(s, e))
<1> DEFINE a == Append(s, e)
           new == {i \in DOMAIN a : a[i].status = "imported"}
           old == {i \in DOMAIN s : s[i].status = "imported"}
<1>1. /\ Len(s) \in Nat /\ DOMAIN s = 1 .. Len(s) /\ DOMAIN a = 1 .. Len(s) + 1
      /\ a[Len(s) + 1] = e /\ \A i \in 1 .. Len(s) : a[i] = s[i]
  OBVIOUS
<1> HIDE DEF a
<1>2. CASE e.status = "imported"
  <2>1. Len(s) + 1 \in new /\ \A j \in new : j <= Len(s) + 1
    BY <1>1, <1>2
  <2>2. \A i \in new : (\A j \in new : j <= i) <=> i = Len(s) + 1
    BY <1>1, <2>1
  <2> HIDE DEF new
  <2>3. (CHOOSE i \in new : \A j \in new : j <= i) = Len(s) + 1
    BY <2>1, <2>2
  <2>4. Reached(from, a) = a[Len(s) + 1].system
    BY <2>1, <2>3 DEF Reached, new
  <2>5. HasLatest(a)
    BY <2>1 DEF HasLatest, new
  <2> QED BY <1>1, <1>2, <2>4, <2>5 DEF a
<1>3. CASE e.status # "imported"
  <2>1. new = old
    BY <1>1, <1>3
  <2>2. CASE old = {}
    BY <2>1, <2>2, <1>3 DEF Reached, HasLatest, a
  <2>3. CASE old # {}
    <3>1. PICK m \in old : \A j \in old : j <= m
      BY <2>3 DEF HasLatest
    <3>2. PICK k : k = CHOOSE i \in old : \A j \in old : j <= i
      OBVIOUS
    <3>3. k \in old
      BY <3>1, <3>2
    <3>4. Reached(from, a) = a[k].system
      BY <2>1, <2>3, <3>2 DEF Reached
    <3>5. Reached(from, s) = s[k].system
      BY <2>3, <3>2 DEF Reached
    <3>6. HasLatest(a)
      BY <2>1, <3>1 DEF HasLatest
    <3> QED BY <1>1, <1>3, <3>3, <3>4, <3>5, <3>6 DEF a
  <2> QED BY <2>2, <2>3
<1> QED BY <1>2, <1>3

\* What a request writes are the columns in which the new row differs.
LEMMA ChangedColumns ==
    ASSUME transport \in TransportRow, NEW new \in TransportRow,
           NEW job, job = Changes(new)
    PROVE  /\ DOMAIN job \subseteq Columns
           /\ \A c \in Columns : c \in DOMAIN job <=> new[c] # transport[c]
           /\ \A c \in DOMAIN job : job[c] = new[c]
<1>1. DOMAIN transport = Columns
  BY DEF TransportRow, Columns
<1> QED BY <1>1 DEF Changes

\* A row that a request leaves.
LEMMA WrittenRow ==
    ASSUME transport \in TransportRow, NEW job, Writes(job),
           NEW row, row = [c \in DOMAIN transport |-> IF c \in DOMAIN job THEN job[c] ELSE transport[c]]
    PROVE  /\ row \in TransportRow
           /\ row.log = IF "log" \in DOMAIN job THEN job.log ELSE transport.log
           /\ row.status = IF "status" \in DOMAIN job THEN job.status ELSE transport.status
           /\ row.current = IF "current" \in DOMAIN job THEN job.current ELSE transport.current
<1>1. DOMAIN transport = Columns /\ DOMAIN row = Columns
  BY DEF TransportRow, Columns
<1>2. /\ row.log = IF "log" \in DOMAIN job THEN job.log ELSE transport.log
      /\ row.status = IF "status" \in DOMAIN job THEN job.status ELSE transport.status
      /\ row.current = IF "current" \in DOMAIN job THEN job.current ELSE transport.current
  BY <1>1 DEF Columns
<1>3. /\ row.log \in Seq(Events) /\ row.status \in Statuses
      /\ row.current \in Places
  BY <1>2 DEF TransportRow, Writes
<1>4. row = [c \in Columns |-> row[c]]
  BY <1>1
<1> QED BY <1>2, <1>3, <1>4 DEF TransportRow, Columns

\* A transport starts with an empty log, wherever it is.
LEMMA TransportInitInv == TransportInit => TransportInv
<1> SUFFICES ASSUME TransportInit PROVE TransportInv
  OBVIOUS
<1> USE DEF TransportInit
<1>1. DOMAIN Quiet = {}
  BY DEF Quiet
<1>2. \A t \in TransportThreads : importJob[t] = Quiet
  OBVIOUS
<1>3. transport \in TransportRow
  BY DEF TransportRow, Statuses
<1>4. << >> \in Seq(Events) /\ DOMAIN << >> = {}
  OBVIOUS
<1>5. AuditTrail
  <2>1. /\ transport.current = origin /\ transport.status \in Statuses /\ origin \in Places
        /\ transport.log = << >> /\ recorded = << >>
    BY DEF Statuses
  <2>2. TransportTypeOK
    BY <2>1, <1>4 DEF TransportTypeOK
  <2>3. Reached(origin, << >>) = origin
    BY <1>4 DEF Reached
  <2>4. SelectedFrom(transport.log, recorded)
    <3>1. PICK f : f = [i \in DOMAIN << >> |-> i]
      OBVIOUS
    <3>2. f \in [DOMAIN << >> -> DOMAIN << >>]
      BY <1>4, <3>1
    <3> QED BY <1>4, <2>1, <3>2 DEF SelectedFrom
  <2> QED BY <2>1, <2>2, <2>3, <2>4 DEF AuditTrail
<1>6. \A t \in TransportThreads : Writes(importJob[t]) /\ AddsOne(importJob[t]) /\ Continues(importJob[t])
  BY <1>1, <1>2 DEF Writes, AddsOne, Continues
<1>7. HasLatest(recorded)
  BY <1>4 DEF HasLatest
<1> QED BY <1>2, <1>3, <1>5, <1>6, <1>7 DEF TransportInv

\* A request that begins.
LEMMA TransportBegins ==
    ASSUME TransportInv, NEW t \in TransportThreads, NEW new \in TransportRow,
           BeginTransport(t, new),
           new.log # transport.log =>
               \E e \in Events :
                   /\ new.log = Append(transport.log, e)
                   /\ new.status = e.status
                   /\ new.current = IF e.status = "imported" THEN e.system ELSE transport.current
    PROVE  TransportInv'
<1> USE DEF TransportInv
<1>1. PICK job : job = Changes(new)
  OBVIOUS
<1>2. /\ DOMAIN job \subseteq Columns
      /\ \A c \in Columns : c \in DOMAIN job <=> new[c] # transport[c]
      /\ \A c \in DOMAIN job : job[c] = new[c]
  BY <1>1, ChangedColumns
<1>3. /\ importJob' = [importJob EXCEPT ![t] = job]
      /\ overlapped' = (overlapped \/ \E o \in TransportThreads : importJob[o] # Quiet)
      /\ UNCHANGED <<transport, recorded, moved, origin>>
      /\ overlapped \in BOOLEAN
  BY <1>1 DEF BeginTransport, AuditTrail, TransportTypeOK
<1>4. /\ importJob' = [o \in TransportThreads |-> importJob'[o]]
      /\ importJob'[t] = job /\ \A o \in TransportThreads \ {t} : importJob'[o] = importJob[o]
  BY <1>3
<1>5. /\ new.log \in Seq(Events) /\ new.status \in Statuses
      /\ new.current \in Places
  BY DEF TransportRow
<1>6. /\ "log" \in DOMAIN job <=> new.log # transport.log
      /\ "status" \in DOMAIN job <=> new.status # transport.status
      /\ "current" \in DOMAIN job <=> new.current # transport.current
      /\ "log" \in DOMAIN job => job.log = new.log
      /\ "status" \in DOMAIN job => job.status = new.status
      /\ "current" \in DOMAIN job => job.current = new.current
  BY <1>2 DEF Columns
<1>7. Continues(job)
  BY <1>6 DEF Continues
<1>8. Writes(job)
  <2>1. transport.log \in Seq(Events)
    BY DEF TransportRow
  <2>2. "log" \in DOMAIN job => job.log # << >>
    BY <2>1, <1>6
  <2> QED BY <1>2, <1>5, <1>6, <2>2 DEF Writes
<1>a. AddsOne(job)
  <2>1. transport.log \in Seq(Events) /\ SelectedFrom(transport.log, recorded)
    BY DEF TransportRow, AuditTrail
  <2> QED BY <1>6, <2>1 DEF AddsOne
<1>b. ASSUME NEW o \in TransportThreads PROVE (Writes(importJob[o]) /\ AddsOne(importJob[o]))'
  <2>1. CASE o = t
    BY <1>3, <1>4, <1>8, <1>a, <2>1 DEF Writes, AddsOne
  <2>2. CASE o # t
    BY <1>3, <1>4, <2>2 DEF Writes, AddsOne
  <2> QED BY <2>1, <2>2
<1>9. (\A o \in TransportThreads : Writes(importJob[o]) /\ AddsOne(importJob[o]))'
  BY <1>b
<1>10. ASSUME ~overlapped'
       PROVE  /\ \A u, o \in TransportThreads : importJob'[u] # Quiet /\ importJob'[o] # Quiet => u = o
              /\ \A o \in TransportThreads : Continues(importJob[o])'
  <2>1. \A o \in TransportThreads : importJob[o] = Quiet
    BY <1>3, <1>10
  <2>2. \A o \in TransportThreads \ {t} : importJob'[o] = Quiet
    BY <1>4, <2>1
  <2>3. "log" \notin DOMAIN Quiet
    BY DEF Quiet
  <2>4. ASSUME NEW o \in TransportThreads PROVE Continues(importJob[o])'
    <3>1. CASE o = t
      BY <1>3, <1>4, <1>7, <3>1 DEF Continues
    <3>2. CASE o # t
      BY <2>2, <2>3, <3>2 DEF Continues
    <3> QED BY <3>1, <3>2
  <2> QED BY <2>2, <2>4
<1>11. AuditTrail'
  BY <1>3 DEF AuditTrail, TransportTypeOK
<1> QED BY <1>3, <1>4, <1>9, <1>10, <1>11 DEF HasLatest

\* A request that commits.
LEMMA TransportCommits ==
    ASSUME TransportInv, NEW t \in TransportThreads, CommitTransport(t)
    PROVE  TransportInv'
<1> USE DEF TransportInv
<1>1. PICK job : job = importJob[t]
  OBVIOUS
<1>2. PICK row : row = [c \in DOMAIN transport |-> IF c \in DOMAIN job THEN job[c] ELSE transport[c]]
  OBVIOUS
<1>3. /\ Writes(job) /\ job # Quiet
      /\ transport' = row
      /\ recorded' = IF "log" \in DOMAIN job THEN Append(recorded, Last(job.log)) ELSE recorded
      /\ moved' = (moved \/ "log" \notin DOMAIN job)
      /\ importJob' = [importJob EXCEPT ![t] = Quiet]
      /\ UNCHANGED <<overlapped, origin>>
  BY <1>1, <1>2 DEF CommitTransport
<1>4. /\ row \in TransportRow
      /\ row.log = IF "log" \in DOMAIN job THEN job.log ELSE transport.log
      /\ row.status = IF "status" \in DOMAIN job THEN job.status ELSE transport.status
      /\ row.current = IF "current" \in DOMAIN job THEN job.current ELSE transport.current
  BY <1>2, <1>3, WrittenRow
<1>5. /\ importJob' = [o \in TransportThreads |-> importJob'[o]]
      /\ importJob'[t] = Quiet /\ \A o \in TransportThreads \ {t} : importJob'[o] = importJob[o]
  BY <1>3
<1>6. DOMAIN Quiet = {}
  BY DEF Quiet
<1>a. /\ recorded \in Seq(Events) /\ SelectedFrom(transport.log, recorded)
      /\ transport.log \in Seq(Events) /\ origin \in Places
  BY DEF AuditTrail, TransportTypeOK
<1>b. "log" \in DOMAIN job =>
          \E e \in Events, front \in Seq(Events) :
              /\ job.log = Append(front, e) /\ Last(job.log) = e
              /\ recorded' = Append(recorded, e) /\ SelectedFrom(front, recorded)
  <2>1. AddsOne(job)
    BY <1>1
  <2>2. \A e \in Events, front \in Seq(Events) : Last(Append(front, e)) = e
    BY DEF Last
  <2> QED BY <1>3, <2>1, <2>2 DEF AddsOne
<1>c. SelectedFrom(row.log, recorded')
  <2>1. CASE "log" \in DOMAIN job
    <3>1. PICK e \in Events, front \in Seq(Events) :
            /\ job.log = Append(front, e)
            /\ recorded' = Append(recorded, e) /\ SelectedFrom(front, recorded)
      BY <1>b, <2>1
    <3>2. SelectedFrom(Append(front, e), Append(recorded, e))
      BY <1>a, <3>1, SelectedAppend
    <3> QED BY <1>4, <2>1, <3>1, <3>2
  <2>2. CASE "log" \notin DOMAIN job
    BY <1>3, <1>4, <1>a, <2>2
  <2> QED BY <2>1, <2>2
<1>d. \A front \in Seq(Events) : SelectedFrom(front, recorded) => SelectedFrom(front, recorded')
  BY <1>3, <1>a, <1>b, SelectedAppend
<1>e. ASSUME NEW o \in TransportThreads PROVE AddsOne(importJob[o])'
  <2>1. CASE o = t
    BY <1>5, <1>6, <2>1 DEF AddsOne
  <2>2. CASE o # t
    <3>1. importJob'[o] = importJob[o] /\ AddsOne(importJob[o])
      BY <1>5, <2>2
    <3> QED BY <1>d, <3>1 DEF AddsOne
  <2> QED BY <2>1, <2>2
<1>7. (\A o \in TransportThreads : Writes(importJob[o]) /\ AddsOne(importJob[o]))'
  BY <1>5, <1>6, <1>e DEF Writes
<1>8. ASSUME ~overlapped'
      PROVE  /\ \A u, o \in TransportThreads : importJob'[u] # Quiet /\ importJob'[o] # Quiet => u = o
             /\ \A o \in TransportThreads : Continues(importJob[o])'
  <2>1. \A o \in TransportThreads \ {t} : importJob'[o] = Quiet
    BY <1>1, <1>3, <1>5, <1>8
  <2> QED BY <1>5, <1>6, <2>1 DEF Continues
<1>9. /\ recorded \in Seq(Events) /\ overlapped \in BOOLEAN /\ moved \in BOOLEAN
      /\ "log" \in DOMAIN job => job.log \in Seq(Events) /\ job.log # << >>
  BY <1>3 DEF AuditTrail, TransportTypeOK, Writes
<1>10. CASE "log" \in DOMAIN job
  <2>1. PICK e \in Events : e = Last(job.log)
    BY <1>9, <1>10 DEF Last
  <2>2. recorded' = Append(recorded, e) /\ moved' = moved
    BY <1>3, <1>9, <1>10, <2>1
  <2>3. /\ HasLatest(recorded')
        /\ Reached(origin, recorded') = IF e.status = "imported" THEN e.system ELSE Reached(origin, recorded)
    BY <1>9, <2>2, ReachedAppend
  <2>4. Last(recorded') = e /\ recorded' # << >> /\ recorded' \in Seq(Events)
    BY <1>9, <2>2 DEF Last
  <2>5. ASSUME ~overlapped
        PROVE  /\ row.log = Append(transport.log, e)
               /\ row.status = e.status
               /\ row.current = IF e.status = "imported" THEN e.system ELSE transport.current
    <3>1. PICK f \in Events :
            /\ job.log = Append(transport.log, f)
            /\ row.status = f.status
            /\ row.current = IF f.status = "imported" THEN f.system ELSE transport.current
      BY <1>1, <1>4, <1>10, <2>5 DEF Continues
    <3>2. f = e
      BY <2>1, <3>1 DEF Last, TransportRow
    <3> QED BY <1>4, <1>10, <3>1, <3>2
  <2>6. TransportTypeOK'
    BY <1>3, <1>4, <1>9, <1>a, <2>2, <2>4 DEF TransportTypeOK, TransportRow
  <2>7. AuditTrail'
    BY <1>3, <1>4, <1>9, <1>10, <1>c, <2>1, <2>2, <2>3, <2>4, <2>5, <2>6 DEF AuditTrail
  <2>8. HasLatest(recorded)'
    BY <2>3 DEF HasLatest
  <2> QED BY <1>3, <1>4, <1>5, <1>7, <1>8, <2>7, <2>8
<1>11. CASE "log" \notin DOMAIN job
  <2>1. recorded' = recorded /\ moved' /\ row.log = transport.log
    BY <1>3, <1>4, <1>11
  <2>2. TransportTypeOK'
    BY <1>3, <1>4, <1>9, <1>a, <2>1 DEF TransportTypeOK, TransportRow
  <2>3. AuditTrail'
    BY <1>3, <1>c, <2>1, <2>2 DEF AuditTrail
  <2>4. HasLatest(recorded)'
    BY <2>1 DEF HasLatest
  <2> QED BY <1>3, <1>4, <1>5, <1>7, <1>8, <2>3, <2>4
<1> QED BY <1>10, <1>11

\* Every step preserves the invariant.
LEMMA TransportStepInv == TransportInv /\ [TransportNext]_transportVars => TransportInv'
<1> SUFFICES ASSUME TransportInv, [TransportNext]_transportVars PROVE TransportInv'
  OBVIOUS
<1>1. ASSUME NEW t \in TransportThreads, NEW system \in Systems, NEW status \in Outcomes,
             RecordImportResult(t, system, status)
      PROVE  TransportInv'
  <2>1. PICK e \in Events : e = [system |-> system, status |-> status]
    BY DEF Events
  <2>2. PICK new : new = [log |-> Logged(e), status |-> status,
                          current |-> IF status = "imported" THEN system ELSE transport.current]
    OBVIOUS
  <2>3. BeginTransport(t, new) /\ e.system = system /\ e.status = status
    BY <1>1, <2>1, <2>2 DEF RecordImportResult
  <2>4. transport.log \in Seq(Events) /\ transport.current \in Places
    BY DEF TransportInv, TransportRow
  <2>5. new \in TransportRow
    BY <2>1, <2>2, <2>4 DEF TransportRow, Logged, Outcomes, Statuses, Places
  <2>6. /\ new.log = Append(transport.log, e) /\ new.status = e.status
        /\ new.current = IF e.status = "imported" THEN e.system ELSE transport.current
    BY <2>2, <2>3 DEF Logged
  <2> QED BY <2>3, <2>5, <2>6, TransportBegins
<1>2. ASSUME NEW t \in TransportThreads, NEW system \in Systems, NEW status \in SetStatuses,
             UpdateTransport(t, system, status)
      PROVE  TransportInv'
  <2>1. PICK new : new = [transport EXCEPT !.current = system, !.status = status]
    OBVIOUS
  <2>2. status \in Statuses /\ system \in Places
    BY DEF Statuses, Places
  <2>3. new \in TransportRow /\ new.log = transport.log
    BY <2>1, <2>2 DEF TransportInv, TransportRow
  <2> QED BY <1>2, <2>1, <2>3, TransportBegins DEF UpdateTransport
<1>3. ASSUME NEW t \in TransportThreads, CommitTransport(t) PROVE TransportInv'
  BY <1>3, TransportCommits
<1>4. CASE UNCHANGED transportVars
  BY <1>4 DEF transportVars, TransportInv, Writes, AddsOne, Continues, HasLatest, AuditTrail, TransportTypeOK
<1> QED BY <1>1, <1>2, <1>3, <1>4 DEF TransportNext

\* The import log is the audit trail of a transport.
THEOREM ImportsAudited == TransportSpec => []AuditTrail
<1>1. TransportInv => AuditTrail
  BY DEF TransportInv
<1> QED BY <1>1, TransportInitInv, TransportStepInv, PTL DEF TransportSpec

------------------------------------------------------------------------------
(* The synchronisation with SAP Cloud ALM                                     *)

Row == [id : {"none", "simulated", "alm"}, synced : BOOLEAN,
        status : {"none", "pending", "synced", "sync_error"}]
SyncRows == [Synchronised -> Row]
Answers == [ok : BOOLEAN, created : SUBSET Synchronised, updated : SUBSET Synchronised,
            errors : SUBSET Synchronised]
Calls == [at : {"token", "fetch", "send", "denied", "failed", "served", "commit"},
          op : {"push", "pull"}, batch : SUBSET Synchronised, saw : SyncRows,
          attempt : Nat, token : Nat, refused : Nat, answer : Answers]

AlmRows ==
    /\ alm \subseteq Synchronised
    /\ synced \in SyncRows
    /\ cachedToken \in Nat /\ issued \in Nat
    /\ almCall \in [AlmThreads -> {NoCall} \cup Calls]

\* A row says nothing of the ALM that is not so.
TruthfulRow(row, r) ==
    /\ row.id = "alm" => r \in alm
    /\ row.status = "synced" /\ row.id # "simulated" => r \in alm
    /\ row.synced => row.id # "none"

\* SyncTruthful must also hold of what a call knows and will write: what its
\* answer confirms is in the ALM, and an id it has loaded is not gone since,
\* because an id is never taken back.  A token it saw refused is not the cached
\* one, because tokens are numbered in the order of their issue.
CallInv(call) ==
    /\ Confirmed(call) \subseteq alm
    /\ \A r \in Synchronised : call.saw[r].id # "none" => synced[r].id # "none"
    /\ call.token <= issued /\ call.refused <= issued
    /\ call.refused # 0 => cachedToken # call.refused
    /\ call.at \in {"send", "denied"} => call.token # 0
    /\ call.at = "send" => call.token # call.refused

AlmInv ==
    /\ AlmRows
    /\ cachedToken <= issued
    /\ \A r \in Synchronised : TruthfulRow(synced[r], r)
    /\ \A t \in AlmThreads : almCall[t] # NoCall => CallInv(almCall[t])

\* A call under way is not idle.
LEMMA CallShape ==
    ASSUME NEW j \in {NoCall} \cup Calls
    PROVE  j # NoCall <=> j.at # "idle"
<1>1. NoCall.at = "idle"
  BY DEF NoCall
<1>2. \A c \in Calls : c.at # "idle"
  BY DEF Calls
<1> QED BY <1>1, <1>2

\* The rest of a call's life: with another stage, token, answer or attempt it
\* is still one, and it still knows what it knew.
LEMMA NextTryShape ==
    ASSUME NEW c \in Calls
    PROVE  /\ NextTry(c) \in Calls
           /\ NextTry(c).saw = c.saw /\ NextTry(c).answer = c.answer
           /\ NextTry(c).token = c.token /\ NextTry(c).refused = c.refused
           /\ NextTry(c).at \in {"token", "commit"}
<1>1. c.attempt + 1 \in Nat
  BY DEF Calls
<1>2. PICK at \in {"token", "commit"}, n \in Nat : NextTry(c) = [c EXCEPT !.at = at, !.attempt = n]
  BY <1>1 DEF NextTry, Calls
<1> QED BY <1>2 DEF Calls

\* The synchronisation starts truthful.
LEMMA AlmInitInv == AlmInit => AlmInv
BY DEF AlmInit, AlmInv, AlmRows, SyncRows, Row, TruthfulRow, NoCall

\* What a step may do to the state that calls rely on.
AlmGrows ==
    /\ alm \subseteq alm'
    /\ \A r \in Synchronised : synced[r].id # "none" => synced'[r].id # "none"
    /\ issued' \in Nat /\ issued <= issued'
    /\ \/ cachedToken' \in {cachedToken, 0} /\ cachedToken <= issued
       \/ cachedToken' \in Nat /\ issued < cachedToken' /\ cachedToken' <= issued'

\* A call that is under way keeps its invariant while others take such steps.
LEMMA CallKept ==
    ASSUME AlmRows, AlmGrows, NEW c \in Calls, CallInv(c)
    PROVE  CallInv(c)'
<1>1. c.token \in Nat /\ c.refused \in Nat /\ issued \in Nat /\ cachedToken \in Nat
  BY DEF Calls, AlmRows
<1>2. Confirmed(c)' = Confirmed(c)
  BY DEF Confirmed
<1> QED BY <1>1, <1>2 DEF CallInv, AlmGrows

\* So a step that leaves the rows well formed and truthful preserves the
\* invariant if each call it changes keeps its own.
LEMMA AlmStep ==
    ASSUME AlmInv, AlmGrows,
           almCall' \in [AlmThreads -> {NoCall} \cup Calls],
           \A u \in AlmThreads : almCall'[u] \in {NoCall, almCall[u]} \/ CallInv(almCall[u])',
           alm' \subseteq Synchronised, synced' \in SyncRows,
           (\A r \in Synchronised : TruthfulRow(synced[r], r))'
    PROVE  AlmInv'
<1>1. AlmRows' /\ (cachedToken <= issued)'
  BY DEF AlmInv, AlmRows, AlmGrows
<1>2. ASSUME NEW u \in AlmThreads, almCall'[u] # NoCall PROVE CallInv(almCall[u])'
  <2>1. CASE almCall'[u] = almCall[u]
    <3>1. PICK d \in Calls : d = almCall[u]
      BY <2>1, <1>2 DEF AlmInv, AlmRows
    <3>2. CallInv(d)'
      BY <3>1, <2>1, <1>2, CallKept DEF AlmInv
    <3> QED BY <3>1, <3>2, <2>1
  <2> QED BY <2>1, <1>2
<1> QED BY <1>1, <1>2 DEF AlmInv

\* The call of one thread goes on as c.
LEMMA AlmCallStep ==
    ASSUME AlmInv, AlmGrows, NEW t \in AlmThreads, NEW c \in {NoCall} \cup Calls,
           Onward(t, c),
           c # NoCall => CallInv(c)',
           alm' \subseteq Synchronised, synced' \in SyncRows,
           (\A r \in Synchronised : TruthfulRow(synced[r], r))'
    PROVE  AlmInv'
<1>1. /\ almCall' \in [AlmThreads -> {NoCall} \cup Calls]
      /\ almCall'[t] = c /\ \A u \in AlmThreads \ {t} : almCall'[u] = almCall[u]
  BY DEF AlmInv, AlmRows, Onward
<1>2. \A u \in AlmThreads : almCall'[u] \in {NoCall, almCall[u]} \/ CallInv(almCall[u])'
  BY <1>1
<1> QED BY <1>1, <1>2, AlmStep

\* The call of one thread goes on while the rows and the ALM stay as they are.
LEMMA AlmCallGoesOn ==
    ASSUME AlmInv, NEW t \in AlmThreads, NEW c \in {NoCall} \cup Calls,
           Onward(t, c), UNCHANGED <<alm, synced, cachedToken, issued>>,
           c # NoCall => CallInv(c)
    PROVE  AlmInv'
<1>1. AlmGrows
  BY DEF AlmInv, AlmRows, AlmGrows
<1>2. c # NoCall => CallInv(c)'
  BY DEF CallInv, Confirmed
<1> QED BY <1>1, <1>2, AlmCallStep DEF AlmInv, AlmRows, TruthfulRow

\* A commit writes the columns that differ from the loaded ones.
LEMMA MergedRow ==
    ASSUME NEW new \in Row, NEW saw \in Row, NEW row \in Row,
           NEW m, m = [c \in DOMAIN new |-> IF new[c] # saw[c] THEN new[c] ELSE row[c]]
    PROVE  /\ m \in Row
           /\ m.id = IF new.id # saw.id THEN new.id ELSE row.id
           /\ m.synced = IF new.synced # saw.synced THEN new.synced ELSE row.synced
           /\ m.status = IF new.status # saw.status THEN new.status ELSE row.status
<1>1. DOMAIN new = {"id", "synced", "status"}
  BY DEF Row
<1>2. DOMAIN m = {"id", "synced", "status"}
  BY <1>1
<1>3. /\ m.id = IF new.id # saw.id THEN new.id ELSE row.id
      /\ m.synced = IF new.synced # saw.synced THEN new.synced ELSE row.synced
      /\ m.status = IF new.status # saw.status THEN new.status ELSE row.status
  BY <1>1
<1>4. m = [x \in {"id", "synced", "status"} |-> m[x]]
  BY <1>1
<1> QED BY <1>2, <1>3, <1>4 DEF Row

\* What the columns become of a row that a call commits: an id is written only
\* for what the answer confirms, and is not lost.
LEMMA CommittedRow ==
    ASSUME NEW call \in Calls, NEW r \in Synchronised, NEW saw \in Row, NEW row \in Row,
           saw.id # "none" => row.id # "none",
           TruthfulRow(row, r), Confirmed(call) \subseteq alm,
           NEW new, new = AfterCall(call, r, saw),
           NEW m, m = [c \in DOMAIN new |-> IF new[c] # saw[c] THEN new[c] ELSE row[c]]
    PROVE  m \in Row /\ TruthfulRow(m, r) /\ (row.id # "none" => m.id # "none")
<1>1. CASE r \in Confirmed(call) /\ call.op = "push" /\ r \notin call.answer.created
  <2>1. new = [saw EXCEPT !.status = "synced"]
    BY <1>1 DEF AfterCall
  <2>2. new \in Row /\ new.id = saw.id /\ new.synced = saw.synced
    BY <2>1 DEF Row
  <2> QED BY <1>1, <2>2, MergedRow DEF TruthfulRow
<1>2. CASE r \in Confirmed(call) /\ ~(call.op = "push" /\ r \notin call.answer.created)
  <2>1. new = [id |-> "alm", synced |-> TRUE, status |-> "synced"]
    BY <1>2 DEF AfterCall
  <2>2. new \in Row /\ new.id = "alm"
    BY <2>1 DEF Row
  <2> QED BY <1>2, <2>2, MergedRow DEF TruthfulRow
<1>3. CASE r \notin Confirmed(call)
  <2>1. new = saw \/ new = [saw EXCEPT !.status = "sync_error"]
    BY <1>3 DEF AfterCall
  <2>2. new \in Row /\ new.id = saw.id /\ new.synced = saw.synced
        /\ (new.status = saw.status \/ new.status = "sync_error")
    BY <2>1 DEF Row
  <2> QED BY <2>2, MergedRow DEF TruthfulRow
<1> QED BY <1>1, <1>2, <1>3

\* Every step preserves the invariant.
LEMMA AlmStepInv == AlmInv /\ [AlmNext]_almVars => AlmInv'
<1> SUFFICES ASSUME AlmInv, [AlmNext]_almVars PROVE AlmInv'
  OBVIOUS
<1>r. /\ alm \subseteq Synchronised /\ synced \in SyncRows
      /\ cachedToken \in Nat /\ issued \in Nat /\ cachedToken <= issued
      /\ \A r \in Synchronised : TruthfulRow(synced[r], r)
  BY DEF AlmInv, AlmRows
<1>c. \A t \in AlmThreads : ~CallAt(t, "idle") => almCall[t] \in Calls /\ CallInv(almCall[t])
  BY CallShape DEF AlmInv, AlmRows, CallAt, NoCall
<1>1. ASSUME NEW t \in AlmThreads, NEW op \in {"push", "pull"}, NEW batch \in SUBSET Synchronised,
             BeginAlmCall(t, op, batch)
      PROVE  AlmInv'
  <2> DEFINE at == IF _circuit_closed THEN "token" ELSE "commit"
             c == [at |-> at, op |-> op, batch |-> batch, saw |-> synced, attempt |-> 0,
                   token |-> 0, refused |-> 0, answer |-> NoAnswer]
  <2>1. at \in {"token", "commit"}
    OBVIOUS
  <2>2. Onward(t, c) /\ UNCHANGED <<alm, synced, cachedToken, issued>>
    BY <1>1 DEF BeginAlmCall
  <2> HIDE DEF at
  <2>3. c \in Calls /\ Confirmed(c) = {}
    BY <1>r, <2>1 DEF Calls, Answers, NoAnswer, Confirmed
  <2>4. CallInv(c)
    BY <1>r, <2>1, <2>3 DEF CallInv
  <2> HIDE DEF c
  <2> QED BY <2>2, <2>3, <2>4, AlmCallGoesOn
<1>2. ASSUME NEW t \in AlmThreads, GetToken(t) PROVE AlmInv'
  <2>1. almCall[t] \in Calls /\ CallInv(almCall[t])
    BY <1>2, <1>c DEF GetToken, CallAt
  <2>2. PICK at \in {"fetch", "send"} :
          /\ Onward(t, [almCall[t] EXCEPT !.at = at, !.token = cachedToken])
          /\ at = "send" => cachedToken # 0
    BY <1>2 DEF GetToken
  <2> DEFINE c == [almCall[t] EXCEPT !.at = at, !.token = cachedToken]
  <2>3. /\ c \in Calls
        /\ c.at = at /\ c.token = cachedToken /\ c.saw = almCall[t].saw
        /\ c.refused = almCall[t].refused /\ c.answer = almCall[t].answer
    BY <1>r, <2>1 DEF Calls
  <2> HIDE DEF c
  <2>4. CallInv(c)
    BY <1>r, <2>1, <2>2, <2>3 DEF CallInv, Confirmed
  <2> QED BY <1>2, <2>2, <2>3, <2>4, AlmCallGoesOn DEF GetToken, c
<1>3. ASSUME NEW t \in AlmThreads, TokenArrives(t) PROVE AlmInv'
  <2>1. almCall[t] \in Calls /\ CallInv(almCall[t])
    BY <1>3, <1>c DEF TokenArrives, CallAt
  <2>2. PICK n \in Nat : n = issued + 1
    BY <1>r
  <2>3. /\ issued' = n /\ cachedToken' = n /\ UNCHANGED <<alm, synced>>
        /\ Onward(t, [almCall[t] EXCEPT !.at = "send", !.token = n])
    BY <1>3, <2>2 DEF TokenArrives
  <2>4. PICK c : c = [almCall[t] EXCEPT !.at = "send", !.token = n]
    OBVIOUS
  <2>5. /\ c \in Calls
        /\ c.at = "send" /\ c.token = n /\ c.saw = almCall[t].saw
        /\ c.refused = almCall[t].refused /\ c.answer = almCall[t].answer
    BY <2>1, <2>4 DEF Calls
  <2>6. AlmGrows
    BY <1>r, <2>2, <2>3 DEF AlmGrows
  <2>7. c.refused \in Nat /\ c.refused <= issued
    BY <2>1, <2>5 DEF Calls, CallInv
  <2>8. CallInv(c)'
    BY <1>r, <2>1, <2>2, <2>3, <2>5, <2>7 DEF CallInv, Confirmed
  <2> QED BY <2>3, <2>4, <2>5, <2>6, <2>8, <1>r, AlmCallStep DEF TruthfulRow
<1>4. ASSUME NEW t \in AlmThreads, TokenMalformed(t) PROVE AlmInv'
  BY <1>4, AlmCallGoesOn DEF TokenMalformed
<1>5. ASSUME NEW t \in AlmThreads, NEW c \in Calls, CallInv(c), Onward(t, NextTry(c)),
             UNCHANGED <<alm, synced, cachedToken, issued>>
      PROVE  AlmInv'
  <2>1. CallInv(NextTry(c))
    BY <1>5, NextTryShape DEF CallInv, Confirmed
  <2> QED BY <1>5, <2>1, NextTryShape, AlmCallGoesOn
<1>6. ASSUME NEW t \in AlmThreads, TokenFails(t) \/ Failed(t) PROVE AlmInv'
  <2>1. almCall[t] \in Calls /\ CallInv(almCall[t])
    BY <1>6, <1>c DEF TokenFails, Failed, CallAt
  <2> QED BY <1>5, <1>6, <2>1 DEF TokenFails, Failed
<1>7. ASSUME NEW t \in AlmThreads, AlmServes(t) PROVE AlmInv'
  <2>1. almCall[t] \in Calls /\ CallInv(almCall[t])
    BY <1>7, <1>c DEF AlmServes, CallAt
  <2>2. PICK answer \in Answers, stage \in {"failed", "served"} :
          /\ alm \subseteq alm' /\ alm' \subseteq Synchronised
          /\ answer.created \cup answer.updated \subseteq alm'
          /\ Onward(t, [almCall[t] EXCEPT !.at = stage, !.answer = answer])
    <3> DEFINE given(errors) == IF almCall[t].op = "push" THEN Accepts(almCall[t].batch, errors)
                                ELSE [NoAnswer EXCEPT !.ok = TRUE, !.updated = alm]
    <3>1. PICK errors \in SUBSET almCall[t].batch, lost \in BOOLEAN :
             /\ alm' = alm \cup given(errors).created
             /\ Onward(t, [almCall[t] EXCEPT !.at = IF lost THEN "failed" ELSE "served",
                                             !.answer = IF lost THEN NoAnswer ELSE given(errors)])
      BY <1>7 DEF AlmServes
    <3>2. PICK answer : answer = given(errors)
      OBVIOUS
    <3>3. almCall[t].batch \subseteq Synchronised /\ errors \subseteq Synchronised
      BY <2>1 DEF Calls
    <3>4. /\ answer \in Answers /\ NoAnswer \in Answers
          /\ answer.created \cup answer.updated \subseteq alm \cup answer.created
          /\ NoAnswer.created = {} /\ NoAnswer.updated = {}
      BY <3>2, <3>3, <1>r DEF Accepts, Answers, NoAnswer
    <3> HIDE DEF given
    <3>5. alm \subseteq alm' /\ alm' \subseteq Synchronised
      BY <3>1, <3>2, <3>4, <1>r DEF Answers
    <3>6. CASE lost
      <4>1. Onward(t, [almCall[t] EXCEPT !.at = "failed", !.answer = NoAnswer])
        BY <3>1, <3>6
      <4> QED BY <3>4, <3>5, <4>1
    <3>7. CASE ~lost
      <4>1. Onward(t, [almCall[t] EXCEPT !.at = "served", !.answer = answer])
        BY <3>1, <3>2, <3>7
      <4>2. answer.created \cup answer.updated \subseteq alm'
        BY <3>1, <3>2, <3>4
      <4> QED BY <3>4, <3>5, <4>1, <4>2
    <3> QED BY <3>6, <3>7
  <2>3. PICK c : c = [almCall[t] EXCEPT !.at = stage, !.answer = answer]
    OBVIOUS
  <2>4. /\ c \in Calls /\ c.at = stage /\ c.answer = answer
        /\ c.token = almCall[t].token /\ c.refused = almCall[t].refused /\ c.saw = almCall[t].saw
    BY <2>1, <2>3 DEF Calls
  <2>5. AlmGrows /\ UNCHANGED <<synced, issued, cachedToken>>
    BY <1>7, <1>r, <2>2 DEF AlmGrows, AlmServes
  <2>6. CallInv(c)'
    BY <2>1, <2>2, <2>4, <2>5 DEF CallInv, Confirmed
  <2> QED BY <2>2, <2>3, <2>4, <2>5, <2>6, <1>r, AlmCallStep DEF TruthfulRow
<1>8. ASSUME NEW t \in AlmThreads, AlmFails(t) PROVE AlmInv'
  <2>1. almCall[t] \in Calls /\ CallInv(almCall[t])
    BY <1>8, <1>c DEF AlmFails, CallAt
  <2>2. PICK at \in {"denied", "failed", "served"}, answer \in Answers :
          /\ Onward(t, [almCall[t] EXCEPT !.at = at, !.answer = answer])
          /\ answer.created = {} /\ answer.updated = {}
    <3>1. PICK at \in {"denied", "failed", "served"} :
             Onward(t, [almCall[t] EXCEPT !.at = at, !.answer = [NoAnswer EXCEPT !.ok = (at = "served")]])
      BY <1>8 DEF AlmFails
    <3>2. PICK answer : answer = [NoAnswer EXCEPT !.ok = (at = "served")]
      OBVIOUS
    <3>3. answer \in Answers /\ answer.created = {} /\ answer.updated = {}
      BY <3>2 DEF NoAnswer, Answers
    <3> QED BY <3>1, <3>2, <3>3
  <2>3. PICK c : c = [almCall[t] EXCEPT !.at = at, !.answer = answer]
    OBVIOUS
  <2>4. /\ c \in Calls /\ c.at = at /\ c.answer = answer
        /\ c.token = almCall[t].token /\ c.refused = almCall[t].refused /\ c.saw = almCall[t].saw
    BY <2>1, <2>3 DEF Calls
  <2>5. almCall[t].at = "send"
    BY <1>8 DEF AlmFails, CallAt
  <2>6. CallInv(c)
    BY <2>1, <2>2, <2>4, <2>5 DEF CallInv, Confirmed
  <2> QED BY <1>8, <2>2, <2>3, <2>4, <2>6, AlmCallGoesOn DEF AlmFails
<1>9. ASSUME NEW t \in AlmThreads, Served(t) PROVE AlmInv'
  <2>1. almCall[t] \in Calls /\ CallInv(almCall[t])
    BY <1>9, <1>c DEF Served, CallAt
  <2>2. PICK c : c = [almCall[t] EXCEPT !.at = "commit"]
    OBVIOUS
  <2>3. /\ c \in Calls /\ c.at = "commit" /\ c.answer = almCall[t].answer
        /\ c.token = almCall[t].token /\ c.refused = almCall[t].refused /\ c.saw = almCall[t].saw
    BY <2>1, <2>2 DEF Calls
  <2>4. CallInv(c)
    BY <2>1, <2>3 DEF CallInv, Confirmed
  <2> QED BY <1>9, <2>2, <2>3, <2>4, AlmCallGoesOn DEF Served
<1>10. ASSUME NEW t \in AlmThreads, Denied(t) PROVE AlmInv'
  <2>1. almCall[t] \in Calls /\ CallInv(almCall[t]) /\ almCall[t].at = "denied"
    BY <1>10, <1>c DEF Denied, CallAt
  <2>2. PICK d : d = [almCall[t] EXCEPT !.refused = almCall[t].token]
    OBVIOUS
  <2>3. /\ d \in Calls /\ d.at = "denied" /\ d.answer = almCall[t].answer
        /\ d.token = almCall[t].token /\ d.refused = almCall[t].token /\ d.saw = almCall[t].saw
    BY <2>1, <2>2 DEF Calls
  <2>4. PICK c \in Calls : c = NextTry(d)
    BY <2>3, NextTryShape
  <2>5. /\ c.saw = d.saw /\ c.answer = d.answer /\ c.token = d.token /\ c.refused = d.refused
        /\ c.at \in {"token", "commit"}
    BY <2>3, <2>4, NextTryShape
  <2>6. cachedToken' = 0 /\ UNCHANGED <<alm, synced, issued>> /\ Onward(t, c)
    BY <1>10, <2>2, <2>4 DEF Denied, invalidate_token
  <2>7. AlmGrows
    BY <1>r, <2>6 DEF AlmGrows
  <2>8. CallInv(c)'
    BY <2>1, <2>3, <2>5, <2>6 DEF CallInv, Confirmed
  <2> QED BY <2>4, <2>6, <2>7, <2>8, <1>r, AlmCallStep DEF TruthfulRow
<1>11. ASSUME NEW t \in AlmThreads, CommitSync(t) PROVE AlmInv'
  <2>1. almCall[t] \in Calls /\ CallInv(almCall[t])
    BY <1>11, <1>c DEF CommitSync, CallAt
  <2>2. PICK call \in Calls : call = almCall[t]
    BY <2>1
  <2>3. PICK saw \in SyncRows : saw = IF call.op = "push" THEN call.saw ELSE synced
    BY <1>r DEF Calls
  <2>4. Confirmed(call) \subseteq alm /\ \A r \in Synchronised : saw[r].id # "none" => synced[r].id # "none"
    BY <2>1, <2>2, <2>3 DEF CallInv
  <2> DEFINE Merged(r, new) == [c \in DOMAIN new |-> IF new[c] # saw[r][c] THEN new[c] ELSE synced[r][c]]
  <2>5. /\ synced' = [r \in Synchronised |-> Merged(r, AfterCall(call, r, saw[r]))]
        /\ Onward(t, NoCall) /\ UNCHANGED <<alm, cachedToken, issued>>
    BY <1>11, <2>2, <2>3 DEF CommitSync
  <2>6. ASSUME NEW r \in Synchronised
        PROVE  /\ synced'[r] \in Row /\ TruthfulRow(synced'[r], r)
               /\ synced[r].id # "none" => synced'[r].id # "none"
    <3>1. synced'[r] = Merged(r, AfterCall(call, r, saw[r]))
      BY <2>5
    <3> QED BY <3>1, <2>3, <2>4, <1>r, CommittedRow DEF SyncRows
  <2>7. synced' \in SyncRows
    BY <2>5, <2>6 DEF SyncRows
  <2>8. AlmGrows
    <3>1. UNCHANGED <<alm, cachedToken, issued>>
      BY <2>5
    <3> QED BY <1>r, <2>6, <3>1 DEF AlmGrows
  <2>9. (\A r \in Synchronised : TruthfulRow(synced[r], r))'
    BY <2>5, <2>6 DEF TruthfulRow
  <2> QED BY <1>r, <2>5, <2>7, <2>8, <2>9, AlmCallStep
<1>12. ASSUME NEW r \in Synchronised, NEW row \in Row, TruthfulRow(row, r), synced[r].id # "none" => row.id # "none",
              synced' = [synced EXCEPT ![r] = row],
              UNCHANGED <<cachedToken, issued, alm, almCall>>
       PROVE  AlmInv'
  <2>1. synced' \in SyncRows /\ synced'[r] = row /\ \A x \in Synchronised \ {r} : synced'[x] = synced[x]
    BY <1>12, <1>r DEF SyncRows
  <2>2. AlmGrows
    BY <1>12, <1>r, <2>1 DEF AlmGrows
  <2>3. (\A x \in Synchronised : TruthfulRow(synced[x], x))'
    BY <1>12, <1>r, <2>1 DEF TruthfulRow
  <2> QED BY <1>12, <1>r, <2>1, <2>2, <2>3, AlmStep DEF AlmInv, AlmRows
<1>13. ASSUME NEW r \in Synchronised, SimulatedSync(r) PROVE AlmInv'
  <2>1. PICK row : row = [id |-> IF synced[r].id = "none" THEN "simulated" ELSE synced[r].id,
                          synced |-> TRUE, status |-> "synced"]
    OBVIOUS
  <2>2. row \in Row /\ TruthfulRow(row, r) /\ row.id # "none"
    BY <1>r, <2>1 DEF Row, SyncRows, TruthfulRow
  <2> QED BY <1>12, <1>13, <2>1, <2>2 DEF SimulatedSync
<1>14. ASSUME NEW r \in Synchronised, TransitionSync(r) PROVE AlmInv'
  <2>1. PICK status \in {"pending", "none"} : synced' = [synced EXCEPT ![r].status = status]
    BY <1>14 DEF TransitionSync
  <2>2. PICK row : row = [synced[r] EXCEPT !.status = status]
    OBVIOUS
  <2>3. /\ row \in Row /\ row.id = synced[r].id /\ row.synced = synced[r].synced /\ row.status = status
    BY <1>r, <2>2 DEF Row, SyncRows
  <2>4. synced' = [synced EXCEPT ![r] = row]
    BY <2>1, <2>2
  <2> QED BY <1>12, <1>14, <1>r, <2>3, <2>4 DEF TransitionSync, TruthfulRow
<1>15. ASSUME RestartAlmProcess \/ ForgetToken PROVE AlmInv'
  <2>1. /\ cachedToken' = 0 /\ UNCHANGED <<issued, alm, synced>>
        /\ almCall' = almCall \/ almCall' = [t \in AlmThreads |-> NoCall]
    BY <1>15 DEF RestartAlmProcess, ForgetToken
  <2>2. AlmGrows
    BY <1>r, <2>1 DEF AlmGrows
  <2>3. /\ almCall' \in [AlmThreads -> {NoCall} \cup Calls]
        /\ \A u \in AlmThreads : almCall'[u] \in {NoCall, almCall[u]}
    BY <2>1 DEF AlmInv, AlmRows
  <2> QED BY <1>r, <2>1, <2>2, <2>3, AlmStep DEF TruthfulRow
<1>16. ASSUME AlmTick \/ UNCHANGED almVars PROVE AlmInv'
  BY <1>16 DEF AlmTick, almVars, AlmInv, AlmRows, TruthfulRow, CallInv, Confirmed
<1> QED BY <1>1, <1>2, <1>3, <1>4, <1>6, <1>7, <1>8, <1>9, <1>10, <1>11, <1>13, <1>14, <1>15, <1>16 DEF AlmNext

\* However answers are lost and calls overlap, what the rows say of the ALM is so.
THEOREM SyncIsTruthful == AlmSpec => []SyncTruthful
<1>1. AlmInv => SyncTruthful
  BY DEF AlmInv, TruthfulRow, SyncTruthful
<1> QED BY <1>1, AlmInitInv, AlmStepInv, PTL DEF AlmSpec

\* A token that the ALM refused to a call is not sent by that call again,
\* though other threads put theirs in the same cache meanwhile.
THEOREM RefusedTokenUnused ==
    AlmSpec => [](\A t \in AlmThreads :
                      CallAt(t, "send") /\ almCall[t].refused # 0 => almCall[t].token # almCall[t].refused)
<1>1. AlmInv => \A t \in AlmThreads :
                    CallAt(t, "send") /\ almCall[t].refused # 0 => almCall[t].token # almCall[t].refused
  BY CallShape DEF AlmInv, AlmRows, CallAt, CallInv
<1> QED BY <1>1, AlmInitInv, AlmStepInv, PTL DEF AlmSpec

------------------------------------------------------------------------------
(* What the circuit breaker counts                                            *)

\* A call that is neither over nor about to commit may fail at its attempt and
\* at those after it.
Trying(call) == call.at \notin {"idle", "commit"}
Attempts ==
    {a \in AlmThreads \X (0 .. _RETRY_MAX) : Trying(almCall[a[1]]) /\ almCall[a[1]].attempt <= a[2]}

BreakerRows ==
    /\ wallClock \in 0 .. MaxClock
    /\ issued \in 0 .. MaxTokens /\ cachedToken \in 0 .. issued
    /\ failures \in Seq(Nat) /\ \A i \in DOMAIN failures : failures[i] <= wallClock
    /\ openUntil \in 0 .. MaxClock + OpenDuration

\* Failures and attempts together never exceed what the calls that were let
\* through below the threshold may add to it.
BreakerInv ==
    /\ BreakerRows
    /\ DOMAIN almCall = AlmThreads
    /\ \A t \in AlmThreads : Trying(almCall[t]) => almCall[t].attempt \in 0 .. _RETRY_MAX
    /\ Cardinality(Recent) + Cardinality(Attempts)
           < FailureThreshold + Cardinality(AlmThreads) * (_RETRY_MAX + 1)

\* The places of a list.
LEMMA PlacesFinite ==
    ASSUME NEW n \in Nat
    PROVE  IsFiniteSet(1 .. n) /\ Cardinality(1 .. n) = n
<1>1. IsFiniteSet(1 .. n) /\ Cardinality(1 .. n) = IF 1 > n THEN 0 ELSE n - 1 + 1
  <2>1. 1 \in Int /\ n \in Int
    OBVIOUS
  <2> QED BY <2>1, FS_Interval, Zenon
<1> QED BY <1>1

\* The attempts that the calls have left are few.
LEMMA AttemptsFinite ==
    /\ IsFiniteSet(Attempts) /\ Cardinality(Attempts) \in Nat /\ Cardinality(AlmThreads) \in Nat
    /\ Cardinality(Attempts) <= Cardinality(AlmThreads) * (_RETRY_MAX + 1)
<1>1. IsFiniteSet(AlmThreads) /\ Cardinality(AlmThreads) \in Nat
  BY AlmAssumption, FS_CardinalityType
<1>2. IsFiniteSet(0 .. 2) /\ Cardinality(0 .. 2) = 3
  <2>1. IsFiniteSet(0 .. 2) /\ Cardinality(0 .. 2) = IF 0 > 2 THEN 0 ELSE 2 - 0 + 1
    <3>1. 0 \in Int /\ 2 \in Int
      OBVIOUS
    <3> QED BY <3>1, FS_Interval, Zenon
  <2> QED BY <2>1
<1>3. /\ IsFiniteSet(AlmThreads \X (0 .. 2))
      /\ Cardinality(AlmThreads \X (0 .. 2)) = Cardinality(AlmThreads) * 3
  BY <1>1, <1>2, FS_Product
<1>4. Attempts \subseteq AlmThreads \X (0 .. 2)
  BY DEF Attempts, _RETRY_MAX
<1>5. /\ IsFiniteSet(Attempts) /\ Cardinality(Attempts) \in Nat
      /\ Cardinality(Attempts) <= Cardinality(AlmThreads \X (0 .. 2))
  BY <1>3, <1>4, FS_Subset, FS_CardinalityType
<1>6. _RETRY_MAX + 1 = 3
  BY DEF _RETRY_MAX
<1> QED BY <1>1, <1>3, <1>5, <1>6

\* The failures that the circuit breaker counts are some of those it remembers.
LEMMA RecentFinite ==
    ASSUME failures \in Seq(Nat)
    PROVE  /\ Recent \subseteq 1 .. Len(failures) /\ IsFiniteSet(Recent)
           /\ Cardinality(Recent) \in Nat /\ Cardinality(Recent) <= Len(failures)
<1>1. Recent \subseteq 1 .. Len(failures) /\ Len(failures) \in Nat
  BY DEF Recent
<1>2. IsFiniteSet(1 .. Len(failures)) /\ Cardinality(1 .. Len(failures)) = Len(failures)
  BY <1>1, PlacesFinite
<1> QED BY <1>1, <1>2, FS_Subset, FS_CardinalityType

\* A step after which no more failures are counted and no more attempts are left.
LEMMA FewerLeft ==
    ASSUME BreakerInv, failures' \in Seq(Nat), Attempts' \subseteq Attempts,
           Cardinality(Recent') <= Cardinality(Recent)
    PROVE  Cardinality(Recent') + Cardinality(Attempts') < FailureThreshold + Cardinality(AlmThreads) * (_RETRY_MAX + 1)
<1>1. PICK bound : bound = Cardinality(AlmThreads) * (_RETRY_MAX + 1)
  OBVIOUS
<1>2. bound \in Nat /\ FailureThreshold \in Nat
  BY <1>1, AttemptsFinite, AlmAssumption DEF _RETRY_MAX
<1>3. /\ IsFiniteSet(Attempts) /\ Cardinality(Attempts) \in Nat
      /\ Cardinality(Attempts') \in Nat /\ Cardinality(Attempts') <= Cardinality(Attempts)
  BY AttemptsFinite, FS_Subset, FS_CardinalityType
<1>4. Cardinality(Recent) \in Nat /\ Cardinality(Recent') \in Nat
  <2>1. Cardinality(Recent) \in Nat
    BY RecentFinite DEF BreakerInv, BreakerRows
  <2>2. DOMAIN failures' = 1 .. Len(failures') /\ Len(failures') \in Nat /\ Recent' \subseteq DOMAIN failures'
    BY DEF Recent
  <2>3. IsFiniteSet(Recent')
    BY <2>2, PlacesFinite, FS_Subset
  <2> QED BY <2>1, <2>3, FS_CardinalityType
<1>5. Cardinality(Recent) + Cardinality(Attempts) < FailureThreshold + bound
  BY <1>1 DEF BreakerInv
<1>6. Cardinality(Recent') + Cardinality(Attempts') < FailureThreshold + bound
  BY <1>2, <1>3, <1>4, <1>5
<1> QED BY <1>1, <1>6

\* A failure is counted and the attempt is over.
LEMMA OneFailure ==
    ASSUME BreakerInv, NEW a \in Attempts, Attempts' \subseteq Attempts \ {a},
           _record_failure, UNCHANGED wallClock
    PROVE  Cardinality(Recent') + Cardinality(Attempts') < FailureThreshold + Cardinality(AlmThreads) * (_RETRY_MAX + 1)
<1>1. PICK bound : bound = Cardinality(AlmThreads) * (_RETRY_MAX + 1)
  OBVIOUS
<1>2. bound \in Nat /\ FailureThreshold \in Nat
  BY <1>1, AttemptsFinite, AlmAssumption DEF _RETRY_MAX
<1>3. /\ IsFiniteSet(Attempts \ {a}) /\ Cardinality(Attempts) \in Nat
      /\ Cardinality(Attempts \ {a}) = Cardinality(Attempts) - 1
  BY AttemptsFinite, FS_RemoveElement
<1>4. Cardinality(Attempts') \in Nat /\ Cardinality(Attempts') <= Cardinality(Attempts) - 1
  BY <1>3, FS_Subset, FS_CardinalityType
<1>5. failures \in Seq(Nat) /\ wallClock \in Nat
  BY DEF BreakerInv, BreakerRows
<1>6. PICK n : n = Len(failures) + 1
  OBVIOUS
<1>7. IsFiniteSet(Recent) /\ Cardinality(Recent) \in Nat /\ n \notin Recent
  BY <1>5, <1>6, RecentFinite
<1>8. IsFiniteSet(Recent \cup {n}) /\ Cardinality(Recent \cup {n}) = Cardinality(Recent) + 1
  BY <1>7, FS_AddElement
<1>9. Recent' \subseteq Recent \cup {n}
  <2>1. failures' = Append(failures, wallClock) /\ wallClock' = wallClock
    BY DEF _record_failure
  <2>2. /\ DOMAIN failures' = 1 .. n /\ DOMAIN failures = 1 .. n - 1 /\ n \in Nat
        /\ \A i \in 1 .. n - 1 : failures'[i] = failures[i]
    BY <1>5, <1>6, <2>1
  <2> QED BY <2>1, <2>2 DEF Recent
<1>10. Cardinality(Recent') \in Nat /\ Cardinality(Recent') <= Cardinality(Recent) + 1
  BY <1>8, <1>9, FS_Subset, FS_CardinalityType
<1>11. Cardinality(Recent) + Cardinality(Attempts) < FailureThreshold + bound
  BY <1>1 DEF BreakerInv
<1>12. Cardinality(Recent') + Cardinality(Attempts') < FailureThreshold + bound
  BY <1>2, <1>3, <1>4, <1>7, <1>10, <1>11
<1> QED BY <1>1, <1>12

\* A look at the circuit keeps the failures within the window, or fewer.
LEMMA InspectionCounts ==
    ASSUME BreakerRows, Inspect, UNCHANGED wallClock
    PROVE  /\ failures' \in Seq(Nat) /\ \A i \in DOMAIN failures' : failures'[i] <= wallClock
           /\ openUntil' \in 0 .. MaxClock + OpenDuration
           /\ Cardinality(Recent') <= Cardinality(Recent)
<1>1. /\ wallClock \in 0 .. MaxClock /\ failures \in Seq(Nat)
      /\ \A i \in DOMAIN failures : failures[i] <= wallClock
      /\ openUntil \in 0 .. MaxClock + OpenDuration
  BY DEF BreakerRows
<1>2. MaxClock \in Nat /\ OpenDuration \in Nat
  BY AlmAssumption
<1>3. PICK n : n = Cardinality(Recent)
  OBVIOUS
<1>4. n \in Nat /\ n <= Len(failures) /\ Len(failures) \in Nat
  BY <1>1, <1>3, RecentFinite
<1>5. openUntil' \in 0 .. MaxClock + OpenDuration
  <2>1. openUntil' = openUntil \/ openUntil' = wallClock + OpenDuration
    BY DEF Inspect
  <2> QED BY <1>1, <1>2, <2>1
<1>6. CASE failures' = failures
  <2>1. Recent' = Recent
    BY <1>6 DEF Recent
  <2> QED BY <1>1, <1>3, <1>4, <1>5, <1>6, <2>1
<1>7. CASE failures' = SubSeq(failures, Len(failures) - n + 1, Len(failures))
  <2>1. PICK k \in Nat : k = Len(failures) - n
    BY <1>4
  <2>2. /\ failures' \in Seq(Nat) /\ Len(failures') = n /\ DOMAIN failures' = 1 .. n
        /\ \A i \in 1 .. n : failures'[i] = failures[k + i] /\ k + i \in DOMAIN failures
    <3>1. PICK kept : kept = SubSeq(failures, k + 1, k + n)
      OBVIOUS
    <3>2. k + n = Len(failures) /\ k + 1 \in Nat /\ k + n \in Nat /\ failures' = kept
      BY <1>4, <1>7, <2>1, <3>1
    <3>3. \A i \in k + 1 .. k + n : i \in DOMAIN failures /\ failures[i] \in Nat
      BY <1>1, <1>4, <2>1, <3>2
    <3>4. kept = [i \in 1 .. n |-> failures[k + i]]
      BY <1>1, <1>4, <2>1, <3>1, <3>2
    <3>5. \A i \in 1 .. n : kept[i] \in Nat /\ kept[i] = failures[k + i] /\ k + i \in DOMAIN failures
      <4>1. \A i \in 1 .. n : k + i \in k + 1 .. k + n
        BY <1>4, <2>1
      <4>2. \A i \in 1 .. n : kept[i] = failures[k + i]
        BY <3>4
      <4> QED BY <3>3, <4>1, <4>2
    <3>6. kept \in Seq(Nat) /\ Len(kept) = n /\ DOMAIN kept = 1 .. n
      <4>1. kept \in [1 .. n -> Nat]
        BY <3>4, <3>5
      <4>2. kept \in Seq(Nat)
        BY <1>4, <4>1
      <4> QED BY <1>4, <4>1, <4>2
    <3> QED BY <3>2, <3>5, <3>6
  <2>3. Recent' \subseteq 1 .. n
    BY <2>2 DEF Recent
  <2>4. IsFiniteSet(1 .. n) /\ Cardinality(1 .. n) = n
    BY <1>4, PlacesFinite
  <2>5. Cardinality(Recent') <= n
    BY <2>3, <2>4, FS_Subset
  <2> QED BY <1>1, <1>3, <1>5, <2>2, <2>5
<1> QED BY <1>3, <1>6, <1>7 DEF Inspect

\* A call goes on, with no attempt it did not have before.
LEMMA BreakerGoesOn ==
    ASSUME BreakerInv, NEW t \in AlmThreads, NEW c, Onward(t, c), BreakerRows',
           Cardinality(Recent') <= Cardinality(Recent),
           Trying(c) => Trying(almCall[t]) /\ c.attempt \in 0 .. _RETRY_MAX /\ almCall[t].attempt <= c.attempt
    PROVE  BreakerInv'
<1>1. /\ DOMAIN almCall' = AlmThreads /\ almCall'[t] = c
      /\ \A u \in AlmThreads \ {t} : almCall'[u] = almCall[u]
  BY DEF Onward, BreakerInv
<1>2. \A u \in AlmThreads : Trying(almCall'[u]) => almCall'[u].attempt \in 0 .. _RETRY_MAX
  BY <1>1 DEF BreakerInv
<1>3. Attempts' \subseteq Attempts
  <2> SUFFICES ASSUME NEW u \in AlmThreads, NEW n \in 0 .. _RETRY_MAX,
                      Trying(almCall'[u]), almCall'[u].attempt <= n
               PROVE  Trying(almCall[u]) /\ almCall[u].attempt <= n
    BY DEF Attempts, Trying
  <2>1. CASE u # t
    BY <1>1, <2>1
  <2>2. CASE u = t
    <3>1. Trying(almCall[t]) /\ c.attempt \in 0 .. 2 /\ n \in 0 .. 2 /\ c.attempt <= n /\ almCall[t].attempt <= c.attempt
      BY <1>1, <2>2 DEF _RETRY_MAX
    <3>2. almCall[t].attempt \in 0 .. 2
      BY <3>1 DEF BreakerInv, _RETRY_MAX
    <3> QED BY <2>2, <3>1, <3>2
  <2> QED BY <2>1, <2>2
<1>4. failures' \in Seq(Nat)
  BY DEF BreakerRows
<1>5. Cardinality(Recent') + Cardinality(Attempts') < FailureThreshold + Cardinality(AlmThreads) * (_RETRY_MAX + 1)
  BY <1>3, <1>4, FewerLeft
<1> QED BY <1>1, <1>2, <1>5 DEF BreakerInv, Trying

\* An attempt fails.
LEMMA BreakerFails ==
    ASSUME BreakerInv, NEW t \in AlmThreads, almCall[t] \in Calls, Trying(almCall[t]),
           Onward(t, NextTry(almCall[t])), _record_failure, UNCHANGED <<wallClock, issued, cachedToken>>
    PROVE  BreakerInv'
<1>1. PICK call \in Calls : call = almCall[t]
  OBVIOUS
<1>2. PICK n : n = call.attempt
  OBVIOUS
<1>3. n \in 0 .. 2
  BY <1>1, <1>2 DEF BreakerInv, _RETRY_MAX
<1>4. PICK c : c = NextTry(call)
  OBVIOUS
<1>5. c.attempt = n + 1 /\ (Trying(c) => n + 1 \in 0 .. 2)
  <2>1. PICK at : at = IF call.attempt < 2 THEN "token" ELSE "commit"
    OBVIOUS
  <2>2. c = [call EXCEPT !.at = at, !.attempt = n + 1]
    BY <1>2, <1>4, <2>1 DEF NextTry, _RETRY_MAX
  <2>3. c.at = at /\ c.attempt = n + 1
    BY <2>2 DEF Calls
  <2> QED BY <1>2, <1>3, <2>1, <2>3 DEF Trying
<1>6. /\ DOMAIN almCall' = AlmThreads /\ almCall'[t] = c
      /\ \A u \in AlmThreads \ {t} : almCall'[u] = almCall[u]
  BY <1>1, <1>4 DEF Onward, BreakerInv
<1>7. \A u \in AlmThreads : Trying(almCall'[u]) => almCall'[u].attempt \in 0 .. _RETRY_MAX
  BY <1>5, <1>6 DEF BreakerInv, _RETRY_MAX
<1>8. PICK a : a = <<t, n>>
  OBVIOUS
<1>9. a \in Attempts
  BY <1>1, <1>2, <1>3, <1>8 DEF Attempts, _RETRY_MAX
<1>10. Attempts' \subseteq Attempts \ {a}
  <2> SUFFICES ASSUME NEW u \in AlmThreads, NEW k \in 0 .. 2,
                      Trying(almCall'[u]), almCall'[u].attempt <= k
               PROVE  Trying(almCall[u]) /\ almCall[u].attempt <= k /\ <<u, k>> # a
    BY DEF Attempts, Trying, _RETRY_MAX
  <2>1. CASE u # t
    BY <1>6, <1>8, <2>1
  <2>2. CASE u = t
    <3>1. n + 1 <= k
      BY <1>5, <1>6, <2>2
    <3> QED BY <1>1, <1>2, <1>3, <1>8, <2>2, <3>1
  <2> QED BY <2>1, <2>2
<1>11. Cardinality(Recent') + Cardinality(Attempts') < FailureThreshold + Cardinality(AlmThreads) * (_RETRY_MAX + 1)
  BY <1>9, <1>10, OneFailure
<1>12. BreakerRows'
  <2>1. wallClock \in Nat /\ failures \in Seq(Nat) /\ \A i \in DOMAIN failures : failures[i] <= wallClock
    BY DEF BreakerInv, BreakerRows
  <2>2. failures' = Append(failures, wallClock) /\ UNCHANGED <<wallClock, issued, cachedToken, openUntil>>
    BY DEF _record_failure
  <2>3. failures' \in Seq(Nat) /\ \A i \in DOMAIN failures' : failures'[i] <= wallClock
    BY <2>1, <2>2
  <2> QED BY <2>2, <2>3 DEF BreakerInv, BreakerRows
<1> QED BY <1>6, <1>7, <1>11, <1>12 DEF BreakerInv, Trying

\* A call is let through only below the threshold.
LEMMA BreakerLets ==
    ASSUME BreakerInv, NEW t \in AlmThreads, NEW op, NEW batch, BeginAlmCall(t, op, batch)
    PROVE  BreakerInv'
<1>1. PICK c : c = [at |-> IF _circuit_closed THEN "token" ELSE "commit", op |-> op,
                    batch |-> batch, saw |-> synced, attempt |-> 0, token |-> 0, refused |-> 0,
                    answer |-> NoAnswer]
  OBVIOUS
<1>2. /\ c.attempt = 0 /\ (~_circuit_closed => c.at = "commit") /\ Onward(t, c)
      /\ Inspect /\ UNCHANGED <<wallClock, issued, cachedToken>>
  BY <1>1 DEF BeginAlmCall
<1>3. BreakerRows /\ failures \in Seq(Nat)
  BY DEF BreakerInv, BreakerRows
<1>4. /\ failures' \in Seq(Nat) /\ \A i \in DOMAIN failures' : failures'[i] <= wallClock
      /\ openUntil' \in 0 .. MaxClock + OpenDuration
      /\ Cardinality(Recent') <= Cardinality(Recent)
  BY <1>2, <1>3, InspectionCounts
<1>5. BreakerRows'
  BY <1>2, <1>3, <1>4 DEF BreakerRows
<1>6. CASE ~_circuit_closed
  <2>1. ~Trying(c)
    BY <1>2, <1>6 DEF Trying
  <2> QED BY <1>2, <1>4, <1>5, <2>1, BreakerGoesOn
<1>7. CASE _circuit_closed
  <2>1. /\ DOMAIN almCall' = AlmThreads /\ almCall'[t] = c
        /\ \A u \in AlmThreads \ {t} : almCall'[u] = almCall[u]
    BY <1>2 DEF Onward, BreakerInv
  <2>2. \A u \in AlmThreads : Trying(almCall'[u]) => almCall'[u].attempt \in 0 .. _RETRY_MAX
    BY <1>2, <2>1 DEF BreakerInv, _RETRY_MAX
  <2>3. PICK bound : bound = Cardinality(AlmThreads) * (_RETRY_MAX + 1)
    OBVIOUS
  <2>4. /\ Cardinality(Attempts') \in Nat /\ Cardinality(Attempts') <= bound /\ bound \in Nat
    <3>1. /\ IsFiniteSet(Attempts) /\ Cardinality(AlmThreads) \in Nat
      BY AttemptsFinite
    <3>2. (Cardinality(Attempts) \in Nat /\ Cardinality(Attempts) <= Cardinality(AlmThreads) * (_RETRY_MAX + 1))'
      BY AttemptsFinite, PTL
    <3> QED BY <2>3, <3>1, <3>2 DEF _RETRY_MAX
  <2>5. Cardinality(Recent) \in Nat /\ Cardinality(Recent) < FailureThreshold /\ FailureThreshold \in Nat
    BY <1>3, <1>7, RecentFinite, AlmAssumption DEF _circuit_closed, TooMany
  <2>6. Cardinality(Recent') \in Nat
    <3>1. Recent' \subseteq 1 .. Len(failures') /\ Len(failures') \in Nat
      BY <1>4 DEF Recent
    <3> QED BY <3>1, PlacesFinite, FS_Subset, FS_CardinalityType
  <2>7. Cardinality(Recent') + Cardinality(Attempts') < FailureThreshold + bound
    BY <1>4, <2>4, <2>5, <2>6
  <2> QED BY <1>5, <2>1, <2>2, <2>3, <2>7 DEF BreakerInv, Trying
<1> QED BY <1>6, <1>7

\* What is left alone stays well formed and counts the same.
LEMMA BreakerRests ==
    ASSUME BreakerInv, UNCHANGED <<wallClock, breaker>>,
           issued' \in 0 .. MaxTokens, cachedToken' \in 0 .. issued'
    PROVE  BreakerRows' /\ Cardinality(Recent') <= Cardinality(Recent)
<1>1. UNCHANGED <<wallClock, failures, openUntil>> /\ BreakerRows /\ failures \in Seq(Nat)
  BY DEF breaker, BreakerInv, BreakerRows
<1>2. BreakerRows'
  BY <1>1 DEF BreakerRows
<1>3. Recent' = Recent
  BY <1>1 DEF Recent
<1>4. Cardinality(Recent) \in Nat
  BY <1>1, RecentFinite
<1> QED BY <1>2, <1>3, <1>4

\* Failures are forgotten.
LEMMA BreakerForgets ==
    ASSUME BreakerInv, failures' = << >>, openUntil' = 0, wallClock' = wallClock,
           issued' = issued, cachedToken' \in 0 .. issued
    PROVE  BreakerRows' /\ Cardinality(Recent') <= Cardinality(Recent)
<1>1. BreakerRows /\ failures \in Seq(Nat) /\ MaxClock + OpenDuration \in Nat
  BY AlmAssumption DEF BreakerInv, BreakerRows
<1>2. BreakerRows'
  BY <1>1 DEF BreakerRows
<1>3. Recent' = {}
  BY DEF Recent
<1>4. Cardinality(Recent) \in Nat /\ Cardinality(Recent') = 0
  BY <1>1, <1>3, RecentFinite, FS_EmptySet
<1> QED BY <1>2, <1>4

\* At first nothing has failed, and no call is on its way.
LEMMA BreakerInitInv == AlmInit => BreakerInv
<1> SUFFICES ASSUME AlmInit PROVE BreakerInv
  OBVIOUS
<1>1. /\ wallClock = 0 /\ failures = << >> /\ openUntil = 0 /\ cachedToken = 0 /\ issued = 0
      /\ almCall = [t \in AlmThreads |-> NoCall]
  BY DEF AlmInit
<1>2. MaxClock \in Nat /\ MaxTokens \in Nat /\ OpenDuration \in Nat /\ FailureThreshold \in Nat \ {0}
  BY AlmAssumption
<1>3. BreakerRows
  BY <1>1, <1>2 DEF BreakerRows
<1>4. DOMAIN almCall = AlmThreads /\ \A t \in AlmThreads : ~Trying(almCall[t])
  BY <1>1 DEF Trying, NoCall
<1>5. Recent = {} /\ Attempts = {}
  BY <1>1, <1>4 DEF Recent, Attempts
<1>6. Cardinality(Recent) = 0 /\ Cardinality(Attempts) = 0
  BY <1>5, FS_EmptySet
<1>7. Cardinality(AlmThreads) * (_RETRY_MAX + 1) \in Nat
  BY AttemptsFinite DEF _RETRY_MAX
<1>8. Cardinality(Recent) + Cardinality(Attempts) < FailureThreshold + Cardinality(AlmThreads) * (_RETRY_MAX + 1)
  BY <1>2, <1>6, <1>7
<1> QED BY <1>3, <1>4, <1>8 DEF BreakerInv

\* No step lets more failures be counted than the calls let through may make.
LEMMA BreakerStepInv == AlmRows /\ BreakerInv /\ [AlmNext]_almVars => BreakerInv'
<1> SUFFICES ASSUME AlmRows, BreakerInv, [AlmNext]_almVars PROVE BreakerInv'
  OBVIOUS
<1>r. /\ BreakerRows /\ wallClock \in 0 .. MaxClock /\ failures \in Seq(Nat) /\ issued \in 0 .. MaxTokens
      /\ cachedToken \in 0 .. issued /\ MaxClock \in Nat /\ MaxTokens \in Nat
  BY AlmAssumption DEF BreakerInv, BreakerRows
<1>c. \A t \in AlmThreads : ~CallAt(t, "idle") => almCall[t] \in Calls
  BY DEF AlmRows, CallAt, NoCall
<1>m. ASSUME NEW t \in AlmThreads, almCall[t] \in Calls, Trying(almCall[t]), NEW c, Onward(t, c),
             Trying(c) => c.attempt = almCall[t].attempt,
             BreakerRows', Cardinality(Recent') <= Cardinality(Recent)
      PROVE  BreakerInv'
  <2>1. almCall[t].attempt \in 0 .. _RETRY_MAX /\ almCall[t].attempt \in Nat
    BY <1>m DEF BreakerInv, Calls
  <2>2. Trying(c) => c.attempt \in 0 .. _RETRY_MAX /\ almCall[t].attempt <= c.attempt
    BY <1>m, <2>1
  <2> QED BY <1>m, <2>2, BreakerGoesOn
<1>i. ASSUME NEW t \in AlmThreads, NEW c, Onward(t, c), ~Trying(c),
             BreakerRows', Cardinality(Recent') <= Cardinality(Recent)
      PROVE  BreakerInv'
  BY <1>i, BreakerGoesOn
<1>n. ~Trying(NoCall)
  BY DEF Trying, NoCall
<1>1. ASSUME NEW t \in AlmThreads, NEW op, NEW batch, BeginAlmCall(t, op, batch) PROVE BreakerInv'
  BY <1>1, BreakerLets
<1>2. ASSUME NEW t \in AlmThreads, GetToken(t) PROVE BreakerInv'
  <2>1. PICK c : c = [almCall[t] EXCEPT !.at = IF cachedToken = 0 THEN "fetch" ELSE "send", !.token = cachedToken]
    OBVIOUS
  <2>2. /\ Onward(t, c) /\ UNCHANGED <<wallClock, breaker, cachedToken, issued>>
        /\ almCall[t] \in Calls /\ Trying(almCall[t])
    BY <1>2, <1>c, <2>1 DEF GetToken, CallAt, Trying
  <2>3. c.attempt = almCall[t].attempt
    BY <2>1, <2>2 DEF Calls
  <2>4. BreakerRows' /\ Cardinality(Recent') <= Cardinality(Recent)
    BY <1>r, <2>2, BreakerRests
  <2> QED BY <1>m, <2>2, <2>3, <2>4
<1>3. ASSUME NEW t \in AlmThreads, TokenArrives(t) PROVE BreakerInv'
  <2>1. PICK c : c = [almCall[t] EXCEPT !.at = "send", !.token = issued']
    OBVIOUS
  <2>2. /\ Onward(t, c) /\ UNCHANGED <<wallClock, breaker>>
        /\ issued < MaxTokens /\ issued' = issued + 1 /\ cachedToken' = issued'
        /\ almCall[t] \in Calls /\ Trying(almCall[t])
    BY <1>3, <1>c, <2>1 DEF TokenArrives, CallAt, Trying
  <2>3. c.attempt = almCall[t].attempt
    BY <2>1, <2>2 DEF Calls
  <2>4. issued' \in 0 .. MaxTokens /\ cachedToken' \in 0 .. issued'
    BY <1>r, <2>2
  <2>5. BreakerRows' /\ Cardinality(Recent') <= Cardinality(Recent)
    BY <2>2, <2>4, BreakerRests
  <2> QED BY <1>m, <2>2, <2>3, <2>5
<1>4. ASSUME NEW t \in AlmThreads, TokenMalformed(t) \/ CommitSync(t) PROVE BreakerInv'
  <2>1. Onward(t, NoCall) /\ UNCHANGED <<wallClock, breaker, cachedToken, issued>>
    BY <1>4 DEF TokenMalformed, CommitSync
  <2>2. BreakerRows' /\ Cardinality(Recent') <= Cardinality(Recent)
    BY <1>r, <2>1, BreakerRests
  <2> QED BY <1>i, <1>n, <2>1, <2>2
<1>5. ASSUME NEW t \in AlmThreads, TokenFails(t) \/ Failed(t) PROVE BreakerInv'
  <2>1. /\ Onward(t, NextTry(almCall[t])) /\ _record_failure /\ UNCHANGED <<wallClock, issued, cachedToken>>
        /\ almCall[t] \in Calls /\ Trying(almCall[t])
    BY <1>5, <1>c DEF TokenFails, Failed, CallAt, Trying
  <2> QED BY <2>1, BreakerFails
<1>6. ASSUME NEW t \in AlmThreads, AlmServes(t) \/ AlmFails(t) PROVE BreakerInv'
  <2>1. PICK at, answer : Onward(t, [almCall[t] EXCEPT !.at = at, !.answer = answer])
    BY <1>6 DEF AlmServes, AlmFails
  <2>2. PICK c : c = [almCall[t] EXCEPT !.at = at, !.answer = answer]
    OBVIOUS
  <2>3. /\ UNCHANGED <<wallClock, breaker, cachedToken, issued>>
        /\ almCall[t] \in Calls /\ Trying(almCall[t])
    BY <1>6, <1>c DEF AlmServes, AlmFails, CallAt, Trying
  <2>4. c.attempt = almCall[t].attempt
    BY <2>2, <2>3 DEF Calls
  <2>5. BreakerRows' /\ Cardinality(Recent') <= Cardinality(Recent)
    BY <1>r, <2>3, BreakerRests
  <2> QED BY <1>m, <2>1, <2>2, <2>3, <2>4, <2>5
<1>7. ASSUME NEW t \in AlmThreads, Served(t) PROVE BreakerInv'
  <2>1. PICK c : c = [almCall[t] EXCEPT !.at = "commit"]
    OBVIOUS
  <2>2. /\ Onward(t, c) /\ almCall[t] \in Calls
        /\ failures' = << >> /\ openUntil' = 0 /\ UNCHANGED <<wallClock, cachedToken, issued>>
    BY <1>7, <1>c, <2>1 DEF Served, CallAt, _record_success
  <2>3. ~Trying(c)
    BY <2>1, <2>2 DEF Calls, Trying
  <2>4. BreakerRows' /\ Cardinality(Recent') <= Cardinality(Recent)
    BY <1>r, <2>2, BreakerForgets
  <2> QED BY <1>i, <2>2, <2>3, <2>4
<1>8. ASSUME NEW t \in AlmThreads, Denied(t) PROVE BreakerInv'
  <2>1. PICK call \in Calls : call = [almCall[t] EXCEPT !.refused = almCall[t].token] /\ call.attempt = almCall[t].attempt
    BY <1>8, <1>c DEF Denied, CallAt, Calls
  <2>2. /\ Onward(t, NextTry(call)) /\ UNCHANGED <<wallClock, breaker, issued>> /\ cachedToken' = 0
        /\ almCall[t] \in Calls /\ Trying(almCall[t])
    BY <1>8, <1>c, <2>1 DEF Denied, CallAt, Trying, invalidate_token
  <2>3. PICK c : c = NextTry(call)
    OBVIOUS
  <2>4. PICK n : n = call.attempt
    OBVIOUS
  <2>5. n \in 0 .. 2 /\ n = almCall[t].attempt
    BY <2>1, <2>2, <2>4 DEF BreakerInv, _RETRY_MAX
  <2>6. PICK at : at = IF n < 2 THEN "token" ELSE "commit"
    OBVIOUS
  <2>7. c = [call EXCEPT !.at = at, !.attempt = n + 1]
    BY <2>3, <2>4, <2>6 DEF NextTry, _RETRY_MAX
  <2>8. c.at = at /\ c.attempt = n + 1
    BY <2>7 DEF Calls
  <2>9. Trying(c) => c.attempt \in 0 .. _RETRY_MAX /\ almCall[t].attempt <= c.attempt
    BY <2>5, <2>6, <2>8 DEF Trying, _RETRY_MAX
  <2>10. BreakerRows' /\ Cardinality(Recent') <= Cardinality(Recent)
    <3>1. issued' \in 0 .. MaxTokens /\ cachedToken' \in 0 .. issued'
      BY <1>r, <2>2
    <3> QED BY <2>2, <3>1, BreakerRests
  <2> QED BY <2>2, <2>3, <2>9, <2>10, BreakerGoesOn
<1>9. ASSUME UNCHANGED <<almCall, wallClock, breaker, issued>>, cachedToken' \in {cachedToken, 0} PROVE BreakerInv'
  <2>1. issued' \in 0 .. MaxTokens /\ cachedToken' \in 0 .. issued'
    BY <1>r, <1>9
  <2>2. BreakerRows' /\ UNCHANGED <<wallClock, failures, almCall>>
    BY <1>9, <2>1, BreakerRests DEF breaker
  <2>3. Recent' = Recent /\ Attempts' = Attempts
    BY <2>2 DEF Recent, Attempts, Trying
  <2> QED BY <2>2, <2>3 DEF BreakerInv, Trying
<1>10. ASSUME AlmTick PROVE BreakerInv'
  <2>1. wallClock < MaxClock /\ wallClock' = wallClock + 1 /\ UNCHANGED <<failures, openUntil, cachedToken, issued, almCall>>
    BY <1>10 DEF AlmTick, breaker
  <2>2. BreakerRows'
    BY <1>r, <2>1 DEF BreakerRows
  <2>3. Recent' \subseteq Recent /\ Attempts' \subseteq Attempts
    <3>1. \A i \in DOMAIN failures : failures[i] \in Nat
      BY <1>r
    <3>2. FailureWindow \in Nat /\ wallClock \in Nat
      BY <1>r, AlmAssumption
    <3> QED BY <2>1, <3>1, <3>2 DEF Recent, Attempts, Trying
  <2>4. Cardinality(Recent') <= Cardinality(Recent)
    BY <1>r, <2>3, RecentFinite, FS_Subset
  <2>5. Cardinality(Recent') + Cardinality(Attempts') < FailureThreshold + Cardinality(AlmThreads) * (_RETRY_MAX + 1)
    BY <1>r, <2>1, <2>3, <2>4, FewerLeft
  <2> QED BY <2>1, <2>2, <2>5 DEF BreakerInv, Trying
<1>11. ASSUME RestartAlmProcess PROVE BreakerInv'
  <2>1. /\ failures' = << >> /\ openUntil' = 0 /\ cachedToken' = 0 /\ UNCHANGED <<wallClock, issued>>
        /\ almCall' = [t \in AlmThreads |-> NoCall]
    BY <1>11 DEF RestartAlmProcess
  <2>2. BreakerRows' /\ Cardinality(Recent') <= Cardinality(Recent)
    BY <1>r, <2>1, BreakerForgets
  <2>3. DOMAIN almCall' = AlmThreads /\ \A t \in AlmThreads : ~Trying(almCall'[t])
    BY <1>n, <2>1
  <2>4. Attempts' \subseteq Attempts
    BY <2>3 DEF Attempts, Trying
  <2>5. Cardinality(Recent') + Cardinality(Attempts') < FailureThreshold + Cardinality(AlmThreads) * (_RETRY_MAX + 1)
    BY <2>1, <2>2, <2>4, FewerLeft
  <2> QED BY <2>2, <2>3, <2>5 DEF BreakerInv, Trying
<1>12. ASSUME \/ \E r \in Synchronised : SimulatedSync(r) \/ TransitionSync(r)
              \/ ForgetToken \/ UNCHANGED almVars
       PROVE  BreakerInv'
  BY <1>9, <1>12 DEF SimulatedSync, TransitionSync, ForgetToken, almVars
<1> QED BY <1>1, <1>2, <1>3, <1>4, <1>5, <1>6, <1>7, <1>8, <1>10, <1>11, <1>12 DEF AlmNext

\* The columns, the clock, the tokens and the breaker stay well formed.
LEMMA AlmTyped == AlmInv /\ BreakerInv => AlmTypeOK
<1> SUFFICES ASSUME AlmInv, BreakerInv PROVE AlmTypeOK
  OBVIOUS
<1>1. failures \in Seq(Nat) /\ \A i \in DOMAIN failures : failures[i] <= wallClock
  BY DEF BreakerInv, BreakerRows
<1>2. \A i \in 1 .. Len(failures) : failures[i] \in 0 .. wallClock
  BY <1>1 DEF BreakerInv, BreakerRows
<1>3. failures \in Seq(0 .. wallClock)
  <2>1. PICK times : times = 0 .. wallClock
    OBVIOUS
  <2>2. PICK n \in Nat : n = Len(failures)
    BY <1>1
  <2>3. failures \in [1 .. n -> times]
    BY <1>1, <1>2, <2>1, <2>2
  <2>4. failures \in Seq(times)
    BY <2>2, <2>3
  <2> QED BY <2>1, <2>4
<1> QED BY <1>3 DEF AlmTypeOK, AlmInv, AlmRows, SyncRows, Row, BreakerInv, BreakerRows

\* The state of the gateway stays well formed, whatever the calls do.
LEMMA AlmTypesHold == AlmSpec => []AlmTypeOK
<1>1. AlmInv => AlmRows
  BY DEF AlmInv
<1> QED BY <1>1, AlmInitInv, AlmStepInv, BreakerInitInv, BreakerStepInv, AlmTyped, PTL DEF AlmSpec

\* However many threads share the breaker, what it counts within one window is
\* bounded by the threshold and the attempts of the calls it has let through,
\* and no call sends again a token that it saw refused.
THEOREM AlmIsSpared == AlmSpec => []AlmSpared
<1>1. AlmInv => AlmRows /\ \A t \in AlmThreads :
                    CallAt(t, "send") /\ almCall[t].refused # 0 => almCall[t].token # almCall[t].refused
  BY CallShape DEF AlmInv, AlmRows, CallAt, CallInv
<1>2. BreakerInv => Cardinality(Recent) < FailureThreshold + Cardinality(AlmThreads) * (_RETRY_MAX + 1)
  <2> SUFFICES ASSUME BreakerInv
               PROVE  Cardinality(Recent) < FailureThreshold + Cardinality(AlmThreads) * (_RETRY_MAX + 1)
    OBVIOUS
  <2>1. PICK bound : bound = FailureThreshold + Cardinality(AlmThreads) * (_RETRY_MAX + 1)
    OBVIOUS
  <2>2. bound \in Nat /\ Cardinality(Attempts) \in Nat /\ Cardinality(Recent) \in Nat
    <3>1. PICK a : a = Cardinality(AlmThreads)
      OBVIOUS
    <3>2. a \in Nat
      BY <3>1, AlmAssumption, FS_CardinalityType
    <3>3. FailureThreshold \in Nat /\ _RETRY_MAX + 1 = 3
      BY AlmAssumption DEF _RETRY_MAX
    <3>4. bound = FailureThreshold + a * 3
      BY <2>1, <3>1, <3>3
    <3>5. bound \in Nat
      BY <3>2, <3>3, <3>4
    <3> QED BY <3>5, AttemptsFinite, RecentFinite DEF BreakerInv, BreakerRows
  <2>3. Cardinality(Recent) + Cardinality(Attempts) < bound
    BY <2>1 DEF BreakerInv
  <2>4. Cardinality(Recent) < bound
    BY <2>2, <2>3
  <2> QED BY <2>1, <2>4
<1>3. AlmRows /\ BreakerInv /\ (\A t \in AlmThreads :
          CallAt(t, "send") /\ almCall[t].refused # 0 => almCall[t].token # almCall[t].refused) => AlmSpared
  BY <1>2 DEF AlmSpared
<1> QED BY <1>1, <1>3, AlmInitInv, AlmStepInv, BreakerInitInv, BreakerStepInv, PTL DEF AlmSpec

------------------------------------------------------------------------------
(* The approval of a test case                                                *)

CaseStatuses == TEST_CASE_STATUSES \cup {"submitted"}
Rounds == UNION {[S -> APPROVAL_STATUSES] : S \in SUBSET Stages}

\* What a request has in hand, whatever other requests commit.
ApprovalChecked(job) ==
    /\ job.op \in {"none", "submit", "decide", "decided"}
    /\ job.op = "submit" => job.stages \subseteq Stages
    /\ job.op \in {"submit", "decided"} => job.saw \in CaseStatuses
    /\ job.op \in {"decide", "decided"} => job.decision \in {"approved", "rejected"}

\* What it has read is what is there, while no other request runs.
ApprovalCurrent(job) ==
    /\ job.op \in {"submit", "decided"} => job.saw = caseStatus
    /\ job.op = "submit" => job.stages = DOMAIN required /\ With(records, "pending") = {}
    /\ job.op \in {"decide", "decided"} => job.key \in With(records, "pending")
    /\ job.op = "decided" => job.read = Marked(records, {job.key}, job.decision) /\ job.required = Required

\* Only the last submission has open stages.
LastRoundOpen == \A k \in With(records, "pending") : k[1] = Len(records)

ApprovalInv ==
    /\ ApprovalTypeOK
    /\ DOMAIN approvalJob = ApprovalThreads /\ approvalRaced \in BOOLEAN /\ meddled \in BOOLEAN
    /\ \A t \in ApprovalThreads : ApprovalChecked(approvalJob[t])
    /\ StatusFollowsRecords
    /\ ~approvalRaced =>
           \A t, o \in ApprovalThreads : approvalJob[t].op # "none" /\ approvalJob[o].op # "none" => t = o
    /\ ~approvalRaced /\ ~meddled =>
           /\ LastRoundOpen
           /\ \A t \in ApprovalThreads : ApprovalCurrent(approvalJob[t])

\* The stages of a round with some status.
Of(round, status) == {s \in DOMAIN round : round[s] = status}

\* The records with some status, one by one.
LEMMA RecordsWith ==
    ASSUME NEW rs, NEW st
    PROVE  /\ \A n, s : <<n, s>> \in With(rs, st) <=> n \in DOMAIN rs /\ s \in DOMAIN rs[n] /\ rs[n][s] = st
           /\ \A k \in With(rs, st) : k = <<k[1], k[2]>> /\ k[1] \in DOMAIN rs /\ k[2] \in DOMAIN rs[k[1]]
                                      /\ rs[k[1]][k[2]] = st
<1>1. \A k : k \in Keys(rs) <=> \E n \in DOMAIN rs : k \in {n} \X DOMAIN rs[n]
  BY DEF Keys
<1>2. \A k \in Keys(rs) : k = <<k[1], k[2]>> /\ k[1] \in DOMAIN rs /\ k[2] \in DOMAIN rs[k[1]]
  BY <1>1
<1>3. \A n, s : <<n, s>> \in Keys(rs) <=> n \in DOMAIN rs /\ s \in DOMAIN rs[n]
  BY <1>1
<1> QED BY <1>2, <1>3 DEF With

\* The records after some were marked.
LEMMA MarkedRecords ==
    ASSUME NEW rs \in Seq(Rounds), NEW keys, NEW st \in APPROVAL_STATUSES, NEW m, m = Marked(rs, keys, st)
    PROVE  /\ m \in Seq(Rounds) /\ Len(m) = Len(rs)
           /\ \A n \in 1 .. Len(rs) :
                  /\ DOMAIN m[n] = DOMAIN rs[n]
                  /\ \A s \in DOMAIN rs[n] : m[n][s] = IF <<n, s>> \in keys THEN st ELSE rs[n][s]
<1> DEFINE F(n) == [s \in DOMAIN rs[n] |-> IF <<n, s>> \in keys THEN st ELSE rs[n][s]]
<1>1. m = [n \in 1 .. Len(rs) |-> F(n)]
  BY DEF Marked
<1>2. ASSUME NEW n \in 1 .. Len(rs) PROVE F(n) \in Rounds
  <2>1. rs[n] \in Rounds
    OBVIOUS
  <2>2. PICK S \in SUBSET Stages : rs[n] \in [S -> APPROVAL_STATUSES]
    BY <2>1 DEF Rounds
  <2>3. F(n) \in [S -> APPROVAL_STATUSES]
    BY <2>2
  <2> QED BY <2>2, <2>3 DEF Rounds
<1>3. \A n \in 1 .. Len(rs) : DOMAIN F(n) = DOMAIN rs[n]
  OBVIOUS
<1>4. \A n \in 1 .. Len(rs) : \A s \in DOMAIN rs[n] : F(n)[s] = IF <<n, s>> \in keys THEN st ELSE rs[n][s]
  OBVIOUS
<1> HIDE DEF F
<1>5. m \in Seq(Rounds) /\ Len(m) = Len(rs)
  BY <1>1, <1>2
<1>6. \A n \in 1 .. Len(rs) : m[n] = F(n)
  BY <1>1
<1> QED BY <1>3, <1>4, <1>5, <1>6

\* What the status has to agree with, said of the last round itself.
Agrees(round, count) ==
    /\ Of(round, "rejected") # {} => Of(round, "pending") = {} /\ caseStatus = "draft"
    /\ Of(round, "rejected") = {} =>
           /\ Required \subseteq Of(round, "approved") /\ Of(round, "approved") # {} => caseStatus = "approved"
           /\ caseStatus = "approved" /\ count = 1 =>
                  Required \subseteq Of(round, "approved") /\ Of(round, "approved") # {}

\* The two say the same.
LEMMA LastRoundAgrees ==
    StatusFollowsRecords <=>
        records = << >> \/ approvalRaced \/ meddled \/ Agrees(records[Len(records)], Len(records))
<1>1. ASSUME NEW st, records # << >>
      PROVE  StagesWith(LastRound, st) = Of(records[Len(records)], st)
  <2>1. PICK r : r = records[Len(records)]
    OBVIOUS
  <2>2. PICK rs : rs = <<r>>
    OBVIOUS
  <2>3. LastRound = rs /\ DOMAIN rs = {1} /\ rs[1] = r
    BY <1>1, <2>1, <2>2 DEF LastRound
  <2>4. \A s : <<1, s>> \in With(rs, st) <=> s \in DOMAIN r /\ r[s] = st
    BY <2>3, RecordsWith
  <2>5. \A k \in With(rs, st) : k[2] \in DOMAIN r /\ r[k[2]] = st
    BY <2>3, RecordsWith
  <2>6. ASSUME NEW s \in Of(r, st) PROVE s \in StagesWith(rs, st)
    <3>1. <<1, s>> \in With(rs, st) /\ <<1, s>>[2] = s
      BY <2>4, <2>6 DEF Of
    <3> QED BY <3>1 DEF StagesWith
  <2>7. ASSUME NEW s \in StagesWith(rs, st) PROVE s \in Of(r, st)
    BY <2>5, <2>7 DEF Of, StagesWith
  <2>8. StagesWith(rs, st) = Of(r, st)
    BY <2>6, <2>7 DEF Of, StagesWith
  <2> QED BY <2>1, <2>3, <2>8
<1> QED BY <1>1 DEF StatusFollowsRecords, Agrees

\* The records are rounds, with what the case was put in.
LEMMA ApprovalInitInv == ApprovalInit => ApprovalInv
<1> SUFFICES ASSUME ApprovalInit PROVE ApprovalInv
  OBVIOUS
<1>1. /\ required \in [Stages -> BOOLEAN] /\ records = << >> /\ caseStatus \in TEST_CASE_STATUSES
      /\ approvalJob = [t \in ApprovalThreads |-> NoRequest] /\ approvalRaced = FALSE /\ meddled = FALSE
  BY DEF ApprovalInit
<1>2. ApprovalTypeOK
  BY <1>1 DEF ApprovalTypeOK
<1>3. NoRequest.op = "none"
  BY DEF NoRequest
<1>4. DOMAIN approvalJob = ApprovalThreads /\ \A t \in ApprovalThreads : approvalJob[t].op = "none"
  BY <1>1, <1>3
<1>5. LastRoundOpen
  BY <1>1, RecordsWith DEF LastRoundOpen
<1>6. StatusFollowsRecords
  BY <1>1 DEF StatusFollowsRecords
<1>7. \A t \in ApprovalThreads : ApprovalChecked(approvalJob[t]) /\ ApprovalCurrent(approvalJob[t])
  BY <1>4 DEF ApprovalChecked, ApprovalCurrent
<1> QED BY <1>1, <1>2, <1>4, <1>5, <1>6, <1>7 DEF ApprovalInv

\* A request begins, or goes on, with what it has in hand; no row changes.
LEMMA ApprovalGoesOn ==
    ASSUME ApprovalInv, NEW t \in ApprovalThreads, NEW job, job.op # "none",
           approvalJob' = [approvalJob EXCEPT ![t] = job],
           UNCHANGED <<approvalRows, meddled>>,
           approvalRaced' \in BOOLEAN, ~approvalRaced' => ~approvalRaced,
           ~approvalRaced' => \A o \in ApprovalThreads : o = t \/ approvalJob[o].op = "none",
           ApprovalChecked(job),
           ~approvalRaced /\ ~meddled => ApprovalCurrent(job)
    PROVE  ApprovalInv'
<1>1. /\ DOMAIN approvalJob' = ApprovalThreads /\ approvalJob'[t] = job
      /\ \A o \in ApprovalThreads : o # t => approvalJob'[o] = approvalJob[o]
  BY DEF ApprovalInv
<1>2. UNCHANGED <<required, records, caseStatus, meddled>>
  BY DEF approvalRows
<1>3. ApprovalTypeOK' /\ (LastRoundOpen' <=> LastRoundOpen) /\ Required' = Required
  BY <1>2 DEF ApprovalInv, ApprovalTypeOK, LastRoundOpen, Required
<1>4. StatusFollowsRecords'
  <2>1. LastRound' = LastRound
    BY <1>2 DEF LastRound
  <2> QED BY <1>2, <1>3, <2>1 DEF ApprovalInv, StatusFollowsRecords
<1>5. \A o \in ApprovalThreads : ApprovalChecked(approvalJob'[o])
  BY <1>1 DEF ApprovalInv
<1>6. \A j : ApprovalChecked(j)' <=> ApprovalChecked(j)
  BY DEF ApprovalChecked
<1>7. ASSUME ~approvalRaced', ~meddled'
      PROVE  LastRoundOpen' /\ \A o \in ApprovalThreads : ApprovalCurrent(approvalJob[o])'
  <2>1. ~approvalRaced /\ ~meddled
    BY <1>2, <1>7
  <2>2. ApprovalCurrent(job) /\ \A o \in ApprovalThreads : ApprovalCurrent(approvalJob[o])
    BY <2>1 DEF ApprovalInv
  <2>3. \A o \in ApprovalThreads : ApprovalCurrent(approvalJob'[o])
    BY <1>1, <2>2
  <2>4. \A o \in ApprovalThreads : ApprovalCurrent(approvalJob[o])'
    BY <1>2, <1>3, <2>3 DEF ApprovalCurrent
  <2> QED BY <1>3, <2>1, <2>4 DEF ApprovalInv
<1>8. ASSUME ~approvalRaced', NEW o \in ApprovalThreads, NEW u \in ApprovalThreads,
             approvalJob'[o].op # "none", approvalJob'[u].op # "none"
      PROVE  o = u
  BY <1>1, <1>8
<1>9. (\A o \in ApprovalThreads : ApprovalChecked(approvalJob[o]))'
  BY <1>5, <1>6 DEF ApprovalChecked
<1> QED BY <1>2, <1>3, <1>4, <1>7, <1>8, <1>9 DEF ApprovalInv

\* A request begins: no other one runs, or they overlap from here on.
LEMMA ApprovalBegins ==
    ASSUME ApprovalInv, NEW t \in ApprovalThreads, NEW job, job.op # "none", BeginApproval(t, job),
           ApprovalChecked(job), ApprovalCurrent(job)
    PROVE  ApprovalInv'
<1>1. /\ ~approvalRaced /\ approvalJob' = [approvalJob EXCEPT ![t] = job]
      /\ approvalRaced' = (\E o \in ApprovalThreads : approvalJob[o].op # "none")
      /\ UNCHANGED <<approvalRows, meddled>>
  BY DEF BeginApproval, Doing
<1>2. approvalRaced' \in BOOLEAN /\ (~approvalRaced' => \A o \in ApprovalThreads : approvalJob[o].op = "none")
  BY <1>1
<1> QED BY <1>1, <1>2, ApprovalGoesOn

\* A request ends: none is left while none has overlapped.
LEMMA ApprovalEnds ==
    ASSUME ApprovalInv, NEW t \in ApprovalThreads, approvalJob[t].op # "none", EndApproval(t),
           records' \in Seq(Rounds), caseStatus' \in CaseStatuses,
           ~approvalRaced /\ ~meddled =>
               LastRoundOpen' /\ (records' = << >> \/ Agrees(records[Len(records)], Len(records))')
    PROVE  ApprovalInv'
<1>1. UNCHANGED <<required, approvalRaced, meddled>> /\ approvalJob' = [approvalJob EXCEPT ![t] = NoRequest]
  BY DEF EndApproval
<1>2. NoRequest.op = "none"
  BY DEF NoRequest
<1>3. /\ DOMAIN approvalJob' = ApprovalThreads /\ approvalJob'[t].op = "none"
      /\ \A o \in ApprovalThreads : o # t => approvalJob'[o] = approvalJob[o]
  BY <1>1, <1>2 DEF ApprovalInv
<1>4. ApprovalTypeOK'
  BY <1>1 DEF ApprovalInv, ApprovalTypeOK, Rounds, CaseStatuses
<1>5. StatusFollowsRecords'
  <2>1. records' = << >> \/ approvalRaced' \/ meddled' \/ Agrees(records[Len(records)], Len(records))'
    BY <1>1
  <2>2. StatusFollowsRecords' <=>
            (records = << >> \/ approvalRaced \/ meddled \/ Agrees(records[Len(records)], Len(records)))'
    BY LastRoundAgrees, PTL
  <2> QED BY <2>1, <2>2
<1>6. (\A o \in ApprovalThreads : ApprovalChecked(approvalJob[o]))'
  <2>1. ASSUME NEW o \in ApprovalThreads PROVE ApprovalChecked(approvalJob[o])'
    <3>1. CASE o = t
      BY <1>3, <3>1 DEF ApprovalChecked
    <3>2. CASE o # t
      BY <1>3, <3>2 DEF ApprovalInv, ApprovalChecked
    <3> QED BY <3>1, <3>2
  <2> QED BY <2>1
<1>7. ASSUME ~approvalRaced' PROVE \A o \in ApprovalThreads : approvalJob'[o].op = "none"
  BY <1>1, <1>3, <1>7 DEF ApprovalInv
<1>8. ASSUME ~approvalRaced', ~meddled'
      PROVE  LastRoundOpen' /\ \A o \in ApprovalThreads : ApprovalCurrent(approvalJob[o])'
  BY <1>1, <1>7, <1>8 DEF ApprovalCurrent
<1> QED BY <1>1, <1>3, <1>4, <1>5, <1>6, <1>7, <1>8 DEF ApprovalInv

\* A submission puts a round of open stages behind the others.
LEMMA SubmissionKeeps ==
    ASSUME ApprovalInv, NEW t \in ApprovalThreads, CommitSubmission(t)
    PROVE  ApprovalInv'
<1>1. PICK job : job = approvalJob[t]
  OBVIOUS
<1>2. /\ job.op = "submit" /\ job.op # "none" /\ job.stages \subseteq Stages /\ EndApproval(t)
      /\ records' = Append(records, [s \in job.stages |-> "pending"])
      /\ caseStatus' \in {"submitted", caseStatus} /\ (job.saw = caseStatus => caseStatus' = "submitted")
  BY <1>1 DEF CommitSubmission, Doing, SaveStatus, ApprovalInv, ApprovalChecked
<1>3. PICK r : r = [s \in job.stages |-> "pending"]
  OBVIOUS
<1>4. r \in Rounds /\ DOMAIN r = job.stages /\ \A s \in DOMAIN r : r[s] = "pending"
  <2>1. r \in [job.stages -> APPROVAL_STATUSES]
    BY <1>3 DEF APPROVAL_STATUSES
  <2> QED BY <1>2, <1>3, <2>1 DEF Rounds
<1>5. PICK n : n = Len(records)
  OBVIOUS
<1>6. records \in Seq(Rounds) /\ n \in Nat /\ DOMAIN records = 1 .. n
  BY <1>5 DEF ApprovalInv, ApprovalTypeOK, Rounds
<1>7. /\ records' \in Seq(Rounds) /\ Len(records') = n + 1 /\ records'[n + 1] = r
      /\ \A i \in 1 .. n : records'[i] = records[i]
      /\ DOMAIN records' = 1 .. n + 1
  BY <1>2, <1>3, <1>4, <1>5, <1>6
<1>8. ASSUME ~approvalRaced, ~meddled
      PROVE  LastRoundOpen' /\ Agrees(records[Len(records)], Len(records))'
  <2>1. With(records, "pending") = {} /\ caseStatus' = "submitted"
    BY <1>1, <1>2, <1>8 DEF ApprovalInv, ApprovalCurrent
  <2>2. ASSUME NEW k \in With(records', "pending") PROVE k[1] = n + 1
    <3>1. k[1] \in 1 .. n + 1 /\ k[2] \in DOMAIN records'[k[1]] /\ records'[k[1]][k[2]] = "pending"
      BY <1>7, <2>2, RecordsWith
    <3>2. CASE k[1] \in 1 .. n
      <4>1. <<k[1], k[2]>> \in With(records, "pending")
        BY <1>6, <1>7, <3>1, <3>2, RecordsWith
      <4> QED BY <2>1, <4>1
    <3> QED BY <1>6, <3>1, <3>2
  <2>3. LastRoundOpen'
    BY <1>7, <2>2 DEF LastRoundOpen
  <2>4. Of(r, "rejected") = {} /\ Of(r, "approved") = {}
    BY <1>4 DEF Of
  <2>5. Agrees(records[Len(records)], Len(records))'
    BY <1>7, <2>1, <2>4 DEF Agrees
  <2> QED BY <2>3, <2>5
<1>9. caseStatus' \in CaseStatuses
  BY <1>2 DEF CaseStatuses, ApprovalInv, ApprovalTypeOK
<1> QED BY <1>1, <1>2, <1>7, <1>8, <1>9, ApprovalEnds

\* A decision: a rejection closes the round, an approval adds one to it.
LEMMA DecisionKeeps ==
    ASSUME ApprovalInv, NEW t \in ApprovalThreads, CommitApproval(t)
    PROVE  ApprovalInv'
<1>1. PICK job : job = approvalJob[t]
  OBVIOUS
<1>2. /\ job.op = "decided" /\ job.op # "none" /\ EndApproval(t)
      /\ job.saw \in CaseStatuses /\ job.decision \in {"approved", "rejected"}
      /\ records' = Marked(Marked(records, {job.key}, job.decision), Skipped(job), "skipped")
      /\ caseStatus' \in {StatusAfter(job), caseStatus} /\ (job.saw = caseStatus => caseStatus' = StatusAfter(job))
  BY <1>1 DEF CommitApproval, Doing, SaveStatus, ApprovalInv, ApprovalChecked
<1>3. records \in Seq(Rounds)
  BY DEF ApprovalInv, ApprovalTypeOK, Rounds
<1>4. PICK m : m = Marked(records, {job.key}, job.decision)
  OBVIOUS
<1>5. job.decision \in APPROVAL_STATUSES /\ "skipped" \in APPROVAL_STATUSES
  BY <1>2 DEF APPROVAL_STATUSES
<1>6. PICK n : n = Len(records)
  OBVIOUS
<1>7. /\ m \in Seq(Rounds) /\ Len(m) = n
      /\ \A i \in 1 .. n :
             /\ DOMAIN m[i] = DOMAIN records[i]
             /\ \A s \in DOMAIN records[i] : m[i][s] = IF <<i, s>> = job.key THEN job.decision ELSE records[i][s]
  <2>1. PICK keys : keys = {job.key}
    OBVIOUS
  <2>2. /\ m \in Seq(Rounds) /\ Len(m) = Len(records)
        /\ \A i \in 1 .. Len(records) :
               /\ DOMAIN m[i] = DOMAIN records[i]
               /\ \A s \in DOMAIN records[i] : m[i][s] = IF <<i, s>> \in keys THEN job.decision ELSE records[i][s]
    <3>1. PICK d \in APPROVAL_STATUSES : d = job.decision
      BY <1>5
    <3>2. m = Marked(records, keys, d)
      BY <1>4, <2>1, <3>1
    <3>3. /\ m \in Seq(Rounds) /\ Len(m) = Len(records)
          /\ \A i \in 1 .. Len(records) :
                 /\ DOMAIN m[i] = DOMAIN records[i]
                 /\ \A s \in DOMAIN records[i] : m[i][s] = IF <<i, s>> \in keys THEN d ELSE records[i][s]
      BY <1>3, <3>2, MarkedRecords
    <3> QED BY <3>1, <3>3
  <2>3. \A i, s : <<i, s>> \in keys <=> <<i, s>> = job.key
    BY <2>1
  <2> QED BY <1>6, <2>2, <2>3
<1>8. /\ records' \in Seq(Rounds) /\ Len(records') = n
      /\ \A i \in 1 .. n :
             /\ DOMAIN records'[i] = DOMAIN records[i]
             /\ \A s \in DOMAIN records[i] :
                    records'[i][s] = IF <<i, s>> \in Skipped(job) THEN "skipped" ELSE m[i][s]
  <2>1. records' = Marked(m, Skipped(job), "skipped")
    BY <1>2, <1>4
  <2> QED BY <1>5, <1>7, <2>1, MarkedRecords
<1>9. caseStatus' \in CaseStatuses
  BY <1>2 DEF StatusAfter, CaseStatuses, TEST_CASE_STATUSES, ApprovalInv, ApprovalTypeOK
<1>10. ASSUME ~approvalRaced, ~meddled, records' # << >>
       PROVE  LastRoundOpen' /\ Agrees(records[Len(records)], Len(records))'
  <2>1. /\ job.saw = caseStatus /\ job.key \in With(records, "pending")
        /\ job.read = m /\ job.required = Required /\ caseStatus' = StatusAfter(job)
    BY <1>1, <1>2, <1>4, <1>10 DEF ApprovalInv, ApprovalCurrent
  <2>2. LastRoundOpen /\ (records = << >> \/ Agrees(records[Len(records)], Len(records)))
    BY <1>10, LastRoundAgrees DEF ApprovalInv
  <2>3. n \in Nat \ {0} /\ DOMAIN records = 1 .. n /\ DOMAIN m = 1 .. n /\ DOMAIN records' = 1 .. n
        /\ records # << >>
    BY <1>3, <1>6, <1>7, <1>8, <1>10
  <2>4. PICK s \in DOMAIN records[n] : job.key = <<n, s>> /\ records[n][s] = "pending"
    BY <1>6, <2>1, <2>2, RecordsWith DEF LastRoundOpen
  <2>5. \A i \in 1 .. n : \A u \in DOMAIN records[i] : <<i, u>> = job.key <=> i = n /\ u = s
    BY <2>4
  <2>6. PICK old : old = records[n]
    OBVIOUS
  <2>7. PICK new : new = records'[n]
    OBVIOUS
  <2>8. Agrees(old, n) /\ Required' = Required
    BY <1>2, <1>6, <2>2, <2>3, <2>6 DEF EndApproval, Required
  <2>9. s \in Of(old, "pending") /\ Of(old, "rejected") = {}
    BY <2>4, <2>6, <2>8 DEF Of, Agrees
  <2>10. CASE job.decision = "rejected"
    <3>1. Skipped(job) = With(m, "pending") /\ caseStatus' = "draft"
      BY <1>2, <2>1, <2>10 DEF Skipped, StatusAfter
    <3>2. ASSUME NEW i \in 1 .. n, NEW u \in DOMAIN records[i]
          PROVE  <<i, u>> \in Skipped(job) <=> m[i][u] = "pending"
      <4>1. <<i, u>> \in With(m, "pending") <=> i \in DOMAIN m /\ u \in DOMAIN m[i] /\ m[i][u] = "pending"
        BY RecordsWith
      <4>2. i \in DOMAIN m /\ u \in DOMAIN m[i]
        BY <1>7, <2>3
      <4> QED BY <3>1, <4>1, <4>2
    <3>3. ASSUME NEW i \in 1 .. n, NEW u \in DOMAIN records'[i] PROVE records'[i][u] # "pending"
      <4>1. u \in DOMAIN records[i]
        BY <1>8, <3>3
      <4>2. records'[i][u] = IF <<i, u>> \in Skipped(job) THEN "skipped" ELSE m[i][u]
        BY <1>8, <4>1
      <4>3. <<i, u>> \in Skipped(job) <=> m[i][u] = "pending"
        BY <3>2, <4>1
      <4> QED BY <4>2, <4>3
    <3>4. With(records', "pending") = {}
      BY <2>3, <3>3, RecordsWith
    <3>5. LastRoundOpen'
      BY <3>4 DEF LastRoundOpen
    <3>6. n \in 1 .. n /\ m[n][s] = "rejected" /\ new[s] = "rejected" /\ s \in DOMAIN new
      <4>1. n \in 1 .. n
        BY <2>3
      <4>2. m[n][s] = "rejected"
        BY <1>7, <2>4, <2>10, <4>1
      <4>3. <<n, s>> \notin Skipped(job)
        BY <2>4, <3>2, <4>1, <4>2
      <4> QED BY <1>8, <2>4, <2>7, <4>1, <4>2, <4>3
    <3>7. Of(new, "rejected") # {} /\ Of(new, "pending") = {}
      BY <2>3, <2>7, <3>3, <3>6 DEF Of
    <3> QED BY <1>8, <2>7, <3>1, <3>5, <3>7 DEF Agrees
  <2>11. CASE job.decision = "approved"
    <3>1. Skipped(job) = {}
      BY <2>11 DEF Skipped
    <3>2. \A i \in 1 .. n : \A u \in DOMAIN records[i] :
              records'[i][u] = m[i][u] /\ m[i][u] = IF i = n /\ u = s THEN "approved" ELSE records[i][u]
      BY <1>7, <1>8, <2>5, <2>11, <3>1
    <3>3. ASSUME NEW k \in With(records', "pending") PROVE k[1] = n
      <4>1. k[1] \in 1 .. n /\ k[2] \in DOMAIN records[k[1]] /\ records'[k[1]][k[2]] = "pending"
        BY <1>8, <2>3, <3>3, RecordsWith
      <4>2. CASE k[1] # n
        <5>1. records[k[1]][k[2]] = "pending"
          BY <3>2, <4>1, <4>2
        <5>2. <<k[1], k[2]>> \in With(records, "pending")
          BY <2>3, <4>1, <5>1, RecordsWith
        <5> QED BY <1>6, <2>2, <5>2 DEF LastRoundOpen
      <4> QED BY <4>2
    <3>4. LastRoundOpen'
      BY <1>8, <3>3 DEF LastRoundOpen
    <3>5. DOMAIN new = DOMAIN old /\ \A u \in DOMAIN old : new[u] = IF u = s THEN "approved" ELSE old[u]
      BY <1>8, <2>3, <2>6, <2>7, <3>2
    <3>6. Of(new, "rejected") = {} /\ Of(new, "approved") = Of(old, "approved") \cup {s}
      BY <2>4, <2>6, <2>9, <3>5 DEF Of
    <3>7. PICK done : done = {k[2] : k \in With(m, "approved")}
      OBVIOUS
    <3>8. Of(new, "approved") \subseteq done
      <4>1. ASSUME NEW u \in Of(new, "approved") PROVE u \in done
        <5>1. n \in 1 .. n /\ u \in DOMAIN m[n] /\ m[n][u] = "approved"
          BY <1>7, <1>8, <2>3, <2>7, <3>2, <4>1 DEF Of
        <5>2. <<n, u>> \in With(m, "approved") /\ <<n, u>>[2] = u
          BY <2>3, <5>1, RecordsWith
        <5> QED BY <3>7, <5>2
      <4> QED BY <4>1
    <3>9. n = 1 => done \subseteq Of(new, "approved")
      <4>1. ASSUME n = 1, NEW k \in With(m, "approved") PROVE k[2] \in Of(new, "approved")
        <5>1. k[1] = n /\ k[2] \in DOMAIN m[n] /\ m[n][k[2]] = "approved"
          BY <2>3, <4>1, RecordsWith
        <5> QED BY <1>7, <1>8, <2>3, <2>7, <3>2, <5>1 DEF Of
      <4> QED BY <3>7, <4>1
    <3>10. caseStatus' = IF Required \subseteq done THEN "approved" ELSE caseStatus
      BY <1>2, <2>1, <2>11, <3>7 DEF StatusAfter, AllRequiredApproved
    <3>11. Agrees(new, n)'
      BY <2>8, <2>9, <3>6, <3>8, <3>9, <3>10 DEF Agrees
    <3> QED BY <1>8, <2>7, <3>4, <3>11
  <2> QED BY <1>2, <2>10, <2>11
<1>11. ASSUME ~approvalRaced, ~meddled, records' = << >> PROVE LastRoundOpen'
  BY <1>11, RecordsWith DEF LastRoundOpen
<1> QED BY <1>1, <1>2, <1>8, <1>9, <1>10, <1>11, ApprovalEnds

\* Every step preserves the invariant.
LEMMA ApprovalStepInv == ApprovalInv /\ [ApprovalNext]_approvalVars => ApprovalInv'
<1> SUFFICES ASSUME ApprovalInv, [ApprovalNext]_approvalVars PROVE ApprovalInv'
  OBVIOUS
<1>1. ASSUME NEW t \in ApprovalThreads, SubmitForApproval(t) PROVE ApprovalInv'
  <2>1. PICK job : job = [op |-> "submit", stages |-> DOMAIN required, saw |-> caseStatus]
    OBVIOUS
  <2>2. job.op = "submit" /\ job.stages = DOMAIN required /\ job.saw = caseStatus
    BY <2>1
  <2>3. With(records, "pending") = {} /\ BeginApproval(t, job)
    BY <1>1, <2>1 DEF SubmitForApproval
  <2>4. DOMAIN required \subseteq Stages /\ caseStatus \in CaseStatuses
    BY DEF ApprovalInv, ApprovalTypeOK, CaseStatuses
  <2>5. ApprovalChecked(job) /\ ApprovalCurrent(job)
    BY <2>2, <2>3, <2>4 DEF ApprovalChecked, ApprovalCurrent
  <2> QED BY <2>2, <2>3, <2>5, ApprovalBegins
<1>2. ASSUME NEW t \in ApprovalThreads, NEW k \in Keys(records), NEW d \in {"approved", "rejected"},
             DecideApproval(t, k, d)
      PROVE  ApprovalInv'
  <2>1. PICK job : job = [op |-> "decide", key |-> k, decision |-> d]
    OBVIOUS
  <2>2. job.op = "decide" /\ job.key = k /\ job.decision = d
    BY <2>1
  <2>3. k \in With(records, "pending") /\ BeginApproval(t, job)
    BY <1>2, <2>1 DEF DecideApproval
  <2>4. ApprovalChecked(job) /\ ApprovalCurrent(job)
    BY <2>2, <2>3 DEF ApprovalChecked, ApprovalCurrent
  <2> QED BY <2>2, <2>3, <2>4, ApprovalBegins
<1>3. ASSUME NEW t \in ApprovalThreads, Flush(t) PROVE ApprovalInv'
  <2>1. PICK job : job = approvalJob[t]
    OBVIOUS
  <2>2. PICK next : next = [op |-> "decided", key |-> job.key, decision |-> job.decision,
                            read |-> Marked(records, {job.key}, job.decision),
                            required |-> Required, saw |-> caseStatus]
    OBVIOUS
  <2>3. /\ next.op = "decided" /\ next.key = job.key /\ next.decision = job.decision
        /\ next.read = Marked(records, {job.key}, job.decision)
        /\ next.required = Required /\ next.saw = caseStatus
    BY <2>2
  <2>4. /\ job.op = "decide" /\ approvalJob' = [approvalJob EXCEPT ![t] = next]
        /\ UNCHANGED <<approvalRows, meddled>> /\ UNCHANGED approvalRaced
    BY <1>3, <2>1, <2>2 DEF Flush, Doing
  <2>5. ApprovalChecked(job) /\ caseStatus \in CaseStatuses /\ approvalRaced \in BOOLEAN
    BY <2>1 DEF ApprovalInv, ApprovalTypeOK, CaseStatuses
  <2>6. ApprovalChecked(next)
    BY <2>3, <2>4, <2>5 DEF ApprovalChecked
  <2>7. ~approvalRaced /\ ~meddled => ApprovalCurrent(next)
    <3>1. ~approvalRaced /\ ~meddled => ApprovalCurrent(job)
      BY <2>1 DEF ApprovalInv
    <3> QED BY <2>3, <2>4, <3>1 DEF ApprovalCurrent
  <2>8. ~approvalRaced => \A o \in ApprovalThreads : o = t \/ approvalJob[o].op = "none"
    BY <2>1, <2>4 DEF ApprovalInv
  <2> QED BY <2>3, <2>4, <2>5, <2>6, <2>7, <2>8, ApprovalGoesOn
<1>4. ASSUME NEW t \in ApprovalThreads, Deadlocked(t) PROVE ApprovalInv'
  <2>1. PICK o \in ApprovalThreads : WaitsFor(t, o)
    BY <1>4 DEF Deadlocked
  <2>2. t # o /\ approvalJob[t].op = "decided" /\ approvalJob[o].op = "decided"
    BY <2>1 DEF WaitsFor, Doing
  <2>3. approvalRaced /\ approvalJob[t].op # "none"
    BY <2>2 DEF ApprovalInv
  <2>4. EndApproval(t) /\ records' \in Seq(Rounds) /\ caseStatus' \in CaseStatuses
    BY <1>4 DEF Deadlocked, ApprovalInv, ApprovalTypeOK, Rounds, CaseStatuses
  <2> QED BY <2>3, <2>4, ApprovalEnds
<1>5. ASSUME AtOnceToo, required' \in UNION {[S -> BOOLEAN] : S \in SUBSET Stages}, caseStatus' \in CaseStatuses
      PROVE  ApprovalInv'
  <2>1. /\ ~approvalRaced /\ meddled' = TRUE /\ UNCHANGED <<records, approvalJob>>
        /\ approvalRaced' = (\E t \in ApprovalThreads : approvalJob[t].op # "none")
    BY <1>5 DEF AtOnceToo, Doing
  <2>2. approvalRaced' \in BOOLEAN
    BY <2>1
  <2>3. ApprovalTypeOK'
    BY <1>5, <2>1 DEF ApprovalInv, ApprovalTypeOK, CaseStatuses
  <2>4. StatusFollowsRecords'
    BY <2>1 DEF StatusFollowsRecords
  <2>5. (\A t \in ApprovalThreads : ApprovalChecked(approvalJob[t]))'
    BY <2>1 DEF ApprovalInv, ApprovalChecked
  <2> QED BY <2>1, <2>2, <2>3, <2>4, <2>5 DEF ApprovalInv
<1>6. ASSUME NEW status \in TEST_CASE_STATUSES, SetCaseStatus(status) PROVE ApprovalInv'
  BY <1>5, <1>6 DEF SetCaseStatus, CaseStatuses, ApprovalInv, ApprovalTypeOK
<1>7. ASSUME NEW stages \in SUBSET Stages, UpdateWorkflow(stages) PROVE ApprovalInv'
  BY <1>5, <1>7 DEF UpdateWorkflow, CaseStatuses, ApprovalInv, ApprovalTypeOK
<1>8. CASE UNCHANGED approvalVars
  <2>1. UNCHANGED <<required, records, caseStatus, approvalJob, approvalRaced, meddled>>
    BY <1>8 DEF approvalVars, approvalRows
  <2>2. UNCHANGED <<LastRound, Required>> /\ (LastRoundOpen' <=> LastRoundOpen)
    BY <2>1 DEF LastRound, Required, LastRoundOpen
  <2>3. (StatusFollowsRecords' <=> StatusFollowsRecords) /\ (ApprovalTypeOK' <=> ApprovalTypeOK)
    BY <2>1, <2>2 DEF StatusFollowsRecords, ApprovalTypeOK
  <2>4. /\ (\A t \in ApprovalThreads : ApprovalChecked(approvalJob[t]))' <=> \A t \in ApprovalThreads : ApprovalChecked(approvalJob[t])
        /\ (\A t \in ApprovalThreads : ApprovalCurrent(approvalJob[t]))' <=> \A t \in ApprovalThreads : ApprovalCurrent(approvalJob[t])
    BY <2>1, <2>2 DEF ApprovalChecked, ApprovalCurrent
  <2> QED BY <2>1, <2>2, <2>3, <2>4 DEF ApprovalInv
<1> QED BY <1>1, <1>2, <1>3, <1>4, <1>6, <1>7, <1>8, SubmissionKeeps, DecisionKeeps DEF ApprovalNext

\* The status of a test case agrees with the records of its last submission,
\* for any stages and any number of submissions and threads.
THEOREM ApprovalsDecide == ApprovalSpec => [](ApprovalTypeOK /\ StatusFollowsRecords)
<1>1. ApprovalInv => ApprovalTypeOK /\ StatusFollowsRecords
  BY DEF ApprovalInv
<1> QED BY <1>1, ApprovalInitInv, ApprovalStepInv, PTL DEF ApprovalSpec

------------------------------------------------------------------------------
(* What explains the status of a change                                       *)

ChangeRow == [status : CHANGE_STATUSES \ {"backed_out"}, requiresPir : BOOLEAN,
              approved : BOOLEAN, over : SUBSET Windows]

\* What a row says by itself: it comes to these statuses over an approval.
RowSound(row) == row.status \in Approved \cup {"scheduled"} => row.approved

\* What a request has checked that stays so whatever other requests commit.
ChangeChecked(job) ==
    /\ job.saw \in ChangeRow /\ RowSound(job.saw)
    /\ job.saw.approved => change.approved
    /\ job.op = "status" => job.to \in {"submitted", "cab_pending", "closed"}
    /\ job.op = "assess" => job.requires \in BOOLEAN
    /\ job.op = "decide" => job.to \in DecisionStatuses
    /\ job.op = "schedule" => job.over \subseteq Windows /\ job.saw.status \in Approved
    /\ job.op = "except" => job.window \in Windows
    /\ job.op = "rule" => job.row \in DOMAIN exceptions /\ job.to \in {"approved", "rejected"}
    /\ job.op = "plan" => job.saw.status \in Approved \cup {"scheduled"}
    /\ job.op = "run" => job.row \in DOMAIN implementations /\ job.to \in {"in_progress", "completed", "validated"}
    /\ job.op = "back_out" => job.row \in DOMAIN implementations /\ job.to \in BackedOut
    /\ job.op = "review" => job.insert \in BOOLEAN /\ (job.insert \/ reviews # << >>)

\* What it has checked that stays so while no other request runs.
ChangeCurrent(job) ==
    /\ job.saw = change
    /\ job.op = "status" /\ job.to = "closed" /\ change.requiresPir => Some(reviews, {"completed"})

\* A change that needs a review says so, unless that was taken back by hand.
ReviewDemanded ==
    ~waived /\ (exceptions # << >> \/ Some(implementations, BackedOut)) => change.requiresPir

ChangeInv ==
    /\ ChangeTypeOK
    /\ DOMAIN changeJob = ChangeThreads /\ changeRaced \in BOOLEAN /\ waived \in BOOLEAN
    /\ RowSound(change)
    /\ StatusExplained
    /\ \A t \in ChangeThreads : changeJob[t] # NoJob => ChangeChecked(changeJob[t])
    /\ ~changeRaced =>
           /\ \A t, o \in ChangeThreads : changeJob[t] # NoJob /\ changeJob[o] # NoJob => t = o
           /\ \A t \in ChangeThreads : changeJob[t] # NoJob => ChangeCurrent(changeJob[t])
           /\ ReviewDemanded

\* A row given another status.
LEMMA StatusSet ==
    ASSUME NEW row \in ChangeRow, NEW status \in CHANGE_STATUSES \ {"backed_out"},
           NEW m, m = SetStatus(row, status)
    PROVE  /\ m \in ChangeRow /\ m.status = status /\ m.requiresPir = row.requiresPir /\ m.over = row.over
           /\ m.approved <=> row.approved \/ status \in Approved
<1>1. PICK done \in BOOLEAN : done <=> row.approved \/ status \in Approved
  OBVIOUS
<1>2. row.approved \in BOOLEAN /\ row.requiresPir \in BOOLEAN /\ row.over \in SUBSET Windows
  BY DEF ChangeRow
<1>3. m = [status |-> status, requiresPir |-> row.requiresPir, approved |-> done, over |-> row.over]
  BY <1>1, <1>2 DEF SetStatus, ChangeRow
<1>4. [status |-> status, requiresPir |-> row.requiresPir, approved |-> done, over |-> row.over] \in ChangeRow
  BY <1>2 DEF ChangeRow
<1> QED BY <1>1, <1>3, <1>4

\* A row given another requirement.
LEMMA RequirementSet ==
    ASSUME NEW row \in ChangeRow, NEW b \in BOOLEAN, NEW m, m = [row EXCEPT !.requiresPir = b]
    PROVE  /\ m \in ChangeRow /\ m.status = row.status /\ m.over = row.over
           /\ m.approved = row.approved /\ m.requiresPir = b
BY DEF ChangeRow

\* A row given other planned dates.
LEMMA DatesSet ==
    ASSUME NEW row \in ChangeRow, NEW w \in SUBSET Windows, NEW m, m = [row EXCEPT !.over = w]
    PROVE  /\ m \in ChangeRow /\ m.status = row.status /\ m.over = w
           /\ m.approved = row.approved /\ m.requiresPir = row.requiresPir
BY DEF ChangeRow

\* What a commit leaves of a row that another request may have written.
LEMMA MergedChange ==
    ASSUME NEW new \in ChangeRow, NEW saw \in ChangeRow, change \in ChangeRow,
           RowSound(change), RowSound(new), saw.approved => new.approved, saw.approved => change.approved,
           NEW m, m = Saved(saw, new)
    PROVE  /\ m \in ChangeRow /\ RowSound(m)
           /\ m.status = IF new.status # saw.status THEN new.status ELSE change.status
           /\ change.approved => m.approved
           /\ saw = change => m = new
<1>1. DOMAIN change = {"status", "requiresPir", "approved", "over"}
  BY DEF ChangeRow
<1>2. m = [a \in {"status", "requiresPir", "approved", "over"} |-> IF new[a] # saw[a] THEN new[a] ELSE change[a]]
  BY <1>1 DEF Saved
<1>3. /\ m.status = IF new.status # saw.status THEN new.status ELSE change.status
      /\ m.requiresPir = IF new.requiresPir # saw.requiresPir THEN new.requiresPir ELSE change.requiresPir
      /\ m.approved = IF new.approved # saw.approved THEN new.approved ELSE change.approved
      /\ m.over = IF new.over # saw.over THEN new.over ELSE change.over
  BY <1>2
<1>4. /\ m.status \in CHANGE_STATUSES \ {"backed_out"} /\ m.requiresPir \in BOOLEAN
      /\ m.approved \in BOOLEAN /\ m.over \in SUBSET Windows
  BY <1>3 DEF ChangeRow
<1>5. m = [status |-> m.status, requiresPir |-> m.requiresPir, approved |-> m.approved, over |-> m.over]
  BY <1>2
<1>6. m \in ChangeRow
  BY <1>4, <1>5 DEF ChangeRow
<1>7. ASSUME saw = change PROVE m = new
  <2>1. m.status = new.status /\ m.requiresPir = new.requiresPir /\ m.approved = new.approved /\ m.over = new.over
    BY <1>3, <1>7
  <2> QED BY <1>6, <2>1 DEF ChangeRow
<1>8. new.approved \in BOOLEAN /\ saw.approved \in BOOLEAN /\ change.approved \in BOOLEAN
  BY DEF ChangeRow
<1>9. change.approved => m.approved
  BY <1>3, <1>8
<1>10. new.approved => m.approved
  BY <1>3, <1>8
<1>11. RowSound(m)
  BY <1>3, <1>9, <1>10 DEF RowSound
<1> QED BY <1>3, <1>6, <1>7, <1>9, <1>11

\* One more row, or one row written: what there is among them.
LEMMA SomeAppended ==
    ASSUME NEW T, NEW rows, NEW e, NEW k, rows \in Seq(T), e \in T, k = Append(rows, e)
    PROVE  \A S : Some(k, S) <=> Some(rows, S) \/ e \in S
<1>1. k \in Seq(T) /\ Len(k) = Len(rows) + 1 /\ k[Len(rows) + 1] = e /\ \A i \in 1 .. Len(rows) : k[i] = rows[i]
  OBVIOUS
<1>2. DOMAIN k = 1 .. Len(rows) + 1 /\ DOMAIN rows = 1 .. Len(rows) /\ Len(rows) \in Nat
  BY <1>1
<1>3. ASSUME NEW S PROVE Some(k, S) <=> Some(rows, S) \/ e \in S
  <2>1. \A i \in DOMAIN k : i \in DOMAIN rows \/ i = Len(rows) + 1
    BY <1>2
  <2>2. Len(rows) + 1 \in DOMAIN k /\ DOMAIN rows \subseteq DOMAIN k
    BY <1>2
  <2> QED BY <1>1, <1>2, <2>1, <2>2 DEF Some
<1> QED BY <1>3

\* The rows written are of the same kind.
LEMMA RowWritten ==
    ASSUME NEW T, NEW rows, NEW i, NEW e, NEW k, rows \in Seq(T), i \in DOMAIN rows, e \in T,
           k = [rows EXCEPT ![i] = e]
    PROVE  k \in Seq(T) /\ rows # << >> /\ DOMAIN k = DOMAIN rows /\ k[i] = e
           /\ \A j \in DOMAIN rows : j # i => k[j] = rows[j]
OBVIOUS

\* A change without its other rows.
LEMMA ChangeInitInv == ChangeInit => ChangeInv
<1> SUFFICES ASSUME ChangeInit PROVE ChangeInv
  OBVIOUS
<1>1. /\ change \in [status : SCOPE_CHANGE_TO_CHANGE_STATUS, requiresPir : BOOLEAN, approved : BOOLEAN, over : {{}}]
      /\ change.approved <=> change.status \in Approved
      /\ decided = IF change.status \in DecisionStatuses THEN change.status ELSE Undecided
      /\ inForce = {} /\ exceptions = << >> /\ implementations = << >> /\ reviews = << >>
      /\ changeJob = [t \in ChangeThreads |-> NoJob] /\ changeRaced = FALSE /\ waived = FALSE
  BY DEF ChangeInit
<1>2. change.status \in SCOPE_CHANGE_TO_CHANGE_STATUS /\ change \in ChangeRow
  BY <1>1 DEF ChangeRow, SCOPE_CHANGE_TO_CHANGE_STATUS, CHANGE_STATUSES, DecisionStatuses,
              CHANGE_REQUEST_DECISION_STATUS
<1>3. change.status \notin {"pir_pending", "implementing", "scheduled"}
  BY <1>2 DEF SCOPE_CHANGE_TO_CHANGE_STATUS
<1>4. ChangeTypeOK
  BY <1>1, <1>2 DEF ChangeTypeOK, ChangeRow
<1>5. DOMAIN changeJob = ChangeThreads /\ \A t \in ChangeThreads : changeJob[t] = NoJob
  BY <1>1
<1>6. RowSound(change)
  BY <1>1, <1>3 DEF RowSound
<1>7. StatusExplained
  BY <1>1, <1>3 DEF StatusExplained
<1>8. ReviewDemanded
  BY <1>1 DEF ReviewDemanded, Some
<1> QED BY <1>1, <1>4, <1>5, <1>6, <1>7, <1>8 DEF ChangeInv

\* A request begins: no other one runs, or they overlap from here on.
LEMMA ChangeBegins ==
    ASSUME ChangeInv, NEW t \in ChangeThreads, NEW job, BeginChange(t, job),
           job.saw = change,
           job.saw \in ChangeRow /\ RowSound(job.saw) /\ (job.saw.approved => change.approved) => ChangeChecked(job),
           job.op = "status" /\ job.to = "closed" /\ change.requiresPir => Some(reviews, {"completed"})
    PROVE  ChangeInv'
<1>1. /\ ~changeRaced /\ changeJob' = [changeJob EXCEPT ![t] = job] /\ changeJob[t] = NoJob
      /\ changeRaced' = (\E o \in ChangeThreads : changeJob[o] # NoJob)
      /\ UNCHANGED <<changeRows, waived>>
  BY DEF BeginChange, EnterRequest
<1>2. changeRaced' \in BOOLEAN /\ (~changeRaced' => \A o \in ChangeThreads : changeJob[o] = NoJob)
  BY <1>1
<1>3. /\ DOMAIN changeJob' = ChangeThreads /\ changeJob'[t] = job
      /\ \A o \in ChangeThreads : o # t => changeJob'[o] = changeJob[o]
  BY <1>1 DEF ChangeInv
<1>4. UNCHANGED <<change, decided, inForce, exceptions, implementations, reviews, waived>>
  BY <1>1 DEF changeRows
<1>5. ChangeTypeOK' /\ RowSound(change)' /\ StatusExplained' /\ ReviewDemanded'
  <2>1. ChangeTypeOK /\ RowSound(change) /\ StatusExplained /\ ReviewDemanded
    BY <1>1 DEF ChangeInv
  <2>2. ChangeTypeOK' /\ RowSound(change)'
    BY <1>4, <2>1 DEF ChangeTypeOK, RowSound
  <2>3. StatusExplained' /\ ReviewDemanded'
    BY <1>1, <1>4, <2>1 DEF StatusExplained, ReviewDemanded
  <2> QED BY <2>2, <2>3
<1>6. ChangeChecked(job) /\ ChangeCurrent(job)
  <2>1. change \in ChangeRow /\ RowSound(change)
    BY DEF ChangeInv, ChangeTypeOK, ChangeRow
  <2> QED BY <2>1 DEF ChangeCurrent
<1>7. \A o \in ChangeThreads : changeJob'[o] # NoJob => ChangeChecked(changeJob'[o])
  BY <1>3, <1>6 DEF ChangeInv
<1>8. (\A o \in ChangeThreads : changeJob[o] # NoJob => ChangeChecked(changeJob[o]))'
  BY <1>4, <1>7 DEF ChangeChecked
<1>9. ASSUME ~changeRaced'
      PROVE  \A o \in ChangeThreads : changeJob'[o] # NoJob => o = t /\ ChangeCurrent(job)
  BY <1>2, <1>3, <1>6, <1>9
<1>10. ASSUME ~changeRaced'
       PROVE  (\A o \in ChangeThreads : changeJob[o] # NoJob => ChangeCurrent(changeJob[o]))'
  BY <1>3, <1>4, <1>9, <1>10 DEF ChangeCurrent
<1> QED BY <1>2, <1>3, <1>4, <1>5, <1>8, <1>9, <1>10 DEF ChangeInv

\* What stays so of the rows, whatever is committed.
RowsKept ==
    /\ change.approved => change'.approved
    /\ DOMAIN exceptions \subseteq DOMAIN exceptions'
    /\ DOMAIN implementations \subseteq DOMAIN implementations'
    /\ reviews # << >> => reviews' # << >>

\* A request ends: none is left while none has overlapped.
LEMMA ChangeEnds ==
    ASSUME ChangeInv, NEW t \in ChangeThreads, changeJob[t] # NoJob, Finish(t),
           ChangeTypeOK', waived' \in BOOLEAN, RowSound(change'), RowsKept,
           StatusExplained', ~changeRaced => ReviewDemanded'
    PROVE  ChangeInv'
<1>1. changeJob' = [changeJob EXCEPT ![t] = NoJob] /\ changeRaced' = changeRaced
  BY DEF Finish
<1>2. /\ DOMAIN changeJob' = ChangeThreads /\ changeJob'[t] = NoJob
      /\ \A o \in ChangeThreads : o # t => changeJob'[o] = changeJob[o]
  BY <1>1 DEF ChangeInv
<1>3. \A o \in ChangeThreads : changeJob'[o] # NoJob => ChangeChecked(changeJob'[o])
  BY <1>2 DEF ChangeInv
<1>4. (\A o \in ChangeThreads : changeJob[o] # NoJob => ChangeChecked(changeJob[o]))'
  BY <1>3 DEF RowsKept, ChangeChecked
<1>5. ~changeRaced' => \A o \in ChangeThreads : changeJob'[o] = NoJob
  BY <1>1, <1>2 DEF ChangeInv
<1>6. RowSound(change)' /\ changeRaced' \in BOOLEAN
  BY <1>1 DEF RowSound, ChangeInv
<1> QED BY <1>1, <1>2, <1>4, <1>5, <1>6 DEF ChangeInv

\* What a row has to agree with after the commit, while requests do not overlap.
RowExplained(row) ==
    /\ row.status \in DecisionStatuses => row.status = decided'
    /\ row.status = "implementing" => Some(implementations', {"in_progress"})
    /\ row.status = "implemented" /\ implementations' # << >> => Some(implementations', {"completed", "validated"})
    /\ ~waived' /\ (exceptions' # << >> \/ Some(implementations', BackedOut)) => row.requiresPir

RowsTyped ==
    /\ decided \in DecisionStatuses \cup {Undecided}
    /\ inForce \subseteq Windows
    /\ exceptions \in Seq([window : Windows, status : EXCEPTION_STATUSES])
    /\ implementations \in Seq(IMPLEMENTATION_STATUSES)
    /\ reviews \in Seq(PIR_STATUSES)
    /\ waived \in BOOLEAN

\* A commit that leaves the row m and the others as they should be.
LEMMA CommitKeeps ==
    ASSUME ChangeInv, NEW t \in ChangeThreads, changeJob[t] # NoJob, Finish(t), RowsTyped',
           NEW m \in ChangeRow, change' = m, RowSound(m), change.approved => m.approved,
           DOMAIN exceptions \subseteq DOMAIN exceptions',
           DOMAIN implementations \subseteq DOMAIN implementations',
           reviews # << >> => reviews' # << >>,
           implementations' # << >> => m.approved,
           m.status = "pir_pending" => reviews' # << >>,
           ~changeRaced => RowExplained(m)
    PROVE  ChangeInv'
<1>1. ChangeTypeOK' /\ waived' \in BOOLEAN
  BY DEF RowsTyped, ChangeTypeOK, ChangeRow
<1>2. changeRaced' = changeRaced
  BY DEF Finish
<1>3. StatusExplained'
  BY <1>2 DEF StatusExplained, RowExplained
<1>4. ~changeRaced => ReviewDemanded'
  BY DEF ReviewDemanded, RowExplained
<1>5. RowsKept
  BY DEF RowsKept
<1> QED BY <1>1, <1>3, <1>4, <1>5, ChangeEnds

\* What a request that commits can rely on.
LEMMA JobFacts ==
    ASSUME ChangeInv, NEW t \in ChangeThreads, NEW job, job = changeJob[t], job.op # "none"
    PROVE  /\ changeJob[t] # NoJob /\ ChangeChecked(job)
           /\ change \in ChangeRow /\ RowSound(change) /\ RowsTyped /\ StatusExplained
           /\ ~changeRaced => ChangeCurrent(job) /\ ReviewDemanded
<1>1. NoJob.op = "none"
  BY DEF NoJob
<1> QED BY <1>1 DEF ChangeInv, ChangeTypeOK, ChangeRow, RowsTyped

\* The row after the commit of a request that saw one row and leaves another.
LEMMA MergedJob ==
    ASSUME ChangeInv, NEW t \in ChangeThreads, NEW job, job = changeJob[t], job.op # "none",
           NEW new \in ChangeRow, RowSound(new), job.saw.approved => new.approved,
           NEW m, m = Saved(job.saw, new)
    PROVE  /\ m \in ChangeRow /\ RowSound(m) /\ (change.approved => m.approved)
           /\ implementations # << >> => m.approved
           /\ m.status = "pir_pending" => (new.status = "pir_pending" /\ new.status # job.saw.status) \/ reviews # << >>
           /\ ~changeRaced => m = new /\ job.saw = change
<1>1. /\ job.saw \in ChangeRow /\ (job.saw.approved => change.approved)
      /\ change \in ChangeRow /\ RowSound(change) /\ StatusExplained
      /\ ~changeRaced => job.saw = change
  BY JobFacts DEF ChangeChecked, ChangeCurrent
<1>2. /\ m \in ChangeRow /\ RowSound(m)
      /\ m.status = IF new.status # job.saw.status THEN new.status ELSE change.status
      /\ change.approved => m.approved
      /\ job.saw = change => m = new
  BY <1>1, MergedChange
<1> QED BY <1>1, <1>2 DEF StatusExplained

\* A status is set.
LEMMA StatusKeeps ==
    ASSUME ChangeInv, NEW t \in ChangeThreads, CommitStatus(t)
    PROVE  ChangeInv'
<1>1. PICK job : job = changeJob[t]
  OBVIOUS
<1>2. job.op = "status" /\ Finish(t) /\ change' = Saved(job.saw, SetStatus(job.saw, job.to))
      /\ UNCHANGED <<decided, inForce, exceptions, implementations, reviews, waived>>
  BY <1>1 DEF CommitStatus
<1>3. /\ changeJob[t] # NoJob /\ RowsTyped /\ StatusExplained
      /\ job.saw \in ChangeRow /\ job.to \in {"submitted", "cab_pending", "closed"}
      /\ ~changeRaced => job.saw = change /\ ReviewDemanded
  BY <1>1, <1>2, JobFacts DEF ChangeChecked, ChangeCurrent
<1>4. PICK to \in CHANGE_STATUSES \ {"backed_out"} : to = job.to
  BY <1>3 DEF CHANGE_STATUSES
<1>5. PICK new \in ChangeRow : new = SetStatus(job.saw, to)
  BY <1>3, StatusSet
<1>6. /\ new.status = to /\ new.requiresPir = job.saw.requiresPir
      /\ new.approved <=> job.saw.approved \/ to \in Approved
  BY <1>3, <1>5, StatusSet
<1>7. to \notin Approved /\ to \notin DecisionStatuses /\ to \in {"submitted", "cab_pending", "closed"}
  BY <1>3, <1>4 DEF Approved, DecisionStatuses, CHANGE_REQUEST_DECISION_STATUS
<1>8. RowSound(new)
  BY <1>6, <1>7 DEF RowSound
<1>9. PICK m : m = Saved(job.saw, new)
  OBVIOUS
<1>10. /\ m \in ChangeRow /\ RowSound(m) /\ (change.approved => m.approved)
       /\ implementations # << >> => m.approved
       /\ m.status = "pir_pending" => new.status = "pir_pending" \/ reviews # << >>
       /\ ~changeRaced => m = new
  BY <1>1, <1>2, <1>6, <1>8, <1>9, MergedJob
<1>11. ~changeRaced => RowExplained(m)
  BY <1>2, <1>3, <1>6, <1>7, <1>10 DEF RowExplained, ReviewDemanded
<1>12. RowsTyped' /\ change' = m
  BY <1>2, <1>3, <1>4, <1>5, <1>9 DEF RowsTyped
<1> QED BY <1>2, <1>3, <1>6, <1>7, <1>10, <1>11, <1>12, CommitKeeps

\* An assessment sets the status and the requirement.
LEMMA AssessmentKeeps ==
    ASSUME ChangeInv, NEW t \in ChangeThreads, CommitAssessment(t)
    PROVE  ChangeInv'
<1>1. PICK job : job = changeJob[t]
  OBVIOUS
<1>2. /\ job.op = "assess" /\ Finish(t)
      /\ change' = Saved(job.saw, [SetStatus(job.saw, "assessed") EXCEPT !.requiresPir = job.requires])
      /\ waived' = (waived \/ (job.saw.requiresPir /\ ~job.requires))
      /\ UNCHANGED <<decided, inForce, exceptions, implementations, reviews>>
  BY <1>1 DEF CommitAssessment
<1>3. /\ changeJob[t] # NoJob /\ RowsTyped /\ StatusExplained
      /\ job.saw \in ChangeRow /\ job.requires \in BOOLEAN
      /\ ~changeRaced => job.saw = change /\ ReviewDemanded
  BY <1>1, <1>2, JobFacts DEF ChangeChecked, ChangeCurrent
<1>4. PICK set \in ChangeRow : set = SetStatus(job.saw, "assessed")
  BY <1>3, StatusSet DEF CHANGE_STATUSES
<1>5. PICK new \in ChangeRow : new = [set EXCEPT !.requiresPir = job.requires]
  BY <1>3, RequirementSet
<1>6. /\ set.status = "assessed" /\ (set.approved <=> job.saw.approved \/ "assessed" \in Approved)
  BY <1>3, <1>4, StatusSet DEF CHANGE_STATUSES
<1>7. new.status = "assessed" /\ new.approved = set.approved /\ new.requiresPir = job.requires
  BY <1>3, <1>5, <1>6, RequirementSet
<1>8. RowSound(new) /\ "assessed" \notin DecisionStatuses
  BY <1>7 DEF RowSound, Approved, DecisionStatuses, CHANGE_REQUEST_DECISION_STATUS
<1>9. PICK m : m = Saved(job.saw, new)
  OBVIOUS
<1>10. /\ m \in ChangeRow /\ RowSound(m) /\ (change.approved => m.approved)
       /\ implementations # << >> => m.approved
       /\ m.status = "pir_pending" => new.status = "pir_pending" \/ reviews # << >>
       /\ ~changeRaced => m = new
  BY <1>1, <1>2, <1>6, <1>7, <1>8, <1>9, MergedJob
<1>11. job.saw.requiresPir \in BOOLEAN
  BY <1>3 DEF ChangeRow
<1>12. ~changeRaced => RowExplained(m)
  BY <1>2, <1>3, <1>7, <1>8, <1>10, <1>11 DEF RowExplained, ReviewDemanded
<1>13. RowsTyped' /\ change' = m
  <2>1. waived' \in BOOLEAN
    BY <1>2
  <2> QED BY <1>2, <1>3, <1>4, <1>5, <1>9, <2>1 DEF RowsTyped
<1> QED BY <1>2, <1>3, <1>7, <1>10, <1>12, <1>13, CommitKeeps

\* A decision sets the status it stands for.
LEMMA DecisionSetsStatus ==
    ASSUME ChangeInv, NEW t \in ChangeThreads, CommitDecision(t)
    PROVE  ChangeInv'
<1>1. PICK job : job = changeJob[t]
  OBVIOUS
<1>2. /\ job.op = "decide" /\ Finish(t) /\ decided' = job.to
      /\ change' = Saved(job.saw, SetStatus(job.saw, job.to))
      /\ UNCHANGED <<inForce, exceptions, implementations, reviews, waived>>
  BY <1>1 DEF CommitDecision, DecidedRow
<1>3. /\ changeJob[t] # NoJob /\ RowsTyped /\ StatusExplained
      /\ job.saw \in ChangeRow /\ job.to \in DecisionStatuses
      /\ ~changeRaced => job.saw = change /\ ReviewDemanded
  BY <1>1, <1>2, JobFacts DEF ChangeChecked, ChangeCurrent
<1>4. PICK to \in CHANGE_STATUSES \ {"backed_out"} : to = job.to
  BY <1>3 DEF CHANGE_STATUSES, DecisionStatuses, CHANGE_REQUEST_DECISION_STATUS
<1>5. PICK new \in ChangeRow : new = SetStatus(job.saw, to)
  BY <1>3, StatusSet
<1>6. /\ new.status = to /\ new.requiresPir = job.saw.requiresPir
      /\ new.approved <=> job.saw.approved \/ to \in Approved
  BY <1>3, <1>5, StatusSet
<1>7. to \in DecisionStatuses /\ to \notin {"implementing", "implemented", "pir_pending", "scheduled"}
  BY <1>3, <1>4 DEF DecisionStatuses, CHANGE_REQUEST_DECISION_STATUS
<1>8. RowSound(new)
  BY <1>6, <1>7 DEF RowSound
<1>9. PICK m : m = Saved(job.saw, new)
  OBVIOUS
<1>10. /\ m \in ChangeRow /\ RowSound(m) /\ (change.approved => m.approved)
       /\ implementations # << >> => m.approved
       /\ m.status = "pir_pending" => new.status = "pir_pending" \/ reviews # << >>
       /\ ~changeRaced => m = new
  BY <1>1, <1>2, <1>6, <1>8, <1>9, MergedJob
<1>11. ~changeRaced => RowExplained(m)
  BY <1>2, <1>3, <1>4, <1>6, <1>7, <1>10 DEF RowExplained, ReviewDemanded
<1>12. RowsTyped' /\ change' = m
  BY <1>2, <1>3, <1>4, <1>5, <1>9 DEF RowsTyped
<1> QED BY <1>2, <1>3, <1>6, <1>7, <1>10, <1>11, <1>12, CommitKeeps

\* A schedule that the windows allow sets status and dates; another one nothing.
LEMMA ScheduleKeeps ==
    ASSUME ChangeInv, NEW t \in ChangeThreads, CommitSchedule(t)
    PROVE  ChangeInv'
<1>1. PICK job : job = changeJob[t]
  OBVIOUS
<1>2. /\ job.op = "schedule" /\ Finish(t)
      /\ \/ change' = Saved(job.saw, [SetStatus(job.saw, "scheduled") EXCEPT !.over = job.over])
         \/ change' = change
      /\ UNCHANGED <<decided, inForce, exceptions, implementations, reviews, waived>>
  BY <1>1 DEF CommitSchedule
<1>3. /\ changeJob[t] # NoJob /\ RowsTyped /\ StatusExplained /\ change \in ChangeRow /\ RowSound(change)
      /\ job.saw \in ChangeRow /\ job.over \in SUBSET Windows /\ job.saw.approved
      /\ ~changeRaced => job.saw = change /\ ReviewDemanded
  BY <1>1, <1>2, JobFacts DEF ChangeChecked, ChangeCurrent, RowSound
<1>4. RowsTyped'
  BY <1>2, <1>3 DEF RowsTyped
<1>5. CASE change' = change
  <2>1. ~changeRaced => RowExplained(change)
    BY <1>2, <1>3 DEF RowExplained, ReviewDemanded, StatusExplained
  <2>2. (implementations # << >> => change.approved) /\ (change.status = "pir_pending" => reviews # << >>)
    BY <1>3 DEF StatusExplained
  <2> QED BY <1>2, <1>3, <1>4, <1>5, <2>1, <2>2, CommitKeeps
<1>6. CASE change' = Saved(job.saw, [SetStatus(job.saw, "scheduled") EXCEPT !.over = job.over])
  <2>1. PICK set \in ChangeRow : set = SetStatus(job.saw, "scheduled")
    BY <1>3, StatusSet DEF CHANGE_STATUSES
  <2>2. PICK new \in ChangeRow : new = [set EXCEPT !.over = job.over]
    BY <1>3, DatesSet
  <2>3. set.status = "scheduled" /\ set.approved /\ set.requiresPir = job.saw.requiresPir
    BY <1>3, <2>1, StatusSet DEF CHANGE_STATUSES
  <2>4. new.status = "scheduled" /\ new.approved = set.approved /\ new.requiresPir = job.saw.requiresPir
    BY <1>3, <2>2, <2>3, DatesSet
  <2>5. RowSound(new) /\ "scheduled" \notin DecisionStatuses /\ new.approved
    BY <2>3, <2>4 DEF RowSound, DecisionStatuses, CHANGE_REQUEST_DECISION_STATUS
  <2>6. PICK m : m = Saved(job.saw, new)
    OBVIOUS
  <2>7. /\ m \in ChangeRow /\ RowSound(m) /\ (change.approved => m.approved)
        /\ implementations # << >> => m.approved
        /\ m.status = "pir_pending" => new.status = "pir_pending" \/ reviews # << >>
        /\ ~changeRaced => m = new
    BY <1>1, <1>2, <2>5, <2>6, MergedJob
  <2>8. ~changeRaced => RowExplained(m)
    BY <1>2, <1>3, <2>4, <2>5, <2>7 DEF RowExplained, ReviewDemanded
  <2>9. change' = m
    BY <1>6, <2>1, <2>2, <2>6
  <2> QED BY <1>2, <1>3, <1>4, <2>4, <2>7, <2>8, <2>9, CommitKeeps
<1> QED BY <1>2, <1>5, <1>6

\* A change that stays as it is while its other rows change.
LEMMA OtherRowsKeep ==
    ASSUME ChangeInv, NEW t \in ChangeThreads, changeJob[t] # NoJob, Finish(t), RowsTyped', change' = change,
           UNCHANGED <<decided, reviews, waived>>,
           DOMAIN exceptions \subseteq DOMAIN exceptions',
           DOMAIN implementations \subseteq DOMAIN implementations',
           implementations' # << >> => change.approved,
           ~changeRaced =>
               /\ Some(implementations, {"in_progress"}) => Some(implementations', {"in_progress"})
               /\ change.status = "implemented" /\ implementations' # << >>
                      => Some(implementations', {"completed", "validated"})
               /\ exceptions' # << >> => exceptions # << >>
               /\ Some(implementations', BackedOut) => Some(implementations, BackedOut)
    PROVE  ChangeInv'
<1>1. StatusExplained /\ change \in ChangeRow /\ RowSound(change) /\ (~changeRaced => ReviewDemanded)
  BY DEF ChangeInv, ChangeTypeOK, ChangeRow
<1>2. ~changeRaced => RowExplained(change)
  BY <1>1 DEF RowExplained, ReviewDemanded, StatusExplained
<1>3. change.status = "pir_pending" => reviews' # << >>
  BY <1>1 DEF StatusExplained
<1> QED BY <1>1, <1>2, <1>3, CommitKeeps

\* An exception is asked for, and with it a review.
LEMMA ExceptionKeeps ==
    ASSUME ChangeInv, NEW t \in ChangeThreads, CommitException(t)
    PROVE  ChangeInv'
<1>1. PICK job : job = changeJob[t]
  OBVIOUS
<1>2. /\ job.op = "except" /\ Finish(t)
      /\ change' = Saved(job.saw, [job.saw EXCEPT !.requiresPir = TRUE])
      /\ exceptions' = Append(exceptions, [window |-> job.window, status |-> "pending"])
      /\ UNCHANGED <<decided, inForce, implementations, reviews, waived>>
  BY <1>1 DEF CommitException
<1>3. /\ changeJob[t] # NoJob /\ RowsTyped /\ StatusExplained
      /\ job.saw \in ChangeRow /\ RowSound(job.saw) /\ job.window \in Windows
      /\ ~changeRaced => job.saw = change /\ ReviewDemanded
  BY <1>1, <1>2, JobFacts DEF ChangeChecked, ChangeCurrent
<1>4. PICK new \in ChangeRow : new = [job.saw EXCEPT !.requiresPir = TRUE]
  BY <1>3, RequirementSet
<1>5. new.status = job.saw.status /\ new.approved = job.saw.approved /\ new.requiresPir
  BY <1>3, <1>4, RequirementSet
<1>6. RowSound(new)
  BY <1>3, <1>5 DEF RowSound
<1>7. PICK m : m = Saved(job.saw, new)
  OBVIOUS
<1>8. /\ m \in ChangeRow /\ RowSound(m) /\ (change.approved => m.approved)
      /\ implementations # << >> => m.approved
      /\ m.status = "pir_pending" => reviews # << >>
      /\ ~changeRaced => m = new
  BY <1>1, <1>2, <1>5, <1>6, <1>7, MergedJob
<1>9. ~changeRaced => RowExplained(m)
  BY <1>2, <1>3, <1>5, <1>8 DEF RowExplained, StatusExplained
<1>10. PICK e \in [window : Windows, status : EXCEPTION_STATUSES] : e = [window |-> job.window, status |-> "pending"]
  BY <1>3 DEF EXCEPTION_STATUSES
<1>11. exceptions' \in Seq([window : Windows, status : EXCEPTION_STATUSES]) /\ DOMAIN exceptions \subseteq DOMAIN exceptions'
  <2>1. PICK T : T = [window : Windows, status : EXCEPTION_STATUSES]
    OBVIOUS
  <2>2. exceptions \in Seq(T) /\ e \in T /\ exceptions' = Append(exceptions, e)
    BY <1>2, <1>3, <1>10, <2>1 DEF RowsTyped
  <2>3. exceptions' \in Seq(T) /\ DOMAIN exceptions \subseteq DOMAIN exceptions'
    BY <2>2
  <2> QED BY <2>1, <2>3
<1>12. RowsTyped' /\ change' = m
  BY <1>2, <1>3, <1>4, <1>7, <1>11 DEF RowsTyped
<1> QED BY <1>2, <1>3, <1>5, <1>8, <1>9, <1>11, <1>12, CommitKeeps

\* An exception is decided.
LEMMA RulingKeeps ==
    ASSUME ChangeInv, NEW t \in ChangeThreads, CommitRuling(t)
    PROVE  ChangeInv'
<1>1. PICK job : job = changeJob[t]
  OBVIOUS
<1>2. /\ job.op = "rule" /\ Finish(t)
      /\ exceptions' = [exceptions EXCEPT ![job.row].status = job.to]
      /\ UNCHANGED <<change, decided, inForce, implementations, reviews, waived>>
  BY <1>1 DEF CommitRuling
<1>3. /\ changeJob[t] # NoJob /\ RowsTyped /\ StatusExplained
      /\ job.row \in DOMAIN exceptions /\ job.to \in EXCEPTION_STATUSES
  BY <1>1, <1>2, JobFacts DEF ChangeChecked, EXCEPTION_STATUSES
<1>4. PICK rows : rows = [window : Windows, status : EXCEPTION_STATUSES]
  OBVIOUS
<1>5. exceptions \in Seq(rows) /\ exceptions[job.row] \in rows
  <2>1. exceptions \in Seq(rows)
    BY <1>3, <1>4 DEF RowsTyped
  <2>2. \A f \in Seq(rows) : \A i \in DOMAIN f : f[i] \in rows
    OBVIOUS
  <2> QED BY <1>3, <2>1, <2>2
<1>6. PICK old \in rows : old = exceptions[job.row]
  BY <1>5
<1>7. PICK e \in rows : e = [old EXCEPT !.status = job.to]
  BY <1>3, <1>4
<1>8. exceptions' = [exceptions EXCEPT ![job.row] = e]
  BY <1>2, <1>6, <1>7
<1>9. exceptions' \in Seq(rows) /\ exceptions # << >> /\ DOMAIN exceptions = DOMAIN exceptions'
  BY <1>3, <1>5, <1>8, RowWritten
<1>10. RowsTyped'
  BY <1>2, <1>3, <1>4, <1>9 DEF RowsTyped
<1>11. ~changeRaced /\ change.status = "implemented" /\ implementations # << >>
           => Some(implementations, {"completed", "validated"})
  BY <1>3 DEF StatusExplained
<1>12. implementations # << >> => change.approved
  BY <1>3 DEF StatusExplained
<1> QED BY <1>2, <1>3, <1>9, <1>10, <1>11, <1>12, OtherRowsKeep

\* An implementation is planned.
LEMMA ImplementationKeeps ==
    ASSUME ChangeInv, NEW t \in ChangeThreads, CommitImplementation(t)
    PROVE  ChangeInv'
<1>1. PICK job : job = changeJob[t]
  OBVIOUS
<1>2. /\ job.op = "plan" /\ Finish(t)
      /\ implementations' = Append(implementations, "planned")
      /\ UNCHANGED <<change, decided, inForce, exceptions, reviews, waived>>
  BY <1>1 DEF CommitImplementation
<1>3. /\ changeJob[t] # NoJob /\ RowsTyped
      /\ job.saw.status \in Approved \cup {"scheduled"} /\ change.approved
      /\ ~changeRaced => job.saw = change
  BY <1>1, <1>2, JobFacts DEF ChangeChecked, ChangeCurrent, RowSound
<1>4. "planned" \in IMPLEMENTATION_STATUSES /\ "planned" \notin BackedOut
  BY DEF IMPLEMENTATION_STATUSES, BackedOut
<1>5. /\ implementations' \in Seq(IMPLEMENTATION_STATUSES) /\ DOMAIN implementations \subseteq DOMAIN implementations'
      /\ \A S : Some(implementations', S) <=> Some(implementations, S) \/ "planned" \in S
  <2>1. PICK T : T = IMPLEMENTATION_STATUSES
    OBVIOUS
  <2>2. implementations \in Seq(T) /\ "planned" \in T
    BY <1>3, <1>4, <2>1 DEF RowsTyped
  <2>3. PICK k : k = implementations'
    OBVIOUS
  <2>4. k = Append(implementations, "planned")
    BY <1>2, <2>3
  <2>5. k \in Seq(T) /\ DOMAIN implementations \subseteq DOMAIN k
    BY <2>2, <2>4
  <2>6. \A S : Some(k, S) <=> Some(implementations, S) \/ "planned" \in S
    <3>1. PICK e : e = "planned"
      OBVIOUS
    <3>2. implementations \in Seq(T) /\ e \in T /\ k = Append(implementations, e)
      BY <2>2, <2>4, <3>1
    <3>3. \A S : Some(k, S) <=> Some(implementations, S) \/ e \in S
      BY <3>2, SomeAppended, Zenon
    <3> QED BY <3>1, <3>3
  <2> QED BY <2>1, <2>3, <2>5, <2>6
<1>6. RowsTyped'
  BY <1>2, <1>3, <1>5 DEF RowsTyped
<1>7. ~changeRaced => change.status # "implemented"
  BY <1>3 DEF Approved
<1>8. /\ Some(implementations, {"in_progress"}) => Some(implementations', {"in_progress"})
      /\ Some(implementations', BackedOut) => Some(implementations, BackedOut)
  BY <1>4, <1>5
<1> QED BY <1>2, <1>3, <1>5, <1>6, <1>7, <1>8, OtherRowsKeep

\* An implementation starts, or ends well.
LEMMA RunKeeps ==
    ASSUME ChangeInv, NEW t \in ChangeThreads, CommitRun(t)
    PROVE  ChangeInv'
<1>1. PICK job : job = changeJob[t]
  OBVIOUS
<1>2. PICK status : status = IF job.to = "in_progress" THEN "implementing" ELSE "implemented"
  OBVIOUS
<1>3. /\ job.op = "run" /\ Finish(t)
      /\ implementations' = [implementations EXCEPT ![job.row] = job.to]
      /\ change' = Saved(job.saw, SetStatus(job.saw, status))
      /\ UNCHANGED <<decided, inForce, exceptions, reviews, waived>>
  BY <1>1, <1>2 DEF CommitRun
<1>4. /\ changeJob[t] # NoJob /\ RowsTyped /\ StatusExplained
      /\ job.saw \in ChangeRow /\ job.row \in DOMAIN implementations
      /\ job.to \in {"in_progress", "completed", "validated"}
      /\ ~changeRaced => job.saw = change /\ ReviewDemanded
  BY <1>1, <1>3, JobFacts DEF ChangeChecked, ChangeCurrent
<1>5. PICK to \in IMPLEMENTATION_STATUSES : to = job.to
  BY <1>4 DEF IMPLEMENTATION_STATUSES
<1>6. /\ implementations' \in Seq(IMPLEMENTATION_STATUSES) /\ implementations # << >>
      /\ DOMAIN implementations = DOMAIN implementations'
      /\ \A S : to \in S => Some(implementations', S)
      /\ \A S : Some(implementations', S) => Some(implementations, S) \/ to \in S
  <2>1. PICK T : T = IMPLEMENTATION_STATUSES
    OBVIOUS
  <2>2. implementations \in Seq(T) /\ to \in T /\ implementations' = [implementations EXCEPT ![job.row] = to]
    BY <1>3, <1>4, <1>5, <2>1 DEF RowsTyped
  <2>3. PICK k : k = implementations'
    OBVIOUS
  <2>4. k = [implementations EXCEPT ![job.row] = to]
    BY <2>2, <2>3
  <2>5. /\ k \in Seq(T) /\ implementations # << >> /\ DOMAIN implementations = DOMAIN k /\ k[job.row] = to
        /\ \A j \in DOMAIN implementations : j # job.row => k[j] = implementations[j]
    BY <1>4, <2>2, <2>4, RowWritten
  <2>6. \A S : to \in S => Some(k, S)
    BY <1>4, <2>5 DEF Some
  <2>7. \A S : Some(k, S) => Some(implementations, S) \/ to \in S
    BY <2>5 DEF Some
  <2> QED BY <2>1, <2>3, <2>5, <2>6, <2>7
<1>7. /\ status \in CHANGE_STATUSES \ {"backed_out"} /\ status \notin Approved \cup DecisionStatuses
      /\ status \in {"implementing", "implemented"} /\ to \notin BackedOut
      /\ status = "implementing" => to = "in_progress"
      /\ status = "implemented" => to \in {"completed", "validated"}
  BY <1>2, <1>4, <1>5 DEF CHANGE_STATUSES, Approved, DecisionStatuses, CHANGE_REQUEST_DECISION_STATUS, BackedOut
<1>8. PICK new \in ChangeRow : new = SetStatus(job.saw, status)
  BY <1>4, <1>7, StatusSet
<1>9. /\ new.status = status /\ new.requiresPir = job.saw.requiresPir
      /\ new.approved <=> job.saw.approved \/ status \in Approved
  BY <1>4, <1>7, <1>8, StatusSet
<1>10. RowSound(new)
  BY <1>7, <1>9 DEF RowSound
<1>11. PICK m : m = Saved(job.saw, new)
  OBVIOUS
<1>12. /\ m \in ChangeRow /\ RowSound(m) /\ (change.approved => m.approved)
       /\ implementations # << >> => m.approved
       /\ m.status = "pir_pending" => new.status = "pir_pending" \/ reviews # << >>
       /\ ~changeRaced => m = new
  BY <1>1, <1>3, <1>9, <1>10, <1>11, MergedJob
<1>13. /\ status = "implementing" => Some(implementations', {"in_progress"})
       /\ status = "implemented" => Some(implementations', {"completed", "validated"})
       /\ Some(implementations', BackedOut) => Some(implementations, BackedOut)
  BY <1>6, <1>7
<1>14. ~changeRaced => RowExplained(m)
  BY <1>3, <1>4, <1>7, <1>9, <1>12, <1>13 DEF RowExplained, ReviewDemanded
<1>15. RowsTyped' /\ change' = m
  BY <1>3, <1>4, <1>6, <1>8, <1>11 DEF RowsTyped
<1> QED BY <1>3, <1>4, <1>6, <1>7, <1>9, <1>12, <1>14, <1>15, CommitKeeps

\* A review is there once it was looked for.
LEMMA ReviewEnsured ==
    ASSUME reviews \in Seq(PIR_STATUSES)
    PROVE  _ensure_pir_record \in Seq(PIR_STATUSES) /\ _ensure_pir_record # << >>
<1>1. "pending" \in PIR_STATUSES
  BY DEF PIR_STATUSES
<1>2. OpenReviews # {} => reviews # << >>
  BY DEF OpenReviews
<1>3. Append(reviews, "pending") \in Seq(PIR_STATUSES) /\ Append(reviews, "pending") # << >>
  BY <1>1
<1> QED BY <1>2, <1>3 DEF _ensure_pir_record

\* A change is backed out: it needs a review and has one.
LEMMA BackOutKeeps ==
    ASSUME ChangeInv, NEW t \in ChangeThreads, CommitBackOut(t)
    PROVE  ChangeInv'
<1>1. PICK job : job = changeJob[t]
  OBVIOUS
<1>2. /\ job.op = "back_out" /\ Finish(t)
      /\ implementations' = [implementations EXCEPT ![job.row] = job.to]
      /\ change' = BackOut(job.saw)
      /\ reviews' = _ensure_pir_record
      /\ UNCHANGED <<decided, inForce, exceptions, waived>>
  BY <1>1 DEF CommitBackOut
<1>3. /\ changeJob[t] # NoJob /\ RowsTyped /\ StatusExplained
      /\ job.saw \in ChangeRow /\ RowSound(job.saw)
      /\ job.row \in DOMAIN implementations /\ job.to \in IMPLEMENTATION_STATUSES
      /\ ~changeRaced => job.saw = change
  BY <1>1, <1>2, JobFacts DEF ChangeChecked, ChangeCurrent, BackedOut, IMPLEMENTATION_STATUSES
<1>4. PICK T : T = IMPLEMENTATION_STATUSES
  OBVIOUS
<1>5. implementations \in Seq(T) /\ job.to \in T
  BY <1>3, <1>4 DEF RowsTyped
<1>6. /\ implementations' \in Seq(T) /\ implementations # << >>
      /\ DOMAIN implementations' = DOMAIN implementations
  BY <1>2, <1>3, <1>5, RowWritten
<1>7. PICK new \in ChangeRow : new = [job.saw EXCEPT !.requiresPir = TRUE]
  BY <1>3, RequirementSet
<1>8. new.status = job.saw.status /\ new.approved = job.saw.approved /\ new.requiresPir
  BY <1>3, <1>7, RequirementSet
<1>9. RowSound(new)
  BY <1>3, <1>8 DEF RowSound
<1>10. PICK n : n = Saved(job.saw, new)
  OBVIOUS
<1>11. /\ n \in ChangeRow /\ (change.approved => n.approved)
       /\ implementations # << >> => n.approved
       /\ ~changeRaced => n = new
  BY <1>1, <1>2, <1>8, <1>9, <1>10, MergedJob
<1>12. PICK m : m = [n EXCEPT !.status = "pir_pending"]
  OBVIOUS
<1>13. m \in ChangeRow /\ m.status = "pir_pending" /\ m.approved = n.approved /\ m.requiresPir = n.requiresPir
  BY <1>11, <1>12 DEF ChangeRow, CHANGE_STATUSES
<1>14. change' = m
  BY <1>2, <1>7, <1>10, <1>12 DEF BackOut
<1>15. RowSound(m) /\ "pir_pending" \notin DecisionStatuses
  BY <1>13 DEF RowSound, Approved, DecisionStatuses, CHANGE_REQUEST_DECISION_STATUS
<1>16. ~changeRaced => RowExplained(m)
  BY <1>8, <1>11, <1>13, <1>15 DEF RowExplained
<1>17. reviews' \in Seq(PIR_STATUSES) /\ reviews' # << >>
  BY <1>2, <1>3, ReviewEnsured DEF RowsTyped
<1>18. RowsTyped'
  BY <1>2, <1>3, <1>4, <1>6, <1>17 DEF RowsTyped
<1> QED BY <1>2, <1>3, <1>6, <1>11, <1>13, <1>14, <1>15, <1>16, <1>17, <1>18, CommitKeeps

\* A validation, which may find that a review is needed.
LEMMA ValidationKeeps ==
    ASSUME ChangeInv, NEW t \in ChangeThreads, CommitValidation(t)
    PROVE  ChangeInv'
<1>1. PICK job : job = changeJob[t]
  OBVIOUS
<1>2. PICK requires : requires = (job.saw.requiresPir \/ Covered # {})
  OBVIOUS
<1>3. PICK status : status = IF requires THEN "pir_pending" ELSE "validated"
  OBVIOUS
<1>4. /\ job.op = "validate" /\ Finish(t)
      /\ change' = Saved(job.saw, [SetStatus(job.saw, status) EXCEPT !.requiresPir = requires])
      /\ reviews' = IF requires THEN _ensure_pir_record ELSE reviews
      /\ UNCHANGED <<decided, inForce, exceptions, implementations, waived>>
  BY <1>1, <1>2, <1>3 DEF CommitValidation
<1>5. /\ changeJob[t] # NoJob /\ RowsTyped /\ StatusExplained
      /\ job.saw \in ChangeRow /\ job.saw.requiresPir \in BOOLEAN
      /\ ~changeRaced => job.saw = change /\ ReviewDemanded
  BY <1>1, <1>4, JobFacts DEF ChangeChecked, ChangeCurrent, ChangeRow
<1>6. requires \in BOOLEAN /\ (job.saw.requiresPir => requires)
  BY <1>2, <1>5
<1>7. /\ status \in CHANGE_STATUSES \ {"backed_out"} /\ status \notin Approved \cup DecisionStatuses
      /\ status \notin {"implementing", "implemented", "scheduled"}
      /\ status = "pir_pending" => requires
  BY <1>3 DEF CHANGE_STATUSES, Approved, DecisionStatuses, CHANGE_REQUEST_DECISION_STATUS
<1>8. PICK set \in ChangeRow : set = SetStatus(job.saw, status)
  BY <1>5, <1>7, StatusSet
<1>9. set.status = status /\ (set.approved <=> job.saw.approved \/ status \in Approved)
  BY <1>5, <1>7, <1>8, StatusSet
<1>10. PICK new \in ChangeRow : new = [set EXCEPT !.requiresPir = requires]
  BY <1>6, RequirementSet
<1>11. new.status = status /\ new.approved = set.approved /\ new.requiresPir = requires
  BY <1>6, <1>9, <1>10, RequirementSet
<1>12. RowSound(new)
  BY <1>7, <1>11 DEF RowSound
<1>13. PICK m : m = Saved(job.saw, new)
  OBVIOUS
<1>14. /\ m \in ChangeRow /\ RowSound(m) /\ (change.approved => m.approved)
       /\ implementations # << >> => m.approved
       /\ m.status = "pir_pending" => new.status = "pir_pending" \/ reviews # << >>
       /\ ~changeRaced => m = new
  BY <1>1, <1>4, <1>9, <1>11, <1>12, <1>13, MergedJob
<1>15. ~changeRaced => RowExplained(m)
  BY <1>4, <1>5, <1>6, <1>7, <1>11, <1>14 DEF RowExplained, ReviewDemanded
<1>16. reviews' \in Seq(PIR_STATUSES) /\ (requires \/ reviews # << >> => reviews' # << >>)
  BY <1>4, <1>5, ReviewEnsured DEF RowsTyped
<1>17. RowsTyped' /\ change' = m
  BY <1>4, <1>5, <1>8, <1>10, <1>13, <1>16 DEF RowsTyped
<1>18. m.status = "pir_pending" => reviews' # << >>
  BY <1>7, <1>11, <1>14, <1>16
<1> QED BY <1>4, <1>5, <1>14, <1>15, <1>16, <1>17, <1>18, CommitKeeps

\* A review is opened, or was there.
LEMMA PirKeeps ==
    ASSUME ChangeInv, NEW t \in ChangeThreads, CommitPir(t)
    PROVE  ChangeInv'
<1>1. PICK job : job = changeJob[t]
  OBVIOUS
<1>2. PICK status : status = IF job.saw.status = "closed" THEN "closed" ELSE "pir_pending"
  OBVIOUS
<1>3. /\ job.op = "review" /\ Finish(t)
      /\ reviews' = IF job.insert THEN Append(reviews, "pending") ELSE reviews
      /\ change' = Saved(job.saw, SetStatus(job.saw, status))
      /\ UNCHANGED <<decided, inForce, exceptions, implementations, waived>>
  BY <1>1, <1>2 DEF CommitPir
<1>4. /\ changeJob[t] # NoJob /\ RowsTyped /\ StatusExplained
      /\ job.saw \in ChangeRow /\ job.insert \in BOOLEAN /\ (job.insert \/ reviews # << >>)
      /\ ~changeRaced => job.saw = change /\ ReviewDemanded
  BY <1>1, <1>3, JobFacts DEF ChangeChecked, ChangeCurrent
<1>5. /\ status \in CHANGE_STATUSES \ {"backed_out"} /\ status \notin Approved \cup DecisionStatuses
      /\ status \notin {"implementing", "implemented", "scheduled"}
  BY <1>2 DEF CHANGE_STATUSES, Approved, DecisionStatuses, CHANGE_REQUEST_DECISION_STATUS
<1>6. PICK new \in ChangeRow : new = SetStatus(job.saw, status)
  BY <1>4, <1>5, StatusSet
<1>7. /\ new.status = status /\ new.requiresPir = job.saw.requiresPir
      /\ new.approved <=> job.saw.approved \/ status \in Approved
  BY <1>4, <1>5, <1>6, StatusSet
<1>8. RowSound(new)
  BY <1>5, <1>7 DEF RowSound
<1>9. PICK m : m = Saved(job.saw, new)
  OBVIOUS
<1>10. /\ m \in ChangeRow /\ RowSound(m) /\ (change.approved => m.approved)
       /\ implementations # << >> => m.approved
       /\ ~changeRaced => m = new
  BY <1>1, <1>3, <1>7, <1>8, <1>9, MergedJob
<1>11. ~changeRaced => RowExplained(m)
  BY <1>3, <1>4, <1>5, <1>7, <1>10 DEF RowExplained, ReviewDemanded
<1>12. reviews' \in Seq(PIR_STATUSES) /\ reviews' # << >>
  <2>1. reviews \in Seq(PIR_STATUSES) /\ "pending" \in PIR_STATUSES
    BY <1>4 DEF RowsTyped, PIR_STATUSES
  <2>2. Append(reviews, "pending") \in Seq(PIR_STATUSES) /\ Append(reviews, "pending") # << >>
    BY <2>1
  <2> QED BY <1>3, <1>4, <2>1, <2>2
<1>13. RowsTyped' /\ change' = m
  BY <1>3, <1>4, <1>6, <1>9, <1>12 DEF RowsTyped
<1> QED BY <1>3, <1>4, <1>10, <1>11, <1>12, <1>13, CommitKeeps

\* A request that writes what it is given, whatever the others do.
LEMMA ChangeAtOnce ==
    ASSUME ChangeInv, AtOnce, RowsTyped', change' \in ChangeRow, RowSound(change'), RowsKept,
           change'.status = change.status, decided' = decided, implementations' = implementations,
           reviews # << >> => reviews' # << >>,
           ReviewDemanded => ReviewDemanded'
    PROVE  ChangeInv'
<1>1. /\ ~changeRaced /\ changeJob' = changeJob
      /\ changeRaced' = (\E t \in ChangeThreads : changeJob[t] # NoJob)
  BY DEF AtOnce, EnterRequest
<1>2. changeRaced' \in BOOLEAN /\ (~changeRaced' => \A t \in ChangeThreads : changeJob'[t] = NoJob)
  BY <1>1
<1>3. StatusExplained /\ ReviewDemanded /\ waived' \in BOOLEAN
  BY <1>1 DEF ChangeInv, RowsTyped
<1>4. StatusExplained'
  BY <1>1, <1>3 DEF StatusExplained, RowsKept
<1>5. ChangeTypeOK' /\ RowSound(change)'
  BY DEF RowsTyped, ChangeTypeOK, ChangeRow, RowSound
<1>6. (\A t \in ChangeThreads : changeJob[t] # NoJob => ChangeChecked(changeJob[t]))'
  BY <1>1 DEF ChangeInv, RowsKept, ChangeChecked
<1> QED BY <1>1, <1>2, <1>3, <1>4, <1>5, <1>6 DEF ChangeInv

\* A request that sets a status begins; one that closes has seen its review.
LEMMA StatusBegins ==
    ASSUME ChangeInv, NEW t \in ChangeThreads,
           SubmitChange(t) \/ RouteChange(t) \/ CloseChange(t)
    PROVE  ChangeInv'
<1>1. PICK to \in {"submitted", "cab_pending", "closed"} :
          /\ BeginChange(t, [op |-> "status", to |-> to, saw |-> change])
          /\ to = "closed" /\ change.requiresPir => Some(reviews, {"completed"})
  <2>1. CASE SubmitChange(t)
    BY <2>1 DEF SubmitChange, BeginStatus
  <2>2. CASE RouteChange(t)
    BY <2>2 DEF RouteChange, BeginStatus
  <2>3. CASE CloseChange(t)
    BY <2>3 DEF CloseChange, BeginStatus, Some
  <2> QED BY <2>1, <2>2, <2>3
<1>2. PICK job : job = [op |-> "status", to |-> to, saw |-> change]
  OBVIOUS
<1>3. BeginChange(t, job) /\ job.saw = change /\ job.op = "status" /\ job.to = to
  BY <1>1, <1>2
<1>4. job.saw \in ChangeRow /\ RowSound(job.saw) /\ (job.saw.approved => change.approved) => ChangeChecked(job)
  BY <1>3 DEF ChangeChecked
<1> QED BY <1>1, <1>3, <1>4, ChangeBegins

\* A validation begins.
LEMMA ValidationBegins ==
    ASSUME ChangeInv, NEW t \in ChangeThreads, ValidateChange(t)
    PROVE  ChangeInv'
<1>1. PICK job : job = [op |-> "validate", saw |-> change]
  OBVIOUS
<1>2. BeginChange(t, job) /\ job.saw = change
  BY <1>1 DEF ValidateChange
<1>3. job.op = "validate"
  BY <1>1
<1>4. job.saw \in ChangeRow /\ RowSound(job.saw) /\ (job.saw.approved => change.approved) => ChangeChecked(job)
  BY <1>2, <1>3 DEF ChangeChecked
<1>5. job.op = "status" /\ job.to = "closed" /\ change.requiresPir => Some(reviews, {"completed"})
  BY <1>3
<1> QED BY <1>2, <1>4, <1>5, ChangeBegins

\* An assessment begins.
LEMMA AssessmentBegins ==
    ASSUME ChangeInv, NEW t \in ChangeThreads, NEW requires \in BOOLEAN, AssessChange(t, requires)
    PROVE  ChangeInv'
<1>1. PICK job : job = [op |-> "assess", requires |-> requires, saw |-> change]
  OBVIOUS
<1>2. BeginChange(t, job) /\ job.saw = change
  BY <1>1 DEF AssessChange
<1>3. job.op = "assess" /\ job.requires \in BOOLEAN
  BY <1>1
<1>4. job.saw \in ChangeRow /\ RowSound(job.saw) /\ (job.saw.approved => change.approved) => ChangeChecked(job)
  BY <1>2, <1>3 DEF ChangeChecked
<1>5. job.op = "status" /\ job.to = "closed" /\ change.requiresPir => Some(reviews, {"completed"})
  BY <1>3
<1> QED BY <1>2, <1>4, <1>5, ChangeBegins

\* A decision begins.
LEMMA DecisionBegins ==
    ASSUME ChangeInv, NEW t \in ChangeThreads, NEW d \in DOMAIN CHANGE_REQUEST_DECISION_STATUS, CreateDecision(t, d)
    PROVE  ChangeInv'
<1>1. PICK job : job = [op |-> "decide", to |-> CHANGE_REQUEST_DECISION_STATUS[d], saw |-> change]
  OBVIOUS
<1>2. BeginChange(t, job) /\ job.saw = change
  BY <1>1 DEF CreateDecision
<1>3. job.op = "decide" /\ job.to \in DecisionStatuses
  BY <1>1 DEF DecisionStatuses
<1>4. job.saw \in ChangeRow /\ RowSound(job.saw) /\ (job.saw.approved => change.approved) => ChangeChecked(job)
  BY <1>2, <1>3 DEF ChangeChecked
<1>5. job.op = "status" /\ job.to = "closed" /\ change.requiresPir => Some(reviews, {"completed"})
  BY <1>3
<1> QED BY <1>2, <1>4, <1>5, ChangeBegins

\* A schedule begins, over an approval.
LEMMA ScheduleBegins ==
    ASSUME ChangeInv, NEW t \in ChangeThreads, NEW over \in SUBSET Windows, ScheduleChange(t, over)
    PROVE  ChangeInv'
<1>1. PICK job : job = [op |-> "schedule", over |-> over, saw |-> change]
  OBVIOUS
<1>2. BeginChange(t, job) /\ job.saw = change
  BY <1>1 DEF ScheduleChange
<1>3. job.op = "schedule" /\ job.over \subseteq Windows /\ job.saw.status \in Approved
  BY <1>1 DEF ScheduleChange
<1>4. job.saw \in ChangeRow /\ RowSound(job.saw) /\ (job.saw.approved => change.approved) => ChangeChecked(job)
  BY <1>2, <1>3 DEF ChangeChecked
<1>5. job.op = "status" /\ job.to = "closed" /\ change.requiresPir => Some(reviews, {"completed"})
  BY <1>3
<1> QED BY <1>2, <1>4, <1>5, ChangeBegins

\* An exception is asked for.
LEMMA ExceptionBegins ==
    ASSUME ChangeInv, NEW t \in ChangeThreads, NEW w \in Windows, CreateFreezeException(t, w)
    PROVE  ChangeInv'
<1>1. PICK job : job = [op |-> "except", window |-> w, saw |-> change]
  OBVIOUS
<1>2. BeginChange(t, job) /\ job.saw = change
  BY <1>1 DEF CreateFreezeException
<1>3. job.op = "except" /\ job.window \in Windows
  BY <1>1
<1>4. job.saw \in ChangeRow /\ RowSound(job.saw) /\ (job.saw.approved => change.approved) => ChangeChecked(job)
  BY <1>2, <1>3 DEF ChangeChecked
<1>5. job.op = "status" /\ job.to = "closed" /\ change.requiresPir => Some(reviews, {"completed"})
  BY <1>3
<1> QED BY <1>2, <1>4, <1>5, ChangeBegins

\* A ruling on an exception begins.
LEMMA RulingBegins ==
    ASSUME ChangeInv, NEW t \in ChangeThreads, NEW i \in DOMAIN exceptions, NEW v \in {"approved", "rejected"}, DecideFreezeException(t, i, v)
    PROVE  ChangeInv'
<1>1. PICK job : job = [op |-> "rule", row |-> i, to |-> v, saw |-> change]
  OBVIOUS
<1>2. BeginChange(t, job) /\ job.saw = change
  BY <1>1 DEF DecideFreezeException
<1>3. job.op = "rule" /\ job.row \in DOMAIN exceptions /\ job.to \in {"approved", "rejected"}
  BY <1>1
<1>4. job.saw \in ChangeRow /\ RowSound(job.saw) /\ (job.saw.approved => change.approved) => ChangeChecked(job)
  BY <1>2, <1>3 DEF ChangeChecked
<1>5. job.op = "status" /\ job.to = "closed" /\ change.requiresPir => Some(reviews, {"completed"})
  BY <1>3
<1> QED BY <1>2, <1>4, <1>5, ChangeBegins

\* An implementation is planned for what was approved.
LEMMA ImplementationBegins ==
    ASSUME ChangeInv, NEW t \in ChangeThreads, CreateImplementation(t)
    PROVE  ChangeInv'
<1>1. PICK job : job = [op |-> "plan", saw |-> change]
  OBVIOUS
<1>2. BeginChange(t, job) /\ job.saw = change
  BY <1>1 DEF CreateImplementation
<1>3. job.op = "plan" /\ job.saw.status \in Approved \cup {"scheduled"}
  BY <1>1 DEF CreateImplementation
<1>4. job.saw \in ChangeRow /\ RowSound(job.saw) /\ (job.saw.approved => change.approved) => ChangeChecked(job)
  BY <1>2, <1>3 DEF ChangeChecked
<1>5. job.op = "status" /\ job.to = "closed" /\ change.requiresPir => Some(reviews, {"completed"})
  BY <1>3
<1> QED BY <1>2, <1>4, <1>5, ChangeBegins

\* An implementation starts.
LEMMA RunBegins ==
    ASSUME ChangeInv, NEW t \in ChangeThreads, NEW i \in DOMAIN implementations, StartImplementation(t, i)
    PROVE  ChangeInv'
<1>1. PICK job : job = [op |-> "run", row |-> i, to |-> "in_progress", saw |-> change]
  OBVIOUS
<1>2. BeginChange(t, job) /\ job.saw = change
  BY <1>1 DEF StartImplementation
<1>3. job.op = "run" /\ job.row \in DOMAIN implementations /\ job.to = "in_progress"
  BY <1>1
<1>4. job.saw \in ChangeRow /\ RowSound(job.saw) /\ (job.saw.approved => change.approved) => ChangeChecked(job)
  BY <1>2, <1>3 DEF ChangeChecked
<1>5. job.op = "status" /\ job.to = "closed" /\ change.requiresPir => Some(reviews, {"completed"})
  BY <1>3
<1> QED BY <1>2, <1>4, <1>5, ChangeBegins

\* An implementation ends, well or not.
LEMMA CompletionBegins ==
    ASSUME ChangeInv, NEW t \in ChangeThreads, NEW i \in DOMAIN implementations,
           NEW r \in BackedOut \cup {"completed", "validated"}, CompleteImplementation(t, i, r)
    PROVE  ChangeInv'
<1>1. PICK job : job = [op |-> IF r \in BackedOut THEN "back_out" ELSE "run", row |-> i, to |-> r, saw |-> change]
  OBVIOUS
<1>2. BeginChange(t, job) /\ job.saw = change
  BY <1>1 DEF CompleteImplementation
<1>3. /\ job.row \in DOMAIN implementations /\ job.to = r
      /\ r \in BackedOut => job.op = "back_out"
      /\ r \notin BackedOut => job.op = "run" /\ r \in {"completed", "validated"}
  BY <1>1
<1>4. job.saw \in ChangeRow /\ RowSound(job.saw) /\ (job.saw.approved => change.approved) => ChangeChecked(job)
  BY <1>2, <1>3 DEF ChangeChecked
<1>5. job.op = "status" /\ job.to = "closed" /\ change.requiresPir => Some(reviews, {"completed"})
  BY <1>3
<1> QED BY <1>2, <1>4, <1>5, ChangeBegins

\* A rollback begins.
LEMMA RollbackBegins ==
    ASSUME ChangeInv, NEW t \in ChangeThreads, NEW i \in DOMAIN implementations, CreateRollback(t, i)
    PROVE  ChangeInv'
<1>1. PICK job : job = [op |-> "back_out", row |-> i, to |-> "rolled_back", saw |-> change]
  OBVIOUS
<1>2. BeginChange(t, job) /\ job.saw = change
  BY <1>1 DEF CreateRollback
<1>3. job.op = "back_out" /\ job.row \in DOMAIN implementations /\ job.to \in BackedOut
  BY <1>1 DEF BackedOut
<1>4. job.saw \in ChangeRow /\ RowSound(job.saw) /\ (job.saw.approved => change.approved) => ChangeChecked(job)
  BY <1>2, <1>3 DEF ChangeChecked
<1>5. job.op = "status" /\ job.to = "closed" /\ change.requiresPir => Some(reviews, {"completed"})
  BY <1>3
<1> QED BY <1>2, <1>4, <1>5, ChangeBegins

\* A review is opened, unless one is open.
LEMMA PirBegins ==
    ASSUME ChangeInv, NEW t \in ChangeThreads, CreatePir(t)
    PROVE  ChangeInv'
<1>1. PICK job : job = [op |-> "review", insert |-> (OpenReviews = {}), saw |-> change]
  OBVIOUS
<1>2. BeginChange(t, job) /\ job.saw = change
  BY <1>1 DEF CreatePir
<1>3. job.op = "review" /\ job.insert \in BOOLEAN /\ (job.insert \/ reviews # << >>)
  <2>1. job.op = "review" /\ job.insert = (OpenReviews = {})
    BY <1>1
  <2>2. OpenReviews # {} => reviews # << >>
    BY DEF OpenReviews
  <2> QED BY <2>1, <2>2
<1>4. job.saw \in ChangeRow /\ RowSound(job.saw) /\ (job.saw.approved => change.approved) => ChangeChecked(job)
  BY <1>2, <1>3 DEF ChangeChecked
<1>5. job.op = "status" /\ job.to = "closed" /\ change.requiresPir => Some(reviews, {"completed"})
  BY <1>3
<1> QED BY <1>2, <1>4, <1>5, ChangeBegins

\* A change is edited: only by hand is the requirement of a review taken back.
LEMMA UpdateKeeps ==
    ASSUME ChangeInv, NEW requires \in BOOLEAN, NEW over \in SUBSET Windows, UpdateChange(requires, over)
    PROVE  ChangeInv'
<1>1. /\ AtOnce /\ change' = [change EXCEPT !.requiresPir = requires, !.over = over]
      /\ waived' = (waived \/ (change.requiresPir /\ ~requires))
      /\ UNCHANGED <<decided, inForce, exceptions, implementations, reviews>>
  BY DEF UpdateChange
<1>2. change \in ChangeRow /\ RowSound(change) /\ RowsTyped
  BY DEF ChangeInv, ChangeTypeOK, ChangeRow, RowsTyped
<1>3. /\ change' \in ChangeRow /\ change'.status = change.status
      /\ change'.approved = change.approved /\ change'.requiresPir = requires
  BY <1>1, <1>2 DEF ChangeRow
<1>4. RowsTyped'
  BY <1>1, <1>2 DEF RowsTyped
<1>5. RowSound(change') /\ RowsKept
  BY <1>1, <1>2, <1>3 DEF RowSound, RowsKept
<1>6. ReviewDemanded => ReviewDemanded'
  BY <1>1, <1>3 DEF ReviewDemanded
<1> QED BY <1>1, <1>3, <1>4, <1>5, <1>6, ChangeAtOnce

\* A window is switched.
LEMMA WindowKeeps ==
    ASSUME ChangeInv, NEW w \in Windows, UpdateWindow(w)
    PROVE  ChangeInv'
<1>1. /\ AtOnce /\ inForce' \subseteq inForce \cup {w}
      /\ UNCHANGED <<change, decided, exceptions, implementations, reviews, waived>>
  BY DEF UpdateWindow
<1>2. change \in ChangeRow /\ RowSound(change) /\ RowsTyped
  BY DEF ChangeInv, ChangeTypeOK, ChangeRow, RowsTyped
<1>3. RowsTyped' /\ RowsKept /\ change' \in ChangeRow /\ RowSound(change')
  BY <1>1, <1>2 DEF RowsTyped, RowsKept
<1>4. ReviewDemanded => ReviewDemanded'
  BY <1>1 DEF ReviewDemanded
<1> QED BY <1>1, <1>3, <1>4, ChangeAtOnce

\* A review is written.
LEMMA ReviewWritten ==
    ASSUME ChangeInv, NEW i \in DOMAIN reviews, NEW s \in PIR_STATUSES, UpdatePir(i, s)
    PROVE  ChangeInv'
<1>1. /\ AtOnce /\ reviews' = [reviews EXCEPT ![i] = s]
      /\ UNCHANGED <<change, decided, inForce, exceptions, implementations, waived>>
  BY DEF UpdatePir
<1>2. change \in ChangeRow /\ RowSound(change) /\ RowsTyped
  BY DEF ChangeInv, ChangeTypeOK, ChangeRow, RowsTyped
<1>3. PICK T : T = PIR_STATUSES
  OBVIOUS
<1>4. reviews \in Seq(T) /\ s \in T
  BY <1>2, <1>3 DEF RowsTyped
<1>5. reviews' \in Seq(T) /\ DOMAIN reviews' = DOMAIN reviews
  BY <1>1, <1>4, RowWritten
<1>6. reviews' # << >>
  BY <1>5
<1>7. RowsTyped' /\ RowsKept /\ change' \in ChangeRow /\ RowSound(change')
  BY <1>1, <1>2, <1>3, <1>5, <1>6 DEF RowsTyped, RowsKept
<1>8. ReviewDemanded => ReviewDemanded'
  BY <1>1 DEF ReviewDemanded
<1> QED BY <1>1, <1>6, <1>7, <1>8, ChangeAtOnce

\* Whatever commits.
LEMMA ChangeCommitKeeps ==
    ASSUME ChangeInv, NEW t \in ChangeThreads, ChangeCommit(t)
    PROVE  ChangeInv'
BY StatusKeeps, AssessmentKeeps, DecisionSetsStatus, ScheduleKeeps, ExceptionKeeps, RulingKeeps,
   ImplementationKeeps, RunKeeps, BackOutKeeps, ValidationKeeps, PirKeeps DEF ChangeCommit

\* A request of one thread that loads the change.
ChangeBegin(t) ==
    \/ SubmitChange(t) \/ RouteChange(t) \/ ValidateChange(t) \/ CloseChange(t)
    \/ CreateImplementation(t) \/ CreatePir(t)
    \/ \E requires \in BOOLEAN : AssessChange(t, requires)
    \/ \E d \in DOMAIN CHANGE_REQUEST_DECISION_STATUS : CreateDecision(t, d)
    \/ \E over \in SUBSET Windows : ScheduleChange(t, over)
    \/ \E w \in Windows : CreateFreezeException(t, w)
    \/ \E i \in DOMAIN exceptions, v \in {"approved", "rejected"} : DecideFreezeException(t, i, v)
    \/ \E i \in DOMAIN implementations :
        \/ StartImplementation(t, i) \/ CreateRollback(t, i)
        \/ \E r \in BackedOut \cup {"completed", "validated"} : CompleteImplementation(t, i, r)

\* What is loaded is not written.
LEMMA BeginLeaves ==
    ASSUME NEW t, ChangeBegin(t)
    PROVE  UNCHANGED changeRows
BY DEF ChangeBegin, SubmitChange, RouteChange, ValidateChange, CloseChange, CreateImplementation, CreatePir,
       AssessChange, CreateDecision, ScheduleChange, CreateFreezeException, DecideFreezeException,
       StartImplementation, CreateRollback, CompleteImplementation, BeginStatus, BeginChange

\* A request that has only looked has changed nothing yet.
LEMMA ChangeBeginKeeps ==
    ASSUME ChangeInv, NEW t \in ChangeThreads, ChangeBegin(t)
    PROVE  ChangeInv'
BY StatusBegins, ValidationBegins, AssessmentBegins, DecisionBegins, ScheduleBegins, ExceptionBegins, RulingBegins,
   ImplementationBegins, RunBegins, CompletionBegins, RollbackBegins, PirBegins DEF ChangeBegin

\* The requests on a change, by what they do.
LEMMA ChangeSteps ==
    ASSUME ChangeNext
    PROVE  \/ \E t \in ChangeThreads : ChangeBegin(t) \/ ChangeCommit(t)
           \/ \E requires \in BOOLEAN, over \in SUBSET Windows : UpdateChange(requires, over)
           \/ \E w \in Windows : UpdateWindow(w)
           \/ \E i \in DOMAIN reviews, s \in PIR_STATUSES : UpdatePir(i, s)
BY Zenon DEF ChangeNext, ChangeBegin

\* Every step of the change requests keeps what explains their statuses.
LEMMA ChangeStepInv == ChangeInv /\ [ChangeNext]_changeVars => ChangeInv'
<1> SUFFICES ASSUME ChangeInv, [ChangeNext]_changeVars PROVE ChangeInv'
  OBVIOUS
<1>1. CASE UNCHANGED changeVars
  <2>1. /\ UNCHANGED <<change, decided, inForce, exceptions, implementations, reviews, waived>>
        /\ UNCHANGED <<changeJob, changeRaced>>
    BY <1>1 DEF changeVars, changeRows
  <2>2. ChangeTypeOK' /\ RowSound(change)' /\ StatusExplained'
    BY <2>1 DEF ChangeInv, ChangeTypeOK, RowSound, StatusExplained
  <2>3. (\A t \in ChangeThreads : changeJob[t] # NoJob => ChangeChecked(changeJob[t]))'
    BY <2>1 DEF ChangeInv, ChangeChecked
  <2>4. ASSUME ~changeRaced
        PROVE  /\ \A t, o \in ChangeThreads : changeJob'[t] # NoJob /\ changeJob'[o] # NoJob => t = o
               /\ (\A t \in ChangeThreads : changeJob[t] # NoJob => ChangeCurrent(changeJob[t]))'
               /\ ReviewDemanded'
    BY <2>1, <2>4 DEF ChangeInv, ChangeCurrent, ReviewDemanded
  <2> QED BY <2>1, <2>2, <2>3, <2>4 DEF ChangeInv
<1>2. CASE ChangeNext
  BY <1>2, ChangeSteps, ChangeBeginKeeps, ChangeCommitKeeps, UpdateKeeps, WindowKeeps, ReviewWritten
<1> QED BY <1>1, <1>2

\* The status of a change is explained by its decisions, implementations and
\* reviews, for any windows, rows and number of requests that overlap.
THEOREM StatusesExplained == ChangeSpec => [](ChangeTypeOK /\ StatusExplained)
<1>1. ChangeInv => ChangeTypeOK /\ StatusExplained
  BY DEF ChangeInv
<1> QED BY <1>1, ChangeInitInv, ChangeStepInv, PTL DEF ChangeSpec

\* A row saved over itself is the new one.
LEMMA SavedAlone ==
    ASSUME change \in ChangeRow, NEW new
    PROVE  Saved(change, new).status = new.status /\ Saved(change, new).over = new.over
<1>1. DOMAIN change = {"status", "requiresPir", "approved", "over"}
  BY DEF ChangeRow
<1> QED BY <1>1 DEF Saved

\* What a step may close, and what it may schedule.
Justified ==
    /\ change'.status = "closed" /\ ~waived /\ (exceptions # << >> \/ Some(implementations, BackedOut))
           => Some(reviews, {"completed"})
    /\ change'.status = "scheduled" => Conflicts(change'.over) \subseteq Covered

\* A status is set alone: to closed only over the review the change needs.
LEMMA ClosedOverReview ==
    ASSUME ChangeInv, ~changeRaced, NEW t \in ChangeThreads, CommitStatus(t)
    PROVE  Justified
<1>1. PICK job : job = changeJob[t]
  OBVIOUS
<1>2. job.op = "status" /\ change' = Saved(job.saw, SetStatus(job.saw, job.to))
  BY <1>1 DEF CommitStatus
<1>3. /\ change \in ChangeRow /\ ReviewDemanded /\ job.saw = change
      /\ job.to \in {"submitted", "cab_pending", "closed"}
      /\ job.to = "closed" /\ change.requiresPir => Some(reviews, {"completed"})
  BY <1>1, <1>2, JobFacts DEF ChangeChecked, ChangeCurrent
<1>4. SetStatus(change, job.to).status = job.to
  BY <1>3 DEF SetStatus, ChangeRow
<1>5. change'.status = job.to
  BY <1>2, <1>3, <1>4, SavedAlone
<1> QED BY <1>3, <1>5 DEF Justified, ReviewDemanded

\* A schedule is committed over windows that are covered.
LEMMA ScheduledOverCover ==
    ASSUME ChangeInv, ~changeRaced, NEW t \in ChangeThreads, CommitSchedule(t)
    PROVE  change'.status = change.status \/ Justified
<1>1. PICK job : job = changeJob[t]
  OBVIOUS
<1>2. PICK new : new = [SetStatus(job.saw, "scheduled") EXCEPT !.over = job.over]
  OBVIOUS
<1>3. /\ job.op = "schedule"
      /\ \/ Conflicts(job.over) \subseteq Covered /\ change' = Saved(job.saw, new)
         \/ change' = change
  BY <1>1, <1>2 DEF CommitSchedule
<1>4. change \in ChangeRow /\ job.saw = change
  BY <1>1, <1>3, JobFacts DEF ChangeChecked, ChangeCurrent
<1>5. new.status = "scheduled" /\ new.over = job.over
  BY <1>2, <1>4 DEF SetStatus, ChangeRow
<1> QED BY <1>3, <1>4, <1>5, SavedAlone DEF Justified

\* No other commit closes or schedules a change that is not so.
LEMMA OthersClose ==
    ASSUME ChangeInv, ~changeRaced, NEW t \in ChangeThreads, NEW job, job = changeJob[t], job.op # "none",
           NEW new, change' = Saved(job.saw, new),
           job.saw = change => new.status \notin {"closed", "scheduled"} \/ new.status = change.status
    PROVE  change'.status = change.status \/ Justified
<1>1. change \in ChangeRow /\ job.saw = change
  BY JobFacts DEF ChangeChecked, ChangeCurrent
<1>2. change'.status = new.status
  BY <1>1, SavedAlone
<1> QED BY <1>1, <1>2 DEF Justified

\* What the other commits make of the status.
LEMMA CommitsClose ==
    ASSUME ChangeInv, ~changeRaced, NEW t \in ChangeThreads,
           \/ CommitAssessment(t) \/ CommitDecision(t) \/ CommitException(t) \/ CommitRun(t)
           \/ CommitBackOut(t) \/ CommitValidation(t) \/ CommitPir(t)
    PROVE  change'.status = change.status \/ Justified
<1>1. PICK job : job = changeJob[t]
  OBVIOUS
<1>2. change \in ChangeRow
  BY DEF ChangeInv, ChangeTypeOK, ChangeRow
<1>3. \A s : SetStatus(change, s).status = s
  BY <1>2 DEF SetStatus, ChangeRow
<1>4. CASE CommitAssessment(t)
  <2>1. PICK new : new = [SetStatus(job.saw, "assessed") EXCEPT !.requiresPir = job.requires]
    OBVIOUS
  <2>2. job.op = "assess" /\ change' = Saved(job.saw, new)
    BY <1>1, <1>4, <2>1 DEF CommitAssessment
  <2>3. job.saw = change => new.status = "assessed"
    BY <1>2, <2>1 DEF SetStatus, ChangeRow
  <2> QED BY <1>1, <2>2, <2>3, OthersClose
<1>5. CASE CommitDecision(t)
  <2>1. PICK new : new = SetStatus(job.saw, job.to)
    OBVIOUS
  <2>2. job.op = "decide" /\ change' = Saved(job.saw, new)
    BY <1>1, <1>5, <2>1 DEF CommitDecision, DecidedRow
  <2>3. job.to \in DecisionStatuses
    BY <1>1, <2>2, JobFacts DEF ChangeChecked
  <2>4. job.saw = change => new.status \notin {"closed", "scheduled"}
    BY <1>3, <2>1, <2>3 DEF DecisionStatuses, CHANGE_REQUEST_DECISION_STATUS
  <2> QED BY <1>1, <2>2, <2>4, OthersClose
<1>6. CASE CommitException(t)
  <2>1. PICK new : new = [job.saw EXCEPT !.requiresPir = TRUE]
    OBVIOUS
  <2>2. job.op = "except" /\ change' = Saved(job.saw, new)
    BY <1>1, <1>6, <2>1 DEF CommitException
  <2>3. job.saw = change => new.status = change.status
    BY <1>2, <2>1 DEF ChangeRow
  <2> QED BY <1>1, <2>2, <2>3, OthersClose
<1>7. CASE CommitRun(t)
  <2>1. PICK status \in {"implementing", "implemented"} :
            job.op = "run" /\ change' = Saved(job.saw, SetStatus(job.saw, status))
    BY <1>1, <1>7 DEF CommitRun
  <2>2. PICK new : new = SetStatus(job.saw, status)
    OBVIOUS
  <2>3. job.saw = change => new.status \notin {"closed", "scheduled"}
    BY <1>3, <2>2
  <2> QED BY <1>1, <2>1, <2>2, <2>3, OthersClose
<1>8. CASE CommitBackOut(t)
  <2>1. change' = BackOut(job.saw) /\ job.op = "back_out"
    BY <1>1, <1>8 DEF CommitBackOut
  <2>2. PICK n : n = Saved(job.saw, [job.saw EXCEPT !.requiresPir = TRUE])
    OBVIOUS
  <2>3. n \in ChangeRow
    <3>1. job.saw = change /\ RowSound(change)
      BY <1>1, <2>1, JobFacts DEF ChangeCurrent
    <3>2. PICK new \in ChangeRow : new = [job.saw EXCEPT !.requiresPir = TRUE]
      BY <1>2, <3>1, RequirementSet
    <3>3. new.status = change.status /\ new.approved = change.approved
      BY <1>2, <3>1, <3>2, RequirementSet
    <3>4. RowSound(new)
      BY <3>1, <3>3 DEF RowSound
    <3> QED BY <1>2, <2>2, <3>1, <3>2, <3>3, <3>4, MergedChange
  <2>4. change'.status = "pir_pending"
    BY <2>1, <2>2, <2>3 DEF BackOut, ChangeRow
  <2> QED BY <2>4 DEF Justified
<1>9. CASE CommitValidation(t)
  <2>1. PICK requires : requires = (job.saw.requiresPir \/ Covered # {})
    OBVIOUS
  <2>2. PICK status \in {"pir_pending", "validated"} : status = IF requires THEN "pir_pending" ELSE "validated"
    OBVIOUS
  <2>3. /\ job.op = "validate"
        /\ change' = Saved(job.saw, [SetStatus(job.saw, status) EXCEPT !.requiresPir = requires])
    BY <1>1, <1>9, <2>1, <2>2 DEF CommitValidation
  <2>4. PICK new : new = [SetStatus(job.saw, status) EXCEPT !.requiresPir = requires]
    OBVIOUS
  <2>5. job.saw = change => new.status = status
    BY <1>2, <2>4 DEF SetStatus, ChangeRow
  <2> QED BY <1>1, <2>2, <2>3, <2>4, <2>5, OthersClose
<1>10. CASE CommitPir(t)
  <2>1. PICK status :
            /\ status = IF job.saw.status = "closed" THEN "closed" ELSE "pir_pending"
            /\ job.op = "review" /\ change' = Saved(job.saw, SetStatus(job.saw, status))
    BY <1>1, <1>10 DEF CommitPir
  <2>2. PICK new : new = SetStatus(job.saw, status)
    OBVIOUS
  <2>3. job.saw = change => new.status = "pir_pending" \/ new.status = change.status
    BY <1>3, <2>1, <2>2
  <2> QED BY <1>1, <2>1, <2>2, <2>3, OthersClose
<1> QED BY <1>4, <1>5, <1>6, <1>7, <1>8, <1>9, <1>10

\* While requests do not overlap a change that needs a review is closed only
\* over a completed one, and scheduled only where the freeze windows let it.
THEOREM StepsAreJustified == ChangeSpec => StepsJustified
<1>1. ChangeInv /\ [ChangeNext]_changeVars =>
          [changeRaced' \/ change'.status = change.status \/
           /\ change'.status = "closed" /\ ~waived
                  /\ (exceptions # << >> \/ Some(implementations, BackedOut))
                  => Some(reviews, {"completed"})
           /\ change'.status = "scheduled" => Conflicts(change'.over) \subseteq Covered]_changeVars
  <2> SUFFICES ASSUME ChangeInv, ChangeNext, ~changeRaced'
               PROVE  change'.status = change.status \/ Justified
    BY DEF Justified
  <2>1. ASSUME NEW t \in ChangeThreads, ChangeBegin(t)
        PROVE  change'.status = change.status
    BY <2>1, BeginLeaves DEF changeRows
  <2>2. ASSUME NEW t \in ChangeThreads, ChangeCommit(t)
        PROVE  change'.status = change.status \/ Justified
    <3>1. CASE CommitRuling(t) \/ CommitImplementation(t)
      BY <3>1 DEF CommitRuling, CommitImplementation
    <3>2. CASE CommitStatus(t)
      <4>1. ~changeRaced
        BY <3>2 DEF CommitStatus, Finish
      <4> QED BY <3>2, <4>1, ClosedOverReview
    <3>3. CASE CommitSchedule(t)
      <4>1. ~changeRaced
        BY <3>3 DEF CommitSchedule, Finish
      <4> QED BY <3>3, <4>1, ScheduledOverCover
    <3>4. CASE \/ CommitAssessment(t) \/ CommitDecision(t) \/ CommitException(t) \/ CommitRun(t)
               \/ CommitBackOut(t) \/ CommitValidation(t) \/ CommitPir(t)
      <4>1. ~changeRaced
        BY <3>4 DEF CommitAssessment, CommitDecision, CommitException, CommitRun, CommitBackOut,
                    CommitValidation, CommitPir, Finish
      <4> QED BY <3>4, <4>1, CommitsClose
    <3> QED BY <2>2, <3>1, <3>2, <3>3, <3>4 DEF ChangeCommit
  <2>3. ASSUME NEW requires \in BOOLEAN, NEW over \in SUBSET Windows, UpdateChange(requires, over)
        PROVE  change'.status = change.status
    BY <2>3 DEF UpdateChange, ChangeInv, ChangeTypeOK
  <2>4. ASSUME NEW w \in Windows, UpdateWindow(w)
        PROVE  change'.status = change.status
    BY <2>4 DEF UpdateWindow
  <2>5. ASSUME NEW i \in DOMAIN reviews, NEW s \in PIR_STATUSES, UpdatePir(i, s)
        PROVE  change'.status = change.status
    BY <2>5 DEF UpdatePir
  <2> QED BY <2>1, <2>2, <2>3, <2>4, <2>5, ChangeSteps
<1> QED BY <1>1, ChangeInitInv, ChangeStepInv, PTL DEF ChangeSpec, StepsJustified

------------------------------------------------------------------------------
(* The executions of a test plan                                              *)

ExecutionRow == [cycle : Cycles, case : Cases, result : Results, dated : BOOLEAN,
                 steps : [StepOutcomes -> Nat]]

\* What is carried over twice was there twice, and what the cycle has of the
\* cases a request is about to enter came after it looked.
PopulationSound(job) ==
    /\ job.cycle \in Cycles /\ job.cases \in Seq(Cases) /\ job.saw \in 0 .. Len(executions)
    /\ \A i, j \in DOMAIN job.cases :
           i # j /\ job.cases[i] = job.cases[j] => <<job.from, job.cases[i]>> \in doubled
    /\ \A e \in In(job.cycle) : CaseOf(e) \in ToSet(job.cases) => e > job.saw

\* A derived result brings its date along, unless an update derives it.
DerivationSound(job) ==
    /\ job.byUpdate \in BOOLEAN /\ job.dated \in BOOLEAN
    /\ job.result = {} \/ \E r \in Results : job.result = {r}
    /\ ~job.byUpdate => \A r \in job.result : r # "not_run" => job.dated

CycleJobSound(job) ==
    /\ job.kind = "pool" => job.cases \subseteq Cases
    /\ job.kind = "populate" => PopulationSound(job)
    /\ job.kind = "derive" => DerivationSound(job)

\* Two executions of a case in a cycle are accounted for.
DoublesExplained ==
    \A e, f \in Executions :
        e # f /\ executions[e].cycle = executions[f].cycle /\ CaseOf(e) = CaseOf(f)
            => <<executions[e].cycle, CaseOf(e)>> \in doubled

DatesExplained ==
    \A e \in Executions : executions[e].result # "not_run" /\ ~executions[e].dated => e \in undated

CyclesInv ==
    /\ executions \in Seq({Deleted} \cup ExecutionRow)
    /\ pool \subseteq Cases /\ doubled \subseteq Cycles \X Cases
    /\ DoublesExplained /\ DatesExplained
    /\ DOMAIN cycleJob = CycleThreads
    /\ \A t \in CycleThreads : CycleJobSound(cycleJob[t])

\* A row that was deleted is no row of a cycle.
LEMMA RowNotDeleted ==
    /\ \A x \in ExecutionRow : x # Deleted
    /\ 0 \notin Cycles
<1>1. 0 \notin Cycles
  BY CycleAssumption
<1>2. Deleted.cycle = 0
  BY DEF Deleted
<1> QED BY <1>1, <1>2 DEF ExecutionRow

\* The executions that are there are rows, and stand at places of the table.
LEMMA ExecutionsAre ==
    ASSUME CyclesInv
    PROVE  /\ \A e \in DOMAIN executions : executions[e] \in {Deleted} \cup ExecutionRow
           /\ \A e \in Executions : e \in DOMAIN executions /\ executions[e] \in ExecutionRow
           /\ \A e \in DOMAIN executions : e \in Nat \ {0} /\ e <= Len(executions)
           /\ Len(executions) \in Nat
<1>1. executions \in Seq({Deleted} \cup ExecutionRow)
  BY DEF CyclesInv
<1>2. \A e \in DOMAIN executions : executions[e] \in {Deleted} \cup ExecutionRow
  BY <1>1
<1> QED BY <1>1, <1>2 DEF Executions

\* A finite set as a list, each element once.
LEMMA Listed ==
    ASSUME NEW S, IsFiniteSet(S)
    PROVE  /\ SetToSeq(S) \in Seq(S)
           /\ \A i, j \in DOMAIN SetToSeq(S) : SetToSeq(S)[i] = SetToSeq(S)[j] => i = j
<1>1. PICK n \in Nat : n = Cardinality(S)
  BY FS_CardinalityType
<1>2. PICK f \in [1 .. n -> S] : IsInjective(f)
  <2>1. ExistsBijection(1 .. n, S)
    BY <1>1, FS_CardinalityType
  <2> QED BY <2>1 DEF ExistsBijection, Bijection, Injection, IsInjective
<1>3. PICK s : s = SetToSeq(S)
  OBVIOUS
<1>4. s \in [1 .. n -> S] /\ IsInjective(s)
  BY <1>1, <1>2, <1>3 DEF SetToSeq
<1>5. s \in Seq(S) /\ DOMAIN s = 1 .. n
  BY <1>1, <1>4
<1>6. \A i, j \in DOMAIN s : s[i] = s[j] => i = j
  BY <1>4 DEF IsInjective
<1> QED BY <1>3, <1>5, <1>6

\* Rows are entered, written or deleted: they stay in their cycles.
RowsStay ==
    /\ Len(executions) <= Len(executions')
    /\ DOMAIN executions' = 1 .. Len(executions') /\ Len(executions') \in Nat
    /\ \A e \in Executions' :
           \/ e > Len(executions)
           \/ /\ e \in Executions /\ executions'[e].cycle = executions[e].cycle
              /\ executions'[e].case = executions[e].case
    /\ doubled \subseteq doubled'

\* So what other requests have checked stays so.
LEMMA JobsKeep ==
    ASSUME CyclesInv, RowsStay, NEW job, CycleJobSound(job)
    PROVE  CycleJobSound(job)'
<1>1. ASSUME PopulationSound(job) PROVE PopulationSound(job)'
  <2>1. Len(executions) \in Nat
    BY ExecutionsAre
  <2>2. job.saw \in 0 .. Len(executions') /\ job.saw <= Len(executions)
    BY <1>1, <2>1 DEF PopulationSound, RowsStay
  <2>3. ASSUME NEW e \in In(job.cycle)', CaseOf(e)' \in ToSet(job.cases)
        PROVE  e > job.saw
    <3>1. e \in Executions' /\ executions'[e].cycle = job.cycle /\ executions'[e].case \in ToSet(job.cases)
      BY <2>3 DEF In, CaseOf
    <3>2. e \in Nat
      BY <3>1 DEF Executions, RowsStay
    <3>3. CASE e > Len(executions)
      BY <2>1, <2>2, <3>2, <3>3
    <3>4. CASE e \in Executions /\ executions'[e].cycle = executions[e].cycle
               /\ executions'[e].case = executions[e].case
      BY <1>1, <3>1, <3>4 DEF PopulationSound, In, CaseOf
    <3> QED BY <3>1, <3>3, <3>4 DEF RowsStay
  <2>4. \A i, j \in DOMAIN job.cases :
           i # j /\ job.cases[i] = job.cases[j] => <<job.from, job.cases[i]>> \in doubled'
    BY <1>1 DEF PopulationSound, RowsStay
  <2> QED BY <1>1, <2>2, <2>3, <2>4 DEF PopulationSound
<1>2. DerivationSound(job) => DerivationSound(job)'
  BY DEF DerivationSound
<1> QED BY <1>1, <1>2 DEF CycleJobSound

\* A step that enters or writes rows, of a request that is through or of none.
LEMMA RowsStep ==
    ASSUME CyclesInv, RowsStay,
           DOMAIN cycleJob' = CycleThreads,
           \A t \in CycleThreads : cycleJob'[t] = cycleJob[t] \/ CycleJobSound(cycleJob'[t]),
           executions' \in Seq({Deleted} \cup ExecutionRow), pool' \subseteq Cases,
           doubled' \subseteq Cycles \X Cases, DoublesExplained', DatesExplained'
    PROVE  CyclesInv'
<1>3. \A t \in CycleThreads : CycleJobSound(cycleJob'[t])
  BY DEF CyclesInv
<1>4. ASSUME NEW t \in CycleThreads PROVE CycleJobSound(cycleJob[t])'
  <2>1. PICK job : job = cycleJob'[t]
    OBVIOUS
  <2>2. CycleJobSound(job)'
    BY <1>3, <2>1, JobsKeep
  <2> QED BY <2>1, <2>2 DEF CycleJobSound, PopulationSound, DerivationSound
<1> QED BY <1>4 DEF CyclesInv

\* A request begins, or ends; the rows are as they were.
LEMMA CycleJobBegins ==
    ASSUME CyclesInv, NEW t \in CycleThreads, NEW job, BeginJob(t, job), CycleJobSound(job)
    PROVE  CyclesInv'
<1>1. /\ cycleJob' = [cycleJob EXCEPT ![t] = job] /\ UNCHANGED <<pool, executions, doubled, undated>>
  BY DEF BeginJob
<1>2. /\ DOMAIN cycleJob' = CycleThreads
      /\ \A o \in CycleThreads : cycleJob'[o] = cycleJob[o] \/ CycleJobSound(cycleJob'[o])
  BY <1>1 DEF CyclesInv
<1>3. DoublesExplained' /\ DatesExplained'
  BY <1>1 DEF CyclesInv, DoublesExplained, DatesExplained, Executions, CaseOf
<1>4. RowsStay
  BY <1>1 DEF RowsStay, Executions, CyclesInv
<1> QED BY <1>1, <1>2, <1>3, <1>4, RowsStep DEF CyclesInv

\* What a request that ends leaves to the others.
LEMMA CycleJobEnds ==
    ASSUME CyclesInv, NEW t \in CycleThreads, EndJob(t)
    PROVE  /\ DOMAIN cycleJob' = CycleThreads
           /\ \A o \in CycleThreads : cycleJob'[o] = cycleJob[o] \/ CycleJobSound(cycleJob'[o])
<1>1. CycleJobSound(NoCycleJob)
  BY DEF CycleJobSound, NoCycleJob
<1> QED BY <1>1 DEF EndJob, CyclesInv

\* The pool is filled or emptied.
LEMMA PoolKeeps ==
    ASSUME CyclesInv, (\E t \in CycleThreads : CommitPool(t)) \/ (\E k \in Cases : RemoveFromPool(k))
    PROVE  CyclesInv'
<1>1. UNCHANGED <<executions, doubled, undated>>
  BY DEF CommitPool, RemoveFromPool
<1>2. pool' \subseteq Cases
  BY DEF CommitPool, RemoveFromPool, CyclesInv, CycleJobSound
<1>3. /\ DOMAIN cycleJob' = CycleThreads
      /\ \A o \in CycleThreads : cycleJob'[o] = cycleJob[o] \/ CycleJobSound(cycleJob'[o])
  BY CycleJobEnds DEF CommitPool, RemoveFromPool, CyclesInv
<1>4. DoublesExplained' /\ DatesExplained'
  BY <1>1 DEF CyclesInv, DoublesExplained, DatesExplained, Executions, CaseOf
<1>5. RowsStay
  BY <1>1 DEF RowsStay, Executions, CyclesInv
<1> QED BY <1>1, <1>2, <1>3, <1>4, <1>5, RowsStep DEF CyclesInv

\* An execution is written that stays in its cycle, with its case.
LEMMA RowUpdated ==
    ASSUME CyclesInv, NEW e \in DOMAIN executions, NEW row \in {Deleted} \cup ExecutionRow,
           executions' = [executions EXCEPT ![e] = row],
           row # Deleted => /\ executions[e] # Deleted
                            /\ row.cycle = executions[e].cycle /\ row.case = executions[e].case
                            /\ row.result # "not_run" /\ ~row.dated => e \in undated',
           pool' = pool, doubled' = doubled, undated \subseteq undated',
           DOMAIN cycleJob' = CycleThreads,
           \A t \in CycleThreads : cycleJob'[t] = cycleJob[t] \/ CycleJobSound(cycleJob'[t])
    PROVE  CyclesInv'
<1>1. executions \in Seq({Deleted} \cup ExecutionRow)
  BY DEF CyclesInv
<1>2. /\ executions' \in Seq({Deleted} \cup ExecutionRow) /\ Len(executions') = Len(executions)
      /\ DOMAIN executions' = DOMAIN executions /\ DOMAIN executions = 1 .. Len(executions)
      /\ Len(executions) \in Nat /\ executions'[e] = row
      /\ \A f \in DOMAIN executions : f # e => executions'[f] = executions[f]
  <2>1. PICK T : T = {Deleted} \cup ExecutionRow
    OBVIOUS
  <2>2. executions \in Seq(T) /\ row \in T
    BY <1>1, <2>1
  <2> QED BY <2>1, <2>2
<1>3. \A f \in Executions' : /\ f \in Executions /\ executions'[f].cycle = executions[f].cycle
                             /\ executions'[f].case = executions[f].case
  BY <1>2 DEF Executions
<1>4. RowsStay
  <2>1. Len(executions) <= Len(executions')
    BY <1>2
  <2>2. DOMAIN executions' = 1 .. Len(executions') /\ Len(executions') \in Nat
    BY <1>2
  <2> QED BY <1>3, <2>1, <2>2 DEF RowsStay
<1>5. ASSUME NEW f \in Executions', NEW g \in Executions', f # g,
             executions'[f].cycle = executions'[g].cycle, CaseOf(f)' = CaseOf(g)'
      PROVE  <<executions'[f].cycle, CaseOf(f)'>> \in doubled'
  <2>1. /\ f \in Executions /\ g \in Executions /\ executions[f].cycle = executions[g].cycle
        /\ CaseOf(f) = CaseOf(g) /\ CaseOf(f)' = CaseOf(f) /\ executions'[f].cycle = executions[f].cycle
    BY <1>3, <1>5 DEF CaseOf
  <2>2. <<executions[f].cycle, CaseOf(f)>> \in doubled
    BY <1>5, <2>1 DEF CyclesInv, DoublesExplained
  <2> QED BY <2>1, <2>2
<1>6. ASSUME NEW f \in Executions', executions'[f].result # "not_run", ~executions'[f].dated
      PROVE  f \in undated'
  <2>1. CASE f = e
    BY <1>2, <1>6, <2>1 DEF Executions
  <2>2. CASE f # e
    BY <1>2, <1>3, <1>6, <2>2 DEF Executions, CyclesInv, DatesExplained
  <2> QED BY <2>1, <2>2
<1>7. DoublesExplained' /\ DatesExplained'
  BY <1>5, <1>6 DEF DoublesExplained, DatesExplained
<1> QED BY <1>2, <1>4, <1>7, RowsStep DEF CyclesInv

\* A result is recorded, or a step.
LEMMA UpdatesKeep ==
    ASSUME CyclesInv, NEW e \in Executions,
           \/ DeleteExecution(e)
           \/ \E result \in Recorded : RecordResult(e, result)
           \/ \E o \in StepOutcomes :
               \/ CreateStepResult(e, o) \/ DeleteStepResult(e, o)
               \/ \E new \in StepOutcomes : UpdateStepResult(e, o, new)
    PROVE  CyclesInv'
<1>1. /\ e \in DOMAIN executions /\ executions[e] \in ExecutionRow /\ executions[e] # Deleted
  BY ExecutionsAre DEF Executions
<1>2. PICK x \in ExecutionRow : x = executions[e]
  BY <1>1
<1>3. x.result # "not_run" /\ ~x.dated => e \in undated
  BY <1>2 DEF CyclesInv, DatesExplained
<1>4. ASSUME NEW row \in {Deleted} \cup ExecutionRow, UpdateRow(e, row),
             row # Deleted => /\ row.cycle = x.cycle /\ row.case = x.case
                              /\ row.result # "not_run" /\ ~row.dated => e \in undated
      PROVE  CyclesInv'
  <2>1. executions' = [executions EXCEPT ![e] = row] /\ UNCHANGED <<pool, cycleJob, doubled, undated>>
    BY <1>4 DEF UpdateRow
  <2> QED BY <1>1, <1>2, <1>4, <2>1, RowUpdated DEF CyclesInv
<1>5. CASE DeleteExecution(e)
  BY <1>4, <1>5 DEF DeleteExecution, UpdateRow
<1>6. ASSUME NEW result \in Recorded, RecordResult(e, result) PROVE CyclesInv'
  <2>1. PICK row : row = [x EXCEPT !.result = result, !.dated = Dated(x, result)]
    OBVIOUS
  <2>2. PICK dated \in BOOLEAN : dated = Dated(x, result) /\ (result # "not_run" => dated)
    BY DEF Dated, ExecutionRow
  <2>3. result \in Results
    BY CycleAssumption
  <2>4. row = [x EXCEPT !.result = result, !.dated = dated]
    BY <2>1, <2>2
  <2>5. row \in ExecutionRow /\ row.cycle = x.cycle /\ row.case = x.case /\ row.result = result /\ row.dated = dated
    BY <2>3, <2>4 DEF ExecutionRow
  <2> QED BY <1>2, <1>4, <1>6, <2>1, <2>2, <2>5 DEF RecordResult
<1>7. ASSUME NEW steps \in [StepOutcomes -> Nat], UpdateRow(e, [x EXCEPT !.steps = steps]) PROVE CyclesInv'
  <2>1. PICK row : row = [x EXCEPT !.steps = steps]
    OBVIOUS
  <2>2. /\ row \in ExecutionRow /\ row.cycle = x.cycle /\ row.case = x.case
        /\ row.result = x.result /\ row.dated = x.dated
    BY <2>1 DEF ExecutionRow
  <2> QED BY <1>3, <1>4, <1>7, <2>1, <2>2
<1>8. x.steps \in [StepOutcomes -> Nat]
  BY DEF ExecutionRow
<1>9. ASSUME NEW o \in StepOutcomes, CreateStepResult(e, o) PROVE CyclesInv'
  <2>1. PICK steps : steps = [x.steps EXCEPT ![o] = @ + 1]
    OBVIOUS
  <2>2. steps \in [StepOutcomes -> Nat]
    BY <1>8, <2>1
  <2>3. UpdateRow(e, [x EXCEPT !.steps = steps])
    BY <1>2, <1>9, <2>1 DEF CreateStepResult
  <2> QED BY <1>7, <2>2, <2>3
<1>10. ASSUME NEW o \in StepOutcomes, DeleteStepResult(e, o) PROVE CyclesInv'
  <2>1. PICK steps : steps = [x.steps EXCEPT ![o] = @ - 1]
    OBVIOUS
  <2>2. x.steps[o] > 0
    BY <1>2, <1>10 DEF DeleteStepResult
  <2>3. steps \in [StepOutcomes -> Nat]
    BY <1>8, <2>1, <2>2
  <2>4. UpdateRow(e, [x EXCEPT !.steps = steps])
    BY <1>2, <1>10, <2>1 DEF DeleteStepResult
  <2> QED BY <1>7, <2>3, <2>4
<1>11. ASSUME NEW o \in StepOutcomes, NEW new \in StepOutcomes, UpdateStepResult(e, o, new) PROVE CyclesInv'
  <2>1. PICK fewer : fewer = [x.steps EXCEPT ![o] = @ - 1]
    OBVIOUS
  <2>2. PICK steps : steps = [fewer EXCEPT ![new] = @ + 1]
    OBVIOUS
  <2>3. x.steps[o] > 0 /\ new # o
    BY <1>2, <1>11 DEF UpdateStepResult
  <2>4. fewer \in [StepOutcomes -> Nat]
    BY <1>8, <2>1, <2>3
  <2>5. steps \in [StepOutcomes -> Nat]
    BY <2>2, <2>4
  <2>6. UpdateRow(e, [x EXCEPT !.steps = steps])
    <3>1. UpdateRow(e, [x EXCEPT !.steps[o] = @ - 1, !.steps[new] = @ + 1])
      BY <1>2, <1>11 DEF UpdateStepResult
    <3>2. PICK y : y = x.steps
      OBVIOUS
    <3>3. steps = [y EXCEPT ![o] = y[o] - 1, ![new] = y[new] + 1]
      BY <1>8, <2>1, <2>2, <2>3, <3>2
    <3>4. [x EXCEPT !.steps[o] = @ - 1, !.steps[new] = @ + 1] = [x EXCEPT !.steps = steps]
      BY <3>2, <3>3 DEF ExecutionRow
    <3> QED BY <3>1, <3>4
  <2> QED BY <1>7, <2>5, <2>6
<1> QED BY <1>5, <1>6, <1>9, <1>10, <1>11

\* A result is derived.
LEMMA DerivationBegins ==
    ASSUME CyclesInv, NEW t \in CycleThreads, NEW e \in Executions, NEW byUpdate \in BOOLEAN,
           DeriveResult(t, e, byUpdate)
    PROVE  CyclesInv'
<1>1. PICK x \in ExecutionRow : x = executions[e]
  BY ExecutionsAre
<1>2. PICK result : result = derive_result_from_steps(x)
  OBVIOUS
<1>3. result \in Results
  BY <1>2 DEF derive_result_from_steps, Results, ExecutionRow
<1>4. PICK dated \in BOOLEAN : dated = (~byUpdate /\ Dated(x, result))
  OBVIOUS
<1>5. PICK job : job = [kind |-> "derive", id |-> e, byUpdate |-> byUpdate,
                        result |-> {result} \ {x.result}, dated |-> dated]
  OBVIOUS
<1>6. BeginJob(t, job)
  BY <1>1, <1>2, <1>4, <1>5 DEF DeriveResult
<1>7. /\ job.kind = "derive" /\ job.byUpdate = byUpdate /\ job.dated = dated
      /\ job.result = {} \/ job.result = {result}
  BY <1>5
<1>8. ~byUpdate /\ result # "not_run" => dated
  BY <1>4 DEF Dated
<1>9. CycleJobSound(job)
  BY <1>3, <1>7, <1>8 DEF CycleJobSound, DerivationSound
<1> QED BY <1>6, <1>9, CycleJobBegins

\* It is written, unless the execution is gone.
LEMMA DerivationCommits ==
    ASSUME CyclesInv, NEW t \in CycleThreads, CommitDerived(t)
    PROVE  CyclesInv'
<1>1. PICK job : job = cycleJob[t]
  OBVIOUS
<1>2. /\ job.kind = "derive" /\ EndJob(t) /\ UNCHANGED <<pool, doubled>>
      /\ undated' = IF job.byUpdate THEN undated \cup {job.id} ELSE undated
  BY <1>1 DEF CommitDerived
<1>3. DerivationSound(job)
  BY <1>1, <1>2 DEF CyclesInv, CycleJobSound
<1>4. /\ DOMAIN cycleJob' = CycleThreads
      /\ \A o \in CycleThreads : cycleJob'[o] = cycleJob[o] \/ CycleJobSound(cycleJob'[o])
  BY <1>2, CycleJobEnds
<1>5. undated \subseteq undated'
  BY <1>2
<1>6. CASE job.id \notin Executions
  <2>1. executions' = executions
    BY <1>1, <1>6 DEF CommitDerived
  <2>2. DoublesExplained' /\ DatesExplained'
    BY <1>2, <1>5, <2>1 DEF CyclesInv, DoublesExplained, DatesExplained, Executions, CaseOf
  <2>3. RowsStay
    BY <1>2, <2>1 DEF RowsStay, Executions, CyclesInv
  <2> QED BY <1>2, <1>4, <2>1, <2>2, <2>3, RowsStep DEF CyclesInv
<1>7. CASE job.id \in Executions
  <2>1. PICK x \in ExecutionRow : x = executions[job.id] /\ job.id \in DOMAIN executions /\ executions[job.id] # Deleted
    BY <1>7, ExecutionsAre DEF Executions
  <2>2. PICK result : result = IF job.result = {} THEN x.result ELSE CHOOSE r \in job.result : TRUE
    OBVIOUS
  <2>3. PICK dated \in BOOLEAN : dated = (x.dated \/ job.dated)
    OBVIOUS
  <2>4. result \in Results /\ (job.result = {} => result = x.result) /\ (job.result # {} => result \in job.result)
    BY <1>3, <2>2 DEF DerivationSound, ExecutionRow
  <2>5. PICK row : row = [x EXCEPT !.result = result, !.dated = dated]
    OBVIOUS
  <2>6. row \in ExecutionRow /\ row.cycle = x.cycle /\ row.case = x.case /\ row.result = result /\ row.dated = dated
    BY <2>4, <2>5 DEF ExecutionRow
  <2>7. executions' = [executions EXCEPT ![job.id] = row]
    BY <1>1, <1>7, <2>1, <2>2, <2>3, <2>5 DEF CommitDerived
  <2>8. ASSUME result # "not_run", ~dated PROVE job.id \in undated'
    <3>1. CASE job.byUpdate
      BY <1>2, <3>1
    <3>2. CASE ~job.byUpdate
      <4>1. job.result = {}
        BY <1>3, <2>3, <2>4, <2>8, <3>2 DEF DerivationSound
      <4>2. x.result # "not_run" /\ ~x.dated
        BY <2>3, <2>4, <2>8, <4>1
      <4> QED BY <1>5, <1>7, <2>1, <4>2 DEF CyclesInv, DatesExplained
    <3> QED BY <3>1, <3>2
  <2> QED BY <1>2, <1>4, <1>5, <2>1, <2>6, <2>7, <2>8, RowUpdated
<1> QED BY <1>6, <1>7

\* A tester enters an execution.
LEMMA CreationKeeps ==
    ASSUME CyclesInv, NEW c \in Cycles, NEW k \in Cases, NEW result \in Recorded, CreateExecution(c, k, result)
    PROVE  CyclesInv'
<1>1. PICK row : row = NewExecution(c, k, result)
  OBVIOUS
<1>2. /\ row \in ExecutionRow /\ row.cycle = c /\ row.case = k
      /\ row.result = result /\ (result # "not_run" => row.dated)
  BY <1>1, CycleAssumption DEF NewExecution, ExecutionRow, NoSteps
<1>3. /\ executions' = Append(executions, row) /\ UNCHANGED <<pool, cycleJob, undated>>
      /\ doubled' = IF k \in CasesIn(c) THEN doubled \cup {<<c, k>>} ELSE doubled
  BY <1>1 DEF CreateExecution
<1>4. PICK n \in Nat : n = Len(executions) /\ DOMAIN executions = 1 .. n
  BY DEF CyclesInv
<1>5. /\ executions' \in Seq({Deleted} \cup ExecutionRow) /\ Len(executions') = n + 1
      /\ DOMAIN executions' = 1 .. n + 1 /\ executions'[n + 1] = row
      /\ \A f \in 1 .. n : executions'[f] = executions[f]
  <2>1. PICK T : T = {Deleted} \cup ExecutionRow
    OBVIOUS
  <2>2. executions \in Seq(T) /\ row \in T
    BY <1>2, <2>1 DEF CyclesInv
  <2> QED BY <1>3, <1>4, <2>1, <2>2
<1>6. ASSUME NEW e \in Executions', e # n + 1
      PROVE  e \in Executions /\ e \in 1 .. n /\ executions'[e] = executions[e]
  <2>1. e \in 1 .. n + 1 /\ executions'[e] # Deleted
    BY <1>5 DEF Executions
  <2>2. e \in 1 .. n
    BY <1>4, <1>6, <2>1
  <2> QED BY <1>4, <1>5, <2>1, <2>2 DEF Executions
<1>7. RowsStay
  BY <1>3, <1>4, <1>5, <1>6 DEF RowsStay
<1>8. \A e \in Executions : executions[e].cycle = c /\ CaseOf(e) = k => <<c, k>> \in doubled'
  BY <1>3 DEF CasesIn, In
<1>9. ASSUME NEW e \in Executions', NEW f \in Executions', e # f,
             executions'[e].cycle = executions'[f].cycle, CaseOf(e)' = CaseOf(f)'
      PROVE  <<executions'[e].cycle, CaseOf(e)'>> \in doubled'
  <2>1. CASE e = n + 1
    <3>1. f \in Executions /\ executions[f].cycle = c /\ CaseOf(f) = k
      BY <1>2, <1>5, <1>6, <1>9, <2>1 DEF CaseOf
    <3> QED BY <1>2, <1>5, <1>8, <2>1, <3>1 DEF CaseOf
  <2>2. CASE f = n + 1
    <3>1. e \in Executions /\ executions[e].cycle = c /\ CaseOf(e) = k /\ executions'[e] = executions[e]
      BY <1>2, <1>5, <1>6, <1>9, <2>2 DEF CaseOf
    <3> QED BY <1>8, <3>1 DEF CaseOf
  <2>3. CASE e # n + 1 /\ f # n + 1
    <3>1. /\ e \in Executions /\ f \in Executions
          /\ executions'[e] = executions[e] /\ executions'[f] = executions[f]
      BY <1>6, <2>3
    <3>2. <<executions[e].cycle, CaseOf(e)>> \in doubled
      BY <1>9, <3>1 DEF CyclesInv, DoublesExplained, CaseOf
    <3> QED BY <1>7, <3>1, <3>2 DEF RowsStay, CaseOf
  <2> QED BY <2>1, <2>2, <2>3
<1>10. DatesExplained'
  BY <1>2, <1>3, <1>5, <1>6 DEF DatesExplained, CyclesInv
<1>11. DOMAIN cycleJob' = CycleThreads /\ \A t \in CycleThreads : cycleJob'[t] = cycleJob[t]
  BY <1>3 DEF CyclesInv
<1>12. pool' \subseteq Cases /\ doubled' \subseteq Cycles \X Cases
  BY <1>3 DEF CyclesInv
<1>13. DoublesExplained'
  BY <1>9 DEF DoublesExplained
<1> QED BY <1>5, <1>7, <1>10, <1>11, <1>12, <1>13, RowsStep

\* A request looks at the pool and the executions before it fills a cycle.
LEMMA PopulationBegins ==
    ASSUME CyclesInv, NEW t \in CycleThreads, NEW c \in Cycles, NEW from, NEW cases \in Seq(Cases),
           Populate(t, c, from, cases),
           \A i \in DOMAIN cases : NotYetIn(c, cases[i]),
           \A i, j \in DOMAIN cases : i # j /\ cases[i] = cases[j] => <<from, cases[i]>> \in doubled
    PROVE  CyclesInv'
<1>1. PICK job : job = [kind |-> "populate", cycle |-> c, from |-> from, cases |-> cases,
                        saw |-> Len(executions)]
  OBVIOUS
<1>2. BeginJob(t, job)
  BY <1>1 DEF Populate
<1>3. Len(executions) \in Nat
  BY ExecutionsAre
<1>4. \A e \in In(c) : CaseOf(e) \notin ToSet(cases)
  BY DEF NotYetIn, CasesIn, ToSet
<1>5. PopulationSound(job)
  BY <1>1, <1>3, <1>4 DEF PopulationSound
<1>6. CycleJobSound(job)
  BY <1>1, <1>5 DEF CycleJobSound
<1> QED BY <1>2, <1>6, CycleJobBegins

\* From the pool: each of its cases once, if the cycle has it not yet.
LEMMA PlanPopulates ==
    ASSUME CyclesInv, NEW t \in CycleThreads, NEW c \in Cycles, PopulateFromPlan(t, c)
    PROVE  CyclesInv'
<1>1. PICK S : S = {k \in pool : NotYetIn(c, k)}
  OBVIOUS
<1>2. S \subseteq Cases /\ \A k \in S : NotYetIn(c, k)
  BY <1>1 DEF CyclesInv
<1>3. IsFiniteSet(S)
  BY <1>2, CycleAssumption, FS_Subset
<1>4. PICK cases : cases = SetToSeq(S)
  OBVIOUS
<1>5. cases \in Seq(S) /\ \A i, j \in DOMAIN cases : cases[i] = cases[j] => i = j
  BY <1>3, <1>4, Listed
<1>6. \A i \in DOMAIN cases : cases[i] \in S
  BY <1>5
<1>7. cases \in Seq(Cases)
  BY <1>2, <1>5
<1>8. PICK from : from = 0
  OBVIOUS
<1>9. Populate(t, c, from, cases)
  BY <1>1, <1>4, <1>8 DEF PopulateFromPlan
<1> QED BY <1>2, <1>5, <1>6, <1>7, <1>9, PopulationBegins

\* From an earlier cycle: a case twice only if it was there twice.
LEMMA PreviousPopulates ==
    ASSUME CyclesInv, NEW t \in CycleThreads, NEW c \in Cycles, NEW prev \in Cycles,
           NEW filter, PopulateFromPrevious(t, c, prev, filter)
    PROVE  CyclesInv'
<1>1. PICK S : S = {e \in In(prev) : executions[e].result \in filter /\ NotYetIn(c, CaseOf(e))}
  OBVIOUS
<1>2. \A e \in S : e \in Executions /\ executions[e].cycle = prev /\ NotYetIn(c, CaseOf(e))
  BY <1>1 DEF In
<1>3. \A e \in S : CaseOf(e) \in Cases
  BY <1>2, ExecutionsAre DEF CaseOf, ExecutionRow
<1>4. IsFiniteSet(S)
  <2>1. PICK n \in Nat : n = Len(executions)
    BY ExecutionsAre
  <2>2. \A e \in S : e \in 1 .. n
    BY <1>2, <2>1, ExecutionsAre
  <2>3. IsFiniteSet(1 .. n)
    <3>1. 1 \in Int /\ n \in Int
      BY <2>1
    <3> QED BY <3>1, FS_Interval, Zenon
  <2> QED BY <2>2, <2>3, FS_Subset
<1>5. PICK carried : carried = SetToSeq(S)
  OBVIOUS
<1>6. carried \in Seq(S) /\ \A i, j \in DOMAIN carried : carried[i] = carried[j] => i = j
  BY <1>4, <1>5, Listed
<1>7. PICK cases : cases = [i \in DOMAIN carried |-> CaseOf(carried[i])]
  OBVIOUS
<1>8. DOMAIN cases = DOMAIN carried /\ \A i \in DOMAIN cases : carried[i] \in S /\ cases[i] = CaseOf(carried[i])
  BY <1>6, <1>7
<1>9. cases \in Seq(Cases)
  <2>1. PICK n \in Nat : DOMAIN carried = 1 .. n
    BY <1>6
  <2> QED BY <1>3, <1>7, <1>8, <2>1
<1>10. \A i \in DOMAIN cases : NotYetIn(c, cases[i])
  BY <1>2, <1>8
<1>11. ASSUME NEW i \in DOMAIN cases, NEW j \in DOMAIN cases, i # j, cases[i] = cases[j]
       PROVE  <<prev, cases[i]>> \in doubled
  <2>1. PICK e, f \in Executions : /\ e = carried[i] /\ f = carried[j] /\ e # f
                                  /\ CaseOf(e) = cases[i] /\ CaseOf(f) = cases[i]
                                  /\ executions[e].cycle = prev /\ executions[f].cycle = prev
    BY <1>2, <1>6, <1>8, <1>11
  <2> QED BY <2>1 DEF CyclesInv, DoublesExplained
<1>12. Populate(t, c, prev, cases)
  BY <1>1, <1>5, <1>7 DEF PopulateFromPrevious
<1> QED BY <1>9, <1>10, <1>11, <1>12, PopulationBegins

\* It fills the cycle with what it decided on.
LEMMA PopulationCommits ==
    ASSUME CyclesInv, NEW t \in CycleThreads, CommitPopulation(t)
    PROVE  CyclesInv'
<1>1. PICK job : job = cycleJob[t]
  OBVIOUS
<1>2. PICK c, cases, from, saw :
          /\ c \in Cycles /\ cases \in Seq(Cases) /\ saw \in Nat
          /\ c = job.cycle /\ cases = job.cases /\ from = job.from /\ saw = job.saw
          /\ \A i, j \in DOMAIN cases : i # j /\ cases[i] = cases[j] => <<from, cases[i]>> \in doubled
          /\ \A e \in In(c) : CaseOf(e) \in ToSet(cases) => e > saw
  <2>1. job.kind = "populate"
    BY <1>1 DEF CommitPopulation
  <2>2. PopulationSound(job)
    BY <1>1, <2>1 DEF CyclesInv, CycleJobSound
  <2>3. PICK c, cases, from, saw : c = job.cycle /\ cases = job.cases /\ from = job.from /\ saw = job.saw
    OBVIOUS
  <2>4. c \in Cycles /\ cases \in Seq(Cases) /\ saw \in Nat
    BY <2>2, <2>3, ExecutionsAre DEF PopulationSound
  <2>5. \A e \in In(c) : CaseOf(e) \in ToSet(cases) => e > saw
    BY <2>2, <2>3 DEF PopulationSound
  <2>6. \A i, j \in DOMAIN cases : i # j /\ cases[i] = cases[j] => <<from, cases[i]>> \in doubled
    BY <2>2, <2>3 DEF PopulationSound
  <2> QED BY <2>3, <2>4, <2>5, <2>6
<1>3. PICK new : new = [i \in DOMAIN cases |-> NewExecution(c, cases[i], "not_run")]
  OBVIOUS
<1>4. PICK again : again = {k \in ToSet(cases) : \/ k \in {CaseOf(e) : e \in {e \in In(c) : e > saw}}
                                               \/ <<from, k>> \in doubled}
  OBVIOUS
<1>5. /\ executions' = executions \o new /\ doubled' = doubled \cup {<<c, k>> : k \in again}
      /\ EndJob(t) /\ UNCHANGED <<pool, undated>>
  BY <1>1, <1>2, <1>3, <1>4 DEF CommitPopulation
<1>6. PICK n \in Nat : n = Len(executions) /\ DOMAIN executions = 1 .. n
  BY DEF CyclesInv
<1>7. PICK m \in Nat : m = Len(cases) /\ DOMAIN cases = 1 .. m
  BY <1>2
<1>8. \A i \in 1 .. m : /\ new[i] \in ExecutionRow /\ new[i].cycle = c /\ new[i].case = cases[i]
                       /\ new[i].result = "not_run" /\ cases[i] \in Cases
  BY <1>2, <1>3, <1>7 DEF NewExecution, ExecutionRow, NoSteps, Results
<1>9. new \in Seq(ExecutionRow) /\ Len(new) = m /\ DOMAIN new = 1 .. m
  BY <1>3, <1>7, <1>8
<1>10. /\ executions' \in Seq({Deleted} \cup ExecutionRow) /\ Len(executions') = n + m
       /\ DOMAIN executions' = 1 .. n + m
       /\ \A e \in 1 .. n : executions'[e] = executions[e]
       /\ \A e \in n + 1 .. n + m : e - n \in 1 .. m /\ executions'[e] = new[e - n]
  <2>1. PICK T : T = {Deleted} \cup ExecutionRow
    OBVIOUS
  <2>2. executions \in Seq(T) /\ new \in Seq(T)
    BY <1>9, <2>1 DEF CyclesInv
  <2>3. PICK all : all = executions \o new
    OBVIOUS
  <2>4. /\ all \in Seq(T) /\ Len(all) = Len(executions) + Len(new)
        /\ \A i \in 1 .. Len(executions) + Len(new) :
               all[i] = IF i <= Len(executions) THEN executions[i] ELSE new[i - Len(executions)]
    BY <2>2, <2>3, ConcatProperties
  <2>5. all \in Seq(T) /\ Len(all) = n + m /\ DOMAIN all = 1 .. n + m
    BY <1>6, <1>9, <2>4
  <2>6. \A e \in 1 .. n : all[e] = executions[e]
    BY <1>6, <1>9, <2>4
  <2>7. \A e \in n + 1 .. n + m : e - n \in 1 .. m /\ all[e] = new[e - n]
    BY <1>6, <1>7, <1>9, <2>4
  <2> QED BY <1>5, <2>1, <2>3, <2>5, <2>6, <2>7
\* A row is one that was there, or one of the request.
<1>11. ASSUME NEW e \in Executions'
       PROVE  \/ e \in Executions /\ e \in 1 .. n /\ executions'[e] = executions[e]
              \/ /\ e \in Nat /\ e > n /\ e - n \in 1 .. m /\ executions'[e].cycle = c
                 /\ executions'[e].case = cases[e - n] /\ executions'[e].result = "not_run"
  <2>1. e \in 1 .. n + m /\ executions'[e] # Deleted
    BY <1>10 DEF Executions
  <2>2. CASE e \in 1 .. n
    BY <1>6, <1>10, <2>1, <2>2 DEF Executions
  <2>3. CASE e \in n + 1 .. n + m
    BY <1>6, <1>7, <1>8, <1>10, <2>3
  <2> QED BY <1>6, <1>7, <2>1, <2>2, <2>3
<1>12. RowsStay
  BY <1>5, <1>6, <1>7, <1>10, <1>11 DEF RowsStay
<1>13. ASSUME NEW e \in Executions, executions[e].cycle = c, CaseOf(e) \in ToSet(cases)
       PROVE  <<c, CaseOf(e)>> \in doubled'
  BY <1>2, <1>4, <1>5, <1>13 DEF In
<1>14. ASSUME NEW e \in Executions', NEW f \in Executions', e # f,
              executions'[e].cycle = executions'[f].cycle, CaseOf(e)' = CaseOf(f)'
       PROVE  <<executions'[e].cycle, CaseOf(e)'>> \in doubled'
  <2>1. PICK k : k = executions'[e].case /\ k = executions'[f].case /\ k = CaseOf(e)'
    BY <1>14 DEF CaseOf
  <2>2. \A i \in 1 .. m : cases[i] \in ToSet(cases)
    BY <1>7 DEF ToSet
  <2>3. CASE e > n /\ f > n
    <3>1. /\ e \in Nat /\ f \in Nat /\ e - n \in 1 .. m /\ f - n \in 1 .. m
          /\ executions'[e].cycle = c /\ cases[e - n] = k /\ cases[f - n] = k
      <4>1. \A x \in Executions' : x > n => x \in Nat /\ x - n \in 1 .. m /\ executions'[x].cycle = c
                                             /\ executions'[x].case = cases[x - n]
        BY <1>6, <1>11
      <4> QED BY <2>1, <2>3, <4>1
    <3>2. e - n # f - n
      BY <1>6, <1>14, <3>1
    <3>3. <<from, k>> \in doubled /\ k \in ToSet(cases)
      BY <1>2, <1>7, <2>2, <3>1, <3>2
    <3> QED BY <1>4, <1>5, <2>1, <3>1, <3>3
  <2>4. CASE e > n /\ ~(f > n)
    <3>1. /\ executions'[e].cycle = c /\ k \in ToSet(cases)
          /\ f \in Executions /\ executions[f].cycle = c /\ CaseOf(f) = k
      BY <1>6, <1>11, <1>14, <2>1, <2>2, <2>4 DEF CaseOf
    <3> QED BY <1>13, <2>1, <3>1
  <2>5. CASE ~(e > n) /\ f > n
    <3>1. /\ executions'[e].cycle = c /\ k \in ToSet(cases)
          /\ e \in Executions /\ executions[e].cycle = c /\ CaseOf(e) = k
      BY <1>6, <1>11, <1>14, <2>1, <2>2, <2>5 DEF CaseOf
    <3> QED BY <1>13, <2>1, <3>1
  <2>6. CASE ~(e > n) /\ ~(f > n)
    <3>1. /\ e \in Executions /\ f \in Executions
          /\ executions'[e] = executions[e] /\ executions'[f] = executions[f]
      BY <1>6, <1>11, <2>6
    <3>2. <<executions[e].cycle, CaseOf(e)>> \in doubled
      BY <1>14, <3>1 DEF CyclesInv, DoublesExplained, CaseOf
    <3> QED BY <1>12, <3>1, <3>2 DEF RowsStay, CaseOf
  <2> QED BY <2>3, <2>4, <2>5, <2>6
<1>15. DatesExplained'
  BY <1>5, <1>11 DEF DatesExplained, CyclesInv
<1>16. /\ DOMAIN cycleJob' = CycleThreads
       /\ \A o \in CycleThreads : cycleJob'[o] = cycleJob[o] \/ CycleJobSound(cycleJob'[o])
  BY <1>5, CycleJobEnds
<1>17. pool' \subseteq Cases /\ doubled' \subseteq Cycles \X Cases
  <2>1. again \subseteq Cases
    BY <1>4, <1>7, <1>8 DEF ToSet
  <2>2. \A k \in again : k \in Cases /\ <<c, k>> \in Cycles \X Cases
    BY <1>2, <2>1
  <2>3. doubled' = doubled \cup {<<c, k>> : k \in again}
    BY <1>5
  <2>4. {<<c, k>> : k \in again} \subseteq Cycles \X Cases
    BY <2>2
  <2>5. doubled \subseteq Cycles \X Cases
    BY DEF CyclesInv
  <2>6. doubled' \subseteq Cycles \X Cases
    BY <2>3, <2>4, <2>5
  <2> QED BY <1>5, <2>6 DEF CyclesInv
<1>18. DoublesExplained'
  BY <1>14 DEF DoublesExplained
<1> QED BY <1>10, <1>12, <1>15, <1>16, <1>17, <1>18, RowsStep

\* At first there is no execution and no request.
LEMMA CyclesInitInv == CyclesInit => CyclesInv
<1> SUFFICES ASSUME CyclesInit PROVE CyclesInv
  OBVIOUS
<1>1. /\ pool = {} /\ executions = << >> /\ doubled = {}
      /\ cycleJob = [t \in CycleThreads |-> NoCycleJob]
  BY DEF CyclesInit
<1>2. executions \in Seq({Deleted} \cup ExecutionRow) /\ DOMAIN executions = {}
  BY <1>1
<1>3. Executions = {}
  BY <1>2 DEF Executions
<1>4. CycleJobSound(NoCycleJob)
  BY DEF CycleJobSound, NoCycleJob
<1> QED BY <1>1, <1>2, <1>3, <1>4 DEF CyclesInv, DoublesExplained, DatesExplained

\* Every step of the cycles keeps what explains them.
LEMMA CyclesStepInv == CyclesInv /\ [CyclesNext]_cycleVars => CyclesInv'
<1> SUFFICES ASSUME CyclesInv, [CyclesNext]_cycleVars PROVE CyclesInv'
  OBVIOUS
<1>1. CASE UNCHANGED cycleVars
  <2>1. UNCHANGED <<pool, executions, cycleJob, doubled, undated>>
    BY <1>1 DEF cycleVars
  <2>2. RowsStay
    BY <2>1 DEF RowsStay, Executions, CyclesInv
  <2>3. DoublesExplained' /\ DatesExplained'
    BY <2>1 DEF CyclesInv, DoublesExplained, DatesExplained, Executions, CaseOf
  <2> QED BY <2>1, <2>2, <2>3, RowsStep DEF CyclesInv
<1>2. ASSUME NEW t \in CycleThreads, NEW S \in SUBSET Cases, AddToPool(t, S) PROVE CyclesInv'
  <2>1. PICK job : job = [kind |-> "pool", cases |-> S \ pool]
    OBVIOUS
  <2>2. BeginJob(t, job) /\ CycleJobSound(job)
    BY <1>2, <2>1 DEF AddToPool, CycleJobSound
  <2> QED BY <2>2, CycleJobBegins
<1>3. ASSUME NEW t \in CycleThreads, NEW c \in Cycles, PopulateFromPlan(t, c) PROVE CyclesInv'
  BY <1>3, PlanPopulates
<1>4. ASSUME NEW t \in CycleThreads, NEW c \in Cycles, NEW prev \in Cycles, NEW filter,
             PopulateFromPrevious(t, c, prev, filter)
      PROVE  CyclesInv'
  BY <1>4, PreviousPopulates
<1>5. ASSUME NEW t \in CycleThreads, NEW e \in Executions, NEW byUpdate \in BOOLEAN, DeriveResult(t, e, byUpdate)
      PROVE  CyclesInv'
  BY <1>5, DerivationBegins
<1>6. ASSUME NEW t \in CycleThreads, CommitPool(t) \/ CommitPopulation(t) \/ CommitDerived(t) PROVE CyclesInv'
  BY <1>6, PoolKeeps, PopulationCommits, DerivationCommits
<1>7. ASSUME NEW k \in Cases, RemoveFromPool(k) PROVE CyclesInv'
  BY <1>7, PoolKeeps
<1>8. ASSUME NEW c \in Cycles, NEW k \in Cases, NEW result \in Recorded, CreateExecution(c, k, result)
      PROVE  CyclesInv'
  BY <1>8, CreationKeeps
<1>9. ASSUME NEW e \in Executions,
             \/ DeleteExecution(e)
             \/ \E result \in Recorded : RecordResult(e, result)
             \/ \E o \in StepOutcomes :
                 \/ CreateStepResult(e, o) \/ DeleteStepResult(e, o)
                 \/ \E new \in StepOutcomes : UpdateStepResult(e, o, new)
      PROVE  CyclesInv'
  BY <1>9, UpdatesKeep
<1> QED BY <1>1, <1>2, <1>3, <1>4, <1>5, <1>6, <1>7, <1>8, <1>9 DEF CyclesNext

\* A case is twice in a cycle only if a tester entered it again, two requests
\* overlapped or it was carried over from a cycle that had it twice, and a
\* result without a date was derived by an update, whatever the requests do.
THEOREM DoublesAreExplained == CyclesSpec => []ExecutionsExplained
<1>1. CyclesInv => ExecutionsExplained
  <2> SUFFICES ASSUME CyclesInv PROVE ExecutionsExplained
    OBVIOUS
  <2>1. CyclesTypeOK
    BY ExecutionsAre DEF CyclesInv, CyclesTypeOK, ExecutionRow
  <2> QED BY <2>1 DEF CyclesInv, ExecutionsExplained, DoublesExplained, DatesExplained
<1> QED BY <1>1, CyclesInitInv, CyclesStepInv, PTL DEF CyclesSpec

------------------------------------------------------------------------------
(* The records together                                                       *)

\* Each part of a behaviour before the release is a behaviour of its module.
LEMMA ReleaseParts ==
    MCSpec => DefectSpec /\ VersionsSpec /\ TransportSpec /\ AlmSpec /\ ApprovalSpec /\ ChangeSpec /\ CyclesSpec
<1>1. MCInit => DefectInit /\ VersionsInit /\ TransportInit /\ AlmInit /\ ApprovalInit /\ ChangeInit /\ CyclesInit
  BY DEF MCInit
<1>2. [MCNext]_releaseVars => /\ [DefectNext]_defectVars /\ [VersionsNext]_versionVars
                             /\ [TransportNext]_transportVars /\ [AlmNext]_almVars
                             /\ [ApprovalNext]_approvalVars /\ [ChangeNext]_changeVars
                             /\ [CyclesNext]_cycleVars
  BY DEF MCNext, releaseVars, testVars, Freeze, Review, Filling, Executing, Circuit, Overlap, Alone
<1> QED BY <1>1, <1>2, PTL
        DEF MCSpec, DefectSpec, VersionsSpec, TransportSpec, AlmSpec, ApprovalSpec, ChangeSpec, CyclesSpec

\* Before a release the history of a defect, the versions of a test case, the
\* log of a transport, the rows of the synchronisation, the status of a change
\* and the executions of a plan tell no lie, whatever requests overlap.
THEOREM RecordsAgree ==
    MCSpec => [](/\ DefectAudited /\ VersionsAgree /\ AuditTrail
                 /\ SyncTruthful /\ StatusExplained /\ ExecutionsExplained)
BY ReleaseParts, HistoryExplains, VersionsHold, ImportsAudited, SyncIsTruthful, StatusesExplained,
   DoublesAreExplained, PTL

\* The rows of all parts stay well formed, and the status of a test case agrees
\* with the records of its approval.
THEOREM ApprovalsCohere == MCSpec => []ApprovalCoherent
<1>1. VersionInv => VersionsTypeOK
  BY DEF VersionInv
<1>2. ApprovalTypeOK /\ StatusFollowsRecords /\ ChangeTypeOK /\ VersionsTypeOK /\ AlmTypeOK => ApprovalCoherent
  BY DEF ApprovalCoherent, ReleaseTypeOK
<1>3. VersionsSpec => []VersionsTypeOK
  BY <1>1, VersionsInitInv, VersionStepInv, PTL DEF VersionsSpec
<1> QED BY <1>2, <1>3, AlmTypesHold, ReleaseParts, ApprovalsDecide, StatusesExplained, PTL
==============================================================================
