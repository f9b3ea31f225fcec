----------------------------- MODULE ExploreProofs -----------------------------
(* The requirements, their open items and their conversion, and the way of a  *)
(* backlog item to deployment: the invariants that hold for any number of     *)
(* rows and threads, and the proofs that every step keeps them.               *)
EXTENDS MCExplore, TLAPS

------------------------------------------------------------------------------
(* Requirements and their conversion                                          *)

Mapped == {"mapped", "ready_for_test", "validated"}
ReqRows == [status : ReqStatuses \cup {Absent}, delivery : DeliveryStatuses]

\* A row agrees with whether the requirement has an item; a requirement that
\* does not exist yet has none.
Right(row, converted) ==
    /\ row.status \in Delivering => converted
    /\ converted <=> row.delivery \in Mapped
    /\ row.status = Absent => row.delivery = "none"

\* What a request may be about to commit.
UpdateJob(job) ==
    /\ job.op = "update"
    /\ DOMAIN job.set \subseteq Reqs
    /\ \A r \in DOMAIN job.set :
           /\ "status" \in DOMAIN job.set[r] => job.set[r]["status"] \in ReqStatuses
           /\ "delivery" \in DOMAIN job.set[r] => job.set[r]["delivery"] \in DeliveryStatuses
    /\ job.converts \subseteq Reqs /\ job.deletes \subseteq Items
    /\ job.converts = {} \/ job.deletes = {}

ItemJob(job) == job.op = "item" /\ job.item \in OpenItems /\ job.to \in ItemStatuses

ReqJobOK(job) == job = Free \/ UpdateJob(job) \/ ItemJob(job)

\* The row it will leave, and whether an item will be there.
RowAfter(r, job) == IF r \in DOMAIN job.set THEN Written(req[r], job.set[r]) ELSE req[r]
ConvertedAfter(r, job) == r \in job.converts \/ \E i \in ItemsOf(r) : i \notin job.deletes

\* What it knows when nothing overlaps it: it leaves rows that are right,
\* converts only what has no item, and reports what its close unblocks.
Knows(job) ==
    /\ job.op = "update" =>
           /\ \A r \in Reqs \ handled :
                  /\ r \in job.converts => ItemsOf(r) = {} /\ r \in DOMAIN job.set
                  /\ r \in DOMAIN job.set => req[r].status # Absent
           /\ \A r \in Reqs \ (pushedAnyway \cup handled) : Right(RowAfter(r, job), ConvertedAfter(r, job))
    /\ job.op = "item" /\ job.to = "closed" => job.unblocked = CheckUnblockedRequirements(job.item)

Serial ==
    /\ \A t, o \in ReqThreads : reqJob[t] # Free /\ reqJob[o] # Free => t = o
    /\ ConvertedOnce
    /\ \A r \in Reqs \ handled : req[r].status = Absent => ItemsOf(r) = {}
    /\ \A r \in Reqs \ (pushedAnyway \cup handled) : Right(req[r], IsConverted(r))
    /\ \A t \in ReqThreads : Knows(reqJob[t])

ReqInv ==
    /\ req \in [Reqs -> ReqRows]
    /\ openItem \in [OpenItems -> ItemStatuses \cup {Absent}]
    /\ link \in [Reqs \X OpenItems -> {"none", "blocks", "related"}]
    /\ \A r \in Reqs, o \in OpenItems : link[r, o] # "none" => openItem[o] # Absent
    /\ owner \in [Items -> Reqs \cup {Unused, Gone, NoRequirement}]
    /\ worked \subseteq {i \in Items : owner[i] \in Reqs \cup {NoRequirement}}
    /\ reqJob = [t \in ReqThreads |-> reqJob[t]]
    /\ \A t \in ReqThreads : ReqJobOK(reqJob[t])
    /\ ~reqRaced => Serial

\* No status is the mark of a row that does not exist.
LEMMA AbsentIsNoStatus ==
    /\ Absent \notin ReqStatuses /\ Absent \notin ItemStatuses
    /\ Absent \notin Delivering /\ "none" \in DeliveryStatuses /\ "none" \notin Mapped
    /\ \A a \in ReqActions : REQUIREMENT_TRANSITIONS[a].to \in ReqStatuses /\ Absent \notin REQUIREMENT_TRANSITIONS[a].from
    /\ \A a \in DOMAIN OI_TRANSITIONS : OI_TRANSITIONS[a].to \in ItemStatuses /\ Absent \notin OI_TRANSITIONS[a].from
<1>1. \A a \in ReqActions : REQUIREMENT_TRANSITIONS[a].to \in ReqStatuses
  BY DEF ReqStatuses
<1>2. \A a \in ReqActions : REQUIREMENT_TRANSITIONS[a].to # "absent" /\ "absent" \notin REQUIREMENT_TRANSITIONS[a].from
  BY DEF ReqActions, REQUIREMENT_TRANSITIONS
<1>3. \A a \in DOMAIN OI_TRANSITIONS : OI_TRANSITIONS[a].to # "absent" /\ "absent" \notin OI_TRANSITIONS[a].from
  BY DEF OI_TRANSITIONS
<1>4. \A a \in DOMAIN OI_TRANSITIONS : OI_TRANSITIONS[a].to \in ItemStatuses
  BY DEF ItemStatuses
<1> QED BY <1>1, <1>2, <1>3, <1>4 DEF Absent, ReqStatuses, ItemStatuses, Delivering, DeliveryStatuses, Mapped

\* Overwriting a row.
LEMMA WrittenRowOK ==
    ASSUME NEW row \in ReqRows, NEW set,
           "status" \in DOMAIN set => set["status"] \in ReqStatuses,
           "delivery" \in DOMAIN set => set["delivery"] \in DeliveryStatuses
    PROVE  Written(row, set) \in ReqRows
<1>1. PICK w : w = Written(row, set)
  OBVIOUS
<1>2. row = [status |-> row.status, delivery |-> row.delivery] /\ row.status \in ReqStatuses \cup {Absent}
      /\ row.delivery \in DeliveryStatuses /\ DOMAIN row = {"status", "delivery"}
  BY DEF ReqRows
<1>3. w = [a \in {"status", "delivery"} |-> IF a \in DOMAIN set THEN set[a] ELSE row[a]]
  BY <1>1, <1>2 DEF Written
<1>4. w = [status |-> w["status"], delivery |-> w["delivery"]]
  BY <1>3
<1>5. w["status"] \in ReqStatuses \cup {Absent} /\ w["delivery"] \in DeliveryStatuses
  BY <1>2, <1>3
<1> QED BY <1>1, <1>4, <1>5 DEF ReqRows

\* Writing what differs gives the row that was meant.
LEMMA ChangedIsMeant ==
    ASSUME NEW r \in Reqs, req[r] \in ReqRows, NEW new \in ReqRows, new.status \in ReqStatuses
    PROVE  /\ Written(req[r], Changed(r, new)) = new
           /\ "status" \in DOMAIN Changed(r, new) => Changed(r, new)["status"] \in ReqStatuses
           /\ "delivery" \in DOMAIN Changed(r, new) => Changed(r, new)["delivery"] \in DeliveryStatuses
<1>1. PICK row \in ReqRows : row = req[r]
  OBVIOUS
<1>2. PICK set : set = Changed(r, new)
  OBVIOUS
<1>3. DOMAIN row = {"status", "delivery"} /\ DOMAIN new = {"status", "delivery"}
      /\ new.delivery \in DeliveryStatuses /\ new = [status |-> new.status, delivery |-> new.delivery]
      /\ new = [a \in {"status", "delivery"} |-> new[a]]
  BY DEF ReqRows
<1>4. set = [a \in {b \in {"status", "delivery"} : new[b] # row[b]} |-> new[a]]
  BY <1>1, <1>2, <1>3 DEF Changed
<1>5. /\ DOMAIN set \subseteq {"status", "delivery"}
      /\ \A a \in DOMAIN set : set[a] = new[a]
      /\ \A a \in {"status", "delivery"} : a \notin DOMAIN set => row[a] = new[a]
  BY <1>4
<1>6. Written(row, set) = [a \in {"status", "delivery"} |-> new[a]]
  BY <1>3, <1>5 DEF Written
<1> QED BY <1>1, <1>2, <1>3, <1>5, <1>6

\* At first there is nothing.
LEMMA ReqInitInv == RequirementsInit => ReqInv
<1> SUFFICES ASSUME RequirementsInit PROVE ReqInv
  OBVIOUS
<1>1. /\ req = [r \in Reqs |-> [status |-> Absent, delivery |-> "none"]]
      /\ openItem = [o \in OpenItems |-> Absent] /\ link = [p \in Reqs \X OpenItems |-> "none"]
      /\ owner = [i \in Items |-> Unused] /\ worked = {} /\ reqJob = [t \in ReqThreads |-> Free]
  BY DEF RequirementsInit
<1>2. req \in [Reqs -> ReqRows]
  BY <1>1, AbsentIsNoStatus DEF ReqRows
<1>3. \A r \in Reqs : ItemsOf(r) = {}
  BY <1>1, RequirementsAssumption DEF ItemsOf
<1>4. \A r \in Reqs : Right(req[r], IsConverted(r))
  BY <1>1, <1>3, AbsentIsNoStatus DEF Right, IsConverted
<1>5. \A t \in ReqThreads : reqJob[t] = Free /\ ReqJobOK(reqJob[t]) /\ Knows(reqJob[t])
  BY <1>1 DEF ReqJobOK, Knows, Free
<1>6. \A r \in Reqs, o \in OpenItems : link[r, o] = "none"
  BY <1>1
<1>7. Serial
  BY <1>3, <1>4, <1>5 DEF Serial, ConvertedOnce
<1> QED BY <1>1, <1>2, <1>5, <1>6, <1>7 DEF ReqInv

\* A request begins.
LEMMA ReqBegins ==
    ASSUME ReqInv, NEW t \in ReqThreads, NEW job, BeginRequest(t, job), ReqJobOK(job),
           pushedAnyway \subseteq pushedAnyway',
           (\A o \in ReqThreads : reqJob[o] = Free) => Knows(job)'
    PROVE  ReqInv'
<1>1. /\ UNCHANGED <<req, openItem, link, owner, worked, handled>> /\ ~reqRaced /\ reqJob[t] = Free
      /\ reqJob' = [reqJob EXCEPT ![t] = job] /\ reqRaced' = (reqRaced \/ \E o \in ReqThreads \ {t} : reqJob[o] # Free)
  BY DEF BeginRequest
<1>2. /\ reqJob' = [o \in ReqThreads |-> reqJob'[o]] /\ reqJob'[t] = job
      /\ \A o \in ReqThreads \ {t} : reqJob'[o] = reqJob[o]
  BY <1>1 DEF ReqInv
<1>3. \A o \in ReqThreads : ReqJobOK(reqJob'[o])
  BY <1>2 DEF ReqInv
<1>4. \A o \in ReqThreads : ReqJobOK(reqJob[o])'
  BY <1>3 DEF ReqJobOK, UpdateJob, ItemJob
<1>5. ASSUME ~reqRaced' PROVE Serial'
  <2>1. Serial /\ \A o \in ReqThreads : reqJob[o] = Free
    BY <1>1, <1>5 DEF ReqInv
  <2>2. Knows(job)'
    BY <2>1
  <2>3. \A o \in ReqThreads : o # t => reqJob'[o] = Free
    BY <1>2, <2>1
  <2>4. \A o \in ReqThreads : Knows(reqJob[o])'
    <3>1. Knows(Free)'
      BY DEF Knows, Free
    <3> QED BY <1>2, <2>2, <2>3, <3>1
  <2>5. ConvertedOnce' /\ \A r \in Reqs \ handled' : req'[r].status = Absent => ItemsOf(r)' = {}
    BY <1>1, <2>1 DEF Serial, ConvertedOnce, ItemsOf
  <2>6. \A r \in Reqs \ (pushedAnyway' \cup handled') : Right(req'[r], IsConverted(r)')
    BY <1>1, <2>1 DEF Serial, IsConverted, ItemsOf
  <2>7. \A r, o \in ReqThreads : reqJob'[r] # Free /\ reqJob'[o] # Free => r = o
    BY <2>3
  <2> QED BY <2>4, <2>5, <2>6, <2>7 DEF Serial, Right
<1> QED BY <1>1, <1>2, <1>4, <1>5 DEF ReqInv

\* A request that updates begins, knowing what it means to leave.
LEMMA UpdateBegins ==
    ASSUME ReqInv, NEW t \in ReqThreads, NEW new, NEW converts \in SUBSET Reqs, NEW deletes \in SUBSET Items,
           BeginUpdate(t, new, converts, deletes), DOMAIN new \subseteq Reqs,
           \A r \in DOMAIN new : new[r] \in ReqRows /\ new[r].status \in ReqStatuses,
           converts = {} \/ deletes = {}, pushedAnyway \subseteq pushedAnyway',
           Serial => \A r \in Reqs \ handled :
               /\ r \in converts => ItemsOf(r) = {} /\ r \in DOMAIN new
               /\ r \in DOMAIN new => req[r].status # Absent
               /\ r \in DOMAIN new /\ r \notin pushedAnyway' =>
                      Right(new[r], r \in converts \/ \E i \in ItemsOf(r) : i \notin deletes)
               /\ r \notin DOMAIN new => ItemsOf(r) \cap deletes = {}
    PROVE  ReqInv'
<1>1. PICK job : job = [op |-> "update", set |-> [r \in DOMAIN new |-> Changed(r, new[r])],
                        converts |-> converts, deletes |-> deletes]
  OBVIOUS
<1>2. BeginRequest(t, job)
  BY <1>1 DEF BeginUpdate
<1>3. /\ job.op = "update" /\ DOMAIN job.set = DOMAIN new /\ job.converts = converts /\ job.deletes = deletes
      /\ \A r \in DOMAIN new : job.set[r] = Changed(r, new[r])
  BY <1>1
<1>4. ASSUME NEW r \in DOMAIN new
      PROVE  /\ Written(req[r], job.set[r]) = new[r]
             /\ "status" \in DOMAIN job.set[r] => job.set[r]["status"] \in ReqStatuses
             /\ "delivery" \in DOMAIN job.set[r] => job.set[r]["delivery"] \in DeliveryStatuses
  <2>1. r \in Reqs /\ req[r] \in ReqRows /\ new[r] \in ReqRows /\ new[r].status \in ReqStatuses
    BY DEF ReqInv
  <2>2. PICK n \in ReqRows : n = new[r]
    BY <2>1
  <2>3. /\ Written(req[r], Changed(r, n)) = n
        /\ "status" \in DOMAIN Changed(r, n) => Changed(r, n)["status"] \in ReqStatuses
        /\ "delivery" \in DOMAIN Changed(r, n) => Changed(r, n)["delivery"] \in DeliveryStatuses
    BY <2>1, <2>2, ChangedIsMeant
  <2> QED BY <1>3, <2>2, <2>3
<1>5. ReqJobOK(job)
  BY <1>3, <1>4 DEF ReqJobOK, UpdateJob
<1>6. /\ UNCHANGED <<req, openItem, link, owner, worked, handled>> /\ ~reqRaced
      /\ \A r : ItemsOf(r)' = ItemsOf(r)
  BY <1>2 DEF BeginRequest, ItemsOf
<1>7. Knows(job)'
  <2>1. Serial
    BY <1>6 DEF ReqInv
  <2>2. ASSUME NEW r \in Reqs, r \notin handled
        PROVE  /\ r \in job.converts => ItemsOf(r)' = {} /\ r \in DOMAIN job.set
               /\ r \in DOMAIN job.set => req'[r].status # Absent
    BY <1>3, <1>6, <2>1, <2>2
  <2>3. ASSUME NEW r \in Reqs, r \notin handled, r \notin pushedAnyway'
        PROVE  Right(RowAfter(r, job)', ConvertedAfter(r, job)')
    <3>1. CASE r \in DOMAIN new
      <4>1. RowAfter(r, job)' = new[r]
        BY <1>3, <1>4, <1>6, <3>1 DEF RowAfter, Written
      <4>2. ConvertedAfter(r, job)' <=> (r \in converts \/ \E i \in ItemsOf(r) : i \notin deletes)
        BY <1>3, <1>6 DEF ConvertedAfter
      <4>3. Right(new[r], r \in converts \/ \E i \in ItemsOf(r) : i \notin deletes)
        BY <2>1, <2>3, <3>1
      <4> QED BY <4>1, <4>2, <4>3 DEF Right
    <3>2. CASE r \notin DOMAIN new
      <4>1. RowAfter(r, job)' = req[r]
        BY <1>3, <1>6, <3>2 DEF RowAfter
      <4>2. r \notin converts /\ ItemsOf(r) \cap deletes = {}
        BY <2>1, <2>3, <3>2
      <4>3. ConvertedAfter(r, job)' <=> IsConverted(r)
        BY <1>3, <1>6, <4>2 DEF ConvertedAfter, IsConverted
      <4>4. Right(req[r], IsConverted(r))
        BY <2>1, <2>3 DEF Serial
      <4> QED BY <4>1, <4>3, <4>4 DEF Right
    <3> QED BY <3>1, <3>2
  <2> QED BY <1>3, <1>6, <2>2, <2>3 DEF Knows, Right
<1> QED BY <1>2, <1>5, <1>7, ReqBegins

\* An update commits.
LEMMA UpdateCommits == ASSUME ReqInv, NEW t \in ReqThreads, CommitUpdate(t) PROVE ReqInv'
<1>1. PICK job : job = reqJob[t]
  OBVIOUS
<1>2. UpdateJob(job)
  <2>1. job.op = "update" /\ ReqJobOK(job)
    BY <1>1 DEF CommitUpdate, ReqInv
  <2> QED BY <2>1 DEF ReqJobOK, Free, ItemJob
<1>3. PICK new \in [job.converts -> {i \in Items : owner[i] = Unused}] :
          /\ \A r, s \in job.converts : new[r] = new[s] => r = s
          /\ owner' = [i \in Items |->
                 IF i \in job.deletes THEN Gone
                 ELSE IF \E r \in job.converts : new[r] = i
                      THEN CHOOSE r \in job.converts : new[r] = i
                      ELSE owner[i]]
  BY <1>1 DEF CommitUpdate
<1>4. /\ req' = [r \in Reqs |-> IF r \in DOMAIN job.set THEN Written(req[r], job.set[r]) ELSE req[r]]
      /\ worked' = worked \ job.deletes /\ reqJob' = [reqJob EXCEPT ![t] = Free]
      /\ UNCHANGED <<openItem, link, reqRaced, pushedAnyway, handled>>
  BY <1>1 DEF CommitUpdate, RemainingWork, reqHistory
<1>5. \A r \in Reqs : req'[r] = RowAfter(r, job)
  BY <1>4 DEF RowAfter
<1>6. req' \in [Reqs -> ReqRows]
  <2>1. ASSUME NEW r \in Reqs PROVE req'[r] \in ReqRows
    <3>1. req[r] \in ReqRows
      BY DEF ReqInv
    <3>2. CASE r \in DOMAIN job.set
      <4>1. Written(req[r], job.set[r]) \in ReqRows
        BY <1>2, <3>1, <3>2, WrittenRowOK DEF UpdateJob
      <4> QED BY <1>4, <3>2, <4>1
    <3> QED BY <1>4, <3>1, <3>2
  <2> QED BY <1>4, <2>1
<1>7. ASSUME NEW r \in job.converts PROVE owner'[new[r]] = r /\ new[r] \in Items
  <2>1. new[r] \in Items /\ new[r] \notin job.deletes
    BY <1>2, <1>3, <1>7 DEF UpdateJob
  <2>2. owner'[new[r]] = CHOOSE s \in job.converts : new[s] = new[r]
    BY <1>3, <1>7, <2>1
  <2> QED BY <1>3, <1>7, <2>1, <2>2
<1>8. \A i \in Items : \/ i \in job.deletes /\ owner'[i] = Gone
                       \/ \E r \in job.converts : i = new[r] /\ owner'[i] = r
                       \/ i \notin job.deletes /\ (\A r \in job.converts : i # new[r]) /\ owner'[i] = owner[i]
  BY <1>3, <1>7
<1>9. owner' \in [Items -> Reqs \cup {Unused, Gone, NoRequirement}]
  BY <1>2, <1>3, <1>8 DEF ReqInv, UpdateJob
<1>10. worked' \subseteq {i \in Items : owner'[i] \in Reqs \cup {NoRequirement}}
  <2>1. ASSUME NEW i \in worked, i \notin job.deletes PROVE i \in Items /\ owner'[i] \in Reqs \cup {NoRequirement}
    <3>1. i \in Items /\ owner[i] \in Reqs \cup {NoRequirement}
      BY DEF ReqInv
    <3>2. job.converts \subseteq Reqs
      BY <1>2 DEF UpdateJob
    <3> QED BY <1>8, <2>1, <3>1, <3>2
  <2> QED BY <1>4, <2>1
<1>11. ASSUME NEW r \in Reqs, NEW i
       PROVE  i \in ItemsOf(r)' <=> (i \in ItemsOf(r) /\ i \notin job.deletes) \/ (r \in job.converts /\ i = new[r])
  <2>1. \A s \in job.converts : owner[new[s]] = Unused /\ Unused # r /\ Gone # r
    BY <1>3, RequirementsAssumption
  <2> QED BY <1>7, <1>8, <2>1, RequirementsAssumption DEF ItemsOf
<1>12. /\ reqJob' = [o \in ReqThreads |-> reqJob'[o]] /\ reqJob'[t] = Free
       /\ \A o \in ReqThreads \ {t} : reqJob'[o] = reqJob[o]
  BY <1>4 DEF ReqInv
<1>13. \A o \in ReqThreads : ReqJobOK(reqJob[o])'
  BY <1>4, <1>12 DEF ReqInv, ReqJobOK, UpdateJob, ItemJob
<1>14. ASSUME ~reqRaced' PROVE Serial'
  <2>1. Serial /\ Knows(job)
    BY <1>1, <1>4, <1>14 DEF ReqInv, Serial
  <2>2. \A o \in ReqThreads : reqJob'[o] = Free
    <3>1. job # Free
      BY <1>2 DEF UpdateJob, Free
    <3> QED BY <1>1, <1>12, <2>1, <3>1 DEF Serial
  <2>3. \A o \in ReqThreads : Knows(reqJob[o])'
    BY <2>2 DEF Knows, Free
  <2>4. ConvertedOnce'
    <3>1. ASSUME NEW r \in Reqs \ handled, NEW i \in ItemsOf(r)', NEW j \in ItemsOf(r)' PROVE i = j
      <4>1. r \in job.converts => ItemsOf(r) = {}
        BY <1>2, <2>1 DEF Knows, UpdateJob
      <4>2. \A x, y \in ItemsOf(r) : x = y
        BY <1>4, <1>14, <2>1 DEF Serial, ConvertedOnce
      <4> QED BY <1>11, <4>1, <4>2
    <3> QED BY <1>4, <3>1 DEF ConvertedOnce
  <2>5. ASSUME NEW r \in Reqs \ (pushedAnyway \cup handled) PROVE Right(req'[r], IsConverted(r)')
    <3>1. IsConverted(r)' <=> ConvertedAfter(r, job)
      BY <1>11 DEF IsConverted, ConvertedAfter
    <3>2. Right(RowAfter(r, job), ConvertedAfter(r, job))
      BY <1>2, <2>1 DEF Knows, UpdateJob
    <3> QED BY <1>5, <3>1, <3>2 DEF Right
  <2>6. ASSUME NEW r \in Reqs \ handled, req'[r].status = Absent PROVE ItemsOf(r)' = {}
    <3>1. r \in DOMAIN job.set => req[r].status # Absent
      BY <1>2, <2>1 DEF Knows, UpdateJob
    <3>2. r \notin DOMAIN job.set
      <4>1. ASSUME r \in DOMAIN job.set PROVE FALSE
        <5>1. req'[r] = Written(req[r], job.set[r]) /\ req[r] \in ReqRows
          BY <1>4, <4>1 DEF ReqInv
        <5>2. req'[r].status \in {req[r].status} \cup ReqStatuses
          BY <1>2, <4>1, <5>1 DEF Written, ReqRows, UpdateJob
        <5> QED BY <2>6, <3>1, <4>1, <5>2, AbsentIsNoStatus
      <4> QED BY <4>1
    <3>3. req'[r] = req[r] /\ r \notin job.converts
      BY <1>2, <1>4, <2>1, <3>2 DEF Knows, UpdateJob
    <3>4. ItemsOf(r) = {}
      BY <2>1, <2>6, <3>3 DEF Serial
    <3> QED BY <1>11, <3>3, <3>4
  <2> QED BY <1>4, <2>2, <2>3, <2>4, <2>5, <2>6 DEF Serial, Right
<1> QED BY <1>4, <1>6, <1>9, <1>10, <1>12, <1>13, <1>14 DEF ReqInv

\* An open item gets its new status.
LEMMA OpenItemCommits == ASSUME ReqInv, NEW t \in ReqThreads, CommitOpenItem(t) PROVE ReqInv'
<1>1. PICK job : job = reqJob[t]
  OBVIOUS
<1>2. ItemJob(job)
  <2>1. job.op = "item" /\ ReqJobOK(job)
    BY <1>1 DEF CommitOpenItem, ReqInv
  <2> QED BY <2>1 DEF ReqJobOK, Free, UpdateJob
<1>3. /\ openItem' = [openItem EXCEPT ![job.item] = job.to] /\ reqJob' = [reqJob EXCEPT ![t] = Free]
      /\ UNCHANGED <<req, link, owner, worked, reqRaced, pushedAnyway, handled>>
  BY <1>1 DEF CommitOpenItem, reqHistory
<1>4. /\ openItem' \in [OpenItems -> ItemStatuses \cup {Absent}]
      /\ \A r \in Reqs, o \in OpenItems : link[r, o] # "none" => openItem'[o] # Absent
  <2>1. job.item \in OpenItems /\ job.to \in ItemStatuses /\ job.to # Absent
    BY <1>2, AbsentIsNoStatus DEF ItemJob
  <2>2. \A o \in OpenItems : openItem'[o] = IF o = job.item THEN job.to ELSE openItem[o]
    BY <1>3 DEF ReqInv
  <2>3. openItem' \in [OpenItems -> ItemStatuses \cup {Absent}]
    BY <1>3, <2>1 DEF ReqInv
  <2>4. \A r \in Reqs, o \in OpenItems : link[r, o] # "none" => openItem[o] # Absent
    BY DEF ReqInv
  <2> QED BY <2>1, <2>2, <2>3, <2>4
<1>5. /\ reqJob' = [o \in ReqThreads |-> reqJob'[o]] /\ reqJob'[t] = Free
      /\ \A o \in ReqThreads \ {t} : reqJob'[o] = reqJob[o]
  BY <1>3 DEF ReqInv
<1>6. \A o \in ReqThreads : ReqJobOK(reqJob[o])'
  BY <1>3, <1>5 DEF ReqInv, ReqJobOK, UpdateJob, ItemJob
<1>7. ASSUME ~reqRaced' PROVE Serial'
  <2>1. Serial
    BY <1>3, <1>7 DEF ReqInv
  <2>2. \A o \in ReqThreads : reqJob'[o] = Free
    <3>1. job # Free
      BY <1>2 DEF ItemJob, Free
    <3> QED BY <1>1, <1>5, <2>1, <3>1 DEF Serial
  <2>3. \A o \in ReqThreads : Knows(reqJob[o])'
    BY <2>2 DEF Knows, Free
  <2>4. \A r : ItemsOf(r)' = ItemsOf(r)
    BY <1>3 DEF ItemsOf
  <2> QED BY <1>3, <2>1, <2>2, <2>3, <2>4 DEF Serial, ConvertedOnce, IsConverted, Right
<1> QED BY <1>3, <1>4, <1>5, <1>6, <1>7 DEF ReqInv

\* What others do to the same rows leaves a running request right in what it
\* knows: they mark what they edit, or touch what no request is about.
LEMMA OthersLeaveSerial ==
    ASSUME Serial, reqJob' = reqJob, pushedAnyway' = pushedAnyway, handled \subseteq handled',
           \A r \in Reqs \ handled' :
               /\ ItemsOf(r)' = ItemsOf(r)
               /\ \/ req'[r] = req[r]
                  \/ req[r].status = Absent /\ req'[r].status = "draft" /\ req'[r].delivery = req[r].delivery,
           ~reqRaced, \A t \in ReqThreads : reqJob[t].op = "item" =>
               CheckUnblockedRequirements(reqJob[t].item)' = CheckUnblockedRequirements(reqJob[t].item)
    PROVE  Serial'
<1>1. ConvertedOnce /\ ConvertedOnce'
  <2>1. ConvertedOnce
    BY DEF Serial
  <2>2. ASSUME ~reqRaced', NEW r \in Reqs \ handled', NEW i \in ItemsOf(r)', NEW j \in ItemsOf(r)' PROVE i = j
    BY <2>1, <2>2 DEF ConvertedOnce
  <2> QED BY <2>1, <2>2 DEF ConvertedOnce
<1>2. ASSUME NEW r \in Reqs \ (pushedAnyway' \cup handled') PROVE Right(req'[r], IsConverted(r)')
  <2>1. Right(req[r], IsConverted(r))
    BY DEF Serial
  <2> QED BY <2>1 DEF Right, IsConverted, Delivering, Absent, Mapped
<1>3. ASSUME NEW t \in ReqThreads PROVE Knows(reqJob[t])'
  <2>1. PICK job : job = reqJob[t]
    OBVIOUS
  <2>2. Knows(job)
    BY <2>1 DEF Serial
  <2>3. ASSUME job.op = "item" /\ job.to = "closed" PROVE job.unblocked = CheckUnblockedRequirements(job.item)'
    BY <2>1, <2>2, <2>3 DEF Knows
  <2>4. ASSUME job.op = "update", NEW r \in Reqs \ handled'
        PROVE  /\ r \in job.converts => ItemsOf(r)' = {} /\ r \in DOMAIN job.set
               /\ r \in DOMAIN job.set => req'[r].status # Absent
    <3>1. /\ r \in job.converts => ItemsOf(r) = {} /\ r \in DOMAIN job.set
          /\ r \in DOMAIN job.set => req[r].status # Absent
      BY <2>2, <2>4 DEF Knows
    <3> QED BY <2>4, <3>1 DEF Absent
  <2>5. ASSUME job.op = "update", NEW r \in Reqs \ (pushedAnyway' \cup handled')
        PROVE  Right(RowAfter(r, job)', ConvertedAfter(r, job)')
    <3>1. Right(RowAfter(r, job), ConvertedAfter(r, job)) /\ Right(req[r], IsConverted(r))
      BY <2>2, <2>5 DEF Knows, Serial
    <3>2. ConvertedAfter(r, job)' <=> ConvertedAfter(r, job)
      BY <2>5 DEF ConvertedAfter
    <3>3. CASE req'[r] = req[r]
      <4>1. RowAfter(r, job)' = RowAfter(r, job)
        BY <3>3 DEF RowAfter, Written
      <4> QED BY <3>1, <3>2, <4>1 DEF Right
    <3>4. CASE req[r].status = Absent /\ req'[r].status = "draft" /\ req'[r].delivery = req[r].delivery
      <4>1. r \notin DOMAIN job.set
        BY <2>2, <2>5, <3>4 DEF Knows
      <4>2. RowAfter(r, job) = req[r] /\ RowAfter(r, job)' = req'[r]
        BY <4>1 DEF RowAfter
      <4> QED BY <3>1, <3>2, <3>4, <4>2 DEF Right, Delivering
    <3> QED BY <2>5, <3>3, <3>4
  <2>6. Knows(job)'
    BY <2>3, <2>4, <2>5 DEF Knows, Right
  <2> QED BY <2>1, <2>6
<1>4. \A t \in ReqThreads : Knows(reqJob[t])'
  BY <1>3
<1>5. \A r \in Reqs \ handled' : req'[r].status = Absent => ItemsOf(r)' = {}
  BY DEF Serial, Absent
<1> QED BY <1>1, <1>2, <1>4, <1>5 DEF Serial, Right

\* A transition gives a row.
LEMMA AfterIsRow ==
    ASSUME ReqInv, NEW r \in Reqs, NEW a \in ReqActions
    PROVE  /\ After(r, a) \in ReqRows /\ After(r, a).status = REQUIREMENT_TRANSITIONS[a].to
           /\ REQUIREMENT_TRANSITIONS[a].to \in ReqStatuses /\ After(r, a).status \in ReqStatuses
<1>1. REQUIREMENT_TRANSITIONS[a].to \in ReqStatuses
  BY AbsentIsNoStatus
<1>2. req[r].delivery \in DeliveryStatuses
  BY DEF ReqInv, ReqRows
<1>3. DeliveryAfter(r, a) \in DeliveryStatuses
  BY <1>2 DEF DeliveryAfter, DeliveryStatuses
<1> QED BY <1>1, <1>2, <1>3 DEF After, ReqRows

\* A transition that is not refused keeps the row right.
LEMMA AfterIsRight ==
    ASSUME ReqInv, NEW r \in Reqs, NEW a \in ReqActions, MayTransition(r, a), ~RefusedLate(r, a),
           Right(req[r], IsConverted(r))
    PROVE  Right(After(r, a), IsConverted(r))
<1>1. req[r].status \in REQUIREMENT_TRANSITIONS[a].from /\ (a = "push_to_alm" => IsConverted(r))
  BY DEF MayTransition, RefusedLate
<1>2. /\ After(r, a).status = REQUIREMENT_TRANSITIONS[a].to
      /\ After(r, a).delivery = DeliveryAfter(r, a)
  BY DEF After
<1>3. CASE a \in {"push_to_alm", "mark_realized", "verify"}
  <2>1. IsConverted(r)
    <3>1. a \in {"mark_realized", "verify"} => req[r].status \in Delivering
      BY <1>1 DEF REQUIREMENT_TRANSITIONS, Delivering
    <3> QED BY <1>1, <1>3, <3>1 DEF Right
  <2>2. DeliveryAfter(r, a) \in Mapped
    BY <1>3 DEF DeliveryAfter, Mapped
  <2>3. REQUIREMENT_TRANSITIONS[a].to # Absent
    BY AbsentIsNoStatus
  <2> QED BY <1>2, <2>1, <2>2, <2>3 DEF Right
<1>4. CASE a \notin {"push_to_alm", "mark_realized", "verify"}
  <2>1. REQUIREMENT_TRANSITIONS[a].to \notin Delivering
    BY <1>4 DEF ReqActions, REQUIREMENT_TRANSITIONS, Delivering
  <2>2. REQUIREMENT_TRANSITIONS[a].to # Absent
    BY AbsentIsNoStatus
  <2>3. DeliveryAfter(r, a) \in Mapped <=> req[r].delivery \in Mapped
    BY <1>4 DEF DeliveryAfter, Mapped
  <2> QED BY <1>2, <2>1, <2>2, <2>3 DEF Right
<1> QED BY <1>3, <1>4

\* Every step preserves the invariant.
LEMMA ReqStepInv == ReqInv /\ [RequirementsNext]_reqVars => ReqInv'
<1> SUFFICES ASSUME ReqInv, [RequirementsNext]_reqVars PROVE ReqInv'
  OBVIOUS
<1>t. /\ req \in [Reqs -> ReqRows] /\ owner \in [Items -> Reqs \cup {Unused, Gone, NoRequirement}]
      /\ openItem \in [OpenItems -> ItemStatuses \cup {Absent}]
      /\ link \in [Reqs \X OpenItems -> {"none", "blocks", "related"}]
      /\ worked \subseteq {i \in Items : owner[i] \in Reqs \cup {NoRequirement}}
      /\ \A r \in Reqs, o \in OpenItems : link[r, o] # "none" => openItem[o] # Absent
      /\ \A t \in ReqThreads : ReqJobOK(reqJob[t])
  BY DEF ReqInv
<1>j. (\A t \in ReqThreads : ReqJobOK(reqJob[t])') <=> (\A t \in ReqThreads : ReqJobOK(reqJob'[t]))
  BY DEF ReqJobOK, UpdateJob, ItemJob
<1>1. ASSUME NEW r \in Reqs, CreateRequirement(r) PROVE ReqInv'
  <2>1. /\ req[r].status = Absent /\ req' = [req EXCEPT ![r].status = "draft"]
        /\ UNCHANGED <<openItem, link, owner, worked, reqJob, reqRaced, pushedAnyway, handled>>
    BY <1>1 DEF CreateRequirement, reqHistory
  <2>2. "draft" \in ReqStatuses
    BY DEF ReqStatuses, ReqActions, REQUIREMENT_TRANSITIONS
  <2>3. /\ req' \in [Reqs -> ReqRows]
        /\ req'[r].status = "draft" /\ req'[r].delivery = req[r].delivery
        /\ \A q \in Reqs \ {r} : req'[q] = req[q]
    <3>1. req[r] \in ReqRows
      BY <1>t
    <3>2. [req[r] EXCEPT !.status = "draft"] \in ReqRows
      BY <2>2, <3>1 DEF ReqRows
    <3>3. req' = [req EXCEPT ![r] = [req[r] EXCEPT !.status = "draft"]]
      BY <2>1
    <3>4. req'[r] = [req[r] EXCEPT !.status = "draft"] /\ \A q \in Reqs \ {r} : req'[q] = req[q]
      BY <1>t, <3>3
    <3>5. req'[r].status = "draft" /\ req'[r].delivery = req[r].delivery
      BY <3>1, <3>4 DEF ReqRows
    <3>6. req' \in [Reqs -> ReqRows]
      BY <1>t, <3>2, <3>3
    <3> QED BY <3>4, <3>5, <3>6
  <2>4. ~reqRaced' => Serial'
    BY <2>1, <2>3, OthersLeaveSerial DEF ReqInv, ItemsOf, CheckUnblockedRequirements, BlockingLinks
  <2> QED BY <1>j, <1>t, <2>1, <2>3, <2>4 DEF ReqInv
<1>2. ASSUME NEW r \in Reqs, NEW d \in EditedDelivery, UpdateRequirement(r, d) PROVE ReqInv'
  <2>1. /\ req' = [req EXCEPT ![r].delivery = d] /\ handled' = handled \cup {r}
        /\ UNCHANGED <<openItem, link, owner, worked, reqJob, reqRaced, pushedAnyway>>
    BY <1>2 DEF UpdateRequirement
  <2>2. d \in DeliveryStatuses
    BY RequirementsAssumption
  <2>3. /\ req' \in [Reqs -> ReqRows]
        /\ \A q \in Reqs \ {r} : req'[q] = req[q]
    BY <1>t, <2>1, <2>2 DEF ReqRows
  <2>4. ~reqRaced' => Serial'
    BY <2>1, <2>3, OthersLeaveSerial DEF ReqInv, ItemsOf, CheckUnblockedRequirements, BlockingLinks
  <2> QED BY <1>j, <1>t, <2>1, <2>3, <2>4 DEF ReqInv
<1>3. ASSUME NEW r \in Reqs, NEW o \in OpenItems, NEW type \in {"blocks", "related"}, LinkOpenItem(r, o, type) PROVE ReqInv'
  <2>1. /\ openItem[o] # Absent /\ link' = [link EXCEPT ![<<r, o>>] = type]
        /\ reqRaced' = (reqRaced \/ \E t \in ReqThreads : reqJob[t] # Free)
        /\ UNCHANGED <<req, openItem, owner, worked, reqJob, pushedAnyway, handled>>
    BY <1>3 DEF LinkOpenItem
  <2>2. /\ link' \in [Reqs \X OpenItems -> {"none", "blocks", "related"}]
        /\ \A q \in Reqs, x \in OpenItems : link'[q, x] # "none" => openItem[x] # Absent
    BY <1>t, <2>1
  <2>3. ASSUME ~reqRaced' PROVE Serial'
    <3>1. Serial /\ ~reqRaced
      BY <2>1, <2>3 DEF ReqInv
    <3>2. \A t \in ReqThreads : reqJob[t].op # "item"
      <4>1. \A t \in ReqThreads : reqJob[t] = Free
        BY <2>1, <2>3
      <4> QED BY <4>1 DEF Free
    <3> QED BY <2>1, <3>1, <3>2, OthersLeaveSerial DEF ItemsOf
  <2> QED BY <1>j, <1>t, <2>1, <2>2, <2>3 DEF ReqInv
<1>4. ASSUME NEW o \in OpenItems, CreateOpenItem(o) PROVE ReqInv'
  <2>1. /\ openItem[o] = Absent /\ openItem' = [openItem EXCEPT ![o] = "open"]
        /\ UNCHANGED <<req, link, owner, worked, reqJob, reqRaced, pushedAnyway, handled>>
    BY <1>4 DEF CreateOpenItem, reqHistory
  <2>2. "open" \in ItemStatuses /\ "open" # Absent
    BY DEF ItemStatuses, OI_TRANSITIONS, Absent
  <2>3. /\ openItem' \in [OpenItems -> ItemStatuses \cup {Absent}]
        /\ \A x \in OpenItems \ {o} : openItem'[x] = openItem[x]
        /\ \A r \in Reqs, x \in OpenItems : link[r, x] # "none" => openItem'[x] # Absent
    BY <1>t, <2>1, <2>2
  <2>4. \A x : CheckUnblockedRequirements(x)' = CheckUnblockedRequirements(x)
    <3>1. \A r \in Reqs : o \notin BlockingLinks(r) /\ BlockingLinks(r)' = BlockingLinks(r) /\ BlockingLinks(r) \subseteq OpenItems
      BY <1>t, <2>1 DEF BlockingLinks
    <3> QED BY <2>3, <3>1 DEF CheckUnblockedRequirements
  <2>5. ~reqRaced' => Serial'
    BY <2>1, <2>4, OthersLeaveSerial DEF ReqInv, ItemsOf
  <2> QED BY <1>j, <1>t, <2>1, <2>3, <2>5 DEF ReqInv
<1>5. ASSUME NEW i \in Items, Work(i) PROVE ReqInv'
  <2>1. /\ owner[i] \in Reqs /\ worked' \subseteq worked \cup {i}
        /\ UNCHANGED <<req, openItem, link, owner, reqJob, reqRaced, pushedAnyway, handled>>
    BY <1>5 DEF Work, reqHistory
  <2>2. ~reqRaced' => Serial'
    BY <2>1, OthersLeaveSerial DEF ReqInv, ItemsOf, CheckUnblockedRequirements, BlockingLinks
  <2> QED BY <1>j, <1>t, <2>1, <2>2 DEF ReqInv
<1>6. ASSUME NEW i \in Items, NEW to \in Reqs \cup {Gone, NoRequirement}, SetOwner(i, to) PROVE ReqInv'
  <2>1. /\ owner' = [owner EXCEPT ![i] = to] /\ worked' = worked \ (IF to = Gone THEN {i} ELSE {})
        /\ handled' = handled \cup ({owner[i], to} \cap Reqs)
        /\ UNCHANGED <<req, openItem, link, reqJob, reqRaced, pushedAnyway>>
    BY <1>6 DEF SetOwner, RemainingWork
  <2>2. /\ owner' \in [Items -> Reqs \cup {Unused, Gone, NoRequirement}]
        /\ \A x \in Items \ {i} : owner'[x] = owner[x]
        /\ owner'[i] = to
    BY <1>t, <2>1
  <2>3. worked' \subseteq {x \in Items : owner'[x] \in Reqs \cup {NoRequirement}}
    BY <1>t, <2>1, <2>2
  <2>4. \A r \in Reqs \ handled' : ItemsOf(r)' = ItemsOf(r)
    BY <2>1, <2>2 DEF ItemsOf
  <2>5. ~reqRaced' => Serial'
    BY <2>1, <2>4, OthersLeaveSerial DEF ReqInv, CheckUnblockedRequirements, BlockingLinks
  <2> QED BY <1>j, <1>t, <2>1, <2>2, <2>3, <2>5 DEF ReqInv
<1>7. ASSUME NEW i \in Items, DeleteItem(i) \/ (\E r \in Reqs : CreateItemFor(i, r))
                              \/ (\E r \in Reqs \cup {NoRequirement} : RepointItem(i, r))
      PROVE  ReqInv'
  <2>1. CASE DeleteItem(i)
    BY <1>6, <2>1 DEF DeleteItem
  <2>2. ASSUME NEW r \in Reqs, CreateItemFor(i, r) PROVE ReqInv'
    BY <1>6, <2>2 DEF CreateItemFor
  <2>3. ASSUME NEW r \in Reqs \cup {NoRequirement}, RepointItem(i, r) PROVE ReqInv'
    BY <1>6, <2>3 DEF RepointItem
  <2> QED BY <1>7, <2>1, <2>2, <2>3
<1>8. ASSUME NEW t \in ReqThreads, NEW r \in Reqs, NEW a \in ReqActions, TransitionRequirement(t, r, a) PROVE ReqInv'
  <2>1. MayTransition(r, a) /\ ~RefusedLate(r, a) /\ pushedAnyway' = pushedAnyway
        /\ BeginUpdate(t, [x \in {r} |-> After(x, a)], {}, {})
    BY <1>8 DEF TransitionRequirement
  <2>2. PICK new : new = [x \in {r} |-> After(x, a)]
    OBVIOUS
  <2>3. DOMAIN new = {r} /\ new[r] = After(r, a)
    BY <2>2
  <2>4. After(r, a) \in ReqRows /\ After(r, a).status = REQUIREMENT_TRANSITIONS[a].to
        /\ REQUIREMENT_TRANSITIONS[a].to \in ReqStatuses
    BY AfterIsRow
  <2>5. ASSUME Serial, r \notin handled, r \notin pushedAnyway PROVE Right(After(r, a), IsConverted(r))
    BY <2>1, <2>5, AfterIsRight DEF Serial
  <2>6. req[r].status # Absent
    BY <2>1, AbsentIsNoStatus DEF MayTransition
  <2>7. \A x \in Reqs : IsConverted(x) <=> \E i \in ItemsOf(x) : i \notin {}
    BY DEF IsConverted
  <2>8. BeginUpdate(t, new, {}, {})
    BY <2>1, <2>2
  <2> QED BY <2>1, <2>3, <2>4, <2>5, <2>6, <2>7, <2>8, UpdateBegins DEF Right
<1>9. ASSUME NEW t \in ReqThreads, NEW rs \in SUBSET Reqs, NEW a \in ReqActions, BatchTransition(t, rs, a) PROVE ReqInv'
  <2>1. PICK moved : moved = {r \in rs : MayTransition(r, a)}
    OBVIOUS
  <2>2. PICK new : new = [r \in moved |-> After(r, a)]
    OBVIOUS
  <2>3. /\ BeginUpdate(t, new, {}, {})
        /\ pushedAnyway' = pushedAnyway \cup {r \in moved : RefusedLate(r, a)}
    BY <1>9, <2>1, <2>2 DEF BatchTransition
  <2>4. /\ DOMAIN new = moved /\ moved \subseteq Reqs
        /\ \A r \in moved : MayTransition(r, a) /\ new[r] = After(r, a) /\ req[r].status # Absent
    BY <2>1, <2>2, AbsentIsNoStatus DEF MayTransition
  <2>5. \A r \in moved : new[r] \in ReqRows /\ new[r].status \in ReqStatuses
    BY <2>4, AfterIsRow
  <2>6. ASSUME Serial, NEW r \in moved, r \notin handled, r \notin pushedAnyway' PROVE Right(new[r], IsConverted(r))
    <3>1. ~RefusedLate(r, a) /\ r \notin pushedAnyway
      BY <2>3, <2>6
    <3>2. Right(After(r, a), IsConverted(r))
      BY <2>4, <2>6, <3>1, AfterIsRight DEF Serial
    <3> QED BY <2>4, <3>2
  <2>7. \A x \in Reqs : IsConverted(x) <=> \E i \in ItemsOf(x) : i \notin {}
    BY DEF IsConverted
  <2>8. Serial => \A r \in Reqs \ handled :
            /\ r \in {} => ItemsOf(r) = {} /\ r \in DOMAIN new
            /\ r \in DOMAIN new => req[r].status # Absent
            /\ r \in DOMAIN new /\ r \notin pushedAnyway' =>
                   Right(new[r], r \in {} \/ \E i \in ItemsOf(r) : i \notin {})
            /\ r \notin DOMAIN new => ItemsOf(r) \cap {} = {}
    BY <2>4, <2>6, <2>7 DEF Right
  <2> QED BY <2>3, <2>4, <2>5, <2>8, UpdateBegins
<1>10. ASSUME NEW t \in ReqThreads, NEW rs \in SUBSET Reqs, ConvertRequirements(t, rs) PROVE ReqInv'
  <2>1. PICK moved \in SUBSET Reqs : moved = {r \in rs : Convertible(r)}
    OBVIOUS
  <2>2. PICK new : new = [r \in moved |-> [req[r] EXCEPT !.delivery = "mapped"]]
    OBVIOUS
  <2>3. BeginUpdate(t, new, moved, {}) /\ pushedAnyway' = pushedAnyway
    BY <1>10, <2>1, <2>2 DEF ConvertRequirements
  <2>4. \A r \in moved : /\ req[r].status \in {"approved", "realized"} /\ ~IsConverted(r)
                         /\ new[r].status = req[r].status /\ new[r].delivery = "mapped" /\ new[r] \in ReqRows
    <3>1. \A r \in moved : req[r].status \in {"approved", "realized"} /\ ~IsConverted(r) /\ req[r] \in ReqRows
      BY <1>t, <2>1 DEF Convertible
    <3>2. "mapped" \in DeliveryStatuses
      BY DEF DeliveryStatuses
    <3> QED BY <2>2, <3>1, <3>2 DEF ReqRows
  <2>5. DOMAIN new = moved
    BY <2>2
  <2>6. \A r \in moved : new[r].status \in ReqStatuses /\ req[r].status # Absent
    BY <2>4, AbsentIsNoStatus DEF ReqRows, Absent
  <2>7. \A r \in moved : Right(new[r], r \in moved \/ \E i \in ItemsOf(r) : i \notin {})
    BY <2>4 DEF Right, Mapped, Absent
  <2>8. \A r \in moved : ItemsOf(r) = {}
    BY <2>4 DEF IsConverted
  <2> QED BY <2>3, <2>4, <2>5, <2>6, <2>7, <2>8, UpdateBegins
<1>11. ASSUME NEW t \in ReqThreads, NEW r \in Reqs, NEW force \in BOOLEAN, UnconvertRequirement(t, r, force) PROVE ReqInv'
  <2>1. PICK new : new = [x \in {r} |-> Unconverted(x)]
    OBVIOUS
  <2>2. IsConverted(r) /\ BeginUpdate(t, new, {}, ItemsOf(r)) /\ pushedAnyway' = pushedAnyway
    BY <1>11, <2>1 DEF UnconvertRequirement
  <2>3. DOMAIN new = {r} /\ new[r] = [status |-> "approved", delivery |-> "not_mapped"]
    BY <2>1 DEF Unconverted
  <2>4. "approved" \in ReqStatuses /\ "not_mapped" \in DeliveryStatuses
    BY DEF ReqStatuses, ReqActions, REQUIREMENT_TRANSITIONS, DeliveryStatuses
  <2>5. new[r] \in ReqRows /\ new[r].status \in ReqStatuses
    BY <2>3, <2>4 DEF ReqRows
  <2>6. Right(new[r], r \in {} \/ \E i \in ItemsOf(r) : i \notin ItemsOf(r))
    BY <2>3 DEF Right, Mapped, Absent, Delivering
  <2>7. ASSUME Serial, r \notin handled PROVE req[r].status # Absent
    BY <2>2, <2>7 DEF Serial, IsConverted
  <2>8. \A x \in Reqs \ {r} : ItemsOf(x) \cap ItemsOf(r) = {}
    BY DEF ItemsOf
  <2>9. ItemsOf(r) \in SUBSET Items
    BY DEF ItemsOf
  <2> QED BY <2>2, <2>3, <2>5, <2>6, <2>7, <2>8, <2>9, UpdateBegins
<1>12. ASSUME NEW t \in ReqThreads, NEW o \in OpenItems, NEW a \in DOMAIN OI_TRANSITIONS, TransitionOpenItem(t, o, a)
       PROVE  ReqInv'
  <2>1. PICK job : job = [op |-> "item", item |-> o, to |-> OI_TRANSITIONS[a].to,
                          unblocked |-> IF a = "close" THEN CheckUnblockedRequirements(o) ELSE {}]
    OBVIOUS
  <2>2. BeginRequest(t, job) /\ pushedAnyway' = pushedAnyway
    BY <1>12, <2>1 DEF TransitionOpenItem
  <2>3. job.op = "item" /\ job.item = o /\ job.to = OI_TRANSITIONS[a].to
        /\ (a = "close" => job.unblocked = CheckUnblockedRequirements(o))
    BY <2>1
  <2>4. ReqJobOK(job)
    BY <2>3, AbsentIsNoStatus DEF ReqJobOK, ItemJob
  <2>5. job.to = "closed" => a = "close"
    BY <2>3 DEF OI_TRANSITIONS
  <2>6. CheckUnblockedRequirements(o)' = CheckUnblockedRequirements(o)
    BY <2>2 DEF BeginRequest, CheckUnblockedRequirements, BlockingLinks
  <2>7. Knows(job)'
    BY <2>3, <2>5, <2>6 DEF Knows
  <2> QED BY <2>2, <2>4, <2>7, ReqBegins
<1>13. CASE UNCHANGED reqVars
  <2>1. UNCHANGED <<req, openItem, link, owner, worked, reqJob, reqRaced, pushedAnyway, handled>>
    BY <1>13 DEF reqVars, reqHistory
  <2>2. ~reqRaced' => Serial'
    BY <2>1, OthersLeaveSerial DEF ReqInv, ItemsOf, CheckUnblockedRequirements, BlockingLinks
  <2> QED BY <1>j, <1>t, <2>1, <2>2 DEF ReqInv
<1> QED BY <1>1, <1>2, <1>3, <1>4, <1>5, <1>7, <1>8, <1>9, <1>10, <1>11, <1>12, <1>13, UpdateCommits, OpenItemCommits
        DEF RequirementsNext

\* Along every sequence of requests that do not overlap, however long, a
\* requirement has at most one item, has one when it is in delivery, and its
\* delivery status says so.
THEOREM ConversionsAgree == RequirementsSpec => []ConversionAgrees
<1>1. ReqInv => ConversionAgrees
  <2>1. SUFFICES ASSUME ReqInv PROVE ConversionAgrees
    OBVIOUS
  <2>2. BacklogHasItem /\ DeliveryFollowsItems
    BY <2>1 DEF ReqInv, Serial, BacklogHasItem, DeliveryFollowsItems, Right, Mapped
  <2>3. ConvertedOnce
    BY <2>1 DEF ReqInv, Serial, ConvertedOnce
  <2> QED BY <2>2, <2>3 DEF ConversionAgrees
<1> QED BY <1>1, ReqInitInv, ReqStepInv, PTL DEF RequirementsSpec

\* The rows of requirements, open items and their links keep their shape.
THEOREM RequirementsTyped == RequirementsSpec => []RequirementsTypeOK
<1>1. ReqInv => RequirementsTypeOK
  BY DEF ReqInv, RequirementsTypeOK, ReqRows
<1> QED BY <1>1, ReqInitInv, ReqStepInv, PTL DEF RequirementsSpec

\* What a close reports unblocked is what an approval no longer refuses.
THEOREM ClosesUnblock == RequirementsSpec => UnblockedIsApprovable
<1>1. ASSUME ReqInv, ~reqRaced, NEW t \in ReqThreads, NEW r \in Reqs, CommitOpenItem(t),
             openItem'[reqJob[t].item] = "closed", reqJob[t].item \in BlockingLinks(r)
      PROVE  r \in reqJob[t].unblocked <=> GetBlockingOpenItems(r)' = {}
  <2>1. PICK job : job = reqJob[t]
    OBVIOUS
  <2>2. Knows(job) /\ ReqJobOK(job)
    BY <1>1, <2>1 DEF ReqInv, Serial
  <2>3. job.op = "item" /\ openItem' = [openItem EXCEPT ![job.item] = job.to] /\ link' = link
    BY <1>1, <2>1 DEF CommitOpenItem
  <2>4. job.item \in OpenItems
    BY <2>2, <2>3 DEF ReqJobOK, ItemJob, UpdateJob, Free
  <2>5. openItem \in [OpenItems -> ItemStatuses \cup {Absent}]
    BY <1>1 DEF ReqInv
  <2>6. /\ job.to = "closed" /\ openItem'[job.item] = "closed"
        /\ \A o \in OpenItems \ {job.item} : openItem'[o] = openItem[o]
    BY <1>1, <2>1, <2>3, <2>4, <2>5
  <2>7. job.unblocked = CheckUnblockedRequirements(job.item)
    BY <2>2, <2>3, <2>6 DEF Knows
  <2>8. r \in job.unblocked <=> \A x \in BlockingLinks(r) \ {job.item} : openItem[x] \notin StillBlocking
    BY <1>1, <2>1, <2>7 DEF CheckUnblockedRequirements
  <2>9. BlockingLinks(r)' = BlockingLinks(r) /\ BlockingLinks(r) \subseteq OpenItems
    BY <2>3 DEF BlockingLinks
  <2>10. GetBlockingOpenItems(r)' = {} <=> \A x \in BlockingLinks(r) : openItem'[x] \notin Unresolved
    BY <2>9 DEF GetBlockingOpenItems
  <2> QED BY <2>1, <2>6, <2>8, <2>9, <2>10 DEF Unresolved, StillBlocking
<1>2. ReqInv /\ [RequirementsNext]_reqVars =>
          [\A t \in ReqThreads, r \in Reqs :
             ~reqRaced /\ CommitOpenItem(t) /\ openItem'[reqJob[t].item] = "closed"
             /\ reqJob[t].item \in BlockingLinks(r) =>
                 (r \in reqJob[t].unblocked <=> GetBlockingOpenItems(r)' = {})]_reqVars
  BY <1>1
<1> QED BY <1>2, ReqInitInv, ReqStepInv, PTL DEF RequirementsSpec, UnblockedIsApprovable

------------------------------------------------------------------------------
(* A backlog item on its way to deployment                                    *)

ItemRows == [status : BACKLOG_STATUSES, sprint : BOOLEAN] \cup {NoItem, ItemDeleted}
                \cup {[ItemDeleted EXCEPT !.sprint = TRUE]}
TsRecords == [fs : FsIds, status : SpecStatuses]

\* What a request may be about to commit.
FlowJob(job) ==
    /\ job.op = "commit"
    /\ "status" \in DOMAIN job.item => job.item["status"] \in BACKLOG_STATUSES
    /\ "sprint" \in DOMAIN job.item => job.item["sprint"] = TRUE
    /\ job.fs \in {""} \cup SpecStatuses
    /\ job.ts = NoTs \/ job.ts \in TsRecords
    /\ DOMAIN job.fsStatus \subseteq FsIds /\ \A f \in DOMAIN job.fsStatus : job.fsStatus[f] \in SpecStatuses
    /\ DOMAIN job.tsStatus \subseteq TsIds /\ \A k \in DOMAIN job.tsStatus : job.tsStatus[k] \in SpecStatuses

\* A status it will write has passed its gate, whatever overlaps.
Gated(job) ==
    "status" \in DOMAIN job.item =>
        /\ job.item["status"] = "build" =>
               put \/ approvedOnce \/ \E k \in DOMAIN job.tsStatus : job.tsStatus[k] = "approved"
        /\ job.item["status"] = "test" => put \/ untested \/ job.test \/ (ItemExists => UnitTests # {})
        /\ job.item["status"] \in {"deploy", "closed"} => put \/ untested \/ testedOnce

\* What it knows when nothing overlaps: its specifications are missing, and an
\* item it moves has not come to its end.
Missing(job) ==
    /\ job.fs # "" => FsRows = {}
    /\ job.ts # NoTs => TsRows(job.ts.fs) = {}
    /\ "status" \in DOMAIN job.item /\ ~put => item.status \notin {"closed", "cancelled"}

FlowAlone ==
    /\ \A t, o \in FlowThreads : flowJob[t] # Serves /\ flowJob[o] # Serves => t = o
    /\ \A t \in FlowThreads : flowJob[t] # Serves => Missing(flowJob[t])
    /\ sprint \in {"locked", "unlocked"} => \A t \in FlowThreads : flowJob[t] = Serves
    /\ sprint = "unlocked" => ~item.sprint
    /\ RowsAgree

\* Why the gates hold: an approval or a passed test is remembered, and an item
\* comes to its tests with one.
GateReasons ==
    /\ \A k \in TsIds : ts[k].status = "approved" => approvedOnce
    /\ UnitTests # {} /\ AllPassed => testedOnce
    /\ item.status = "test" /\ ~put /\ ~untested => UnitTests # {}
    /\ item = NoItem => ~put /\ FsRows = {} /\ \A t \in FlowThreads : flowJob[t] = Serves

FlowRows ==
    /\ item \in ItemRows
    /\ fs \in [FsIds -> SpecStatuses \cup {NoFs}]
    /\ ts \in [TsIds -> {NoTs} \cup TsRecords]
    /\ \A k \in TsIds : ts[k] # NoTs => ts[k].fs \in FsRows
    /\ unitTest \in [Tests -> {"none", "open", "passed"}]
    /\ sprint \in {"planned", "locked", "unlocked", "deleted"}

FlowInv ==
    /\ FlowRows
    /\ flowJob = [t \in FlowThreads |-> flowJob[t]]
    /\ \A t \in FlowThreads : flowJob[t] # Serves => FlowJob(flowJob[t]) /\ Gated(flowJob[t])
    /\ GateReasons
    /\ GatesHold
    /\ ~flowRaced => FlowAlone

\* The statuses that mark an item or a row that is not there.
LEMMA FlowMarks ==
    /\ BACKLOG_STATUSES = {"new", "design", "build", "test", "deploy", "blocked", "closed", "cancelled"}
    /\ NoItem.status \notin BACKLOG_STATUSES /\ ItemDeleted.status \notin BACKLOG_STATUSES
    /\ NoItem # ItemDeleted /\ NoFs \notin SpecStatuses /\ NoTs \notin TsRecords
    /\ NoFs \notin FsIds /\ NoFs \notin TsIds /\ NoTs.fs = NoFs /\ NoTs.status = "none"
<1>1. BACKLOG_STATUSES = {"new", "design", "build", "test", "deploy", "blocked", "closed", "cancelled"}
  BY DEF BACKLOG_STATUSES, BACKLOG_TRANSITIONS
<1>2. NoItem.status = "none" /\ ItemDeleted.status = "deleted" /\ NoFs = "none" /\ NoTs.fs = "none" /\ NoTs.status = "none"
  BY DEF NoItem, ItemDeleted, NoFs, NoTs
<1>3. NoItem # ItemDeleted
  BY <1>2
<1>4. NoTs \notin TsRecords
  BY <1>2 DEF TsRecords, SpecStatuses
<1> QED BY <1>1, <1>2, <1>3, <1>4, FlowAssumption DEF SpecStatuses

\* An item is a row, and exists just with a status of the life cycle.
LEMMA ItemShape ==
    ASSUME NEW row \in ItemRows
    PROVE  /\ row = [status |-> row.status, sprint |-> row.sprint] /\ row.sprint \in BOOLEAN
           /\ DOMAIN row = {"status", "sprint"}
           /\ row.status \in BACKLOG_STATUSES => row \in [status : BACKLOG_STATUSES, sprint : BOOLEAN]
           /\ row.status \in BACKLOG_STATUSES => row # NoItem /\ row # ItemDeleted
           /\ row.status \notin BACKLOG_STATUSES => row.status \in {"none", "deleted"}
           /\ row = NoItem <=> row.status = "none"
<1>1. CASE row \in [status : BACKLOG_STATUSES, sprint : BOOLEAN]
  BY <1>1, FlowMarks
<1>2. CASE row = NoItem
  BY <1>2, FlowMarks DEF NoItem, ItemDeleted
<1>3. CASE row = ItemDeleted
  BY <1>3, FlowMarks DEF NoItem, ItemDeleted
<1>4. CASE row = [ItemDeleted EXCEPT !.sprint = TRUE]
  BY <1>4, FlowMarks DEF NoItem, ItemDeleted
<1> QED BY <1>1, <1>2, <1>3, <1>4 DEF ItemRows

\* At first there is nothing.
LEMMA FlowInitInv == FlowInit => FlowInv
<1> SUFFICES ASSUME FlowInit PROVE FlowInv
  OBVIOUS
<1>1. /\ item = NoItem /\ fs = [f \in FsIds |-> NoFs] /\ ts = [k \in TsIds |-> NoTs]
      /\ unitTest = [u \in Tests |-> "none"] /\ sprint = "planned" /\ flowJob = [t \in FlowThreads |-> Serves]
      /\ ~put /\ ~flowRaced
  BY DEF FlowInit
<1>2. item.status = "none" /\ item.sprint = FALSE
  BY <1>1 DEF NoItem
<1>3. FsRows = {} /\ UnitTests = {} /\ (\A f : TsRows(f) = {}) /\ \A k \in TsIds : ts[k].status = "none"
  BY <1>1 DEF FsRows, UnitTests, TsRows, NoTs
<1>4. \A t \in FlowThreads : flowJob[t] = Serves
  BY <1>1
<1>5. FlowRows
  BY <1>1 DEF FlowRows, ItemRows
<1>6. GateReasons /\ GatesHold
  BY <1>1, <1>2, <1>3, <1>4 DEF GateReasons, GatesHold, BuiltFromApproved, DeployedWasTested
<1>7. RowsAgree
  BY <1>2, <1>3 DEF RowsAgree, OneSpecification, SprintLeavesItems
<1> QED BY <1>1, <1>4, <1>5, <1>6, <1>7 DEF FlowInv, FlowAlone

\* A request begins, after a look at what it will change.
LEMMA FlowBegins ==
    ASSUME FlowInv, NEW t \in FlowThreads, NEW job, BeginFlow(t, job), FlowJob(job), Gated(job)',
           ~flowRaced' => Missing(job)', put => put', item # NoItem
    PROVE  FlowInv'
<1>1. /\ flowJob[t] = Serves /\ ~flowRaced /\ flowJob' = [flowJob EXCEPT ![t] = job]
      /\ flowRaced' = (sprint \in {"locked", "unlocked"} \/ \E o \in FlowThreads \ {t} : flowJob[o] # Serves)
      /\ UNCHANGED <<item, fs, ts, unitTest, sprint, approvedOnce, testedOnce, untested>>
  BY DEF BeginFlow
<1>2. /\ flowJob' = [o \in FlowThreads |-> flowJob'[o]] /\ flowJob'[t] = job
      /\ \A o \in FlowThreads \ {t} : flowJob'[o] = flowJob[o]
  BY <1>1 DEF FlowInv
<1>3. FlowRows' /\ FsRows' = FsRows /\ UnitTests' = UnitTests /\ AllPassed' = AllPassed /\ ItemExists' = ItemExists
  BY <1>1 DEF FlowInv, FlowRows, FsRows, UnitTests, AllPassed, ItemExists
<1>4. \A o \in FlowThreads : flowJob'[o] # Serves => FlowJob(flowJob'[o])
  BY <1>2 DEF FlowInv
<1>5. ASSUME NEW o \in FlowThreads, flowJob'[o] # Serves PROVE Gated(flowJob[o])'
  <2>1. CASE o = t
    BY <1>2, <2>1
  <2>2. CASE o # t
    <3>1. Gated(flowJob[o]) /\ flowJob'[o] = flowJob[o]
      BY <1>2, <1>5, <2>2 DEF FlowInv
    <3> QED BY <1>1, <1>3, <3>1 DEF Gated
  <2> QED BY <2>1, <2>2
<1>6. GateReasons' /\ GatesHold'
  BY <1>1, <1>3 DEF FlowInv, GateReasons, GatesHold, BuiltFromApproved, DeployedWasTested
<1>7. ASSUME ~flowRaced' PROVE FlowAlone'
  <2>1. FlowAlone /\ sprint \notin {"locked", "unlocked"} /\ \A o \in FlowThreads \ {t} : flowJob'[o] = Serves
    BY <1>1, <1>2, <1>7 DEF FlowInv
  <2>2. Missing(job)'
    BY <1>7
  <2>3. RowsAgree'
    BY <1>1, <2>1 DEF FlowAlone, RowsAgree, OneSpecification, SprintLeavesItems, FsRows, TsRows
  <2>4. \A o \in FlowThreads : flowJob'[o] # Serves => o = t
    BY <2>1
  <2>5. \A o \in FlowThreads : flowJob'[o] # Serves => Missing(flowJob[o])'
    BY <1>2, <2>2, <2>4
  <2> QED BY <1>1, <2>1, <2>3, <2>4, <2>5 DEF FlowAlone
<1> QED BY <1>2, <1>3, <1>4, <1>5, <1>6, <1>7 DEF FlowInv, FlowJob

\* A request is not begun for an item that never was.
LEMMA ItemThere == FlowRows /\ ItemExists => item # NoItem /\ item \in [status : BACKLOG_STATUSES, sprint : BOOLEAN]
BY ItemShape DEF FlowRows, ItemExists

\* What a commit makes of the specifications.
SpecsCommitted(job, f, k) ==
    /\ job.fs # "" => fs[f] = NoFs
    /\ fs' = [g \in FsIds |-> IF job.fs # "" /\ g = f THEN job.fs ELSE Overwritten(fs, job.fsStatus)[g]]
    /\ job.ts # NoTs => ts[k] = NoTs
    /\ ts' = [x \in TsIds |->
           IF x \in DOMAIN job.tsStatus THEN [ts[x] EXCEPT !.status = job.tsStatus[x]]
           ELSE IF x = k /\ job.ts # NoTs THEN job.ts ELSE ts[x]]

\* What is committed of the specifications, and what stays.
LEMMA SpecsWritten ==
    ASSUME FlowRows, NEW job, FlowJob(job), RowsThere(job), NEW f \in FsIds, NEW k \in TsIds,
           SpecsCommitted(job, f, k)
    PROVE  /\ fs' \in [FsIds -> SpecStatuses \cup {NoFs}]
           /\ ts' \in [TsIds -> {NoTs} \cup TsRecords]
           /\ FsRows' = IF job.fs # "" THEN FsRows \cup {f} ELSE FsRows
           /\ \A x \in TsIds : ts'[x] # NoTs => IF job.ts # NoTs /\ x = k THEN ts'[x] = job.ts
                                                 ELSE ts[x] # NoTs /\ ts'[x].fs = ts[x].fs
           /\ \A x \in TsIds : ts'[x] # NoTs => ts'[x].fs \in FsRows
           /\ \A x \in DOMAIN job.tsStatus : ts'[x].status = job.tsStatus[x]
<1>1. /\ \A x \in DOMAIN job.tsStatus : x \in TsIds /\ ts[x] \in TsRecords /\ job.tsStatus[x] \in SpecStatuses
      /\ job.ts # NoTs => job.ts \in TsRecords
  BY DEF FlowJob, RowsThere, FlowRows
<1>2. ASSUME NEW x \in DOMAIN job.tsStatus
      PROVE  ts'[x] \in TsRecords /\ ts'[x].fs = ts[x].fs /\ ts'[x].status = job.tsStatus[x]
  <2>1. ts'[x] = [ts[x] EXCEPT !.status = job.tsStatus[x]]
    BY <1>1 DEF SpecsCommitted
  <2> QED BY <1>1, <2>1 DEF TsRecords
<1>3. ts' \in [TsIds -> {NoTs} \cup TsRecords]
  BY <1>1, <1>2 DEF FlowRows, SpecsCommitted
<1>4. \A x \in TsIds : ts'[x] # NoTs => IF job.ts # NoTs /\ x = k THEN ts'[x] = job.ts
                                                 ELSE ts[x] # NoTs /\ ts'[x].fs = ts[x].fs
  <2> TAKE x \in TsIds
  <2>1. CASE x \in DOMAIN job.tsStatus
    <3>1. job.ts # NoTs => x # k
      BY <1>1, <2>1, FlowMarks DEF SpecsCommitted
    <3> QED BY <1>1, <1>2, <2>1, <3>1, FlowMarks
  <2>2. CASE x \notin DOMAIN job.tsStatus
    BY <2>2 DEF SpecsCommitted
  <2> QED BY <2>1, <2>2
<1>5. \A g \in FsIds : fs'[g] = IF job.fs # "" /\ g = f THEN job.fs
                                ELSE IF g \in DOMAIN job.fsStatus THEN job.fsStatus[g] ELSE fs[g]
  BY DEF Overwritten, FlowRows, SpecsCommitted
<1>6. /\ \A g \in DOMAIN job.fsStatus : fs[g] # NoFs /\ job.fsStatus[g] \in SpecStatuses
      /\ job.fs # "" => job.fs \in SpecStatuses
  BY DEF FlowJob, RowsThere, FsRows
<1>7. fs' \in [FsIds -> SpecStatuses \cup {NoFs}]
  BY <1>5, <1>6 DEF FlowRows, SpecsCommitted
<1>8. FsRows' = IF job.fs # "" THEN FsRows \cup {f} ELSE FsRows
  BY <1>5, <1>6, FlowMarks DEF FsRows
<1>9. job.ts # NoTs => job.ts.fs \in FsRows
  BY <1>1, FlowMarks DEF RowsThere, TsRecords
<1>10. \A x \in TsIds : ts'[x] # NoTs => ts'[x].fs \in FsRows
  BY <1>4, <1>9 DEF FlowRows
<1> QED BY <1>2, <1>3, <1>4, <1>7, <1>8, <1>10

\* What is committed of the item.
LEMMA ItemWritten ==
    ASSUME FlowRows, NEW job, FlowJob(job), RowsThere(job), item # NoItem, item' = Overwritten(item, job.item)
    PROVE  /\ item' \in ItemRows /\ item' # NoItem
           /\ ItemExists' <=> ItemExists
           /\ item'.status = IF "status" \in DOMAIN job.item THEN job.item["status"] ELSE item.status
           /\ item'.sprint = (item.sprint \/ "sprint" \in DOMAIN job.item)
           /\ DOMAIN job.item = {} => item' = item
<1>1. CASE DOMAIN job.item = {}
  <2>1. item' = [a \in DOMAIN item |-> item[a]]
    BY <1>1 DEF Overwritten
  <2>2. DOMAIN item = {"status", "sprint"} /\ item = [status |-> item.status, sprint |-> item.sprint]
    BY ItemShape DEF FlowRows
  <2>3. item' = item
    BY <2>1, <2>2
  <2> QED BY <1>1, <2>2, <2>3, ItemShape DEF FlowRows, ItemExists
<1>2. CASE DOMAIN job.item # {}
  <2>1. ItemExists /\ item \in [status : BACKLOG_STATUSES, sprint : BOOLEAN]
    BY <1>2, ItemThere DEF RowsThere
  <2>2. /\ item'.status = IF "status" \in DOMAIN job.item THEN job.item["status"] ELSE item.status
        /\ item'.sprint = IF "sprint" \in DOMAIN job.item THEN job.item["sprint"] ELSE item.sprint
        /\ item' = [status |-> item'.status, sprint |-> item'.sprint]
    BY <2>1 DEF Overwritten
  <2>3. /\ "status" \in DOMAIN job.item => job.item["status"] \in BACKLOG_STATUSES
        /\ "sprint" \in DOMAIN job.item => job.item["sprint"] = TRUE
    BY DEF FlowJob
  <2>4. item' \in [status : BACKLOG_STATUSES, sprint : BOOLEAN]
    BY <2>1, <2>2, <2>3
  <2>5. item' # NoItem /\ ItemExists'
    BY <2>4, FlowMarks DEF ItemExists
  <2> QED BY <1>2, <2>1, <2>2, <2>3, <2>4, <2>5 DEF ItemRows
<1> QED BY <1>1, <1>2

\* A commit keeps the rows, the reasons and the gates, whatever it overlaps.
LEMMA FlowCommits ==
    ASSUME FlowInv, NEW t \in FlowThreads, CommitFlow(t)
    PROVE  FlowInv'
<1>1. PICK job : job = flowJob[t]
  OBVIOUS
<1>2. PICK f \in FsIds, k \in TsIds, u \in Tests :
        /\ SpecsCommitted(job, f, k)
        /\ job.test => unitTest[u] = "none"
        /\ unitTest' = IF job.test THEN [unitTest EXCEPT ![u] = "open"] ELSE unitTest
  <2>1. \E f \in FsIds, k \in TsIds, u \in Tests :
          /\ SpecsCommitted(flowJob[t], f, k)
          /\ flowJob[t].test => unitTest[u] = "none"
          /\ unitTest' = IF flowJob[t].test THEN [unitTest EXCEPT ![u] = "open"] ELSE unitTest
    BY DEF CommitFlow, SpecsCommitted
  <2> QED BY <1>1, <2>1
<1>3. /\ job # Serves /\ RowsThere(job) /\ (DOMAIN job.item # {} => sprint # "locked")
      /\ item' = Overwritten(item, job.item)
      /\ approvedOnce' = (approvedOnce \/ \E x \in TsIds : ts'[x].status = "approved")
      /\ flowJob' = [flowJob EXCEPT ![t] = Serves]
      /\ UNCHANGED <<sprint, flowRaced, put, testedOnce, untested>>
  BY <1>1 DEF CommitFlow
<1>4. FlowRows /\ FlowJob(job) /\ Gated(job) /\ item # NoItem
  BY <1>1, <1>3 DEF FlowInv, GateReasons
<1>5. /\ item' \in ItemRows /\ item' # NoItem
      /\ ItemExists' <=> ItemExists
      /\ item'.status = IF "status" \in DOMAIN job.item THEN job.item["status"] ELSE item.status
      /\ item'.sprint = (item.sprint \/ "sprint" \in DOMAIN job.item)
      /\ DOMAIN job.item = {} => item' = item
  BY <1>3, <1>4, ItemWritten
<1>6. /\ fs' \in [FsIds -> SpecStatuses \cup {NoFs}]
      /\ ts' \in [TsIds -> {NoTs} \cup TsRecords]
      /\ FsRows' = IF job.fs # "" THEN FsRows \cup {f} ELSE FsRows
      /\ \A x \in TsIds : ts'[x] # NoTs => IF job.ts # NoTs /\ x = k THEN ts'[x] = job.ts
                                            ELSE ts[x] # NoTs /\ ts'[x].fs = ts[x].fs
      /\ \A x \in TsIds : ts'[x] # NoTs => ts'[x].fs \in FsRows
      /\ \A x \in DOMAIN job.tsStatus : ts'[x].status = job.tsStatus[x]
  BY <1>2, <1>3, <1>4, SpecsWritten
<1>7. /\ UnitTests' = IF job.test THEN UnitTests \cup {u} ELSE UnitTests
      /\ unitTest' \in [Tests -> {"none", "open", "passed"}]
      /\ job.test => ~AllPassed'
      /\ ~job.test => AllPassed' = AllPassed
  BY <1>2, <1>4 DEF FlowRows, UnitTests, AllPassed
<1>8. FlowRows'
  BY <1>3, <1>4, <1>5, <1>6, <1>7 DEF FlowRows
<1>9. /\ flowJob' = [o \in FlowThreads |-> flowJob'[o]] /\ flowJob'[t] = Serves
      /\ \A o \in FlowThreads : flowJob'[o] # Serves => o # t /\ flowJob'[o] = flowJob[o]
  BY <1>3 DEF FlowInv
<1>10. (\E x \in DOMAIN job.tsStatus : job.tsStatus[x] = "approved") => approvedOnce'
  <2> SUFFICES ASSUME NEW x \in DOMAIN job.tsStatus, job.tsStatus[x] = "approved" PROVE approvedOnce'
    OBVIOUS
  <2>1. x \in TsIds
    BY <1>4 DEF FlowJob
  <2>2. ts'[x].status = "approved"
    BY <1>6
  <2> QED BY <1>3, <2>1, <2>2
<1>11. ASSUME NEW o \in FlowThreads, flowJob'[o] # Serves
       PROVE  FlowJob(flowJob'[o]) /\ Gated(flowJob[o])' /\ flowJob'[o] = flowJob[o]
  <2>1. flowJob'[o] = flowJob[o] /\ FlowJob(flowJob[o]) /\ Gated(flowJob[o])
    BY <1>9, <1>11 DEF FlowInv
  <2>2. (approvedOnce => approvedOnce') /\ UnitTests \subseteq UnitTests'
    BY <1>3, <1>7
  <2>3. Gated(flowJob[o])'
    BY <1>3, <1>5, <2>1, <2>2 DEF Gated
  <2> QED BY <2>1, <2>3
<1>12. GateReasons'
  <2>1. \A x \in TsIds : ts'[x].status = "approved" => approvedOnce'
    BY <1>3
  <2>2. (UnitTests # {} /\ AllPassed)' => testedOnce'
    BY <1>3, <1>7 DEF FlowInv, GateReasons
  <2>3. (item.status = "test" /\ ~put /\ ~untested => UnitTests # {})'
    <3>1. CASE "status" \in DOMAIN job.item
      <4>1. ItemExists
        BY <1>3, <3>1 DEF RowsThere
      <4> QED BY <1>3, <1>4, <1>5, <1>7, <3>1, <4>1 DEF Gated
    <3>2. CASE "status" \notin DOMAIN job.item
      BY <1>3, <1>5, <1>7, <3>2 DEF FlowInv, GateReasons
    <3> QED BY <3>1, <3>2
  <2> QED BY <1>5, <2>1, <2>2, <2>3 DEF GateReasons
<1>13. GatesHold'
  <2>1. CASE "status" \in DOMAIN job.item
    BY <1>3, <1>4, <1>5, <1>10, <2>1 DEF Gated, GatesHold, BuiltFromApproved, DeployedWasTested
  <2>2. CASE "status" \notin DOMAIN job.item
    BY <1>3, <1>5, <2>2 DEF FlowInv, GatesHold, BuiltFromApproved, DeployedWasTested
  <2> QED BY <2>1, <2>2
<1>14. ASSUME ~flowRaced' PROVE FlowAlone'
  <2>1. FlowAlone /\ Missing(job)
    BY <1>1, <1>3, <1>14 DEF FlowInv, FlowAlone
  <2>2. (\A o \in FlowThreads : flowJob'[o] = Serves) /\ sprint \notin {"locked", "unlocked"}
    BY <1>1, <1>3, <1>9, <2>1 DEF FlowAlone
  <2>3. ASSUME job.fs # "" PROVE FsRows = {} /\ job.ts = NoTs /\ \A x \in TsIds : ts'[x] = NoTs
    <3>1. FsRows = {}
      BY <2>1, <2>3 DEF Missing
    <3>2. job.ts = NoTs
      BY <1>3, <1>4, <3>1, FlowMarks DEF RowsThere, FlowJob, TsRecords
    <3> QED BY <1>6, <3>1, <3>2
  <2>4. \A g, h \in FsRows' : g = h
    BY <1>3, <1>6, <1>14, <2>1, <2>3 DEF FlowAlone, RowsAgree, OneSpecification
  <2>5. ASSUME NEW g \in FsRows', NEW x \in TsRows(g)', NEW y \in TsRows(g)' PROVE x = y
    <3>1. x \in TsIds /\ y \in TsIds /\ ts'[x] # NoTs /\ ts'[y] # NoTs /\ ts'[x].fs = g /\ ts'[y].fs = g
      BY <2>5 DEF TsRows
    <3>2. job.fs = "" /\ FsRows' = FsRows
      BY <1>6, <2>3, <3>1
    <3>3. CASE job.ts = NoTs
      <4>1. x \in TsRows(g) /\ y \in TsRows(g) /\ g \in FsRows
        BY <1>6, <3>1, <3>2, <3>3 DEF TsRows
      <4> QED BY <1>3, <1>14, <2>1, <4>1 DEF FlowAlone, RowsAgree, OneSpecification
    <3>4. CASE job.ts # NoTs
      <4>1. TsRows(job.ts.fs) = {}
        BY <2>1, <3>4 DEF Missing
      <4>2. \A z \in TsIds : ts'[z] # NoTs /\ z # k => z \in TsRows(ts'[z].fs) /\ ts[z] # NoTs
        BY <1>6 DEF TsRows
      <4>3. CASE g = job.ts.fs
        BY <3>1, <4>1, <4>2, <4>3
      <4>4. CASE g # job.ts.fs
        <5>1. x # k /\ y # k
          BY <1>6, <3>1, <3>4, <4>4
        <5>2. x \in TsRows(g) /\ y \in TsRows(g)
          BY <3>1, <4>2, <5>1
        <5> QED BY <1>14, <1>3, <2>1, <3>2, <5>2 DEF FlowAlone, RowsAgree, OneSpecification
      <4> QED BY <4>3, <4>4
    <3> QED BY <3>3, <3>4
  <2>6. (item.status = "deleted" /\ item.sprint)' => FALSE
    <3>1. CASE DOMAIN job.item = {}
      BY <1>3, <1>5, <1>14, <2>1, <3>1 DEF FlowAlone, RowsAgree, SprintLeavesItems
    <3>2. CASE DOMAIN job.item # {}
      <4>1. ItemExists'
        BY <1>3, <1>5, <3>2 DEF RowsThere
      <4> QED BY <4>1, FlowMarks DEF ItemExists
    <3> QED BY <3>1, <3>2
  <2>7. OneSpecification'
    BY <2>4, <2>5 DEF OneSpecification
  <2>8. RowsAgree'
    BY <2>6, <2>7 DEF RowsAgree, SprintLeavesItems
  <2> QED BY <1>3, <2>2, <2>8 DEF FlowAlone
<1>15. \A o \in FlowThreads : flowJob'[o] # Serves => (FlowJob(flowJob[o]) /\ Gated(flowJob[o]))'
  <2> SUFFICES ASSUME NEW o \in FlowThreads, flowJob'[o] # Serves PROVE (FlowJob(flowJob[o]) /\ Gated(flowJob[o]))'
    OBVIOUS
  <2> QED BY <1>11
<1> QED BY <1>8, <1>9, <1>12, <1>13, <1>14, <1>15 DEF FlowInv

\* A failed request leaves everything as it is.
LEMMA FlowFails == ASSUME FlowInv, NEW t \in FlowThreads, FailFlow(t) PROVE FlowInv'
<1>1. /\ flowJob' = [flowJob EXCEPT ![t] = Serves]
      /\ UNCHANGED <<item, fs, ts, unitTest, sprint, flowRaced, put, approvedOnce, testedOnce, untested>>
  BY DEF FailFlow, flowHistory
<1>2. /\ flowJob' = [o \in FlowThreads |-> flowJob'[o]]
      /\ \A o \in FlowThreads : flowJob'[o] = IF o = t THEN Serves ELSE flowJob[o]
  BY <1>1 DEF FlowInv
<1>3. FlowRows' /\ FsRows' = FsRows /\ UnitTests' = UnitTests /\ AllPassed' = AllPassed
      /\ ItemExists' = ItemExists /\ \A f : TsRows(f)' = TsRows(f)
  BY <1>1 DEF FlowInv, FlowRows, FsRows, UnitTests, AllPassed, ItemExists, TsRows
<1>4. \A o \in FlowThreads : flowJob'[o] # Serves => (FlowJob(flowJob[o]) /\ Gated(flowJob[o]))'
  <2> SUFFICES ASSUME NEW o \in FlowThreads, flowJob'[o] # Serves PROVE (FlowJob(flowJob[o]) /\ Gated(flowJob[o]))'
    OBVIOUS
  <2>1. flowJob'[o] = flowJob[o] /\ FlowJob(flowJob[o]) /\ Gated(flowJob[o])
    BY <1>2 DEF FlowInv
  <2>2. Gated(flowJob[o])'
    BY <1>1, <1>3, <2>1 DEF Gated
  <2> QED BY <2>1, <2>2
<1>5. GateReasons' /\ GatesHold'
  BY <1>1, <1>2, <1>3 DEF FlowInv, GateReasons, GatesHold, BuiltFromApproved, DeployedWasTested
<1>6. ASSUME ~flowRaced' PROVE FlowAlone'
  <2>1. FlowAlone
    BY <1>1, <1>6 DEF FlowInv
  <2>2. \A o \in FlowThreads : flowJob'[o] # Serves => Missing(flowJob[o])'
    <3> SUFFICES ASSUME NEW o \in FlowThreads, flowJob'[o] # Serves PROVE Missing(flowJob[o])'
      OBVIOUS
    <3>1. flowJob'[o] = flowJob[o] /\ Missing(flowJob[o])
      BY <1>2, <2>1 DEF FlowAlone
    <3> QED BY <1>1, <1>3, <3>1 DEF Missing
  <2>3. RowsAgree'
    BY <1>1, <1>3, <2>1 DEF FlowAlone, RowsAgree, OneSpecification, SprintLeavesItems
  <2>4. /\ \A a, o \in FlowThreads : flowJob'[a] # Serves /\ flowJob'[o] # Serves => a = o
        /\ sprint' \in {"locked", "unlocked"} => \A a \in FlowThreads : flowJob'[a] = Serves
        /\ sprint' = "unlocked" => ~item'.sprint
    BY <1>1, <1>2, <2>1 DEF FlowAlone
  <2> QED BY <2>2, <2>3, <2>4 DEF FlowAlone
<1> QED BY <1>2, <1>3, <1>4, <1>5, <1>6 DEF FlowInv

\* The new item comes before any request for it.
LEMMA ItemCreated ==
    ASSUME FlowInv, NEW s \in PutStatuses \cup {"new"}, CreateBacklogItem(s)
    PROVE  FlowInv'
<1>1. /\ item = NoItem /\ item' = [status |-> s, sprint |-> FALSE] /\ put' = (s # "new")
      /\ UNCHANGED <<fs, ts, unitTest, sprint, flowJob, flowRaced, approvedOnce, testedOnce, untested>>
  BY DEF CreateBacklogItem
<1>2. FsRows = {} /\ \A t \in FlowThreads : flowJob[t] = Serves
  BY <1>1 DEF FlowInv, GateReasons
<1>3. s \in BACKLOG_STATUSES
  BY FlowMarks, FlowAssumption
<1>4. item'.status = s /\ item'.sprint = FALSE /\ item' \in ItemRows /\ item' # NoItem
  BY <1>1, <1>3, FlowMarks DEF ItemRows
<1>5. FlowRows' /\ FsRows' = {} /\ UnitTests' = UnitTests /\ AllPassed' = AllPassed
  BY <1>1, <1>2, <1>4 DEF FlowInv, FlowRows, FsRows, UnitTests, AllPassed
<1>6. GateReasons' /\ GatesHold'
  BY <1>1, <1>4, <1>5 DEF FlowInv, GateReasons, GatesHold, BuiltFromApproved, DeployedWasTested
<1>7. RowsAgree'
  BY <1>3, <1>4, <1>5, FlowMarks DEF RowsAgree, OneSpecification, SprintLeavesItems
<1>8. flowJob' = [t \in FlowThreads |-> flowJob'[t]] /\ \A t \in FlowThreads : flowJob'[t] = Serves
  BY <1>1, <1>2 DEF FlowInv
<1> QED BY <1>4, <1>5, <1>6, <1>7, <1>8 DEF FlowInv, FlowAlone

\* A request that waits for an item which goes away has nothing left to keep.
LEMMA ItemGone ==
    ASSUME FlowInv, item' \in ItemRows, item'.status = "deleted", item'.sprint => flowRaced,
           fs' = [f \in FsIds |-> NoFs], ts' = [k \in TsIds |-> NoTs], unitTest' = [u \in Tests |-> "none"],
           sprint' \in {"planned", "locked", "unlocked", "deleted"},
           sprint' \in {"locked", "unlocked"} => sprint' = sprint,
           UNCHANGED <<flowJob, flowRaced, put, approvedOnce, testedOnce, untested>>
    PROVE  FlowInv'
<1>1. FsRows' = {} /\ UnitTests' = {} /\ (\A f : TsRows(f)' = {}) /\ \A k \in TsIds : ts'[k] = NoTs
  BY DEF FsRows, UnitTests, TsRows
<1>2. item' # NoItem /\ ~ItemExists'
  BY FlowMarks, ItemShape DEF ItemExists
<1>3. FlowRows'
  BY <1>1 DEF FlowRows
<1>4. GateReasons' /\ GatesHold'
  BY <1>1, <1>2, FlowMarks DEF GateReasons, GatesHold, BuiltFromApproved, DeployedWasTested
<1>5. \A o \in FlowThreads : flowJob'[o] # Serves => (FlowJob(flowJob[o]) /\ Gated(flowJob[o]))'
  <2> SUFFICES ASSUME NEW o \in FlowThreads, flowJob'[o] # Serves PROVE (FlowJob(flowJob[o]) /\ Gated(flowJob[o]))'
    OBVIOUS
  <2>1. flowJob'[o] = flowJob[o] /\ FlowJob(flowJob[o]) /\ Gated(flowJob[o])
    BY DEF FlowInv
  <2>2. Gated(flowJob[o])'
    BY <1>2, <2>1 DEF Gated
  <2> QED BY <2>1, <2>2
<1>6. ASSUME ~flowRaced' PROVE FlowAlone'
  <2>1. FlowAlone
    BY <1>6 DEF FlowInv
  <2>2. \A o \in FlowThreads : flowJob'[o] # Serves => Missing(flowJob[o])'
    BY <1>1 DEF Missing
  <2>3. RowsAgree'
    BY <1>1, <1>6 DEF RowsAgree, OneSpecification, SprintLeavesItems
  <2>4. /\ \A a, o \in FlowThreads : flowJob'[a] # Serves /\ flowJob'[o] # Serves => a = o
        /\ sprint' \in {"locked", "unlocked"} => \A a \in FlowThreads : flowJob'[a] = Serves
        /\ sprint' = "unlocked" => ~item'.sprint
    BY <1>6, <2>1 DEF FlowAlone
  <2> QED BY <2>2, <2>3, <2>4 DEF FlowAlone
<1> QED BY <1>3, <1>4, <1>5, <1>6 DEF FlowInv

\* A deletion takes the specifications with it.
LEMMA ItemDeletes == ASSUME FlowInv, DeleteBacklogItem PROVE FlowInv'
<1>1. /\ item' = ItemDeleted /\ ItemExists
      /\ fs' = [f \in FsIds |-> NoFs] /\ ts' = [k \in TsIds |-> NoTs] /\ unitTest' = [u \in Tests |-> "none"]
      /\ UNCHANGED <<sprint, flowJob, flowRaced, put, approvedOnce, testedOnce, untested>>
  BY DEF DeleteBacklogItem, flowHistory
<1>2. item' \in ItemRows /\ item'.status = "deleted" /\ item'.sprint = FALSE
  BY <1>1 DEF ItemRows, ItemDeleted
<1>3. sprint' \in {"planned", "locked", "unlocked", "deleted"}
  BY <1>1 DEF FlowInv, FlowRows
<1> QED BY <1>1, <1>2, <1>3, ItemGone

\* A unit test that comes, passes or goes.
LEMMA TestChanges ==
    ASSUME FlowInv, NEW u \in Tests, NEW to \in {"none", "open", "passed"}, ChangeTest(u, to)
    PROVE  FlowInv'
<1>1. /\ ItemExists /\ unitTest' = [unitTest EXCEPT ![u] = to]
      /\ untested' = (untested \/ to = "none")
      /\ testedOnce' = (testedOnce \/ {unitTest'[x] : x \in Tests} \ {"none"} = {"passed"})
      /\ UNCHANGED <<item, fs, ts, sprint, flowJob, flowRaced, put, approvedOnce>>
  BY DEF ChangeTest
<1>2. unitTest' \in [Tests -> {"none", "open", "passed"}] /\ \A x \in Tests : unitTest'[x] = IF x = u THEN to ELSE unitTest[x]
  BY <1>1 DEF FlowInv, FlowRows
<1>3. to # "none" => UnitTests \subseteq UnitTests' /\ UnitTests' # {}
  BY <1>2 DEF UnitTests
<1>4. UnitTests' # {} /\ AllPassed' => testedOnce'
  <2> SUFFICES ASSUME UnitTests' # {}, AllPassed' PROVE {unitTest'[x] : x \in Tests} \ {"none"} = {"passed"}
    BY <1>1
  <2> QED BY <1>2 DEF UnitTests, AllPassed
<1>5. FlowRows' /\ FsRows' = FsRows /\ ItemExists' = ItemExists /\ \A f : TsRows(f)' = TsRows(f)
  BY <1>1, <1>2 DEF FlowInv, FlowRows, FsRows, ItemExists, TsRows
<1>6. \A o \in FlowThreads : flowJob'[o] # Serves => (FlowJob(flowJob[o]) /\ Gated(flowJob[o]))'
  <2> SUFFICES ASSUME NEW o \in FlowThreads, flowJob'[o] # Serves PROVE (FlowJob(flowJob[o]) /\ Gated(flowJob[o]))'
    OBVIOUS
  <2>1. flowJob'[o] = flowJob[o] /\ FlowJob(flowJob[o]) /\ Gated(flowJob[o])
    BY <1>1 DEF FlowInv
  <2>2. Gated(flowJob[o])'
    BY <1>1, <1>3, <1>5, <2>1 DEF Gated
  <2> QED BY <2>1, <2>2
<1>7. GateReasons' /\ GatesHold'
  <2>1. (item.status = "test" /\ ~put /\ ~untested => UnitTests # {})'
    BY <1>1, <1>3
  <2>2. (item = NoItem => ~put /\ FsRows = {} /\ \A t \in FlowThreads : flowJob[t] = Serves)'
    BY <1>1, <1>5 DEF FlowInv, GateReasons
  <2>3. (\A k \in TsIds : ts[k].status = "approved" => approvedOnce)'
    BY <1>1 DEF FlowInv, GateReasons
  <2>4. GatesHold'
    BY <1>1 DEF FlowInv, GatesHold, BuiltFromApproved, DeployedWasTested
  <2> QED BY <1>4, <2>1, <2>2, <2>3, <2>4 DEF GateReasons
<1>8. ASSUME ~flowRaced' PROVE FlowAlone'
  <2>1. FlowAlone
    BY <1>1, <1>8 DEF FlowInv
  <2>2. \A o \in FlowThreads : flowJob'[o] # Serves => Missing(flowJob[o])'
    <3> SUFFICES ASSUME NEW o \in FlowThreads, flowJob'[o] # Serves PROVE Missing(flowJob[o])'
      OBVIOUS
    <3>1. flowJob'[o] = flowJob[o] /\ Missing(flowJob[o])
      BY <1>1, <2>1 DEF FlowAlone
    <3> QED BY <1>1, <1>5, <3>1 DEF Missing
  <2>3. RowsAgree'
    BY <1>1, <1>5, <2>1 DEF FlowAlone, RowsAgree, OneSpecification, SprintLeavesItems
  <2>4. /\ \A a, o \in FlowThreads : flowJob'[a] # Serves /\ flowJob'[o] # Serves => a = o
        /\ sprint' \in {"locked", "unlocked"} => \A a \in FlowThreads : flowJob'[a] = Serves
        /\ sprint' = "unlocked" => ~item'.sprint
    BY <1>1, <2>1 DEF FlowAlone
  <2> QED BY <2>2, <2>3, <2>4 DEF FlowAlone
<1>9. flowJob' = [o \in FlowThreads |-> flowJob'[o]]
  BY <1>1 DEF FlowInv
<1> QED BY <1>5, <1>6, <1>7, <1>8, <1>9 DEF FlowInv

\* The item leaves its sprint at most, and the sprint goes.
LEMMA SprintGoes ==
    ASSUME FlowInv, item' \in ItemRows, item'.status = item.status, item'.sprint => item.sprint,
           sprint' \in {"planned", "locked", "unlocked", "deleted"}, flowRaced => flowRaced',
           ~flowRaced' /\ sprint' \in {"locked", "unlocked"} => \A o \in FlowThreads : flowJob[o] = Serves,
           ~flowRaced' /\ sprint' = "unlocked" => ~item'.sprint,
           UNCHANGED <<fs, ts, unitTest, flowJob, put, approvedOnce, testedOnce, untested>>
    PROVE  FlowInv'
<1>1. item \in ItemRows
  BY DEF FlowInv, FlowRows
<1>2. /\ FsRows' = FsRows /\ UnitTests' = UnitTests /\ AllPassed' = AllPassed
      /\ ItemExists' = ItemExists /\ \A f : TsRows(f)' = TsRows(f)
  BY DEF FsRows, UnitTests, AllPassed, ItemExists, TsRows
<1>3. FlowRows'
  BY <1>2 DEF FlowInv, FlowRows
<1>4. item' = NoItem <=> item = NoItem
  BY <1>1, ItemShape
<1>5. \A o \in FlowThreads : flowJob'[o] # Serves => (FlowJob(flowJob[o]) /\ Gated(flowJob[o]))'
  <2> SUFFICES ASSUME NEW o \in FlowThreads, flowJob'[o] # Serves PROVE (FlowJob(flowJob[o]) /\ Gated(flowJob[o]))'
    OBVIOUS
  <2>1. flowJob'[o] = flowJob[o] /\ FlowJob(flowJob[o]) /\ Gated(flowJob[o])
    BY DEF FlowInv
  <2>2. Gated(flowJob[o])'
    BY <1>2, <2>1 DEF Gated
  <2> QED BY <2>1, <2>2
<1>6. GateReasons' /\ GatesHold'
  BY <1>2, <1>4 DEF FlowInv, GateReasons, GatesHold, BuiltFromApproved, DeployedWasTested
<1>7. ASSUME ~flowRaced' PROVE FlowAlone'
  <2>1. FlowAlone /\ ~flowRaced
    BY <1>7 DEF FlowInv
  <2>2. \A o \in FlowThreads : flowJob'[o] # Serves => Missing(flowJob[o])'
    <3> SUFFICES ASSUME NEW o \in FlowThreads, flowJob'[o] # Serves PROVE Missing(flowJob[o])'
      OBVIOUS
    <3>1. flowJob'[o] = flowJob[o] /\ Missing(flowJob[o])
      BY <2>1 DEF FlowAlone
    <3> QED BY <1>2, <3>1 DEF Missing
  <2>3. RowsAgree'
    BY <1>2, <2>1 DEF FlowAlone, RowsAgree, OneSpecification, SprintLeavesItems
  <2>4. /\ \A a, o \in FlowThreads : flowJob'[a] # Serves /\ flowJob'[o] # Serves => a = o
        /\ sprint' \in {"locked", "unlocked"} => \A a \in FlowThreads : flowJob'[a] = Serves
        /\ sprint' = "unlocked" => ~item'.sprint
    BY <1>7, <2>1 DEF FlowAlone
  <2> QED BY <2>2, <2>3, <2>4 DEF FlowAlone
<1>8. flowJob' = [o \in FlowThreads |-> flowJob'[o]]
  BY DEF FlowInv
<1> QED BY <1>3, <1>5, <1>6, <1>7, <1>8 DEF FlowInv

\* The deletion of a sprint begins.
LEMMA SprintDeletes == ASSUME FlowInv, DeleteSprint PROVE FlowInv'
<1>1. /\ sprint' = IF item.sprint THEN "locked" ELSE "unlocked"
      /\ flowRaced' = (flowRaced \/ \E t \in FlowThreads : flowJob[t] # Serves)
      /\ UNCHANGED <<item, fs, ts, unitTest, flowJob, put, approvedOnce, testedOnce, untested>>
  BY DEF DeleteSprint, Unassigned
<1>2. item' \in ItemRows /\ item'.status = item.status /\ item'.sprint = item.sprint
  BY <1>1 DEF FlowInv, FlowRows
<1>3. /\ sprint' \in {"planned", "locked", "unlocked", "deleted"} /\ (flowRaced => flowRaced')
      /\ ~flowRaced' /\ sprint' \in {"locked", "unlocked"} => \A o \in FlowThreads : flowJob[o] = Serves
      /\ sprint' = "unlocked" => ~item'.sprint
  BY <1>1
<1> QED BY <1>1, <1>2, <1>3, SprintGoes

\* It ends: an item is deleted with it only if it came in meanwhile.
LEMMA SprintEnds == ASSUME FlowInv, FinishDeleteSprint PROVE FlowInv'
<1>1. sprint' = "deleted" /\ UNCHANGED <<flowJob, flowRaced, put, approvedOnce, testedOnce, untested>>
  BY DEF FinishDeleteSprint, flowHistory
<1>2. PICK lost \in BOOLEAN :
        /\ lost => sprint = "unlocked" /\ item.sprint
        /\ item' = IF lost THEN [ItemDeleted EXCEPT !.sprint = TRUE] ELSE [item EXCEPT !.sprint = FALSE]
        /\ fs' = [f \in FsIds |-> IF lost THEN NoFs ELSE fs[f]]
        /\ ts' = [k \in TsIds |-> IF lost THEN NoTs ELSE ts[k]]
        /\ unitTest' = [u \in Tests |-> IF lost THEN "none" ELSE unitTest[u]]
  <2>1. PICK loaded \in BOOLEAN :
          LET lost == loaded /\ sprint = "unlocked" /\ item.sprint
          IN  /\ item' = IF lost THEN [ItemDeleted EXCEPT !.sprint = TRUE] ELSE [item EXCEPT !.sprint = FALSE]
              /\ fs' = [f \in FsIds |-> IF lost THEN NoFs ELSE fs[f]]
              /\ ts' = [k \in TsIds |-> IF lost THEN NoTs ELSE ts[k]]
              /\ unitTest' = [u \in Tests |-> IF lost THEN "none" ELSE unitTest[u]]
    BY DEF FinishDeleteSprint
  <2>2. CASE loaded /\ sprint = "unlocked" /\ item.sprint
    <3> WITNESS TRUE \in BOOLEAN
    <3> QED BY <2>1, <2>2
  <2>3. CASE ~(loaded /\ sprint = "unlocked" /\ item.sprint)
    <3> WITNESS FALSE \in BOOLEAN
    <3> QED BY <2>1, <2>3
  <2> QED BY <2>2, <2>3
<1>3. CASE lost
  <2>1. item' \in ItemRows /\ item'.status = "deleted"
    BY <1>2, <1>3 DEF ItemRows, ItemDeleted
  <2>2. flowRaced
    BY <1>2, <1>3 DEF FlowInv, FlowAlone
  <2>3. fs' = [f \in FsIds |-> NoFs] /\ ts' = [k \in TsIds |-> NoTs] /\ unitTest' = [u \in Tests |-> "none"]
    BY <1>2, <1>3
  <2>4. sprint' \in {"planned", "locked", "unlocked", "deleted"} /\ sprint' \notin {"locked", "unlocked"}
    BY <1>1
  <2> QED BY <1>1, <2>1, <2>2, <2>3, <2>4, ItemGone
<1>4. CASE ~lost
  <2>1. item \in ItemRows /\ fs' = fs /\ ts' = ts /\ unitTest' = unitTest
    BY <1>2, <1>4 DEF FlowInv, FlowRows
  <2>2. item' = [item EXCEPT !.sprint = FALSE]
    BY <1>2, <1>4
  <2>3. item' \in ItemRows /\ item'.status = item.status /\ item'.sprint = FALSE
    <3>1. CASE item.status \in BACKLOG_STATUSES
      BY <2>1, <2>2, <3>1, ItemShape DEF ItemRows
    <3>2. CASE item.status \notin BACKLOG_STATUSES
      BY <2>1, <2>2, <3>2, ItemShape DEF ItemRows, NoItem, ItemDeleted
    <3> QED BY <3>1, <3>2
  <2>4. sprint' \in {"planned", "locked", "unlocked", "deleted"} /\ sprint' \notin {"locked", "unlocked"} /\ sprint' # "unlocked"
    BY <1>1
  <2> QED BY <1>1, <2>1, <2>3, <2>4, SprintGoes
<1> QED BY <1>3, <1>4

\* A request that commits nothing.
LEMMA NothingCommits ==
    /\ DOMAIN Nothing = {"op", "item", "fs", "ts", "test", "fsStatus", "tsStatus"}
    /\ Nothing.op = "commit" /\ Nothing.fs = "" /\ Nothing.ts = NoTs
    /\ DOMAIN Nothing.item = {} /\ DOMAIN Nothing.fsStatus = {} /\ DOMAIN Nothing.tsStatus = {}
    /\ DOMAIN << >> = {}
<1>1. DOMAIN << >> = {}
  OBVIOUS
<1>2. Nothing.item = << >> /\ Nothing.fsStatus = << >> /\ Nothing.tsStatus = << >>
  BY DEF Nothing
<1> QED BY <1>1, <1>2 DEF Nothing

\* An update sets the status, and is remembered to.
LEMMA ItemUpdates ==
    ASSUME FlowInv, NEW t \in FlowThreads, NEW s \in PutStatuses, UpdateBacklogItem(t, s)
    PROVE  FlowInv'
<1>1. PICK job : job = [Nothing EXCEPT !.item = [status |-> s]]
  OBVIOUS
<1>2. ItemExists /\ BeginFlow(t, job) /\ put' = TRUE
  BY <1>1 DEF UpdateBacklogItem
<1>3. FlowJob(job) /\ job.fs = "" /\ job.ts = NoTs
  BY <1>1, FlowAssumption, NothingCommits DEF FlowJob
<1>4. Gated(job)' /\ Missing(job)'
  BY <1>2, <1>3 DEF Gated, Missing
<1> QED BY <1>2, <1>3, <1>4, FlowBegins, ItemThere DEF FlowInv

\* A move has passed the gate of its status.
LEMMA ItemMoves ==
    ASSUME FlowInv, NEW t \in FlowThreads, NEW s \in BACKLOG_STATUSES, MoveBacklogItem(t, s)
    PROVE  FlowInv'
<1>1. PICK f \in LoadedFs : \E k \in LoadedTs(f) :
        /\ s = "build" => TsReady(f, k)
        /\ s = "deploy" => AllPassed
        /\ BeginFlow(t, [Nothing EXCEPT
               !.item = [status |-> s],
               !.fs = IF s = "design" /\ NeedsFs(f) THEN "draft" ELSE "",
               !.test = (s = "test" /\ NeedsTest)])
  BY DEF MoveBacklogItem
<1>2. PICK k \in LoadedTs(f) :
        /\ s = "build" => TsReady(f, k)
        /\ s = "deploy" => AllPassed
        /\ BeginFlow(t, [Nothing EXCEPT
               !.item = [status |-> s],
               !.fs = IF s = "design" /\ NeedsFs(f) THEN "draft" ELSE "",
               !.test = (s = "test" /\ NeedsTest)])
  BY <1>1
<1>3. PICK job : job = [Nothing EXCEPT
               !.item = [status |-> s],
               !.fs = IF s = "design" /\ NeedsFs(f) THEN "draft" ELSE "",
               !.test = (s = "test" /\ NeedsTest)]
  OBVIOUS
<1>4. ItemExists /\ s \in BACKLOG_TRANSITIONS[item.status] /\ BeginFlow(t, job) /\ put' = put
  BY <1>2, <1>3 DEF MoveBacklogItem
<1>5. /\ job.item["status"] = s /\ job.ts = NoTs /\ job.test = (s = "test" /\ UnitTests = {})
      /\ DOMAIN job.item = {"status"}
      /\ job.fs # "" => f = NoFs
  BY <1>3, NothingCommits DEF NeedsFs, NeedsTest
<1>6. FlowJob(job)
  BY <1>3, NothingCommits DEF FlowJob, SpecStatuses
<1>7. UNCHANGED <<item, fs, ts, unitTest, sprint, approvedOnce, testedOnce, untested>>
  BY <1>4 DEF BeginFlow
<1>8. /\ item.status \notin {"closed", "cancelled"}
      /\ s = "deploy" => item.status = "test"
      /\ s = "closed" => item.status = "deploy"
  BY <1>4, FlowMarks DEF BACKLOG_TRANSITIONS, ItemExists
<1>9. s = "build" => approvedOnce
  <2> SUFFICES ASSUME s = "build" PROVE approvedOnce
    OBVIOUS
  <2>1. k # NoFs /\ ts[k].status = "approved"
    BY <1>2 DEF TsReady, ApprovedTs
  <2>2. k \in TsIds
    BY <2>1 DEF LoadedTs, TsRows
  <2> QED BY <2>1, <2>2 DEF FlowInv, GateReasons
<1>10. s \in {"deploy", "closed"} => put \/ untested \/ testedOnce
  <2>1. CASE s = "deploy"
    BY <1>2, <1>8, <2>1 DEF FlowInv, GateReasons
  <2>2. CASE s = "closed"
    BY <1>8, <2>2 DEF FlowInv, GatesHold, DeployedWasTested
  <2> QED BY <2>1, <2>2
<1>11. UnitTests' = UnitTests /\ ItemExists' = ItemExists /\ FsRows' = FsRows
  BY <1>7 DEF UnitTests, ItemExists, FsRows
<1>12. Gated(job)'
  BY <1>4, <1>5, <1>7, <1>9, <1>10, <1>11 DEF Gated
<1>13. f = NoFs => FsRows = {}
  BY FlowMarks DEF LoadedFs, FsRows
<1>14. Missing(job)'
  BY <1>5, <1>7, <1>8, <1>11, <1>13 DEF Missing
<1> QED BY <1>4, <1>6, <1>12, <1>14, FlowBegins, ItemThere DEF FlowInv

\* Planning an item changes its sprint alone.
LEMMA ItemPlanned == ASSUME FlowInv, NEW t \in FlowThreads, PlanItem(t) PROVE FlowInv'
<1>1. PICK job : job = [Nothing EXCEPT !.item = [sprint |-> TRUE]]
  OBVIOUS
<1>2. ItemExists /\ BeginFlow(t, job) /\ put' = put
  BY <1>1 DEF PlanItem
<1>3. FlowJob(job) /\ job.fs = "" /\ job.ts = NoTs /\ DOMAIN job.item = {"sprint"}
  BY <1>1, NothingCommits DEF FlowJob
<1>4. Gated(job)' /\ Missing(job)'
  BY <1>3 DEF Gated, Missing
<1> QED BY <1>2, <1>3, <1>4, FlowBegins, ItemThere DEF FlowInv

\* A request that writes the missing specifications and nothing of the item.
LEMMA SpecBegins ==
    ASSUME FlowInv, NEW t \in FlowThreads, NEW job, BeginFlow(t, job), FlowJob(job), put' = put, item # NoItem,
           DOMAIN job.item = {}, job.fs # "" => FsRows = {}, job.ts # NoTs => TsRows(job.ts.fs) = {}
    PROVE  FlowInv'
<1>1. UNCHANGED <<fs, ts>>
  BY DEF BeginFlow
<1>2. FsRows' = FsRows /\ \A f : TsRows(f)' = TsRows(f)
  BY <1>1 DEF FsRows, TsRows
<1>3. Gated(job)' /\ Missing(job)'
  BY <1>2 DEF Gated, Missing
<1> QED BY <1>3, FlowBegins

\* An item has specifications only as long as it is there.
LEMMA SpecsNeedItem == FlowInv /\ FsRows # {} => item # NoItem
BY DEF FlowInv, GateReasons

\* A functional specification is created when there is none.
LEMMA FsCreated ==
    ASSUME FlowInv, NEW t \in FlowThreads, NEW s \in SpecStatuses, CreateFunctionalSpec(t, s)
    PROVE  FlowInv'
<1>1. PICK job : job = [Nothing EXCEPT !.fs = s]
  OBVIOUS
<1>2. ItemExists /\ FsRows = {} /\ BeginFlow(t, job) /\ put' = put
  BY <1>1 DEF CreateFunctionalSpec
<1>3. FlowJob(job) /\ job.ts = NoTs /\ DOMAIN job.item = {}
  BY <1>1, NothingCommits DEF FlowJob
<1> QED BY <1>2, <1>3, SpecBegins, ItemThere DEF FlowInv

\* A technical specification is created when its functional one has none.
LEMMA TsCreated ==
    ASSUME FlowInv, NEW t \in FlowThreads, NEW f \in FsIds, NEW s \in SpecStatuses, CreateTechnicalSpec(t, f, s)
    PROVE  FlowInv'
<1>1. PICK job : job = [Nothing EXCEPT !.ts = [fs |-> f, status |-> s]]
  OBVIOUS
<1>2. f \in FsRows /\ TsRows(f) = {} /\ BeginFlow(t, job) /\ put' = put
  BY <1>1 DEF CreateTechnicalSpec
<1>3. FlowJob(job) /\ job.ts.fs = f /\ job.fs = "" /\ DOMAIN job.item = {}
  BY <1>1, NothingCommits DEF FlowJob, TsRecords
<1> QED BY <1>2, <1>3, SpecBegins, SpecsNeedItem

\* Drafts are generated of what is missing.
LEMMA SpecsGenerated == ASSUME FlowInv, NEW t \in FlowThreads, GenerateSpecs(t) PROVE FlowInv'
<1>1. PICK f \in LoadedFs :
        \/ f = NoFs /\ BeginFlow(t, [Nothing EXCEPT !.fs = "draft"])
        \/ /\ f # NoFs /\ NoFs \in LoadedTs(f)
           /\ BeginFlow(t, [Nothing EXCEPT !.ts = [fs |-> f, status |-> "draft"]])
  BY DEF GenerateSpecs
<1>2. ItemExists /\ put' = put
  BY DEF GenerateSpecs
<1>3. CASE f = NoFs /\ BeginFlow(t, [Nothing EXCEPT !.fs = "draft"])
  <2>1. PICK job : job = [Nothing EXCEPT !.fs = "draft"]
    OBVIOUS
  <2>2. BeginFlow(t, job)
    BY <1>3, <2>1
  <2>3. FlowJob(job) /\ job.ts = NoTs /\ DOMAIN job.item = {}
    BY <2>1, NothingCommits DEF FlowJob, SpecStatuses
  <2>4. FsRows = {}
    BY <1>3, FlowMarks DEF LoadedFs, FsRows
  <2> QED BY <1>2, <2>2, <2>3, <2>4, SpecBegins, ItemThere DEF FlowInv
<1>4. CASE f # NoFs /\ NoFs \in LoadedTs(f) /\ BeginFlow(t, [Nothing EXCEPT !.ts = [fs |-> f, status |-> "draft"]])
  <2>1. PICK job : job = [Nothing EXCEPT !.ts = [fs |-> f, status |-> "draft"]]
    OBVIOUS
  <2>2. BeginFlow(t, job)
    BY <1>4, <2>1
  <2>3. f \in FsIds
    BY <1>4 DEF LoadedFs, FsRows
  <2>4. FlowJob(job) /\ job.ts.fs = f /\ job.fs = "" /\ DOMAIN job.item = {}
    BY <2>1, <2>3, NothingCommits DEF FlowJob, TsRecords, SpecStatuses
  <2>5. TsRows(f) = {}
    BY <1>4, FlowMarks DEF LoadedTs, TsRows
  <2> QED BY <1>2, <2>2, <2>4, <2>5, SpecBegins, ItemThere DEF FlowInv
<1> QED BY <1>1, <1>3, <1>4

\* The approval of a functional specification drafts the technical one.
LEMMA FsUpdated ==
    ASSUME FlowInv, NEW t \in FlowThreads, NEW f \in FsIds, NEW s \in SpecStatuses, UpdateFunctionalSpec(t, f, s)
    PROVE  FlowInv'
<1>1. PICK k \in LoadedTs(f) :
        BeginFlow(t, [Nothing EXCEPT
            !.fsStatus = [x \in {f} |-> s],
            !.ts = IF s = "approved" /\ k = NoFs THEN [fs |-> f, status |-> "draft"] ELSE NoTs])
  BY DEF UpdateFunctionalSpec
<1>2. PICK job : job = [Nothing EXCEPT
            !.fsStatus = [x \in {f} |-> s],
            !.ts = IF s = "approved" /\ k = NoFs THEN [fs |-> f, status |-> "draft"] ELSE NoTs]
  OBVIOUS
<1>3. f \in FsRows /\ BeginFlow(t, job) /\ put' = put
  BY <1>1, <1>2 DEF UpdateFunctionalSpec
<1>4. FlowJob(job) /\ job.fs = "" /\ DOMAIN job.item = {} /\ (job.ts # NoTs => job.ts.fs = f /\ k = NoFs)
  BY <1>2, NothingCommits DEF FlowJob, TsRecords, SpecStatuses
<1>5. k = NoFs => TsRows(f) = {}
  BY FlowMarks DEF LoadedTs, TsRows
<1> QED BY <1>3, <1>4, <1>5, SpecBegins, SpecsNeedItem

\* The approval of a technical specification carries its item to the build.
LEMMA TsUpdated ==
    ASSUME FlowInv, NEW t \in FlowThreads, NEW k \in TsIds, NEW s \in SpecStatuses, UpdateTechnicalSpec(t, k, s)
    PROVE  FlowInv'
<1>1. PICK job : job = [Nothing EXCEPT
           !.tsStatus = [x \in {k} |-> s],
           !.item = IF s = "approved" /\ OnSpecStatusChange THEN [status |-> "build"] ELSE << >>]
  OBVIOUS
<1>2. ts[k] # NoTs /\ BeginFlow(t, job) /\ put' = put
  BY <1>1 DEF UpdateTechnicalSpec
<1>3. /\ FlowJob(job) /\ job.fs = "" /\ job.ts = NoTs /\ job.tsStatus = [x \in {k} |-> s]
      /\ "status" \in DOMAIN job.item => job.item["status"] = "build" /\ s = "approved" /\ item.status = "design"
  BY <1>1, FlowMarks, NothingCommits DEF FlowJob, OnSpecStatusChange
<1>4. UNCHANGED item
  BY <1>2 DEF BeginFlow
<1>5. Gated(job)' /\ Missing(job)'
  BY <1>3, <1>4 DEF Gated, Missing
<1>6. item # NoItem
  BY <1>2, SpecsNeedItem DEF FlowInv, FlowRows
<1> QED BY <1>2, <1>3, <1>5, <1>6, FlowBegins

\* Every step keeps the invariant.
LEMMA FlowStep == FlowInv /\ [FlowNext]_flowVars => FlowInv'
<1> SUFFICES ASSUME FlowInv, [FlowNext]_flowVars PROVE FlowInv'
  OBVIOUS
<1>1. ASSUME NEW s \in PutStatuses \cup {"new"}, CreateBacklogItem(s) PROVE FlowInv'
  BY <1>1, ItemCreated
<1>2. CASE DeleteBacklogItem
  BY <1>2, ItemDeletes
<1>3. CASE DeleteSprint
  BY <1>3, SprintDeletes
<1>4. CASE FinishDeleteSprint
  BY <1>4, SprintEnds
<1>5. ASSUME NEW u \in Tests, NEW to \in {"none", "open", "passed"}, ChangeTest(u, to) PROVE FlowInv'
  BY <1>5, TestChanges
<1>6. ASSUME NEW t \in FlowThreads, CommitFlow(t) \/ FailFlow(t) \/ PlanItem(t) \/ GenerateSpecs(t) PROVE FlowInv'
  BY <1>6, FlowCommits, FlowFails, ItemPlanned, SpecsGenerated
<1>7. ASSUME NEW t \in FlowThreads, NEW s \in PutStatuses, UpdateBacklogItem(t, s) PROVE FlowInv'
  BY <1>7, ItemUpdates
<1>8. ASSUME NEW t \in FlowThreads, NEW s \in BACKLOG_STATUSES, MoveBacklogItem(t, s) PROVE FlowInv'
  BY <1>8, ItemMoves
<1>9. ASSUME NEW t \in FlowThreads, NEW s \in SpecStatuses, CreateFunctionalSpec(t, s) PROVE FlowInv'
  BY <1>9, FsCreated
<1>10. ASSUME NEW t \in FlowThreads, NEW s \in SpecStatuses, NEW f \in FsIds,
              CreateTechnicalSpec(t, f, s) \/ UpdateFunctionalSpec(t, f, s)
       PROVE  FlowInv'
  BY <1>10, TsCreated, FsUpdated
<1>11. ASSUME NEW t \in FlowThreads, NEW s \in SpecStatuses, NEW k \in TsIds, UpdateTechnicalSpec(t, k, s) PROVE FlowInv'
  BY <1>11, TsUpdated
<1>12. CASE UNCHANGED flowVars
  <2>1. UNCHANGED <<item, fs, ts, unitTest, sprint, flowJob, flowRaced, put, approvedOnce, testedOnce, untested>>
    BY <1>12 DEF flowVars, flowHistory
  <2>2. item' \in ItemRows /\ item'.status = item.status /\ item'.sprint = item.sprint
    BY <2>1 DEF FlowInv, FlowRows
  <2>3. /\ sprint' \in {"planned", "locked", "unlocked", "deleted"} /\ (flowRaced => flowRaced')
        /\ ~flowRaced' /\ sprint' \in {"locked", "unlocked"} => \A o \in FlowThreads : flowJob[o] = Serves
    BY <2>1 DEF FlowInv, FlowRows, FlowAlone
  <2>4. ~flowRaced' /\ sprint' = "unlocked" => ~item'.sprint
    BY <2>1 DEF FlowInv, FlowAlone
  <2> QED BY <2>1, <2>2, <2>3, <2>4, SprintGoes
<1> QED BY <1>1, <1>2, <1>3, <1>4, <1>5, <1>6, <1>7, <1>8, <1>9, <1>10, <1>11, <1>12 DEF FlowNext

\* No item is built of which no specification was ever approved, and none is
\* deployed that was never tested, whatever requests overlap.
THEOREM GatesAlwaysHold == FlowSpec => []GatesHold
<1>1. FlowInv => GatesHold
  BY DEF FlowInv
<1> QED BY <1>1, FlowInitInv, FlowStep, PTL DEF FlowSpec

\* The rows are well formed, and without overlaps an item has one functional
\* and one technical specification and survives the deletion of its sprint.
THEOREM BacklogRowsAgree == FlowSpec => [](FlowTypeOK /\ RowsAgree)
<1>1. FlowInv => FlowTypeOK
  BY DEF FlowInv, FlowRows, FlowTypeOK, ItemRows, TsRecords
<1>2. FlowInv => RowsAgree
  BY DEF FlowInv, FlowAlone, RowsAgree, OneSpecification, SprintLeavesItems
<1> QED BY <1>1, <1>2, FlowInitInv, FlowStep, PTL DEF FlowSpec

\* A closed or cancelled item stays so, without overlaps.
THEOREM EndsStand == FlowSpec => TerminalStays
<1>1. ASSUME FlowInv, [FlowNext]_flowVars, ~flowRaced', ~put', item.status \in {"closed", "cancelled"}
      PROVE  item'.status \in {item.status, "deleted"}
  <2>1. ASSUME NEW s \in PutStatuses \cup {"new"}, CreateBacklogItem(s) PROVE FALSE
    <3>1. item = NoItem
      BY <2>1 DEF CreateBacklogItem
    <3> QED BY <1>1, <3>1, FlowMarks
  <2>2. CASE DeleteBacklogItem
    BY <2>2 DEF DeleteBacklogItem, ItemDeleted
  <2>3. CASE DeleteSprint
    BY <2>3 DEF DeleteSprint
  <2>4. CASE FinishDeleteSprint
    <3>1. flowRaced' = flowRaced
      BY <2>4 DEF FinishDeleteSprint, flowHistory
    <3>2. item' \in {[ItemDeleted EXCEPT !.sprint = TRUE], [item EXCEPT !.sprint = FALSE]}
      BY <2>4 DEF FinishDeleteSprint
    <3>3. item' = [item EXCEPT !.sprint = FALSE] => item'.status = item.status
      BY <1>1, ItemShape DEF FlowInv, FlowRows
    <3>4. item' = [ItemDeleted EXCEPT !.sprint = TRUE] => item'.status = "deleted"
      BY DEF ItemDeleted
    <3> QED BY <3>2, <3>3, <3>4
  <2>5. ASSUME NEW u \in Tests, NEW to \in {"none", "open", "passed"}, ChangeTest(u, to)
        PROVE  item'.status \in {item.status, "deleted"}
    BY <2>5 DEF ChangeTest
  <2>6. ASSUME NEW t \in FlowThreads, CommitFlow(t) PROVE item'.status \in {item.status, "deleted"}
    <3>1. PICK job : job = flowJob[t]
      OBVIOUS
    <3>2. job # Serves /\ RowsThere(job) /\ item' = Overwritten(item, job.item) /\ flowRaced' = flowRaced /\ put' = put
      BY <2>6, <3>1 DEF CommitFlow
    <3>3. FlowRows /\ FlowJob(job) /\ item # NoItem /\ Missing(job)
      BY <1>1, <3>1, <3>2, FlowMarks DEF FlowInv, FlowAlone
    <3>4. item'.status = IF "status" \in DOMAIN job.item THEN job.item["status"] ELSE item.status
      BY <3>2, <3>3, ItemWritten
    <3> QED BY <1>1, <3>2, <3>3, <3>4 DEF Missing
  <2>7. ASSUME NEW t \in FlowThreads, FailFlow(t) PROVE item' = item
    BY <2>7 DEF FailFlow
  <2>8. ASSUME NEW t \in FlowThreads,
               \/ PlanItem(t) \/ GenerateSpecs(t)
               \/ \E s \in PutStatuses : UpdateBacklogItem(t, s)
               \/ \E s \in BACKLOG_STATUSES : MoveBacklogItem(t, s)
               \/ \E s \in SpecStatuses :
                   \/ CreateFunctionalSpec(t, s)
                   \/ \E f \in FsIds : CreateTechnicalSpec(t, f, s) \/ UpdateFunctionalSpec(t, f, s)
                   \/ \E k \in TsIds : UpdateTechnicalSpec(t, k, s)
        PROVE  item' = item
    <3>1. \E job : BeginFlow(t, job)
      BY <2>8, Zenon DEF PlanItem, GenerateSpecs, UpdateBacklogItem, MoveBacklogItem, CreateFunctionalSpec,
                         CreateTechnicalSpec, UpdateFunctionalSpec, UpdateTechnicalSpec
    <3> QED BY <3>1 DEF BeginFlow
  <2>9. CASE UNCHANGED flowVars
    BY <2>9 DEF flowVars
  <2> QED BY <1>1, <2>1, <2>2, <2>3, <2>4, <2>5, <2>6, <2>7, <2>8, <2>9 DEF FlowNext
<1>2. FlowInv /\ [FlowNext]_flowVars =>
          [~flowRaced' /\ ~put' /\ item.status \in {"closed", "cancelled"} =>
              item'.status \in {item.status, "deleted"}]_flowVars
  BY <1>1
<1> QED BY <1>2, FlowInitInv, FlowStep, PTL DEF FlowSpec, TerminalStays

------------------------------------------------------------------------------
(* Both in the run                                                            *)

\* A behaviour of the run is one of the requirements and one of the item.
LEMMA ExploreParts == MCSpec => RequirementsSpec /\ FlowSpec
<1>1. MCInit => RequirementsInit /\ FlowInit
  BY DEF MCInit
<1>2. [MCNext]_<<part, reqVars, flowVars>> => [RequirementsNext]_reqVars /\ [FlowNext]_flowVars
  BY DEF MCNext, Conversion, Blocking
<1> QED BY <1>1, <1>2, PTL DEF MCSpec, RequirementsSpec, FlowSpec

\* The rows of the whole phase are well formed, and those of the item agree.
THEOREM BacklogCoheres == MCSpec => []BacklogCoherent
<1>1. RequirementsTypeOK /\ FlowTypeOK /\ RowsAgree => BacklogCoherent
  BY DEF BacklogCoherent, ExploreTypeOK
<1> QED BY <1>1, ExploreParts, RequirementsTyped, BacklogRowsAgree, PTL

\* What the explore run checks holds for every number of requirements, open
\* items, specifications, tests and threads.
THEOREM ExploreHolds ==
    MCSpec => /\ [](ConversionAgrees /\ GatesHold /\ BacklogCoherent)
              /\ UnblockedIsApprovable /\ TerminalStays
BY ExploreParts, ConversionsAgree, ClosesUnblock, GatesAlwaysHold, EndsStand, BacklogCoheres, PTL
================================================================================
