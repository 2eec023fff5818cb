------------------------------ MODULE LoggerProofs ------------------------------
(* For any number of producers, queue capacity, sessions and failures: the      *)
(* handles of Logger outlive their users, each producer's records keep their    *)
(* order, and each record is accounted for.                                     *)
EXTENDS Logger, SequenceTheorems, FiniteSetTheorems, TLAPS

BeforePush == {"gate", "recheck", "queue", "push"}

(* The inductive invariant, in parts besides TypeOK: the locks are held by the  *)
(* threads whose steps say so.                                                 *)
LocksExclude ==
    /\ gate_exclusive => gate_shared = {}
    /\ \A p \in Producers :
          ppc[p] \in {"recheck", "queue", "push", "drop", "signal", "leave"} <=> p \in gate_shared
    /\ \A p \in Producers : ppc[p] = "push" <=> queue_lock = p
    /\ wpc = "popping" <=> queue_lock = Writer

(* Where the coordinator is, and what of a session is there. Producers use the  *)
(* event only in a session that is on or that waits for them at the gate.       *)
SessionKept ==
    /\ gate_exclusive <=> cpc \in {"enable", "stop"}
    /\ enabled \in {{}, configured}
    /\ enabled # {} => cpc \in {"idle", "init"} /\ thread # "null"
    /\ thread = "running" <=> wpc # "none"
    /\ cpc # "close" => (thread # "null" <=> wake_event # "null")
    /\ thread # "null" => wake_event # "null"
    /\ cpc \in {"enable", "cross", "stop", "join"} => thread # "null"
    /\ cpc = "close" => thread = "null"
    /\ wpc \in {"none", "terminate"} => file = "closed"
    /\ wpc # "warn" => reporting = 0
    /\ completed = "complete" => cpc = "idle" /\ thread = "null"
    /\ \A p \in Producers : UsesEvent(p) => enabled # {} \/ cpc = "cross"

(* What a producer is about to queue is of a category of the session.          *)
CategoryKept ==
    \A p \in Producers : ppc[p] \in {"queue", "push"} => record[p].category \in configured

(* Orders of sequences: the producer's numbers grow, within s and from s to t.  *)
Follows(r, q) == r.by = q.by => r.number < q.number
Ordered(s) == \A i, j \in DOMAIN s : i < j => Follows(s[i], s[j])
Before(s, t) == \A i \in DOMAIN s, j \in DOMAIN t : Follows(s[i], t[j])

(* A record that is somewhere is not newer than its producer's last, and older  *)
(* than one that is still to be queued.                                        *)
Old(r) == /\ r.number <= record[r.by].number
          /\ ppc[r.by] \in BeforePush => r.number < record[r.by].number

OrderInv ==
    /\ Ordered(written) /\ Ordered(queue) /\ Len(entry) <= 1
    /\ Before(written, entry) /\ Before(written, queue) /\ Before(entry, queue)
    /\ \A r \in lost : (\A i \in DOMAIN entry : Follows(r, entry[i]))
                       /\ \A i \in DOMAIN queue : Follows(r, queue[i])
    /\ \A i \in DOMAIN written : Old(written[i])
    /\ \A i \in DOMAIN entry : Old(entry[i])
    /\ \A i \in DOMAIN queue : Old(queue[i])
    /\ \A r \in lost : Old(r)
    /\ \A p \in Producers : record[p].by = p /\ (ppc[p] # "idle" => record[p].number > 0)
    /\ wpc = "write" <=> entry # NoEntry
    /\ IsFiniteSet(lost)

IInv == /\ TypeOK /\ LocksExclude /\ SessionKept /\ CategoryKept /\ OrderInv /\ RecordsAccounted

-----------------------------------------------------------------------------
(* Sequences.                                                                  *)

LEMMA Appended ==
    ASSUME NEW S, NEW s \in Seq(S), NEW e \in S
    PROVE  /\ Append(s, e) \in Seq(S) /\ Len(Append(s, e)) = Len(s) + 1
           /\ DOMAIN Append(s, e) = DOMAIN s \cup {Len(s) + 1}
           /\ \A i \in DOMAIN s : Append(s, e)[i] = s[i]
           /\ Append(s, e)[Len(s) + 1] = e
           /\ \A i \in DOMAIN s : i < Len(s) + 1
BY AppendProperties, LenProperties

LEMMA HeadAndTail ==
    ASSUME NEW S, NEW s \in Seq(S), s # <<>>
    PROVE  /\ Head(s) = s[1] /\ 1 \in DOMAIN s /\ Head(s) \in S
           /\ Tail(s) \in Seq(S) /\ Len(Tail(s)) = Len(s) - 1 /\ Len(s) > 0
           /\ \A i \in DOMAIN Tail(s) : /\ Tail(s)[i] = s[i + 1] /\ i + 1 \in DOMAIN s
                                        /\ i \in Nat /\ 1 < i + 1
BY HeadTailProperties, LenProperties, EmptySeq

LEMMA Single ==
    ASSUME NEW S, NEW e \in S
    PROVE  <<e>> \in Seq(S) /\ Len(<<e>>) = 1 /\ DOMAIN <<e>> = {1} /\ <<e>>[1] = e
OBVIOUS

LEMMA Nothing == <<>> \in Seq(Records) /\ Len(<<>>) = 0 /\ DOMAIN <<>> = {}
BY EmptySeq

LEMMA Joined ==
    ASSUME NEW S, NEW s \in Seq(S), NEW t \in Seq(S)
    PROVE  /\ s \o t \in Seq(S) /\ Len(s \o t) = Len(s) + Len(t)
           /\ \A i \in DOMAIN (s \o t) :
                \/ i \in DOMAIN s /\ (s \o t)[i] = s[i]
                \/ /\ i \notin DOMAIN s /\ i - Len(s) \in DOMAIN t /\ i > Len(s)
                   /\ (s \o t)[i] = t[i - Len(s)]
BY ConcatProperties, LenProperties

(* Two ordered sequences, one before the other, make an ordered one.           *)
LEMMA OrderedJoined ==
    ASSUME NEW s \in Seq(Records), NEW t \in Seq(Records), Ordered(s), Ordered(t), Before(s, t)
    PROVE  Ordered(s \o t)
<1> SUFFICES ASSUME NEW i \in DOMAIN (s \o t), NEW j \in DOMAIN (s \o t), i < j
             PROVE  Follows((s \o t)[i], (s \o t)[j])
    BY DEF Ordered
<1>0. i \in Nat /\ j \in Nat /\ Len(s) \in Nat /\ DOMAIN s = 1 .. Len(s)
    BY Joined, LenProperties
<1>1. CASE i \in DOMAIN s /\ j \in DOMAIN s
    BY <1>0, <1>1, Joined DEF Ordered
<1>2. CASE i \in DOMAIN s /\ j \notin DOMAIN s
    BY <1>0, <1>2, Joined DEF Before
<1>3. CASE i \notin DOMAIN s /\ j \notin DOMAIN s
  <2>1. i - Len(s) < j - Len(s)
      BY <1>0
  <2> QED
      BY <1>3, <2>1, Joined DEF Ordered
<1>4. CASE i \notin DOMAIN s /\ j \in DOMAIN s
    BY <1>0, <1>4, Joined
<1> QED
    BY <1>1, <1>2, <1>3, <1>4

LEMMA BeforeJoined ==
    ASSUME NEW s \in Seq(Records), NEW t \in Seq(Records), NEW u, Before(s, u), Before(t, u)
    PROVE  Before(s \o t, u)
BY Joined DEF Before

LEMMA BeforeBoth ==
    ASSUME NEW s, NEW t \in Seq(Records), NEW u \in Seq(Records), Before(s, t), Before(s, u)
    PROVE  Before(s, t \o u)
BY Joined DEF Before

(* At most one record is in order.                                             *)
LEMMA OrderedShort ==
    ASSUME NEW s \in Seq(Records), Len(s) <= 1
    PROVE  Ordered(s)
BY LenProperties DEF Ordered

LEMMA Counting ==
    ASSUME NEW S, IsFiniteSet(S)
    PROVE  /\ Cardinality(S) \in Nat
           /\ \A x : x \notin S =>
                Cardinality(S \cup {x}) = Cardinality(S) + 1 /\ IsFiniteSet(S \cup {x})
BY FS_CardinalityType, FS_AddElement

LEMMA Numbered ==
    ASSUME NEW r \in [by: Producers, number: 0..MaxRecords, category: Categories], r.number > 0
    PROVE  r \in Records
BY LoggerAssumption DEF Records

LEMMA NextNumber ==
    ASSUME NEW r \in [by: Producers, number: 0..MaxRecords, category: Categories],
           r.number < MaxRecords, NEW category \in Categories
    PROVE  [r EXCEPT !.number = r.number + 1, !.category = category]
               \in [by: Producers, number: 0..MaxRecords, category: Categories]
<1>1. r.by \in Producers /\ r.number + 1 \in 0..MaxRecords
    BY LoggerAssumption
<1> QED
    BY <1>1

-----------------------------------------------------------------------------
(* The actions.                                                                *)

LEMMA OldStays ==
    ASSUME TypeOK, NEW p \in Producers, NEW step, ppc' = [ppc EXCEPT ![p] = step], UNCHANGED record,
           step \in BeforePush => ppc[p] \in BeforePush, NEW r \in Records, Old(r)
    PROVE  Old(r)'
BY DEF Old, TypeOK, Records

LEMMA OrderStays ==
    ASSUME TypeOK, OrderInv, UNCHANGED <<queue, entry, written, lost>>,
           wpc' = "write" <=> wpc = "write",
           \A r \in Records : Old(r) => Old(r)',
           \A p \in Producers : record'[p].by = p /\ (ppc'[p] # "idle" => record'[p].number > 0)
    PROVE  OrderInv'
<1>1. /\ \A i \in DOMAIN written : written[i] \in Records
      /\ \A i \in DOMAIN entry : entry[i] \in Records
      /\ \A i \in DOMAIN queue : queue[i] \in Records
      /\ \A r \in lost : r \in Records
    BY LenProperties DEF TypeOK
<1> QED
    BY <1>1 DEF OrderInv, Ordered, Before, Follows

THEOREM Initially == Init => IInv
<1> SUFFICES ASSUME Init PROVE IInv
    OBVIOUS
<1> USE DEF Init, NoEntry
<1>1. TypeOK
  <2>1. \A p \in Producers : NoRecord(p) \in [by: Producers, number: 0..MaxRecords, category: Categories]
      BY LoggerAssumption DEF NoRecord, Categories
  <2>2. /\ record \in [Producers -> [by: Producers, number: 0..MaxRecords, category: Categories]]
        /\ ppc \in [Producers -> ProducerSteps]
      BY <2>1 DEF ProducerSteps
  <2>3. sessions \in 0..MaxSessions /\ Len(queue) <= QueueCapacity
      BY LoggerAssumption, Nothing
  <2> QED
      BY <2>2, <2>3, Nothing DEF TypeOK, WriterSteps, CoordinatorSteps
<1>2. LocksExclude
    BY LoggerAssumption DEF LocksExclude
<1>3. SessionKept /\ CategoryKept
    BY DEF SessionKept, UsesEvent, CategoryKept
<1>4. OrderInv
    BY Nothing, FS_EmptySet DEF OrderInv, Ordered, Before, NoRecord
<1>5. RecordsAccounted
    BY Nothing, FS_EmptySet DEF RecordsAccounted
<1> QED
    BY <1>1, <1>2, <1>3, <1>4, <1>5 DEF IInv

LEMMA EnqueueKeeps ==
    ASSUME IInv, NEW p \in Producers, NEW category \in Categories, Enqueue(p, category)
    PROVE  IInv'
<1> USE DEF IInv, Enqueue, ProducerGoto, flagVars, gateVars, queueVars, handleVars, writerVars,
    coordinatorVars, fileHistory
<1>a. /\ ppc' = [ppc EXCEPT ![p] = ppc'[p]]
      /\ ppc'[p] \in {"gate", "idle"} /\ \A q \in Producers : q # p => ppc'[q] = ppc[q]
    BY DEF TypeOK
<1>b. /\ record' = [record EXCEPT ![p] = record'[p]]
      /\ record'[p] = [record[p] EXCEPT !.number = record[p].number + 1, !.category = category]
    BY DEF TypeOK
<1>c. record[p] \in [by: Producers, number: 0..MaxRecords, category: Categories]
    BY DEF TypeOK
<1>d. /\ record'[p].number = record[p].number + 1 /\ record[p].number \in Nat
      /\ record'[p].by = record[p].by
      /\ \A q \in Producers : q # p => record'[q] = record[q]
    BY <1>b, <1>c, LoggerAssumption DEF TypeOK
<1>e. record'[p] \in [by: Producers, number: 0..MaxRecords, category: Categories]
  <2>1. record[p].number < MaxRecords
      OBVIOUS
  <2> QED
      BY <1>b, <1>c, <2>1, NextNumber
<1>f. record' \in [Producers -> [by: Producers, number: 0..MaxRecords, category: Categories]]
    BY <1>b, <1>e DEF TypeOK
<1>1. RecordsAccounted'
    BY DEF RecordsAccounted
<1>2. TypeOK'
    BY <1>a, <1>f DEF TypeOK, ProducerSteps
<1>3. LocksExclude'
    BY <1>a DEF LocksExclude
<1>4. SessionKept'
    BY <1>a DEF SessionKept, UsesEvent
<1>5. CategoryKept'
  <2>1. UNCHANGED configured
      OBVIOUS
  <2> HIDE DEF Enqueue
  <2> QED
      BY <1>a, <1>d, <2>1 DEF CategoryKept
<1>6. OrderInv'
  <2>1. \A r \in Records : Old(r) => Old(r)'
      BY <1>a, <1>d DEF Old, Records, TypeOK
  <2>2. \A q \in Producers : record'[q].by = q /\ (ppc'[q] # "idle" => record'[q].number > 0)
      BY <1>a, <1>d DEF OrderInv, TypeOK
  <2> QED
      BY <2>1, <2>2, OrderStays
<1> QED
    BY <1>1, <1>2, <1>3, <1>4, <1>5, <1>6

LEMMA EnterGateKeeps ==
    ASSUME IInv, NEW p \in Producers, EnterGate(p)
    PROVE  IInv'
<1> USE DEF IInv, EnterGate, ProducerGoto, flagVars, gateVars, queueVars, handleVars, writerVars,
    coordinatorVars, fileHistory
<1>a. /\ ppc' = [ppc EXCEPT ![p] = ppc'[p]]
      /\ ppc'[p] \in {"recheck"} /\ \A q \in Producers : q # p => ppc'[q] = ppc[q]
    BY DEF TypeOK
<1>1. RecordsAccounted'
    BY DEF RecordsAccounted
<1>2. TypeOK'
    BY LoggerAssumption DEF TypeOK, ProducerSteps
<1>3. LocksExclude'
    BY <1>a, LoggerAssumption DEF LocksExclude, TypeOK
<1>4. SessionKept'
    BY <1>a DEF SessionKept, UsesEvent, LocksExclude
<1>5. CategoryKept'
    BY <1>a DEF CategoryKept, SessionKept
<1>6. OrderInv'
  <2>1. \A r \in Records : Old(r) => Old(r)'
      BY <1>a, OldStays DEF BeforePush
  <2> QED
      BY <1>a, <2>1, OrderStays DEF OrderInv
<1> QED
    BY <1>1, <1>2, <1>3, <1>4, <1>5, <1>6

LEMMA MissGateKeeps ==
    ASSUME IInv, NEW p \in Producers, MissGate(p)
    PROVE  IInv'
<1> USE DEF IInv, MissGate, ProducerGoto, CountDrop, flagVars, gateVars, queueVars, handleVars,
    writerVars, coordinatorVars, fileHistory
<1>a. /\ ppc' = [ppc EXCEPT ![p] = ppc'[p]]
      /\ ppc'[p] \in {"idle"} /\ \A q \in Producers : q # p => ppc'[q] = ppc[q]
    BY DEF TypeOK
<1>1. TypeOK'
    BY LoggerAssumption DEF TypeOK, ProducerSteps
<1>2. LocksExclude'
    BY <1>a, LoggerAssumption DEF LocksExclude, TypeOK
<1>3. SessionKept'
    BY <1>a DEF SessionKept, UsesEvent, LocksExclude
<1>4. CategoryKept'
    BY <1>a DEF CategoryKept, SessionKept
<1>5. OrderInv'
  <2>1. \A r \in Records : Old(r) => Old(r)'
      BY <1>a, OldStays DEF BeforePush
  <2> QED
      BY <1>a, <2>1, OrderStays DEF OrderInv
<1>6. RecordsAccounted'
    BY DEF RecordsAccounted, TypeOK
<1> QED
    BY <1>1, <1>2, <1>3, <1>4, <1>5, <1>6

LEMMA RecheckKeeps ==
    ASSUME IInv, NEW p \in Producers, Recheck(p)
    PROVE  IInv'
<1> USE DEF IInv, Recheck, ProducerGoto, flagVars, gateVars, queueVars, handleVars, writerVars,
    coordinatorVars, fileHistory
<1>a. /\ ppc' = [ppc EXCEPT ![p] = ppc'[p]]
      /\ ppc'[p] \in {"queue", "leave"} /\ \A q \in Producers : q # p => ppc'[q] = ppc[q]
    BY DEF TypeOK
<1>1. RecordsAccounted'
    BY DEF RecordsAccounted
<1>2. TypeOK'
    BY LoggerAssumption DEF TypeOK, ProducerSteps
<1>3. LocksExclude'
    BY <1>a, LoggerAssumption DEF LocksExclude, TypeOK
<1>4. SessionKept'
    BY <1>a DEF SessionKept, UsesEvent, LocksExclude
<1>5. CategoryKept'
    BY <1>a DEF CategoryKept, SessionKept
<1>6. OrderInv'
  <2>1. \A r \in Records : Old(r) => Old(r)'
      BY <1>a, OldStays DEF BeforePush
  <2> QED
      BY <1>a, <2>1, OrderStays DEF OrderInv
<1> QED
    BY <1>1, <1>2, <1>3, <1>4, <1>5, <1>6

LEMMA LockQueueKeeps ==
    ASSUME IInv, NEW p \in Producers, LockQueue(p)
    PROVE  IInv'
<1> USE DEF IInv, LockQueue, ProducerGoto, flagVars, gateVars, queueVars, handleVars, writerVars,
    coordinatorVars, fileHistory
<1>a. /\ ppc' = [ppc EXCEPT ![p] = ppc'[p]]
      /\ ppc'[p] \in {"push"} /\ \A q \in Producers : q # p => ppc'[q] = ppc[q]
    BY DEF TypeOK
<1>1. RecordsAccounted'
    BY DEF RecordsAccounted
<1>2. TypeOK'
    BY LoggerAssumption DEF TypeOK, ProducerSteps
<1>3. LocksExclude'
    BY <1>a, LoggerAssumption DEF LocksExclude, TypeOK
<1>4. SessionKept'
    BY <1>a DEF SessionKept, UsesEvent, LocksExclude
<1>5. CategoryKept'
    BY <1>a DEF CategoryKept, SessionKept
<1>6. OrderInv'
  <2>1. \A r \in Records : Old(r) => Old(r)'
      BY <1>a, OldStays DEF BeforePush
  <2> QED
      BY <1>a, <2>1, OrderStays DEF OrderInv
<1> QED
    BY <1>1, <1>2, <1>3, <1>4, <1>5, <1>6

LEMMA MissQueueKeeps ==
    ASSUME IInv, NEW p \in Producers, MissQueue(p)
    PROVE  IInv'
<1> USE DEF IInv, MissQueue, ProducerGoto, CountDrop, flagVars, gateVars, queueVars, handleVars,
    writerVars, coordinatorVars, fileHistory
<1>a. /\ ppc' = [ppc EXCEPT ![p] = ppc'[p]]
      /\ ppc'[p] \in {"leave"} /\ \A q \in Producers : q # p => ppc'[q] = ppc[q]
    BY DEF TypeOK
<1>1. TypeOK'
    BY LoggerAssumption DEF TypeOK, ProducerSteps
<1>2. LocksExclude'
    BY <1>a, LoggerAssumption DEF LocksExclude, TypeOK
<1>3. SessionKept'
    BY <1>a DEF SessionKept, UsesEvent, LocksExclude
<1>4. CategoryKept'
    BY <1>a DEF CategoryKept, SessionKept
<1>5. OrderInv'
  <2>1. \A r \in Records : Old(r) => Old(r)'
      BY <1>a, OldStays DEF BeforePush
  <2> QED
      BY <1>a, <2>1, OrderStays DEF OrderInv
<1>6. RecordsAccounted'
    BY DEF RecordsAccounted, TypeOK
<1> QED
    BY <1>1, <1>2, <1>3, <1>4, <1>5, <1>6

LEMMA PushKeeps ==
    ASSUME IInv, NEW p \in Producers, Push(p)
    PROVE  IInv'
<1> USE DEF IInv, Push, ProducerGoto, flagVars, gateVars, queueVars, handleVars, writerVars,
    coordinatorVars, fileHistory
<1>a. /\ ppc' = [ppc EXCEPT ![p] = ppc'[p]]
      /\ ppc'[p] \in {"drop", "signal"} /\ \A q \in Producers : q # p => ppc'[q] = ppc[q]
    BY DEF TypeOK
<1>b. record[p] \in Records /\ record[p].by = p /\ ppc[p] = "push"
  <2>1. /\ record[p] \in [by: Producers, number: 0..MaxRecords, category: Categories]
        /\ record[p].number > 0 /\ record[p].by = p /\ ppc[p] = "push"
      BY DEF TypeOK, OrderInv
  <2> QED
      BY <2>1, Numbered
<1>c. /\ Len(queue) \in Nat /\ queue \in Seq(Records)
      /\ \/ UNCHANGED <<queue, accepted>>
         \/ /\ Len(queue) # QueueCapacity /\ queue' = Append(queue, record[p])
            /\ accepted' = accepted + 1
    BY LenProperties DEF TypeOK
<1>1. TypeOK'
  <2>1. queue' \in Seq(Records) /\ Len(queue') <= QueueCapacity
    <3>1. /\ Append(queue, record[p]) \in Seq(Records) /\ Len(Append(queue, record[p])) = Len(queue) + 1
        BY <1>b, <1>c, Appended
    <3>2. Len(queue) <= QueueCapacity /\ QueueCapacity \in Nat
        BY LoggerAssumption DEF TypeOK
    <3> HIDE DEF Push
    <3> QED
        BY <1>c, <3>1, <3>2
  <2>2. accepted' \in Nat
      BY DEF TypeOK
  <2> QED
      BY <1>a, <2>1, <2>2 DEF TypeOK, ProducerSteps
<1>2. LocksExclude'
    BY <1>a, LoggerAssumption DEF LocksExclude, TypeOK
<1>3. SessionKept'
    BY <1>a DEF SessionKept, UsesEvent, LocksExclude
<1>4. CategoryKept'
    BY <1>a DEF CategoryKept, SessionKept
<1>5. OrderInv'
  <2>1. \A r \in Records : Old(r) => Old(r)'
      BY <1>a, OldStays DEF BeforePush
  <2>2. CASE UNCHANGED queue
      BY <1>a, <2>1, <2>2, OrderStays DEF OrderInv
  <2>3. CASE queue' = Append(queue, record[p])
    <3>1. /\ DOMAIN queue' = DOMAIN queue \cup {Len(queue) + 1}
          /\ \A i \in DOMAIN queue : queue'[i] = queue[i] /\ i < Len(queue) + 1
          /\ queue'[Len(queue) + 1] = record[p]
          /\ Len(queue) \in Nat /\ DOMAIN queue = 1 .. Len(queue)
        BY <1>b, <2>3, Appended, LenProperties DEF TypeOK
    <3>2. \A r \in Records : Old(r) => Follows(r, record[p])
        BY <1>b DEF Old, Follows, BeforePush, TypeOK
    <3>3. /\ \A i \in DOMAIN written : written[i] \in Records /\ Old(written[i])
          /\ \A i \in DOMAIN entry : entry[i] \in Records /\ Old(entry[i])
          /\ \A i \in DOMAIN queue : queue[i] \in Records /\ Old(queue[i])
          /\ \A r \in lost : r \in Records /\ Old(r)
        BY LenProperties DEF TypeOK, OrderInv
    <3>4. Old(record[p])'
        BY <1>a, <1>b DEF Old, BeforePush, TypeOK
    <3>5. Ordered(queue)'
        BY <3>1, <3>2, <3>3 DEF OrderInv, Ordered
    <3>6. Before(written, queue)' /\ Before(entry, queue)'
        BY <3>1, <3>2, <3>3 DEF OrderInv, Before
    <3>7. \A r \in lost : \A i \in DOMAIN queue' : Follows(r, queue'[i])
        BY <3>1, <3>2, <3>3 DEF OrderInv
    <3>8. /\ \A i \in DOMAIN queue' : (Old(queue[i]))'
          /\ \A i \in DOMAIN written : (Old(written[i]))'
          /\ \A i \in DOMAIN entry : (Old(entry[i]))'
          /\ \A r \in lost : Old(r)'
      <4>1. \A i \in DOMAIN queue : (Old(queue[i]))'
          BY <2>1, <3>1, <3>3 DEF Old
      <4> QED
          BY <2>1, <3>1, <3>3, <3>4, <4>1 DEF Old
    <3> QED
        BY <1>a, <3>5, <3>6, <3>7, <3>8 DEF OrderInv, Ordered, Before
  <2> QED
      BY <1>c, <2>2, <2>3
<1>6. RecordsAccounted'
  <2>1. \/ Len(queue') = Len(queue) + 1 /\ accepted' = accepted + 1
        \/ UNCHANGED <<queue, accepted>>
      BY <1>b, <1>c, Appended
  <2>2. UNCHANGED <<written, lost, entry, refused, dropped, reporting, reported, unreported>>
      OBVIOUS
  <2>3. /\ Len(written) \in Nat /\ Cardinality(lost) \in Nat /\ Len(entry) \in Nat /\ Len(queue) \in Nat
        /\ accepted \in Nat
      BY LenProperties, Counting DEF TypeOK, OrderInv
  <2> HIDE DEF Push
  <2> QED
    <3>1. /\ accepted = Len(written) + Cardinality(lost) + Len(entry) + Len(queue)
          /\ refused = dropped + reporting + reported + unreported
        BY DEF RecordsAccounted
    <3>2. accepted' = Len(written) + Cardinality(lost) + Len(entry) + Len(queue')
        BY <2>1, <2>3, <3>1
    <3> QED
        BY <2>2, <3>1, <3>2 DEF RecordsAccounted
<1> QED
    BY <1>1, <1>2, <1>3, <1>4, <1>5, <1>6

LEMMA DropFullKeeps ==
    ASSUME IInv, NEW p \in Producers, DropFull(p)
    PROVE  IInv'
<1> USE DEF IInv, DropFull, ProducerGoto, CountDrop, flagVars, gateVars, queueVars, handleVars,
    writerVars, coordinatorVars, fileHistory
<1>a. /\ ppc' = [ppc EXCEPT ![p] = ppc'[p]]
      /\ ppc'[p] \in {"leave"} /\ \A q \in Producers : q # p => ppc'[q] = ppc[q]
    BY DEF TypeOK
<1>1. TypeOK'
    BY LoggerAssumption DEF TypeOK, ProducerSteps
<1>2. LocksExclude'
    BY <1>a, LoggerAssumption DEF LocksExclude, TypeOK
<1>3. SessionKept'
    BY <1>a DEF SessionKept, UsesEvent, LocksExclude
<1>4. CategoryKept'
    BY <1>a DEF CategoryKept, SessionKept
<1>5. OrderInv'
  <2>1. \A r \in Records : Old(r) => Old(r)'
      BY <1>a, OldStays DEF BeforePush
  <2> QED
      BY <1>a, <2>1, OrderStays DEF OrderInv
<1>6. RecordsAccounted'
    BY DEF RecordsAccounted, TypeOK
<1> QED
    BY <1>1, <1>2, <1>3, <1>4, <1>5, <1>6

LEMMA SignalWriterKeeps ==
    ASSUME IInv, NEW p \in Producers, SignalWriter(p)
    PROVE  IInv'
<1> USE DEF IInv, SignalWriter, ProducerGoto, flagVars, gateVars, queueVars, handleVars, writerVars,
    coordinatorVars, fileHistory
<1>a. /\ ppc' = [ppc EXCEPT ![p] = ppc'[p]]
      /\ ppc'[p] \in {"leave"} /\ \A q \in Producers : q # p => ppc'[q] = ppc[q]
    BY DEF TypeOK
<1>1. RecordsAccounted'
    BY DEF RecordsAccounted
<1>2. TypeOK'
    BY LoggerAssumption DEF TypeOK, ProducerSteps
<1>3. LocksExclude'
    BY <1>a, LoggerAssumption DEF LocksExclude, TypeOK
<1>4. SessionKept'
    BY <1>a DEF SessionKept, UsesEvent, LocksExclude
<1>5. CategoryKept'
    BY <1>a DEF CategoryKept, SessionKept
<1>6. OrderInv'
  <2>1. \A r \in Records : Old(r) => Old(r)'
      BY <1>a, OldStays DEF BeforePush
  <2> QED
      BY <1>a, <2>1, OrderStays DEF OrderInv
<1> QED
    BY <1>1, <1>2, <1>3, <1>4, <1>5, <1>6

LEMMA LeaveGateKeeps ==
    ASSUME IInv, NEW p \in Producers, LeaveGate(p)
    PROVE  IInv'
<1> USE DEF IInv, LeaveGate, ProducerGoto, flagVars, gateVars, queueVars, handleVars, writerVars,
    coordinatorVars, fileHistory
<1>a. /\ ppc' = [ppc EXCEPT ![p] = ppc'[p]]
      /\ ppc'[p] \in {"idle"} /\ \A q \in Producers : q # p => ppc'[q] = ppc[q]
    BY DEF TypeOK
<1>1. RecordsAccounted'
    BY DEF RecordsAccounted
<1>2. TypeOK'
    BY LoggerAssumption DEF TypeOK, ProducerSteps
<1>3. LocksExclude'
    BY <1>a, LoggerAssumption DEF LocksExclude, TypeOK
<1>4. SessionKept'
    BY <1>a DEF SessionKept, UsesEvent, LocksExclude
<1>5. CategoryKept'
    BY <1>a DEF CategoryKept, SessionKept
<1>6. OrderInv'
  <2>1. \A r \in Records : Old(r) => Old(r)'
      BY <1>a, OldStays DEF BeforePush
  <2> QED
      BY <1>a, <2>1, OrderStays DEF OrderInv
<1> QED
    BY <1>1, <1>2, <1>3, <1>4, <1>5, <1>6

LEMMA WakeKeeps ==
    ASSUME IInv, Wake
    PROVE  IInv'
<1> USE DEF IInv, Wake, WriterGoto, flagVars, gateVars, queueVars, handleVars, producerVars,
    coordinatorVars, fileHistory
<1>1. CategoryKept' /\ RecordsAccounted'
    BY DEF CategoryKept, RecordsAccounted
<1>2. TypeOK'
    BY DEF TypeOK, WriterSteps
<1>3. LocksExclude'
    BY LoggerAssumption DEF LocksExclude, TypeOK
<1>4. SessionKept'
    BY DEF SessionKept, UsesEvent
<1>5. OrderInv'
  <2>1. \A r \in Records : Old(r) => Old(r)'
      BY DEF Old
  <2> QED
      BY <2>1, OrderStays DEF OrderInv
<1> QED
    BY <1>1, <1>2, <1>3, <1>4, <1>5

LEMMA LockToPopKeeps ==
    ASSUME IInv, LockToPop
    PROVE  IInv'
<1> USE DEF IInv, LockToPop, WriterGoto, flagVars, gateVars, queueVars, handleVars, producerVars,
    coordinatorVars, fileHistory
<1>1. CategoryKept' /\ RecordsAccounted'
    BY DEF CategoryKept, RecordsAccounted
<1>2. TypeOK'
    BY DEF TypeOK, WriterSteps
<1>3. LocksExclude'
    BY LoggerAssumption DEF LocksExclude, TypeOK
<1>4. SessionKept'
    BY DEF SessionKept, UsesEvent
<1>5. OrderInv'
  <2>1. \A r \in Records : Old(r) => Old(r)'
      BY DEF Old
  <2> QED
      BY <2>1, OrderStays DEF OrderInv
<1> QED
    BY <1>1, <1>2, <1>3, <1>4, <1>5

LEMMA PopEntryKeeps ==
    ASSUME IInv, PopEntry
    PROVE  IInv'
<1> USE DEF IInv, PopEntry, WriterGoto, flagVars, gateVars, queueVars, handleVars, producerVars,
    coordinatorVars, fileHistory
<1>a. \/ queue = <<>>
      \/ queue # <<>> /\ entry' = <<Head(queue)>> /\ queue' = Tail(queue) /\ wpc' = "write"
    OBVIOUS
<1>b. queue \in Seq(Records) /\ entry = <<>> /\ Len(<<>>) = 0 /\ DOMAIN <<>> = {} /\ <<>> \in Seq(Records)
    BY Nothing DEF TypeOK, OrderInv, NoEntry
<1>c. queue # <<>> =>
        /\ queue' \in Seq(Records) /\ Len(queue') = Len(queue) - 1 /\ Len(queue) > 0
        /\ 1 \in DOMAIN queue /\ queue[1] \in Records /\ entry' = <<queue[1]>>
        /\ \A i \in DOMAIN queue' : /\ queue'[i] = queue[i + 1] /\ i + 1 \in DOMAIN queue
                                  /\ i \in Nat /\ 1 < i + 1
        /\ entry' \in Seq(Records) /\ Len(entry') = 1 /\ DOMAIN entry' = {1} /\ entry'[1] = queue[1]
  <2> SUFFICES ASSUME queue # <<>>
               PROVE  /\ queue' \in Seq(Records) /\ Len(queue') = Len(queue) - 1 /\ Len(queue) > 0
                      /\ 1 \in DOMAIN queue /\ queue[1] \in Records /\ entry' = <<queue[1]>>
                      /\ \A i \in DOMAIN queue' : /\ queue'[i] = queue[i + 1] /\ i + 1 \in DOMAIN queue
                                                /\ i \in Nat /\ 1 < i + 1
                      /\ entry' \in Seq(Records) /\ Len(entry') = 1 /\ DOMAIN entry' = {1}
                      /\ entry'[1] = queue[1]
      OBVIOUS
  <2>1. queue' = Tail(queue) /\ entry' = <<Head(queue)>> /\ queue \in Seq(Records)
      BY <1>a, <1>b
  <2> HIDE DEF PopEntry
  <2>2. /\ Head(queue) = queue[1] /\ queue[1] \in Records /\ 1 \in DOMAIN queue /\ Len(queue) > 0
        /\ Tail(queue) \in Seq(Records) /\ Len(Tail(queue)) = Len(queue) - 1
        /\ \A i \in DOMAIN Tail(queue) : /\ Tail(queue)[i] = queue[i + 1] /\ i + 1 \in DOMAIN queue
                                         /\ i \in Nat /\ 1 < i + 1
      BY <2>1, HeadAndTail
  <2>3. entry' = <<queue[1]>>
      BY <2>1, <2>2
  <2>4. /\ <<queue[1]>> \in Seq(Records) /\ Len(<<queue[1]>>) = 1
        /\ DOMAIN <<queue[1]>> = {1} /\ <<queue[1]>>[1] = queue[1]
      BY <2>2, Single
  <2> QED
      BY <2>1, <2>2, <2>3, <2>4
<1>d. Len(queue) \in Nat
    BY <1>b, LenProperties
<1>1. CategoryKept'
    BY DEF CategoryKept
<1>2. TypeOK'
    BY <1>a, <1>b, <1>c, <1>d, LoggerAssumption DEF TypeOK, WriterSteps
<1>3. LocksExclude'
    BY LoggerAssumption DEF LocksExclude, TypeOK
<1>4. SessionKept'
    BY DEF SessionKept, UsesEvent
<1>5. OrderInv'
  <2>1. CASE queue = <<>>
    <3>1. \A r \in Records : Old(r) => Old(r)'
        BY DEF Old
    <3> QED
        BY <2>1, <3>1, OrderStays DEF OrderInv
  <2>2. CASE queue # <<>>
    <3>1. Ordered(queue)'
        BY <1>c, <1>d, <2>2 DEF OrderInv, Ordered
    <3>2. Before(written, entry)' /\ Before(written, queue)' /\ Before(entry, queue)'
        BY <1>c, <2>2 DEF OrderInv, Ordered, Before
    <3>3. \A r \in lost : /\ \A i \in DOMAIN entry' : Follows(r, entry'[i])
                          /\ \A i \in DOMAIN queue' : Follows(r, queue'[i])
        BY <1>c, <2>2 DEF OrderInv
    <3>4. /\ \A i \in DOMAIN queue' : (Old(queue[i]))'
          /\ \A i \in DOMAIN written : (Old(written[i]))'
          /\ \A i \in DOMAIN entry' : (Old(entry[i]))'
          /\ \A r \in lost : Old(r)'
        BY <1>c, <2>2 DEF OrderInv, Old
    <3>5. entry' # NoEntry
        BY <1>c, <2>2, Nothing DEF NoEntry
    <3> QED
      <4>1. /\ UNCHANGED <<written, lost, record, ppc>> /\ wpc' = "write" /\ Len(entry') = 1
          BY <1>a, <1>c, <2>2
      <4>2. /\ Ordered(written)' /\ IsFiniteSet(lost')
            /\ \A q \in Producers : record'[q].by = q /\ (ppc'[q] # "idle" => record'[q].number > 0)
          BY <4>1 DEF OrderInv, Ordered
      <4> HIDE DEF PopEntry
      <4> QED
          BY <3>1, <3>2, <3>3, <3>4, <3>5, <4>1, <4>2 DEF OrderInv
  <2> QED
      BY <2>1, <2>2
<1>6. RecordsAccounted'
  <2>1. /\ Len(queue) \in Nat /\ Len(written) \in Nat /\ Cardinality(lost) \in Nat /\ Len(entry) = 0
      BY <1>b, LenProperties, Counting DEF TypeOK, OrderInv
  <2> QED
    <3>1. CASE queue = <<>>
      <4>1. UNCHANGED <<accepted, written, lost, entry, queue, refused, dropped, reporting, reported, unreported>>
          BY <3>1
      <4> QED
          BY <4>1 DEF RecordsAccounted
    <3>2. CASE queue # <<>>
      <4>1. UNCHANGED <<accepted, written, lost, refused, dropped, reporting, reported, unreported>>
          OBVIOUS
      <4> HIDE DEF PopEntry
      <4> QED
        <5>1. Len(entry') = 1 /\ Len(queue') = Len(queue) - 1
            BY <1>c, <3>2
        <5>2. /\ accepted = Len(written) + Cardinality(lost) + Len(queue)
              /\ refused = dropped + reporting + reported + unreported
            BY <2>1 DEF RecordsAccounted
        <5>3. accepted' = Len(written') + Cardinality(lost') + Len(entry') + Len(queue')
            BY <2>1, <4>1, <5>1, <5>2
        <5> QED
            BY <4>1, <5>2, <5>3 DEF RecordsAccounted
    <3> QED
        BY <3>1, <3>2
<1> QED
    BY <1>1, <1>2, <1>3, <1>4, <1>5, <1>6

LEMMA WriteEntryKeeps ==
    ASSUME IInv, WriteEntry
    PROVE  IInv'
<1> USE DEF IInv, WriteEntry, WriterGoto, flagVars, gateVars, queueVars, handleVars, producerVars,
    coordinatorVars, fileHistory
<1>a. /\ wpc = "write" /\ entry \in Seq(Records) /\ entry # <<>> /\ Len(entry) <= 1
      /\ written \in Seq(Records) /\ lost \subseteq Records
    BY DEF TypeOK, OrderInv, NoEntry
<1>b. /\ Len(entry) = 1 /\ DOMAIN entry = {1} /\ entry[1] \in Records /\ Len(written) \in Nat
  <2>1. Len(entry) \in Nat /\ DOMAIN entry = 1 .. Len(entry) /\ Len(written) \in Nat
      BY <1>a, LenProperties
  <2>2. Len(entry) > 0 /\ entry[1] \in Records
      BY <1>a, HeadAndTail
  <2> QED
      BY <1>a, <2>1, <2>2
<1>c. \A i \in DOMAIN entry : entry[i] \in Records
    BY <1>b
<1>d. entry' = <<>> /\ Len(entry') = 0 /\ DOMAIN entry' = {} /\ entry' \in Seq(Records)
    BY Nothing DEF NoEntry
<1>e. /\ UNCHANGED <<queue, ppc, record>> /\ wpc' = "pop"
      /\ \/ written' = written \o entry /\ lost' = lost
         \/ written' = written /\ lost' = lost \cup {entry[1]}
    OBVIOUS
<1>f. /\ written \o entry \in Seq(Records) /\ Len(written \o entry) = Len(written) + 1
    BY <1>a, <1>b, Joined
<1>g. entry[1] \notin lost
    BY <1>b DEF OrderInv, Follows, Records
<1>1. CategoryKept'
    BY DEF CategoryKept
<1>2. TypeOK'
  <2>1. written' \in Seq(Records) /\ lost' \subseteq Records
      BY <1>a, <1>b, <1>e, <1>f
  <2> QED
      BY <1>d, <2>1 DEF TypeOK, WriterSteps
<1>3. LocksExclude'
    BY LoggerAssumption DEF LocksExclude, TypeOK
<1>4. SessionKept'
    BY DEF SessionKept, UsesEvent
<1>5. OrderInv'
  <2>1. \A r : Old(r)' <=> Old(r)
      BY <1>e DEF Old
  <2>2. Ordered(written') /\ Before(written', queue)
    <3>1. CASE written' = written
        BY <3>1 DEF OrderInv
    <3>2. CASE written' = written \o entry
      <4>1. Ordered(entry)
          BY <1>a, OrderedShort
      <4> QED
          BY <1>a, <3>2, <4>1, OrderedJoined, BeforeJoined DEF OrderInv
    <3> QED
        BY <1>e, <3>1, <3>2
  <2>3. \A i \in DOMAIN written' : Old(written'[i])
    <3>1. /\ \A i \in DOMAIN written : Old(written[i])
          /\ \A i \in DOMAIN entry : Old(entry[i])
        BY DEF OrderInv
    <3>2. \A i \in DOMAIN (written \o entry) : Old((written \o entry)[i])
      <4> HIDE DEF WriteEntry
      <4> QED
          BY <1>a, <3>1, Joined
    <3> QED
        BY <1>e, <3>1, <3>2
  <2>4. \A r \in lost' : Old(r) /\ \A i \in DOMAIN queue : Follows(r, queue[i])
      BY <1>b, <1>e DEF OrderInv, Before
  <2>5. IsFiniteSet(lost')
    <3>1. IsFiniteSet(lost \cup {entry[1]})
        BY FS_AddElement DEF OrderInv
    <3> QED
        BY <1>e, <3>1 DEF OrderInv
  <2>6. Ordered(written)' /\ Before(written, queue)' /\ Ordered(queue)'
      BY <1>e, <2>2 DEF Ordered, Before, OrderInv
  <2>7. Before(written, entry)' /\ Before(entry, queue)'
      BY <1>d DEF Before
  <2>8. /\ \A i \in DOMAIN queue : (Old(queue[i]))'
        /\ \A i \in DOMAIN written' : (Old(written[i]))'
        /\ \A r \in lost' : Old(r)'
      BY <1>e, <2>1, <2>3, <2>4 DEF OrderInv, Old
  <2> QED
      BY <1>d, <1>e, <2>4, <2>5, <2>6, <2>7, <2>8 DEF OrderInv, NoEntry
<1>6. RecordsAccounted'
  <2>1. /\ Len(queue) \in Nat /\ Cardinality(lost) \in Nat
        /\ Cardinality(lost \cup {entry[1]}) = Cardinality(lost) + 1
      BY <1>g, LenProperties, Counting DEF TypeOK, OrderInv
  <2> QED
    <3>1. UNCHANGED <<accepted, queue, refused, dropped, reporting, reported, unreported>> /\ Len(written) \in Nat
        BY <1>b
    <3>2. \/ Len(written') = Len(written) + 1 /\ lost' = lost
          \/ UNCHANGED written /\ lost' = lost \cup {entry[1]}
        BY <1>e, <1>f
    <3> HIDE DEF WriteEntry
    <3> QED
      <4>1. /\ accepted = Len(written) + Cardinality(lost) + 1 + Len(queue)
            /\ refused = dropped + reporting + reported + unreported
          BY <1>b DEF RecordsAccounted
      <4>2. Cardinality(lost') = Cardinality(lost) \/ Cardinality(lost') = Cardinality(lost) + 1
          BY <2>1, <3>2
      <4>3. Len(written') \in Nat /\ Cardinality(lost') \in Nat
          BY <2>1, <3>1, <3>2, <4>2
      <4>4. Len(written') + Cardinality(lost') = Len(written) + Cardinality(lost) + 1
        <5>1. CASE Len(written') = Len(written) + 1 /\ lost' = lost
            BY <2>1, <3>1, <5>1
        <5>2. CASE UNCHANGED written /\ lost' = lost \cup {entry[1]}
          <6>1. Cardinality(lost') = Cardinality(lost) + 1
              BY <2>1, <5>2
          <6> QED
              BY <2>1, <3>1, <5>2, <6>1
        <5> QED
            BY <3>2, <5>1, <5>2
      <4>5. accepted' = Len(written') + Cardinality(lost') + 0 + Len(queue')
          BY <2>1, <3>1, <4>1, <4>3, <4>4
      <4> QED
          BY <1>d, <3>1, <4>1, <4>5 DEF RecordsAccounted
<1> QED
    BY <1>1, <1>2, <1>3, <1>4, <1>5, <1>6

LEMMA TakeDroppedKeeps ==
    ASSUME IInv, TakeDropped
    PROVE  IInv'
<1> USE DEF IInv, TakeDropped, WriterGoto, flagVars, gateVars, queueVars, handleVars, producerVars,
    coordinatorVars, fileHistory
<1>1. CategoryKept'
    BY DEF CategoryKept
<1>2. TypeOK'
    BY DEF TypeOK, WriterSteps
<1>3. LocksExclude'
    BY LoggerAssumption DEF LocksExclude, TypeOK
<1>4. SessionKept'
  <2>1. wpc' \in {"warn", "check"} /\ (wpc' # "warn" => reporting' = 0)
      BY DEF TypeOK
  <2> QED
      BY <2>1 DEF SessionKept, UsesEvent
<1>5. OrderInv'
  <2>1. \A r \in Records : Old(r) => Old(r)'
      BY DEF Old
  <2> QED
      BY <2>1, OrderStays DEF OrderInv
<1>6. RecordsAccounted'
  <2>1. reporting = 0
      BY DEF SessionKept
  <2> QED
      BY <2>1 DEF RecordsAccounted, TypeOK
<1> QED
    BY <1>1, <1>2, <1>3, <1>4, <1>5, <1>6

LEMMA WriteWarningKeeps ==
    ASSUME IInv, WriteWarning
    PROVE  IInv'
<1> USE DEF IInv, WriteWarning, WriterGoto, flagVars, gateVars, queueVars, handleVars, producerVars,
    coordinatorVars, fileHistory
<1>1. CategoryKept'
    BY DEF CategoryKept
<1>2. TypeOK'
    BY DEF TypeOK, WriterSteps
<1>3. LocksExclude'
    BY LoggerAssumption DEF LocksExclude, TypeOK
<1>4. SessionKept'
    BY DEF SessionKept, UsesEvent
<1>5. OrderInv'
  <2>1. \A r \in Records : Old(r) => Old(r)'
      BY DEF Old
  <2> QED
      BY <2>1, OrderStays DEF OrderInv
<1>6. RecordsAccounted'
    BY DEF RecordsAccounted, TypeOK
<1> QED
    BY <1>1, <1>2, <1>3, <1>4, <1>5, <1>6

LEMMA CheckStoppingKeeps ==
    ASSUME IInv, CheckStopping
    PROVE  IInv'
<1> USE DEF IInv, CheckStopping, WriterGoto, flagVars, gateVars, queueVars, handleVars,
    producerVars, coordinatorVars, fileHistory
<1>1. CategoryKept' /\ RecordsAccounted'
    BY DEF CategoryKept, RecordsAccounted
<1>2. TypeOK'
    BY DEF TypeOK, WriterSteps
<1>3. LocksExclude'
    BY LoggerAssumption DEF LocksExclude, TypeOK
<1>4. SessionKept'
    BY DEF SessionKept, UsesEvent
<1>5. OrderInv'
  <2>1. \A r \in Records : Old(r) => Old(r)'
      BY DEF Old
  <2> QED
      BY <2>1, OrderStays DEF OrderInv
<1> QED
    BY <1>1, <1>2, <1>3, <1>4, <1>5

LEMMA CloseFileKeeps ==
    ASSUME IInv, CloseFile
    PROVE  IInv'
<1> USE DEF IInv, CloseFile, WriterGoto, flagVars, gateVars, queueVars, handleVars, producerVars,
    coordinatorVars, fileHistory
<1>1. CategoryKept' /\ RecordsAccounted'
    BY DEF CategoryKept, RecordsAccounted
<1>2. TypeOK'
    BY DEF TypeOK, WriterSteps
<1>3. LocksExclude'
    BY LoggerAssumption DEF LocksExclude, TypeOK
<1>4. SessionKept'
    BY DEF SessionKept, UsesEvent
<1>5. OrderInv'
  <2>1. \A r \in Records : Old(r) => Old(r)'
      BY DEF Old
  <2> QED
      BY <2>1, OrderStays DEF OrderInv
<1> QED
    BY <1>1, <1>2, <1>3, <1>4, <1>5

LEMMA TerminateKeeps ==
    ASSUME IInv, Terminate
    PROVE  IInv'
<1> USE DEF IInv, Terminate, WriterGoto, flagVars, gateVars, queueVars, handleVars, producerVars,
    coordinatorVars, fileHistory
<1>1. CategoryKept' /\ RecordsAccounted'
    BY DEF CategoryKept, RecordsAccounted
<1>2. TypeOK'
    BY DEF TypeOK, WriterSteps
<1>3. LocksExclude'
    BY LoggerAssumption DEF LocksExclude, TypeOK
<1>4. SessionKept'
    BY DEF SessionKept, UsesEvent
<1>5. OrderInv'
  <2>1. \A r \in Records : Old(r) => Old(r)'
      BY DEF Old
  <2> QED
      BY <2>1, OrderStays DEF OrderInv
<1> QED
    BY <1>1, <1>2, <1>3, <1>4, <1>5

LEMMA CallInitKeeps ==
    ASSUME IInv, CallInit
    PROVE  IInv'
<1> USE DEF IInv, CallInit, flagVars, gateVars, queueVars, handleVars, producerVars, writerVars,
    fileHistory
<1>1. LocksExclude' /\ CategoryKept' /\ OrderInv' /\ RecordsAccounted'
    BY DEF LocksExclude, CategoryKept, OrderInv, Ordered, Before, Old, RecordsAccounted
<1>2. TypeOK'
  <2>1. /\ sessions' \in 0..MaxSessions /\ cpc' \in CoordinatorSteps
        /\ completed' \in {"none", "complete", "refused"}
      BY LoggerAssumption DEF TypeOK, CoordinatorSteps
  <2> QED
      BY <2>1 DEF TypeOK
<1>3. SessionKept'
    BY DEF SessionKept, UsesEvent
<1> QED
    BY <1>1, <1>2, <1>3

LEMMA InitAgainKeeps ==
    ASSUME IInv, InitAgain
    PROVE  IInv'
<1> USE DEF IInv, InitAgain, flagVars, gateVars, queueVars, handleVars, producerVars, writerVars,
    fileHistory
<1>1. LocksExclude' /\ CategoryKept' /\ OrderInv' /\ RecordsAccounted'
    BY DEF LocksExclude, CategoryKept, OrderInv, Ordered, Before, Old, RecordsAccounted
<1>2. TypeOK'
    BY DEF TypeOK, CoordinatorSteps
<1>3. SessionKept'
    BY DEF SessionKept, UsesEvent
<1> QED
    BY <1>1, <1>2, <1>3

LEMMA InitFailsKeeps ==
    ASSUME IInv, InitFails
    PROVE  IInv'
<1> USE DEF IInv, InitFails, flagVars, gateVars, queueVars, handleVars, producerVars, writerVars,
    fileHistory
<1>1. LocksExclude' /\ CategoryKept' /\ OrderInv' /\ RecordsAccounted'
    BY DEF LocksExclude, CategoryKept, OrderInv, Ordered, Before, Old, RecordsAccounted
<1>2. TypeOK'
    BY DEF TypeOK, CoordinatorSteps
<1>3. SessionKept'
    BY DEF SessionKept, UsesEvent, LocksExclude, TypeOK
<1> QED
    BY <1>1, <1>2, <1>3

LEMMA InitCreatesKeeps ==
    ASSUME IInv, NEW categories \in SUBSET Categories, InitCreates(categories)
    PROVE  IInv'
<1> USE DEF IInv, InitCreates, flagVars, gateVars, queueVars, handleVars, producerVars, writerVars,
    fileHistory
<1>1. RecordsAccounted'
    BY DEF RecordsAccounted
<1>2. TypeOK'
    BY DEF TypeOK, CoordinatorSteps, WriterSteps
<1>3. LocksExclude'
    BY LoggerAssumption DEF LocksExclude, SessionKept, TypeOK
<1>4. SessionKept'
    BY DEF SessionKept, UsesEvent, LocksExclude
<1>5. CategoryKept'
    BY DEF CategoryKept, LocksExclude
<1>6. OrderInv'
  <2>1. \A r \in Records : Old(r) => Old(r)'
      BY DEF Old
  <2> QED
      BY <2>1, OrderStays DEF OrderInv, SessionKept
<1> QED
    BY <1>1, <1>2, <1>3, <1>4, <1>5, <1>6

LEMMA InitEnablesKeeps ==
    ASSUME IInv, InitEnables
    PROVE  IInv'
<1> USE DEF IInv, InitEnables, flagVars, gateVars, queueVars, handleVars, producerVars, writerVars,
    fileHistory
<1>1. CategoryKept' /\ OrderInv' /\ RecordsAccounted'
    BY DEF CategoryKept, OrderInv, Ordered, Before, Old, RecordsAccounted
<1>2. TypeOK'
  <2>1. /\ enabled' \subseteq Categories /\ gate_exclusive' \in BOOLEAN
        /\ cpc' \in CoordinatorSteps
      BY DEF TypeOK, CoordinatorSteps
  <2> QED
      BY <2>1 DEF TypeOK
<1>3. LocksExclude'
    BY DEF LocksExclude
<1>4. SessionKept'
    BY DEF SessionKept, UsesEvent
<1> QED
    BY <1>1, <1>2, <1>3, <1>4

LEMMA CallShutdownKeeps ==
    ASSUME IInv, NEW forever \in BOOLEAN, CallShutdown(forever)
    PROVE  IInv'
<1> USE DEF IInv, CallShutdown, Result, ShutdownComplete, flagVars, gateVars, queueVars, handleVars,
    producerVars, writerVars, fileHistory
<1>1. LocksExclude' /\ CategoryKept' /\ OrderInv' /\ RecordsAccounted'
    BY DEF LocksExclude, CategoryKept, OrderInv, Ordered, Before, Old, RecordsAccounted
<1>2. TypeOK'
    BY DEF TypeOK, CoordinatorSteps
<1>3. SessionKept'
    BY DEF SessionKept, UsesEvent
<1> QED
    BY <1>1, <1>2, <1>3

LEMMA CrossGateKeeps ==
    ASSUME IInv, CrossGate
    PROVE  IInv'
<1> USE DEF IInv, CrossGate, flagVars, gateVars, queueVars, handleVars, producerVars, writerVars,
    fileHistory
<1>1. CategoryKept' /\ OrderInv' /\ RecordsAccounted'
    BY DEF CategoryKept, OrderInv, Ordered, Before, Old, RecordsAccounted
<1>2. TypeOK'
    BY DEF TypeOK, CoordinatorSteps
<1>3. LocksExclude'
    BY DEF LocksExclude
<1>4. SessionKept'
    BY DEF SessionKept, UsesEvent, LocksExclude
<1> QED
    BY <1>1, <1>2, <1>3, <1>4

LEMMA SignalStopKeeps ==
    ASSUME IInv, SignalStop
    PROVE  IInv'
<1> USE DEF IInv, SignalStop, flagVars, gateVars, queueVars, handleVars, producerVars, writerVars,
    fileHistory
<1>1. CategoryKept' /\ OrderInv' /\ RecordsAccounted'
    BY DEF CategoryKept, OrderInv, Ordered, Before, Old, RecordsAccounted
<1>2. TypeOK'
  <2>1. /\ stopping' \in BOOLEAN /\ gate_exclusive' \in BOOLEAN
        /\ wake_event' \in {"null", "reset", "set"} /\ cpc' \in CoordinatorSteps
      BY DEF TypeOK, CoordinatorSteps
  <2> QED
      BY <2>1 DEF TypeOK
<1>3. LocksExclude'
    BY DEF LocksExclude
<1>4. SessionKept'
    BY DEF SessionKept, UsesEvent
<1> QED
    BY <1>1, <1>2, <1>3, <1>4

LEMMA JoinWriterKeeps ==
    ASSUME IInv, JoinWriter
    PROVE  IInv'
<1> USE DEF IInv, JoinWriter, flagVars, gateVars, queueVars, handleVars, producerVars, writerVars,
    fileHistory
<1>1. LocksExclude' /\ CategoryKept' /\ OrderInv' /\ RecordsAccounted'
    BY DEF LocksExclude, CategoryKept, OrderInv, Ordered, Before, Old, RecordsAccounted
<1>2. TypeOK'
    BY DEF TypeOK, CoordinatorSteps
<1>3. SessionKept'
    BY DEF SessionKept, UsesEvent
<1> QED
    BY <1>1, <1>2, <1>3

LEMMA JoinTimesOutKeeps ==
    ASSUME IInv, JoinTimesOut
    PROVE  IInv'
<1> USE DEF IInv, JoinTimesOut, flagVars, gateVars, queueVars, handleVars, producerVars, writerVars,
    fileHistory
<1>1. LocksExclude' /\ CategoryKept' /\ OrderInv' /\ RecordsAccounted'
    BY DEF LocksExclude, CategoryKept, OrderInv, Ordered, Before, Old, RecordsAccounted
<1>2. TypeOK'
    BY DEF TypeOK, CoordinatorSteps
<1>3. SessionKept'
    BY DEF SessionKept, UsesEvent
<1> QED
    BY <1>1, <1>2, <1>3

LEMMA CloseEventKeeps ==
    ASSUME IInv, CloseEvent
    PROVE  IInv'
<1> USE DEF IInv, CloseEvent, Result, ShutdownComplete, flagVars, gateVars, queueVars, handleVars,
    producerVars, writerVars, fileHistory
<1>1. LocksExclude' /\ CategoryKept' /\ OrderInv' /\ RecordsAccounted'
    BY DEF LocksExclude, CategoryKept, OrderInv, Ordered, Before, Old, RecordsAccounted
<1>2. TypeOK'
    BY DEF TypeOK, CoordinatorSteps
<1>3. SessionKept'
    BY DEF SessionKept, UsesEvent
<1> QED
    BY <1>1, <1>2, <1>3

-----------------------------------------------------------------------------
(* The specification.                                                          *)

LEMMA StutterKeeps == ASSUME IInv, UNCHANGED vars PROVE IInv'
BY DEF IInv, vars, TypeOK, LocksExclude, SessionKept, UsesEvent, CategoryKept, OrderInv, Ordered, Before,
       Old, RecordsAccounted

LEMMA EveryStep == ASSUME IInv, [Next]_vars PROVE IInv'
<1>1. ASSUME NEW p \in Producers, ProducerStep(p) PROVE IInv'
    BY <1>1, EnterGateKeeps, MissGateKeeps, RecheckKeeps, LockQueueKeeps, MissQueueKeeps, PushKeeps,
       DropFullKeeps, SignalWriterKeeps, LeaveGateKeeps DEF ProducerStep
<1>2. ASSUME WriterStep PROVE IInv'
    BY <1>2, WakeKeeps, LockToPopKeeps, PopEntryKeeps, WriteEntryKeeps, TakeDroppedKeeps,
       WriteWarningKeeps, CheckStoppingKeeps, CloseFileKeeps, TerminateKeeps DEF WriterStep
<1>3. ASSUME CoordinatorStep PROVE IInv'
    BY <1>3, InitAgainKeeps, InitFailsKeeps, InitCreatesKeeps, InitEnablesKeeps, CrossGateKeeps,
       SignalStopKeeps, JoinWriterKeeps, JoinTimesOutKeeps, CloseEventKeeps DEF CoordinatorStep
<1>4. ASSUME CoordinatorCall PROVE IInv'
    BY <1>4, CallInitKeeps, CallShutdownKeeps DEF CoordinatorCall
<1> QED
    BY <1>1, <1>2, <1>3, <1>4, EnqueueKeeps, StutterKeeps DEF Next

THEOREM Invariance == Spec => []IInv
BY Initially, EveryStep, PTL DEF Spec

(* Shutdown closes the event and reports success only when no producer past the *)
(* gate and no writer can use what it closed, whatever failed or timed out.     *)
THEOREM HandlesOutlive == Spec => []HandlesOutliveUsers
<1>1. IInv => HandlesOutliveUsers
    BY DEF IInv, SessionKept, LocksExclude, HandlesOutliveUsers, UsesEvent
<1> QED
    BY Invariance, <1>1, PTL

(* What a producer logged reaches the file in the order it logged it and at     *)
(* most once, for every capacity, number of threads and of sessions.            *)
THEOREM RecordsInOrder == Spec => []OrderKept
<1>1. ASSUME IInv PROVE OrderKept
  <2>1. written \in Seq(Records) /\ entry \in Seq(Records) /\ queue \in Seq(Records)
      BY <1>1 DEF IInv, TypeOK
  <2>2. Ordered(written \o entry) /\ written \o entry \in Seq(Records)
      BY <1>1, <2>1, OrderedShort, OrderedJoined, Joined DEF IInv, OrderInv
  <2>3. Before(written \o entry, queue)
      BY <1>1, <2>1, BeforeJoined DEF IInv, OrderInv
  <2>4. Ordered((written \o entry) \o queue)
      BY <1>1, <2>1, <2>2, <2>3, OrderedJoined DEF IInv, OrderInv
  <2> QED
      BY <2>4 DEF Ordered, Follows, OrderKept
<1> QED
    BY Invariance, <1>1, PTL

(* Each record that was accepted is in exactly one place, and each that Enqueue *)
(* turned away is in exactly one count, through failures, sessions and drops    *)
(* that are counted while the writer takes the count.                           *)
THEOREM RecordsCounted == Spec => []RecordsAccounted
<1>1. IInv => RecordsAccounted
    BY DEF IInv
<1> QED
    BY Invariance, <1>1, PTL

(* A record is queued only while its category is on, or while the shutdown of   *)
(* that session waits for the gate.                                            *)
THEOREM CategoriesHonoured == Spec => CategoryHonoured
<1>1. IInv /\ [Next]_vars =>
        [\A p \in Producers : ppc[p] = "push" /\ Len(queue') > Len(queue) =>
            record[p].category \in configured]_vars
    BY DEF IInv, CategoryKept
<1> QED
    BY Invariance, <1>1, PTL DEF Spec, CategoryHonoured
=============================================================================
