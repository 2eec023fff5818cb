---------------------------- MODULE WatchdogProofs ----------------------------
(***************************************************************************)
(* Proofs about Watchdog, for every clock, position and number of passes   *)
(* and every setting of the detector.                                      *)
(***************************************************************************)
EXTENDS Watchdog, TLAPS

(* A poll under way has read the clock, and takes a stream for stopped     *)
(* until it has seen that it runs.                                         *)
PollInv ==
    /\ watchdog \in {"measure", "started", "nonSilent", "operation", "observe"} => observation.now # 0
    /\ watchdog \in {"measure", "started"} => ~observation.started

(* The stamp is the newest one, unless a reset has forgotten it or it was  *)
(* stored over a newer one; none is ahead of the clock.                    *)
StampedInOrder ==
    /\ last_callback_qpc_ = 0 \/ overtaken \/ last_callback_qpc_ = latest
    /\ latest <= now
    /\ \A p \in Passers : pass[p].time <= now

(* A poll that saw the newest stamp inside the window will load a stamp no *)
(* older than that, or none, or one that was stored over a newer one.      *)
Awake(o, time) == o.ceased \/ o.now <= time + ActivityWindow

LoadsAwake ==
    /\ watchdog \in {"measure", "started", "nonSilent", "operation"} => Awake(observation, latest)
    /\ watchdog = "observe" => \/ observation.operation = 0
                               \/ observation.overtaken
                               \/ Awake(observation, observation.operation)

(* What the detector keeps of the series: its first observation, and       *)
(* whether one of them was active.                                         *)
Tracks(d, s) ==
    IF s = <<>> THEN ~d.have_position /\ d.condition = "None"
    ELSE /\ d.have_position /\ d.position = s[1].position
         /\ d.progress = s[1].now /\ d.progress # 0
         /\ d.count = s[1].count
         /\ d.latched <=> \E i \in DOMAIN s : s[i].active

------------------------------------------------------------------------------
(* Types.  The passes and the controlling thread leave the watchdog alone. *)
LockHeld ==
    /\ \A p \in Passers : pass[p].step \in InsideLock <=> lock_ = p
    /\ control = "forgetCallback" <=> lock_ = "control"

Passes == [Passers -> [step: PassSteps, time: Times]]

StampTypes ==
    /\ last_non_silent_qpc_ \in Times /\ last_callback_qpc_ \in Times /\ latest \in Times
    /\ overtaken \in BOOLEAN
    /\ release_buffer_count_ \in Nat

StreamTypes ==
    /\ now \in 1..MaxTime
    /\ lock_ \in Passers \cup {"free", "control"}
    /\ open \in BOOLEAN
    /\ started_ \in BOOLEAN
    /\ StampTypes
    /\ pass \in Passes
    /\ control \in ControlSteps

Detectors == [have_position: BOOLEAN, latched: BOOLEAN, position: 0..MaxPosition, progress: Times,
              count: Nat, condition: Conditions]
Sights == [now: Times, position: 0..MaxPosition, count: Nat, active: BOOLEAN]

WatchdogTypes ==
    /\ watchdog \in WatchdogSteps
    /\ observation \in Observations
    /\ detector \in Detectors
    /\ series \in Seq(Sights)

LEMMA TypeParts ==
    /\ TypeOK <=> StreamTypes /\ LockHeld /\ WatchdogTypes
    /\ TypeOK' <=> StreamTypes' /\ LockHeld' /\ WatchdogTypes'
  BY DEF TypeOK, StreamTypes, StampTypes, LockHeld, Passes, WatchdogTypes, Detectors, Sights

LEMMA TimesAre ==
    /\ 0 \in Times /\ 1..MaxTime \subseteq Times /\ Times \subseteq Nat
    /\ MaxTime \in Nat /\ MaxPosition \in Nat /\ MaxPasses \in Nat
  BY WatchdogAssumption DEF Times

(* Where a passing thread goes, and what it has then read.                 *)
LEMMA PassMoves ==
    ASSUME pass \in Passes, NEW p \in Passers, NEW to \in PassSteps, NEW time \in Times, Goes(p, to, time)
    PROVE  /\ pass' \in Passes /\ pass'[p].step = to /\ pass'[p].time = time
           /\ \A q \in Passers : q # p => pass'[q] = pass[q]
<1>1. /\ [step |-> to, time |-> time] \in [step: PassSteps, time: Times]
      /\ pass' = [pass EXCEPT ![p] = [step |-> to, time |-> time]]
  BY DEF Goes
<1> QED
  BY <1>1 DEF Passes

(* A thread that enters the lock, leaves it, or stays on its side of it.   *)
LEMMA LockMoves ==
    ASSUME LockHeld, NEW p \in Passers, UNCHANGED control,
           \A q \in Passers : q # p => pass'[q] = pass[q],
           \/ lock_' = lock_ /\ (pass'[p].step \in InsideLock <=> pass[p].step \in InsideLock)
           \/ lock_ = "free" /\ lock_' = p /\ pass'[p].step \in InsideLock
           \/ lock_' = "free" /\ pass[p].step \in InsideLock /\ pass'[p].step \notin InsideLock
    PROVE  LockHeld'
<1>1. p # "free" /\ p # "control" /\ \A q \in Passers : q # "free" /\ q # "control"
  BY WatchdogAssumption
<1>2. \A q \in Passers : q # p => (pass'[q].step \in InsideLock <=> pass[q].step \in InsideLock)
  OBVIOUS
<1>3. pass[p].step \in InsideLock => lock_ = p
  BY DEF LockHeld
<1>4. \A q \in Passers : pass'[q].step \in InsideLock <=> lock_' = q
  BY <1>1, <1>2, <1>3 DEF LockHeld
<1>5. control' = "forgetCallback" <=> lock_' = "control"
  BY <1>1, <1>3 DEF LockHeld
<1> QED
  BY <1>4, <1>5 DEF LockHeld

LEMMA PassKeeps ==
    ASSUME TypeOK, NEW p \in Passers, PassStep(p)
    PROVE  /\ TypeOK' /\ UNCHANGED <<watchdogVars, now>>
           /\ \A q \in Passers : q # p => pass'[q] = pass[q]
<1>1. /\ StreamTypes /\ LockHeld /\ WatchdogTypes /\ pass \in Passes
      /\ pass[p].time \in Times /\ now \in Times
  BY TypeParts, TimesAre DEF StreamTypes, Passes
<1>2. UNCHANGED <<watchdogVars, now, control>>
  BY DEF PassStep, BeginUpdatingAudioObjects, BeginRecovers, FallbackResets, ForgetNonSilent,
         ForgetCallback, ReadClock, StampBegin, EndUpdatingAudioObjects, StampEnd, StampNonSilent,
         CountRelease
<1>3. WatchdogTypes'
  BY <1>1, <1>2 DEF WatchdogTypes, watchdogVars
<1> DEFINE Alone == \A q \in Passers : q # p => pass'[q] = pass[q]
           Rest == started_' \in BOOLEAN /\ open' \in BOOLEAN /\ StampTypes'
           Locked == \/ lock_' = lock_ /\ (pass'[p].step \in InsideLock <=> pass[p].step \in InsideLock)
                     \/ lock_ = "free" /\ lock_' = p /\ pass'[p].step \in InsideLock
                     \/ lock_' = "free" /\ pass[p].step \in InsideLock /\ pass'[p].step \notin InsideLock
           Kept == pass' \in Passes /\ Alone /\ Rest /\ Locked
<1>4. ASSUME BeginUpdatingAudioObjects(p) \/ BeginRecovers(p) PROVE Kept
  <2>1. PICK to \in {"stamp", "stopped"}, time \in Times : Goes(p, to, time)
    BY <1>1, <1>4 DEF BeginUpdatingAudioObjects, BeginRecovers, PassFrom
  <2>2. pass' \in Passes /\ Alone /\ pass'[p].step \in InsideLock
    BY <1>1, <2>1, PassMoves DEF PassSteps, InsideLock
  <2>3. Rest
    BY <1>1, <1>4 DEF BeginUpdatingAudioObjects, BeginRecovers, StreamTypes, StampTypes, stampVars
  <2>4. lock_ = "free" /\ lock_' = p
    BY <1>4 DEF BeginUpdatingAudioObjects, BeginRecovers
  <2> QED
    BY <2>2, <2>3, <2>4
<1>5. ASSUME FallbackResets(p) \/ ForgetNonSilent(p) \/ ForgetCallback(p) PROVE Kept
  <2>1. PICK to \in {"forgetNonSilent", "forgetCallback", "clock"} :
            /\ Goes(p, to, pass[p].time)
            /\ pass[p].step \in {"stopped", "forgetNonSilent", "forgetCallback"}
    BY <1>5 DEF FallbackResets, ForgetNonSilent, ForgetCallback, PassFrom
  <2>2. pass' \in Passes /\ Alone /\ pass'[p].step \in InsideLock /\ pass[p].step \in InsideLock
    BY <1>1, <2>1, PassMoves DEF PassSteps, InsideLock
  <2>3. Rest /\ lock_' = lock_
    BY <1>1, <1>5, TimesAre DEF FallbackResets, ForgetNonSilent, ForgetCallback, StreamTypes, StampTypes,
                                stampVars
  <2> QED
    BY <2>2, <2>3
<1>6. ASSUME ReadClock(p) PROVE Kept
  <2>1. PICK to \in {"stamp", "endStamp"} :
            Goes(p, to, now) /\ pass[p].step = IF to = "stamp" THEN "clock" ELSE "endClock"
    BY <1>6 DEF ReadClock
  <2>2. /\ pass' \in Passes /\ Alone
        /\ pass'[p].step \in InsideLock <=> pass[p].step \in InsideLock
    BY <1>1, <2>1, PassMoves DEF PassSteps, InsideLock
  <2>3. Rest /\ lock_' = lock_
    BY <1>1, <1>6 DEF ReadClock, StreamTypes, StampTypes, stampVars
  <2> QED
    BY <2>2, <2>3
<1>7. ASSUME StampBegin(p) PROVE Kept
  <2>1. /\ pass[p].step = "stamp" /\ Goes(p, "idle", 0) /\ lock_' = "free"
        /\ last_callback_qpc_' = pass[p].time /\ Remembers(pass[p].time)
        /\ open' \in BOOLEAN
        /\ UNCHANGED <<started_, last_non_silent_qpc_, release_buffer_count_>>
    BY <1>7 DEF StampBegin
  <2>2. /\ pass' \in Passes /\ Alone
        /\ pass[p].step \in InsideLock /\ pass'[p].step \notin InsideLock
    BY <1>1, <2>1, PassMoves, TimesAre DEF PassSteps, InsideLock
  <2>3. latest' \in Times /\ overtaken' \in BOOLEAN
    BY <1>1, <2>1 DEF Remembers, StreamTypes, StampTypes
  <2>4. Rest
    BY <1>1, <2>1, <2>3 DEF StreamTypes, StampTypes
  <2> QED
    BY <2>1, <2>2, <2>4
<1>8. ASSUME EndUpdatingAudioObjects(p) \/ StampEnd(p) \/ StampNonSilent(p) PROVE Kept
  <2>1. PICK to \in {"endClock", "endNonSilent", "count"} :
            /\ Goes(p, to, pass[p].time) \/ Goes(p, to, 0)
            /\ pass[p].step \in {"idle", "endStamp", "endNonSilent"}
    BY <1>8 DEF EndUpdatingAudioObjects, StampEnd, StampNonSilent, PassFrom
  <2>2. pass' \in Passes /\ Alone /\ pass'[p].step \notin InsideLock /\ pass[p].step \notin InsideLock
    BY <1>1, <2>1, PassMoves, TimesAre DEF PassSteps, InsideLock
  <2>3. CASE StampEnd(p)
    <3>1. latest' \in Times /\ overtaken' \in BOOLEAN
      BY <1>1, <2>3 DEF StampEnd, Remembers, StreamTypes, StampTypes
    <3> QED
      BY <1>1, <2>2, <2>3, <3>1 DEF StampEnd, StreamTypes, StampTypes
  <2>4. CASE EndUpdatingAudioObjects(p)
    BY <1>1, <2>2, <2>4 DEF EndUpdatingAudioObjects, StreamTypes, StampTypes, stampVars
  <2>5. CASE StampNonSilent(p)
    BY <1>1, <2>2, <2>5 DEF StampNonSilent, StreamTypes, StampTypes
  <2> QED
    BY <1>8, <2>3, <2>4, <2>5
<1>9. ASSUME CountRelease(p) PROVE Kept
  <2>1. /\ pass[p].step = "count" /\ Goes(p, "idle", 0)
        /\ release_buffer_count_' = release_buffer_count_ + 1
        /\ UNCHANGED <<lock_, open, started_, last_non_silent_qpc_, last_callback_qpc_, latest, overtaken>>
    BY <1>9 DEF CountRelease
  <2>2. pass' \in Passes /\ Alone /\ pass'[p].step \notin InsideLock /\ pass[p].step \notin InsideLock
    BY <1>1, <2>1, PassMoves, TimesAre DEF PassSteps, InsideLock
  <2>3. Rest
    BY <1>1, <2>1 DEF StreamTypes, StampTypes
  <2> QED
    BY <2>1, <2>2, <2>3
<1>10. Kept
  BY <1>4, <1>5, <1>6, <1>7, <1>8, <1>9 DEF PassStep
<1>11. LockHeld'
  BY <1>1, <1>2, <1>10, LockMoves
<1>12. StreamTypes'
  BY <1>1, <1>2, <1>10 DEF StreamTypes
<1> QED
  BY <1>2, <1>3, <1>10, <1>11, <1>12, TypeParts

LEMMA ControlKeeps ==
    ASSUME TypeOK, ControlStep \/ Tick
    PROVE  TypeOK' /\ UNCHANGED <<watchdogVars, pass, latest, overtaken>> /\ now' >= now
<1>1. StreamTypes /\ LockHeld /\ WatchdogTypes
  BY TypeParts
<1>2. UNCHANGED <<watchdogVars, pass, open, latest, overtaken, release_buffer_count_>>
  BY DEF ControlStep, Start, Stop, Reset, ResetForgets, Tick, stampVars, watchdogVars
<1>3. WatchdogTypes'
  BY <1>1, <1>2 DEF WatchdogTypes, watchdogVars
<1>4. now \in Nat
  BY <1>1, TimesAre DEF StreamTypes
<1> DEFINE Kept == /\ started_' \in BOOLEAN
                   /\ last_non_silent_qpc_' \in Times /\ last_callback_qpc_' \in Times
                   /\ lock_' \in Passers \cup {"free", "control"} /\ control' \in ControlSteps
                   /\ LockHeld' /\ now' \in 1..MaxTime /\ now' >= now
<1>5. ASSUME Start \/ Stop \/ Tick PROVE Kept
  <2>1. UNCHANGED <<lock_, stampVars, control>> /\ started_' \in BOOLEAN
    BY <1>1, <1>5 DEF Start, Stop, Tick, StreamTypes
  <2>2. now' \in 1..MaxTime /\ now' >= now
    BY <1>1, <1>4, <1>5, TimesAre DEF Start, Stop, Tick, StreamTypes
  <2>3. LockHeld'
    BY <1>1, <1>2, <2>1 DEF LockHeld
  <2> QED
    BY <1>1, <2>1, <2>2, <2>3 DEF StreamTypes, StampTypes, stampVars
<1>6. ASSUME Reset PROVE Kept
  <2>1. /\ control' = "forgetCallback" /\ lock_ = "free" /\ lock_' = "control"
        /\ last_non_silent_qpc_' = 0
        /\ UNCHANGED <<now, started_, last_callback_qpc_>>
    BY <1>6 DEF Reset
  <2>2. LockHeld'
    BY <1>1, <1>2, <2>1, WatchdogAssumption DEF LockHeld
  <2> QED
    BY <1>1, <1>4, <2>1, <2>2, TimesAre DEF StreamTypes, StampTypes, ControlSteps
<1>7. ASSUME ResetForgets PROVE Kept
  <2>1. /\ control = "forgetCallback" /\ control' = "idle" /\ lock_' = "free"
        /\ last_callback_qpc_' = 0
        /\ UNCHANGED <<now, started_, last_non_silent_qpc_>>
    BY <1>7 DEF ResetForgets
  <2>2. LockHeld'
    BY <1>1, <1>2, <2>1, WatchdogAssumption DEF LockHeld
  <2> QED
    BY <1>1, <1>4, <2>1, <2>2, TimesAre DEF StreamTypes, StampTypes, ControlSteps
<1>8. Kept
  BY <1>5, <1>6, <1>7 DEF ControlStep
<1>9. StreamTypes'
  BY <1>1, <1>2, <1>8 DEF StreamTypes, StampTypes
<1> QED
  BY <1>2, <1>3, <1>8, <1>9, TypeParts

------------------------------------------------------------------------------
(* The detector's step is typed.                                           *)
LEMMA ObserveType ==
    ASSUME NEW d \in Detectors, NEW s \in Seq(Sights), NEW o \in Observations
    PROVE  Observe(d, o) \in Detectors /\ Extended(s, o) \in Seq(Sights)
<1>1. Active(o) \in BOOLEAN
  BY DEF Active, NonSilentRecent, BufferActive, IsRecent
<1>2. Desired(d, o) \in Conditions
  BY DEF Desired, Conditions
<1>3. FreshDetector \in Detectors
  BY TimesAre DEF FreshDetector, Detectors, Conditions
<1>4. Progressed(o) \in Detectors
  BY <1>1, TimesAre DEF Progressed, Detectors, Observations, Conditions
<1>5. Stood(d, o) \in Detectors
  <2> DEFINE latched == d.latched \/ Active(o)
             condition == Desired(d, o)
  <2>1. latched \in BOOLEAN /\ condition \in Conditions
    BY <1>1, <1>2 DEF Detectors
  <2>2. Stood(d, o) = [d EXCEPT !.latched = latched, !.condition = condition]
    BY DEF Stood, Detectors
  <2> HIDE DEF latched, condition
  <2> QED
    BY <2>1, <2>2 DEF Detectors
<1>6. Seen(o) \in Sights
  BY <1>1 DEF Seen, Sights, Observations
<1>7. Observe(d, o) \in Detectors
  BY <1>3, <1>4, <1>5 DEF Observe
<1>8. Extended(s, o) \in Seq(Sights)
  <2>1. <<>> \in Seq(Sights) /\ Append(s, Seen(o)) \in Seq(Sights) /\ <<Seen(o)>> \in Seq(Sights)
    BY <1>6
  <2> QED
    BY <2>1 DEF Extended
<1> QED
  BY <1>7, <1>8

LEMMA NothingType ==
    ASSUME NEW time \in Times, NEW ceased \in BOOLEAN
    PROVE  /\ NothingSince(time) \in Observations /\ NothingSince(time).now = time
           /\ [NothingSince(time) EXCEPT !.ceased = ceased] \in Observations
           /\ [NothingSince(time) EXCEPT !.ceased = ceased].now = time
           /\ [NothingSince(time) EXCEPT !.ceased = ceased].ceased = ceased
<1> DEFINE o == NothingSince(time)
<1>1. /\ o \in Observations /\ o.now = time
      /\ DOMAIN o = {"now", "ceased", "started", "valid", "position", "non_silent", "operation", "overtaken",
                    "count"}
  BY TimesAre DEF NothingSince, Observations
<1> HIDE DEF o
<1>2. /\ [o EXCEPT !.ceased = ceased] \in Observations
      /\ [o EXCEPT !.ceased = ceased].now = time
      /\ [o EXCEPT !.ceased = ceased].ceased = ceased
  BY <1>1 DEF Observations
<1> QED
  BY <1>1, <1>2 DEF o

LEMMA ObservesType ==
    ASSUME WatchdogTypes, NEW o \in Observations, Observes(o)
    PROVE  /\ observation' \in Observations /\ detector' \in Detectors /\ series' \in Seq(Sights)
           /\ observation'.now = observation.now
  BY ObserveType, NothingType DEF Observes, WatchdogTypes, Observations

(* A loaded value goes into its field and no other: the measured position, *)
LEMMA PositionLoads ==
    ASSUME NEW o \in Observations, NEW p \in 0..MaxPosition
    PROVE  /\ [o EXCEPT !.valid = TRUE, !.position = p] \in Observations
           /\ [o EXCEPT !.valid = TRUE, !.position = p].now = o.now
           /\ [o EXCEPT !.valid = TRUE, !.position = p].ceased = o.ceased
           /\ [o EXCEPT !.valid = TRUE, !.position = p].started = o.started
  BY DEF Observations

(* and the shared variables read one by one.                               *)
LEMMA Loads ==
    ASSUME NEW o \in Observations, NEW time \in Times, NEW count \in Nat
    PROVE  /\ [o EXCEPT !.started = TRUE] \in Observations
           /\ [o EXCEPT !.started = TRUE].now = o.now /\ [o EXCEPT !.started = TRUE].ceased = o.ceased
           /\ [o EXCEPT !.non_silent = time] \in Observations
           /\ [o EXCEPT !.non_silent = time].now = o.now
           /\ [o EXCEPT !.non_silent = time].ceased = o.ceased
           /\ [o EXCEPT !.count = count] \in Observations
           /\ [o EXCEPT !.count = count].now = o.now
           /\ [o EXCEPT !.count = count].ceased = o.ceased
           /\ [o EXCEPT !.count = count].operation = o.operation
           /\ [o EXCEPT !.count = count].overtaken = o.overtaken
<1>1. /\ [o EXCEPT !.started = TRUE] \in Observations
      /\ [o EXCEPT !.started = TRUE].now = o.now /\ [o EXCEPT !.started = TRUE].ceased = o.ceased
  BY DEF Observations
<1>2. /\ [o EXCEPT !.non_silent = time] \in Observations
      /\ [o EXCEPT !.non_silent = time].now = o.now
      /\ [o EXCEPT !.non_silent = time].ceased = o.ceased
  BY DEF Observations
<1>3. /\ [o EXCEPT !.count = count] \in Observations
      /\ [o EXCEPT !.count = count].now = o.now
      /\ [o EXCEPT !.count = count].ceased = o.ceased
      /\ [o EXCEPT !.count = count].operation = o.operation
      /\ [o EXCEPT !.count = count].overtaken = o.overtaken
  BY DEF Observations
<1> QED
  BY <1>1, <1>2, <1>3

(* The steps of the watchdog, by what they make of the observation: a poll *)
(* begins; it is left out; a value is loaded, at last the stamp of the     *)
(* buffer operations; the detector sees a stream that does not run or      *)
(* cannot be measured, or the whole observation.                           *)
PollBegins ==
    /\ watchdog = "wait" /\ watchdog' = "measure" /\ UNCHANGED <<detector, series>>
    /\ observation' \in Observations
    /\ observation'.now = now /\ ~observation'.started
    /\ observation'.ceased <=> now - latest > ActivityWindow

PollLeftOut ==
    /\ watchdog = "measure" /\ watchdog' = "wait" /\ UNCHANGED <<detector, series>>
    /\ observation' \in Observations

ValueLoaded ==
    /\ watchdog \in {"measure", "started", "nonSilent"} /\ UNCHANGED <<detector, series>>
    /\ watchdog' \in {"started", "nonSilent", "operation"}
    /\ observation' \in Observations
    /\ observation'.now = observation.now /\ observation'.ceased = observation.ceased
    /\ watchdog' = "started" => watchdog = "measure" /\ observation'.started = observation.started

StampLoaded ==
    /\ watchdog = "operation" /\ watchdog' = "observe" /\ UNCHANGED <<detector, series>>
    /\ observation' \in Observations
    /\ observation'.now = observation.now /\ observation'.ceased = observation.ceased
    /\ observation'.operation = last_callback_qpc_ /\ observation'.overtaken = overtaken

StoppedSeen ==
    /\ watchdog \in {"measure", "started"} /\ watchdog' = "wait"
    /\ Observes(observation)

WholeSeen ==
    /\ watchdog = "observe" /\ watchdog' = "wait"
    /\ Observes([observation EXCEPT !.count = release_buffer_count_])

LEMMA WatchdogMoves ==
    ASSUME TypeOK, WatchdogStep
    PROVE  /\ UNCHANGED <<now, lock_, started_, stampVars, open, pass, control>>
           /\ \/ PollBegins \/ PollLeftOut \/ ValueLoaded \/ StampLoaded
              \/ StoppedSeen \/ WholeSeen
<1>1. /\ observation \in Observations /\ now \in Times
      /\ last_non_silent_qpc_ \in Times /\ last_callback_qpc_ \in Times
      /\ release_buffer_count_ \in Nat /\ observation.now \in Times /\ overtaken \in BOOLEAN
  BY TimesAre DEF TypeOK, Observations
<1>2. UNCHANGED <<now, lock_, started_, stampVars, open, pass, control>>
  BY DEF WatchdogStep, WatchdogFrom, Poll, SkipPoll, Measure, LoadStarted, LoadStamps, LoadCount
<1>3. CASE Poll
  <2> DEFINE ceased == now - latest > ActivityWindow
  <2>1. /\ observation' = [NothingSince(now) EXCEPT !.ceased = ceased] /\ ceased \in BOOLEAN
        /\ watchdog = "wait" /\ watchdog' = "measure" /\ UNCHANGED <<detector, series>>
    BY <1>3 DEF Poll, WatchdogFrom
  <2> HIDE DEF ceased
  <2>2. /\ observation' \in Observations /\ observation'.now = now /\ observation'.ceased = ceased
    BY <1>1, <2>1, NothingType
  <2>3. ~observation'.started
    BY <2>1 DEF NothingSince
  <2> QED
    BY <1>2, <2>1, <2>2, <2>3 DEF PollBegins, ceased
<1>4. CASE SkipPoll
  BY <1>1, <1>2, <1>4, NothingType DEF SkipPoll, WatchdogFrom, PollLeftOut
<1>5. CASE Measure
  <2>1. CASE WatchdogFrom("measure", "wait") /\ Observes(observation)
    BY <1>2, <2>1 DEF WatchdogFrom, StoppedSeen
  <2>2. ASSUME NEW position \in 0..MaxPosition,
               WatchdogFrom("measure", "started"), UNCHANGED <<detector, series>>,
               observation' = [observation EXCEPT !.valid = TRUE, !.position = position]
        PROVE  ValueLoaded
    <3>1. /\ observation' \in Observations /\ observation'.now = observation.now
          /\ observation'.ceased = observation.ceased /\ observation'.started = observation.started
      BY <1>1, <2>2, PositionLoads
    <3> QED
      BY <1>2, <2>2, <3>1 DEF WatchdogFrom, ValueLoaded
  <2>3. CASE /\ WatchdogFrom("measure", "started") /\ UNCHANGED <<detector, series>>
             /\ \E position \in 0..MaxPosition :
                     observation' = [observation EXCEPT !.valid = TRUE, !.position = position]
    <3>1. PICK position \in 0..MaxPosition :
              observation' = [observation EXCEPT !.valid = TRUE, !.position = position]
      BY <2>3
    <3>2. ValueLoaded
      BY <2>2, <2>3, <3>1, Zenon
    <3> QED
      BY <1>2, <3>2, Zenon
  <2> QED
    BY <1>5, <2>1, <2>3, Zenon DEF Measure
<1>6. CASE LoadStarted
  <2>1. CASE WatchdogFrom("started", "wait") /\ Observes(observation)
    BY <1>2, <2>1 DEF WatchdogFrom, StoppedSeen
  <2>2. CASE /\ WatchdogFrom("started", "nonSilent") /\ UNCHANGED <<detector, series>>
             /\ observation' = [observation EXCEPT !.started = TRUE]
    <3>1. /\ observation' \in Observations /\ observation'.now = observation.now
          /\ observation'.ceased = observation.ceased
      BY <1>1, <2>2, Loads, TimesAre
    <3> QED
      BY <1>2, <2>2, <3>1 DEF WatchdogFrom, ValueLoaded
  <2> QED
    BY <1>6, <2>1, <2>2 DEF LoadStarted
<1>7. CASE LoadStamps
  <2>1. CASE /\ WatchdogFrom("nonSilent", "operation") /\ UNCHANGED <<detector, series>>
             /\ observation' = [observation EXCEPT !.non_silent = last_non_silent_qpc_]
    <3>1. /\ observation' \in Observations /\ observation'.now = observation.now
          /\ observation'.ceased = observation.ceased
      BY <1>1, <2>1, Loads, TimesAre
    <3> QED
      BY <1>2, <2>1, <3>1 DEF WatchdogFrom, ValueLoaded
  <2>2. CASE /\ WatchdogFrom("operation", "observe") /\ UNCHANGED <<detector, series>>
             /\ observation' = [observation EXCEPT !.operation = last_callback_qpc_, !.overtaken = overtaken]
    <3> DEFINE b == overtaken
               o == observation
               time == last_callback_qpc_
               loaded == [o EXCEPT !.operation = time, !.overtaken = b]
    <3>1. b \in BOOLEAN /\ o \in Observations /\ time \in Times
      BY <1>1, Zenon
    <3>2. observation' = loaded
      BY <2>2, Zenon
    <3> HIDE DEF b, o, time
    <3>3. /\ loaded \in Observations
          /\ loaded.now = o.now /\ loaded.ceased = o.ceased
          /\ loaded.operation = time /\ loaded.overtaken = b
      BY <3>1 DEF Observations
    <3> HIDE DEF loaded
    <3>4. observation'.overtaken = overtaken
      BY <3>2, <3>3, Zenon DEF b
    <3>5. watchdog = "operation" /\ watchdog' = "observe" /\ UNCHANGED <<detector, series>>
      BY <2>2 DEF WatchdogFrom
    <3> QED
      BY <1>2, <3>2, <3>3, <3>4, <3>5, Zenon DEF StampLoaded, o, time
  <2> QED
    BY <1>2, <1>7, <2>1, <2>2 DEF LoadStamps
<1>8. CASE LoadCount
  BY <1>2, <1>8 DEF LoadCount, WatchdogFrom, WholeSeen
<1> QED
  BY <1>2, <1>3, <1>4, <1>5, <1>6, <1>7, <1>8 DEF WatchdogStep

LEMMA WatchdogKeeps ==
    ASSUME TypeOK, WatchdogStep
    PROVE  TypeOK'
<1>1. /\ UNCHANGED <<now, lock_, started_, stampVars, open, pass, control>>
      /\ \/ PollBegins \/ PollLeftOut \/ ValueLoaded \/ StampLoaded
         \/ StoppedSeen \/ WholeSeen
  BY WatchdogMoves
<1>2. WatchdogTypes /\ StreamTypes /\ LockHeld /\ release_buffer_count_ \in Nat
  BY TypeParts DEF StreamTypes, StampTypes
<1>3. StreamTypes' /\ LockHeld'
  BY <1>1, <1>2 DEF StreamTypes, StampTypes, LockHeld, stampVars
<1>4. ASSUME PollBegins \/ PollLeftOut \/ ValueLoaded \/ StampLoaded PROVE WatchdogTypes'
  <2>1. watchdog' \in WatchdogSteps /\ observation' \in Observations /\ UNCHANGED <<detector, series>>
    BY <1>4 DEF PollBegins, PollLeftOut, ValueLoaded, StampLoaded, WatchdogSteps
  <2> QED
    BY <1>2, <2>1 DEF WatchdogTypes
<1>5. ASSUME StoppedSeen \/ WholeSeen PROVE WatchdogTypes'
  <2>1. PICK o \in Observations : Observes(o)
    <3>1. observation \in Observations
      BY <1>2 DEF WatchdogTypes
    <3>2. [observation EXCEPT !.count = release_buffer_count_] \in Observations
      BY <1>2, <3>1 DEF Observations
    <3> QED
      BY <1>5, <3>1, <3>2 DEF StoppedSeen, WholeSeen
  <2>2. observation' \in Observations /\ detector' \in Detectors /\ series' \in Seq(Sights)
    BY <1>2, <2>1, ObservesType
  <2>3. watchdog' \in WatchdogSteps
    BY <1>5 DEF StoppedSeen, WholeSeen, WatchdogSteps
  <2> QED
    BY <2>2, <2>3 DEF WatchdogTypes
<1>6. WatchdogTypes'
  BY <1>1, <1>4, <1>5
<1> QED
  BY <1>3, <1>6, TypeParts

LEMMA InitTypes == Init => TypeOK
<1> SUFFICES ASSUME Init PROVE TypeOK
  OBVIOUS
<1>1. StreamTypes
  <2>1. /\ pass = [p \in Passers |-> [step |-> "idle", time |-> 0]]
        /\ now \in 1..MaxTime
    BY TimesAre, WatchdogAssumption DEF Init
  <2>2. pass \in Passes
    BY <2>1, TimesAre DEF Passes, PassSteps
  <2>3. /\ lock_ = "free" /\ control = "idle"
        /\ last_non_silent_qpc_ = 0 /\ last_callback_qpc_ = 0 /\ latest = 0
        /\ release_buffer_count_ = 0
    BY DEF Init
  <2>4. started_ \in BOOLEAN /\ open \in BOOLEAN /\ overtaken \in BOOLEAN
    BY DEF Init
  <2> QED
    BY <2>1, <2>2, <2>3, <2>4, TimesAre DEF StreamTypes, StampTypes, ControlSteps
<1>2. LockHeld
  BY WatchdogAssumption DEF Init, LockHeld, InsideLock
<1>3. observation \in Observations
  BY TimesAre, NothingType DEF Init
<1>4. detector \in Detectors
  BY TimesAre DEF Init, FreshDetector, Detectors, Conditions
<1> QED
  BY <1>1, <1>2, <1>3, <1>4, TypeParts DEF Init, WatchdogTypes, WatchdogSteps

LEMMA StutterKeeps ==
    ASSUME TypeOK, UNCHANGED vars
    PROVE  TypeOK'
  BY DEF vars, TypeOK

LEMMA NextTypes == TypeOK /\ [Next]_vars => TypeOK'
  BY PassKeeps, ControlKeeps, WatchdogKeeps, StutterKeeps DEF Next

(* Every variable of the stream, its watchdog and its detector keeps its   *)
(* type, and lock_ is held exactly over the critical sections.             *)
THEOREM TypeCorrect == Spec => []TypeOK
  BY InitTypes, NextTypes, PTL DEF Spec

------------------------------------------------------------------------------
(* Polls and stamps.                                                       *)
LEMMA PollKept ==
    ASSUME TypeOK, PollInv, [Next]_vars
    PROVE  PollInv'
<1>1. CASE UNCHANGED watchdogVars
  BY <1>1 DEF PollInv, watchdogVars
<1>2. CASE WatchdogStep
  <2>1. \/ PollBegins \/ PollLeftOut \/ ValueLoaded \/ StampLoaded \/ StoppedSeen \/ WholeSeen
    BY <1>2, WatchdogMoves
  <2>2. CASE PollLeftOut \/ StoppedSeen \/ WholeSeen
    BY <2>2 DEF PollLeftOut, StoppedSeen, WholeSeen, WatchdogFrom, PollInv
  <2>3. CASE PollBegins
    BY <2>3 DEF PollBegins, PollInv, TypeOK
  <2>4. CASE ValueLoaded \/ StampLoaded
    BY <2>4 DEF ValueLoaded, StampLoaded, PollInv
  <2> QED
    BY <2>1, <2>2, <2>3, <2>4
<1> QED
  BY <1>1, <1>2, PassKeeps, ControlKeeps DEF Next, vars, watchdogVars

LEMMA PassStamps ==
    ASSUME TypeOK, StampedInOrder, NEW p \in Passers, PassStep(p)
    PROVE  StampedInOrder' /\ latest' >= latest
<1>1. /\ now \in Nat /\ latest \in Nat /\ pass[p].time \in Nat /\ last_callback_qpc_ \in Nat
      /\ pass \in Passes /\ now \in Times
  BY TimesAre DEF TypeOK, Passes
<1>2. now' = now /\ \A q \in Passers : q # p => pass'[q] = pass[q]
  BY PassKeeps
<1>3. pass'[p].time \in {0, pass[p].time, now}
  <2>1. PICK to \in PassSteps, time \in {0, pass[p].time, now} : Goes(p, to, time)
    BY DEF PassStep, BeginUpdatingAudioObjects, BeginRecovers, FallbackResets, ForgetNonSilent,
           ForgetCallback, ReadClock, StampBegin, EndUpdatingAudioObjects, StampEnd, StampNonSilent,
           CountRelease, PassFrom, PassSteps
  <2>2. time \in Times
    BY <1>1, <2>1, TimesAre DEF Passes
  <2> QED
    BY <1>1, <2>1, <2>2, PassMoves
<1>4. \A q \in Passers : pass'[q].time <= now'
  BY <1>1, <1>2, <1>3 DEF StampedInOrder
<1>5. CASE StampBegin(p) \/ StampEnd(p)
  <2> DEFINE time == pass[p].time
  <2>1. /\ last_callback_qpc_' = time /\ overtaken' = (time < latest)
        /\ latest' = IF time < latest THEN latest ELSE time
    BY <1>5 DEF StampBegin, StampEnd, Remembers
  <2>2. time <= now /\ latest <= now /\ time \in Nat
    BY <1>1 DEF StampedInOrder
  <2> HIDE DEF time
  <2>3. latest' >= latest /\ latest' <= now'
    BY <1>1, <1>2, <2>1, <2>2
  <2>4. overtaken' \/ last_callback_qpc_' = latest'
    BY <1>1, <2>1, <2>2
  <2> QED
    BY <1>4, <2>3, <2>4 DEF StampedInOrder
<1>6. CASE ~(StampBegin(p) \/ StampEnd(p))
  <2>1. UNCHANGED <<latest, overtaken>> /\ last_callback_qpc_' \in {0, last_callback_qpc_}
    BY <1>6 DEF PassStep, BeginUpdatingAudioObjects, BeginRecovers, FallbackResets, ForgetNonSilent,
           ForgetCallback, ReadClock, EndUpdatingAudioObjects, StampNonSilent, CountRelease, stampVars
  <2> QED
    BY <1>1, <1>2, <1>4, <2>1 DEF StampedInOrder
<1> QED
  BY <1>5, <1>6

LEMMA StampsKept ==
    ASSUME TypeOK, StampedInOrder, [Next]_vars
    PROVE  StampedInOrder' /\ latest' >= latest
<1>1. now \in Nat /\ latest \in Nat /\ \A p \in Passers : pass[p].time \in Nat
  BY TimesAre DEF TypeOK
<1>2. CASE \E p \in Passers : PassStep(p)
  BY <1>2, PassStamps
<1>3. CASE ControlStep \/ Tick
  <2>1. UNCHANGED <<pass, latest, overtaken>> /\ now' >= now /\ now' \in Nat
    BY <1>3, ControlKeeps, TimesAre DEF TypeOK
  <2>2. last_callback_qpc_' \in {0, last_callback_qpc_}
    BY <1>3 DEF ControlStep, Start, Stop, Reset, ResetForgets, Tick, stampVars
  <2> QED
    BY <1>1, <2>1, <2>2 DEF StampedInOrder
<1>4. CASE WatchdogStep \/ UNCHANGED vars
  <2>1. UNCHANGED <<now, stampVars, pass>>
    BY <1>4, WatchdogMoves DEF vars, stampVars
  <2> QED
    BY <1>1, <2>1 DEF StampedInOrder, stampVars
<1> QED
  BY <1>2, <1>3, <1>4 DEF Next

LEMMA AwakeKept ==
    ASSUME TypeOK, StampedInOrder, LoadsAwake, [Next]_vars
    PROVE  LoadsAwake'
<1>1. /\ latest \in Nat /\ now \in Nat /\ ActivityWindow \in Nat
      /\ observation \in Observations /\ observation.now \in Nat
  BY TimesAre, StallDetectorAssumption DEF TypeOK, Observations
<1>2. latest' >= latest /\ latest' \in Nat
  <2>1. TypeOK'
    BY NextTypes
  <2> QED
    BY <2>1, StampsKept, TimesAre DEF TypeOK
<1>3. CASE UNCHANGED watchdogVars
  BY <1>1, <1>2, <1>3 DEF LoadsAwake, Awake, watchdogVars
<1>4. CASE WatchdogStep
  <2>1. /\ latest' = latest
        /\ \/ PollBegins \/ PollLeftOut \/ ValueLoaded \/ StampLoaded \/ StoppedSeen \/ WholeSeen
    BY <1>4, WatchdogMoves DEF stampVars
  <2>2. CASE PollLeftOut \/ StoppedSeen \/ WholeSeen
    BY <2>2 DEF PollLeftOut, StoppedSeen, WholeSeen, WatchdogFrom, LoadsAwake
  <2>3. CASE PollBegins
    BY <1>1, <2>1, <2>3 DEF PollBegins, LoadsAwake, Awake
  <2>4. CASE ValueLoaded
    BY <2>1, <2>4 DEF ValueLoaded, LoadsAwake, Awake
  <2>5. CASE StampLoaded
    BY <2>1, <2>5 DEF StampLoaded, LoadsAwake, Awake, StampedInOrder
  <2> QED
    BY <2>1, <2>2, <2>3, <2>4, <2>5
<1> QED
  BY <1>3, <1>4, PassKeeps, ControlKeeps DEF Next, vars, watchdogVars

(* A detector that comes to report starvation has stood by its position,   *)
(* and the whole observation shows a stamp and no activity.                *)
LEMMA OnlyStarved ==
    ASSUME NEW d \in Detectors, NEW o, Observe(d, o).condition = "RenderCallbackStarvation"
    PROVE  o.started /\ o.operation # 0 /\ ~BufferActive(o)
<1>1. o.started /\ Observe(d, o) = Stood(d, o)
  BY DEF Observe, FreshDetector, Progressed
<1>2. Desired(d, o) = "RenderCallbackStarvation"
  BY <1>1 DEF Stood, Detectors
<1> QED
  BY <1>1, <1>2 DEF Desired, Starves

LEMMA ReportExplained ==
    ASSUME TypeOK, PollInv, LoadsAwake, [Next]_vars, ReportsStarvation
    PROVE  observation.ceased \/ observation.operation > observation.now \/ observation.overtaken
<1>1. detector' # detector
  BY DEF ReportsStarvation
<1>2. WatchdogStep
  BY <1>1, PassKeeps, ControlKeeps DEF Next, vars, watchdogVars
<1>3. StoppedSeen \/ WholeSeen
  BY <1>1, <1>2, WatchdogMoves DEF PollBegins, PollLeftOut, ValueLoaded, StampLoaded
<1>4. detector \in Detectors /\ observation \in Observations
  BY TypeParts DEF WatchdogTypes
<1>5. ~StoppedSeen
  BY <1>4, OnlyStarved DEF StoppedSeen, PollInv, Observes, ReportsStarvation
<1> DEFINE o == [observation EXCEPT !.count = release_buffer_count_]
<1>6. /\ watchdog = "observe" /\ o.operation # 0 /\ ~BufferActive(o)
  BY <1>3, <1>4, <1>5, OnlyStarved DEF WholeSeen, Observes, ReportsStarvation
<1>7. o.operation = observation.operation /\ o.now = observation.now
  BY <1>4 DEF Observations
<1>8. /\ observation.operation \in Nat /\ observation.now \in Nat /\ ActivityWindow \in Nat
  BY <1>4, TimesAre, StallDetectorAssumption DEF Observations
<1> HIDE DEF o
<1> QED
  BY <1>6, <1>7, <1>8 DEF BufferActive, IsRecent, LoadsAwake, Awake

(* A starvation report has an explanation: the passes had ceased for the   *)
(* whole activity window when the poll read its clock, or one was stamped  *)
(* between that and the load of the stamp, or the end of a pass had put    *)
(* its older time over another thread's newer stamp (dllmain.cpp, the      *)
(* watchdog, BeginUpdatingAudioObjects and EndUpdatingAudioObjects).       *)
THEOREM StarvationsExplained == Spec => StarvationExplained
<1> DEFINE Explains == ReportsStarvation => \/ observation.ceased
                                            \/ observation.operation > observation.now
                                            \/ observation.overtaken
           Inv == TypeOK /\ PollInv /\ StampedInOrder /\ LoadsAwake
<1>1. Init => PollInv /\ StampedInOrder /\ LoadsAwake
  BY DEF Init, PollInv, StampedInOrder, LoadsAwake
<1>2. Init => Inv
  BY <1>1, InitTypes
<1>3. Inv /\ [Next]_vars => Inv'
  BY NextTypes, PollKept, StampsKept, AwakeKept
<1>4. Inv /\ [Next]_vars => [Explains]_vars
  BY ReportExplained
<1> HIDE DEF Inv, Explains
<1>5. Spec => [][Explains]_vars
  BY <1>2, <1>3, <1>4, PTL DEF Spec
<1> QED
  BY <1>5 DEF StarvationExplained, Explains

------------------------------------------------------------------------------
(* The detector and the series.                                            *)
LEMMA SeriesGrows ==
    ASSUME NEW s \in Seq(Sights), s # <<>>, NEW x \in Sights
    PROVE  /\ Append(s, x) # <<>> /\ Append(s, x) # s /\ Append(s, x)[1] = s[1]
           /\ (\E i \in DOMAIN Append(s, x) : Append(s, x)[i].active)
                  <=> (\E i \in DOMAIN s : s[i].active) \/ x.active
<1> DEFINE n == Len(s)
           t == Append(s, x)
<1>1. n \in Nat /\ n # 0 /\ DOMAIN s = 1..n
  OBVIOUS
<1>2. /\ DOMAIN t = 1..(n + 1) /\ t[n + 1] = x /\ Len(t) = n + 1
      /\ \A i \in 1..n : t[i] = s[i]
  OBVIOUS
<1>3. Len(<<>>) = 0
  OBVIOUS
<1>4. t # s /\ t # <<>>
  <2>1. t = s => Len(t) = n
    OBVIOUS
  <2>2. t = <<>> => Len(t) = 0
    BY <1>3
  <2> HIDE DEF n, t
  <2>3. n + 1 # n /\ n + 1 # 0
    BY <1>1
  <2> QED
    BY <1>2, <2>1, <2>2, <2>3
<1> HIDE DEF n, t
<1>5. 1 \in 1..n /\ 1..(n + 1) = (1..n) \cup {n + 1}
  BY <1>1
<1>6. t[1] = s[1]
  BY <1>2, <1>5
<1>7. (\E i \in DOMAIN t : t[i].active) <=> (\E i \in DOMAIN s : s[i].active) \/ x.active
  BY <1>1, <1>2, <1>5
<1> QED
  BY <1>4, <1>6, <1>7 DEF t

(* One observation keeps the detector on the series, and the verdict is    *)
(* the one the series deserves; a series is unchanged only if it is empty. *)
LEMMA ObserveTracks ==
    ASSUME NEW d \in Detectors, NEW s \in Seq(Sights), NEW o \in Observations, o.now # 0, Tracks(d, s)
    PROVE  /\ Tracks(Observe(d, o), Extended(s, o))
           /\ Observe(d, o).condition = Deserved(Extended(s, o), o)
           /\ Extended(s, o) = s => s = <<>>
<1>1. /\ Seen(o) \in Sights /\ Active(o) \in BOOLEAN
      /\ Seen(o).now = o.now /\ Seen(o).position = o.position /\ Seen(o).count = o.count
      /\ Seen(o).active = Active(o)
  BY DEF Seen, Sights, Observations, Active, NonSilentRecent, BufferActive, IsRecent
<1>2. /\ o.now \in Nat /\ o.count \in Nat /\ o.non_silent \in Nat
      /\ d.progress \in Nat /\ d.count \in Nat /\ d.latched \in BOOLEAN
      /\ StallTimeout \in Nat /\ StallTimeout >= 1
  <2>1. o.now \in Times /\ o.count \in Nat /\ o.non_silent \in Times
    BY DEF Observations
  <2>2. d.progress \in Times /\ d.count \in Nat /\ d.latched \in BOOLEAN
    BY DEF Detectors
  <2>3. StallTimeout \in Nat /\ StallTimeout >= 1
    BY StallDetectorAssumption
  <2> QED
    BY <2>1, <2>2, <2>3, TimesAre
<1>3. CASE ~o.started \/ ~o.valid
  <2>1. Observe(d, o) = FreshDetector /\ Extended(s, o) = <<>>
    BY <1>3 DEF Observe, Extended
  <2> QED
    BY <2>1 DEF FreshDetector, Tracks, Deserved
<1>4. ASSUME o.started, o.valid, s = <<>> \/ s[1].position # o.position
      PROVE  /\ Tracks(Observe(d, o), Extended(s, o))
             /\ Observe(d, o).condition = Deserved(Extended(s, o), o)
             /\ Extended(s, o) = s => s = <<>>
  <2> DEFINE t == <<Seen(o)>>
  <2>1. Extended(s, o) = t
    BY <1>4 DEF Extended
  <2>2. Observe(d, o) = Progressed(o)
    BY <1>4 DEF Observe, Tracks
  <2>3. t # <<>> /\ DOMAIN t = {1} /\ t[1] = Seen(o)
    OBVIOUS
  <2> HIDE DEF t
  <2>4. (\E i \in DOMAIN t : t[i].active) <=> Active(o)
    BY <1>1, <2>3
  <2>5. Tracks(Progressed(o), t)
    BY <1>1, <2>3, <2>4 DEF Tracks, Progressed
  <2>6. Deserved(t, o) = "None"
    BY <1>1, <1>2, <2>3 DEF Deserved
  <2>7. t = s => s = <<>>
    BY <1>1, <1>4, <2>3
  <2> QED
    BY <2>1, <2>2, <2>5, <2>6, <2>7 DEF Progressed
<1>5. ASSUME o.started, o.valid, s # <<>>, s[1].position = o.position
      PROVE  /\ Tracks(Observe(d, o), Extended(s, o))
             /\ Observe(d, o).condition = Deserved(Extended(s, o), o)
             /\ Extended(s, o) = s => s = <<>>
  <2> DEFINE t == Append(s, Seen(o))
             was == \E i \in DOMAIN s : s[i].active
             is == \E i \in DOMAIN t : t[i].active
  <2>1. Extended(s, o) = t
    BY <1>5 DEF Extended
  <2>2. /\ d.have_position /\ d.position = s[1].position /\ d.count = s[1].count
        /\ d.progress = s[1].now /\ d.progress # 0 /\ (d.latched <=> was)
    BY <1>5 DEF Tracks
  <2>3. Observe(d, o) = Stood(d, o)
    BY <1>5, <2>2 DEF Observe
  <2>4. t # <<>> /\ t # s /\ t[1] = s[1] /\ (is <=> was \/ Active(o))
    BY <1>1, <1>5, SeriesGrows
  <2>5. /\ Stood(d, o).have_position /\ Stood(d, o).position = d.position
        /\ Stood(d, o).count = d.count /\ Stood(d, o).progress = d.progress
        /\ Stood(d, o).latched = (d.latched \/ Active(o)) /\ Stood(d, o).condition = Desired(d, o)
    BY <2>2 DEF Stood, Detectors
  <2> HIDE DEF t, was
  <2>6. Tracks(Stood(d, o), t)
    BY <2>2, <2>4, <2>5 DEF Tracks
  <2>7. TimedOut(d, o) <=> ~(o.now < t[1].now + StallTimeout)
    BY <1>2, <2>2, <2>4 DEF TimedOut
  <2>8. ClockStalls(d, o) <=> /\ TimedOut(d, o) /\ Active(o) /\ o.count > t[1].count
                              /\ o.non_silent >= t[1].now
    BY <2>2, <2>4 DEF ClockStalls
  <2>9. Starves(d, o) <=> TimedOut(d, o) /\ is /\ o.operation # 0 /\ ~BufferActive(o)
    BY <2>2, <2>4 DEF Starves
  <2>10. Desired(d, o) = Deserved(t, o)
    BY <2>4, <2>7, <2>8, <2>9 DEF Desired, Deserved
  <2> QED
    BY <1>5, <2>1, <2>3, <2>4, <2>5, <2>6, <2>10
<1> QED
  BY <1>3, <1>4, <1>5

(* What the poll that ends shows the detector is what the property names.  *)
Verdict ==
    detector'.condition = IF series' = series THEN detector.condition
                          ELSE Deserved(series', [observation EXCEPT !.count = release_buffer_count_])

LEMMA SeriesKept ==
    ASSUME TypeOK, PollInv, Tracks(detector, series), [Next]_vars
    PROVE  Tracks(detector, series)' /\ Verdict
<1>1. CASE UNCHANGED <<detector, series>>
  BY <1>1 DEF Tracks, Verdict
<1>2. ASSUME StoppedSeen \/ WholeSeen PROVE Tracks(detector, series)' /\ Verdict
  <2> DEFINE whole == [observation EXCEPT !.count = release_buffer_count_]
  <2>1. /\ detector \in Detectors /\ series \in Seq(Sights) /\ observation \in Observations
        /\ observation.now # 0
    BY <1>2, TypeParts DEF WatchdogTypes, PollInv, StoppedSeen, WholeSeen
  <2>2. whole \in Observations /\ whole.now = observation.now
    BY <2>1 DEF Observations, TypeOK
  <2>3. PICK o \in Observations : o.now # 0 /\ Observes(o) /\ (o = whole \/ ~o.started)
    BY <1>2, <2>1, <2>2 DEF StoppedSeen, WholeSeen, PollInv
  <2> HIDE DEF whole
  <2>4. detector' = Observe(detector, o) /\ series' = Extended(series, o)
    BY <2>3 DEF Observes
  <2>5. /\ Tracks(detector', series') /\ detector'.condition = Deserved(series', o)
        /\ series' = series => series = <<>>
    BY <2>1, <2>3, <2>4, ObserveTracks
  <2>6. CASE series' = <<>>
    BY <2>5, <2>6 DEF Verdict, Tracks, Deserved
  <2>7. CASE series' # <<>>
    <3>1. o = whole /\ series' # series
      BY <2>3, <2>4, <2>5, <2>7 DEF Extended
    <3> QED
      BY <2>5, <3>1 DEF Verdict, whole
  <2> QED
    BY <2>6, <2>7
<1>3. CASE WatchdogStep
  BY <1>1, <1>2, <1>3, WatchdogMoves
       DEF PollBegins, PollLeftOut, ValueLoaded, StampLoaded
<1> QED
  BY <1>1, <1>3, PassKeeps, ControlKeeps DEF Next, vars, watchdogVars

(* What the detector reports at the end of a poll, from the few fields it  *)
(* updates (stall_detector.cpp), is what DIAGNOSTIC_BUILD promises of the  *)
(* whole series of observations since the position changed.                *)
THEOREM ConditionsDeserved == Spec => ConditionDeserved
<1> DEFINE Inv == TypeOK /\ PollInv /\ Tracks(detector, series)
<1>1. Init => PollInv /\ Tracks(detector, series)
  BY DEF Init, PollInv, Tracks, FreshDetector
<1>2. Init => Inv
  BY <1>1, InitTypes
<1>3. Inv /\ [Next]_vars => Inv'
  BY NextTypes, PollKept, SeriesKept
<1>4. Inv /\ [Next]_vars => [Verdict]_vars
  BY SeriesKept
<1> HIDE DEF Inv
<1>5. Spec => [][Verdict]_vars
  BY <1>2, <1>3, <1>4, PTL DEF Spec
<1> QED
  BY <1>5 DEF ConditionDeserved, Verdict

===============================================================================
