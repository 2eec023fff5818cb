------------------------------- MODULE Watchdog -------------------------------
(***************************************************************************)
(* The watchdog thread of a spatial stream: it polls the audio clock under *)
(* lock_ without waiting for it, reads the activity stamps without a lock, *)
(* and feeds the detector.  How the stream's destructor ends it is module  *)
(* SpatialObjects.                                                         *)
(*                                                                         *)
(* The stream around it is reduced to what the watchdog can see: threads   *)
(* run the passes (BeginUpdatingAudioObjects, with or without a recovery,  *)
(* then EndUpdatingAudioObjects, of any thread) and another calls Start,   *)
(* Stop and Reset.  The detailed recovery is module SpatialStream.  Times  *)
(* start at 1, so that 0 stays "never".                                    *)
(***************************************************************************)
EXTENDS StallDetector, FiniteSets

CONSTANTS
    Passers,        \* the threads that run the passes
    MaxTime,        \* bound on the clock
    MaxPosition,    \* bound on the positions the audio clock reports
    MaxPasses       \* no pass is opened once so many were counted or are about to be

ASSUME WatchdogAssumption ==
    /\ MaxTime \in Nat \ {0} /\ MaxPosition \in Nat /\ MaxPasses \in Nat
    /\ Passers \cap {"free", "control"} = {}

VARIABLES
    now,                    \* QpcNow
    lock_,                  \* "free", "control" or the passing thread that holds it
    open,                   \* update_frames_ is not ~0: a pass has its buffer
    started_,
    last_non_silent_qpc_, last_callback_qpc_, release_buffer_count_,
    pass,                   \* each passing thread: its step and the time it has read
    control,                \* the controlling thread's step
    watchdog,               \* the watchdog's step
    observation,            \* the StallObservation being filled in
    detector,
    series,                 \* the observations since the position changed (history)
    latest,                 \* the newest time stored as a stamp (history)
    overtaken               \* the stamp stored last is older than that (history)

stampVars == <<last_non_silent_qpc_, last_callback_qpc_, release_buffer_count_, latest, overtaken>>
watchdogVars == <<watchdog, observation, detector, series>>
vars == <<now, lock_, open, started_, last_non_silent_qpc_, last_callback_qpc_,
          release_buffer_count_, pass, control, watchdog, observation, detector, series, latest,
          overtaken>>

PassSteps == {"idle", "stopped", "forgetNonSilent", "forgetCallback", "clock", "stamp",
              "endClock", "endStamp", "endNonSilent", "count"}
ControlSteps == {"idle", "forgetCallback"}
WatchdogSteps == {"wait", "measure", "started", "nonSilent", "operation", "observe"}

Times == 0..MaxTime
Observations == [now: Times, ceased: BOOLEAN, started: BOOLEAN, valid: BOOLEAN, position: 0..MaxPosition,
                 non_silent: Times, operation: Times, overtaken: BOOLEAN, count: Nat]

NothingSince(time) == [now |-> time, ceased |-> FALSE, started |-> FALSE, valid |-> FALSE, position |-> 0,
                       non_silent |-> 0, operation |-> 0, overtaken |-> FALSE, count |-> 0]

Init ==
    /\ now = 1
    /\ lock_ = "free"
    /\ open = FALSE
    /\ started_ = FALSE
    /\ last_non_silent_qpc_ = 0 /\ last_callback_qpc_ = 0 /\ release_buffer_count_ = 0
    /\ pass = [p \in Passers |-> [step |-> "idle", time |-> 0]]
    /\ control = "idle"
    /\ watchdog = "wait"
    /\ observation = NothingSince(0)
    /\ detector = FreshDetector
    /\ series = <<>> /\ latest = 0 /\ overtaken = FALSE

------------------------------------------------------------------------------
(* The passing threads.  The game calls a method of a stream it has not    *)
(* released.                                                               *)
Goes(p, to, time) == pass' = [pass EXCEPT ![p] = [step |-> to, time |-> time]]
PassFrom(p, from, to) == pass[p].step = from /\ Goes(p, to, pass[p].time)

(* The coordinator finds a buffer or fails, without a recovery.  Nothing   *)
(* it does then can be seen from outside the lock.                         *)
BeginUpdatingAudioObjects(p) ==
    /\ pass[p].step = "idle" /\ Goes(p, "stamp", now)
    /\ ~open
    /\ lock_ = "free" /\ lock_' = p
    /\ UNCHANGED <<now, open, started_, stampVars, control, watchdogVars>>

(* A recovery stops the client ...                                         *)
BeginRecovers(p) ==
    /\ PassFrom(p, "idle", "stopped")
    /\ ~open
    /\ lock_ = "free" /\ lock_' = p
    /\ started_' = FALSE
    /\ UNCHANGED <<now, open, stampVars, control, watchdogVars>>

(* ... and then fails, or resets the client and may start it.              *)
FallbackResets(p) ==
    /\ \/ PassFrom(p, "stopped", "clock") /\ UNCHANGED started_
       \/ PassFrom(p, "stopped", "forgetNonSilent") /\ started_' \in BOOLEAN
    /\ UNCHANGED <<now, lock_, open, stampVars, control, watchdogVars>>

(* After a reset the stamps are forgotten, one by one.                     *)
ForgetNonSilent(p) ==
    /\ PassFrom(p, "forgetNonSilent", "forgetCallback")
    /\ last_non_silent_qpc_' = 0
    /\ UNCHANGED <<now, lock_, open, started_, last_callback_qpc_, release_buffer_count_, latest,
                   overtaken, control, watchdogVars>>

ForgetCallback(p) ==
    /\ PassFrom(p, "forgetCallback", "clock")
    /\ last_callback_qpc_' = 0
    /\ UNCHANGED <<now, lock_, open, started_, last_non_silent_qpc_, release_buffer_count_, latest,
                   overtaken, control, watchdogVars>>

(* The clock is read, and stored in an action of its own.                  *)
ReadClock(p) ==
    /\ \/ pass[p].step = "clock" /\ Goes(p, "stamp", now)
       \/ pass[p].step = "endClock" /\ Goes(p, "endStamp", now)
    /\ UNCHANGED <<now, lock_, open, started_, stampVars, control, watchdogVars>>

(* What a stamp is compared with to tell whether it is the newest one.     *)
Remembers(time) ==
    /\ overtaken' = (time < latest)
    /\ latest' = IF time < latest THEN latest ELSE time

ToBeCounted == {p \in Passers : pass[p].step \in {"endClock", "endStamp", "endNonSilent", "count"}}

(* The pass is open if the coordinator gave a buffer, and it has failed    *)
(* otherwise.                                                              *)
StampBegin(p) ==
    /\ pass[p].step = "stamp" /\ Goes(p, "idle", 0)
    /\ last_callback_qpc_' = pass[p].time /\ Remembers(pass[p].time)
    /\ \/ open' = FALSE
       \/ release_buffer_count_ + Cardinality(ToBeCounted) < MaxPasses /\ open' = TRUE
    /\ lock_' = "free"
    /\ UNCHANGED <<now, started_, last_non_silent_qpc_, release_buffer_count_, control, watchdogVars>>

(* The samples are mixed and the buffer is released under the lock; the    *)
(* clock is read when the lock has been left, and another thread may have  *)
(* begun the next pass.                                                    *)
EndUpdatingAudioObjects(p) ==
    /\ PassFrom(p, "idle", "endClock")
    /\ lock_ = "free"
    /\ open /\ open' = FALSE
    /\ UNCHANGED <<now, lock_, started_, stampVars, control, watchdogVars>>

(* Mutant: EndUpdatingAudioObjects does not count as a buffer operation.   *)
StampEndSkipped(p) ==
    /\ \/ PassFrom(p, "endStamp", "endNonSilent")
       \/ pass[p].step = "endStamp" /\ Goes(p, "count", 0)
    /\ latest' = IF pass[p].time < latest THEN latest ELSE pass[p].time
    /\ UNCHANGED <<now, lock_, open, started_, last_callback_qpc_, last_non_silent_qpc_,
                   release_buffer_count_, overtaken, control, watchdogVars>>

(* The samples of the pass were silent or they were not.  Outside the      *)
(* lock, a stamp may replace a newer one of another thread.                *)
StampEnd(p) ==
    /\ \/ PassFrom(p, "endStamp", "endNonSilent")
       \/ pass[p].step = "endStamp" /\ Goes(p, "count", 0)
    /\ last_callback_qpc_' = pass[p].time /\ Remembers(pass[p].time)
    /\ UNCHANGED <<now, lock_, open, started_, last_non_silent_qpc_, release_buffer_count_, control,
                   watchdogVars>>

StampNonSilent(p) ==
    /\ pass[p].step = "endNonSilent" /\ Goes(p, "count", 0)
    /\ last_non_silent_qpc_' = pass[p].time
    /\ UNCHANGED <<now, lock_, open, started_, last_callback_qpc_, release_buffer_count_, latest,
                   overtaken, control, watchdogVars>>

CountRelease(p) ==
    /\ pass[p].step = "count" /\ Goes(p, "idle", 0)
    /\ release_buffer_count_' = release_buffer_count_ + 1
    /\ UNCHANGED <<now, lock_, open, started_, last_non_silent_qpc_, last_callback_qpc_, latest,
                   overtaken, control, watchdogVars>>

PassStep(p) ==
    \/ BeginUpdatingAudioObjects(p) \/ BeginRecovers(p) \/ FallbackResets(p)
    \/ ForgetNonSilent(p) \/ ForgetCallback(p) \/ ReadClock(p) \/ StampBegin(p)
    \/ EndUpdatingAudioObjects(p) \/ StampEnd(p) \/ StampNonSilent(p) \/ CountRelease(p)

------------------------------------------------------------------------------
(* The controlling thread.  Start and Stop make one change under the lock, *)
(* and a call that fails makes none.  Reset, which a running client        *)
(* refuses, forgets two stamps, which others read without the lock.        *)
Start ==
    /\ control = "idle" /\ lock_ = "free"
    /\ started_' = TRUE
    /\ UNCHANGED <<now, lock_, open, stampVars, pass, control, watchdogVars>>

Stop ==
    /\ control = "idle" /\ lock_ = "free"
    /\ started_' = FALSE
    /\ UNCHANGED <<now, lock_, open, stampVars, pass, control, watchdogVars>>

Reset ==
    /\ control = "idle" /\ control' = "forgetCallback"
    /\ lock_ = "free" /\ lock_' = "control"
    /\ ~started_
    /\ last_non_silent_qpc_' = 0
    /\ UNCHANGED <<now, open, started_, last_callback_qpc_, release_buffer_count_, latest,
                   overtaken, pass, watchdogVars>>

ResetForgets ==
    /\ control = "forgetCallback" /\ control' = "idle"
    /\ lock_' = "free"
    /\ last_callback_qpc_' = 0
    /\ UNCHANGED <<now, open, started_, last_non_silent_qpc_, release_buffer_count_, latest,
                   overtaken, pass, watchdogVars>>

ControlStep == Start \/ Stop \/ Reset \/ ResetForgets

------------------------------------------------------------------------------
(* The watchdog.  Its steps change nothing the other threads see.          *)
WatchdogFrom(from, to) ==
    /\ watchdog = from /\ watchdog' = to
    /\ UNCHANGED <<now, lock_, open, started_, stampVars, pass, control>>

Observes(o) ==
    /\ detector' = Observe(detector, o)
    /\ series' = Extended(series, o)
    /\ observation' = NothingSince(observation.now)

(* The wait ends after a poll interval, which is at least one tick, and    *)
(* the clock is read.                                                      *)
Poll ==
    /\ WatchdogFrom("wait", "measure")
    /\ now > observation.now
    /\ observation' = [NothingSince(now) EXCEPT !.ceased = now - latest > ActivityWindow]
    /\ UNCHANGED <<detector, series>>

(* TryEnterCriticalSection: a poll that finds the lock held is left out.   *)
SkipPoll ==
    /\ WatchdogFrom("measure", "wait")
    /\ lock_ # "free"
    /\ observation' = NothingSince(observation.now)
    /\ UNCHANGED <<detector, series>>

(* GetPosition under the lock, and the detector's step when it fails.  The *)
(* audio clock is the device's: it plays on, stands, or starts again after *)
(* a reset, and may report any position.                                   *)
Measure ==
    /\ lock_ = "free"
    /\ \/ /\ WatchdogFrom("measure", "started")
          /\ \E position \in 0..MaxPosition :
                observation' = [observation EXCEPT !.valid = TRUE, !.position = position]
          /\ UNCHANGED <<detector, series>>
       \/ /\ WatchdogFrom("measure", "wait")
          /\ Observes(observation)

(* The detector looks at nothing else of a stopped stream.                 *)
LoadStarted ==
    \/ /\ WatchdogFrom("started", "nonSilent")
       /\ started_
       /\ observation' = [observation EXCEPT !.started = TRUE]
       /\ UNCHANGED <<detector, series>>
    \/ /\ WatchdogFrom("started", "wait")
       /\ ~started_
       /\ Observes(observation)

LoadStamps ==
    /\ \/ /\ WatchdogFrom("nonSilent", "operation")
          /\ observation' = [observation EXCEPT !.non_silent = last_non_silent_qpc_]
       \/ /\ WatchdogFrom("operation", "observe")
          /\ observation' = [observation EXCEPT !.operation = last_callback_qpc_, !.overtaken = overtaken]
    /\ UNCHANGED <<detector, series>>

(* The count is loaded last, and the detector sees the observation.        *)
LoadCount ==
    /\ WatchdogFrom("observe", "wait")
    /\ Observes([observation EXCEPT !.count = release_buffer_count_])

WatchdogStep == Poll \/ SkipPoll \/ Measure \/ LoadStarted \/ LoadStamps \/ LoadCount

------------------------------------------------------------------------------
Tick ==
    /\ now < MaxTime
    /\ now' = now + 1
    /\ UNCHANGED <<lock_, open, started_, stampVars, pass, control, watchdogVars>>

Next == (\E p \in Passers : PassStep(p)) \/ ControlStep \/ WatchdogStep \/ Tick

Spec == Init /\ [][Next]_vars

------------------------------------------------------------------------------
InsideLock == {"stopped", "forgetNonSilent", "forgetCallback", "clock", "stamp"}

(* Every variable keeps its type, and lock_ is held exactly over the steps *)
(* the code takes inside its critical sections, whichever way they end.    *)
TypeOK ==
    /\ now \in 1..MaxTime
    /\ lock_ \in Passers \cup {"free", "control"}
    /\ \A p \in Passers : pass[p].step \in InsideLock <=> lock_ = p
    /\ control = "forgetCallback" <=> lock_ = "control"
    /\ open \in BOOLEAN
    /\ started_ \in BOOLEAN
    /\ last_non_silent_qpc_ \in Times /\ last_callback_qpc_ \in Times /\ latest \in Times
    /\ overtaken \in BOOLEAN
    /\ release_buffer_count_ \in Nat
    /\ pass \in [Passers -> [step: PassSteps, time: Times]]
    /\ control \in ControlSteps
    /\ watchdog \in WatchdogSteps
    /\ observation \in Observations
    /\ detector \in [have_position: BOOLEAN, latched: BOOLEAN, position: 0..MaxPosition, progress: Times,
                     count: Nat, condition: Conditions]
    /\ series \in Seq([now: Times, position: 0..MaxPosition, count: Nat, active: BOOLEAN])

(* What the detector reports, from a few fields it updates at each poll,   *)
(* is what the whole series of observations deserves, through stops,       *)
(* resets, recoveries, failed measurements and polls left out.             *)
ConditionDeserved ==
    [][detector'.condition = IF series' = series THEN detector.condition
                             ELSE Deserved(series', [observation EXCEPT !.count = release_buffer_count_])]_vars

ReportsStarvation ==
    /\ detector.condition # "RenderCallbackStarvation"
    /\ detector'.condition = "RenderCallbackStarvation"

(* What DIAGNOSTIC_BUILD says of a starvation report: callbacks had ceased *)
(* beyond BufferActivityWindowMs, so that no pass was stamped in that      *)
(* window before the poll read its clock.                                  *)
StarvationGenuine == [][ReportsStarvation => observation.ceased]_vars

(* What the code keeps: either they had, or a pass was stamped after the   *)
(* poll had read its clock and before it loaded the stamp, or the stamp it *)
(* loaded had been stored over a newer one of another thread.              *)
StarvationExplained ==
    [][ReportsStarvation => \/ observation.ceased
                            \/ observation.operation > observation.now
                            \/ observation.overtaken]_vars

==============================================================================
