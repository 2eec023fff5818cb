---------------------------- MODULE StallDetector ----------------------------
(***************************************************************************)
(* The StallDetector of stall_detector.cpp as a function of its state and  *)
(* one observation, and the same verdict defined over the whole series of  *)
(* observations in which the position stood still.                         *)
(*                                                                         *)
(* An observation is a record                                              *)
(*   now          now_ticks            started   started, and              *)
(*   position     playback_position              buffer_operations_expected*)
(*   non_silent   last_non_silent_ticks  valid   playback_measurement_valid*)
(*   operation    last_buffer_operation_ticks                              *)
(*   count        callback_count                                           *)
(* where a time of 0 means never.  A stream that is started expects buffer *)
(* operations, because it cannot be activated without an event.            *)
(***************************************************************************)
EXTENDS Naturals, Sequences

CONSTANTS
    StallTimeout,       \* stall_timeout_ticks
    NonSilentWindow,    \* non_silent_window_ticks
    ActivityWindow      \* buffer_activity_window_ticks

ASSUME StallDetectorAssumption ==
    /\ StallTimeout \in Nat \ {0}       \* config.cpp clamps it to 250 ms at least
    /\ NonSilentWindow \in Nat
    /\ ActivityWindow \in Nat

(* What StallTransition reports follows from the condition before and      *)
(* after: none if it did not change, "Cleared" if it became None.          *)
Conditions == {"None", "ClockStallWithSubmissions", "RenderCallbackStarvation"}

FreshDetector == [have_position |-> FALSE, latched |-> FALSE, position |-> 0, progress |-> 0,
                  count |-> 0, condition |-> "None"]

IsRecent(now, then, window) == then # 0 /\ now >= then /\ now - then <= window

NonSilentRecent(o) == IsRecent(o.now, o.non_silent, NonSilentWindow)
BufferActive(o) == IsRecent(o.now, o.operation, ActivityWindow)
Active(o) == NonSilentRecent(o) /\ BufferActive(o)

(* The position is the first one or has changed: progress starts anew.     *)
Progressed(o) ==
    [have_position |-> TRUE, latched |-> Active(o), position |-> o.position, progress |-> o.now,
     count |-> o.count, condition |-> "None"]

TimedOut(d, o) == d.progress # 0 /\ o.now >= d.progress /\ o.now - d.progress >= StallTimeout

ClockStalls(d, o) ==
    TimedOut(d, o) /\ Active(o) /\ o.count > d.count /\ o.non_silent >= d.progress

Starves(d, o) ==
    TimedOut(d, o) /\ (d.latched \/ Active(o)) /\ o.operation # 0 /\ ~BufferActive(o)

Desired(d, o) ==
    IF ClockStalls(d, o) THEN "ClockStallWithSubmissions"
    ELSE IF Starves(d, o) THEN "RenderCallbackStarvation" ELSE "None"

(* Mutant: the latch is forgotten with the activity.                       *)
StoodUnlatched(d, o) == [d EXCEPT !.latched = Active(o), !.condition = Desired(d, o)]

(* The position stands still.                                              *)
Stood(d, o) == [d EXCEPT !.latched = @ \/ Active(o), !.condition = Desired(d, o)]

Observe(d, o) ==
    IF ~o.started \/ ~o.valid THEN FreshDetector
    ELSE IF ~d.have_position \/ o.position # d.position THEN Progressed(o)
    ELSE Stood(d, o)

------------------------------------------------------------------------------
(* What is kept of an observation in the series of those, without a stop   *)
(* or a failed measurement in between, that show the position of the last. *)
Seen(o) == [now |-> o.now, position |-> o.position, count |-> o.count, active |-> Active(o)]

Extended(series, o) ==
    IF ~o.started \/ ~o.valid THEN <<>>
    ELSE IF series # <<>> /\ series[1].position = o.position THEN Append(series, Seen(o))
    ELSE <<Seen(o)>>

(* What DIAGNOSTIC_BUILD says of such a series that ends with o: nothing   *)
(* before the timeout; a clock stall while non-silent passes went on since *)
(* the position stood; starvation when playback was active at some         *)
(* observation of the series and passes have ceased since.                 *)
Deserved(series, o) ==
    IF series = <<>> THEN "None"
    ELSE LET first == series[1] IN
         IF o.now < first.now + StallTimeout THEN "None"
         ELSE IF Active(o) /\ o.count > first.count /\ o.non_silent >= first.now
              THEN "ClockStallWithSubmissions"
         ELSE IF /\ \E i \in DOMAIN series : series[i].active
                 /\ o.operation # 0 /\ ~BufferActive(o)
              THEN "RenderCallbackStarvation"
         ELSE "None"

==============================================================================
