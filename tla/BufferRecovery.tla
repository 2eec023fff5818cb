---------------------------- MODULE BufferRecovery ----------------------------
(***************************************************************************)
(* BufferRecovery::Coordinator::Acquire on its AudioClientRecoveryBackend, *)
(* called by any set of threads: one action per call into the client and   *)
(* per step on the state the threads share (the gate and the timestamps),  *)
(* so that the engine, the clock and the other callers run in between.     *)
(*                                                                         *)
(* A thread is "idle", at one of the steps of Acquire, or has "returned"   *)
(* with its outcome and not yet looked at it.                              *)
(***************************************************************************)
EXTENDS AudioClient, Sequences, FiniteSets

CONSTANTS
    Threads,          \* the callers
    NoThread,         \* the gate's value when it is clear
    Period,           \* period_frames
    Configs,          \* the configurations a stream may be built with
    StampCapacity,    \* entries of recovery_timestamps_: 100 in the code
    MaxTime           \* bound on the clock

VARIABLES
    config,                 \* config_, fixed when the stream is built
    client,                 \* the audio client
    started_,               \* the stream's flag the backend keeps
    recovery_gate_,         \* the thread inside the gate
    recovery_timestamps_,   \* which recoveries the array still holds
    starts,                 \* the time of every recovery started (history)
    now,                    \* QpcNow
    pc,                     \* where each thread is
    inject,                 \* inject_buffer_too_large of each call
    outcome                 \* AcquireOutcome of each call

clientVars == <<client, started_>>
breakerVars == <<recovery_timestamps_, starts>>
callVars == <<pc, inject, outcome>>
vars == <<config, client, started_, recovery_gate_, recovery_timestamps_, starts, now, pc, inject, outcome>>

Config == [enabled: BOOLEAN, adaptive_retry: BOOLEAN, reset_restart_fallback: BOOLEAN,
           maximum_attempts_per_failure: Nat, maximum_recoveries_per_window: Nat,
           recovery_window_ticks: Nat, recovery_cooldown_ticks: Nat,
           fault_inject_after_successes: Nat, fault_inject_zero_availability: BOOLEAN]

ASSUME BufferRecoveryAssumption ==
    /\ NoThread \notin Threads
    /\ Period \in Nat \ {0}
    /\ Configs \subseteq Config
    /\ StampCapacity \in Nat
    /\ MaxTime \in Nat

------------------------------------------------------------------------------
Smaller(a, b) == IF a < b THEN a ELSE b

(* hr and frames are what the caller gets: frames is 0 unless hr is Ok, as *)
(* buffer is null.  retry_frames is the size of the next retry, 0 when no  *)
(* room is known.  flags holds the booleans that are true.                 *)
Flags == {"recovery_started", "reset_succeeded", "recovery_succeeded", "recovery_failed",
          "circuit_breaker_open"}

Outcome == [hr: Hr, frames: 0..Period, get_buffer_calls: 0..3, retry_frames: 0..Period,
            flags: SUBSET Flags]

BlankOutcome == [hr |-> "Ok", frames |-> 0, get_buffer_calls |-> 0, retry_frames |-> 0, flags |-> {}]

RecoverySteps == {"stop", "reset", "start", "refresh", "retry"}
AcquireSteps == {"initial", "padding", "adaptive", "fallback", "check", "done"} \cup RecoverySteps
Inside(t) == pc[t] \in {"check"} \cup RecoverySteps

(* Mutant: the padding is not compared with the capacity.                  *)
RetryFramesUnchecked(report) ==
    IF report.hr = "Ok" THEN Smaller(Period, Capacity - report.padding) ELSE 0

(* The frames to retry with, 0 unless the padding is consistent.           *)
RetryFrames(report) ==
    IF report.hr = "Ok" /\ report.padding <= Capacity
    THEN Smaller(Period, Capacity - report.padding) ELSE 0

Init ==
    /\ config \in Configs
    /\ started_ \in BOOLEAN
    /\ client = [FreshClient EXCEPT !.running = started_]
    /\ recovery_gate_ = NoThread
    /\ recovery_timestamps_ = {}
    /\ starts = <<>>
    /\ now = 0
    /\ pc = [t \in Threads |-> "idle"]
    /\ inject = [t \in Threads |-> FALSE]
    /\ outcome = [t \in Threads |-> BlankOutcome]

Goto(t, step) == pc' = [pc EXCEPT ![t] = step]

(* What a step makes of the outcome: GetBuffer answered hr to a request    *)
(* for frames; the next retry is sized; or only flags are raised, where hr *)
(* is the original TOO_LARGE already.                                      *)
Report(t, hr, frames, calls, retry_frames, flags) ==
    outcome' = [outcome EXCEPT ![t] =
        [hr |-> hr, frames |-> frames, get_buffer_calls |-> @.get_buffer_calls + calls,
         retry_frames |-> retry_frames, flags |-> @.flags \cup flags]]

Answered(t, hr, frames, calls, flags) ==
    Report(t, hr, IF hr = "Ok" THEN frames ELSE 0, calls, outcome[t].retry_frames, flags)

Sized(t, frames, flags) == Report(t, outcome[t].hr, outcome[t].frames, 0, frames, flags)

Marked(t, flags) == Report(t, outcome[t].hr, outcome[t].frames, 0, outcome[t].retry_frames, flags)

(* Acquire is called, with or without an injected TOO_LARGE.               *)
Call(t, injected) ==
    /\ pc[t] = "idle"
    /\ Goto(t, "initial")
    /\ inject' = [inject EXCEPT ![t] = injected]
    /\ UNCHANGED <<config, client, started_, recovery_gate_, recovery_timestamps_, starts, now, outcome>>

(* Where a call goes on after GetBuffer answered hr to a full period.      *)
AfterInitial(hr) ==
    IF hr # "TooLarge" \/ ~config.enabled THEN "done"
    ELSE IF config.adaptive_retry THEN "padding" ELSE "fallback"

(* Mutant: the failure is injected after the client was called.            *)
InitialGetBufferOverridden(t) ==
    /\ pc[t] = "initial"
    /\ \E a \in GetBufferAnswers(client, Period) :
        LET hr == IF inject[t] THEN "TooLarge" ELSE a.hr IN
        /\ client' = a.client
        /\ Answered(t, hr, Period, 1, {})
        /\ Goto(t, AfterInitial(hr))
    /\ UNCHANGED <<config, started_, recovery_gate_, recovery_timestamps_, starts, now, inject>>

InitialGetBuffer(t) ==
    /\ pc[t] = "initial"
    /\ \E a \in IF inject[t] THEN {Answer("TooLarge", client)} ELSE GetBufferAnswers(client, Period) :
        /\ client' = a.client
        /\ Answered(t, a.hr, Period, IF inject[t] THEN 0 ELSE 1, {})
        /\ Goto(t, AfterInitial(a.hr))
    /\ UNCHANGED <<config, started_, recovery_gate_, recovery_timestamps_, starts, now, inject>>

(* Mutant: a full buffer is polled until there is room.                    *)
ReadPaddingAgain(t) ==
    /\ pc[t] = "padding"
    /\ \E report \in PaddingAnswers(client) :
        /\ Sized(t, RetryFrames(report), {})
        /\ Goto(t, IF RetryFrames(report) > 0 THEN "adaptive" ELSE "padding")
    /\ UNCHANGED <<config, client, started_, recovery_gate_, recovery_timestamps_, starts, now, inject>>

(* An injected zero availability is a padding equal to the capacity.       *)
ReadPadding(t) ==
    /\ pc[t] = "padding"
    /\ \E report \in IF inject[t] /\ config.fault_inject_zero_availability
                     THEN {[hr |-> "Ok", padding |-> Capacity]} ELSE PaddingAnswers(client) :
        /\ Sized(t, RetryFrames(report), {})
        /\ Goto(t, IF RetryFrames(report) > 0 THEN "adaptive" ELSE "fallback")
    /\ UNCHANGED <<config, client, started_, recovery_gate_, recovery_timestamps_, starts, now, inject>>

(* Mutant: the retry is reported with the frames of the first request.     *)
AdaptiveRetryOfPeriod(t) ==
    /\ pc[t] = "adaptive"
    /\ \E a \in GetBufferAnswers(client, outcome[t].retry_frames) :
        /\ client' = a.client
        /\ Answered(t, a.hr, Period, 1, {})
        /\ Goto(t, IF a.hr = "TooLarge" THEN "fallback" ELSE "done")
    /\ UNCHANGED <<config, started_, recovery_gate_, recovery_timestamps_, starts, now, inject>>

AdaptiveRetry(t) ==
    /\ pc[t] = "adaptive"
    /\ \E a \in GetBufferAnswers(client, outcome[t].retry_frames) :
        /\ client' = a.client
        /\ Answered(t, a.hr, outcome[t].retry_frames, 1, {})
        /\ Goto(t, IF a.hr = "TooLarge" THEN "fallback" ELSE "done")
    /\ UNCHANGED <<config, started_, recovery_gate_, recovery_timestamps_, starts, now, inject>>

(* A fallback that is off leaves the outcome as it is; a pass that may not *)
(* attempt one, or finds another inside the gate, reports the breaker.     *)
FallbackOff(t) ==
    /\ pc[t] = "fallback"
    /\ ~config.reset_restart_fallback
    /\ Goto(t, "done")
    /\ UNCHANGED <<config, client, started_, recovery_gate_, recovery_timestamps_, starts, now, inject, outcome>>

FallbackRefused(t) ==
    /\ pc[t] = "fallback"
    /\ config.reset_restart_fallback
    /\ config.maximum_attempts_per_failure = 0 \/ recovery_gate_ # NoThread
    /\ Marked(t, {"circuit_breaker_open"})
    /\ Goto(t, "done")
    /\ UNCHANGED <<config, client, started_, recovery_gate_, recovery_timestamps_, starts, now, inject>>

EnterGate(t) ==
    /\ pc[t] = "fallback"
    /\ config.reset_restart_fallback
    /\ config.maximum_attempts_per_failure # 0
    /\ recovery_gate_ = NoThread
    /\ recovery_gate_' = t
    /\ Goto(t, "check")
    /\ UNCHANGED <<config, client, started_, recovery_timestamps_, starts, now, inject, outcome>>

(* The breaker reads the clock once, forgets the timestamps that left the  *)
(* window, and refuses or adds its own.  recovery_timestamps_ stands for   *)
(* the array by the numbers of the recoveries it still holds, in order.    *)
OutsideWindowStrictly(timestamp) ==    \* mutant: > for >=
    now >= timestamp /\ now - timestamp > config.recovery_window_ticks

OutsideWindow(timestamp) ==
    now >= timestamp /\ now - timestamp >= config.recovery_window_ticks

Retained == {i \in recovery_timestamps_ : ~OutsideWindow(starts[i])}

RecoveryLimit == Smaller(config.maximum_recoveries_per_window, StampCapacity)

CoolingSinceOldest ==   \* mutant: the first entry of the array for the last
    \E i \in Retained :
        /\ \A j \in Retained : j >= i
        /\ now >= starts[i] /\ now - starts[i] < config.recovery_cooldown_ticks

(* The newest of the retained timestamps is younger than the cooldown.     *)
Cooling ==
    \E i \in Retained :
        /\ \A j \in Retained : j <= i
        /\ now >= starts[i] /\ now - starts[i] < config.recovery_cooldown_ticks

BreakerOpenTooLate == Cardinality(Retained) > RecoveryLimit \/ Cooling   \* mutant: > for >=

BreakerOpen == Cardinality(Retained) >= RecoveryLimit \/ Cooling

CheckRefuses(t) ==
    /\ pc[t] = "check"
    /\ BreakerOpen
    /\ recovery_timestamps_' = Retained
    /\ Marked(t, {"circuit_breaker_open"})
    /\ Goto(t, "done")
    /\ UNCHANGED <<config, client, started_, recovery_gate_, starts, now, inject>>

(* Mutant: the array is started over.                                      *)
CheckStartsAfresh(t) ==
    /\ pc[t] = "check"
    /\ ~BreakerOpen
    /\ starts' = Append(starts, now)
    /\ recovery_timestamps_' = {Len(starts) + 1}
    /\ Marked(t, {"recovery_started"})
    /\ Goto(t, "stop")
    /\ UNCHANGED <<config, client, started_, recovery_gate_, now, inject>>

CheckStarts(t) ==
    /\ pc[t] = "check"
    /\ ~BreakerOpen
    /\ starts' = Append(starts, now)
    /\ recovery_timestamps_' = Retained \cup {Len(starts) + 1}
    /\ Marked(t, {"recovery_started"})
    /\ Goto(t, "stop")
    /\ UNCHANGED <<config, client, started_, recovery_gate_, now, inject>>

(* A failed stage ends the recovery.                                       *)
FailedUnless(hr) == IF hr = "Ok" THEN {} ELSE {"recovery_failed"}

(* Mutant: Reset without Stop.                                             *)
StopSkipped(t) ==
    /\ pc[t] = "stop"
    /\ Goto(t, "reset")
    /\ UNCHANGED <<config, client, started_, recovery_gate_, recovery_timestamps_, starts, now, inject, outcome>>

StopClient(t) ==
    /\ pc[t] = "stop"
    /\ \E a \in StopAnswers(client) :
        /\ client' = a.client
        /\ started_' = IF a.hr = "Ok" THEN FALSE ELSE started_
        /\ Marked(t, FailedUnless(a.hr))
        /\ Goto(t, IF a.hr = "Ok" THEN "reset" ELSE "done")
    /\ UNCHANGED <<config, recovery_gate_, recovery_timestamps_, starts, now, inject>>

ResetClient(t) ==
    /\ pc[t] = "reset"
    /\ \E a \in ResetAnswers(client) :
        /\ client' = a.client
        /\ started_' = IF a.hr = "Ok" THEN FALSE ELSE started_
        /\ Marked(t, IF a.hr = "Ok" THEN {"reset_succeeded"} ELSE {"recovery_failed"})
        /\ Goto(t, IF a.hr = "Ok" THEN "start" ELSE "done")
    /\ UNCHANGED <<config, recovery_gate_, recovery_timestamps_, starts, now, inject>>

StartedIfOk(previously_started, hr) == hr = "Ok"    \* mutant: forgets a client that runs already

StartedStateAfterStartResult(previously_started, hr) == hr = "Ok" \/ previously_started

StartClient(t) ==
    /\ pc[t] = "start"
    /\ \E a \in StartAnswers(client) :
        /\ client' = a.client
        /\ started_' = StartedStateAfterStartResult(started_, a.hr)
        /\ Marked(t, FailedUnless(a.hr))
        /\ Goto(t, IF a.hr = "Ok" THEN "refresh" ELSE "done")
    /\ UNCHANGED <<config, recovery_gate_, recovery_timestamps_, starts, now, inject>>

(* Mutant: no room after the reset, and no failure reported.               *)
RefreshPaddingSilently(t) ==
    /\ pc[t] = "refresh"
    /\ \E report \in PaddingAnswers(client) :
        /\ Sized(t, RetryFrames(report), {})
        /\ Goto(t, IF RetryFrames(report) > 0 THEN "retry" ELSE "done")
    /\ UNCHANGED <<config, client, started_, recovery_gate_, recovery_timestamps_, starts, now, inject>>

RefreshPadding(t) ==
    /\ pc[t] = "refresh"
    /\ \E report \in PaddingAnswers(client) :
        /\ Sized(t, RetryFrames(report), IF RetryFrames(report) > 0 THEN {} ELSE {"recovery_failed"})
        /\ Goto(t, IF RetryFrames(report) > 0 THEN "retry" ELSE "done")
    /\ UNCHANGED <<config, client, started_, recovery_gate_, recovery_timestamps_, starts, now, inject>>

FinalGetBuffer(t) ==
    /\ pc[t] = "retry"
    /\ \E a \in GetBufferAnswers(client, outcome[t].retry_frames) :
        /\ client' = a.client
        /\ Answered(t, a.hr, outcome[t].retry_frames, 1,
                    IF a.hr = "Ok" THEN {"recovery_succeeded"} ELSE {"recovery_failed"})
        /\ Goto(t, "done")
    /\ UNCHANGED <<config, started_, recovery_gate_, recovery_timestamps_, starts, now, inject>>

(* Mutant: the gate is not given back.                                     *)
ReturnKeepingGate(t) ==
    /\ pc[t] = "done"
    /\ Goto(t, "returned")
    /\ UNCHANGED <<config, client, started_, recovery_gate_, recovery_timestamps_, starts, now, inject, outcome>>

(* The gate's guard is destroyed as Acquire returns.                       *)
Return(t) ==
    /\ pc[t] = "done"
    /\ Goto(t, "returned")
    /\ recovery_gate_' = IF recovery_gate_ = t THEN NoThread ELSE recovery_gate_
    /\ UNCHANGED <<config, client, started_, recovery_timestamps_, starts, now, inject, outcome>>

AcquireStep(t) ==
    \/ InitialGetBuffer(t) \/ ReadPadding(t) \/ AdaptiveRetry(t)
    \/ FallbackOff(t) \/ FallbackRefused(t) \/ EnterGate(t)
    \/ CheckRefuses(t) \/ CheckStarts(t)
    \/ StopClient(t) \/ ResetClient(t) \/ StartClient(t)
    \/ RefreshPadding(t) \/ FinalGetBuffer(t) \/ Return(t)

------------------------------------------------------------------------------
(* The caller: it takes the outcome and, when it holds a buffer, releases  *)
(* the frames it was given, before it may call again.                      *)
TakeOutcome(t) ==
    /\ pc[t] = "returned"
    /\ Goto(t, "idle")
    /\ outcome' = [outcome EXCEPT ![t] = BlankOutcome]
    /\ inject' = [inject EXCEPT ![t] = FALSE]

UseBuffer(t) ==
    /\ TakeOutcome(t)
    /\ IF outcome[t].hr = "Ok"
       THEN \E a \in ReleaseBufferAnswers(client, outcome[t].frames) : client' = a.client
       ELSE client' = client
    /\ UNCHANGED <<config, started_, recovery_gate_, breakerVars, now>>

(* The engine and the clock.                                               *)
Engine ==
    /\ Plays(client, client') \/ Loses(client, client')
    /\ UNCHANGED <<config, started_, recovery_gate_, breakerVars, now, callVars>>

Tick ==
    /\ now < MaxTime
    /\ now' = now + 1
    /\ UNCHANGED <<config, clientVars, recovery_gate_, breakerVars, callVars>>

CallAcquire(t) == \E injected \in {FALSE, config.enabled} : Call(t, injected)

Next ==
    \/ \E t \in Threads : CallAcquire(t) \/ AcquireStep(t) \/ UseBuffer(t)
    \/ Engine
    \/ Tick

Spec == Init /\ [][Next]_vars

------------------------------------------------------------------------------
(* Every variable has its type, and what is queued or handed out fits the  *)
(* endpoint buffer.                                                        *)
TypeOK ==
    /\ config \in Configs
    /\ client \in Client
    /\ client.padding + client.acquired <= Capacity
    /\ started_ \in BOOLEAN
    /\ recovery_gate_ \in Threads \cup {NoThread}
    /\ starts \in Seq(0..MaxTime)
    /\ recovery_timestamps_ \subseteq 1..Len(starts)
    /\ now \in 0..MaxTime
    /\ pc \in [Threads -> AcquireSteps \cup {"idle", "returned"}]
    /\ inject \in [Threads -> BOOLEAN]
    /\ outcome \in [Threads -> Outcome]

(* The gate is held by exactly the thread that is deciding on or running a *)
(* recovery: two recoveries never run together, and a gate no longer in    *)
(* use is never left set, which would open the breaker for good.           *)
GateDiscipline ==
    \A t \in Threads :
        /\ Inside(t) => recovery_gate_ = t
        /\ recovery_gate_ = t => Inside(t) \/ pc[t] = "done"

(* A buffer the client has handed out is owed by exactly one caller, whose *)
(* outcome says Ok and names all of its frames: no failing path of Acquire *)
(* keeps a buffer, which would make every later pass fail.                 *)
Owes(t) == pc[t] \in {"done", "returned"} /\ outcome[t].hr = "Ok"
NoBufferLeak ==
    /\ client.valid /\ client.acquired # 0 => \E t \in Threads : Owes(t) /\ outcome[t].frames = client.acquired
    /\ \A t \in Threads : Owes(t) => client.acquired = outcome[t].frames /\ client.acquired # 0

(* What a finished call reports is what happened to it: a recovery that    *)
(* began ended in exactly one of success and failure; success means the    *)
(* client was reset and a buffer came of it; a refusal by the breaker and  *)
(* a failed recovery both keep the original TOO_LARGE.                     *)
OutcomeTruthful ==
    \A t \in Threads : pc[t] = "returned" =>
        LET flags == outcome[t].flags IN
        /\ "recovery_started" \in flags <=> flags \cap {"recovery_succeeded", "recovery_failed"} # {}
        /\ ~({"recovery_succeeded", "recovery_failed"} \subseteq flags)
        /\ "recovery_succeeded" \in flags => "reset_succeeded" \in flags /\ outcome[t].hr = "Ok"
        /\ "circuit_breaker_open" \in flags => flags = {"circuit_breaker_open"} /\ outcome[t].hr = "TooLarge"
        /\ outcome[t].hr = "Ok" <=> outcome[t].frames # 0
        /\ outcome[t].get_buffer_calls = 3 => "recovery_started" \in flags

(* The stream's started flag is the client's state, whichever stage of a   *)
(* recovery failed.                                                        *)
StartedTruthful == started_ = client.running

(* In any window of recovery_window_ticks at most RecoveryLimit recoveries *)
(* start, over the whole life of the stream.                               *)
WindowRespected ==
    \A i, j \in DOMAIN starts :
        j - i >= RecoveryLimit => starts[j] - starts[i] >= config.recovery_window_ticks

(* Two recoveries are at least a cooldown apart: what RECOVERY_PROTOTYPE   *)
(* says of the breaker, "applies the configured cooldown".                 *)
CooldownRespected ==
    \A i, j \in DOMAIN starts :
        i < j => starts[j] - starts[i] >= config.recovery_cooldown_ticks

(* ... and what the code keeps of it: the cooldown, cut off at the window. *)
SpacingRespected ==
    \A i, j \in DOMAIN starts :
        i < j => starts[j] - starts[i] >= Smaller(config.recovery_cooldown_ticks, config.recovery_window_ticks)

(* The breaker, whose promise the array of timestamps keeps.               *)
Breaker == INSTANCE CircuitBreaker
    WITH limits <- [max |-> RecoveryLimit, window |-> config.recovery_window_ticks,
                    cooldown |-> config.recovery_cooldown_ticks]
BreakerSpec == Breaker!Spec

(* The breaker refuses no recovery its limits admit.                       *)
RefusesOnlyWhenDue == [][\A t \in Threads : CheckRefuses(t) => ~Breaker!Admits]_vars

(* On a device that never misbehaves, a single caller is refused a buffer  *)
(* only where the configuration or the breaker says so: Stop, Reset, Start *)
(* and the retry of a full stream give one.                                *)
HealthyPassSucceeds ==
    \A t \in Threads : pc[t] = "returned" /\ outcome[t].hr # "Ok" =>
        \/ "circuit_breaker_open" \in outcome[t].flags
        \/ ~config.enabled
        \/ ~config.reset_restart_fallback
==============================================================================
