----------------------------- MODULE SpatialStream -----------------------------
(***************************************************************************)
(* SpatialRenderStream as the game's threads use it: Start, Stop, Reset,   *)
(* BeginUpdatingAudioObjects and EndUpdatingAudioObjects, serialised by    *)
(* lock_, with BeginUpdatingAudioObjects running the Acquire of module     *)
(* BufferRecovery under the lock, one client call at a time.               *)
(*                                                                         *)
(* lock_ is a recursive critical section: a client call that calls back    *)
(* into the stream on the same thread gets in, and recovery_in_progress_   *)
(* must turn it away.  The counters and activity stamps the watchdog and   *)
(* the log read are left out: nothing here depends on them.                *)
(***************************************************************************)
EXTENDS BufferRecovery

CONSTANT MaxCycles      \* bound on the count of successful passes

VARIABLES
    lock_,                          \* the owner of the critical section
    recovery_in_progress_,
    update_frames_,                 \* 0 stands for ~0u: no pass is open
    successful_get_buffer_cycles_,
    fault_injected_,                \* the coordinator's latch
    g_fault_injection_claimed,      \* the latch of the process
    want,                           \* the call each game thread is making
    commanded,                      \* the game's last successful command, and the
                                    \* recoveries started before it (history)
    injections                      \* failures injected in the process (history)

latchVars == <<fault_injected_, g_fault_injection_claimed, injections>>
streamVars == <<lock_, recovery_in_progress_, update_frames_, successful_get_buffer_cycles_,
                fault_injected_, g_fault_injection_claimed, want, commanded, injections>>
coordinatorVars == <<config, recovery_gate_, recovery_timestamps_, starts, now, pc, inject, outcome>>
allVars == <<config, client, started_, recovery_gate_, recovery_timestamps_, starts, now, pc, inject,
             outcome, lock_, recovery_in_progress_, update_frames_, successful_get_buffer_cycles_,
             fault_injected_, g_fault_injection_claimed, want, commanded, injections>>

Calls == {"Start", "Stop", "Reset", "Begin", "End"}

ASSUME SpatialStreamAssumption == MaxCycles \in Nat

------------------------------------------------------------------------------
(* A stream as ActivateOutput leaves it: the client is initialised and     *)
(* stopped.                                                                *)
StreamInit ==
    /\ Init
    /\ ~started_
    /\ lock_ = NoThread
    /\ recovery_in_progress_ = FALSE
    /\ update_frames_ = 0
    /\ successful_get_buffer_cycles_ = 0
    /\ fault_injected_ = FALSE
    /\ g_fault_injection_claimed = FALSE
    /\ want = [t \in Threads |-> "none"]
    /\ commanded = [call |-> "none", recoveries |-> 0]
    /\ injections = 0

(* A game thread calls a method of the stream and comes to the lock.       *)
Request(t, call) ==
    /\ want[t] = "none"
    /\ want' = [want EXCEPT ![t] = call]
    /\ UNCHANGED <<coordinatorVars, clientVars, lock_, recovery_in_progress_, update_frames_,
                   successful_get_buffer_cycles_, latchVars, commanded>>

(* It enters the lock from outside, or from a client call of its own       *)
(* Acquire, where its outer call goes on afterwards.                       *)
Outer(t, call) == want[t] = call /\ lock_ = NoThread
Nested(t) == lock_ = t /\ pc[t] \in AcquireSteps \ {"check", "done"}
Enters(t, call) ==
    /\ Outer(t, call) \/ Nested(t)
    /\ want' = IF lock_ = t THEN want ELSE [want EXCEPT ![t] = "none"]

(* Mutant: a call nested in a recovery goes through.                       *)
ControlDuringRecovery(t, call, answers) ==
    /\ Enters(t, call)
    /\ \E a \in answers :
        /\ client' = a.client
        /\ started_' = IF call = "Start" THEN StartedStateAfterStartResult(started_, a.hr)
                       ELSE IF a.hr = "Ok" THEN FALSE ELSE started_
        /\ commanded' = IF a.hr = "Ok" THEN [call |-> call, recoveries |-> Len(starts)]
                         ELSE commanded
    /\ UNCHANGED <<coordinatorVars, lock_, recovery_in_progress_, update_frames_,
                   successful_get_buffer_cycles_, latchVars>>

(* The methods that hold the lock over at most one client call.            *)
Control(t, call, answers) ==
    /\ Enters(t, call)
    /\ IF recovery_in_progress_
       THEN UNCHANGED <<client, started_, commanded>>   \* BUFFER_OPERATION_PENDING
       ELSE \E a \in answers :
            /\ client' = a.client
            /\ started_' = IF call = "Start" THEN StartedStateAfterStartResult(started_, a.hr)
                           ELSE IF a.hr = "Ok" THEN FALSE ELSE started_
            /\ commanded' = IF a.hr = "Ok" THEN [call |-> call, recoveries |-> Len(starts)]
                             ELSE commanded
    /\ UNCHANGED <<coordinatorVars, lock_, recovery_in_progress_, update_frames_,
                   successful_get_buffer_cycles_, latchVars>>

Start(t) == Control(t, "Start", StartAnswers(client))
Stop(t) == Control(t, "Stop", StopAnswers(client))
Reset(t) == Control(t, "Reset", ResetAnswers(client))

(* EndUpdatingAudioObjects: out of order without an open pass.             *)
EndOutOfOrder(t) ==
    /\ Enters(t, "End")
    /\ update_frames_ = 0
    /\ UNCHANGED <<coordinatorVars, clientVars, lock_, recovery_in_progress_, update_frames_,
                   successful_get_buffer_cycles_, latchVars, commanded>>

EndUpdatingAudioObjects(t) ==
    /\ Enters(t, "End")
    /\ update_frames_ # 0
    /\ \E a \in ReleaseBufferAnswers(client, update_frames_) : client' = a.client
    /\ update_frames_' = 0
    /\ UNCHANGED <<coordinatorVars, started_, lock_, recovery_in_progress_,
                   successful_get_buffer_cycles_, latchVars, commanded>>

(* BeginUpdatingAudioObjects: out of order on an open pass, pending when   *)
(* nested in a recovery.                                                   *)
BeginRefused(t) ==
    /\ Enters(t, "Begin")
    /\ update_frames_ # 0 \/ recovery_in_progress_
    /\ UNCHANGED <<coordinatorVars, clientVars, lock_, recovery_in_progress_, update_frames_,
                   successful_get_buffer_cycles_, latchVars, commanded>>

(* The coordinator injects once per stream; the process lets one stream.   *)
ShouldInject ==
    /\ config.enabled
    /\ config.fault_inject_after_successes # 0
    /\ successful_get_buffer_cycles_ >= config.fault_inject_after_successes
    /\ ~fault_injected_

(* Mutants: recovery_in_progress_ is not set; the process is not asked     *)
(* whether another stream has injected.                                    *)
BeginUnmarked(t) ==
    /\ want[t] = "Begin"
    /\ lock_ = NoThread
    /\ update_frames_ = 0
    /\ Call(t, FALSE)
    /\ lock_' = t
    /\ UNCHANGED <<recovery_in_progress_, update_frames_, successful_get_buffer_cycles_, latchVars,
                   want, commanded>>

BeginUnclaimed(t) ==
    /\ want[t] = "Begin"
    /\ lock_ = NoThread
    /\ update_frames_ = 0
    /\ ~recovery_in_progress_
    /\ Call(t, ShouldInject)
    /\ injections' = IF ShouldInject THEN injections + 1 ELSE injections
    /\ fault_injected_' = (fault_injected_ \/ ShouldInject)
    /\ lock_' = t
    /\ recovery_in_progress_' = TRUE
    /\ UNCHANGED <<g_fault_injection_claimed, update_frames_, successful_get_buffer_cycles_, want,
                   commanded>>

BeginUpdatingAudioObjects(t) ==
    /\ want[t] = "Begin"
    /\ lock_ = NoThread
    /\ update_frames_ = 0
    /\ ~recovery_in_progress_
    /\ LET injected == ShouldInject /\ ~g_fault_injection_claimed IN
       /\ Call(t, injected)
       /\ injections' = IF injected THEN injections + 1 ELSE injections
    /\ fault_injected_' = (fault_injected_ \/ ShouldInject)
    /\ g_fault_injection_claimed' = (g_fault_injection_claimed \/ ShouldInject)
    /\ lock_' = t
    /\ recovery_in_progress_' = TRUE
    /\ UNCHANGED <<update_frames_, successful_get_buffer_cycles_, want, commanded>>

Acquire(t) ==
    /\ AcquireStep(t)
    /\ UNCHANGED streamVars

(* The outcome opens a pass, or leaves none open.                          *)
OpensPass(o) == o.hr = "Ok" /\ o.frames # 0 /\ o.frames <= Period

FinishBegin(t) ==
    /\ TakeOutcome(t)
    /\ update_frames_' = IF OpensPass(outcome[t]) THEN outcome[t].frames ELSE 0
    /\ successful_get_buffer_cycles_' =
           IF OpensPass(outcome[t]) THEN Smaller(successful_get_buffer_cycles_ + 1, MaxCycles)
           ELSE successful_get_buffer_cycles_
    /\ recovery_in_progress_' = FALSE
    /\ lock_' = NoThread
    /\ want' = [want EXCEPT ![t] = "none"]
    /\ UNCHANGED <<config, clientVars, recovery_gate_, breakerVars, now, latchVars, commanded>>

(* Another stream of the process takes its turn at injecting.              *)
OtherStreamInjects ==
    /\ config.fault_inject_after_successes # 0
    /\ ~g_fault_injection_claimed
    /\ g_fault_injection_claimed' = TRUE
    /\ injections' = injections + 1
    /\ UNCHANGED <<coordinatorVars, clientVars, lock_, recovery_in_progress_, update_frames_,
                   successful_get_buffer_cycles_, fault_injected_, want, commanded>>

Surroundings ==
    /\ Engine \/ Tick
    /\ UNCHANGED streamVars

GameThread(t) ==
    \/ \E call \in Calls : Request(t, call)
    \/ Start(t) \/ Stop(t) \/ Reset(t)
    \/ BeginRefused(t) \/ BeginUpdatingAudioObjects(t) \/ Acquire(t) \/ FinishBegin(t)
    \/ EndOutOfOrder(t) \/ EndUpdatingAudioObjects(t)

StreamNext ==
    \/ \E t \in Threads : GameThread(t)
    \/ Surroundings
    \/ OtherStreamInjects

StreamSpec == StreamInit /\ [][StreamNext]_allVars

(* A thread inside a method goes on to its end.                            *)
StreamFairSpec ==
    StreamSpec /\ \A t \in Threads : WF_allVars(Acquire(t)) /\ WF_allVars(FinishBegin(t))

------------------------------------------------------------------------------
StreamTypeOK ==
    /\ TypeOK
    /\ lock_ \in Threads \cup {NoThread}
    /\ recovery_in_progress_ \in BOOLEAN
    /\ update_frames_ \in 0..Period
    /\ successful_get_buffer_cycles_ \in 0..MaxCycles
    /\ fault_injected_ \in BOOLEAN
    /\ g_fault_injection_claimed \in BOOLEAN
    /\ want \in [Threads -> Calls \cup {"none"}]
    /\ commanded \in [call: {"none", "Start", "Stop", "Reset"}, recoveries: 0..Len(starts)]
    /\ injections \in Nat

(* A buffer the client has handed out is the open pass, or belongs to the  *)
(* Begin that is about to open one: ReleaseBuffer gets exactly the frames  *)
(* GetBuffer gave, whatever retry they came from and whatever Stop, Reset  *)
(* or nested call came in between.                                         *)
ReleaseMatchesAcquire ==
    client.valid =>
        IF \E t \in Threads : Owes(t) THEN update_frames_ = 0
        ELSE client.acquired = update_frames_

(* While a thread is between two steps of a recovery, nobody else stops,   *)
(* starts or resets the client, takes or gives back a buffer, or changes   *)
(* what the stream believes of them.                                       *)
RecoveryUndisturbed ==
    [][\A t \in Threads : pc[t] \in RecoverySteps /\ pc'[t] = pc[t] =>
        /\ client'.running = client.running
        /\ client'.acquired = client.acquired
        /\ client'.padding \in {client.padding, client.padding - 1}
        /\ UNCHANGED <<started_, update_frames_, recovery_gate_>>]_allVars

(* A failure is injected at most once in the process.                      *)
InjectedOnce == injections <= 1

(* A thread inside BeginUpdatingAudioObjects leaves the lock.              *)
LockReleased == \A t \in Threads : lock_ = t ~> lock_ = NoThread

(* A Stop of the game that met a recovery supersedes it: the client runs   *)
(* again after it only by a Start of the game or a recovery begun later.   *)
StopSupersedesRecovery ==
    commanded.call = "Stop" /\ client.running => Len(starts) > commanded.recoveries

(* After a Stop the game asked for, the client stays stopped until the     *)
(* game starts it: RECOVERY_PROTOTYPE says the explicit Stop runs and its  *)
(* result becomes authoritative.                                           *)
StopAuthoritative == commanded.call = "Stop" => ~client.running

===============================================================================
