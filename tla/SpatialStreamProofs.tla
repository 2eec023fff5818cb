-------------------------- MODULE SpatialStreamProofs --------------------------
(***************************************************************************)
(* Proofs about SpatialStream, for every set of game threads, every set of *)
(* configurations, every buffer and period, and every bound.  The calls of *)
(* Acquire inside BeginUpdatingAudioObjects keep the inductive invariant   *)
(* of BufferRecoveryProofs; the lock adds that one thread at a time makes  *)
(* one, on a stream with no open pass.                                     *)
(***************************************************************************)
EXTENDS SpatialStream, BufferRecoveryProofs

(* The variables the stream adds have their types.                         *)
StreamVarsOK ==
    /\ lock_ \in Threads \cup {NoThread}
    /\ recovery_in_progress_ \in BOOLEAN
    /\ update_frames_ \in 0..Period
    /\ successful_get_buffer_cycles_ \in 0..MaxCycles
    /\ fault_injected_ \in BOOLEAN
    /\ g_fault_injection_claimed \in BOOLEAN
    /\ want \in [Threads -> Calls \cup {"none"}]
    /\ commanded \in [call: {"none", "Start", "Stop", "Reset"}, recoveries: 0..Len(starts)]
    /\ injections \in Nat

(* The lock is held exactly by the thread inside BeginUpdatingAudioObjects, *)
(* which has marked the stream, and it finds no pass open.                 *)
LockInv ==
    /\ recovery_in_progress_ <=> lock_ # NoThread
    /\ \A t \in Threads : pc[t] # "idle" <=> lock_ = t
    /\ lock_ # NoThread => update_frames_ = 0

SInv == IInv /\ StreamVarsOK /\ LockInv

(* A failure was injected only where the process was claimed for it.       *)
InjectInv == injections = 0 \/ (injections = 1 /\ g_fault_injection_claimed)

(* The buffer a Begin is about to open the pass with is the client's; and  *)
(* without one, what the client has handed out is the open pass.           *)
PassInv ==
    /\ \A t \in Threads : Owes(t) => client.acquired = outcome[t].frames
    /\ client.valid /\ (\A t \in Threads : ~Owes(t)) => client.acquired = update_frames_

(* A recovery under way began after the game's last command.               *)
SupersedeInv ==
    /\ StopSupersedesRecovery
    /\ \A t \in Threads : pc[t] \in RecoverySteps => Len(starts) > commanded.recoveries

(* On a device that never misbehaves, each step of Acquire finds the       *)
(* client as the step before left it.                                      *)
RefusalExplained(o) ==
    o.hr # "Ok" =>
        "circuit_breaker_open" \in o.flags \/ ~config.enabled \/ ~config.reset_restart_fallback

HealthyAt(step, o, c) ==
    /\ step \in {"adaptive", "retry"} => Fits(c, o.retry_frames)
    /\ step \in {"reset", "start"} => ~c.running
    /\ step \in {"start", "refresh"} => c.padding = 0
    /\ step \in {"done", "returned"} => RefusalExplained(o)

HealthyInv ==
    /\ client.valid
    /\ \A t \in Threads : HealthyAt(pc[t], outcome[t], client)

------------------------------------------------------------------------------
(* One thread is inside Begin at a time, and no pass is open meanwhile.    *)
LEMMA OneInside ==
    ASSUME SInv, NEW t \in Threads, pc[t] # "idle"
    PROVE  /\ lock_ = t /\ recovery_in_progress_ /\ update_frames_ = 0
           /\ \A u \in Threads \ {t} : pc[u] = "idle" /\ ~Owes(u)
<1>1. lock_ = t /\ lock_ # NoThread
  BY BufferRecoveryAssumption DEF SInv, LockInv
<1>2. \A u \in Threads \ {t} : pc[u] = "idle"
  BY <1>1 DEF SInv, LockInv
<1> QED
  BY <1>1, <1>2 DEF SInv, LockInv, Owes

LEMMA NoneInside ==
    ASSUME SInv, lock_ = NoThread
    PROVE  ~recovery_in_progress_ /\ \A t \in Threads : pc[t] = "idle" /\ ~Owes(t)
<1>1. ~recovery_in_progress_ /\ \A t \in Threads : pc[t] = "idle"
  BY BufferRecoveryAssumption DEF SInv, LockInv
<1> QED
  BY <1>1 DEF Owes

(* A call that gets into the lock while a Begin is inside is nested in it, *)
(* and one from outside finds nobody there.                                *)
LEMMA EntersFree ==
    ASSUME SInv, NEW t \in Threads, NEW call, Enters(t, call), ~recovery_in_progress_
    PROVE  lock_ = NoThread
  BY DEF SInv, LockInv

LEMMA EntersWant ==
    ASSUME SInv, NEW t \in Threads, NEW call, Enters(t, call)
    PROVE  want' \in [Threads -> Calls \cup {"none"}]
  BY DEF SInv, StreamVarsOK, Enters

(* What moves only the client and the flag keeps the calls.                *)
LEMMA ClientMoves ==
    ASSUME IInv, UNCHANGED coordinatorVars, GoodClient(client'), started_' \in BOOLEAN
    PROVE  IInv'
  BY DEF coordinatorVars, IInv, TypeOK, CallProgress, GoodClient

(* What Start, Stop and Reset do: they leave the coordinator and the open  *)
(* pass alone, keep the buffer handed out, move the flag with the client,  *)
(* and remember the command that succeeded; inside a recovery, nothing.    *)
LEMMA Commands ==
    ASSUME SInv, NEW t \in Threads, Start(t) \/ Stop(t) \/ Reset(t)
    PROVE  /\ UNCHANGED <<coordinatorVars, lock_, recovery_in_progress_, update_frames_,
                          successful_get_buffer_cycles_, latchVars>>
           /\ GoodClient(client') /\ started_' \in BOOLEAN
           /\ client'.acquired = client.acquired /\ client'.valid = client.valid
           /\ client'.padding \in {client.padding, 0}
           /\ lock_ # NoThread => UNCHANGED <<client, started_, commanded>>
           /\ StartedTruthful => StartedTruthful'
           /\ StopSupersedesRecovery => StopSupersedesRecovery'
           /\ commanded' \in [call: {"none", "Start", "Stop", "Reset"}, recoveries: 0..Len(starts)]
           /\ want' \in [Threads -> Calls \cup {"none"}]
<1>1. PICK call, answers :
          /\ call \in {"Start", "Stop", "Reset"} /\ Control(t, call, answers)
          /\ call = "Start" => answers = StartAnswers(client)
          /\ call = "Stop" => answers = StopAnswers(client)
          /\ call = "Reset" => answers = ResetAnswers(client)
  BY DEF Start, Stop, Reset
<1>2. /\ UNCHANGED <<coordinatorVars, lock_, recovery_in_progress_, update_frames_,
                     successful_get_buffer_cycles_, latchVars>>
      /\ want' \in [Threads -> Calls \cup {"none"}]
  BY <1>1, EntersWant DEF Control
<1>3. starts' = starts /\ GoodClient(client) /\ started_ \in BOOLEAN /\ Len(starts) \in Nat
      /\ commanded \in [call: {"none", "Start", "Stop", "Reset"}, recoveries: 0..Len(starts)]
      /\ client.padding \in 0..Capacity /\ client.running \in BOOLEAN
  BY <1>2 DEF coordinatorVars, SInv, IInv, TypeOK, StreamVarsOK, GoodClient, Client
<1>4. CASE recovery_in_progress_
  <2>1. UNCHANGED <<client, started_, commanded>>
    BY <1>1, <1>4 DEF Control
  <2> QED
    BY <1>2, <1>3, <2>1 DEF StartedTruthful, StopSupersedesRecovery
<1>5. CASE ~recovery_in_progress_
  <2>1. lock_ = NoThread
    BY <1>1, <1>5, EntersFree DEF Control
  <2>2. PICK a \in answers :
            /\ client' = a.client
            /\ started_' = IF call = "Start" THEN StartedStateAfterStartResult(started_, a.hr)
                           ELSE IF a.hr = "Ok" THEN FALSE ELSE started_
            /\ commanded' = IF a.hr = "Ok" THEN [call |-> call, recoveries |-> Len(starts)]
                             ELSE commanded
    BY <1>1, <1>5 DEF Control
  <2>3. /\ GoodAnswer(a)
        /\ a.client.acquired = client.acquired /\ a.client.valid = client.valid
        /\ a.hr # "Ok" => a.client = client
        /\ a.hr = "Ok" => a.client.running = (call = "Start")
    BY <1>1, <1>3, <2>2, StartGood, StopGood, ResetGood DEF GoodAnswer, GoodClient, Client
  <2>4. a.client.padding \in {client.padding, 0}
    <3>1. CASE call = "Start"
      BY <1>1, <1>3, <2>2, <3>1 DEF StartAnswers, OrFailure, Answer, GoodClient, Client
    <3>2. CASE call = "Stop"
      BY <1>1, <1>3, <2>2, <3>2 DEF StopAnswers, OrFailure, Answer, GoodClient, Client
    <3>3. CASE call = "Reset"
      BY <1>1, <1>3, <2>2, <3>3 DEF ResetAnswers, OrFailure, Answer, GoodClient, Client
    <3> QED
      BY <1>1, <3>1, <3>2, <3>3
  <2>5. started_' \in BOOLEAN /\ (StartedTruthful => StartedTruthful')
    BY <1>3, <2>2, <2>3 DEF StartedStateAfterStartResult, StartedTruthful
  <2>6. commanded' \in [call: {"none", "Start", "Stop", "Reset"}, recoveries: 0..Len(starts)]
    BY <1>1, <1>3, <2>2
  <2>7. StopSupersedesRecovery => StopSupersedesRecovery'
    <3>1. CASE a.hr = "Ok"
      <4>1. commanded'.call = call /\ client'.running = (call = "Start")
        BY <2>2, <2>3, <3>1
      <4> QED
        BY <1>1, <4>1 DEF StopSupersedesRecovery
    <3>2. CASE a.hr # "Ok"
      BY <1>3, <2>2, <2>3, <3>2 DEF StopSupersedesRecovery
    <3> QED
      BY <3>1, <3>2
  <2> QED
    BY <1>2, <2>1, <2>2, <2>3, <2>4, <2>5, <2>6, <2>7 DEF GoodAnswer
<1> QED
  BY <1>4, <1>5

(* What a step of Acquire leaves alone, and where it goes.                 *)
LEMMA AcquireMoves ==
    ASSUME IInv, NEW t \in Threads, AcquireStep(t)
    PROVE  /\ config' = config
           /\ pc[t] # "idle" /\ pc'[t] # "idle" /\ pc'[t] # pc[t]
           /\ \A u \in Threads \ {t} : pc'[u] = pc[u] /\ outcome'[u] = outcome[u]
           /\ Len(starts) \in Nat /\ Len(starts') \in Nat /\ Len(starts') >= Len(starts)
           /\ pc'[t] \in RecoverySteps => pc[t] \in RecoverySteps \/ Len(starts') > Len(starts)
<1>1. starts \in Seq(0..MaxTime) /\ now \in 0..MaxTime /\ pc \in [Threads -> AllSteps]
  BY DEF IInv, TypeOK, AllSteps
<1>2. PICK step : /\ Goto(t, step) /\ step # pc[t] /\ step # "idle" /\ pc[t] # "idle"
                  /\ step \in RecoverySteps => pc[t] \in RecoverySteps \/ CheckStarts(t)
  <2>1. CASE InitialGetBuffer(t)
    BY <2>1 DEF InitialGetBuffer, AfterInitial, RecoverySteps
  <2>2. CASE ReadPadding(t) \/ AdaptiveRetry(t)
    BY <2>2 DEF ReadPadding, AdaptiveRetry, RecoverySteps
  <2>3. CASE FallbackOff(t) \/ FallbackRefused(t) \/ EnterGate(t) \/ CheckRefuses(t)
    BY <2>3 DEF FallbackOff, FallbackRefused, EnterGate, CheckRefuses, RecoverySteps
  <2>4. CASE CheckStarts(t)
    BY <2>4 DEF CheckStarts, RecoverySteps
  <2>5. CASE StopClient(t) \/ ResetClient(t) \/ StartClient(t)
    BY <2>5 DEF StopClient, ResetClient, StartClient, RecoverySteps
  <2>6. CASE RefreshPadding(t) \/ FinalGetBuffer(t) \/ Return(t)
    BY <2>6 DEF RefreshPadding, FinalGetBuffer, Return, RecoverySteps
  <2> QED
    BY <2>1, <2>2, <2>3, <2>4, <2>5, <2>6 DEF AcquireStep
<1>3. pc'[t] = step /\ \A u \in Threads \ {t} : pc'[u] = pc[u]
  BY <1>1, <1>2 DEF Goto
<1>4. config' = config
  BY DEF AcquireStep, InitialGetBuffer, ReadPadding, AdaptiveRetry, FallbackOff, FallbackRefused,
         EnterGate, CheckRefuses, CheckStarts, StopClient, ResetClient, StartClient, RefreshPadding,
         FinalGetBuffer, Return
<1>5. \/ outcome' = outcome
      \/ \E hr, frames, calls, retry_frames, flags : Report(t, hr, frames, calls, retry_frames, flags)
  BY DEF AcquireStep, InitialGetBuffer, ReadPadding, AdaptiveRetry, FallbackOff, FallbackRefused,
         EnterGate, CheckRefuses, CheckStarts, StopClient, ResetClient, StartClient, RefreshPadding,
         FinalGetBuffer, Return, Answered, Marked, Sized
<1>6. \A u \in Threads \ {t} : outcome'[u] = outcome[u]
  BY <1>5, ReportSays
<1>7. starts' = starts \/ (CheckStarts(t) /\ starts' = Append(starts, now))
  BY DEF AcquireStep, InitialGetBuffer, ReadPadding, AdaptiveRetry, FallbackOff, FallbackRefused,
         EnterGate, CheckRefuses, CheckStarts, StopClient, ResetClient, StartClient, RefreshPadding,
         FinalGetBuffer, Return
<1>8. CheckStarts(t) => starts' = Append(starts, now)
  BY DEF CheckStarts
<1>9. /\ Len(starts) \in Nat
      /\ starts' = Append(starts, now) => Len(starts') = Len(starts) + 1
  BY <1>1
<1> QED
  BY <1>2, <1>3, <1>4, <1>6, <1>7, <1>8, <1>9

------------------------------------------------------------------------------
(* Each action keeps the types and the lock.                               *)
LEMMA QuietKeeps ==
    ASSUME SInv, UNCHANGED <<coordinatorVars, clientVars, lock_, recovery_in_progress_, update_frames_>>,
           StreamVarsOK'
    PROVE  SInv'
<1>1. IInv'
  BY ClientMoves DEF SInv, clientVars, IInv, TypeOK, GoodClient
<1> QED
  BY <1>1 DEF SInv, LockInv, coordinatorVars

LEMMA QuietActions ==
    ASSUME SInv, NEW t \in Threads,
           \/ \E call \in Calls : Request(t, call)
           \/ BeginRefused(t) \/ EndOutOfOrder(t)
    PROVE  /\ UNCHANGED <<coordinatorVars, clientVars, lock_, recovery_in_progress_, update_frames_, commanded>>
           /\ StreamVarsOK'
<1>1. UNCHANGED <<coordinatorVars, clientVars, lock_, recovery_in_progress_, update_frames_, commanded,
                  successful_get_buffer_cycles_, fault_injected_>>
  BY DEF Request, BeginRefused, EndOutOfOrder, latchVars
<1>2. want' \in [Threads -> Calls \cup {"none"}]
  BY EntersWant DEF Request, BeginRefused, EndOutOfOrder, SInv, StreamVarsOK
<1>3. g_fault_injection_claimed' \in BOOLEAN /\ injections' \in Nat
  BY DEF Request, BeginRefused, EndOutOfOrder, latchVars, SInv, StreamVarsOK
<1> QED
  BY <1>1, <1>2, <1>3 DEF SInv, StreamVarsOK, coordinatorVars

LEMMA CommandsKeep ==
    ASSUME SInv, NEW t \in Threads, Start(t) \/ Stop(t) \/ Reset(t)
    PROVE  SInv'
<1>1. /\ UNCHANGED <<coordinatorVars, lock_, recovery_in_progress_, update_frames_,
                     successful_get_buffer_cycles_, latchVars>>
      /\ GoodClient(client') /\ started_' \in BOOLEAN
      /\ commanded' \in [call: {"none", "Start", "Stop", "Reset"}, recoveries: 0..Len(starts)]
      /\ want' \in [Threads -> Calls \cup {"none"}]
  BY Commands
<1>2. IInv'
  BY <1>1, ClientMoves DEF SInv
<1>3. StreamVarsOK'
  BY <1>1 DEF SInv, StreamVarsOK, latchVars, coordinatorVars
<1> QED
  BY <1>1, <1>2, <1>3 DEF SInv, LockInv, coordinatorVars

(* An End with a pass open comes from outside, and its release is typed.   *)
LEMMA EndReleases ==
    ASSUME SInv, NEW t \in Threads, EndUpdatingAudioObjects(t)
    PROVE  /\ lock_ = NoThread /\ update_frames_ \in 1..Period /\ update_frames_' = 0
           /\ UNCHANGED <<coordinatorVars, started_, lock_, recovery_in_progress_,
                          successful_get_buffer_cycles_, latchVars, commanded>>
           /\ GoodClient(client')
           /\ client'.running = client.running /\ client'.valid = client.valid
           /\ client.valid /\ update_frames_ = client.acquired => client'.acquired = 0
           /\ want' \in [Threads -> Calls \cup {"none"}]
<1>1. lock_ = NoThread /\ update_frames_ \in 1..Period /\ GoodClient(client)
  BY BufferRecoveryAssumption
     DEF EndUpdatingAudioObjects, SInv, LockInv, StreamVarsOK, IInv, TypeOK, GoodClient
<1>2. PICK a \in ReleaseBufferAnswers(client, update_frames_) : client' = a.client
  BY DEF EndUpdatingAudioObjects
<1>3. /\ GoodAnswer(a)
      /\ a.client.running = client.running /\ a.client.valid = client.valid
      /\ client.valid /\ update_frames_ = client.acquired => a.client.acquired = 0
  BY <1>1, <1>2, ReleaseGood
<1>4. want' \in [Threads -> Calls \cup {"none"}]
  BY EntersWant DEF EndUpdatingAudioObjects
<1> QED
  BY <1>1, <1>2, <1>3, <1>4 DEF EndUpdatingAudioObjects, GoodAnswer

LEMMA EndKeeps ==
    ASSUME SInv, NEW t \in Threads, EndUpdatingAudioObjects(t)
    PROVE  SInv'
<1>1. /\ lock_ = NoThread /\ update_frames_' = 0
      /\ UNCHANGED <<coordinatorVars, started_, lock_, recovery_in_progress_,
                     successful_get_buffer_cycles_, latchVars, commanded>>
      /\ GoodClient(client')
      /\ want' \in [Threads -> Calls \cup {"none"}]
  BY EndReleases
<1>2. IInv'
  BY <1>1, ClientMoves DEF SInv, IInv, TypeOK
<1>3. StreamVarsOK'
  BY <1>1, BufferRecoveryAssumption DEF SInv, StreamVarsOK, latchVars, coordinatorVars
<1> QED
  BY <1>1, <1>2, <1>3 DEF SInv, LockInv, coordinatorVars

LEMMA BeginKeeps ==
    ASSUME SInv, NEW t \in Threads, BeginUpdatingAudioObjects(t)
    PROVE  SInv'
<1> DEFINE injected == ShouldInject /\ ~g_fault_injection_claimed
<1>1. /\ Call(t, injected) /\ injected \in BOOLEAN
      /\ lock_ = NoThread /\ lock_' = t /\ recovery_in_progress_' = TRUE
      /\ update_frames_ = 0 /\ update_frames_' = 0 /\ starts' = starts
  BY DEF BeginUpdatingAudioObjects, Call
<1>2. IInv'
  <2> HIDE DEF injected
  <2> QED
    BY <1>1, CallKeeps DEF SInv
<1>3. StreamVarsOK'
  <2>1. injections' \in Nat
    BY DEF BeginUpdatingAudioObjects, SInv, StreamVarsOK
  <2>2. fault_injected_' \in BOOLEAN /\ g_fault_injection_claimed' \in BOOLEAN
    BY DEF BeginUpdatingAudioObjects, ShouldInject, SInv, StreamVarsOK
  <2>3. UNCHANGED <<update_frames_, successful_get_buffer_cycles_, want, commanded, starts>>
    BY <1>1 DEF BeginUpdatingAudioObjects
  <2> QED
    BY <1>1, <2>1, <2>2, <2>3 DEF SInv, StreamVarsOK
<1>4. pc'[t] = "initial" /\ \A u \in Threads \ {t} : pc'[u] = pc[u] /\ pc[u] = "idle"
  BY <1>1, NoneInside DEF Call, Goto, SInv, IInv, TypeOK
<1>5. LockInv'
  BY <1>1, <1>4, BufferRecoveryAssumption DEF LockInv
<1> QED
  BY <1>2, <1>3, <1>5 DEF SInv

LEMMA AcquireKeeps ==
    ASSUME SInv, NEW t \in Threads, Acquire(t)
    PROVE  SInv'
<1>1. /\ AcquireStep(t)
      /\ UNCHANGED <<lock_, recovery_in_progress_, update_frames_, successful_get_buffer_cycles_,
                     fault_injected_, g_fault_injection_claimed, want, commanded, injections>>
  BY DEF Acquire, streamVars
<1>2. IInv'
  BY <1>1, NextIInv DEF SInv, Next
<1>3. /\ pc[t] # "idle" /\ pc'[t] # "idle"
      /\ \A u \in Threads \ {t} : pc'[u] = pc[u]
      /\ Len(starts) \in Nat /\ Len(starts') \in Nat /\ Len(starts') >= Len(starts)
  BY <1>1, AcquireMoves DEF SInv
<1>4. commanded' \in [call: {"none", "Start", "Stop", "Reset"}, recoveries: 0..Len(starts')]
  BY <1>1, <1>3 DEF SInv, StreamVarsOK
<1>5. StreamVarsOK'
  BY <1>1, <1>4 DEF SInv, StreamVarsOK
<1>6. LockInv'
  <2>1. \A u \in Threads : pc'[u] # "idle" <=> pc[u] # "idle"
    BY <1>3
  <2> QED
    BY <1>1, <2>1 DEF SInv, LockInv
<1> QED
  BY <1>2, <1>5, <1>6 DEF SInv

(* A Begin that ends opens the pass with all the frames of its outcome, or *)
(* leaves none open when there are none.                                   *)
LEMMA FinishOpens ==
    ASSUME SInv, NEW t \in Threads, FinishBegin(t)
    PROVE  /\ lock_ = t /\ update_frames_' = outcome[t].frames
           /\ outcome[t].frames \in 0..Period
           /\ outcome[t].frames # 0 <=> outcome[t].hr = "Ok"
           /\ pc[t] = "returned" /\ pc'[t] = "idle"
           /\ \A u \in Threads \ {t} : pc[u] = "idle" /\ pc'[u] = "idle"
<1>1. /\ pc[t] = "returned" /\ TakeOutcome(t)
      /\ update_frames_' = IF OpensPass(outcome[t]) THEN outcome[t].frames ELSE 0
  BY DEF FinishBegin, TakeOutcome
<1>2. /\ outcome[t].frames \in 0..Period
      /\ outcome[t].frames # 0 <=> outcome[t].hr = "Ok"
  BY <1>1 DEF SInv, IInv, TypeOK, CallProgress, CallOK, Outcome
<1>3. update_frames_' = outcome[t].frames
  BY <1>1, <1>2, BufferRecoveryAssumption DEF OpensPass
<1>4. lock_ = t /\ \A u \in Threads \ {t} : pc[u] = "idle"
  BY <1>1, OneInside
<1>5. pc'[t] = "idle" /\ \A u \in Threads \ {t} : pc'[u] = pc[u]
  BY <1>1 DEF TakeOutcome, Goto, SInv, IInv, TypeOK
<1> QED
  BY <1>1, <1>2, <1>3, <1>4, <1>5

LEMMA FinishKeeps ==
    ASSUME SInv, NEW t \in Threads, FinishBegin(t)
    PROVE  SInv'
<1>1. TakeOutcome(t) /\ UNCHANGED <<config, clientVars, recovery_gate_, breakerVars, now, latchVars, commanded>>
      /\ recovery_in_progress_' = FALSE /\ lock_' = NoThread
      /\ want' = [want EXCEPT ![t] = "none"]
  BY DEF FinishBegin
<1>2. /\ outcome' \in [Threads -> Outcome]
      /\ pc' \in [Threads -> AllSteps] /\ CallProgress'
      /\ inject' \in [Threads -> BOOLEAN]
  BY <1>1, TakeOutcomeKeeps DEF SInv
<1>3. IInv'
  BY <1>1, <1>2 DEF SInv, IInv, TypeOK, AllSteps, clientVars, breakerVars
<1>4. update_frames_' \in 0..Period /\ \A u \in Threads : pc'[u] = "idle"
  BY FinishOpens
<1>5. successful_get_buffer_cycles_' \in 0..MaxCycles
  BY SpatialStreamAssumption DEF FinishBegin, Smaller, SInv, StreamVarsOK
<1>6. StreamVarsOK'
  BY <1>1, <1>4, <1>5 DEF SInv, StreamVarsOK, latchVars, breakerVars
<1>7. LockInv'
  BY <1>1, <1>4, BufferRecoveryAssumption DEF LockInv
<1> QED
  BY <1>3, <1>6, <1>7 DEF SInv

LEMMA SurroundingsKeepStream ==
    ASSUME SInv, Surroundings \/ UNCHANGED allVars
    PROVE  SInv'
<1>1. /\ Engine \/ Tick \/ UNCHANGED vars
      /\ UNCHANGED <<lock_, recovery_in_progress_, update_frames_, successful_get_buffer_cycles_,
                     fault_injected_, g_fault_injection_claimed, want, commanded, injections>>
  BY DEF Surroundings, allVars, vars, streamVars
<1>2. IInv' /\ UNCHANGED <<pc, starts>>
  BY <1>1, SurroundingsKeep DEF SInv, Engine, Tick, vars, callVars, breakerVars
<1> QED
  BY <1>1, <1>2 DEF SInv, StreamVarsOK, LockInv

LEMMA StreamInitSInv == StreamInit => SInv
<1> SUFFICES ASSUME StreamInit PROVE SInv
  OBVIOUS
<1>1. IInv
  BY InitIInv DEF StreamInit
<1>2. starts = <<>> /\ \A t \in Threads : pc[t] = "idle"
  BY DEF StreamInit, Init
<1>3. StreamVarsOK
  <2>1. commanded \in [call: {"none", "Start", "Stop", "Reset"}, recoveries: 0..Len(starts)]
    <3>1. Len(starts) = 0
      BY <1>2
    <3> QED
      BY <3>1 DEF StreamInit
  <2>2. want \in [Threads -> Calls \cup {"none"}]
    BY DEF StreamInit
  <2>3. update_frames_ \in 0..Period /\ successful_get_buffer_cycles_ \in 0..MaxCycles /\ injections \in Nat
    BY BufferRecoveryAssumption, SpatialStreamAssumption DEF StreamInit
  <2> QED
    BY <2>1, <2>2, <2>3 DEF StreamInit, StreamVarsOK
<1>4. LockInv
  BY <1>2, BufferRecoveryAssumption DEF StreamInit, LockInv
<1> QED
  BY <1>1, <1>3, <1>4 DEF SInv

LEMMA StreamNextSInv == SInv /\ [StreamNext]_allVars => SInv'
<1> SUFFICES ASSUME SInv, [StreamNext]_allVars PROVE SInv'
  OBVIOUS
<1>1. ASSUME NEW t \in Threads, GameThread(t) PROVE SInv'
  BY <1>1, QuietActions, QuietKeeps, CommandsKeep, EndKeeps, BeginKeeps, AcquireKeeps, FinishKeeps
     DEF GameThread
<1>2. CASE Surroundings \/ UNCHANGED allVars
  BY <1>2, SurroundingsKeepStream
<1>3. CASE OtherStreamInjects
  <2>1. UNCHANGED <<coordinatorVars, clientVars, lock_, recovery_in_progress_, update_frames_, commanded,
                    successful_get_buffer_cycles_, fault_injected_, want>>
    BY <1>3 DEF OtherStreamInjects
  <2>2. StreamVarsOK'
    BY <1>3, <2>1 DEF OtherStreamInjects, SInv, StreamVarsOK, coordinatorVars
  <2> QED
    BY <2>1, <2>2, QuietKeeps
<1> QED
  BY <1>1, <1>2, <1>3 DEF StreamNext

(* The stream keeps its types, and the coordinator inside it keeps its     *)
(* own: no release of the game's and no nested call puts more frames in    *)
(* the endpoint buffer than it holds.                                      *)
THEOREM StreamTypeCorrect == StreamSpec => []StreamTypeOK
<1>1. SInv => StreamTypeOK
  BY DEF SInv, IInv, StreamVarsOK, StreamTypeOK
<1> QED
  BY <1>1, StreamInitSInv, StreamNextSInv, PTL DEF StreamSpec

------------------------------------------------------------------------------
(* The injected failure.                                                   *)
LEMMA InjectNext == SInv /\ InjectInv /\ [StreamNext]_allVars => InjectInv'
<1> SUFFICES ASSUME SInv, InjectInv, [StreamNext]_allVars PROVE InjectInv'
  OBVIOUS
<1>1. CASE UNCHANGED latchVars
  BY <1>1 DEF latchVars, InjectInv
<1>2. ASSUME NEW t \in Threads, GameThread(t), ~BeginUpdatingAudioObjects(t) PROVE InjectInv'
  <2>1. UNCHANGED latchVars
    BY <1>2, Commands DEF GameThread, Request, BeginRefused, EndOutOfOrder, EndUpdatingAudioObjects,
                          Acquire, FinishBegin, streamVars, latchVars
  <2> QED
    BY <1>1, <2>1
<1>3. ASSUME NEW t \in Threads, BeginUpdatingAudioObjects(t) PROVE InjectInv'
  <2>1. /\ injections' = IF ShouldInject /\ ~g_fault_injection_claimed THEN injections + 1 ELSE injections
        /\ g_fault_injection_claimed' <=> g_fault_injection_claimed \/ ShouldInject
    BY <1>3 DEF BeginUpdatingAudioObjects
  <2>2. CASE g_fault_injection_claimed
    BY <2>1, <2>2 DEF InjectInv
  <2>3. CASE ~g_fault_injection_claimed
    <3>1. injections = 0
      BY <2>3 DEF InjectInv
    <3>2. CASE ShouldInject
      BY <2>1, <2>3, <3>1, <3>2 DEF InjectInv
    <3>3. CASE ~ShouldInject
      BY <2>1, <2>3, <3>1, <3>3 DEF InjectInv
    <3> QED
      BY <3>2, <3>3
  <2> QED
    BY <2>2, <2>3
<1>4. CASE OtherStreamInjects
  BY <1>4 DEF OtherStreamInjects, InjectInv
<1>5. CASE Surroundings \/ UNCHANGED allVars
  BY <1>1, <1>5 DEF Surroundings, streamVars, latchVars, allVars
<1> QED
  BY <1>2, <1>3, <1>4, <1>5 DEF StreamNext

(* Whatever this stream and the others of the process count and however    *)
(* their passes interleave, the test build's failure is injected once.     *)
THEOREM InjectsOnce == StreamSpec => []InjectedOnce
<1>1. StreamInit => InjectInv
  BY DEF StreamInit, InjectInv
<1>2. InjectInv => InjectedOnce
  BY DEF InjectInv, InjectedOnce
<1> QED
  BY <1>1, <1>2, StreamInitSInv, StreamNextSInv, InjectNext, PTL DEF StreamSpec

------------------------------------------------------------------------------
(* The started flag.                                                       *)
LEMMA StartedStream == SInv /\ StartedTruthful /\ [StreamNext]_allVars => StartedTruthful'
<1> SUFFICES ASSUME SInv, StartedTruthful, [StreamNext]_allVars PROVE StartedTruthful'
  OBVIOUS
<1>1. ASSUME started_' = started_, client'.running = client.running PROVE StartedTruthful'
  BY <1>1 DEF StartedTruthful
<1>2. ASSUME NEW t \in Threads, Start(t) \/ Stop(t) \/ Reset(t) PROVE StartedTruthful'
  BY <1>2, Commands
<1>3. ASSUME NEW t \in Threads, Acquire(t) PROVE StartedTruthful'
  BY <1>3, StartedAcquire DEF Acquire, SInv
<1>4. ASSUME NEW t \in Threads, EndUpdatingAudioObjects(t) PROVE StartedTruthful'
  BY <1>1, <1>4, EndReleases
<1>5. ASSUME NEW t \in Threads,
             \/ \E call \in Calls : Request(t, call)
             \/ BeginRefused(t) \/ EndOutOfOrder(t) \/ BeginUpdatingAudioObjects(t) \/ FinishBegin(t)
      PROVE  StartedTruthful'
  BY <1>1, <1>5 DEF Request, BeginRefused, EndOutOfOrder, BeginUpdatingAudioObjects, Call,
                    FinishBegin, clientVars
<1>6. CASE OtherStreamInjects \/ UNCHANGED allVars
  BY <1>1, <1>6 DEF OtherStreamInjects, clientVars, allVars
<1>7. CASE Surroundings
  BY <1>1, <1>7, EngineGood DEF Surroundings, Engine, Tick, clientVars, SInv, IInv, TypeOK, GoodClient
<1> QED
  BY <1>2, <1>3, <1>4, <1>5, <1>6, <1>7 DEF StreamNext, GameThread

(* The flag the stream gives the watchdog and the log is the client's      *)
(* state, whatever the game's commands and the recoveries made of it.      *)
THEOREM StreamStartedIsRunning == StreamSpec => []StartedTruthful
<1>1. StreamInit => StartedTruthful
  BY DEF StreamInit, Init, StartedTruthful, FreshClient
<1> QED
  BY <1>1, StreamInitSInv, StreamNextSInv, StartedStream, PTL DEF StreamSpec

------------------------------------------------------------------------------
(* Buffers and passes.  A step of Acquire takes the client's buffer, or    *)
(* leaves it and owes nothing, or carries what it owes to its return.      *)
LEMMA AcquireBuffer ==
    ASSUME IInv, NEW t \in Threads, AcquireStep(t)
    PROVE  \/ Owes(t)' /\ client'.acquired = outcome'[t].frames
           \/ /\ ~Owes(t) /\ ~Owes(t)'
              /\ client'.acquired = client.acquired /\ client'.valid = client.valid
           \/ (Owes(t) <=> Owes(t)') /\ UNCHANGED <<client, outcome>>
<1>1. GoodClient(client) /\ CallOK(pc[t], outcome[t])
  BY DEF IInv, TypeOK, GoodClient, CallProgress
<1>2. ASSUME NEW hr, NEW frames, NEW calls, NEW flags, NEW step, Goto(t, step),
             pc[t] \in {"initial", "adaptive", "retry"}, hr = "Ok" => step = "done",
             Answered(t, hr, frames, calls, flags), frames \in 1..Period,
             hr # "Ok" => client' = client, hr = "Ok" => client'.acquired = frames
      PROVE  \/ Owes(t)' /\ client'.acquired = outcome'[t].frames
             \/ /\ ~Owes(t) /\ ~Owes(t)'
                /\ client'.acquired = client.acquired /\ client'.valid = client.valid
  <2>1. outcome'[t].hr = hr /\ outcome'[t].frames = IF hr = "Ok" THEN frames ELSE 0
    BY <1>2, ReportSays DEF Answered
  <2>2. pc'[t] = step /\ ~Owes(t)
    BY <1>2 DEF Goto, IInv, TypeOK, Owes
  <2>3. CASE hr = "Ok"
    BY <1>2, <2>1, <2>2, <2>3 DEF Owes
  <2>4. CASE hr # "Ok"
    BY <1>2, <2>1, <2>2, <2>4 DEF Owes
  <2> QED
    BY <2>3, <2>4
<1>3. CASE InitialGetBuffer(t)
  <2>1. PICK a \in IF inject[t] THEN {Answer("TooLarge", client)} ELSE GetBufferAnswers(client, Period) :
            /\ client' = a.client
            /\ Answered(t, a.hr, Period, IF inject[t] THEN 0 ELSE 1, {})
            /\ Goto(t, AfterInitial(a.hr))
    BY <1>3 DEF InitialGetBuffer
  <2>2. Period \in 1..Period /\ pc[t] = "initial"
    BY <1>3, BufferRecoveryAssumption DEF InitialGetBuffer
  <2>3. (a.hr # "Ok" => client' = client) /\ (a.hr = "Ok" => client'.acquired = Period)
    BY <1>1, <2>1, <2>2, GetBufferGood DEF Answer
  <2>4. a.hr = "Ok" => AfterInitial(a.hr) = "done"
    BY DEF AfterInitial
  <2> QED
    BY <1>2, <2>1, <2>2, <2>3, <2>4
<1>4. CASE AdaptiveRetry(t) \/ FinalGetBuffer(t)
  <2>1. PICK a \in GetBufferAnswers(client, outcome[t].retry_frames) :
            /\ client' = a.client
            /\ \E flags, step : /\ Answered(t, a.hr, outcome[t].retry_frames, 1, flags)
                                /\ Goto(t, step) /\ (a.hr = "Ok" => step = "done")
    BY <1>4 DEF AdaptiveRetry, FinalGetBuffer
  <2>2. pc[t] \in {"adaptive", "retry"} /\ outcome[t].retry_frames \in 1..Period
    BY <1>1, <1>4 DEF AdaptiveRetry, FinalGetBuffer, CallOK
  <2>3. /\ a.hr # "Ok" => client' = client
        /\ a.hr = "Ok" => client'.acquired = outcome[t].retry_frames
    BY <1>1, <2>1, <2>2, GetBufferGood
  <2> QED
    BY <1>2, <2>1, <2>2, <2>3
<1>5. ASSUME pc[t] \in MarkSteps \cup {"padding", "refresh"},
             \/ outcome' = outcome
             \/ \E frames, retry_frames, flags : Report(t, outcome[t].hr, frames, 0, retry_frames, flags)
      PROVE  ~Owes(t) /\ ~Owes(t)'
  <2>1. outcome[t].hr = "TooLarge"
    BY <1>1, <1>5 DEF CallOK, MarkSteps, RecoverySteps
  <2>2. outcome'[t].hr = outcome[t].hr
    BY <1>5, ReportSays
  <2> QED
    BY <2>1, <2>2 DEF Owes
<1>6. CASE ReadPadding(t) \/ RefreshPadding(t)
  BY <1>5, <1>6 DEF ReadPadding, RefreshPadding, Sized
<1>7. CASE FallbackOff(t) \/ FallbackRefused(t) \/ EnterGate(t) \/ CheckRefuses(t) \/ CheckStarts(t)
  BY <1>5, <1>7 DEF FallbackOff, FallbackRefused, EnterGate, CheckRefuses, CheckStarts, Marked, MarkSteps
<1>8. CASE StopClient(t) \/ ResetClient(t) \/ StartClient(t)
  <2>1. ~Owes(t) /\ ~Owes(t)'
    BY <1>5, <1>8 DEF StopClient, ResetClient, StartClient, Marked, MarkSteps
  <2>2. client'.acquired = client.acquired /\ client'.valid = client.valid
    <3>1. PICK a \in StopAnswers(client) \cup ResetAnswers(client) \cup StartAnswers(client) :
              client' = a.client
      BY <1>8 DEF StopClient, ResetClient, StartClient
    <3> QED
      BY <1>1, <3>1, StopGood, ResetGood, StartGood
  <2> QED
    BY <2>1, <2>2
<1>9. CASE Return(t)
  <2>1. pc[t] = "done" /\ pc'[t] = "returned" /\ UNCHANGED <<client, outcome>>
    BY <1>9 DEF Return, Goto, IInv, TypeOK
  <2> QED
    BY <2>1 DEF Owes
<1> QED
  BY <1>3, <1>4, <1>6, <1>7, <1>8, <1>9 DEF AcquireStep

LEMMA PassNext == SInv /\ PassInv /\ [StreamNext]_allVars => PassInv'
<1> SUFFICES ASSUME SInv, PassInv, [StreamNext]_allVars PROVE PassInv'
  OBVIOUS
<1>1. ASSUME client'.acquired = client.acquired, client'.valid => client.valid,
             update_frames_' = update_frames_, UNCHANGED <<pc, outcome>>
      PROVE  PassInv'
  BY <1>1 DEF PassInv, Owes
<1>2. ASSUME NEW t \in Threads, Start(t) \/ Stop(t) \/ Reset(t) PROVE PassInv'
  BY <1>1, <1>2, Commands DEF coordinatorVars
<1>3. ASSUME NEW t \in Threads,
             (\E call \in Calls : Request(t, call)) \/ BeginRefused(t) \/ EndOutOfOrder(t)
      PROVE  PassInv'
  BY <1>1, <1>3, QuietActions DEF coordinatorVars, clientVars
<1>4. CASE OtherStreamInjects \/ UNCHANGED allVars
  BY <1>1, <1>4 DEF OtherStreamInjects, coordinatorVars, clientVars, allVars
<1>5. CASE Surroundings
  <2>1. client'.acquired = client.acquired /\ (client'.valid => client.valid)
    BY <1>5, EngineGood DEF Surroundings, Engine, Tick, clientVars, SInv, IInv, TypeOK, GoodClient
  <2> QED
    BY <1>1, <1>5, <2>1 DEF Surroundings, Engine, Tick, callVars, streamVars
<1>6. ASSUME NEW t \in Threads, BeginUpdatingAudioObjects(t) PROVE PassInv'
  <2>1. /\ UNCHANGED <<client, outcome, update_frames_>> /\ lock_ = NoThread
        /\ pc' = [pc EXCEPT ![t] = "initial"]
    BY <1>6 DEF BeginUpdatingAudioObjects, Call, Goto
  <2>2. \A u \in Threads : ~Owes(u) /\ ~Owes(u)'
    BY <2>1, NoneInside DEF Owes, SInv, IInv, TypeOK
  <2> QED
    BY <2>1, <2>2 DEF PassInv
<1>7. ASSUME NEW t \in Threads, EndUpdatingAudioObjects(t) PROVE PassInv'
  <2>1. /\ lock_ = NoThread /\ update_frames_' = 0 /\ UNCHANGED <<pc, outcome>>
        /\ client'.valid = client.valid
        /\ client.valid /\ update_frames_ = client.acquired => client'.acquired = 0
    BY <1>7, EndReleases DEF coordinatorVars
  <2>2. \A u \in Threads : ~Owes(u) /\ ~Owes(u)'
    BY <2>1, NoneInside DEF Owes
  <2> QED
    BY <2>1, <2>2 DEF PassInv
<1>8. ASSUME NEW t \in Threads, Acquire(t) PROVE PassInv'
  <2>1. AcquireStep(t) /\ update_frames_' = update_frames_
    BY <1>8 DEF Acquire, streamVars
  <2>2. /\ \A u \in Threads \ {t} : pc'[u] = pc[u] /\ outcome'[u] = outcome[u]
        /\ pc[t] # "idle"
    BY <2>1, AcquireMoves DEF SInv
  <2>3. \A u \in Threads \ {t} : ~Owes(u) /\ ~Owes(u)'
    BY <2>2, OneInside DEF Owes
  <2>4. \/ Owes(t)' /\ client'.acquired = outcome'[t].frames
        \/ /\ ~Owes(t) /\ ~Owes(t)'
           /\ client'.acquired = client.acquired /\ client'.valid = client.valid
        \/ (Owes(t) <=> Owes(t)') /\ UNCHANGED <<client, outcome>>
    BY <2>1, AcquireBuffer DEF SInv
  <2> QED
    BY <2>1, <2>3, <2>4 DEF PassInv
<1>9. ASSUME NEW t \in Threads, FinishBegin(t) PROVE PassInv'
  <2>1. /\ lock_ = t /\ update_frames_' = outcome[t].frames /\ pc[t] = "returned"
        /\ outcome[t].frames # 0 <=> outcome[t].hr = "Ok"
        /\ \A u \in Threads : pc'[u] = "idle"
    BY <1>9, FinishOpens
  <2>2. \A u \in Threads : ~Owes(u)'
    BY <2>1 DEF Owes
  <2>3. client' = client
    BY <1>9 DEF FinishBegin, clientVars
  <2>4. CASE outcome[t].hr = "Ok"
    <3>1. client.acquired = outcome[t].frames
      BY <2>1, <2>4 DEF Owes, PassInv
    <3> QED
      BY <2>1, <2>2, <2>3, <3>1 DEF PassInv
  <2>5. CASE outcome[t].hr # "Ok"
    <3>1. /\ update_frames_ = 0 /\ update_frames_' = 0
          /\ \A u \in Threads : ~Owes(u)
      BY <2>1, <2>5, OneInside DEF Owes
    <3> QED
      BY <2>2, <2>3, <3>1 DEF PassInv
  <2> QED
    BY <2>4, <2>5
<1> QED
  BY <1>2, <1>3, <1>4, <1>5, <1>6, <1>7, <1>8, <1>9 DEF StreamNext, GameThread

(* On a client that is still there, the frames of the open pass are those  *)
(* the client handed out, so that ReleaseBuffer gives back exactly what    *)
(* GetBuffer gave, after any retry and any calls in between.               *)
THEOREM PassesMatch == StreamSpec => []ReleaseMatchesAcquire
<1>1. StreamInit => PassInv
  BY DEF StreamInit, Init, PassInv, Owes, FreshClient
<1>2. SInv /\ PassInv => ReleaseMatchesAcquire
  <2> SUFFICES ASSUME SInv, PassInv PROVE ReleaseMatchesAcquire
    OBVIOUS
  <2>1. ASSUME NEW t \in Threads, Owes(t) PROVE update_frames_ = 0
    BY <2>1, OneInside DEF Owes
  <2> QED
    BY <2>1 DEF PassInv, ReleaseMatchesAcquire
<1> QED
  BY <1>1, <1>2, StreamInitSInv, StreamNextSInv, PassNext, PTL DEF StreamSpec

------------------------------------------------------------------------------
(* A Stop the game asked for and the recovery it may have met.             *)
LEMMA AcquireRuns ==
    ASSUME IInv, NEW t \in Threads, AcquireStep(t), client'.running
    PROVE  client.running \/ pc[t] = "start"
<1>1. GoodClient(client) /\ CallOK(pc[t], outcome[t])
  BY DEF IInv, TypeOK, GoodClient, CallProgress
<1>2. CASE InitialGetBuffer(t)
  <2>1. Period \in 1..Period
    BY BufferRecoveryAssumption
  <2> QED
    BY <1>1, <1>2, <2>1, GetBufferGood DEF InitialGetBuffer, Answer
<1>3. CASE AdaptiveRetry(t) \/ FinalGetBuffer(t)
  <2>1. outcome[t].retry_frames \in 1..Period
    BY <1>1, <1>3 DEF AdaptiveRetry, FinalGetBuffer, CallOK
  <2>2. PICK a \in GetBufferAnswers(client, outcome[t].retry_frames) : client' = a.client
    BY <1>3 DEF AdaptiveRetry, FinalGetBuffer
  <2> QED
    BY <1>1, <2>1, <2>2, GetBufferGood
<1>4. CASE StopClient(t) \/ ResetClient(t)
  <2>1. PICK a \in StopAnswers(client) \cup ResetAnswers(client) : client' = a.client
    BY <1>4 DEF StopClient, ResetClient
  <2>2. a.hr = "Ok" => ~a.client.running
    BY <1>1, <2>1, StopGood, ResetGood
  <2>3. a.hr # "Ok" => a.client = client
    BY <1>1, <2>1, StopGood, ResetGood
  <2> QED
    BY <2>1, <2>2, <2>3
<1>5. CASE StartClient(t)
  BY <1>5 DEF StartClient
<1>6. CASE \/ ReadPadding(t) \/ FallbackOff(t) \/ FallbackRefused(t) \/ EnterGate(t)
           \/ CheckRefuses(t) \/ CheckStarts(t) \/ RefreshPadding(t) \/ Return(t)
  BY <1>6 DEF ReadPadding, FallbackOff, FallbackRefused, EnterGate, CheckRefuses, CheckStarts,
              RefreshPadding, Return
<1> QED
  BY <1>2, <1>3, <1>4, <1>5, <1>6 DEF AcquireStep

LEMMA SupersedeNext == SInv /\ SupersedeInv /\ [StreamNext]_allVars => SupersedeInv'
<1> SUFFICES ASSUME SInv, SupersedeInv, [StreamNext]_allVars PROVE SupersedeInv'
  OBVIOUS
<1>1. ASSUME client'.running => client.running, UNCHANGED <<commanded, starts>>,
             \A t \in Threads : pc'[t] \in RecoverySteps => pc[t] \in RecoverySteps
      PROVE  SupersedeInv'
  BY <1>1 DEF SupersedeInv, StopSupersedesRecovery
<1>2. ASSUME NEW t \in Threads, Start(t) \/ Stop(t) \/ Reset(t) PROVE SupersedeInv'
  <2>1. /\ UNCHANGED <<pc, starts>>
        /\ lock_ # NoThread => commanded' = commanded
        /\ StopSupersedesRecovery'
    BY <1>2, Commands DEF coordinatorVars, SupersedeInv
  <2>2. ASSUME NEW u \in Threads, pc'[u] \in RecoverySteps PROVE Len(starts') > commanded'.recoveries
    <3>1. pc[u] # "idle" /\ pc[u] \in RecoverySteps
      BY <2>1, <2>2 DEF RecoverySteps
    <3>2. commanded' = commanded
      BY <2>1, <3>1, OneInside, BufferRecoveryAssumption
    <3> QED
      BY <2>1, <3>1, <3>2 DEF SupersedeInv
  <2> QED
    BY <2>1, <2>2 DEF SupersedeInv
<1>3. ASSUME NEW t \in Threads,
             (\E call \in Calls : Request(t, call)) \/ BeginRefused(t) \/ EndOutOfOrder(t)
      PROVE  SupersedeInv'
  BY <1>1, <1>3, QuietActions DEF coordinatorVars, clientVars
<1>4. CASE OtherStreamInjects \/ UNCHANGED allVars
  BY <1>1, <1>4 DEF OtherStreamInjects, coordinatorVars, clientVars, allVars
<1>5. CASE Surroundings
  <2>1. client'.running = client.running
    BY <1>5, EngineGood DEF Surroundings, Engine, Tick, clientVars, SInv, IInv, TypeOK, GoodClient
  <2> QED
    BY <1>1, <1>5, <2>1 DEF Surroundings, Engine, Tick, callVars, breakerVars, streamVars
<1>6. ASSUME NEW t \in Threads, BeginUpdatingAudioObjects(t) \/ FinishBegin(t) PROVE SupersedeInv'
  <2>1. UNCHANGED <<client, commanded, starts>>
    BY <1>6 DEF BeginUpdatingAudioObjects, Call, FinishBegin, clientVars, breakerVars
  <2>2. PICK step \in {"initial", "idle"} : pc' = [pc EXCEPT ![t] = step]
    BY <1>6 DEF BeginUpdatingAudioObjects, Call, FinishBegin, TakeOutcome, Goto
  <2>3. \A u \in Threads : pc'[u] \in RecoverySteps => pc[u] \in RecoverySteps
    BY <2>2 DEF RecoverySteps, SInv, IInv, TypeOK
  <2> QED
    BY <1>1, <2>1, <2>3
<1>7. ASSUME NEW t \in Threads, EndUpdatingAudioObjects(t) PROVE SupersedeInv'
  BY <1>1, <1>7, EndReleases DEF coordinatorVars
<1>8. ASSUME NEW t \in Threads, Acquire(t) PROVE SupersedeInv'
  <2>1. AcquireStep(t) /\ commanded' = commanded
    BY <1>8 DEF Acquire, streamVars
  <2>2. /\ \A u \in Threads \ {t} : pc'[u] = pc[u]
        /\ Len(starts) \in Nat /\ Len(starts') \in Nat /\ Len(starts') >= Len(starts)
        /\ pc'[t] \in RecoverySteps => pc[t] \in RecoverySteps \/ Len(starts') > Len(starts)
    BY <2>1, AcquireMoves DEF SInv
  <2>3. commanded.recoveries \in Nat /\ commanded.recoveries <= Len(starts)
    BY <2>2 DEF SInv, StreamVarsOK
  <2>4. ASSUME NEW u \in Threads, pc'[u] \in RecoverySteps PROVE Len(starts') > commanded'.recoveries
    <3>1. CASE pc[u] \in RecoverySteps
      <4>1. Len(starts) > commanded.recoveries
        BY <3>1 DEF SupersedeInv
      <4> QED
        BY <2>1, <2>2, <2>3, <4>1
    <3>2. CASE pc[u] \notin RecoverySteps
      <4>1. Len(starts') > Len(starts)
        BY <2>2, <2>4, <3>2
      <4> QED
        BY <2>1, <2>2, <2>3, <4>1
    <3> QED
      BY <3>1, <3>2
  <2>5. ASSUME commanded'.call = "Stop", client'.running PROVE Len(starts') > commanded'.recoveries
    <3>1. client.running \/ pc[t] = "start"
      BY <2>1, <2>5, AcquireRuns DEF SInv
    <3>2. Len(starts) > commanded.recoveries
      BY <2>1, <2>5, <3>1 DEF SupersedeInv, StopSupersedesRecovery, RecoverySteps
    <3> QED
      BY <2>1, <2>2, <2>3, <3>2
  <2> QED
    BY <2>4, <2>5 DEF SupersedeInv, StopSupersedesRecovery
<1> QED
  BY <1>2, <1>3, <1>4, <1>5, <1>6, <1>7, <1>8 DEF StreamNext, GameThread

(* After a Stop of the game the client runs again only by a Start of the   *)
(* game or by a recovery that began after the Stop: a recovery the Stop    *)
(* met cannot start the client behind it.                                  *)
THEOREM StopSupersedes == StreamSpec => []StopSupersedesRecovery
<1>1. StreamInit => SupersedeInv
  BY DEF StreamInit, Init, SupersedeInv, StopSupersedesRecovery, RecoverySteps
<1>2. SupersedeInv => StopSupersedesRecovery
  BY DEF SupersedeInv
<1> QED
  BY <1>1, <1>2, StreamInitSInv, StreamNextSInv, SupersedeNext, PTL DEF StreamSpec

------------------------------------------------------------------------------
(* A thread between two steps of a recovery.                               *)
LEMMA EngineOnlyPlays ==
    ASSUME NEW c, GoodClient(c), NEW d, Plays(c, d) \/ Loses(c, d)
    PROVE  d.padding \in {c.padding, c.padding - 1}
  BY CapacityAssumption DEF Plays, Loses, GoodClient, Client

LEMMA Between ==
    ASSUME SInv, [StreamNext]_allVars, NEW t \in Threads, pc[t] \in RecoverySteps, pc'[t] = pc[t]
    PROVE  /\ client'.running = client.running
           /\ client'.acquired = client.acquired
           /\ client'.padding \in {client.padding, client.padding - 1}
           /\ UNCHANGED <<started_, update_frames_, recovery_gate_>>
<1>1. /\ lock_ = t /\ recovery_in_progress_ /\ update_frames_ = 0 /\ lock_ # NoThread
      /\ \A u \in Threads \ {t} : pc[u] = "idle"
  BY OneInside, BufferRecoveryAssumption DEF RecoverySteps
<1>2. ASSUME UNCHANGED <<client, started_, update_frames_, recovery_gate_>>
      PROVE  /\ client'.running = client.running
             /\ client'.acquired = client.acquired
             /\ client'.padding \in {client.padding, client.padding - 1}
             /\ UNCHANGED <<started_, update_frames_, recovery_gate_>>
  BY <1>2
<1>3. ASSUME NEW u \in Threads, GameThread(u)
      PROVE  UNCHANGED <<client, started_, update_frames_, recovery_gate_>>
  <2>1. CASE Start(u) \/ Stop(u) \/ Reset(u)
    BY <1>1, <2>1, Commands DEF coordinatorVars
  <2>2. CASE (\E call \in Calls : Request(u, call)) \/ BeginRefused(u) \/ EndOutOfOrder(u)
    BY <2>2, QuietActions DEF coordinatorVars, clientVars
  <2>3. ~BeginUpdatingAudioObjects(u) /\ ~EndUpdatingAudioObjects(u)
    BY <1>1 DEF BeginUpdatingAudioObjects, EndUpdatingAudioObjects
  <2>4. ~Acquire(u)
    <3>1. SUFFICES ASSUME Acquire(u) PROVE FALSE
      OBVIOUS
    <3>2. pc[u] # "idle" /\ pc'[u] # pc[u]
      BY <3>1, AcquireMoves DEF Acquire, SInv
    <3> QED
      BY <1>1, <3>2
  <2>5. ~FinishBegin(u)
    <3>1. SUFFICES ASSUME FinishBegin(u) PROVE FALSE
      OBVIOUS
    <3>2. pc[u] = "returned"
      BY <3>1, FinishOpens
    <3> QED
      BY <1>1, <3>2 DEF RecoverySteps
  <2> QED
    BY <1>3, <2>1, <2>2, <2>3, <2>4, <2>5 DEF GameThread
<1>4. CASE Engine /\ UNCHANGED streamVars
  BY <1>4, EngineGood, EngineOnlyPlays DEF Engine, streamVars, SInv, IInv, TypeOK, GoodClient
<1>5. CASE (Tick /\ UNCHANGED streamVars) \/ OtherStreamInjects \/ UNCHANGED allVars
  <2>1. UNCHANGED <<client, started_, update_frames_, recovery_gate_>>
    BY <1>5 DEF Tick, OtherStreamInjects, streamVars, clientVars, coordinatorVars, allVars
  <2> QED
    BY <1>2, <2>1
<1> QED
  BY <1>2, <1>3, <1>4, <1>5 DEF StreamNext, Surroundings

(* While a recovery is between two of its calls into the client, no other  *)
(* thread and no call nested in it stops, starts or resets the client,     *)
(* takes or gives back a buffer, or changes what the stream believes.      *)
THEOREM RecoveriesUndisturbed == StreamSpec => RecoveryUndisturbed
<1>1. SInv /\ [StreamNext]_allVars =>
          [\A t \in Threads : pc[t] \in RecoverySteps /\ pc'[t] = pc[t] =>
              /\ client'.running = client.running
              /\ client'.acquired = client.acquired
              /\ client'.padding \in {client.padding, client.padding - 1}
              /\ UNCHANGED <<started_, update_frames_, recovery_gate_>>]_allVars
  BY Between
<1> QED
  BY <1>1, StreamInitSInv, StreamNextSInv, PTL DEF StreamSpec, RecoveryUndisturbed

------------------------------------------------------------------------------
(* A device that never misbehaves: no fault is possible.                   *)
LEMMA HealthyGetBuffer ==
    ASSUME Faults = {}, NEW c, c.valid, c.acquired = 0, NEW frames, NEW a \in GetBufferAnswers(c, frames)
    PROVE  /\ a.hr = "Ok" \/ (a.hr = "TooLarge" /\ ~Fits(c, frames))
           /\ a.client = c \/ a.client = [c EXCEPT !.acquired = frames]
  BY DEF GetBufferAnswers, OrFailure, Answer

LEMMA HealthyControls ==
    ASSUME Faults = {}, NEW c, GoodClient(c), c.valid
    PROVE  /\ \A a \in StopAnswers(c) : a.hr = "Ok" /\ ~a.client.running
           /\ ~c.running /\ c.acquired = 0 =>
                  \A a \in ResetAnswers(c) : a.hr = "Ok" /\ ~a.client.running /\ a.client.padding = 0
           /\ ~c.running => \A a \in StartAnswers(c) : a.hr = "Ok" /\ a.client.padding = c.padding
<1>1. ASSUME NEW a \in StopAnswers(c) PROVE a.hr = "Ok" /\ ~a.client.running
  BY DEF StopAnswers, OrFailure, Answer, GoodClient, Client
<1>2. ASSUME ~c.running, c.acquired = 0, NEW a \in ResetAnswers(c)
      PROVE  a.hr = "Ok" /\ ~a.client.running /\ a.client.padding = 0
  BY <1>2 DEF ResetAnswers, OrFailure, Answer, GoodClient, Client
<1>3. ASSUME ~c.running, NEW a \in StartAnswers(c) PROVE a.hr = "Ok" /\ a.client.padding = c.padding
  BY <1>3 DEF StartAnswers, OrFailure, Answer, GoodClient, Client
<1> QED
  BY <1>1, <1>2, <1>3

(* The retry that is sized by the padding fits, and there is one whenever  *)
(* the buffer is not full.                                                 *)
LEMMA HealthyPadding ==
    ASSUME Faults = {}, NEW c, GoodClient(c), c.valid, NEW report \in PaddingAnswers(c)
    PROVE  /\ Fits(c, RetryFrames(report))
           /\ c.padding = 0 => RetryFrames(report) > 0
<1>1. report = [hr |-> "Ok", padding |-> c.padding]
  BY DEF PaddingAnswers
<1>2. c.padding \in 0..Capacity /\ Capacity \in Nat \ {0} /\ Period \in Nat \ {0}
  BY CapacityAssumption, BufferRecoveryAssumption DEF GoodClient, Client
<1>3. RetryFrames(report) = IF Period < Capacity - c.padding THEN Period ELSE Capacity - c.padding
  BY <1>1, <1>2 DEF RetryFrames, Smaller
<1>4. CASE Period < Capacity - c.padding
  BY <1>2, <1>3, <1>4 DEF Fits
<1>5. CASE ~(Period < Capacity - c.padding)
  BY <1>2, <1>3, <1>5 DEF Fits
<1> QED
  BY <1>4, <1>5

LEMMA HealthyStep ==
    ASSUME SInv, NEW t \in Threads, pc[t] # "idle", NEW step, Goto(t, step), config' = config,
           HealthyAt(step, outcome'[t], client'), client'.valid
    PROVE  HealthyInv'
<1>1. pc'[t] = step /\ \A u \in Threads \ {t} : pc'[u] = "idle"
  BY OneInside DEF Goto, SInv, IInv, TypeOK
<1>2. \A u \in Threads \ {t} : HealthyAt(pc[u], outcome[u], client)'
  BY <1>1 DEF HealthyAt
<1>3. HealthyAt(pc[t], outcome[t], client)'
  BY <1>1 DEF HealthyAt, RefusalExplained
<1> QED
  BY <1>2, <1>3 DEF HealthyInv

LEMMA HealthyAcquire ==
    ASSUME Faults = {}, SInv, PassInv, HealthyInv, NEW t \in Threads, AcquireStep(t)
    PROVE  HealthyInv'
<1>1. /\ pc[t] # "idle" /\ update_frames_ = 0 /\ \A u \in Threads \ {t} : ~Owes(u)
      /\ config' = config
  BY AcquireMoves, OneInside DEF SInv
<1>2. /\ GoodClient(client) /\ client.valid /\ HealthyAt(pc[t], outcome[t], client)
      /\ CallOK(pc[t], outcome[t])
  BY DEF SInv, IInv, TypeOK, CallProgress, GoodClient, HealthyInv
<1>3. pc[t] \notin {"done", "returned"} => client.acquired = 0
  BY <1>1, <1>2 DEF PassInv, Owes
<1>4. CASE InitialGetBuffer(t)
  <2>1. PICK a \in IF inject[t] THEN {Answer("TooLarge", client)} ELSE GetBufferAnswers(client, Period) :
            /\ client' = a.client
            /\ Answered(t, a.hr, Period, IF inject[t] THEN 0 ELSE 1, {})
            /\ Goto(t, AfterInitial(a.hr))
    BY <1>4 DEF InitialGetBuffer
  <2>2. pc[t] = "initial" /\ client.acquired = 0 /\ Period \in 1..Period
    BY <1>3, <1>4, BufferRecoveryAssumption DEF InitialGetBuffer
  <2>3. a.hr = "Ok" \/ a.hr = "TooLarge"
    <3>1. CASE inject[t]
      BY <2>1, <3>1 DEF Answer
    <3>2. CASE ~inject[t]
      <4>1. a \in GetBufferAnswers(client, Period)
        BY <2>1, <3>2
      <4>2. client.valid /\ client.acquired = 0
        BY <1>2, <2>2
      <4> QED
        BY <4>1, <4>2, HealthyGetBuffer, Zenon
    <3> QED
      BY <3>1, <3>2
  <2>4. client'.valid
    <3>1. CASE inject[t]
      BY <1>2, <2>1, <3>1 DEF Answer
    <3>2. CASE ~inject[t]
      BY <1>2, <2>1, <2>2, <3>2, GetBufferGood
    <3> QED
      BY <3>1, <3>2
  <2>5. outcome'[t].hr = a.hr
    BY <2>1, ReportFlags DEF Answered, SInv
  <2>6. HealthyAt(AfterInitial(a.hr), outcome'[t], client')
    BY <2>3, <2>5 DEF AfterInitial, HealthyAt, RefusalExplained
  <2> QED
    BY <1>1, <2>1, <2>4, <2>6, HealthyStep
<1>5. CASE ReadPadding(t)
  <2>1. PICK report \in IF inject[t] /\ config.fault_inject_zero_availability
                        THEN {[hr |-> "Ok", padding |-> Capacity]} ELSE PaddingAnswers(client) :
            /\ Sized(t, RetryFrames(report), {})
            /\ Goto(t, IF RetryFrames(report) > 0 THEN "adaptive" ELSE "fallback")
    BY <1>5 DEF ReadPadding
  <2>2. client' = client
    BY <1>5 DEF ReadPadding
  <2>3. outcome'[t].retry_frames = RetryFrames(report)
    BY <2>1 DEF Sized, Report, SInv, IInv, TypeOK
  <2>4. RetryFrames(report) > 0 => Fits(client, RetryFrames(report))
    <3>1. CASE report = [hr |-> "Ok", padding |-> Capacity]
      <4>1. RetryFrames(report) = 0
        BY <3>1, CapacityAssumption, BufferRecoveryAssumption DEF RetryFrames, Smaller
      <4> QED
        BY <4>1
    <3>2. CASE report \in PaddingAnswers(client)
      BY <1>2, <3>2, HealthyPadding
    <3> QED
      BY <2>1, <3>1, <3>2
  <2>5. HealthyAt(IF RetryFrames(report) > 0 THEN "adaptive" ELSE "fallback", outcome'[t], client')
    BY <2>2, <2>3, <2>4 DEF HealthyAt
  <2> QED
    BY <1>1, <1>2, <2>1, <2>2, <2>5, HealthyStep
<1>6. CASE AdaptiveRetry(t) \/ FinalGetBuffer(t)
  <2>1. PICK a \in GetBufferAnswers(client, outcome[t].retry_frames) :
            /\ client' = a.client
            /\ \E flags, step : /\ Answered(t, a.hr, outcome[t].retry_frames, 1, flags)
                                /\ Goto(t, step) /\ (a.hr = "Ok" => step = "done")
    BY <1>6 DEF AdaptiveRetry, FinalGetBuffer
  <2>2. pc[t] \in {"adaptive", "retry"} /\ outcome[t].retry_frames \in 1..Period
    BY <1>2, <1>6 DEF AdaptiveRetry, FinalGetBuffer, CallOK
  <2>3. a.hr = "Ok"
    BY <1>2, <1>3, <2>1, <2>2, HealthyGetBuffer DEF HealthyAt
  <2>4. client'.valid
    BY <1>2, <2>1, <2>2, <2>3, GetBufferGood DEF GoodAnswer
  <2>5. outcome'[t].hr = "Ok"
    BY <2>1, <2>3, ReportFlags DEF Answered, SInv
  <2>6. HealthyAt("done", outcome'[t], client')
    BY <2>5 DEF HealthyAt, RefusalExplained
  <2> QED
    BY <1>1, <2>1, <2>3, <2>4, <2>6, HealthyStep
<1>7. CASE FallbackOff(t)
  <2>1. HealthyAt("done", outcome'[t], client')
    BY <1>7 DEF FallbackOff, HealthyAt, RefusalExplained
  <2> QED
    BY <1>1, <1>2, <1>7, <2>1, HealthyStep DEF FallbackOff
<1>8. CASE FallbackRefused(t) \/ CheckRefuses(t)
  <2>1. Marked(t, {"circuit_breaker_open"}) /\ Goto(t, "done") /\ client' = client
    BY <1>8 DEF FallbackRefused, CheckRefuses
  <2>2. "circuit_breaker_open" \in outcome'[t].flags
    BY <2>1, ReportFlags DEF Marked, SInv
  <2>3. HealthyAt("done", outcome'[t], client')
    BY <2>2 DEF HealthyAt, RefusalExplained
  <2> QED
    BY <1>1, <1>2, <2>1, <2>3, HealthyStep
<1>9. CASE EnterGate(t) \/ CheckStarts(t)
  <2>1. PICK step \in {"check", "stop"} : Goto(t, step) /\ client' = client
    BY <1>9 DEF EnterGate, CheckStarts
  <2>2. HealthyAt(step, outcome'[t], client')
    BY DEF HealthyAt
  <2> QED
    BY <1>1, <1>2, <2>1, <2>2, HealthyStep
<1>10. CASE StopClient(t)
  <2>1. PICK a \in StopAnswers(client) :
            client' = a.client /\ Goto(t, IF a.hr = "Ok" THEN "reset" ELSE "done")
    BY <1>10 DEF StopClient
  <2>2. a.hr = "Ok" /\ ~client'.running /\ client'.valid
    BY <1>2, <2>1, HealthyControls, StopGood
  <2>3. HealthyAt("reset", outcome'[t], client')
    BY <2>2 DEF HealthyAt
  <2> QED
    BY <1>1, <2>1, <2>2, <2>3, HealthyStep
<1>11. CASE ResetClient(t)
  <2>1. PICK a \in ResetAnswers(client) :
            client' = a.client /\ Goto(t, IF a.hr = "Ok" THEN "start" ELSE "done")
    BY <1>11 DEF ResetClient
  <2>2. ~client.running /\ client.acquired = 0
    BY <1>2, <1>3, <1>11 DEF ResetClient, HealthyAt
  <2>3. a.hr = "Ok" /\ ~client'.running /\ client'.padding = 0 /\ client'.valid
    BY <1>2, <2>1, <2>2, HealthyControls, ResetGood
  <2>4. HealthyAt("start", outcome'[t], client')
    BY <2>3 DEF HealthyAt
  <2> QED
    BY <1>1, <2>1, <2>3, <2>4, HealthyStep
<1>12. CASE StartClient(t)
  <2>1. PICK a \in StartAnswers(client) :
            client' = a.client /\ Goto(t, IF a.hr = "Ok" THEN "refresh" ELSE "done")
    BY <1>12 DEF StartClient
  <2>2. ~client.running /\ client.padding = 0
    BY <1>2, <1>12 DEF StartClient, HealthyAt
  <2>3. a.hr = "Ok" /\ client'.padding = 0 /\ client'.valid
    BY <1>2, <2>1, <2>2, HealthyControls, StartGood
  <2>4. HealthyAt("refresh", outcome'[t], client')
    BY <2>3 DEF HealthyAt
  <2> QED
    BY <1>1, <2>1, <2>3, <2>4, HealthyStep
<1>13. CASE RefreshPadding(t)
  <2>1. PICK report \in PaddingAnswers(client) :
            /\ \E flags : Sized(t, RetryFrames(report), flags)
            /\ Goto(t, IF RetryFrames(report) > 0 THEN "retry" ELSE "done")
    BY <1>13 DEF RefreshPadding
  <2>2. client' = client /\ client.padding = 0
    BY <1>2, <1>13 DEF RefreshPadding, HealthyAt
  <2>3. outcome'[t].retry_frames = RetryFrames(report)
    BY <2>1 DEF Sized, Report, SInv, IInv, TypeOK
  <2>4. RetryFrames(report) > 0 /\ Fits(client, RetryFrames(report))
    BY <1>2, <2>1, <2>2, HealthyPadding
  <2>5. HealthyAt("retry", outcome'[t], client')
    BY <2>2, <2>3, <2>4 DEF HealthyAt
  <2> QED
    BY <1>1, <1>2, <2>1, <2>2, <2>4, <2>5, HealthyStep
<1>14. CASE Return(t)
  <2>1. Goto(t, "returned") /\ UNCHANGED <<client, outcome>> /\ pc[t] = "done"
    BY <1>14 DEF Return
  <2>2. HealthyAt("returned", outcome'[t], client')
    BY <1>2, <2>1 DEF HealthyAt
  <2> QED
    BY <1>1, <1>2, <2>1, <2>2, HealthyStep
<1> QED
  BY <1>4, <1>5, <1>6, <1>7, <1>8, <1>9, <1>10, <1>11, <1>12, <1>13, <1>14 DEF AcquireStep

(* Between the steps only the engine runs, and it makes room.              *)
LEMMA HealthyEngine ==
    ASSUME Faults = {}, SInv, HealthyInv, Engine
    PROVE  HealthyInv'
<1>1. /\ client.valid /\ client.running /\ client.padding > 0
      /\ client' = [client EXCEPT !.padding = @ - 1]
      /\ UNCHANGED <<config, pc, outcome>>
  BY DEF Engine, Plays, Loses, callVars
<1>2. client \in Client /\ GoodClient(client')
  BY EngineGood DEF Engine, SInv, IInv, TypeOK, GoodClient
<1>3. client'.valid /\ client'.running = client.running /\ client'.padding = client.padding - 1
  BY <1>1, <1>2 DEF Client
<1>4. ASSUME NEW t \in Threads PROVE HealthyAt(pc[t], outcome[t], client)'
  <2>1. HealthyAt(pc[t], outcome[t], client)
    BY DEF HealthyInv
  <2>2. pc[t] \notin {"reset", "start", "refresh"}
    BY <1>1, <2>1 DEF HealthyAt
  <2>3. Fits(client, outcome[t].retry_frames) => Fits(client', outcome[t].retry_frames)
    <3>1. outcome[t].retry_frames \in Nat
      BY BufferRecoveryAssumption DEF SInv, IInv, TypeOK, Outcome
    <3>2. client.padding \in Nat /\ Capacity \in Nat
      BY <1>2, CapacityAssumption DEF Client
    <3> QED
      BY <1>3, <3>1, <3>2 DEF Fits
  <2> QED
    BY <1>1, <2>1, <2>2, <2>3 DEF HealthyAt, RefusalExplained
<1> QED
  BY <1>3, <1>4 DEF HealthyInv

LEMMA HealthyNext ==
    ASSUME Faults = {}, SInv, PassInv, HealthyInv, [StreamNext]_allVars
    PROVE  HealthyInv'
<1>1. ASSUME UNCHANGED <<config, client, pc, outcome>> PROVE HealthyInv'
  BY <1>1 DEF HealthyInv, HealthyAt, RefusalExplained
<1>2. ASSUME client'.valid = client.valid, \A u \in Threads : pc'[u] \in {"idle", "initial"}
      PROVE  HealthyInv'
  BY <1>2 DEF HealthyInv, HealthyAt
<1>3. ASSUME NEW t \in Threads, Start(t) \/ Stop(t) \/ Reset(t) PROVE HealthyInv'
  <2>1. /\ UNCHANGED <<config, pc, outcome>> /\ client'.valid = client.valid
        /\ lock_ # NoThread => client' = client
    BY <1>3, Commands DEF coordinatorVars
  <2>2. CASE lock_ = NoThread
    <3>1. \A u \in Threads : pc'[u] \in {"idle", "initial"}
      BY <2>1, <2>2, NoneInside
    <3> QED
      BY <1>2, <2>1, <3>1
  <2>3. CASE lock_ # NoThread
    BY <1>1, <2>1, <2>3
  <2> QED
    BY <2>2, <2>3
<1>4. ASSUME NEW t \in Threads,
             (\E call \in Calls : Request(t, call)) \/ BeginRefused(t) \/ EndOutOfOrder(t)
      PROVE  HealthyInv'
  BY <1>1, <1>4, QuietActions DEF coordinatorVars, clientVars
<1>5. ASSUME NEW t \in Threads, BeginUpdatingAudioObjects(t) PROVE HealthyInv'
  <2>1. client' = client /\ pc' = [pc EXCEPT ![t] = "initial"] /\ lock_ = NoThread
    BY <1>5 DEF BeginUpdatingAudioObjects, Call, Goto
  <2>2. \A u \in Threads : pc'[u] \in {"idle", "initial"}
    BY <2>1, NoneInside DEF SInv, IInv, TypeOK
  <2> QED
    BY <1>2, <2>1, <2>2
<1>6. ASSUME NEW t \in Threads, FinishBegin(t) PROVE HealthyInv'
  <2>1. client' = client
    BY <1>6 DEF FinishBegin, clientVars
  <2>2. \A u \in Threads : pc'[u] \in {"idle", "initial"}
    BY <1>6, FinishOpens
  <2> QED
    BY <1>2, <2>1, <2>2
<1>7. ASSUME NEW t \in Threads, EndUpdatingAudioObjects(t) PROVE HealthyInv'
  <2>1. client'.valid = client.valid /\ pc' = pc /\ lock_ = NoThread
    BY <1>7, EndReleases DEF coordinatorVars
  <2>2. \A u \in Threads : pc'[u] \in {"idle", "initial"}
    BY <2>1, NoneInside
  <2> QED
    BY <1>2, <2>1, <2>2
<1>8. ASSUME NEW t \in Threads, Acquire(t) PROVE HealthyInv'
  BY <1>8, HealthyAcquire DEF Acquire
<1>9. CASE Surroundings
  BY <1>1, <1>9, HealthyEngine DEF Surroundings, Tick, clientVars, callVars
<1>10. CASE OtherStreamInjects \/ UNCHANGED allVars
  BY <1>1, <1>10 DEF OtherStreamInjects, coordinatorVars, clientVars, allVars
<1> QED
  BY <1>3, <1>4, <1>5, <1>6, <1>7, <1>8, <1>9, <1>10 DEF StreamNext, GameThread

(* On a device on which nothing can go wrong, whatever the game's threads  *)
(* call and wherever the engine is, a pass that gets no buffer was refused *)
(* one by the configuration or by the breaker.                             *)
THEOREM HealthyPassesSucceed ==
    ASSUME Faults = {}
    PROVE  StreamSpec => []HealthyPassSucceeds
<1>1. StreamInit => PassInv /\ HealthyInv
  BY DEF StreamInit, Init, PassInv, Owes, HealthyInv, HealthyAt, FreshClient
<1>2. SInv /\ PassInv /\ HealthyInv /\ [StreamNext]_allVars => HealthyInv'
  BY HealthyNext
<1>3. HealthyInv => HealthyPassSucceeds
  BY DEF HealthyInv, HealthyAt, RefusalExplained, HealthyPassSucceeds
<1> QED
  BY <1>1, <1>2, <1>3, StreamInitSInv, StreamNextSInv, PassNext, PTL DEF StreamSpec
===============================================================================
