------------------------- MODULE BufferRecoveryProofs -------------------------
(***************************************************************************)
(* Proofs about BufferRecovery, for every set of threads, every set of     *)
(* configurations, every buffer and period, and every bound on the clock.  *)
(***************************************************************************)
EXTENDS BufferRecovery, FiniteSetTheorems, TLAPS

(* What an answer of the client must be: typed, within the buffer.         *)
GoodClient(c) == c \in Client /\ c.padding + c.acquired <= Capacity
GoodAnswer(a) == a.hr \in Hr /\ GoodClient(a.client)

(* Every call on a good client gives good answers.                         *)
LEMMA GetBufferGood ==
    ASSUME NEW c, GoodClient(c), NEW frames \in 1..Period, NEW a \in GetBufferAnswers(c, frames)
    PROVE  /\ GoodAnswer(a)
           /\ a.hr = "Ok" => c.acquired = 0 /\ a.client.acquired = frames /\ a.client.valid
           /\ a.hr # "Ok" => a.client = c
           /\ a.client.running = c.running
<1>1. \/ a = Answer("Other", c)
      \/ a = Answer("TooLarge", c)
      \/ a = Answer("Ok", [c EXCEPT !.acquired = frames]) /\ c.acquired = 0 /\ Fits(c, frames) /\ c.valid
  BY DEF GetBufferAnswers, OrFailure
<1>2. CASE a = Answer("Other", c) \/ a = Answer("TooLarge", c)
  BY <1>2 DEF Answer, GoodAnswer, Hr
<1>3. CASE a = Answer("Ok", [c EXCEPT !.acquired = frames]) /\ c.acquired = 0 /\ Fits(c, frames) /\ c.valid
  BY <1>3, CapacityAssumption, BufferRecoveryAssumption DEF Answer, GoodAnswer, GoodClient, Client, Hr, Fits
<1> QED
  BY <1>1, <1>2, <1>3

LEMMA StopGood ==
    ASSUME NEW c, GoodClient(c), NEW a \in StopAnswers(c)
    PROVE  /\ GoodAnswer(a)
           /\ a.hr = "Ok" => ~a.client.running
           /\ a.hr # "Ok" => a.client = c
           /\ a.client.acquired = c.acquired /\ a.client.valid = c.valid
<1>1. a = Answer("Other", c) \/ a = Answer("Ok", [c EXCEPT !.running = FALSE])
  BY DEF StopAnswers, OrFailure
<1>2. CASE a = Answer("Other", c)
  BY <1>2 DEF Answer, GoodAnswer, Hr
<1>3. CASE a = Answer("Ok", [c EXCEPT !.running = FALSE])
  BY <1>3, CapacityAssumption DEF Answer, GoodAnswer, GoodClient, Client, Hr
<1> QED
  BY <1>1, <1>2, <1>3

LEMMA ResetGood ==
    ASSUME NEW c, GoodClient(c), NEW a \in ResetAnswers(c)
    PROVE  /\ GoodAnswer(a)
           /\ a.hr = "Ok" => ~a.client.running /\ ~c.running
           /\ a.hr # "Ok" => a.client = c
           /\ a.client.acquired = c.acquired /\ a.client.valid = c.valid
<1>1. a = Answer("Other", c) \/ (a = Answer("Ok", [c EXCEPT !.padding = 0]) /\ ~c.running)
  BY DEF ResetAnswers, OrFailure
<1>2. CASE a = Answer("Other", c)
  BY <1>2 DEF Answer, GoodAnswer, Hr
<1>3. CASE a = Answer("Ok", [c EXCEPT !.padding = 0]) /\ ~c.running
  BY <1>3, CapacityAssumption DEF Answer, GoodAnswer, GoodClient, Client, Hr
<1> QED
  BY <1>1, <1>2, <1>3

LEMMA StartGood ==
    ASSUME NEW c, GoodClient(c), NEW a \in StartAnswers(c)
    PROVE  /\ GoodAnswer(a)
           /\ a.hr = "Ok" => a.client.running
           /\ a.hr # "Ok" => a.client = c
           /\ a.client.acquired = c.acquired /\ a.client.valid = c.valid
<1>1. a = Answer("Other", c) \/ a = Answer("Ok", [c EXCEPT !.running = TRUE])
  BY DEF StartAnswers, OrFailure
<1>2. CASE a = Answer("Other", c)
  BY <1>2 DEF Answer, GoodAnswer, Hr
<1>3. CASE a = Answer("Ok", [c EXCEPT !.running = TRUE])
  BY <1>3, CapacityAssumption DEF Answer, GoodAnswer, GoodClient, Client, Hr
<1> QED
  BY <1>1, <1>2, <1>3

LEMMA EmptyHanded ==
    ASSUME NEW c \in Client
    PROVE  [c EXCEPT !.acquired = 0] \in Client
  BY CapacityAssumption DEF Client

LEMMA ReleaseGood ==
    ASSUME NEW c, GoodClient(c), NEW frames \in 1..Period, NEW a \in ReleaseBufferAnswers(c, frames)
    PROVE  /\ GoodAnswer(a)
           /\ a.client.running = c.running /\ a.client.valid = c.valid
           /\ c.valid /\ frames = c.acquired => a.client.acquired = 0
           /\ ~c.valid => a.client = c
<1> DEFINE d == [c EXCEPT !.padding = @ + frames, !.acquired = 0]
<1>1. \/ a = Answer("Other", c) /\ (~c.valid \/ c.acquired = 0 \/ frames > c.acquired)
      \/ a = Answer("Ok", d) /\ c.valid /\ frames <= c.acquired
  BY BufferRecoveryAssumption, CapacityAssumption DEF ReleaseBufferAnswers, GoodClient, Client
<1>2. CASE a = Answer("Other", c) /\ (~c.valid \/ c.acquired = 0 \/ frames > c.acquired)
  BY <1>2, BufferRecoveryAssumption, CapacityAssumption DEF Answer, GoodAnswer, GoodClient, Hr
<1>3. CASE a = Answer("Ok", d) /\ c.valid /\ frames <= c.acquired
  <2>1. a.hr = "Ok" /\ a.client = d
    BY <1>3 DEF Answer
  <2>2. /\ d.running = c.running /\ d.valid = c.valid /\ d.acquired = 0
        /\ d.padding = c.padding + frames
    BY DEF GoodClient, Client
  <2>3. GoodClient(d)
    <3>1. c.padding + frames \in 0..Capacity
      BY <1>3, BufferRecoveryAssumption, CapacityAssumption DEF GoodClient, Client
    <3>2. [c EXCEPT !.padding = c.padding + frames] \in Client
      BY <3>1 DEF GoodClient, Client
    <3>3. [[c EXCEPT !.padding = c.padding + frames] EXCEPT !.acquired = 0] \in Client
      BY <3>2, EmptyHanded
    <3>4. d \in Client
      BY <3>3 DEF GoodClient, Client
    <3> QED
      BY <2>2, <3>1, <3>4 DEF GoodClient
  <2> QED
    BY <1>3, <2>1, <2>2, <2>3 DEF GoodAnswer, Hr
<1> QED
  BY <1>1, <1>2, <1>3

LEMMA EngineGood ==
    ASSUME NEW c, GoodClient(c), NEW d, Plays(c, d) \/ Loses(c, d)
    PROVE  /\ GoodClient(d)
           /\ d.acquired = c.acquired /\ d.running = c.running
           /\ d.valid => c.valid
<1>1. CASE Plays(c, d)
  <2>1. d = [c EXCEPT !.padding = @ - 1] /\ c.padding > 0
    BY <1>1 DEF Plays
  <2>2. d.acquired = c.acquired /\ d.running = c.running /\ d.valid = c.valid
    BY <2>1 DEF GoodClient, Client
  <2>3. GoodClient(d)
    BY <2>1, CapacityAssumption DEF GoodClient, Client
  <2> QED
    BY <2>2, <2>3
<1>2. CASE Loses(c, d)
  <2>1. d = [c EXCEPT !.valid = FALSE]
    BY <1>2 DEF Loses
  <2>2. d.acquired = c.acquired /\ d.running = c.running /\ d.valid = FALSE
    BY <2>1 DEF GoodClient, Client
  <2>3. GoodClient(d)
    BY <2>1, CapacityAssumption DEF GoodClient, Client
  <2> QED
    BY <2>2, <2>3
<1> QED
  BY <1>1, <1>2

LEMMA RetryFramesType ==
    ASSUME NEW c, GoodClient(c), NEW report \in PaddingAnswers(c) \cup {[hr |-> "Ok", padding |-> Capacity]}
    PROVE  RetryFrames(report) \in 0..Period
  BY CapacityAssumption, BufferRecoveryAssumption
     DEF PaddingAnswers, RetryFrames, Smaller, GoodClient, Client

------------------------------------------------------------------------------
(* What the steps make of an outcome keeps its type.                       *)
LEMMA ReportType ==
    ASSUME NEW t \in Threads, NEW hr \in Hr, NEW frames \in 0..Period, NEW calls \in {0, 1},
           NEW retry_frames \in 0..Period, NEW flags \in SUBSET Flags,
           outcome \in [Threads -> Outcome], outcome[t].get_buffer_calls + calls <= 3,
           Report(t, hr, frames, calls, retry_frames, flags)
    PROVE  /\ outcome' \in [Threads -> Outcome]
           /\ outcome'[t].hr = hr
           /\ outcome'[t].frames = frames
           /\ outcome'[t].get_buffer_calls = outcome[t].get_buffer_calls + calls
           /\ outcome'[t].retry_frames = retry_frames
           /\ outcome'[t].flags = outcome[t].flags \cup flags
           /\ \A u \in Threads \ {t} : outcome'[u] = outcome[u]
  BY BufferRecoveryAssumption, CapacityAssumption DEF Report, Outcome

LEMMA AnsweredType ==
    ASSUME NEW t \in Threads, NEW hr \in Hr, NEW frames \in 1..Period, NEW calls \in {0, 1},
           NEW flags \in SUBSET Flags,
           outcome \in [Threads -> Outcome], outcome[t].get_buffer_calls + calls <= 3,
           Answered(t, hr, frames, calls, flags)
    PROVE  /\ outcome' \in [Threads -> Outcome]
           /\ outcome'[t].hr = hr
           /\ outcome'[t].frames = IF hr = "Ok" THEN frames ELSE 0
           /\ outcome'[t].get_buffer_calls = outcome[t].get_buffer_calls + calls
           /\ outcome'[t].retry_frames = outcome[t].retry_frames
           /\ \A u \in Threads \ {t} : outcome'[u] = outcome[u]
<1>1. outcome[t].retry_frames \in 0..Period
  BY DEF Outcome
<1>2. (IF hr = "Ok" THEN frames ELSE 0) \in 0..Period
  BY BufferRecoveryAssumption, CapacityAssumption
<1> QED
  BY <1>1, <1>2, ReportType DEF Answered

LEMMA SizedType ==
    ASSUME NEW t \in Threads, NEW frames \in 0..Period, NEW flags \in SUBSET Flags,
           outcome \in [Threads -> Outcome], Sized(t, frames, flags)
    PROVE  /\ outcome' \in [Threads -> Outcome]
           /\ outcome'[t].hr = outcome[t].hr
           /\ outcome'[t].frames = outcome[t].frames
           /\ outcome'[t].get_buffer_calls = outcome[t].get_buffer_calls
           /\ outcome'[t].retry_frames = frames
           /\ \A u \in Threads \ {t} : outcome'[u] = outcome[u]
<1>1. /\ outcome[t].hr \in Hr /\ outcome[t].frames \in 0..Period
      /\ outcome[t].get_buffer_calls \in 0..3
  BY DEF Outcome
<1>2. outcome[t].get_buffer_calls + 0 <= 3 /\ outcome[t].get_buffer_calls + 0 = outcome[t].get_buffer_calls
  BY <1>1
<1> QED
  BY <1>1, <1>2, ReportType DEF Sized

LEMMA MarkedType ==
    ASSUME NEW t \in Threads, NEW flags \in SUBSET Flags,
           outcome \in [Threads -> Outcome], Marked(t, flags)
    PROVE  /\ outcome' \in [Threads -> Outcome]
           /\ outcome'[t].hr = outcome[t].hr
           /\ outcome'[t].frames = outcome[t].frames
           /\ outcome'[t].get_buffer_calls = outcome[t].get_buffer_calls
           /\ outcome'[t].retry_frames = outcome[t].retry_frames
           /\ \A u \in Threads \ {t} : outcome'[u] = outcome[u]
<1>1. outcome[t].retry_frames \in 0..Period
  BY DEF Outcome
<1>2. Sized(t, outcome[t].retry_frames, flags)
  BY DEF Sized, Marked
<1> QED
  BY <1>1, <1>2, SizedType

------------------------------------------------------------------------------
(* What an outcome is when its call is at a step: blank before the first   *)
(* answer, TOO_LARGE and without frames until a retry, and in the end Ok   *)
(* exactly when there are frames.                                          *)
AllSteps == AcquireSteps \cup {"idle", "returned"}

CallOK(step, o) ==
    /\ step \in {"idle", "initial"} => o = BlankOutcome
    /\ step \in {"padding", "adaptive"} => o.hr = "TooLarge" /\ o.get_buffer_calls <= 1
    /\ step \in {"fallback", "check"} \cup RecoverySteps => o.hr = "TooLarge" /\ o.get_buffer_calls <= 2
    /\ step \in {"adaptive", "retry"} => o.retry_frames \in 1..Period
    /\ step \in {"done", "returned"} => (o.hr = "Ok" <=> o.frames # 0)
    /\ step \notin {"done", "returned"} => o.frames = 0

CallProgress == \A t \in Threads : CallOK(pc[t], outcome[t])

IInv == TypeOK /\ CallProgress

(* One thread moves; the calls of the others are as they were.             *)
LEMMA CallStep ==
    ASSUME IInv, NEW t \in Threads, NEW step \in AllSteps, Goto(t, step),
           outcome' \in [Threads -> Outcome], \A u \in Threads \ {t} : outcome'[u] = outcome[u],
           CallOK(step, outcome'[t])
    PROVE  /\ pc' \in [Threads -> AllSteps]
           /\ CallProgress'
<1>1. pc \in [Threads -> AllSteps]
  BY DEF IInv, TypeOK, AllSteps
<1>2. /\ pc' \in [Threads -> AllSteps]
      /\ pc'[t] = step
      /\ \A u \in Threads \ {t} : pc'[u] = pc[u]
  BY <1>1 DEF Goto
<1>3. ASSUME NEW u \in Threads PROVE CallOK(pc'[u], outcome'[u])
  <2>1. CASE u = t
    BY <1>2, <2>1
  <2>2. CASE u # t
    <3>1. pc'[u] = pc[u] /\ outcome'[u] = outcome[u]
      BY <1>2, <2>2
    <3> QED
      BY <3>1 DEF IInv, CallProgress
  <2> QED
    BY <2>1, <2>2
<1> QED
  BY <1>2, <1>3 DEF CallProgress

LEMMA CallKeeps ==
    ASSUME IInv, NEW t \in Threads, NEW injected \in BOOLEAN, Call(t, injected)
    PROVE  IInv'
<1>1. /\ outcome' = outcome /\ pc[t] = "idle" /\ outcome \in [Threads -> Outcome]
      /\ Goto(t, "initial")
  BY DEF Call, IInv, TypeOK
<1>2. CallOK("idle", outcome[t])
  BY <1>1 DEF IInv, CallProgress
<1>3. CallOK("initial", outcome'[t])
  BY <1>1, <1>2 DEF CallOK, BlankOutcome, RecoverySteps
<1>4. pc' \in [Threads -> AllSteps] /\ CallProgress'
  BY <1>1, <1>3, CallStep DEF AllSteps, AcquireSteps
<1>5. inject' \in [Threads -> BOOLEAN]
  BY DEF Call, IInv, TypeOK
<1> QED
  BY <1>1, <1>4, <1>5 DEF Call, IInv, TypeOK, AllSteps

LEMMA InitialGetBufferKeeps ==
    ASSUME IInv, NEW t \in Threads, InitialGetBuffer(t)
    PROVE  IInv'
<1>1. PICK a \in IF inject[t] THEN {Answer("TooLarge", client)} ELSE GetBufferAnswers(client, Period) :
          /\ client' = a.client
          /\ Answered(t, a.hr, Period, IF inject[t] THEN 0 ELSE 1, {})
          /\ Goto(t, AfterInitial(a.hr))
  BY DEF InitialGetBuffer
<1>2. GoodClient(client) /\ Period \in 1..Period /\ pc[t] = "initial"
  BY BufferRecoveryAssumption, CapacityAssumption DEF IInv, TypeOK, GoodClient, InitialGetBuffer
<1>3. GoodAnswer(a)
  BY <1>1, <1>2, GetBufferGood DEF GoodAnswer, Answer, Hr
<1>4. outcome[t] = BlankOutcome /\ outcome \in [Threads -> Outcome]
  BY <1>2 DEF IInv, CallProgress, CallOK, TypeOK
<1> DEFINE calls == IF inject[t] THEN 0 ELSE 1
<1>5. calls \in {0, 1} /\ outcome[t].get_buffer_calls + calls <= 3
      /\ outcome[t].get_buffer_calls + calls <= 1
  BY <1>4 DEF BlankOutcome
<1>6. /\ outcome' \in [Threads -> Outcome]
      /\ outcome'[t].hr = a.hr
      /\ outcome'[t].frames = IF a.hr = "Ok" THEN Period ELSE 0
      /\ outcome'[t].get_buffer_calls <= 1
      /\ \A u \in Threads \ {t} : outcome'[u] = outcome[u]
  <2>1. {} \in SUBSET Flags /\ a.hr \in Hr
    BY <1>3 DEF GoodAnswer
  <2> HIDE DEF calls
  <2>2. Answered(t, a.hr, Period, calls, {})
    BY <1>1 DEF calls
  <2> QED
    BY <1>2, <1>4, <1>5, <2>1, <2>2, AnsweredType
<1>7. AfterInitial(a.hr) \in {"done", "padding", "fallback"} /\ (AfterInitial(a.hr) # "done" => a.hr = "TooLarge")
  BY DEF AfterInitial
<1>8. CallOK(AfterInitial(a.hr), outcome'[t])
  BY <1>6, <1>7, BufferRecoveryAssumption, CapacityAssumption DEF CallOK, RecoverySteps, Outcome
<1>9. pc' \in [Threads -> AllSteps] /\ CallProgress'
  BY <1>1, <1>6, <1>7, <1>8, CallStep DEF AllSteps, AcquireSteps
<1> QED
  BY <1>1, <1>3, <1>6, <1>9 DEF InitialGetBuffer, IInv, TypeOK, AllSteps, GoodAnswer, GoodClient

LEMMA ReadPaddingKeeps ==
    ASSUME IInv, NEW t \in Threads, ReadPadding(t)
    PROVE  IInv'
<1>1. PICK report \in IF inject[t] /\ config.fault_inject_zero_availability
                      THEN {[hr |-> "Ok", padding |-> Capacity]} ELSE PaddingAnswers(client) :
          /\ Sized(t, RetryFrames(report), {})
          /\ Goto(t, IF RetryFrames(report) > 0 THEN "adaptive" ELSE "fallback")
  BY DEF ReadPadding
<1> DEFINE step == IF RetryFrames(report) > 0 THEN "adaptive" ELSE "fallback"
<1>2. /\ GoodClient(client) /\ outcome \in [Threads -> Outcome] /\ pc[t] = "padding"
      /\ CallOK("padding", outcome[t])
  BY DEF IInv, TypeOK, GoodClient, ReadPadding, CallProgress
<1>3. RetryFrames(report) \in 0..Period
  BY <1>2, RetryFramesType
<1>4. /\ outcome' \in [Threads -> Outcome]
      /\ outcome'[t].hr = outcome[t].hr
      /\ outcome'[t].frames = outcome[t].frames
      /\ outcome'[t].get_buffer_calls = outcome[t].get_buffer_calls
      /\ outcome'[t].retry_frames = RetryFrames(report)
      /\ \A u \in Threads \ {t} : outcome'[u] = outcome[u]
  BY <1>1, <1>2, <1>3, SizedType
<1>5. step \in {"adaptive", "fallback"} /\ (step = "adaptive" => RetryFrames(report) \in 1..Period)
  BY <1>3, BufferRecoveryAssumption, CapacityAssumption
<1>6. outcome[t].get_buffer_calls \in 0..3
  BY <1>2 DEF Outcome
<1>7. CallOK(step, outcome'[t])
  <2> HIDE DEF step
  <2> QED
    BY <1>2, <1>4, <1>5, <1>6 DEF CallOK, RecoverySteps
<1>8. pc' \in [Threads -> AllSteps] /\ CallProgress'
  BY <1>1, <1>4, <1>5, <1>7, CallStep DEF AllSteps, AcquireSteps
<1> QED
  BY <1>4, <1>8 DEF ReadPadding, IInv, TypeOK, AllSteps

(* A retry, adaptive or final: GetBuffer for the frames that were sized.   *)
LEMMA RetryAnswers ==
    ASSUME IInv, NEW t \in Threads, pc[t] \in {"adaptive", "retry"},
           NEW a \in GetBufferAnswers(client, outcome[t].retry_frames),
           NEW flags \in SUBSET Flags,
           Answered(t, a.hr, outcome[t].retry_frames, 1, flags)
    PROVE  /\ GoodAnswer(a)
           /\ outcome' \in [Threads -> Outcome]
           /\ outcome'[t].hr = a.hr
           /\ outcome'[t].frames = IF a.hr = "Ok" THEN outcome[t].retry_frames ELSE 0
           /\ outcome[t].retry_frames \in 1..Period
           /\ outcome'[t].get_buffer_calls = outcome[t].get_buffer_calls + 1
           /\ outcome[t].get_buffer_calls \in Nat
           /\ \A u \in Threads \ {t} : outcome'[u] = outcome[u]
<1>1. /\ GoodClient(client) /\ outcome \in [Threads -> Outcome]
      /\ CallOK(pc[t], outcome[t])
  BY DEF IInv, TypeOK, GoodClient, CallProgress
<1>2. outcome[t].get_buffer_calls \in 0..3
  BY <1>1 DEF Outcome
<1>3. outcome[t].retry_frames \in 1..Period /\ outcome[t].get_buffer_calls <= 2
  BY <1>1, <1>2 DEF CallOK, RecoverySteps
<1>4. GoodAnswer(a)
  BY <1>1, <1>3, GetBufferGood
<1>5. outcome[t].get_buffer_calls + 1 <= 3 /\ 1 \in {0, 1} /\ a.hr \in Hr
  BY <1>2, <1>3, <1>4 DEF GoodAnswer
<1> QED
  BY <1>1, <1>2, <1>3, <1>4, <1>5, AnsweredType

LEMMA AdaptiveRetryKeeps ==
    ASSUME IInv, NEW t \in Threads, AdaptiveRetry(t)
    PROVE  IInv'
<1>1. PICK a \in GetBufferAnswers(client, outcome[t].retry_frames) :
          /\ client' = a.client
          /\ Answered(t, a.hr, outcome[t].retry_frames, 1, {})
          /\ Goto(t, IF a.hr = "TooLarge" THEN "fallback" ELSE "done")
  BY DEF AdaptiveRetry
<1>2. pc[t] = "adaptive" /\ CallOK("adaptive", outcome[t]) /\ {} \in SUBSET Flags
  BY DEF AdaptiveRetry, IInv, CallProgress
<1>3. /\ GoodAnswer(a)
      /\ outcome' \in [Threads -> Outcome]
      /\ outcome'[t].hr = a.hr
      /\ outcome'[t].frames = IF a.hr = "Ok" THEN outcome[t].retry_frames ELSE 0
      /\ outcome[t].retry_frames \in 1..Period
      /\ outcome'[t].get_buffer_calls = outcome[t].get_buffer_calls + 1
      /\ outcome[t].get_buffer_calls \in Nat
      /\ \A u \in Threads \ {t} : outcome'[u] = outcome[u]
  BY <1>1, <1>2, RetryAnswers
<1> DEFINE step == IF a.hr = "TooLarge" THEN "fallback" ELSE "done"
<1>4. CallOK(step, outcome'[t])
  BY <1>2, <1>3, BufferRecoveryAssumption, CapacityAssumption DEF CallOK, RecoverySteps
<1>5. pc' \in [Threads -> AllSteps] /\ CallProgress'
  BY <1>1, <1>3, <1>4, CallStep DEF AllSteps, AcquireSteps
<1> QED
  BY <1>1, <1>3, <1>5 DEF AdaptiveRetry, IInv, TypeOK, AllSteps, GoodAnswer, GoodClient

LEMMA FinalGetBufferKeeps ==
    ASSUME IInv, NEW t \in Threads, FinalGetBuffer(t)
    PROVE  IInv'
<1>1. PICK a \in GetBufferAnswers(client, outcome[t].retry_frames) :
          /\ client' = a.client
          /\ Answered(t, a.hr, outcome[t].retry_frames, 1,
                      IF a.hr = "Ok" THEN {"recovery_succeeded"} ELSE {"recovery_failed"})
          /\ Goto(t, "done")
  BY DEF FinalGetBuffer
<1> DEFINE flags == IF a.hr = "Ok" THEN {"recovery_succeeded"} ELSE {"recovery_failed"}
<1>2. pc[t] = "retry" /\ flags \in SUBSET Flags
  BY DEF FinalGetBuffer, Flags
<1>3. /\ GoodAnswer(a)
      /\ outcome' \in [Threads -> Outcome]
      /\ outcome'[t].hr = a.hr
      /\ outcome'[t].frames = IF a.hr = "Ok" THEN outcome[t].retry_frames ELSE 0
      /\ outcome[t].retry_frames \in 1..Period
      /\ \A u \in Threads \ {t} : outcome'[u] = outcome[u]
  <2>1. Answered(t, a.hr, outcome[t].retry_frames, 1, flags)
    BY <1>1
  <2> HIDE DEF flags
  <2> QED
    BY <1>1, <1>2, <2>1, RetryAnswers
<1>4. CallOK("done", outcome'[t])
  BY <1>3, BufferRecoveryAssumption, CapacityAssumption DEF CallOK, RecoverySteps
<1>5. pc' \in [Threads -> AllSteps] /\ CallProgress'
  BY <1>1, <1>3, <1>4, CallStep DEF AllSteps, AcquireSteps
<1> QED
  BY <1>1, <1>3, <1>5 DEF FinalGetBuffer, IInv, TypeOK, AllSteps, GoodAnswer, GoodClient

(* A step that raises flags at most, on the original TOO_LARGE.            *)
MarkSteps == {"fallback", "check", "stop", "reset", "start"}

LEMMA MarkedKeeps ==
    ASSUME IInv, NEW t \in Threads, pc[t] \in MarkSteps,
           NEW step \in {"check", "stop", "reset", "start", "refresh", "done"}, Goto(t, step),
           NEW flags \in SUBSET Flags, Marked(t, flags)
    PROVE  /\ outcome' \in [Threads -> Outcome]
           /\ pc' \in [Threads -> AllSteps]
           /\ CallProgress'
<1>1. outcome \in [Threads -> Outcome] /\ CallOK(pc[t], outcome[t])
  BY DEF IInv, TypeOK, CallProgress
<1>2. outcome[t].hr = "TooLarge" /\ outcome[t].get_buffer_calls <= 2 /\ outcome[t].frames = 0
  BY <1>1 DEF CallOK, RecoverySteps, MarkSteps
<1>3. /\ outcome' \in [Threads -> Outcome]
      /\ outcome'[t].hr = outcome[t].hr
      /\ outcome'[t].frames = outcome[t].frames
      /\ outcome'[t].get_buffer_calls = outcome[t].get_buffer_calls
      /\ \A u \in Threads \ {t} : outcome'[u] = outcome[u]
  BY <1>1, MarkedType
<1>4. CallOK(step, outcome'[t])
  BY <1>2, <1>3 DEF CallOK, RecoverySteps
<1>5. step \in AllSteps
  BY DEF AllSteps, AcquireSteps, RecoverySteps
<1> QED
  BY <1>3, <1>4, <1>5, CallStep

LEMMA FallbackOffKeeps ==
    ASSUME IInv, NEW t \in Threads, FallbackOff(t)
    PROVE  IInv'
<1>1. /\ outcome' = outcome /\ Goto(t, "done") /\ outcome \in [Threads -> Outcome]
      /\ CallOK("fallback", outcome[t])
  BY DEF FallbackOff, IInv, TypeOK, CallProgress
<1>2. CallOK("done", outcome'[t])
  BY <1>1 DEF CallOK, RecoverySteps
<1>3. pc' \in [Threads -> AllSteps] /\ CallProgress'
  BY <1>1, <1>2, CallStep DEF AllSteps, AcquireSteps
<1> QED
  BY <1>1, <1>3 DEF FallbackOff, IInv, TypeOK, AllSteps

LEMMA FallbackRefusedKeeps ==
    ASSUME IInv, NEW t \in Threads, FallbackRefused(t)
    PROVE  IInv'
<1>1. pc[t] \in MarkSteps /\ Goto(t, "done") /\ Marked(t, {"circuit_breaker_open"})
  BY DEF FallbackRefused, MarkSteps
<1>2. {"circuit_breaker_open"} \in SUBSET Flags
  BY DEF Flags
<1>3. outcome' \in [Threads -> Outcome] /\ pc' \in [Threads -> AllSteps] /\ CallProgress'
  BY <1>1, <1>2, MarkedKeeps
<1> QED
  BY <1>3 DEF FallbackRefused, IInv, TypeOK, AllSteps

LEMMA EnterGateKeeps ==
    ASSUME IInv, NEW t \in Threads, EnterGate(t)
    PROVE  IInv'
<1>1. /\ outcome' = outcome /\ Goto(t, "check") /\ outcome \in [Threads -> Outcome]
      /\ CallOK("fallback", outcome[t])
  BY DEF EnterGate, IInv, TypeOK, CallProgress
<1>2. CallOK("check", outcome'[t])
  BY <1>1 DEF CallOK, RecoverySteps
<1>3. pc' \in [Threads -> AllSteps] /\ CallProgress'
  BY <1>1, <1>2, CallStep DEF AllSteps, AcquireSteps
<1> QED
  BY <1>1, <1>3 DEF EnterGate, IInv, TypeOK, AllSteps

LEMMA CheckRefusesKeeps ==
    ASSUME IInv, NEW t \in Threads, CheckRefuses(t)
    PROVE  IInv'
<1>1. pc[t] \in MarkSteps /\ Goto(t, "done") /\ Marked(t, {"circuit_breaker_open"})
  BY DEF CheckRefuses, MarkSteps
<1>2. {"circuit_breaker_open"} \in SUBSET Flags
  BY DEF Flags
<1>3. outcome' \in [Threads -> Outcome] /\ pc' \in [Threads -> AllSteps] /\ CallProgress'
  BY <1>1, <1>2, MarkedKeeps
<1>4. recovery_timestamps_' \subseteq 1..Len(starts')
  BY DEF CheckRefuses, Retained, IInv, TypeOK
<1> QED
  BY <1>3, <1>4 DEF CheckRefuses, IInv, TypeOK, AllSteps

LEMMA CheckStartsKeeps ==
    ASSUME IInv, NEW t \in Threads, CheckStarts(t)
    PROVE  IInv'
<1>1. pc[t] \in MarkSteps /\ Goto(t, "stop") /\ Marked(t, {"recovery_started"})
  BY DEF CheckStarts, MarkSteps
<1>2. {"recovery_started"} \in SUBSET Flags
  BY DEF Flags
<1>3. outcome' \in [Threads -> Outcome] /\ pc' \in [Threads -> AllSteps] /\ CallProgress'
  BY <1>1, <1>2, MarkedKeeps
<1>4. starts \in Seq(0..MaxTime) /\ now \in 0..MaxTime /\ starts' = Append(starts, now)
      /\ recovery_timestamps_ \subseteq 1..Len(starts)
      /\ recovery_timestamps_' = Retained \cup {Len(starts) + 1}
  BY DEF CheckStarts, IInv, TypeOK
<1>5. starts' \in Seq(0..MaxTime) /\ Len(starts') = Len(starts) + 1 /\ Len(starts) \in Nat
  BY <1>4
<1>6. recovery_timestamps_' \subseteq 1..Len(starts')
  <2>1. recovery_timestamps_' \subseteq recovery_timestamps_ \cup {Len(starts) + 1}
    BY <1>4 DEF Retained
  <2>2. ASSUME NEW i \in recovery_timestamps_' PROVE i \in 1..Len(starts')
    BY <1>4, <1>5, <2>1
  <2> QED
    BY <2>2
<1> QED
  BY <1>3, <1>5, <1>6 DEF CheckStarts, IInv, TypeOK, AllSteps

LEMMA StopClientKeeps ==
    ASSUME IInv, NEW t \in Threads, StopClient(t)
    PROVE  IInv'
<1>1. PICK a \in StopAnswers(client) :
          /\ client' = a.client
          /\ started_' = IF a.hr = "Ok" THEN FALSE ELSE started_
          /\ Marked(t, FailedUnless(a.hr))
          /\ Goto(t, IF a.hr = "Ok" THEN "reset" ELSE "done")
  BY DEF StopClient
<1>2. GoodClient(client) /\ pc[t] \in MarkSteps
  BY DEF StopClient, MarkSteps, IInv, TypeOK, GoodClient
<1>3. GoodAnswer(a)
  BY <1>1, <1>2, StopGood
<1>4. FailedUnless(a.hr) \in SUBSET Flags
  BY DEF FailedUnless, Flags
<1>5. outcome' \in [Threads -> Outcome] /\ pc' \in [Threads -> AllSteps] /\ CallProgress'
  BY <1>1, <1>2, <1>4, MarkedKeeps
<1>6. started_' \in BOOLEAN
  BY <1>1 DEF IInv, TypeOK
<1> QED
  BY <1>1, <1>3, <1>5, <1>6 DEF StopClient, IInv, TypeOK, AllSteps, GoodAnswer, GoodClient

LEMMA ResetClientKeeps ==
    ASSUME IInv, NEW t \in Threads, ResetClient(t)
    PROVE  IInv'
<1>1. PICK a \in ResetAnswers(client) :
          /\ client' = a.client
          /\ started_' = IF a.hr = "Ok" THEN FALSE ELSE started_
          /\ Marked(t, IF a.hr = "Ok" THEN {"reset_succeeded"} ELSE {"recovery_failed"})
          /\ Goto(t, IF a.hr = "Ok" THEN "start" ELSE "done")
  BY DEF ResetClient
<1> DEFINE flags == IF a.hr = "Ok" THEN {"reset_succeeded"} ELSE {"recovery_failed"}
<1>2. GoodClient(client) /\ pc[t] \in MarkSteps
  BY DEF ResetClient, MarkSteps, IInv, TypeOK, GoodClient
<1>3. GoodAnswer(a)
  BY <1>1, <1>2, ResetGood
<1>4. flags \in SUBSET Flags
  BY DEF Flags
<1>5. outcome' \in [Threads -> Outcome] /\ pc' \in [Threads -> AllSteps] /\ CallProgress'
  <2>1. Marked(t, flags)
    BY <1>1
  <2> HIDE DEF flags
  <2> QED
    BY <1>1, <1>2, <1>4, <2>1, MarkedKeeps
<1>6. started_' \in BOOLEAN
  BY <1>1 DEF IInv, TypeOK
<1> QED
  BY <1>1, <1>3, <1>5, <1>6 DEF ResetClient, IInv, TypeOK, AllSteps, GoodAnswer, GoodClient

LEMMA StartClientKeeps ==
    ASSUME IInv, NEW t \in Threads, StartClient(t)
    PROVE  IInv'
<1>1. PICK a \in StartAnswers(client) :
          /\ client' = a.client
          /\ started_' = StartedStateAfterStartResult(started_, a.hr)
          /\ Marked(t, FailedUnless(a.hr))
          /\ Goto(t, IF a.hr = "Ok" THEN "refresh" ELSE "done")
  BY DEF StartClient
<1>2. GoodClient(client) /\ pc[t] \in MarkSteps
  BY DEF StartClient, MarkSteps, IInv, TypeOK, GoodClient
<1>3. GoodAnswer(a)
  BY <1>1, <1>2, StartGood
<1>4. FailedUnless(a.hr) \in SUBSET Flags
  BY DEF FailedUnless, Flags
<1>5. outcome' \in [Threads -> Outcome] /\ pc' \in [Threads -> AllSteps] /\ CallProgress'
  BY <1>1, <1>2, <1>4, MarkedKeeps
<1>6. started_' \in BOOLEAN
  BY <1>1 DEF IInv, TypeOK, StartedStateAfterStartResult
<1> QED
  BY <1>1, <1>3, <1>5, <1>6 DEF StartClient, IInv, TypeOK, AllSteps, GoodAnswer, GoodClient

LEMMA RefreshPaddingKeeps ==
    ASSUME IInv, NEW t \in Threads, RefreshPadding(t)
    PROVE  IInv'
<1>1. PICK report \in PaddingAnswers(client) :
          /\ Sized(t, RetryFrames(report), IF RetryFrames(report) > 0 THEN {} ELSE {"recovery_failed"})
          /\ Goto(t, IF RetryFrames(report) > 0 THEN "retry" ELSE "done")
  BY DEF RefreshPadding
<1> DEFINE step == IF RetryFrames(report) > 0 THEN "retry" ELSE "done"
           flags == IF RetryFrames(report) > 0 THEN {} ELSE {"recovery_failed"}
<1>2. /\ GoodClient(client) /\ outcome \in [Threads -> Outcome] /\ pc[t] = "refresh"
      /\ CallOK("refresh", outcome[t])
  BY DEF IInv, TypeOK, GoodClient, RefreshPadding, CallProgress
<1>3. RetryFrames(report) \in 0..Period /\ flags \in SUBSET Flags
  BY <1>2, RetryFramesType DEF Flags
<1>4. /\ outcome' \in [Threads -> Outcome]
      /\ outcome'[t].hr = outcome[t].hr
      /\ outcome'[t].frames = outcome[t].frames
      /\ outcome'[t].get_buffer_calls = outcome[t].get_buffer_calls
      /\ outcome'[t].retry_frames = RetryFrames(report)
      /\ \A u \in Threads \ {t} : outcome'[u] = outcome[u]
  <2>1. Sized(t, RetryFrames(report), flags)
    BY <1>1
  <2> HIDE DEF flags
  <2> QED
    BY <1>2, <1>3, <2>1, SizedType
<1>5. step \in {"retry", "done"} /\ (step = "retry" => RetryFrames(report) \in 1..Period)
  BY <1>3, BufferRecoveryAssumption, CapacityAssumption
<1>6. outcome[t].get_buffer_calls \in 0..3
  BY <1>2 DEF Outcome
<1>7. CallOK(step, outcome'[t])
  <2> HIDE DEF step
  <2> QED
    BY <1>2, <1>4, <1>5, <1>6 DEF CallOK, RecoverySteps
<1>8. pc' \in [Threads -> AllSteps] /\ CallProgress'
  BY <1>1, <1>4, <1>5, <1>7, CallStep DEF AllSteps, AcquireSteps, RecoverySteps
<1> QED
  BY <1>4, <1>8 DEF RefreshPadding, IInv, TypeOK, AllSteps

LEMMA ReturnKeeps ==
    ASSUME IInv, NEW t \in Threads, Return(t)
    PROVE  IInv'
<1>1. /\ outcome' = outcome /\ Goto(t, "returned") /\ outcome \in [Threads -> Outcome]
      /\ CallOK("done", outcome[t])
  BY DEF Return, IInv, TypeOK, CallProgress
<1>2. CallOK("returned", outcome'[t])
  BY <1>1 DEF CallOK, RecoverySteps
<1>3. pc' \in [Threads -> AllSteps] /\ CallProgress'
  BY <1>1, <1>2, CallStep DEF AllSteps, AcquireSteps
<1> QED
  BY <1>1, <1>3 DEF Return, IInv, TypeOK, AllSteps

(* Taking an outcome leaves the thread's call blank.                       *)
LEMMA TakeOutcomeKeeps ==
    ASSUME IInv, NEW t \in Threads, TakeOutcome(t)
    PROVE  /\ outcome' \in [Threads -> Outcome]
           /\ outcome'[t] = BlankOutcome
           /\ \A u \in Threads \ {t} : outcome'[u] = outcome[u]
           /\ pc' \in [Threads -> AllSteps] /\ CallProgress'
           /\ inject' \in [Threads -> BOOLEAN]
<1>1. /\ Goto(t, "idle") /\ outcome \in [Threads -> Outcome]
      /\ outcome' = [outcome EXCEPT ![t] = BlankOutcome]
  BY DEF TakeOutcome, IInv, TypeOK
<1>2. /\ outcome' \in [Threads -> Outcome]
      /\ outcome'[t] = BlankOutcome
      /\ \A u \in Threads \ {t} : outcome'[u] = outcome[u]
  <2>1. BlankOutcome \in Outcome
    BY BufferRecoveryAssumption, CapacityAssumption DEF BlankOutcome, Outcome, Hr
  <2> QED
    BY <1>1, <2>1
<1>3. CallOK("idle", outcome'[t])
  BY <1>2 DEF CallOK, BlankOutcome, RecoverySteps
<1>4. pc' \in [Threads -> AllSteps] /\ CallProgress'
  BY <1>1, <1>2, <1>3, CallStep DEF AllSteps, AcquireSteps
<1>5. inject' \in [Threads -> BOOLEAN]
  BY DEF TakeOutcome, IInv, TypeOK
<1> QED
  BY <1>2, <1>4, <1>5

LEMMA UseBufferKeeps ==
    ASSUME IInv, NEW t \in Threads, UseBuffer(t)
    PROVE  IInv'
<1>1. /\ pc[t] = "returned" /\ TakeOutcome(t)
      /\ GoodClient(client) /\ CallOK("returned", outcome[t]) /\ outcome[t].frames \in 0..Period
  BY DEF UseBuffer, TakeOutcome, IInv, TypeOK, CallProgress, GoodClient, Outcome
<1>2. /\ outcome' \in [Threads -> Outcome]
      /\ pc' \in [Threads -> AllSteps] /\ CallProgress'
      /\ inject' \in [Threads -> BOOLEAN]
  BY <1>1, TakeOutcomeKeeps
<1>3. GoodClient(client')
  <2>1. CASE outcome[t].hr = "Ok"
    <3>1. outcome[t].frames \in 1..Period
      BY <1>1, <2>1, BufferRecoveryAssumption, CapacityAssumption DEF CallOK
    <3>2. PICK a \in ReleaseBufferAnswers(client, outcome[t].frames) : client' = a.client
      BY <2>1 DEF UseBuffer
    <3> QED
      BY <1>1, <3>1, <3>2, ReleaseGood DEF GoodAnswer
  <2>2. CASE outcome[t].hr # "Ok"
    BY <1>1, <2>2 DEF UseBuffer
  <2> QED
    BY <2>1, <2>2
<1> QED
  BY <1>2, <1>3 DEF UseBuffer, breakerVars, IInv, TypeOK, AllSteps, GoodClient

(* Nothing else changes a call.                                            *)
LEMMA SurroundingsKeep ==
    ASSUME IInv, Engine \/ Tick \/ UNCHANGED vars
    PROVE  IInv'
<1>1. CASE Engine
  <2>1. GoodClient(client')
    BY <1>1, EngineGood DEF Engine, IInv, TypeOK, GoodClient
  <2> QED
    BY <1>1, <2>1 DEF Engine, breakerVars, callVars, IInv, TypeOK, CallProgress, GoodClient
<1>2. CASE Tick
  BY <1>2, BufferRecoveryAssumption DEF Tick, clientVars, breakerVars, callVars, IInv, TypeOK, CallProgress
<1>3. CASE UNCHANGED vars
  BY <1>3 DEF vars, IInv, TypeOK, CallProgress
<1> QED
  BY <1>1, <1>2, <1>3

LEMMA InitIInv == Init => IInv
<1> SUFFICES ASSUME Init PROVE IInv
  OBVIOUS
<1>1. GoodClient(client)
  <2>1. FreshClient \in Client /\ FreshClient.padding = 0 /\ FreshClient.acquired = 0
    BY CapacityAssumption DEF FreshClient, Client
  <2> QED
    BY <2>1, CapacityAssumption DEF Init, GoodClient, Client
<1>2. BlankOutcome \in Outcome
  BY BufferRecoveryAssumption, CapacityAssumption DEF BlankOutcome, Outcome, Hr
<1>3. outcome \in [Threads -> Outcome] /\ \A t \in Threads : pc[t] = "idle" /\ outcome[t] = BlankOutcome
  BY <1>2 DEF Init
<1>4. CallOK("idle", BlankOutcome)
  BY DEF CallOK, BlankOutcome, RecoverySteps
<1>5. CallProgress
  BY <1>3, <1>4 DEF CallProgress
<1>6. recovery_timestamps_ \subseteq 1..Len(starts) /\ starts \in Seq(0..MaxTime) /\ now \in 0..MaxTime
  BY BufferRecoveryAssumption DEF Init
<1>7. pc \in [Threads -> AcquireSteps \cup {"idle", "returned"}] /\ inject \in [Threads -> BOOLEAN]
  BY DEF Init
<1> QED
  BY <1>1, <1>3, <1>5, <1>6, <1>7 DEF Init, IInv, TypeOK, GoodClient

LEMMA NextIInv == IInv /\ [Next]_vars => IInv'
<1> SUFFICES ASSUME IInv, [Next]_vars PROVE IInv'
  OBVIOUS
<1>1. CASE Engine \/ Tick \/ UNCHANGED vars
  BY <1>1, SurroundingsKeep
<1>2. ASSUME NEW t \in Threads, CallAcquire(t) PROVE IInv'
  <2>1. config.enabled \in BOOLEAN
    BY BufferRecoveryAssumption DEF IInv, TypeOK, Config
  <2>2. PICK injected \in BOOLEAN : Call(t, injected)
    BY <1>2, <2>1 DEF CallAcquire
  <2> QED
    BY <2>2, CallKeeps
<1>3. ASSUME NEW t \in Threads, AcquireStep(t) PROVE IInv'
  BY <1>3, InitialGetBufferKeeps, ReadPaddingKeeps, AdaptiveRetryKeeps, FallbackOffKeeps,
     FallbackRefusedKeeps, EnterGateKeeps, CheckRefusesKeeps, CheckStartsKeeps, StopClientKeeps,
     ResetClientKeeps, StartClientKeeps, RefreshPaddingKeeps, FinalGetBufferKeeps, ReturnKeeps
  DEF AcquireStep
<1>4. ASSUME NEW t \in Threads, UseBuffer(t) PROVE IInv'
  BY <1>4, UseBufferKeeps
<1> QED
  BY <1>1, <1>2, <1>3, <1>4 DEF Next

(* The recovery state machine keeps its types and never has more frames    *)
(* queued and handed out than the endpoint buffer holds.                   *)
THEOREM TypeCorrect == Spec => []TypeOK
<1>1. IInv => TypeOK
  BY DEF IInv
<1> QED
  BY <1>1, InitIInv, NextIInv, PTL DEF Spec

------------------------------------------------------------------------------
(* The gate.  A step of one thread keeps it when it stays outside, goes on *)
(* inside, takes a clear gate, or gives its own back.                      *)
InsideSteps == {"check"} \cup RecoverySteps

LEMMA GateStep ==
    ASSUME IInv, GateDiscipline, NEW t \in Threads, NEW step \in AllSteps, Goto(t, step),
           \/ ~Inside(t) /\ pc[t] # "done" /\ step \notin InsideSteps /\ recovery_gate_' = recovery_gate_
           \/ Inside(t) /\ step \in InsideSteps \cup {"done"} /\ recovery_gate_' = recovery_gate_
           \/ recovery_gate_ = NoThread /\ recovery_gate_' = t /\ step = "check"
           \/ /\ pc[t] = "done" /\ step = "returned"
              /\ recovery_gate_' = IF recovery_gate_ = t THEN NoThread ELSE recovery_gate_
    PROVE  GateDiscipline'
<1>1. pc'[t] = step /\ \A u \in Threads \ {t} : pc'[u] = pc[u]
  BY DEF Goto, IInv, TypeOK
<1>2. NoThread \notin Threads
  BY BufferRecoveryAssumption
<1>3. ASSUME NEW u \in Threads
      PROVE  /\ Inside(u)' => recovery_gate_' = u
             /\ recovery_gate_' = u => Inside(u)' \/ pc'[u] = "done"
  <2>1. /\ Inside(u) => recovery_gate_ = u
        /\ recovery_gate_ = u => Inside(u) \/ pc[u] = "done"
        /\ Inside(t) => recovery_gate_ = t
        /\ recovery_gate_ = t => Inside(t) \/ pc[t] = "done"
    BY DEF GateDiscipline
  <2>2. CASE u = t
    BY <1>1, <1>2, <2>1, <2>2 DEF Inside, InsideSteps, RecoverySteps
  <2>3. CASE u # t
    BY <1>1, <1>2, <2>1, <2>3 DEF Inside, InsideSteps, RecoverySteps
  <2> QED
    BY <2>2, <2>3
<1> QED
  BY <1>3 DEF GateDiscipline

LEMMA GateNext == IInv /\ GateDiscipline /\ [Next]_vars => GateDiscipline'
<1> SUFFICES ASSUME IInv, GateDiscipline, [Next]_vars PROVE GateDiscipline'
  OBVIOUS
<1> USE DEF Inside, InsideSteps, RecoverySteps, AllSteps, AcquireSteps
<1>1. CASE Engine \/ Tick \/ UNCHANGED vars
  BY <1>1 DEF Engine, Tick, vars, callVars, GateDiscipline
<1>2. ASSUME NEW t \in Threads, CallAcquire(t) \/ UseBuffer(t) PROVE GateDiscipline'
  <2>1. PICK step \in {"initial", "idle"} :
            Goto(t, step) /\ pc[t] \in {"idle", "returned"} /\ recovery_gate_' = recovery_gate_
    BY <1>2 DEF CallAcquire, Call, UseBuffer, TakeOutcome
  <2> QED
    BY <2>1, GateStep
<1>3. ASSUME NEW t \in Threads, InitialGetBuffer(t) \/ ReadPadding(t) \/ AdaptiveRetry(t) PROVE GateDiscipline'
  <2>1. PICK step \in {"padding", "adaptive", "fallback", "done"} :
            Goto(t, step) /\ pc[t] \in {"initial", "padding", "adaptive"} /\ recovery_gate_' = recovery_gate_
    BY <1>3 DEF InitialGetBuffer, AfterInitial, ReadPadding, AdaptiveRetry
  <2> QED
    BY <2>1, GateStep
<1>4. ASSUME NEW t \in Threads, FallbackOff(t) \/ FallbackRefused(t) PROVE GateDiscipline'
  <2>1. /\ Goto(t, "done") /\ pc[t] = "fallback" /\ recovery_gate_' = recovery_gate_
        /\ "done" \in AllSteps
    BY <1>4 DEF FallbackOff, FallbackRefused
  <2> QED
    BY <2>1, GateStep
<1>5. ASSUME NEW t \in Threads, EnterGate(t) PROVE GateDiscipline'
  BY <1>5, GateStep DEF EnterGate
<1>6. ASSUME NEW t \in Threads, CheckRefuses(t) \/ CheckStarts(t) PROVE GateDiscipline'
  <2>1. PICK step \in {"stop", "done"} : Goto(t, step) /\ pc[t] = "check" /\ recovery_gate_' = recovery_gate_
    BY <1>6 DEF CheckRefuses, CheckStarts
  <2> QED
    BY <2>1, GateStep
<1>7. ASSUME NEW t \in Threads,
             StopClient(t) \/ ResetClient(t) \/ StartClient(t) \/ RefreshPadding(t) \/ FinalGetBuffer(t)
      PROVE  GateDiscipline'
  <2>1. PICK step \in {"reset", "start", "refresh", "retry", "done"} :
            Goto(t, step) /\ pc[t] \in RecoverySteps /\ recovery_gate_' = recovery_gate_
    BY <1>7 DEF StopClient, ResetClient, StartClient, RefreshPadding, FinalGetBuffer
  <2> QED
    BY <2>1, GateStep
<1>8. ASSUME NEW t \in Threads, Return(t) PROVE GateDiscipline'
  BY <1>8, GateStep DEF Return
<1> QED
  BY <1>1, <1>2, <1>3, <1>4, <1>5, <1>6, <1>7, <1>8 DEF Next, AcquireStep

(* However many threads call Acquire, the gate is held exactly by the one  *)
(* that decides on or runs a recovery, and is clear once it has returned.  *)
THEOREM GateExclusive == Spec => []GateDiscipline
<1>1. Init => GateDiscipline
  BY BufferRecoveryAssumption DEF Init, GateDiscipline, Inside, RecoverySteps
<1> QED
  BY <1>1, InitIInv, NextIInv, GateNext, PTL DEF Spec

------------------------------------------------------------------------------
(* Buffers.  Beyond NoBufferLeak: at most one thread owes a buffer.        *)
OneOwes == \A t, u \in Threads : Owes(t) /\ Owes(u) => t = u

LeakInv == NoBufferLeak /\ OneOwes

LEMMA ReportSays ==
    ASSUME IInv, NEW t \in Threads, NEW hr, NEW frames, NEW calls, NEW retry_frames, NEW flags,
           Report(t, hr, frames, calls, retry_frames, flags)
    PROVE  /\ outcome'[t].hr = hr /\ outcome'[t].frames = frames
           /\ \A u \in Threads \ {t} : outcome'[u] = outcome[u]
  BY DEF Report, IInv, TypeOK

(* One thread moves, and keeps what it owes, comes to owe what it is just  *)
(* given, or gives it back.                                                *)
LEMMA OthersOwe ==
    ASSUME IInv, NEW t \in Threads, NEW step, Goto(t, step),
           \A u \in Threads \ {t} : outcome'[u] = outcome[u]
    PROVE  /\ pc'[t] = step
           /\ \A u \in Threads \ {t} : (Owes(u)' <=> Owes(u)) /\ outcome'[u].frames = outcome[u].frames
  BY DEF Goto, IInv, TypeOK, Owes

LEMMA LeakQuiet ==
    ASSUME IInv, LeakInv, NEW t \in Threads, NEW step, Goto(t, step),
           \A u \in Threads \ {t} : outcome'[u] = outcome[u],
           client'.acquired = client.acquired, client'.valid => client.valid,
           Owes(t)' <=> Owes(t), outcome'[t].frames = outcome[t].frames \/ ~Owes(t)
    PROVE  LeakInv'
<1>1. \A u \in Threads : (Owes(u)' <=> Owes(u)) /\ (Owes(u) => outcome'[u].frames = outcome[u].frames)
  BY OthersOwe
<1>2. OneOwes'
  BY <1>1 DEF LeakInv, OneOwes
<1>3. NoBufferLeak'
  BY <1>1 DEF LeakInv, NoBufferLeak
<1> QED
  BY <1>2, <1>3 DEF LeakInv

LEMMA LeakTakes ==
    ASSUME IInv, LeakInv, NEW t \in Threads, Goto(t, "done"),
           \A u \in Threads \ {t} : outcome'[u] = outcome[u],
           client.acquired = 0, client'.acquired # 0,
           outcome'[t].hr = "Ok", outcome'[t].frames = client'.acquired
    PROVE  LeakInv'
<1>1. \A u \in Threads \ {t} : ~Owes(u)'
  BY OthersOwe DEF LeakInv, NoBufferLeak
<1>2. Owes(t)'
  BY OthersOwe DEF Owes
<1> QED
  BY <1>1, <1>2 DEF LeakInv, OneOwes, NoBufferLeak

LEMMA LeakReleases ==
    ASSUME IInv, LeakInv, NEW t \in Threads, Owes(t), Goto(t, "idle"),
           \A u \in Threads \ {t} : outcome'[u] = outcome[u],
           client'.valid => client'.acquired = 0
    PROVE  LeakInv'
<1>1. \A u \in Threads : ~Owes(u)'
  BY OthersOwe DEF LeakInv, OneOwes, Owes
<1> QED
  BY <1>1 DEF LeakInv, OneOwes, NoBufferLeak

(* GetBuffer gives a buffer only to a thread that then owes it.            *)
LEMMA LeakGetBuffer ==
    ASSUME IInv, LeakInv, NEW t \in Threads, pc[t] \in {"initial", "adaptive", "retry"},
           NEW frames \in 1..Period, NEW a \in GetBufferAnswers(client, frames), client' = a.client,
           NEW calls, NEW flags, Answered(t, a.hr, frames, calls, flags),
           NEW step, a.hr = "Ok" => step = "done", Goto(t, step)
    PROVE  LeakInv'
<1>1. /\ outcome'[t].hr = a.hr
      /\ outcome'[t].frames = IF a.hr = "Ok" THEN frames ELSE 0
      /\ \A u \in Threads \ {t} : outcome'[u] = outcome[u]
  BY ReportSays DEF Answered
<1>2. /\ a.hr = "Ok" => client.acquired = 0 /\ a.client.acquired = frames
      /\ a.hr # "Ok" => a.client = client
  BY GetBufferGood DEF IInv, TypeOK, GoodClient
<1>3. CASE a.hr = "Ok"
  <2>1. frames # 0
    BY BufferRecoveryAssumption, CapacityAssumption
  <2> QED
    BY <1>1, <1>2, <1>3, <2>1, LeakTakes
<1>4. CASE a.hr # "Ok"
  <2>1. ~Owes(t)
    BY DEF Owes
  <2>2. ~Owes(t)'
    BY <1>1, <1>4 DEF Owes
  <2> QED
    BY <1>1, <1>2, <1>4, <2>1, <2>2, LeakQuiet
<1> QED
  BY <1>3, <1>4

(* Every other step of Acquire before its end leaves buffers alone, and    *)
(* the TOO_LARGE it works on stays.                                        *)
LEMMA LeakMarks ==
    ASSUME IInv, LeakInv, NEW t \in Threads,
           pc[t] \in MarkSteps \cup {"padding", "refresh"},
           client'.acquired = client.acquired, client'.valid = client.valid,
           NEW step, Goto(t, step),
           \/ outcome' = outcome
           \/ \E flags : Marked(t, flags)
           \/ \E flags, frames : Sized(t, frames, flags)
    PROVE  LeakInv'
<1>1. outcome[t].hr = "TooLarge"
  BY DEF IInv, CallProgress, CallOK, MarkSteps, RecoverySteps
<1>2. outcome'[t].hr = outcome[t].hr /\ \A u \in Threads \ {t} : outcome'[u] = outcome[u]
  BY ReportSays DEF Marked, Sized
<1>3. ~Owes(t) /\ ~Owes(t)'
  BY <1>1, <1>2 DEF Owes
<1> QED
  BY <1>2, <1>3, LeakQuiet

LEMMA LeakNext == IInv /\ LeakInv /\ [Next]_vars => LeakInv'
<1> SUFFICES ASSUME IInv, LeakInv, [Next]_vars PROVE LeakInv'
  OBVIOUS
<1>1. GoodClient(client)
  BY DEF IInv, TypeOK, GoodClient
<1>2. CASE Engine
  <2>1. client'.acquired = client.acquired /\ (client'.valid => client.valid)
    BY <1>1, <1>2, EngineGood DEF Engine
  <2> QED
    BY <1>2, <2>1 DEF Engine, callVars, LeakInv, OneOwes, NoBufferLeak, Owes
<1>3. CASE Tick \/ UNCHANGED vars
  BY <1>3 DEF Tick, vars, clientVars, callVars, LeakInv, OneOwes, NoBufferLeak, Owes
<1>4. ASSUME NEW t \in Threads, CallAcquire(t) PROVE LeakInv'
  <2>1. /\ pc[t] = "idle" /\ Goto(t, "initial") /\ client' = client /\ outcome' = outcome
        /\ pc'[t] = "initial"
    BY <1>4 DEF CallAcquire, Call, Goto, IInv, TypeOK
  <2>2. ~Owes(t) /\ ~Owes(t)'
    BY <2>1 DEF Owes
  <2> QED
    BY <2>1, <2>2, LeakQuiet
<1>5. ASSUME NEW t \in Threads, InitialGetBuffer(t) PROVE LeakInv'
  <2>1. PICK a \in IF inject[t] THEN {Answer("TooLarge", client)} ELSE GetBufferAnswers(client, Period) :
            /\ client' = a.client
            /\ Answered(t, a.hr, Period, IF inject[t] THEN 0 ELSE 1, {})
            /\ Goto(t, AfterInitial(a.hr))
    BY <1>5 DEF InitialGetBuffer
  <2>2. pc[t] = "initial" /\ Period \in 1..Period
    BY <1>5, BufferRecoveryAssumption, CapacityAssumption DEF InitialGetBuffer
  <2>3. CASE inject[t]
    <3>1. a.hr = "TooLarge" /\ client' = client
      BY <2>1, <2>3 DEF Answer
    <3>2. outcome'[t].hr = "TooLarge" /\ \A u \in Threads \ {t} : outcome'[u] = outcome[u]
      BY <2>1, <3>1, ReportSays DEF Answered
    <3>3. ~Owes(t) /\ ~Owes(t)'
      BY <2>2, <3>2 DEF Owes
    <3> QED
      BY <2>1, <3>1, <3>2, <3>3, LeakQuiet
  <2>4. CASE ~inject[t]
    <3>1. a.hr = "Ok" => AfterInitial(a.hr) = "done"
      BY DEF AfterInitial
    <3> QED
      BY <2>1, <2>2, <2>4, <3>1, LeakGetBuffer
  <2> QED
    BY <2>3, <2>4
<1>6. ASSUME NEW t \in Threads, AdaptiveRetry(t) \/ FinalGetBuffer(t) PROVE LeakInv'
  <2> PICK a \in GetBufferAnswers(client, outcome[t].retry_frames) :
          \E flags, step :
              /\ client' = a.client
              /\ Answered(t, a.hr, outcome[t].retry_frames, 1, flags)
              /\ a.hr = "Ok" => step = "done"
              /\ Goto(t, step)
    BY <1>6 DEF AdaptiveRetry, FinalGetBuffer
  <2>1. PICK flags, step :
            /\ client' = a.client
            /\ Answered(t, a.hr, outcome[t].retry_frames, 1, flags)
            /\ a.hr = "Ok" => step = "done"
            /\ Goto(t, step)
    OBVIOUS
  <2>2. pc[t] \in {"adaptive", "retry"} /\ outcome[t].retry_frames \in 1..Period
    BY <1>6 DEF AdaptiveRetry, FinalGetBuffer, IInv, CallProgress, CallOK
  <2> QED
    BY <2>1, <2>2, LeakGetBuffer
<1>7. ASSUME NEW t \in Threads, ReadPadding(t) \/ RefreshPadding(t) PROVE LeakInv'
  <2>1. PICK frames, flags, step : Sized(t, frames, flags) /\ Goto(t, step)
    BY <1>7 DEF ReadPadding, RefreshPadding
  <2>2. pc[t] \in {"padding", "refresh"} /\ client' = client
    BY <1>7 DEF ReadPadding, RefreshPadding
  <2> QED
    BY <2>1, <2>2, LeakMarks
<1>8. ASSUME NEW t \in Threads,
             FallbackOff(t) \/ FallbackRefused(t) \/ EnterGate(t) \/ CheckRefuses(t) \/ CheckStarts(t)
      PROVE  LeakInv'
  <2>1. /\ pc[t] \in MarkSteps /\ client' = client
        /\ \E step : Goto(t, step)
        /\ outcome' = outcome \/ \E flags : Marked(t, flags)
    BY <1>8 DEF FallbackOff, FallbackRefused, EnterGate, CheckRefuses, CheckStarts, MarkSteps
  <2> QED
    BY <2>1, LeakMarks
<1>9. ASSUME NEW t \in Threads, StopClient(t) \/ ResetClient(t) \/ StartClient(t) PROVE LeakInv'
  <2>1. PICK a \in StopAnswers(client) \cup ResetAnswers(client) \cup StartAnswers(client) :
            client' = a.client /\ \E flags, step : Marked(t, flags) /\ Goto(t, step)
    BY <1>9 DEF StopClient, ResetClient, StartClient
  <2>2. client'.acquired = client.acquired /\ client'.valid = client.valid
    BY <1>1, <2>1, StopGood, ResetGood, StartGood
  <2>3. pc[t] \in MarkSteps
    BY <1>9 DEF StopClient, ResetClient, StartClient, MarkSteps
  <2> QED
    BY <2>1, <2>2, <2>3, LeakMarks
<1>10. ASSUME NEW t \in Threads, Return(t) PROVE LeakInv'
  <2>1. /\ pc[t] = "done" /\ Goto(t, "returned") /\ client' = client /\ outcome' = outcome
        /\ pc'[t] = "returned"
    BY <1>10 DEF Return, Goto, IInv, TypeOK
  <2>2. Owes(t)' <=> Owes(t)
    BY <2>1 DEF Owes
  <2> QED
    BY <2>1, <2>2, LeakQuiet
<1>11. ASSUME NEW t \in Threads, UseBuffer(t) PROVE LeakInv'
  <2>1. /\ pc[t] = "returned" /\ Goto(t, "idle") /\ pc'[t] = "idle"
        /\ \A u \in Threads \ {t} : outcome'[u] = outcome[u]
    BY <1>11 DEF UseBuffer, TakeOutcome, Goto, IInv, TypeOK
  <2>2. CASE outcome[t].hr = "Ok"
    <3>1. Owes(t) /\ client.acquired = outcome[t].frames /\ outcome[t].frames \in 1..Period
      BY <2>1, <2>2, BufferRecoveryAssumption, CapacityAssumption
         DEF Owes, LeakInv, NoBufferLeak, IInv, TypeOK, Outcome
    <3>2. PICK a \in ReleaseBufferAnswers(client, outcome[t].frames) : client' = a.client
      BY <1>11, <2>2 DEF UseBuffer
    <3>3. client'.valid => client'.acquired = 0
      BY <1>1, <3>1, <3>2, ReleaseGood
    <3> QED
      BY <2>1, <3>1, <3>3, LeakReleases
  <2>3. CASE outcome[t].hr # "Ok"
    <3>1. client' = client /\ ~Owes(t) /\ ~Owes(t)'
      BY <1>11, <2>1, <2>3 DEF UseBuffer, Owes
    <3> QED
      BY <2>1, <3>1, LeakQuiet
  <2> QED
    BY <2>2, <2>3
<1> QED
  BY <1>2, <1>3, <1>4, <1>5, <1>6, <1>7, <1>8, <1>9, <1>10, <1>11 DEF Next, AcquireStep

(* No path of Acquire, failed or not, keeps a buffer that no caller knows  *)
(* of, and no two callers think they hold one.                             *)
THEOREM NothingLeaks == Spec => []NoBufferLeak
<1>1. Init => LeakInv
  BY DEF Init, LeakInv, OneOwes, NoBufferLeak, Owes, FreshClient
<1>2. LeakInv => NoBufferLeak
  BY DEF LeakInv
<1> QED
  BY <1>1, <1>2, InitIInv, NextIInv, LeakNext, PTL DEF Spec
------------------------------------------------------------------------------
(* The outcome a call reports.  Until the breaker has decided no flag is   *)
(* raised; from then on the flags say which stage the recovery is at; in   *)
(* the end they tell the story OutcomeTruthful asks for.                   *)
Truthful(o) ==
    /\ "recovery_started" \in o.flags <=> o.flags \cap {"recovery_succeeded", "recovery_failed"} # {}
    /\ ~({"recovery_succeeded", "recovery_failed"} \subseteq o.flags)
    /\ "recovery_succeeded" \in o.flags => "reset_succeeded" \in o.flags /\ o.hr = "Ok"
    /\ "circuit_breaker_open" \in o.flags => o.flags = {"circuit_breaker_open"} /\ o.hr = "TooLarge"
    /\ o.get_buffer_calls = 3 => "recovery_started" \in o.flags

FlagsOK(step, o) ==
    /\ step \in {"idle", "initial", "padding", "adaptive", "fallback", "check"} => o.flags = {}
    /\ step \in {"stop", "reset"} => o.flags = {"recovery_started"}
    /\ step \in {"start", "refresh", "retry"} => o.flags = {"recovery_started", "reset_succeeded"}
    /\ step \in {"done", "returned"} => Truthful(o)

FlagsInv == \A t \in Threads : FlagsOK(pc[t], outcome[t])

(* A thread's step adds its flags to those raised before, and touches no   *)
(* other call.                                                             *)
LEMMA ReportFlags ==
    ASSUME IInv, NEW t \in Threads, NEW hr, NEW frames, NEW calls, NEW retry_frames, NEW flags,
           Report(t, hr, frames, calls, retry_frames, flags)
    PROVE  /\ outcome'[t].flags = outcome[t].flags \cup flags
           /\ outcome'[t].hr = hr
           /\ outcome'[t].get_buffer_calls = outcome[t].get_buffer_calls + calls
           /\ \A u \in Threads \ {t} : outcome'[u] = outcome[u]
  BY DEF Report, IInv, TypeOK

LEMMA FlagsStep ==
    ASSUME IInv, FlagsInv, NEW t \in Threads, NEW step, Goto(t, step),
           \A u \in Threads \ {t} : outcome'[u] = outcome[u], FlagsOK(step, outcome'[t])
    PROVE  FlagsInv'
<1>1. pc'[t] = step /\ \A u \in Threads \ {t} : pc'[u] = pc[u]
  BY DEF Goto, IInv, TypeOK
<1>2. ASSUME NEW u \in Threads PROVE FlagsOK(pc'[u], outcome'[u])
  <2>1. CASE u = t
    BY <1>1, <2>1
  <2>2. CASE u # t
    <3>1. pc'[u] = pc[u] /\ outcome'[u] = outcome[u]
      BY <1>1, <2>2
    <3> QED
      BY <3>1 DEF FlagsInv
  <2> QED
    BY <2>1, <2>2
<1> QED
  BY <1>2 DEF FlagsInv

(* A call that ends with no flag raised.                                   *)
LEMMA FlaglessTruthful ==
    ASSUME NEW o, o.flags = {}, o.get_buffer_calls # 3
    PROVE  Truthful(o)
  BY DEF Truthful

LEMMA FlagsAcquire ==
    ASSUME IInv, FlagsInv, NEW t \in Threads, AcquireStep(t)
    PROVE  FlagsInv'
<1> DEFINE o == outcome[t]
<1>1. o.get_buffer_calls \in 0..3 /\ CallOK(pc[t], o) /\ FlagsOK(pc[t], o)
  BY DEF IInv, TypeOK, Outcome, CallProgress, FlagsInv
<1>2. ASSUME InitialGetBuffer(t) PROVE FlagsInv'
  <2>1. PICK hr, calls :
            /\ Answered(t, hr, Period, calls, {}) /\ Goto(t, AfterInitial(hr))
            /\ calls \in {0, 1} /\ pc[t] = "initial"
    BY <1>2 DEF InitialGetBuffer
  <2>2. o.flags = {} /\ o.get_buffer_calls = 0
    BY <1>1, <2>1 DEF CallOK, BlankOutcome
  <2>3. outcome'[t].flags = {} /\ outcome'[t].get_buffer_calls # 3
        /\ \A u \in Threads \ {t} : outcome'[u] = outcome[u]
    BY <2>1, <2>2, ReportFlags DEF Answered
  <2>4. FlagsOK(AfterInitial(hr), outcome'[t])
    BY <2>3, FlaglessTruthful DEF AfterInitial, FlagsOK
  <2> QED
    BY <2>1, <2>3, <2>4, FlagsStep
<1>3. ASSUME ReadPadding(t) PROVE FlagsInv'
  <2>1. PICK frames, step :
            /\ Sized(t, frames, {}) /\ Goto(t, step)
            /\ step \in {"adaptive", "fallback"} /\ pc[t] = "padding"
    BY <1>3 DEF ReadPadding
  <2>2. outcome'[t].flags = {} /\ \A u \in Threads \ {t} : outcome'[u] = outcome[u]
    BY <1>1, <2>1, ReportFlags DEF Sized, FlagsOK
  <2>3. FlagsOK(step, outcome'[t])
    BY <2>1, <2>2 DEF FlagsOK
  <2> QED
    BY <2>1, <2>2, <2>3, FlagsStep
<1>4. ASSUME AdaptiveRetry(t) PROVE FlagsInv'
  <2>1. PICK hr, frames, step :
            /\ Answered(t, hr, frames, 1, {}) /\ Goto(t, step)
            /\ step \in {"fallback", "done"} /\ pc[t] = "adaptive"
    BY <1>4 DEF AdaptiveRetry
  <2>2. o.flags = {} /\ o.get_buffer_calls <= 1
    BY <1>1, <2>1 DEF CallOK, FlagsOK
  <2>3. outcome'[t].flags = {} /\ outcome'[t].get_buffer_calls # 3
        /\ \A u \in Threads \ {t} : outcome'[u] = outcome[u]
    BY <1>1, <2>1, <2>2, ReportFlags DEF Answered
  <2>4. FlagsOK(step, outcome'[t])
    BY <2>1, <2>3, FlaglessTruthful DEF FlagsOK
  <2> QED
    BY <2>1, <2>3, <2>4, FlagsStep
<1>5. ASSUME FallbackOff(t) PROVE FlagsInv'
  <2>1. Goto(t, "done") /\ outcome' = outcome /\ pc[t] = "fallback"
    BY <1>5 DEF FallbackOff
  <2>2. o.flags = {} /\ o.get_buffer_calls # 3
    BY <1>1, <2>1 DEF CallOK, FlagsOK
  <2>3. FlagsOK("done", outcome'[t])
    BY <2>1, <2>2, FlaglessTruthful DEF FlagsOK
  <2> QED
    BY <2>1, <2>3, FlagsStep
<1>6. ASSUME EnterGate(t) PROVE FlagsInv'
  <2>1. Goto(t, "check") /\ outcome' = outcome /\ pc[t] = "fallback"
    BY <1>6 DEF EnterGate
  <2>2. FlagsOK("check", outcome'[t])
    BY <1>1, <2>1 DEF FlagsOK
  <2> QED
    BY <2>1, <2>2, FlagsStep
<1>7. ASSUME FallbackRefused(t) \/ CheckRefuses(t) PROVE FlagsInv'
  <2>1. Marked(t, {"circuit_breaker_open"}) /\ Goto(t, "done") /\ pc[t] \in {"fallback", "check"}
    BY <1>7 DEF FallbackRefused, CheckRefuses
  <2>2. o.flags = {} /\ o.hr = "TooLarge" /\ o.get_buffer_calls # 3
    BY <1>1, <2>1 DEF CallOK, FlagsOK
  <2>3. /\ outcome'[t].flags = {"circuit_breaker_open"} /\ outcome'[t].hr = "TooLarge"
        /\ outcome'[t].get_buffer_calls # 3
        /\ \A u \in Threads \ {t} : outcome'[u] = outcome[u]
    BY <1>1, <2>1, <2>2, ReportFlags DEF Marked
  <2>4. FlagsOK("done", outcome'[t])
    BY <2>3 DEF FlagsOK, Truthful
  <2> QED
    BY <2>1, <2>3, <2>4, FlagsStep
<1>8. ASSUME CheckStarts(t) PROVE FlagsInv'
  <2>1. Marked(t, {"recovery_started"}) /\ Goto(t, "stop") /\ pc[t] = "check"
    BY <1>8 DEF CheckStarts
  <2>2. /\ outcome'[t].flags = {"recovery_started"}
        /\ \A u \in Threads \ {t} : outcome'[u] = outcome[u]
    BY <1>1, <2>1, ReportFlags DEF Marked, FlagsOK
  <2>3. FlagsOK("stop", outcome'[t])
    BY <2>2 DEF FlagsOK
  <2> QED
    BY <2>1, <2>2, <2>3, FlagsStep
<1>9. ASSUME StopClient(t) PROVE FlagsInv'
  <2>1. PICK hr : /\ Marked(t, FailedUnless(hr)) /\ pc[t] = "stop"
                  /\ Goto(t, IF hr = "Ok" THEN "reset" ELSE "done")
    BY <1>9 DEF StopClient
  <2>2. /\ outcome'[t].flags = {"recovery_started"} \cup FailedUnless(hr)
        /\ \A u \in Threads \ {t} : outcome'[u] = outcome[u]
    BY <1>1, <2>1, ReportFlags DEF Marked, FlagsOK
  <2>3. FlagsOK(IF hr = "Ok" THEN "reset" ELSE "done", outcome'[t])
    BY <2>2 DEF FlagsOK, FailedUnless, Truthful
  <2> QED
    BY <2>1, <2>2, <2>3, FlagsStep
<1>10. ASSUME ResetClient(t) PROVE FlagsInv'
  <2>1. PICK hr : /\ Marked(t, IF hr = "Ok" THEN {"reset_succeeded"} ELSE {"recovery_failed"})
                  /\ pc[t] = "reset"
                  /\ Goto(t, IF hr = "Ok" THEN "start" ELSE "done")
    BY <1>10 DEF ResetClient
  <2>2. /\ outcome'[t].flags = {"recovery_started"} \cup
                              (IF hr = "Ok" THEN {"reset_succeeded"} ELSE {"recovery_failed"})
        /\ \A u \in Threads \ {t} : outcome'[u] = outcome[u]
    BY <1>1, <2>1, ReportFlags DEF Marked, FlagsOK
  <2>3. FlagsOK(IF hr = "Ok" THEN "start" ELSE "done", outcome'[t])
    BY <2>2 DEF FlagsOK, Truthful
  <2> QED
    BY <2>1, <2>2, <2>3, FlagsStep
<1>11. ASSUME StartClient(t) PROVE FlagsInv'
  <2>1. PICK hr : /\ Marked(t, FailedUnless(hr)) /\ pc[t] = "start"
                  /\ Goto(t, IF hr = "Ok" THEN "refresh" ELSE "done")
    BY <1>11 DEF StartClient
  <2>2. /\ outcome'[t].flags = {"recovery_started", "reset_succeeded"} \cup FailedUnless(hr)
        /\ \A u \in Threads \ {t} : outcome'[u] = outcome[u]
    BY <1>1, <2>1, ReportFlags DEF Marked, FlagsOK
  <2>3. FlagsOK(IF hr = "Ok" THEN "refresh" ELSE "done", outcome'[t])
    BY <2>2 DEF FlagsOK, FailedUnless, Truthful
  <2> QED
    BY <2>1, <2>2, <2>3, FlagsStep
<1>12. ASSUME RefreshPadding(t) PROVE FlagsInv'
  <2>1. PICK frames : /\ Sized(t, frames, IF frames > 0 THEN {} ELSE {"recovery_failed"})
                      /\ pc[t] = "refresh"
                      /\ Goto(t, IF frames > 0 THEN "retry" ELSE "done")
    BY <1>12 DEF RefreshPadding
  <2>2. /\ outcome'[t].flags = {"recovery_started", "reset_succeeded"} \cup
                              (IF frames > 0 THEN {} ELSE {"recovery_failed"})
        /\ \A u \in Threads \ {t} : outcome'[u] = outcome[u]
    BY <1>1, <2>1, ReportFlags DEF Sized, FlagsOK
  <2>3. FlagsOK(IF frames > 0 THEN "retry" ELSE "done", outcome'[t])
    BY <2>2 DEF FlagsOK, Truthful
  <2> QED
    BY <2>1, <2>2, <2>3, FlagsStep
<1>13. ASSUME FinalGetBuffer(t) PROVE FlagsInv'
  <2>1. PICK hr, frames : /\ Answered(t, hr, frames, 1, IF hr = "Ok" THEN {"recovery_succeeded"}
                                                        ELSE {"recovery_failed"})
                          /\ pc[t] = "retry" /\ Goto(t, "done")
    BY <1>13 DEF FinalGetBuffer
  <2>2. /\ outcome'[t].flags = {"recovery_started", "reset_succeeded"} \cup
                              (IF hr = "Ok" THEN {"recovery_succeeded"} ELSE {"recovery_failed"})
        /\ outcome'[t].hr = hr
        /\ \A u \in Threads \ {t} : outcome'[u] = outcome[u]
    BY <1>1, <2>1, ReportFlags DEF Answered, FlagsOK
  <2>3. FlagsOK("done", outcome'[t])
    BY <2>2 DEF FlagsOK, Truthful
  <2> QED
    BY <2>1, <2>2, <2>3, FlagsStep
<1>14. ASSUME Return(t) PROVE FlagsInv'
  <2>1. Goto(t, "returned") /\ outcome' = outcome /\ pc[t] = "done"
    BY <1>14 DEF Return
  <2>2. FlagsOK("returned", outcome'[t])
    BY <1>1, <2>1 DEF FlagsOK
  <2> QED
    BY <2>1, <2>2, FlagsStep
<1> QED
  BY <1>2, <1>3, <1>4, <1>5, <1>6, <1>7, <1>8, <1>9, <1>10, <1>11, <1>12, <1>13, <1>14 DEF AcquireStep

LEMMA FlagsCall ==
    ASSUME IInv, FlagsInv, NEW t \in Threads, NEW injected, Call(t, injected)
    PROVE  FlagsInv'
<1>1. Goto(t, "initial") /\ outcome' = outcome /\ pc[t] = "idle"
  BY DEF Call
<1>2. FlagsOK("initial", outcome'[t])
  BY <1>1 DEF FlagsInv, FlagsOK
<1> QED
  BY <1>1, <1>2, FlagsStep

LEMMA FlagsTake ==
    ASSUME IInv, FlagsInv, NEW t \in Threads, TakeOutcome(t)
    PROVE  FlagsInv'
<1>1. /\ Goto(t, "idle") /\ outcome'[t] = BlankOutcome
      /\ \A u \in Threads \ {t} : outcome'[u] = outcome[u]
  BY TakeOutcomeKeeps DEF TakeOutcome
<1>2. FlagsOK("idle", outcome'[t])
  BY <1>1 DEF FlagsOK, BlankOutcome
<1> QED
  BY <1>1, <1>2, FlagsStep

LEMMA FlagsInit == Init => FlagsInv
<1> SUFFICES ASSUME Init PROVE FlagsInv
  OBVIOUS
<1>1. \A t \in Threads : pc[t] = "idle" /\ outcome[t].flags = {}
  BY DEF Init, BlankOutcome
<1> QED
  BY <1>1 DEF FlagsInv, FlagsOK

LEMMA FlagsNext == IInv /\ FlagsInv /\ [Next]_vars => FlagsInv'
<1> SUFFICES ASSUME IInv, FlagsInv, [Next]_vars PROVE FlagsInv'
  OBVIOUS
<1>1. CASE Engine \/ Tick \/ UNCHANGED vars
  BY <1>1 DEF Engine, Tick, vars, callVars, FlagsInv
<1>2. ASSUME NEW t \in Threads, CallAcquire(t) PROVE FlagsInv'
  BY <1>2, FlagsCall DEF CallAcquire
<1>3. ASSUME NEW t \in Threads, AcquireStep(t) PROVE FlagsInv'
  BY <1>3, FlagsAcquire
<1>4. ASSUME NEW t \in Threads, UseBuffer(t) PROVE FlagsInv'
  BY <1>4, FlagsTake DEF UseBuffer
<1> QED
  BY <1>1, <1>2, <1>3, <1>4 DEF Next

LEMMA FlagsTruthful == IInv /\ FlagsInv => OutcomeTruthful
<1> SUFFICES ASSUME IInv, FlagsInv, NEW t \in Threads, pc[t] = "returned"
             PROVE  Truthful(outcome[t]) /\ (outcome[t].hr = "Ok" <=> outcome[t].frames # 0)
  BY DEF OutcomeTruthful, Truthful
<1> QED
  BY DEF IInv, CallProgress, CallOK, FlagsInv, FlagsOK

(* What a finished call of Acquire reports is what happened to it, however *)
(* the calls of several threads interleave: every recovery that began      *)
(* ended in exactly one of success and failure, success comes with a reset *)
(* client and a buffer, and a refusal keeps the original TOO_LARGE.        *)
THEOREM OutcomesAreTruthful == Spec => []OutcomeTruthful
  BY InitIInv, NextIInv, FlagsInit, FlagsNext, FlagsTruthful, PTL DEF Spec

------------------------------------------------------------------------------
(* The started flag.  A step of Acquire moves it with the client.          *)
LEMMA StartedAcquire ==
    ASSUME IInv, StartedTruthful, NEW t \in Threads, AcquireStep(t)
    PROVE  StartedTruthful'
<1>1. GoodClient(client)
  BY DEF IInv, TypeOK, GoodClient
<1>2. CASE started_' = started_ /\ client'.running = client.running
  BY <1>2 DEF StartedTruthful
<1>3. ASSUME InitialGetBuffer(t) PROVE StartedTruthful'
  <2>1. Period \in 1..Period /\ started_' = started_
    BY <1>3, BufferRecoveryAssumption DEF InitialGetBuffer
  <2>2. client'.running = client.running
    BY <1>1, <1>3, <2>1, GetBufferGood DEF InitialGetBuffer, Answer
  <2> QED
    BY <1>2, <2>1, <2>2
<1>4. ASSUME AdaptiveRetry(t) \/ FinalGetBuffer(t) PROVE StartedTruthful'
  <2>1. outcome[t].retry_frames \in 1..Period /\ started_' = started_
    BY <1>4 DEF AdaptiveRetry, FinalGetBuffer, IInv, CallProgress, CallOK
  <2>2. PICK a \in GetBufferAnswers(client, outcome[t].retry_frames) : client' = a.client
    BY <1>4 DEF AdaptiveRetry, FinalGetBuffer
  <2>3. client'.running = client.running
    BY <1>1, <2>1, <2>2, GetBufferGood
  <2> QED
    BY <1>2, <2>1, <2>3
<1>5. ASSUME StopClient(t) PROVE StartedTruthful'
  <2>1. PICK a \in StopAnswers(client) :
            client' = a.client /\ started_' = IF a.hr = "Ok" THEN FALSE ELSE started_
    BY <1>5 DEF StopClient
  <2>2. (a.hr = "Ok" => a.client.running = FALSE) /\ (a.hr # "Ok" => a.client = client)
    BY <1>1, StopGood DEF GoodAnswer, GoodClient, Client
  <2> QED
    BY <2>1, <2>2 DEF StartedTruthful
<1>6. ASSUME ResetClient(t) PROVE StartedTruthful'
  <2>1. PICK a \in ResetAnswers(client) :
            client' = a.client /\ started_' = IF a.hr = "Ok" THEN FALSE ELSE started_
    BY <1>6 DEF ResetClient
  <2>2. (a.hr = "Ok" => a.client.running = FALSE) /\ (a.hr # "Ok" => a.client = client)
    BY <1>1, ResetGood DEF GoodAnswer, GoodClient, Client
  <2> QED
    BY <2>1, <2>2 DEF StartedTruthful
<1>7. ASSUME StartClient(t) PROVE StartedTruthful'
  <2>1. PICK a \in StartAnswers(client) :
            client' = a.client /\ started_' = StartedStateAfterStartResult(started_, a.hr)
    BY <1>7 DEF StartClient
  <2>2. (a.hr = "Ok" => a.client.running = TRUE) /\ (a.hr # "Ok" => a.client = client)
    BY <1>1, StartGood DEF GoodAnswer, GoodClient, Client
  <2>3. started_ \in BOOLEAN
    BY DEF IInv, TypeOK
  <2> QED
    BY <2>1, <2>2, <2>3 DEF StartedTruthful, StartedStateAfterStartResult
<1>8. ASSUME \/ ReadPadding(t) \/ FallbackOff(t) \/ FallbackRefused(t) \/ EnterGate(t)
             \/ CheckRefuses(t) \/ CheckStarts(t) \/ RefreshPadding(t) \/ Return(t)
      PROVE  StartedTruthful'
  <2>1. started_' = started_ /\ client' = client
    BY <1>8 DEF ReadPadding, FallbackOff, FallbackRefused, EnterGate, CheckRefuses, CheckStarts,
                RefreshPadding, Return
  <2> QED
    BY <1>2, <2>1
<1> QED
  BY <1>3, <1>4, <1>5, <1>6, <1>7, <1>8 DEF AcquireStep

LEMMA StartedNext == IInv /\ StartedTruthful /\ [Next]_vars => StartedTruthful'
<1> SUFFICES ASSUME IInv, StartedTruthful, [Next]_vars PROVE StartedTruthful'
  OBVIOUS
<1>1. GoodClient(client)
  BY DEF IInv, TypeOK, GoodClient
<1>2. ASSUME started_' = started_, client'.running = client.running PROVE StartedTruthful'
  BY <1>2 DEF StartedTruthful
<1>3. CASE Engine
  BY <1>1, <1>2, <1>3, EngineGood DEF Engine
<1>4. CASE Tick \/ UNCHANGED vars
  BY <1>2, <1>4 DEF Tick, clientVars, vars
<1>5. ASSUME NEW t \in Threads, CallAcquire(t) PROVE StartedTruthful'
  BY <1>2, <1>5 DEF CallAcquire, Call
<1>6. ASSUME NEW t \in Threads, AcquireStep(t) PROVE StartedTruthful'
  BY <1>6, StartedAcquire
<1>7. ASSUME NEW t \in Threads, UseBuffer(t) PROVE StartedTruthful'
  <2>1. started_' = started_
    BY <1>7 DEF UseBuffer
  <2>2. CASE outcome[t].hr = "Ok"
    <3>1. outcome[t].frames \in 1..Period
      BY <1>7, <2>2, BufferRecoveryAssumption, CapacityAssumption
         DEF UseBuffer, TakeOutcome, IInv, TypeOK, CallProgress, CallOK, Outcome
    <3>2. PICK a \in ReleaseBufferAnswers(client, outcome[t].frames) : client' = a.client
      BY <1>7, <2>2 DEF UseBuffer
    <3> QED
      BY <1>1, <1>2, <2>1, <3>1, <3>2, ReleaseGood
  <2>3. CASE outcome[t].hr # "Ok"
    BY <1>2, <1>7, <2>1, <2>3 DEF UseBuffer
  <2> QED
    BY <2>2, <2>3
<1> QED
  BY <1>3, <1>4, <1>5, <1>6, <1>7 DEF Next

(* The stream's started flag is the state of its client, at whichever      *)
(* stage the recoveries of any number of callers succeed or fail.          *)
THEOREM StartedIsRunning == Spec => []StartedTruthful
<1>1. Init => StartedTruthful
  BY DEF Init, StartedTruthful, FreshClient
<1> QED
  BY <1>1, InitIInv, NextIInv, StartedNext, PTL DEF Spec

-----------------------------------------------------------------------------
(***************************************************************************)
(* The array of timestamps Acquire keeps implements the CircuitBreaker.    *)
(* The array forgets a timestamp only after it has left the window, and    *)
(* time does not run backwards; so what it still holds at a check is the   *)
(* window itself, and its last entry the newest recovery of all.           *)
(***************************************************************************)

Window == config.recovery_window_ticks

(* No recovery started in the future, they are in order, and one the array *)
(* has forgotten is out of the window.                                     *)
BreakerInv ==
    /\ \A i \in DOMAIN starts : starts[i] <= now
    /\ \A i, j \in DOMAIN starts : i <= j => starts[i] <= starts[j]
    /\ \A i \in DOMAIN starts \ recovery_timestamps_ : now - starts[i] >= Window

LEMMA BreakerTypes ==
    ASSUME IInv
    PROVE  /\ config \in Config /\ Window \in Nat /\ config.recovery_cooldown_ticks \in Nat
           /\ RecoveryLimit \in Nat
           /\ now \in Nat
           /\ Len(starts) \in Nat /\ DOMAIN starts = 1..Len(starts)
           /\ \A i \in DOMAIN starts : starts[i] \in Nat
           /\ recovery_timestamps_ \subseteq DOMAIN starts
<1>1. config \in Config
  BY BufferRecoveryAssumption DEF IInv, TypeOK
<1>2. RecoveryLimit \in Nat
  BY <1>1, BufferRecoveryAssumption DEF RecoveryLimit, Smaller, Config
<1> QED
  BY <1>1, <1>2, BufferRecoveryAssumption DEF IInv, TypeOK, Window, Config

(* What is retained is the window.                                         *)
LEMMA RetainedIsWindow ==
    ASSUME IInv, BreakerInv
    PROVE  Retained = Breaker!InWindow
<1>1. ASSUME NEW i \in DOMAIN starts
      PROVE  i \in Retained <=> now - starts[i] < Window
  <2>1. starts[i] <= now /\ starts[i] \in Nat /\ now \in Nat /\ Window \in Nat
    BY BreakerTypes DEF BreakerInv
  <2>2. OutsideWindow(starts[i]) <=> now - starts[i] >= Window
    BY <2>1 DEF OutsideWindow, Window
  <2>3. i \notin recovery_timestamps_ => now - starts[i] >= Window
    BY DEF BreakerInv
  <2> QED
    BY <2>1, <2>2, <2>3 DEF Retained
<1>2. Retained \subseteq DOMAIN starts
  BY BreakerTypes DEF Retained
<1> QED
  BY <1>1, <1>2 DEF Breaker!InWindow, Window

(* A recovery of the window has every later one in the window with it.     *)
LEMMA WindowIsSuffix ==
    ASSUME IInv, BreakerInv, NEW i \in Retained
    PROVE  i..Len(starts) \subseteq Retained
<1>1. i \in DOMAIN starts /\ now - starts[i] < Window
  BY RetainedIsWindow DEF Breaker!InWindow, Window
<1>2. ASSUME NEW j \in i..Len(starts) PROVE j \in Retained
  <2>1. j \in DOMAIN starts /\ i <= j
    BY <1>1, BreakerTypes
  <2>2. starts[i] <= starts[j] /\ starts[i] \in Nat /\ starts[j] \in Nat
    BY <1>1, <2>1, BreakerTypes DEF BreakerInv
  <2>3. now - starts[j] < Window
    BY <1>1, <2>2, BreakerTypes
  <2> QED
    BY <2>1, <2>3, RetainedIsWindow DEF Breaker!InWindow, Window
<1> QED
  BY <1>2

(* The instance counts as this module does.                                *)
LEMMA SameCardinality ==
    ASSUME NEW S
    PROVE  Breaker!Cardinality(S) = Cardinality(S)
  BY DEF Breaker!Cardinality, Cardinality

(* The check admits what the breaker admits, and nothing else.             *)
LEMMA CheckIsAdmits ==
    ASSUME IInv, BreakerInv
    PROVE  ~BreakerOpen <=> Breaker!Admits
<1> DEFINE cooldown == config.recovery_cooldown_ticks
           spacing == Breaker!Spacing
<1>1. /\ Window \in Nat /\ cooldown \in Nat /\ now \in Nat
      /\ \A i \in DOMAIN starts : starts[i] \in Nat /\ starts[i] <= now
      /\ Len(starts) \in Nat /\ DOMAIN starts = 1..Len(starts)
  BY BreakerTypes DEF BreakerInv
<1>2. spacing = IF cooldown < Window THEN cooldown ELSE Window
  BY DEF Breaker!Spacing, Window
<1>3. Retained = Breaker!InWindow /\ Retained \subseteq DOMAIN starts
  BY RetainedIsWindow DEF Breaker!InWindow
<1>4. ASSUME Cooling PROVE \E i \in DOMAIN starts : ~(now - starts[i] >= spacing)
  <2>1. PICK i \in Retained : now - starts[i] < cooldown
    BY <1>4 DEF Cooling
  <2>2. i \in DOMAIN starts /\ now - starts[i] < Window
    BY <2>1, <1>3 DEF Breaker!InWindow, Window
  <2> HIDE DEF cooldown, spacing
  <2>3. ~(now - starts[i] >= spacing)
    BY <1>1, <1>2, <2>1, <2>2
  <2> QED
    BY <2>2, <2>3
<1>5. ASSUME ~Cooling, NEW i \in DOMAIN starts PROVE now - starts[i] >= spacing
  <2>1. CASE i \notin Retained
    <3>1. ~(now - starts[i] < Window)
      BY <2>1, <1>3 DEF Breaker!InWindow, Window
    <3> HIDE DEF cooldown, spacing
    <3> QED
      BY <1>1, <1>2, <3>1
  <2>2. CASE i \in Retained
    <3> DEFINE n == Len(starts)
    <3>1. n \in DOMAIN starts /\ i <= n /\ n \in i..n
      BY <1>1
    <3>2. n \in Retained
      BY <2>2, <3>1, WindowIsSuffix
    <3>3. \A j \in Retained : j <= n
      BY <1>1, <1>3
    <3>4. now >= starts[n] /\ starts[n] \in Nat /\ starts[i] \in Nat
      BY <1>1, <3>1
    <3>5. ~(now - starts[n] < cooldown)
      BY <1>5, <3>2, <3>3, <3>4 DEF Cooling
    <3>6. starts[i] <= starts[n]
      BY <3>1 DEF BreakerInv
    <3> HIDE DEF cooldown, spacing, n
    <3> QED
      BY <1>1, <1>2, <3>4, <3>5, <3>6
  <2> QED
    BY <2>1, <2>2
<1>6. Cardinality(Retained) \in Nat
  <2>1. IsFiniteSet(DOMAIN starts)
    BY <1>1, FS_Interval
  <2> QED
    BY <1>3, <2>1, FS_Subset, FS_CardinalityType
<1>7. ~(Cardinality(Retained) >= RecoveryLimit) <=> Cardinality(Breaker!InWindow) < RecoveryLimit
  BY <1>3, <1>6, BreakerTypes
<1>8. ~Cooling <=> \A i \in DOMAIN starts : now - starts[i] >= spacing
  BY <1>4, <1>5
<1>9. Breaker!Admits <=> /\ Cardinality(Breaker!InWindow) < RecoveryLimit
                         /\ \A i \in DOMAIN starts : now - starts[i] >= spacing
  BY SameCardinality DEF Breaker!Admits
<1>10. BreakerOpen <=> Cardinality(Retained) >= RecoveryLimit \/ Cooling
  BY DEF BreakerOpen
<1> HIDE DEF spacing
<1> QED
  BY <1>7, <1>8, <1>9, <1>10

------------------------------------------------------------------------------
(* Only the check and the clock touch what the breaker is about.           *)
LEMMA StepKinds ==
    ASSUME [Next]_vars
    PROVE  /\ config' = config
           /\ \/ starts' = starts /\ recovery_timestamps_' = recovery_timestamps_ /\ now' = now
              \/ Tick
              \/ \E t \in Threads : CheckRefuses(t)
              \/ \E t \in Threads : CheckStarts(t)
<1>1. CASE Engine \/ Tick \/ UNCHANGED vars
  BY <1>1 DEF Engine, Tick, vars, breakerVars
<1>2. ASSUME NEW t \in Threads, CallAcquire(t) \/ UseBuffer(t)
      PROVE  config' = config /\ starts' = starts /\ recovery_timestamps_' = recovery_timestamps_ /\ now' = now
  BY <1>2 DEF CallAcquire, Call, UseBuffer, breakerVars
<1>3. ASSUME NEW t \in Threads, AcquireStep(t), ~CheckRefuses(t), ~CheckStarts(t)
      PROVE  config' = config /\ starts' = starts /\ recovery_timestamps_' = recovery_timestamps_ /\ now' = now
  BY <1>3 DEF AcquireStep, InitialGetBuffer, ReadPadding, AdaptiveRetry, FallbackOff, FallbackRefused,
     EnterGate, StopClient, ResetClient, StartClient, RefreshPadding, FinalGetBuffer, Return
<1>4. ASSUME NEW t \in Threads, CheckRefuses(t) \/ CheckStarts(t) PROVE config' = config
  BY <1>4 DEF CheckRefuses, CheckStarts
<1> QED
  BY <1>1, <1>2, <1>3, <1>4 DEF Next

(* A new start at the end of the sequence.                                 *)
LEMMA StartAppends ==
    ASSUME IInv, NEW t \in Threads, CheckStarts(t)
    PROVE  /\ DOMAIN starts' = DOMAIN starts \cup {Len(starts) + 1}
           /\ starts'[Len(starts) + 1] = now
           /\ \A i \in DOMAIN starts : i < Len(starts) + 1 /\ starts'[i] = starts[i]
           /\ recovery_timestamps_' = Retained \cup {Len(starts) + 1}
           /\ now' = now
<1>1. /\ starts' = Append(starts, now) /\ starts \in Seq(0..MaxTime) /\ now \in 0..MaxTime
      /\ recovery_timestamps_' = Retained \cup {Len(starts) + 1}
      /\ now' = now
  BY DEF CheckStarts, IInv, TypeOK
<1>2. /\ Len(starts') = Len(starts) + 1 /\ starts' \in Seq(0..MaxTime) /\ Len(starts) \in Nat
      /\ \A i \in 1..Len(starts) : starts'[i] = starts[i]
      /\ starts'[Len(starts) + 1] = now
  BY <1>1
<1>3. DOMAIN starts' = 1..(Len(starts) + 1) /\ DOMAIN starts = 1..Len(starts)
  BY <1>1, <1>2
<1> QED
  BY <1>1, <1>2, <1>3

LEMMA BreakerNext ==
    ASSUME IInv, BreakerInv, [Next]_vars
    PROVE  BreakerInv'
<1>1. config' = config /\ Window' = Window
  BY StepKinds DEF Window
<1>2. CASE starts' = starts /\ recovery_timestamps_' = recovery_timestamps_ /\ now' = now
  BY <1>1, <1>2 DEF BreakerInv
<1>3. CASE Tick
  <2>1. starts' = starts /\ recovery_timestamps_' = recovery_timestamps_ /\ now' = now + 1
    BY <1>3 DEF Tick, breakerVars
  <2>2. ASSUME NEW i \in DOMAIN starts
        PROVE  /\ starts[i] <= now + 1
               /\ i \notin recovery_timestamps_ => (now + 1) - starts[i] >= Window
    BY BreakerTypes DEF BreakerInv
  <2> QED
    BY <1>1, <2>1, <2>2 DEF BreakerInv
<1>4. ASSUME NEW t \in Threads, CheckRefuses(t) PROVE BreakerInv'
  <2>1. starts' = starts /\ recovery_timestamps_' = Retained /\ now' = now
    BY <1>4 DEF CheckRefuses
  <2>2. ASSUME NEW i \in DOMAIN starts \ Retained PROVE now - starts[i] >= Window
    BY BreakerTypes, RetainedIsWindow DEF Breaker!InWindow, Window
  <2> QED
    BY <1>1, <2>1, <2>2 DEF BreakerInv
<1>5. ASSUME NEW t \in Threads, CheckStarts(t) PROVE BreakerInv'
  <2> DEFINE n == Len(starts) + 1
  <2>1. /\ DOMAIN starts' = DOMAIN starts \cup {n}
        /\ starts'[n] = now
        /\ \A i \in DOMAIN starts : i < n /\ starts'[i] = starts[i]
        /\ recovery_timestamps_' = Retained \cup {n}
        /\ now' = now
        /\ now \in Nat /\ n \in Nat
    <3>1. now \in Nat /\ Len(starts) \in Nat
      BY BreakerTypes
    <3>2. n \in Nat
      BY <3>1
    <3> QED
      BY <1>5, <3>1, <3>2, StartAppends, Zenon
  <2>2. ASSUME NEW i \in DOMAIN starts' PROVE starts'[i] <= now'
    <3>1. CASE i = n
      <4>1. starts'[i] = now
        BY <2>1, <3>1
      <4> QED
        BY <2>1, <4>1
    <3>2. CASE i # n
      <4>1. i \in DOMAIN starts
        BY <2>1, <3>2
      <4> QED
        BY <2>1, <4>1 DEF BreakerInv
    <3> QED
      BY <3>1, <3>2
  <2>3. ASSUME NEW i \in DOMAIN starts', NEW j \in DOMAIN starts', i <= j PROVE starts'[i] <= starts'[j]
    <3>1. CASE j = n
      <4>1. starts'[j] = now /\ starts'[i] <= now
        BY <2>1, <2>2, <3>1
      <4> QED
        BY <4>1
    <3>2. CASE j # n
      <4>1. j \in DOMAIN starts /\ j < n
        BY <2>1, <3>2
      <4>2. i \in DOMAIN starts
        BY <2>1, <2>3, <4>1, BreakerTypes
      <4> QED
        BY <2>1, <2>3, <4>1, <4>2 DEF BreakerInv
    <3> QED
      BY <3>1, <3>2
  <2>4. ASSUME NEW i \in DOMAIN starts' \ recovery_timestamps_' PROVE now' - starts'[i] >= Window'
    <3>1. i \in DOMAIN starts \ Retained
      BY <2>1
    <3>2. now - starts[i] >= Window
      BY <3>1, BreakerTypes, RetainedIsWindow DEF Breaker!InWindow, Window
    <3> QED
      BY <1>1, <2>1, <3>1, <3>2
  <2> QED
    BY <2>2, <2>3, <2>4 DEF BreakerInv
<1> QED
  BY <1>2, <1>3, <1>4, <1>5, StepKinds

LEMMA BreakerInit == Init => BreakerInv
  BY DEF Init, BreakerInv

THEOREM BreakerInvariant == Spec => [](IInv /\ BreakerInv)
<1>1. IInv /\ BreakerInv /\ [Next]_vars => BreakerInv'
  BY BreakerNext
<1> QED
  BY <1>1, BreakerInit, InitIInv, NextIInv, PTL DEF Spec

------------------------------------------------------------------------------
(* Every step of Acquire is a step of the breaker or leaves it alone.      *)
LEMMA BreakerStep ==
    ASSUME IInv, BreakerInv, [Next]_vars
    PROVE  [Breaker!Next]_(Breaker!vars)
<1>1. config' = config /\ RecoveryLimit' = RecoveryLimit
  BY StepKinds DEF RecoveryLimit
<1> DEFINE limits == [max |-> RecoveryLimit, window |-> config.recovery_window_ticks,
                      cooldown |-> config.recovery_cooldown_ticks]
<1>2. limits' = limits
  BY <1>1
<1>3. CASE starts' = starts /\ now' = now
  <2>1. UNCHANGED Breaker!vars
    BY <1>2, <1>3 DEF Breaker!vars
  <2> QED
    BY <2>1
<1>4. CASE Tick
  <2>1. Breaker!Tick
    BY <1>2, <1>4 DEF Tick, breakerVars, Breaker!Tick
  <2> QED
    BY <2>1 DEF Breaker!Next
<1>5. ASSUME NEW t \in Threads, CheckStarts(t) PROVE Breaker!Start
  <2>1. ~BreakerOpen /\ starts' = Append(starts, now) /\ now' = now
    BY <1>5 DEF CheckStarts
  <2>2. Breaker!Admits
    BY <2>1, CheckIsAdmits
  <2> QED
    BY <1>2, <2>1, <2>2 DEF Breaker!Start
<1>6. ASSUME NEW t \in Threads, CheckRefuses(t) PROVE starts' = starts /\ now' = now
  BY <1>6 DEF CheckRefuses
<1> QED
  BY <1>3, <1>4, <1>5, <1>6, StepKinds DEF Breaker!Next

(* The array of timestamps, pruned at each check and bounded by its        *)
(* capacity, implements the breaker: it admits a recovery only when the    *)
(* last window holds fewer than the limit and the spacing is kept, over    *)
(* the whole history.                                                      *)
THEOREM AcquireImplementsBreaker == Spec => BreakerSpec
<1>1. Init => Breaker!Init
  <2> SUFFICES ASSUME Init PROVE Breaker!Init
    OBVIOUS
  <2>1. IInv
    BY InitIInv
  <2>2. /\ RecoveryLimit \in Nat /\ config.recovery_window_ticks \in Nat
        /\ config.recovery_cooldown_ticks \in Nat /\ now \in Nat /\ starts = <<>>
    BY <2>1, BreakerTypes DEF Window, Init
  <2> QED
    BY <2>2 DEF Breaker!Init, Breaker!Limits
<1>2. IInv /\ BreakerInv /\ [Next]_vars => [Breaker!Next]_(Breaker!vars)
  BY BreakerStep
<1> QED
  BY <1>1, <1>2, BreakerInvariant, PTL DEF Spec, BreakerSpec, Breaker!Spec

(* ... and it refuses none that the breaker admits.                        *)
THEOREM BreakerRefusesOnlyWhenDue == Spec => RefusesOnlyWhenDue
<1>1. IInv /\ BreakerInv => [\A t \in Threads : CheckRefuses(t) => ~Breaker!Admits]_vars
  BY CheckIsAdmits DEF CheckRefuses
<1> QED
  BY <1>1, BreakerInvariant, PTL DEF RefusesOnlyWhenDue

------------------------------------------------------------------------------
(* A start that the breaker admits keeps the window and the spacing.       *)
LEMMA WindowNext ==
    ASSUME IInv, BreakerInv, WindowRespected, [Next]_vars
    PROVE  WindowRespected'
<1>1. config' = config /\ Window' = Window /\ RecoveryLimit' = RecoveryLimit
  BY StepKinds DEF Window, RecoveryLimit
<1>2. CASE starts' = starts
  BY <1>1, <1>2 DEF WindowRespected, Window
<1>3. ASSUME NEW t \in Threads, CheckStarts(t),
             NEW i \in DOMAIN starts', NEW j \in DOMAIN starts', j - i >= RecoveryLimit
      PROVE  starts'[j] - starts'[i] >= Window
  <2> DEFINE n == Len(starts)
  <2>1. /\ DOMAIN starts' = DOMAIN starts \cup {n + 1}
        /\ starts'[n + 1] = now
        /\ \A k \in DOMAIN starts : k < n + 1 /\ starts'[k] = starts[k]
    BY <1>3, StartAppends
  <2>2. /\ n \in Nat /\ DOMAIN starts = 1..n /\ RecoveryLimit \in Nat /\ now \in Nat /\ Window \in Nat
        /\ Retained \subseteq 1..n
    BY BreakerTypes, RetainedIsWindow DEF Breaker!InWindow
  <2> HIDE DEF n
  <2>3. /\ IsFiniteSet(Retained) /\ Cardinality(Retained) \in Nat
        /\ Cardinality(Retained) < RecoveryLimit
    <3>1. ~(Cardinality(Retained) >= RecoveryLimit)
      BY <1>3 DEF CheckStarts, BreakerOpen
    <3>2. IsFiniteSet(1..n)
      BY <2>2, FS_Interval
    <3>3. IsFiniteSet(Retained)
      BY <2>2, <3>2, FS_Subset
    <3>4. Cardinality(Retained) \in Nat
      BY <3>3, FS_CardinalityType
    <3> QED
      BY <2>2, <3>1, <3>3, <3>4
  <2>4. CASE j # n + 1
    <3>1. j \in DOMAIN starts /\ j <= n
      BY <2>1, <2>2, <2>4
    <3>2. i \in DOMAIN starts
      BY <1>3, <2>1, <2>2, <3>1
    <3> QED
      BY <1>3, <2>1, <3>1, <3>2 DEF WindowRespected, Window
  <2>5. CASE j = n + 1 /\ i = n + 1
    <3>1. RecoveryLimit = 0
      BY <1>3, <2>2, <2>5
    <3> QED
      BY <2>3, <3>1
  <2>6. CASE j = n + 1 /\ i # n + 1
    <3>1. i \in 1..n /\ (n + 1) - i >= RecoveryLimit /\ starts'[i] = starts[i] /\ starts'[j] = now
      BY <1>3, <2>1, <2>2, <2>6
    <3>2. CASE i \in Retained
      <4>1. i..n \subseteq Retained
        BY <3>2, WindowIsSuffix DEF n
      <4>2. Cardinality(i..n) <= Cardinality(Retained)
        BY <2>3, <4>1, FS_Subset
      <4>3. Cardinality(i..n) = (n - i) + 1
        BY <2>2, <3>1, FS_Interval
      <4> QED
        BY <2>2, <2>3, <3>1, <4>2, <4>3
    <3>3. CASE i \notin Retained
      <4>1. i \in DOMAIN starts /\ ~(now - starts[i] < Window)
        BY <2>2, <3>1, <3>3, RetainedIsWindow DEF Breaker!InWindow, Window
      <4>2. starts[i] \in Nat
        BY <4>1, BreakerTypes
      <4> QED
        BY <2>2, <3>1, <4>1, <4>2
    <3> QED
      BY <3>2, <3>3
  <2> QED
    BY <2>4, <2>5, <2>6
<1>4. ASSUME NEW t \in Threads, CheckStarts(t) PROVE WindowRespected'
  BY <1>1, <1>3, <1>4 DEF WindowRespected, Window
<1> QED
  BY <1>2, <1>4, StepKinds DEF CheckRefuses, Tick, breakerVars

(* No window of recovery_window_ticks ever has more recoveries start in it *)
(* than maximum_recoveries_per_window.                                     *)
THEOREM WindowKept == Spec => []WindowRespected
<1>1. Init => WindowRespected
  BY DEF Init, WindowRespected
<1>2. IInv /\ BreakerInv /\ WindowRespected /\ [Next]_vars => WindowRespected'
  BY WindowNext
<1> QED
  BY <1>1, <1>2, BreakerInvariant, PTL DEF Spec

LEMMA SpacingNext ==
    ASSUME IInv, BreakerInv, SpacingRespected, [Next]_vars
    PROVE  SpacingRespected'
<1> DEFINE spacing == Smaller(config.recovery_cooldown_ticks, config.recovery_window_ticks)
<1>1. config' = config /\ spacing' = spacing
  BY StepKinds DEF Smaller
<1>2. CASE starts' = starts
  BY <1>1, <1>2 DEF SpacingRespected
<1>3. ASSUME NEW t \in Threads, CheckStarts(t),
             NEW i \in DOMAIN starts', NEW j \in DOMAIN starts', i < j
      PROVE  starts'[j] - starts'[i] >= spacing
  <2> DEFINE n == Len(starts)
  <2>1. /\ DOMAIN starts' = DOMAIN starts \cup {n + 1}
        /\ starts'[n + 1] = now
        /\ \A k \in DOMAIN starts : k < n + 1 /\ starts'[k] = starts[k]
    BY <1>3, StartAppends
  <2>2. n \in Nat /\ DOMAIN starts = 1..n
    BY BreakerTypes
  <2>3. \A k \in DOMAIN starts : now - starts[k] >= spacing
    <3>1. Breaker!Admits
      BY <1>3, CheckIsAdmits DEF CheckStarts
    <3>2. Breaker!Spacing = spacing
      BY DEF Breaker!Spacing, Smaller
    <3> HIDE DEF spacing
    <3> QED
      BY <3>1, <3>2 DEF Breaker!Admits
  <2> HIDE DEF n, spacing
  <2>4. i \in DOMAIN starts /\ starts'[i] = starts[i]
    BY <1>3, <2>1, <2>2
  <2>5. CASE j = n + 1
    BY <2>1, <2>3, <2>4, <2>5
  <2>6. CASE j # n + 1
    <3>1. j \in DOMAIN starts /\ starts'[j] = starts[j]
      BY <2>1, <2>6
    <3> QED
      BY <1>3, <2>4, <3>1 DEF SpacingRespected, spacing
  <2> QED
    BY <2>5, <2>6
<1>4. ASSUME NEW t \in Threads, CheckStarts(t) PROVE SpacingRespected'
  BY <1>1, <1>3, <1>4 DEF SpacingRespected
<1> QED
  BY <1>2, <1>4, StepKinds DEF CheckRefuses, Tick, breakerVars

(* Two recoveries are never closer than the smaller of the cooldown and    *)
(* the window.                                                             *)
THEOREM SpacingKept == Spec => []SpacingRespected
<1>1. Init => SpacingRespected
  BY DEF Init, SpacingRespected
<1>2. IInv /\ BreakerInv /\ SpacingRespected /\ [Next]_vars => SpacingRespected'
  BY SpacingNext
<1> QED
  BY <1>1, <1>2, BreakerInvariant, PTL DEF Spec
===============================================================================
