----------------------------- MODULE AudioClient -----------------------------
(***************************************************************************)
(* The WASAPI render client (IAudioClient with its IAudioRenderClient), as *)
(* the patch uses it: external code.  A client is a record                 *)
(*   valid     the endpoint is still there                                 *)
(*   running   between a Start and a Stop                                  *)
(*   padding   frames queued for the engine and not yet played             *)
(*   acquired  frames handed out by GetBuffer and not yet released, or 0   *)
(* and a call is the set of answers it may give: its HRESULT, classed as   *)
(* the patch classes it, and the client after it.                          *)
(***************************************************************************)
EXTENDS Naturals

CONSTANTS
    Capacity,   \* IAudioClient::GetBufferSize, in frames
    Faults      \* what may go wrong, a subset of FaultKinds

(* "tooLarge": GetBuffer answers TOO_LARGE although the request fits;      *)
(* "failure": a call fails and does nothing; "padding": GetCurrentPadding  *)
(* succeeds with more frames than the capacity; "lost": the endpoint goes. *)
FaultKinds == {"tooLarge", "failure", "padding", "lost"}

ASSUME CapacityAssumption == Capacity \in Nat \ {0}
ASSUME FaultsAssumption == Faults \subseteq FaultKinds

(* kOk, kBufferTooLarge, and every other failed HRESULT.                   *)
Hr == {"Ok", "TooLarge", "Other"}

Client == [valid: BOOLEAN, running: BOOLEAN, padding: 0..Capacity, acquired: 0..Capacity]

FreshClient == [valid |-> TRUE, running |-> FALSE, padding |-> 0, acquired |-> 0]

Answer(hr, client) == [hr |-> hr, client |-> client]

(* The answers of a call that in state c may also just fail.               *)
OrFailure(c, answers) ==
    IF ~c.valid THEN {Answer("Other", c)}
    ELSE answers \cup (IF "failure" \in Faults THEN {Answer("Other", c)} ELSE {})

Fits(c, frames) == c.padding + frames <= Capacity

(* One buffer at a time; a request that does not fit is TOO_LARGE.         *)
GetBufferAnswers(c, frames) ==
    OrFailure(c,
        IF c.acquired # 0 THEN {Answer("Other", c)}
        ELSE (IF Fits(c, frames) THEN {Answer("Ok", [c EXCEPT !.acquired = frames])} ELSE {})
             \cup (IF ~Fits(c, frames) \/ "tooLarge" \in Faults
                   THEN {Answer("TooLarge", c)} ELSE {}))

(* The padding a call reports, with its HRESULT.                           *)
PaddingAnswers(c) ==
    IF ~c.valid THEN {[hr |-> "Other", padding |-> 0]}
    ELSE {[hr |-> "Ok", padding |-> c.padding]}
         \cup (IF "padding" \in Faults THEN {[hr |-> "Ok", padding |-> Capacity + 1]} ELSE {})
         \cup (IF "failure" \in Faults THEN {[hr |-> "Other", padding |-> 0]} ELSE {})

(* Stop on a stopped client is S_FALSE, which is a success.                *)
StopAnswers(c) == OrFailure(c, {Answer("Ok", [c EXCEPT !.running = FALSE])})

(* Reset wants a stopped client with no buffer handed out.                 *)
ResetAnswers(c) ==
    OrFailure(c, IF c.running \/ c.acquired # 0 THEN {Answer("Other", c)}
                 ELSE {Answer("Ok", [c EXCEPT !.padding = 0])})

(* Start on a running client is AUDCLNT_E_NOT_STOPPED.                     *)
StartAnswers(c) ==
    OrFailure(c, IF c.running THEN {Answer("Other", c)}
                 ELSE {Answer("Ok", [c EXCEPT !.running = TRUE])})

(* ReleaseBuffer queues the frames written, at most those handed out.      *)
ReleaseBufferAnswers(c, frames) ==
    IF ~c.valid \/ c.acquired = 0 \/ frames > c.acquired THEN {Answer("Other", c)}
    ELSE {Answer("Ok", [c EXCEPT !.padding = @ + frames, !.acquired = 0])}

(* The engine plays queued frames while the client runs, and may go away.  *)
Plays(c, d) ==
    /\ c.valid /\ c.running /\ c.padding > 0
    /\ d = [c EXCEPT !.padding = @ - 1]

Loses(c, d) ==
    /\ "lost" \in Faults /\ c.valid
    /\ d = [c EXCEPT !.valid = FALSE]

==============================================================================
