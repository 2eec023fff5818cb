------------------------------ MODULE MCRuntime ------------------------------
(* CoCreateInstance and one XAudio2Create are hooked by the loop; the detour of *)
(* the former stands for the whole chain to IMMDevice::Activate.                *)
EXTENDS Runtime

CONSTANTS CoCreateInstance, XAudio2Create

MCPolled == <<CoCreateInstance, XAudio2Create>>
MCInstalls == [t \in Targets |-> IF t = CoCreateInstance THEN {Activate} ELSE {}]
(* Each module of the system is far from the others: a block for each.          *)
MCReach == [t \in Targets |-> {t}]
=============================================================================
