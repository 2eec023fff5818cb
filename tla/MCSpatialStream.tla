--------------------------- MODULE MCSpatialStream ---------------------------
(* Small instances of SpatialStream. *)
EXTENDS SpatialStream, TLC

MCShipped ==
    [enabled |-> TRUE, adaptive_retry |-> TRUE, reset_restart_fallback |-> TRUE,
     maximum_attempts_per_failure |-> 1, maximum_recoveries_per_window |-> 2,
     recovery_window_ticks |-> 2, recovery_cooldown_ticks |-> 1,
     fault_inject_after_successes |-> 0, fault_inject_zero_availability |-> FALSE]

(* The packaged configuration alone, and with the switches off one by one. *)
MCPackaged == {MCShipped}
MCSwitches == {MCShipped, [MCShipped EXCEPT !.enabled = FALSE],
               [MCShipped EXCEPT !.adaptive_retry = FALSE],
               [MCShipped EXCEPT !.reset_restart_fallback = FALSE]}

(* The packaged configuration and a test build that injects a TOO_LARGE,   *)
(* with and without the full buffer, after the first pass.                 *)
MCInjecting == {MCShipped} \cup
    {[MCShipped EXCEPT !.fault_inject_after_successes = 1, !.fault_inject_zero_availability = zero] :
         zero \in BOOLEAN}

(* The game's threads are interchangeable.                                 *)
MCSymmetry == Permutations(Threads)
==============================================================================
