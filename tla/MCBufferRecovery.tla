--------------------------- MODULE MCBufferRecovery ---------------------------
(* Small instances of BufferRecovery. *)
EXTENDS BufferRecovery, TLC

MCConfig(adaptive, fallback, max, window, cooldown, zero) ==
    [enabled |-> TRUE, adaptive_retry |-> adaptive, reset_restart_fallback |-> fallback,
     maximum_attempts_per_failure |-> 1, maximum_recoveries_per_window |-> max,
     recovery_window_ticks |-> window, recovery_cooldown_ticks |-> cooldown,
     fault_inject_after_successes |-> 0, fault_inject_zero_availability |-> zero]

MCShipped == MCConfig(TRUE, TRUE, 2, 3, 1, FALSE)
MCDisabled == [MCShipped EXCEPT !.enabled = FALSE]

(* The packaged configuration, the switches off one by one, and a test     *)
(* build's injected zero availability with one recovery per window.        *)
MCSwitches == {MCShipped, MCDisabled,
               MCConfig(FALSE, TRUE, 2, 3, 1, FALSE),
               MCConfig(TRUE, FALSE, 2, 3, 1, FALSE),
               MCConfig(TRUE, TRUE, 1, 2, 2, TRUE)}

(* A cooldown longer than the window, as config.cpp admits it.             *)
MCLongCooldown == {MCConfig(FALSE, TRUE, 2, 2, 3, FALSE)}

(* Breakers with and without a cooldown, below, at and above the capacity  *)
(* of the array; and the one whose cooldown is longer than its window.     *)
MCBreakers == {MCConfig(FALSE, TRUE, max, 2, 1, FALSE) : max \in {1, 3, 4}}
              \cup {MCConfig(FALSE, TRUE, 3, 2, 0, FALSE)} \cup MCLongCooldown

(* The callers are interchangeable.                                        *)
MCSymmetry == Permutations(Threads)

===============================================================================
