---------------------------- MODULE CircuitBreaker ----------------------------
(***************************************************************************)
(* What the recovery circuit breaker promises, whatever array it keeps: at *)
(* every moment the starts of the last window are at most limits.max, and  *)
(* two starts are at least a cooldown apart.  The cooldown it can promise  *)
(* is never longer than the window, because a start that has left the      *)
(* window is forgotten.                                                    *)
(***************************************************************************)
EXTENDS Naturals, Sequences, FiniteSets

CONSTANT MaxTime    \* bound on the clock

VARIABLES
    limits,     \* the configured [max, window, cooldown], fixed
    now,        \* the clock
    starts      \* the time of every recovery started so far

vars == <<limits, now, starts>>

Limits == [max: Nat, window: Nat, cooldown: Nat]

Spacing == IF limits.cooldown < limits.window THEN limits.cooldown ELSE limits.window

(* The recoveries of the window that ends now.                             *)
InWindow == {i \in DOMAIN starts : now - starts[i] < limits.window}

(* A recovery may start now.                                               *)
Admits ==
    /\ Cardinality(InWindow) < limits.max
    /\ \A i \in DOMAIN starts : now - starts[i] >= Spacing

Init ==
    /\ limits \in Limits
    /\ now \in Nat
    /\ starts = <<>>

Tick ==
    /\ now < MaxTime
    /\ now' = now + 1
    /\ UNCHANGED <<limits, starts>>

Start ==
    /\ Admits
    /\ starts' = Append(starts, now)
    /\ UNCHANGED <<limits, now>>

Next == Tick \/ Start

Spec == Init /\ [][Next]_vars

===============================================================================
