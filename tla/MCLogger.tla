------------------------------- MODULE MCLogger -------------------------------
(* Small instances of Logger. *)
EXTENDS Logger, TLC

(* Producers are interchangeable.                                          *)
MCSymmetry == Permutations(Producers)
===============================================================================
