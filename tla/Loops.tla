------------------------------- MODULE Loops -------------------------------
(***************************************************************************)
(* A loop of the program: n rounds of a body, the i-th of which turns the  *)
(* state x that the round before has left into Step(x, i).  A loop that    *)
(* may stop early has a body that changes nothing once it has stopped, and *)
(* an n that no run of it exceeds.                                         *)
(***************************************************************************)
EXTENDS Integers

Iterate(Step(_, _), start, n) ==
  LET run[i \in 0..n] == IF i = 0 THEN start ELSE Step(run[i - 1], i) IN run[n]
=============================================================================
