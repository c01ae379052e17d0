----------------------------- MODULE LoopFacts -----------------------------
(***************************************************************************)
(* The rule for loops: what holds before the first round, and what every   *)
(* round carries on, holds after the last.  Step is the body and Inv the   *)
(* invariant; both may depend on a, which the loop does not change, and on *)
(* the number of rounds done.  A proof about a loop instantiates this      *)
(* module with the two.  That numbers count up to n is CountUp of          *)
(* CommonFacts: the many instances of this module leave it and the library *)
(* that it needs outside.                                                  *)
(***************************************************************************)
EXTENDS Loops

CONSTANTS Step(_, _, _), Inv(_, _, _)

After(a, start, n) == Iterate(LAMBDA x, i : Step(a, x, i), start, n)

\* Counting up from 0 one gets to n.
CountsUp(n) == \A T : 0 \in T /\ (\A k \in 1..n : k - 1 \in T => k \in T) => n \in T

\* The states after each of the first n rounds.
RunOf(a, start, n, run) ==
  run = [i \in 0..n |-> IF i = 0 THEN start ELSE Step(a, run[i - 1], i)]

LEMMA RunExists ==
  ASSUME NEW a, NEW start, NEW n \in Nat, CountsUp(n)
  PROVE  \E run : RunOf(a, start, n, run)
  <1> DEFINE T == {k \in Nat : \E run : RunOf(a, start, k, run)}
  <1>1. 0 \in T
    <2>1. RunOf(a, start, 0, [i \in 0..0 |-> start])
      BY DEF RunOf
    <2> QED  BY <2>1
  <1>2. ASSUME NEW k \in 1..n, k - 1 \in T
        PROVE  k \in T
    <2>1. PICK run : RunOf(a, start, k - 1, run)
      BY <1>2
    <2> DEFINE r == [i \in 0..k |-> IF i = k THEN Step(a, run[k - 1], k) ELSE run[i]]
    <2>2. /\ DOMAIN run = 0..(k - 1) /\ run[0] = start
          /\ \A i \in 1..(k - 1) : run[i] = Step(a, run[i - 1], i)
      BY <2>1 DEF RunOf
    <2>3. /\ r[0] = start /\ r[k] = Step(a, run[k - 1], k)
          /\ \A i \in 0..(k - 1) : r[i] = run[i]
      BY <2>2
    <2>4. ASSUME NEW i \in 0..k
          PROVE  r[i] = IF i = 0 THEN start ELSE Step(a, r[i - 1], i)
      <3>1. CASE i = 0
        BY <2>3, <3>1
      <3>2. CASE i = k
        <4>1. r[k - 1] = run[k - 1] /\ i # 0
          BY <2>3, <3>2
        <4> QED  BY <2>3, <3>2, <4>1
      <3>3. CASE i \in 1..(k - 1)
        <4>1. i - 1 \in 0..(k - 1) /\ i \in 0..(k - 1)
          BY <3>3
        <4>2. r[i] = run[i] /\ r[i - 1] = run[i - 1]
          BY <2>3, <4>1
        <4> QED  BY <2>2, <3>3, <4>2
      <3> QED  BY <3>1, <3>2, <3>3
    <2> HIDE DEF r
    <2>5. r = [i \in 0..k |-> IF i = 0 THEN start ELSE Step(a, r[i - 1], i)]
      BY <2>4 DEF r
    <2> QED  BY <2>5 DEF RunOf
  <1> HIDE DEF T
  <1>3. n \in T
    BY <1>1, <1>2 DEF CountsUp
  <1> QED  BY <1>3 DEF T

\* After each round the state is the body's, of what the round before has left.
LEMMA Rounds ==
  ASSUME NEW a, NEW start, NEW n \in Nat, CountsUp(n)
  PROVE  \E run : /\ run[0] = start /\ \A k \in 1..n : run[k] = Step(a, run[k - 1], k)
                  /\ After(a, start, n) = run[n]
  <1> DEFINE run == CHOOSE r : r = [i \in 0..n |-> IF i = 0 THEN start ELSE Step(a, r[i - 1], i)]
  <1>1. After(a, start, n) = run[n]
    BY DEF After, Iterate
  <1>2. run = [i \in 0..n |-> IF i = 0 THEN start ELSE Step(a, run[i - 1], i)]
    BY RunExists DEF RunOf
  <1> HIDE DEF run
  <1>3. run[0] = start /\ \A k \in 1..n : run[k] = Step(a, run[k - 1], k)
    BY <1>2
  <1> QED  BY <1>1, <1>3

\* Two rounds
LEMMA Twice ==
  ASSUME NEW a, NEW start, CountsUp(2)
  PROVE  After(a, start, 2) = Step(a, Step(a, start, 1), 2)
  <1>1. PICK run : /\ run[0] = start /\ \A k \in 1..2 : run[k] = Step(a, run[k - 1], k)
                   /\ After(a, start, 2) = run[2]
    BY Rounds
  <1>2. run[1] = Step(a, run[0], 1) /\ run[2] = Step(a, run[1], 2)
    BY <1>1
  <1> QED  BY <1>1, <1>2

(***************************************************************************)
(* An invariant of the body is one of the loop (the loops of Manager.cc,   *)
(* ClientProxy.cc and ProxySlabTracker.cc, which Iterate stands for).      *)
(***************************************************************************)
THEOREM LoopInvariant ==
  \A a, start : \A n \in Nat :
    /\ CountsUp(n)
    /\ Inv(a, start, 0)
    /\ \A k \in 1..n : \A x : Inv(a, x, k - 1) => Inv(a, Step(a, x, k), k)
    => Inv(a, After(a, start, n), n)
  <1> SUFFICES ASSUME NEW a, NEW start, NEW n \in Nat, CountsUp(n), Inv(a, start, 0),
                      \A k \in 1..n : \A x : Inv(a, x, k - 1) => Inv(a, Step(a, x, k), k)
               PROVE  Inv(a, After(a, start, n), n)
    OBVIOUS
  <1>1. PICK run : /\ run[0] = start /\ \A k \in 1..n : run[k] = Step(a, run[k - 1], k)
                   /\ After(a, start, n) = run[n]
    BY Rounds
  <1> DEFINE T == {k \in 0..n : Inv(a, run[k], k)}
  <1>2. 0 \in T
    BY <1>1
  <1>3. ASSUME NEW k \in 1..n, k - 1 \in T
        PROVE  k \in T
    BY <1>1, <1>3
  <1> HIDE DEF T
  <1>4. n \in T
    BY <1>2, <1>3 DEF CountsUp
  <1> QED  BY <1>1, <1>4 DEF T
=============================================================================
