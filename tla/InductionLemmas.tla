---------------------------- MODULE InductionLemmas ----------------------------
(***************************************************************************)
(* Induction without a predicate: what the proofs about recursive functions*)
(* rest on.  A property of the numbers to N is the set of those that have  *)
(* it, and a recursion is the function that makes the next value of one.   *)
(***************************************************************************)
EXTENDS Integers, WellFoundedInduction, TLAPS

LEMMA LessIsRelated ==
    ASSUME NEW x \in Nat, NEW y \in Nat, y < x
    PROVE  <<y, x>> \in OpToRel(<, Nat)
  BY DEF OpToRel

(* A set of numbers has a least one.                                       *)
LEMMA LeastExists ==
    ASSUME NEW T \in SUBSET Nat, T # {}
    PROVE  \E x \in T : \A y \in T : x <= y
  <1> DEFINE R == OpToRel(<, Nat)
  <1>1. IsWellFoundedOn(R, Nat)
    BY NatLessThanWellFounded
  <1>2. \A x, y \in Nat : y < x => <<y, x>> \in R
    BY LessIsRelated
  <1> HIDE DEF R
  <1>3. PICK x \in T : \A y \in T : ~(<<y, x>> \in R)
    BY <1>1, WFMin
  <1>4. ASSUME NEW y \in T
        PROVE  x <= y
    <2>1. x \in Nat /\ y \in Nat
      BY <1>3
    <2>2. ~(y < x)
      BY <1>2, <1>3, <2>1
    <2> QED BY <2>1, <2>2
  <1> QED BY <1>3, <1>4

(* A set that has 0, and n with n - 1, has all numbers.                    *)
LEMMA Counting ==
    ASSUME NEW N \in Nat, NEW T, 0 \in T,
           \A n \in 1..N : n - 1 \in T => n \in T
    PROVE  \A n \in 0..N : n \in T
  <1> DEFINE Out == {n \in 0..N : n \notin T}
  <1>1. SUFFICES ASSUME Out # {} PROVE FALSE
    OBVIOUS
  <1>2. PICK least \in Out : \A n \in Out : least <= n
    <2>1. Out \in SUBSET Nat
      OBVIOUS
    <2> HIDE DEF Out
    <2> QED BY <1>1, <2>1, LeastExists
  <1>3. least \in 1..N /\ least \notin T
    OBVIOUS
  <1>4. least - 1 \in 0..N /\ ~(least <= least - 1)
    BY <1>3
  <1>5. least - 1 \in T
    BY <1>2, <1>4
  <1> QED BY <1>3, <1>5

(* A recursion whose base and step are typed defines a typed function.     *)
LEMMA Recursion ==
    ASSUME NEW S, NEW base \in S, NEW N \in Nat, NEW step \in [1..N -> [S -> S]]
    PROVE  \E h \in [0..N -> S] :
               h[0] = base /\ \A n \in 1..N : h[n] = step[n][h[n - 1]]
  <1> DEFINE Sound(n, h) ==
                 /\ h \in [0..n -> S]
                 /\ \A k \in 0..n : h[k] = IF k = 0 THEN base ELSE step[k][h[k - 1]]
             T == {n \in 0..N : \E h : Sound(n, h)}
  <1>1. 0 \in T
    <2> DEFINE h == [k \in 0..0 |-> base]
    <2>1. Sound(0, h)
      OBVIOUS
    <2>2. \E g : Sound(0, g)
      <3> HIDE DEF Sound, h
      <3> QED BY <2>1
    <2> QED BY <2>2
  <1>2. ASSUME NEW n \in 1..N, n - 1 \in T
        PROVE  n \in T
    <2>1. PICK g : Sound(n - 1, g)
      BY <1>2
    <2>2. n - 1 \in 0..n - 1 /\ g[n - 1] \in S
      BY <2>1
    <2>3. step[n][g[n - 1]] \in S
      BY <2>2
    <2> DEFINE h == [k \in 0..n |-> IF k = n THEN step[n][g[n - 1]] ELSE g[k]]
    <2>4. h \in [0..n -> S]
      <3>1. \A k \in 0..n : k # n => g[k] \in S
        BY <2>1
      <3> QED BY <2>3, <3>1
    <2>5. ASSUME NEW k \in 0..n
          PROVE  h[k] = IF k = 0 THEN base ELSE step[k][h[k - 1]]
      <3>1. CASE k = n
        <4>1. h[k - 1] = g[n - 1] /\ h[k] = step[n][g[n - 1]]
          BY <3>1
        <4> HIDE DEF h
        <4> QED BY <4>1, <3>1
      <3>2. CASE k = 0
        <4>1. 0 \in 0..n - 1 /\ 0 # n
          OBVIOUS
        <4>2. g[0] = base
          BY <2>1, <4>1
        <4>3. h[k] = g[0]
          BY <3>2, <4>1
        <4> HIDE DEF h
        <4> QED BY <4>2, <4>3, <3>2
      <3>3. CASE k \in 1..n - 1
        <4>1. h[k] = g[k] /\ h[k - 1] = g[k - 1]
          BY <3>3
        <4>2. g[k] = step[k][g[k - 1]]
          BY <2>1, <3>3
        <4> HIDE DEF h
        <4> QED BY <4>1, <4>2, <3>3
      <3> QED BY <3>1, <3>2, <3>3
    <2>6. \E f : Sound(n, f)
      <3> HIDE DEF h
      <3> QED BY <2>4, <2>5
    <2> QED BY <2>6
  <1>3. N \in T
    <2> HIDE DEF T
    <2>1. \A n \in 0..N : n \in T
      BY <1>1, <1>2, Counting
    <2> QED BY <2>1
  <1>4. PICK h : Sound(N, h)
    BY <1>3
  <1>5. h[0] = base
    <2>1. 0 \in 0..N
      OBVIOUS
    <2> QED BY <1>4, <2>1
  <1>6. ASSUME NEW n \in 1..N
        PROVE  h[n] = step[n][h[n - 1]]
    <2>1. n \in 0..N /\ n # 0
      OBVIOUS
    <2> QED BY <1>4, <2>1
  <1> QED BY <1>4, <1>5, <1>6
===============================================================================
