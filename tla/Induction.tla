----------------------------- MODULE Induction ------------------------------
(***************************************************************************)
(* Induction and recursion over 0 .. N for sets and functions: the rules   *)
(* that the proofs about sums, tables and sequences of the models need.    *)
(*                                                                         *)
(* The rules of NaturalsInduction take a predicate.  Here it is a set, and *)
(* a step of a recursion is a function, so that a rule is used by naming   *)
(* it; they rest on the order of the natural numbers being well-founded.   *)
(***************************************************************************)
EXTENDS Integers, WellFoundedInduction, TLAPS

(* Nonempty sets of naturals have a least element.                         *)
LEMMA Minimum ==
  ASSUME NEW S \in SUBSET Nat, NEW x \in S
  PROVE  \E m \in S : \A n \in S : m <= n
<1> DEFINE R == OpToRel(<, Nat)
<1>1. IsWellFoundedOn(R, Nat)
  BY NatLessThanWellFounded
<1>2. \A m, n \in Nat : <<m, n>> \in R <=> m < n
  BY DEF OpToRel
<1> HIDE DEF R
<1>3. PICK m \in S : \A n \in S : ~(<<n, m>> \in R)
  BY <1>1, WFMin
<1>4. ASSUME NEW n \in S PROVE m <= n
  <2>1. ~(n < m)
    BY <1>2, <1>3
  <2> QED
    BY <2>1
<1> QED
  BY <1>4

(* What holds of 0, and of n + 1 if of n, holds up to N: a number it did   *)
(* not hold of would have a least one below it.                            *)
LEMMA UpTo ==
  ASSUME NEW N \in Nat, NEW S, 0 \in S,
         \A n \in 0 .. N - 1 : n \in S => n + 1 \in S
  PROVE  \A n \in 0 .. N : n \in S
<1> DEFINE T == {n \in 0 .. N : n \notin S}
<1> SUFFICES ASSUME NEW x \in T PROVE FALSE
  OBVIOUS
<1>1. T \in SUBSET Nat
  OBVIOUS
<1>2. PICK k \in T : \A n \in T : k <= n
  <2> HIDE DEF T
  <2> QED
    BY <1>1, Minimum
<1>3. k \in 1 .. N /\ k \notin S
  <2>1. k \in 0 .. N /\ k \notin S
    BY <1>2
  <2>2. k # 0
    BY <2>1
  <2> QED
    BY <2>1, <2>2
<1>4. k - 1 \in 0 .. N - 1 /\ k - 1 < k /\ (k - 1) + 1 = k
  BY <1>3
<1>5. k - 1 \in S
  <2>1. k - 1 \notin T
    BY <1>2, <1>3, <1>4
  <2> QED
    BY <1>3, <1>4, <2>1
<1> QED
  BY <1>3, <1>4, <1>5

(* Functions that begin alike and go on alike are alike.                   *)
LEMMA Unique ==
  ASSUME NEW N \in Nat, NEW f, NEW g, f[0] = g[0],
         \A i \in 1 .. N : f[i - 1] = g[i - 1] => f[i] = g[i]
  PROVE  \A n \in 0 .. N : f[n] = g[n]
<1> DEFINE K == {n \in 0 .. N : f[n] = g[n]}
<1>1. 0 \in K
  OBVIOUS
<1>2. ASSUME NEW n \in 0 .. N - 1, n \in K PROVE n + 1 \in K
  <2>1. n + 1 \in 1 .. N /\ (n + 1) - 1 = n
    OBVIOUS
  <2>2. f[n] = g[n]
    BY <1>2
  <2>3. f[n + 1] = g[n + 1]
    BY <2>1, <2>2
  <2> QED
    BY <2>1, <2>3
<1> HIDE DEF K
<1>3. \A n \in 0 .. N : n \in K
  BY <1>1, <1>2, UpTo
<1> QED
  BY <1>3 DEF K

(* The value at i is made by step from i and the value at i - 1.           *)
IsStep(step, N, S) == step \in [(1 .. N) \X S -> S]

Follows(f, N, S, s, step) ==
  /\ f \in [0 .. N -> S]
  /\ f[0] = s
  /\ \A i \in 1 .. N : f[i] = step[<<i, f[i - 1]>>]

(* A value to begin with and a step from each to the next define a         *)
(* function.                                                               *)
LEMMA Recursion ==
  ASSUME NEW N \in Nat, NEW S, NEW s \in S, NEW step, IsStep(step, N, S)
  PROVE  \E f : Follows(f, N, S, s, step)
<1> USE DEF IsStep
<1> DEFINE Upto(n, f) == /\ f \in [0 .. n -> S]
                         /\ f[0] = s
                         /\ \A i \in 1 .. n : f[i] = step[<<i, f[i - 1]>>]
           K == {n \in 0 .. N : \E f : Upto(n, f)}
<1>1. 0 \in K
  <2>1. Upto(0, [i \in 0 .. 0 |-> s])
    OBVIOUS
  <2> HIDE DEF Upto
  <2> QED
    BY <2>1
<1>2. ASSUME NEW n \in 0 .. N - 1, n \in K
      PROVE  n + 1 \in K
  <2>1. PICK f : Upto(n, f)
    BY <1>2
  <2>2. n \in Nat /\ n + 1 \in 1 .. N /\ f[n] \in S
    BY <2>1
  <2> DEFINE x == step[<<n + 1, f[n]>>]
             g == [i \in 0 .. n + 1 |-> IF i <= n THEN f[i] ELSE x]
  <2>3. x \in S
    BY <2>2
  <2> HIDE DEF x
  <2>4. g \in [0 .. n + 1 -> S]
    BY <2>1, <2>2, <2>3
  <2>5. g[0] = s
    BY <2>1, <2>2
  <2>6. ASSUME NEW i \in 1 .. n + 1
        PROVE  g[i] = step[<<i, g[i - 1]>>]
    <3>1. CASE i <= n
      <4>1. f[i] = step[<<i, f[i - 1]>>]
        BY <2>1, <2>2, <3>1
      <4>2. g[i] = f[i] /\ g[i - 1] = f[i - 1]
        BY <2>2, <3>1
      <4> QED
        BY <4>1, <4>2
    <3>2. CASE i = n + 1
      <4>1. g[i] = x /\ g[i - 1] = f[n]
        BY <2>2, <3>2
      <4> QED
        BY <4>1, <3>2 DEF x
    <3> QED
      BY <2>2, <3>1, <3>2
  <2>7. Upto(n + 1, g)
    BY <2>4, <2>5, <2>6
  <2> HIDE DEF Upto
  <2> QED
    BY <2>2, <2>7
<1> HIDE DEF K
<1>3. \A n \in 0 .. N : n \in K
  BY <1>1, <1>2, UpTo
<1>4. N \in K
  BY <1>3
<1>5. PICK f : Upto(N, f)
  BY <1>4 DEF K
<1> QED
  BY <1>5 DEF Follows

(* A function that begins so, and goes on so as long as its values stay in *)
(* the set, is the one of the recursion.                                   *)
LEMMA FollowsAlong ==
  ASSUME NEW N \in Nat, NEW S, NEW s \in S, NEW step, IsStep(step, N, S),
         NEW f, f = [i \in 0 .. N |-> f[i]], f[0] = s,
         \A i \in 1 .. N : f[i - 1] \in S => f[i] = step[<<i, f[i - 1]>>]
  PROVE  Follows(f, N, S, s, step)
<1> DEFINE K == {n \in 0 .. N : f[n] \in S}
<1>1. 0 \in K
  OBVIOUS
<1>2. ASSUME NEW n \in 0 .. N - 1, n \in K PROVE n + 1 \in K
  <2>1. n + 1 \in 1 .. N /\ (n + 1) - 1 = n /\ f[n] \in S
    BY <1>2
  <2>2. f[n + 1] = step[<<n + 1, f[n]>>]
    BY <2>1
  <2>3. <<n + 1, f[n]>> \in (1 .. N) \X S
    BY <2>1
  <2>4. step[<<n + 1, f[n]>>] \in S
    BY <2>3 DEF IsStep
  <2> QED
    BY <2>1, <2>2, <2>4
<1> HIDE DEF K
<1>3. \A n \in 0 .. N : n \in K
  BY <1>1, <1>2, UpTo
<1>4. \A n \in 0 .. N : f[n] \in S
  BY <1>3 DEF K
<1>5. \A i \in 1 .. N : i - 1 \in 0 .. N
  OBVIOUS
<1> QED
  BY <1>4, <1>5 DEF Follows
=============================================================================
