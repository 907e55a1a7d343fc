------------------------ MODULE Reachability_proofs ------------------------
(***************************************************************************)
(* What the proofs about walks rest on: induction over the natural numbers *)
(* stated for a set, and the laws of the least closed set.                 *)
(***************************************************************************)
EXTENDS Reachability, Integers, WellFoundedInduction, TLAPS

(* A set that holds 0 and with every number the next holds all of them:    *)
(* otherwise the numbers it lacks would have a smallest one.               *)
LEMMA SetInduction ==
    ASSUME NEW S, 0 \in S, \A n \in Nat : n \in S => n + 1 \in S
    PROVE  Nat \subseteq S
<1>1. IsWellFoundedOn(OpToRel(<, Nat), Nat)
  BY NatLessThanWellFounded, Zenon
<1> DEFINE T == Nat \ S
<1>2. SUFFICES ASSUME T # {} PROVE FALSE
  OBVIOUS
<1>3. PICK x \in T : \A y \in T : ~(<<y, x>> \in OpToRel(<, Nat))
  BY <1>1, <1>2, WFMin, Zenon
<1>4. x \in Nat /\ x # 0 /\ x - 1 \in Nat /\ x - 1 < x /\ (x - 1) + 1 = x
  OBVIOUS
<1>5. x - 1 \in S
  <2>1. SUFFICES ASSUME x - 1 \in T PROVE FALSE
    BY <1>4
  <2>2. <<x - 1, x>> \in OpToRel(<, Nat)
    BY <1>4, Zenon DEF OpToRel
  <2> QED
    BY <2>1, <2>2, <1>3, Zenon
<1> QED
  BY <1>4, <1>5

(* The same from any number up to another.                                 *)
LEMMA RangeInduction ==
    ASSUME NEW a \in Nat, NEW b \in Nat, NEW S,
           a \in S, \A i \in a + 1 .. b : i - 1 \in S => i \in S
    PROVE  a .. b \subseteq S
<1> DEFINE R == {n \in Nat : a + n <= b => a + n \in S}
<1>1. 0 \in R
  OBVIOUS
<1>2. \A n \in Nat : n \in R => n + 1 \in R
  <2> SUFFICES ASSUME NEW n \in Nat, n \in R, a + (n + 1) <= b PROVE a + (n + 1) \in S
    OBVIOUS
  <2>1. a + n <= b /\ a + (n + 1) \in a + 1 .. b /\ (a + (n + 1)) - 1 = a + n
    OBVIOUS
  <2>2. a + n \in S
    BY <2>1
  <2> QED
    BY <2>1, <2>2
<1> HIDE DEF R
<1>3. Nat \subseteq R
  BY <1>1, <1>2, SetInduction
<1>4. ASSUME NEW i \in a .. b PROVE i \in S
  <2>1. i - a \in Nat /\ a + (i - a) = i /\ i <= b
    OBVIOUS
  <2>2. i - a \in R
    BY <2>1, <1>3
  <2> QED
    BY <2>1, <2>2 DEF R
<1> QED
  BY <1>4

-----------------------------------------------------------------------------
(* The walk visits its start.                                              *)
LEMMA LeastHasRoots ==
    ASSUME NEW U, NEW next, NEW S, NEW x \in S, x \in U
    PROVE  x \in Least(U, next, S)
  BY DEF Least

(* It follows every reference of what it visits.                           *)
LEMMA LeastFollows ==
    ASSUME NEW U, NEW next, NEW S, NEW x \in Least(U, next, S), NEW y \in next[x], y \in U
    PROVE  y \in Least(U, next, S)
  BY DEF Least, Closed

(* From more starts, over more references, it visits no less.              *)
LEMMA LeastGrows ==
    ASSUME NEW U, NEW f, NEW g, NEW S, NEW T,
           S \subseteq T, \A x \in U : f[x] \subseteq g[x]
    PROVE  Least(U, f, S) \subseteq Least(U, g, T)
<1> SUFFICES ASSUME NEW x \in Least(U, f, S) PROVE x \in Least(U, g, T)
  OBVIOUS
<1>1. ASSUME NEW V \in SUBSET U, T \subseteq V, Closed(g, V) PROVE x \in V
  <2>1. S \subseteq V /\ Closed(f, V)
    BY <1>1 DEF Closed
  <2> QED
    BY <2>1 DEF Least
<1>2. x \in U
  BY DEF Least
<1> QED
  BY <1>1, <1>2 DEF Least

(* A chain that starts in the walk and goes on by references stays in it.  *)
LEMMA LeastHoldsChain ==
    ASSUME NEW U, NEW next, NEW S, NEW key, NEW a \in Nat, NEW b \in Nat, a <= b,
           key[a] \in Least(U, next, S),
           \A i \in a + 1 .. b : key[i] \in U /\ (key[i] = key[i-1] \/ key[i] \in next[key[i-1]])
    PROVE  key[b] \in Least(U, next, S)
<1> DEFINE V == {i \in Nat : key[i] \in Least(U, next, S)}
<1>1. a \in V
  OBVIOUS
<1>2. ASSUME NEW i \in a + 1 .. b, i - 1 \in V PROVE i \in V
  <2>1. i \in Nat /\ key[i - 1] \in Least(U, next, S)
    BY <1>2
  <2>2. key[i] \in Least(U, next, S)
    BY <2>1, LeastFollows
  <2> QED
    BY <2>1, <2>2
<1> HIDE DEF V
<1>3. a .. b \subseteq V
  BY <1>1, <1>2, RangeInduction
<1>4. b \in V
  BY <1>3
<1> QED
  BY <1>4 DEF V
=============================================================================
