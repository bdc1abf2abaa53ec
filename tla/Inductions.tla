----------------------------- MODULE Inductions -----------------------------
(***************************************************************************)
(* Induction and recursion over natural numbers, stated about sets and     *)
(* functions: what recursive functions define is proved from these.        *)
(***************************************************************************)
EXTENDS Integers, WellFoundedInduction, TLAPS

\* A set of numbers has a least one.
LEMMA LeastNumber ==
  ASSUME NEW T \in SUBSET Nat, T # {}
  PROVE  \E x \in T : \A y \in T : x <= y
<1>1. PICK x \in T : \A y \in T : <<y, x>> \notin OpToRel(<, Nat)
  BY NatLessThanWellFounded, WFMin
<1>2. \A y \in T : ~(y < x)
  BY <1>1 DEF OpToRel
<1> QED BY <1>2

\* Induction, as a property of sets: those of the library take an operator.
LEMMA Induction ==
  ASSUME NEW S, 0 \in S, \A n \in Nat : n \in S => n + 1 \in S
  PROVE  Nat \subseteq S
<1> DEFINE T == Nat \ S
<1>1. SUFFICES ASSUME T # {} PROVE FALSE
  OBVIOUS
<1>2. PICK x \in T : \A y \in T : x <= y
  BY <1>1, LeastNumber
<1>3. \A y \in T : ~(y < x)
  BY <1>2
<1>4. x # 0 /\ x - 1 \in Nat /\ x - 1 < x
  OBVIOUS
<1> QED BY <1>3, <1>4

\* Induction on the objects, in the order of their creation.
LEMMA ByCreation ==
  ASSUME NEW N \in Nat, NEW S, \A n \in 1..N : (\A p \in 1..n - 1 : p \in S) => n \in S
  PROVE  1..N \subseteq S
<1> DEFINE T == {k \in Nat : \A p \in 1..N : p <= k => p \in S}
<1>1. 0 \in T
  OBVIOUS
<1>2. ASSUME NEW k \in Nat, k \in T PROVE k + 1 \in T
  <2>1. SUFFICES ASSUME NEW p \in 1..N, p <= k + 1 PROVE p \in S
    OBVIOUS
  <2>2. CASE p <= k
    BY <1>2, <2>2
  <2>3. CASE p = k + 1
    <3>1. \A m \in 1..p - 1 : m \in S
      BY <1>2, <2>3
    <3> QED BY <3>1
  <2> QED BY <2>1, <2>2, <2>3
<1>3. N \in T
  <2> HIDE DEF T
  <2> QED BY <1>1, <1>2, Induction
<1> QED BY <1>3

\* Recursion on the objects: a step of n makes its value of those before it.
Before(n, V) == [1..n - 1 -> V]
Values(N, V) == [1..N -> V]
AreSteps(step, N, V) == \A n \in 1..N : step[n] \in [Before(n, V) -> V]
Follow(f, N, step) == \A n \in 1..N : f[n] = step[n][[p \in 1..n - 1 |-> f[p]]]

\* A recursion on the objects defines a function.
LEMMA RecursionByCreation ==
  ASSUME NEW N \in Nat, NEW V, NEW step, AreSteps(step, N, V)
  PROVE  \E f \in Values(N, V) : Follow(f, N, step)
<1> USE DEF Before, Values, AreSteps, Follow
<1> DEFINE S == {k \in Nat : k <= N => \E f \in [1..k -> V] : Follow(f, k, step)}
<1>1. 0 \in S
  <2>1. Follow([n \in 1..0 |-> 0], 0, step) /\ [n \in 1..0 |-> 0] \in [1..0 -> V]
    OBVIOUS
  <2> QED BY <2>1
<1>2. ASSUME NEW k \in Nat, k \in S PROVE k + 1 \in S
  <2>1. SUFFICES ASSUME k + 1 <= N PROVE \E f \in [1..k + 1 -> V] : Follow(f, k + 1, step)
    OBVIOUS
  <2>2. PICK f \in [1..k -> V] : Follow(f, k, step)
    BY <1>2, <2>1
  <2> DEFINE v == step[k + 1][f]
             g == [n \in 1..k + 1 |-> IF n <= k THEN f[n] ELSE v]
  <2>3. v \in V
    <3>1. k + 1 \in 1..N /\ (k + 1) - 1 = k
      BY <2>1
    <3>2. step[k + 1] \in [[1..k -> V] -> V]
      BY <3>1
    <3> QED BY <3>2
  <2>4. g \in [1..k + 1 -> V]
    <3> HIDE DEF v
    <3> QED BY <2>3
  <2>5. ASSUME NEW n \in 1..k + 1 PROVE g[n] = step[n][[p \in 1..n - 1 |-> g[p]]]
    <3>1. CASE n <= k
      <4>1. n \in 1..k /\ g[n] = f[n]
        BY <3>1
      <4>2. [p \in 1..n - 1 |-> g[p]] = [p \in 1..n - 1 |-> f[p]]
        BY <4>1
      <4> HIDE DEF g, v
      <4> QED BY <2>2, <4>1, <4>2
    <3>2. CASE n = k + 1
      <4>1. g[n] = v
        BY <3>2
      <4>2. [p \in 1..n - 1 |-> g[p]] = f
        BY <3>2
      <4> HIDE DEF g
      <4> QED BY <3>2, <4>1, <4>2
    <3> QED BY <3>1, <3>2
  <2> HIDE DEF g
  <2> QED BY <2>4, <2>5
<1>3. N \in S
  <2> HIDE DEF S
  <2> QED BY <1>1, <1>2, Induction
<1> QED BY <1>3

\* A recursion over 0..N: what each step makes of what there was before.
Steps(N, V) == [1..N -> [V -> V]]
Walks(N, V) == [0..N -> V]
IsWalk(f, N, base, step) == f[0] = base /\ \A n \in 1..N : f[n] = step[n][f[n - 1]]

\* A recursion over 0..N, one step after the other, defines a function.
LEMMA Recursion ==
  ASSUME NEW N \in Nat, NEW V, NEW base \in V, NEW step \in Steps(N, V)
  PROVE  \E f \in Walks(N, V) : IsWalk(f, N, base, step)
<1> USE DEF Steps, Walks, IsWalk
<1> DEFINE Good(k, f) == f[0] = base /\ \A n \in 1..k : f[n] = step[n][f[n - 1]]
           S == {k \in Nat : k <= N => \E f \in [0..k -> V] : Good(k, f)}
<1>1. 0 \in S
  <2>1. Good(0, [n \in 0..0 |-> base]) /\ [n \in 0..0 |-> base] \in [0..0 -> V]
    OBVIOUS
  <2> QED BY <2>1
<1>2. ASSUME NEW k \in Nat, k \in S PROVE k + 1 \in S
  <2>1. SUFFICES ASSUME k + 1 <= N PROVE \E f \in [0..k + 1 -> V] : Good(k + 1, f)
    OBVIOUS
  <2>2. PICK f \in [0..k -> V] : Good(k, f)
    BY <1>2, <2>1
  <2> DEFINE g == [n \in 0..k + 1 |-> IF n <= k THEN f[n] ELSE step[k + 1][f[k]]]
  <2>3. g \in [0..k + 1 -> V]
    BY <2>1
  <2>4. ASSUME NEW n \in 1..k + 1 PROVE g[n] = step[n][g[n - 1]]
    <3>1. n \in 0..k + 1 /\ n - 1 \in 0..k + 1 /\ n - 1 <= k /\ g[n - 1] = f[n - 1]
      OBVIOUS
    <3>2. CASE n <= k
      <4>1. g[n] = f[n] /\ n \in 1..k
        BY <3>1, <3>2
      <4> QED BY <2>2, <3>1, <4>1
    <3>3. CASE n > k
      <4>1. n = k + 1 /\ g[n] = step[k + 1][f[k]]
        BY <3>1, <3>3
      <4> QED BY <3>1, <4>1
    <3> QED BY <3>2, <3>3
  <2>5. g[0] = base
    BY <2>2
  <2> HIDE DEF g
  <2> QED BY <2>3, <2>4, <2>5
<1>3. N \in S
  <2> HIDE DEF S
  <2> QED BY <1>1, <1>2, Induction
<1> QED BY <1>3
=============================================================================
