------------------------------ MODULE Induction ------------------------------
(***************************************************************************)
(* Induction over the natural numbers, stated about a set instead of a       *)
(* predicate, and the function that a step applied N times computes: what a   *)
(* loop of the kernel over a table leaves behind.                            *)
(***************************************************************************)
EXTENDS Integers, WellFoundedInduction, TLAPS

\* A set of numbers that has an element has a least one.
LEMMA LeastElement ==
    ASSUME NEW T, T \subseteq Nat, T # {}
    PROVE  \E m \in T : \A k \in T : m <= k
<1>1. IsWellFoundedOn(OpToRel(<, Nat), Nat) BY NatLessThanWellFounded
<1>2. PICK m \in T : \A k \in T : ~ (<<k, m>> \in OpToRel(<, Nat))
  BY <1>1, WFMin
<1>3. \A k \in T : <<k, m>> \in OpToRel(<, Nat) <=> k < m BY DEF OpToRel
<1>4. m \in Nat /\ \A k \in T : k \in Nat OBVIOUS
<1>5. \A k \in T : ~(k < m) BY <1>2, <1>3
<1>6. \A k \in T : m <= k BY <1>4, <1>5
<1> QED BY <1>6

\* A set that holds 0, and the successor of each number in it, holds them all.
LEMMA SetInduction ==
    ASSUME NEW T, 0 \in T, \A n \in Nat : n \in T => n + 1 \in T
    PROVE  Nat \subseteq T
<1> SUFFICES ASSUME ~(Nat \subseteq T) PROVE FALSE OBVIOUS
<1> DEFINE U == {n \in Nat : n \notin T}
<1>1. U \subseteq Nat /\ U # {} OBVIOUS
<1>2. PICK m \in U : \A k \in U : m <= k
  <2> HIDE DEF U
  <2> QED BY <1>1, LeastElement
<1>3. m # 0 /\ m \in Nat OBVIOUS
<1>4. m - 1 \in Nat /\ ~(m - 1 \in U) BY <1>2, <1>3
<1>5. m - 1 \in T BY <1>4
<1> QED BY <1>3, <1>4, <1>5

\* The step F, from a state and the number of the step, does not leave S; and g
\* holds the state after each number of steps from s.
StaysIn(F, S, N) == \A c \in S, i \in 1..N : F[<<c, i>>] \in S
Iterates(g, F, S, s, N) ==
    /\ g \in [0..N -> S]
    /\ g[0] = s
    /\ \A i \in 1..N : g[i] = F[<<g[i - 1], i>>]

\* Any number of steps has a result.
LEMMA Iteration ==
    ASSUME NEW N \in Nat, NEW S, NEW s \in S, NEW F, StaysIn(F, S, N)
    PROVE  \E g : Iterates(g, F, S, s, N)
<1> USE DEF StaysIn, Iterates
<1> DEFINE Upto(n, g) == g[0] = s /\ \A i \in 1..n : g[i] = F[<<g[i - 1], i>>]
           T == {n \in Nat : n <= N => \E g \in [0..n -> S] : Upto(n, g)}
<1>1. 0 \in T
  <2>1. [i \in 0..0 |-> s] \in [0..0 -> S] /\ Upto(0, [i \in 0..0 |-> s]) OBVIOUS
  <2> QED BY <2>1
<1>2. ASSUME NEW n \in Nat, n \in T PROVE n + 1 \in T
  <2> SUFFICES ASSUME n + 1 <= N PROVE \E g \in [0..(n + 1) -> S] : Upto(n + 1, g)
    OBVIOUS
  <2>1. PICK g \in [0..n -> S] : Upto(n, g) BY <1>2
  <2> DEFINE h == [i \in 0..(n + 1) |-> IF i <= n THEN g[i] ELSE F[<<g[n], n + 1>>]]
  <2>2. h \in [0..(n + 1) -> S] OBVIOUS
  <2>3. h[0] = s BY <2>1
  <2>4. ASSUME NEW i \in 1..(n + 1) PROVE h[i] = F[<<h[i - 1], i>>]
    <3>1. CASE i <= n BY <2>1, <3>1
    <3>2. CASE i = n + 1 BY <2>1, <3>2
    <3> QED BY <3>1, <3>2
  <2>5. Upto(n + 1, h) BY <2>3, <2>4
  <2> QED BY <2>2, <2>5
<1>3. Nat \subseteq T
  <2> HIDE DEF T
  <2> QED BY <1>1, <1>2, SetInduction
<1>4. N \in T BY <1>3
<1>5. \E g \in [0..N -> S] : Upto(N, g) BY <1>4
<1> QED BY <1>5
=============================================================================
