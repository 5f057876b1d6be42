------------------------------- MODULE Induction -------------------------------
(***************************************************************************)
(* Induction and recursion over the numbers, for sets and functions: the       *)
(* proofs about definitions that climb a chain of objects, sessions or calls   *)
(* step by step rest on them.                                                *)
(***************************************************************************)
EXTENDS Naturals, WellFoundedInduction, TLAPS

(* A set of numbers that is not empty has a least one. *)
LEMMA Least ==
  ASSUME NEW S \in SUBSET Nat, S # {}
  PROVE  \E n \in S : \A m \in S : n <= m
<1> DEFINE R == {ss \in Nat \X Nat : ss[1] < ss[2]}
<1>1. IsWellFoundedOn(R, Nat)
  BY NatLessThanWellFounded DEF OpToRel
<1>2. PICK n \in S : \A m \in S : <<m, n>> \notin R
  BY <1>1, WFMin
<1>3. ASSUME NEW m \in S PROVE n <= m
  <2>1. m \in Nat /\ n \in Nat /\ <<m, n>> \notin R
    BY <1>2
  <2>2. ~(m < n)
    BY <2>1
  <2> QED BY <2>1, <2>2
<1> QED BY <1>3

(* What holds of 0, and of n + 1 whenever of n, holds of every number. *)
LEMMA EveryNumber ==
  ASSUME NEW S, 0 \in S, \A n \in Nat : n \in S => n + 1 \in S
  PROVE  Nat \subseteq S
<1> DEFINE T == Nat \ S
<1> SUFFICES ASSUME T # {} PROVE FALSE
  OBVIOUS
<1>1. PICK n \in T : \A m \in T : n <= m
  <2>1. T \in SUBSET Nat
    OBVIOUS
  <2> HIDE DEF T
  <2> QED BY <2>1, Least
<1>2. n # 0 /\ n - 1 \in Nat /\ n - 1 \in S
  BY <1>1
<1>3. (n - 1) + 1 \in S
  BY <1>2
<1> QED BY <1>1, <1>2, <1>3

-----------------------------------------------------------------------------
(* There is a function that is z at 0 and follows F from every n to n + 1: so     *)
(* much of it as reaches n, whatever n is, ...                               *)
Follows(f, n, z, F) ==
  f = [i \in 0..n |-> IF i = 0 THEN z ELSE F[f[i - 1]]]

LEMMA Prefixes ==
  ASSUME NEW z, NEW F, NEW n \in Nat
  PROVE  \E f : Follows(f, n, z, F)
<1> DEFINE T == {m \in Nat : \E f : Follows(f, m, z, F)}
<1>1. 0 \in T
  <2>1. Follows([i \in 0..0 |-> z], 0, z, F)
    BY DEF Follows
  <2> QED BY <2>1
<1>2. ASSUME NEW m \in Nat, m \in T PROVE m + 1 \in T
  <2>1. PICK f : Follows(f, m, z, F)
    BY <1>2
  <2> DEFINE g == [i \in 0..(m + 1) |-> IF i = 0 THEN z ELSE F[f[i - 1]]]
  <2>2. \A i \in 0..m : g[i] = f[i]
    BY <2>1 DEF Follows
  <2>3. \A i \in 0..(m + 1) : i # 0 => f[i - 1] = g[i - 1]
    <3>1. \A i \in 0..(m + 1) : i # 0 => i - 1 \in 0..m
      OBVIOUS
    <3> QED BY <2>2, <3>1
  <2>4. Follows(g, m + 1, z, F)
    BY <2>3 DEF Follows
  <2> QED BY <2>4
<1>3. Nat \subseteq T
  <2> HIDE DEF T
  <2> QED BY <1>1, <1>2, EveryNumber
<1> QED BY <1>3

LEMMA PrefixesAgree ==
  ASSUME NEW z, NEW F, NEW f, NEW g, NEW m \in Nat, NEW n \in Nat, m <= n,
         Follows(f, m, z, F), Follows(g, n, z, F)
  PROVE  \A i \in 0..m : f[i] = g[i]
<1> DEFINE T == {i \in Nat : i \in 0..m => f[i] = g[i]}
<1>1. 0 \in T
  BY DEF Follows
<1>2. ASSUME NEW i \in Nat, i \in T PROVE i + 1 \in T
  <2> SUFFICES ASSUME i + 1 \in 0..m PROVE f[i + 1] = g[i + 1]
    OBVIOUS
  <2>1. i \in 0..m /\ i + 1 \in 0..n /\ (i + 1) - 1 = i /\ f[i] = g[i]
    BY <1>2
  <2>2. f[i + 1] = F[f[i]] /\ g[i + 1] = F[g[i]]
    BY <2>1 DEF Follows
  <2> QED BY <2>1, <2>2
<1>3. Nat \subseteq T
  <2> HIDE DEF T
  <2> QED BY <1>1, <1>2, EveryNumber
<1> QED BY <1>3

(* ... and so all of it. *)
LEMMA Recursion ==
  ASSUME NEW D, NEW z \in D, NEW F \in [D -> D]
  PROVE  \E h \in [Nat -> D] : h[0] = z /\ \A n \in Nat \ {0} : h[n] = F[h[n - 1]]
<1> DEFINE f(n) == CHOOSE g : Follows(g, n, z, F)
           h == [n \in Nat |-> f(n)[n]]
<1>1. \A n \in Nat : Follows(f(n), n, z, F)
  BY Prefixes
<1>2. h[0] = z
  <2>1. f(0)[0] = z
    <3> HIDE DEF f
    <3> QED BY <1>1 DEF Follows
  <2> QED BY <2>1
<1>3. ASSUME NEW n \in Nat \ {0} PROVE h[n] = F[h[n - 1]]
  <2>1. n - 1 \in Nat /\ n - 1 <= n /\ h[n] = f(n)[n] /\ h[n - 1] = f(n - 1)[n - 1]
        /\ Follows(f(n), n, z, F) /\ Follows(f(n - 1), n - 1, z, F)
    BY <1>1
  <2> HIDE DEF f, h
  <2>2. \A i \in 0..(n - 1) : f(n - 1)[i] = f(n)[i]
    BY <2>1, PrefixesAgree
  <2>3. f(n)[n] = F[f(n)[n - 1]]
    <3> DEFINE a == f(n)
    <3>1. a = [i \in 0..n |-> IF i = 0 THEN z ELSE F[a[i - 1]]]
      BY <2>1 DEF Follows
    <3> HIDE DEF a
    <3>2. a[n] = F[a[n - 1]]
      BY <3>1
    <3> QED BY <3>2 DEF a
  <2> QED BY <2>1, <2>2, <2>3
<1>4. h \in [Nat -> D]
  <2> DEFINE T == {n \in Nat : h[n] \in D}
  <2>1. 0 \in T
    BY <1>2
  <2>2. ASSUME NEW n \in Nat, n \in T PROVE n + 1 \in T
    <3>1. n + 1 \in Nat \ {0} /\ (n + 1) - 1 = n /\ h[n] \in D
      BY <2>2
    <3>2. h[n + 1] = F[h[n]]
      BY <3>1, <1>3
    <3> HIDE DEF h
    <3> QED BY <3>1, <3>2
  <2>3. Nat \subseteq T
    <3> HIDE DEF T
    <3> QED BY <2>1, <2>2, EveryNumber
  <2> QED BY <2>3
<1> HIDE DEF h
<1> QED BY <1>2, <1>3, <1>4


(* The same as predicates, which provers find more easily than sets of functions. *)
Into(z, F, D) == z \in D /\ F \in [D -> D]
Repeats(h, z, F, D) == h \in [Nat -> D] /\ h[0] = z /\ \A n \in Nat : h[n + 1] = F[h[n]]

LEMMA Repetition ==
  ASSUME NEW D, NEW z, NEW F, Into(z, F, D)
  PROVE  \E h : Repeats(h, z, F, D)
<1>1. z \in D /\ F \in [D -> D]
  BY DEF Into
<1>2. PICK h \in [Nat -> D] : h[0] = z /\ \A n \in Nat \ {0} : h[n] = F[h[n - 1]]
  BY <1>1, Recursion
<1>3. ASSUME NEW n \in Nat PROVE h[n + 1] = F[h[n]]
  <2>1. n + 1 \in Nat \ {0} /\ (n + 1) - 1 = n
    OBVIOUS
  <2> QED BY <1>2, <2>1
<1> QED BY <1>2, <1>3 DEF Repeats

(* The step may depend on the number. *)
IntoNumbered(z, F, D) == z \in D /\ F \in [Nat \X D -> D]
RepeatsNumbered(h, z, F, D) ==
  h \in [Nat -> D] /\ h[0] = z /\ \A n \in Nat : h[n + 1] = F[<<n, h[n]>>]

LEMMA NumberedRepetition ==
  ASSUME NEW D, NEW z, NEW F, IntoNumbered(z, F, D)
  PROVE  \E h : RepeatsNumbered(h, z, F, D)
<1> USE DEF IntoNumbered
<1> DEFINE E == Nat \X D
           G == [e \in E |-> <<e[1] + 1, F[e]>>]
           y == <<0, z>>
<1>1. Into(y, G, E)
  BY DEF Into
<1>2. \A n \in Nat, d \in D : G[<<n, d>>] = <<n + 1, F[<<n, d>>]>>
  OBVIOUS
<1>3. PICK g : Repeats(g, y, G, E)
  <2> HIDE DEF E, G, y
  <2> QED BY <1>1, Repetition
<1> HIDE DEF G
<1>4. g \in [Nat -> E] /\ g[0] = y /\ \A n \in Nat : g[n + 1] = G[g[n]]
  BY <1>3 DEF Repeats
<1>5. \A n \in Nat : g[n][1] = n /\ g[n] = <<n, g[n][2]>> /\ g[n][2] \in D
  <2> DEFINE T == {n \in Nat : g[n][1] = n}
  <2>1. 0 \in T
    BY <1>4
  <2>2. ASSUME NEW n \in Nat, n \in T PROVE n + 1 \in T
    <3>1. g[n] = <<n, g[n][2]>> /\ g[n][2] \in D
      BY <1>4, <2>2
    <3> QED BY <1>2, <1>4, <3>1
  <2>3. Nat \subseteq T
    <3> HIDE DEF T
    <3> QED BY <2>1, <2>2, EveryNumber
  <2> QED BY <1>4, <2>3
<1> DEFINE h == [n \in Nat |-> g[n][2]]
<1>6. h \in [Nat -> D] /\ h[0] = z
  BY <1>4, <1>5
<1>7. \A n \in Nat : h[n + 1] = F[<<n, h[n]>>]
  <2> TAKE n \in Nat
  <2>1. n + 1 \in Nat /\ g[n + 1] = G[g[n]] /\ g[n] = <<n, h[n]>> /\ h[n] \in D
    BY <1>4, <1>5
  <2>2. g[n + 1] = <<n + 1, F[<<n, h[n]>>]>>
    BY <1>2, <2>1
  <2> QED BY <2>1, <2>2
<1> HIDE DEF h
<1> QED BY <1>6, <1>7 DEF RepeatsNumbered
=============================================================================
