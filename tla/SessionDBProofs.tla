---------------------------- MODULE SessionDBProofs ----------------------------
(***************************************************************************)
(* SessionDB, for any number of sessions and any hash values: however         *)
(* creations and removals follow one another, the list holds exactly the live *)
(* sessions, in the order they were made, linked both ways; a lookup in the   *)
(* tree finds them and nothing else; and a walk of the list sees the registry  *)
(* of SessionRegistry.                                                       *)
(*                                                                         *)
(* ListTypeOK and ListIsLive together are inductive; neither is alone.  The   *)
(* tree does not occur in them: an operation that fails to find its session   *)
(* in the tree leaves the list alone.  The tree needs the list: remove()      *)
(* builds it anew along the list, in the order in which create() had built it. *)
(***************************************************************************)
EXTENDS SessionDB, Induction

ListInv == ListTypeOK /\ ListIsLive

LEMMA SessionsAreNumbers ==
  MaxSessions \in Nat /\ NULL \notin Session /\ Session \subseteq Nat
BY SessionDBAssumption DEF Session, NULL

(* A session has one successor and one predecessor. *)
LEMMA NeighboursAreUnique ==
  ASSUME live \subseteq Nat, NEW a \in live, NEW b \in live, NEW c \in live
  PROVE  /\ Adjacent(a, b) /\ Adjacent(a, c) => b = c
         /\ Adjacent(a, c) /\ Adjacent(b, c) => a = b
BY DEF Adjacent

LEMMA ListInvInit == Init => ListInv
BY SessionDBAssumption DEF Init, ListInv, ListTypeOK, ListIsLive, Session, NULL

-----------------------------------------------------------------------------
(* demand(): a new session goes behind the last one. *)
LEMMA CreateKeepsListInv ==
  ASSUME NEW h \in Key, ListInv, Create(h)
  PROVE  ListInv'
<1> DEFINE s == created + 1
<1> USE SessionsAreNumbers
<1>1. /\ created \in Nat /\ s \in Session /\ s \notin live
      /\ \A t \in live : t \in Session /\ t < s
  BY DEF ListInv, ListTypeOK, Create, Session
<1>2. /\ created' = s /\ live' = live \cup {s} /\ last' = s
      /\ prev' = [prev EXCEPT ![s] = last]
      /\ first' = IF last = NULL THEN s ELSE first
      /\ next' = IF last = NULL THEN [next EXCEPT ![s] = NULL]
                                ELSE [next EXCEPT ![s] = NULL, ![last] = s]
  BY DEF Create
<1>3. CASE last = NULL
  <2>1. live = {}
    BY <1>3 DEF ListInv, ListIsLive
  <2>2. ListTypeOK'
    BY <1>1, <1>2, <1>3, <2>1 DEF ListInv, ListTypeOK, Create
  <2>3. ListIsLive'
    BY <1>1, <1>2, <1>3, <2>1 DEF ListInv, ListTypeOK, ListIsLive, InPlace, NULL
  <2> QED BY <2>2, <2>3 DEF ListInv
<1>4. CASE last # NULL
  <2>1. last \in live /\ first \in live /\ last # s
    BY <1>1, <1>4 DEF ListInv, ListIsLive
  <2>2. ListTypeOK'
    BY <1>1, <1>2, <1>4, <2>1 DEF ListInv, ListTypeOK, Create
  <2>3. ASSUME NEW t \in live'
        PROVE  InPlace(t)'
    <3>1. CASE t = s
      BY <1>1, <1>2, <1>4, <2>1, <3>1 DEF ListInv, ListTypeOK, ListIsLive, InPlace, Adjacent, NULL
    <3>2. CASE t = last
      BY <1>1, <1>2, <1>4, <2>1, <3>2 DEF ListInv, ListTypeOK, ListIsLive, InPlace, Adjacent, NULL
    <3>3. CASE t # s /\ t # last
      <4>1. t \in live /\ t < s /\ InPlace(t)
        BY <1>1, <1>2, <3>3 DEF ListInv, ListIsLive
      <4>2. next'[t] = next[t] /\ prev'[t] = prev[t] /\ first' = first
        BY <1>1, <1>2, <1>4, <3>3, <4>1 DEF ListInv, ListTypeOK
      <4>3. next[t] \in live /\ Adjacent(t, next[t])
        BY <3>3, <4>1 DEF InPlace
      <4>4. t # first => prev[t] \in live /\ Adjacent(prev[t], t)
        BY <3>3, <4>1 DEF InPlace
      <4>5. s # NULL /\ t \in Nat /\ s \in Nat /\ last # NULL /\ last' = s
        BY <1>1, <1>2, <1>4, <4>1
      <4>6. next[t] \in live' /\ Adjacent(t, next[t])'
        <5>1. next[t] < s /\ t < next[t] /\ next[t] \in Nat
          BY <1>1, <4>3 DEF Adjacent
        <5>2. ASSUME NEW c \in live' PROVE c <= t \/ c >= next[t]
          <6>1. CASE c = s
            BY <5>1, <6>1, <4>5
          <6>2. CASE c \in live
            BY <6>2, <4>3 DEF Adjacent
          <6> QED BY <1>2, <6>1, <6>2
        <5>3. next[t] \in live'
          BY <1>2, <4>3
        <5> QED BY <4>2, <5>1, <5>2, <5>3 DEF Adjacent
      <4>7. t # first => prev[t] \in live' /\ Adjacent(prev[t], t)'
        <5> SUFFICES ASSUME t # first PROVE prev[t] \in live' /\ Adjacent(prev[t], t)'
          OBVIOUS
        <5>1. prev[t] < s /\ prev[t] < t /\ prev[t] \in Nat
          BY <1>1, <4>4 DEF Adjacent
        <5>2. ASSUME NEW c \in live' PROVE c <= prev[t] \/ c >= t
          <6>1. CASE c = s
            BY <4>1, <6>1, <4>5
          <6>2. CASE c \in live
            BY <6>2, <4>4 DEF Adjacent
          <6> QED BY <1>2, <6>1, <6>2
        <5>3. prev[t] \in live'
          BY <1>2, <4>4
        <5> QED BY <4>2, <5>1, <5>2, <5>3 DEF Adjacent
      <4>8. first' <= t /\ t <= last' /\ (t = first => prev[t] = NULL)
        BY <4>1, <4>2, <4>5 DEF InPlace
      <4> QED BY <3>3, <4>2, <4>3, <4>5, <4>6, <4>7, <4>8 DEF InPlace
    <3> QED BY <3>1, <3>2, <3>3
  <2>4. ListIsLive'
    BY <1>1, <1>2, <1>4, <2>1, <2>3 DEF ListIsLive, NULL
  <2> QED BY <2>2, <2>4 DEF ListInv
<1> QED BY <1>3, <1>4

-----------------------------------------------------------------------------
(* remove(): the neighbours of the session that leaves become neighbours. *)
LEMMA RemoveKeepsListInv ==
  ASSUME NEW s \in Session, ListInv, Remove(s)
  PROVE  ListInv'
<1> USE SessionsAreNumbers
<1>1. /\ s \in live /\ created' = created /\ live' = live \ {s}
      /\ first' = IF prev[s] = NULL THEN next[s] ELSE first
      /\ last' = IF next[s] = NULL THEN prev[s] ELSE last
  BY DEF Remove, FirstWithout, LastWithout
<1>2. \A t \in Session :
        /\ next'[t] = IF t = s THEN NULL ELSE IF t = prev[s] THEN next[s] ELSE next[t]
        /\ prev'[t] = IF t = s THEN NULL ELSE IF t = next[s] THEN prev[s] ELSE prev[t]
  BY DEF Remove, NextWithout, PrevWithout
<1>3. live \subseteq Session
  BY DEF ListInv, ListTypeOK, Session
<1>4. /\ prev[s] = NULL <=> s = first
      /\ next[s] = NULL <=> s = last
      /\ prev[s] # NULL => prev[s] \in live /\ Adjacent(prev[s], s)
      /\ next[s] # NULL => next[s] \in live /\ Adjacent(s, next[s])
  BY <1>1, <1>3 DEF ListInv, ListIsLive, InPlace
<1>N. live \subseteq Nat
  BY <1>3
<1>P. ASSUME NEW t \in live
      PROVE  /\ t # last => next[t] \in live /\ Adjacent(t, next[t])
             /\ t = last => next[t] = NULL
             /\ t # first => prev[t] \in live /\ Adjacent(prev[t], t)
             /\ t = first => prev[t] = NULL
             /\ first <= t /\ t <= last /\ first \in live /\ last \in live
  BY DEF ListInv, ListIsLive, InPlace
<1>Q. ASSUME NEW t \in live
      PROVE  /\ next[t] = s <=> (prev[s] = t /\ prev[s] # NULL)
             /\ prev[t] = s <=> (next[s] = t /\ next[s] # NULL)
  <2>1. t # NULL /\ s # NULL
    BY <1>1, <1>3
  <2>2. ASSUME next[t] = s PROVE prev[s] = t
    <3>1. t # last /\ Adjacent(t, s)
      BY <2>1, <2>2, <1>P
    <3>2. s # first
      BY <3>1, <1>N, <1>1, <1>P DEF Adjacent
    <3> QED BY <3>1, <3>2, <1>1, <1>N, <1>P, NeighboursAreUnique
  <2>3. ASSUME prev[s] = t PROVE next[t] = s
    <3>1. s # first /\ Adjacent(t, s)
      BY <2>1, <2>3, <1>1, <1>P
    <3>2. t # last
      BY <3>1, <1>N, <1>1, <1>P DEF Adjacent
    <3> QED BY <3>1, <3>2, <1>1, <1>N, <1>P, NeighboursAreUnique
  <2>4. ASSUME prev[t] = s PROVE next[s] = t
    <3>1. t # first /\ Adjacent(s, t)
      BY <2>1, <2>4, <1>P
    <3>2. s # last
      BY <3>1, <1>N, <1>1, <1>P DEF Adjacent
    <3> QED BY <3>1, <3>2, <1>1, <1>N, <1>P, NeighboursAreUnique
  <2>5. ASSUME next[s] = t PROVE prev[t] = s
    <3>1. s # last /\ Adjacent(s, t)
      BY <2>1, <2>5, <1>1, <1>P
    <3>2. t # first
      BY <3>1, <1>N, <1>1, <1>P DEF Adjacent
    <3> QED BY <3>1, <3>2, <1>1, <1>N, <1>P, NeighboursAreUnique
  <2> QED BY <2>1, <2>2, <2>3, <2>4, <2>5
<1>5. ASSUME NEW t \in live'
      PROVE  InPlace(t)'
  <2>0. t \in live /\ t # s /\ t \in Session
    BY <1>1, <1>3
  <2>1. (first <= t /\ t <= last)'
    BY <2>0, <1>1, <1>3, <1>4 DEF ListInv, ListIsLive, InPlace, Adjacent
  <2>2. (IF t = last THEN next[t] = NULL
                    ELSE next[t] \in live /\ Adjacent(t, next[t]))'
    <3>1. CASE t = prev[s] /\ next[s] = NULL
      BY <2>0, <1>1, <1>2, <3>1
    <3>2. CASE t = prev[s] /\ next[s] # NULL
      <4>1. next'[t] = next[s] /\ last' = last /\ next[s] \in live'
        BY <2>0, <1>1, <1>2, <1>4, <1>N, <3>2 DEF Adjacent
      <4>2. t < next[s] /\ \A c \in live' : c <= t \/ c >= next[s]
        <5>1. t # NULL /\ Adjacent(t, s) /\ Adjacent(s, next[s]) /\ next[s] \in live
          BY <2>0, <1>3, <1>4, <3>2
        <5>2. ASSUME NEW c \in live' PROVE c <= t \/ c >= next[s]
          <6>1. c \in live /\ c # s
            BY <1>1
          <6>2. c <= t \/ c >= s
            BY <5>1, <6>1 DEF Adjacent
          <6>3. c <= s \/ c >= next[s]
            BY <5>1, <6>1 DEF Adjacent
          <6>4. c \in Nat /\ s \in Nat
            BY <6>1, <1>N
          <6> QED BY <6>1, <6>2, <6>3, <6>4
        <5>3. t < s /\ s < next[s] /\ t \in Nat /\ s \in Nat /\ next[s] \in Nat
          BY <5>1, <2>0, <1>1, <1>N DEF Adjacent
        <5>4. t < next[s]
          BY ONLY <5>3
        <5> QED BY <5>2, <5>4
      <4>3. t # last
        BY <2>0, <1>1, <1>4, <1>N, <1>P, <3>2 DEF Adjacent
      <4> QED BY <4>1, <4>2, <4>3 DEF Adjacent
    <3>3. CASE t # prev[s]
      <4>1. next'[t] = next[t] /\ next[t] # s
        BY <2>0, <1>2, <1>Q, <3>3
      <4>2. t = last' <=> t = last
        <5>1. CASE next[s] = NULL
          BY <2>0, <1>1, <1>4, <3>3, <5>1
        <5>2. CASE next[s] # NULL
          BY <1>1, <5>2
        <5> QED BY <5>1, <5>2
      <4>3. CASE t = last
        BY <4>1, <4>2, <4>3, <2>0, <1>P
      <4>4. CASE t # last
        <5>1. next[t] \in live' /\ Adjacent(t, next[t])
          BY <4>1, <4>4, <2>0, <1>1, <1>P
        <5>2. \A c \in live' : c <= t \/ c >= next[t]
          BY <5>1, <1>1 DEF Adjacent
        <5> QED BY <4>1, <4>2, <4>4, <5>1, <5>2 DEF Adjacent
      <4> QED BY <4>3, <4>4
    <3> QED BY <3>1, <3>2, <3>3
  <2>3. (IF t = first THEN prev[t] = NULL
                     ELSE prev[t] \in live /\ Adjacent(prev[t], t))'
    <3>1. CASE t = next[s] /\ prev[s] = NULL
      BY <2>0, <1>1, <1>2, <3>1
    <3>2. CASE t = next[s] /\ prev[s] # NULL
      <4>1. prev'[t] = prev[s] /\ first' = first /\ prev[s] \in live'
        BY <2>0, <1>1, <1>2, <1>4, <1>N, <3>2 DEF Adjacent
      <4>2. \A c \in live' : c <= prev[s] \/ c >= t
        <5>1. Adjacent(prev[s], s) /\ Adjacent(s, t) /\ prev[s] \in live
          BY <2>0, <1>3, <1>4, <3>2
        <5>2. ASSUME NEW c \in live' PROVE c <= prev[s] \/ c >= t
          <6>1. c \in live /\ c # s
            BY <1>1
          <6>2. c <= prev[s] \/ c >= s
            BY <5>1, <6>1 DEF Adjacent
          <6>3. c <= s \/ c >= t
            BY <5>1, <6>1 DEF Adjacent
          <6>4. c \in Nat /\ s \in Nat
            BY <6>1, <1>N
          <6> QED BY <6>1, <6>2, <6>3, <6>4
        <5> QED BY <5>2
      <4>3. t # first /\ prev[s] < t
        <5>1. prev[s] < s /\ s < t /\ first <= s /\ first \in Nat
          BY <2>0, <1>1, <1>3, <1>4, <1>N, <1>P, <3>2 DEF Adjacent
        <5>2. t \in Nat /\ s \in Nat /\ prev[s] \in Nat
          BY <2>0, <1>1, <1>4, <1>N, <3>2
        <5> QED BY ONLY <5>1, <5>2
      <4> QED BY <4>1, <4>2, <4>3 DEF Adjacent
    <3>3. CASE t # next[s]
      <4>1. prev'[t] = prev[t] /\ prev[t] # s
        BY <2>0, <1>2, <1>Q, <3>3
      <4>2. t = first' <=> t = first
        <5>1. CASE prev[s] = NULL
          BY <2>0, <1>1, <1>4, <3>3, <5>1
        <5>2. CASE prev[s] # NULL
          BY <1>1, <5>2
        <5> QED BY <5>1, <5>2
      <4>3. CASE t = first
        BY <4>1, <4>2, <4>3, <2>0, <1>P
      <4>4. CASE t # first
        <5>1. prev[t] \in live' /\ Adjacent(prev[t], t)
          BY <4>1, <4>4, <2>0, <1>1, <1>P
        <5>2. \A c \in live' : c <= prev[t] \/ c >= t
          BY <5>1, <1>1 DEF Adjacent
        <5> QED BY <4>1, <4>2, <4>4, <5>1, <5>2 DEF Adjacent
      <4> QED BY <4>3, <4>4
    <3> QED BY <3>1, <3>2, <3>3
  <2> QED BY <2>1, <2>2, <2>3 DEF InPlace
<1>6. ListIsLive'
  <2>1. CASE live' = {}
    <3>1. prev[s] = NULL /\ next[s] = NULL
      <4>1. \A t \in live : t = s
        BY <2>1, <1>1
      <4>2. prev[s] # NULL => prev[s] = s /\ prev[s] < s
        BY <4>1, <1>4 DEF Adjacent
      <4>3. next[s] # NULL => next[s] = s /\ s < next[s]
        BY <4>1, <1>4 DEF Adjacent
      <4> QED BY <4>2, <4>3, <1>1, <1>N
    <3>2. first' = NULL /\ last' = NULL
      BY <3>1, <1>1
    <3> QED BY <2>1, <3>2 DEF ListIsLive
  <2>2. CASE live' # {}
    <3>1. first' \in live' /\ last' \in live'
      <4>1. PICK t \in live : t # s
        BY <2>2, <1>1
      <4>2. prev[s] # NULL => first # s /\ first \in live
        BY <1>1, <1>4, <1>P
      <4>3. next[s] # NULL => last # s /\ last \in live
        BY <1>1, <1>4, <1>P
      <4>4. prev[s] # NULL \/ next[s] # NULL
        BY <4>1, <1>1, <1>4, <1>N, <1>P
      <4>5. prev[s] # s /\ next[s] # s
        BY <1>1, <1>3, <1>4, <1>N DEF Adjacent
      <4> QED BY <1>1, <1>4, <4>2, <4>3, <4>4, <4>5
    <3>2. first' # NULL /\ last' # NULL
      BY <3>1, <1>1, <1>3
    <3> QED BY <2>2, <3>1, <3>2, <1>5 DEF ListIsLive
  <2> QED BY <2>1, <2>2
<1>7. ListTypeOK'
  <2>1. ASSUME NEW t \in Session
        PROVE  /\ next'[t] \in live' \cup {NULL} /\ prev'[t] \in live' \cup {NULL}
               /\ t \notin live' => next'[t] = NULL /\ prev'[t] = NULL
    <3>0. t \notin live => next[t] = NULL /\ prev[t] = NULL
      BY DEF ListInv, ListTypeOK
    <3>1. CASE t = s
      BY <1>2, <3>1
    <3>2. CASE t # s /\ t \in live
      BY <1>1, <1>2, <1>4, <1>P, <1>Q, <3>2
    <3>3. CASE t # s /\ t \notin live
      BY <1>1, <1>2, <1>4, <3>0, <3>3
    <3> QED BY <3>1, <3>2, <3>3
  <2>2. next' \in [Session -> live' \cup {NULL}] /\ prev' \in [Session -> live' \cup {NULL}]
    BY <2>1 DEF Remove, NextWithout, PrevWithout
  <2>3. created' \in 0..MaxSessions /\ live' \subseteq 1..created'
    BY <1>1 DEF ListInv, ListTypeOK
  <2>4. first' \in live' \cup {NULL} /\ last' \in live' \cup {NULL}
    BY <1>6 DEF ListIsLive
  <2> QED BY <2>1, <2>2, <2>3, <2>4 DEF ListTypeOK
<1> QED BY <1>6, <1>7 DEF ListInv

-----------------------------------------------------------------------------
LEMMA ListInvStep == ListInv /\ [Next]_vars => ListInv'
<1> SUFFICES ASSUME ListInv, [Next]_vars PROVE ListInv'
  OBVIOUS
<1>1. ASSUME NEW h \in Key, Create(h) PROVE ListInv'
  BY <1>1, CreateKeepsListInv
<1>2. ASSUME NEW s \in Session, Remove(s) PROVE ListInv'
  BY <1>2, RemoveKeepsListInv
<1>3. CASE UNCHANGED vars
  BY <1>3 DEF vars, ListInv, ListTypeOK, ListIsLive, InPlace, Adjacent
<1> QED BY <1>1, <1>2, <1>3 DEF Next

(* No list operation leaves a link to a deleted session: the list part of    *)
(* TypeOK, for any number of sessions.                                       *)
THEOREM ListTypeCorrect == Spec => []ListTypeOK
<1>1. ListInv => ListTypeOK
  BY DEF ListInv
<1> QED BY <1>1, ListInvInit, ListInvStep, PTL DEF Spec

(* The list holds exactly the live sessions in the order they were made and   *)
(* can be walked both ways (session.cpp, demand and remove).                 *)
THEOREM ListCorrect == Spec => []ListIsLive
<1>1. ListInv => ListIsLive
  BY DEF ListInv
<1> QED BY <1>1, ListInvInit, ListInvStep, PTL DEF Spec
-----------------------------------------------------------------------------
(* The tree.  A walk that goes down from the root is a recursive function,    *)
(* which is what its definition says as soon as there is one.                *)
Pointer == Session \cup {NULL}
Trees == [root : Pointer, lower : [Session -> Pointer], higher : [Session -> Pointer]]

LEMMA ChildIsPointer ==
  ASSUME NEW t \in Trees, NEW k, NEW n \in Session, NEW hash
  PROVE  Child(t, k, n, hash) \in Pointer
BY DEF Trees, Child

LEMMA WalkUnfolds ==
  ASSUME NEW t \in Trees, NEW k, NEW s, NEW hash
  PROVE  /\ Walk(t, k, s, hash) \in [0..MaxSessions -> Pointer]
         /\ Walk(t, k, s, hash)[0] = t.root
         /\ \A n \in 0..MaxSessions : n # 0 =>
              LET here == Walk(t, k, s, hash)[n - 1]
              IN  Walk(t, k, s, hash)[n] =
                    IF here \in {NULL, s} THEN here ELSE Child(t, k, here, hash)
<1> DEFINE Step(x) == IF x \in {NULL, s} THEN x ELSE Child(t, k, x, hash)
           F == [x \in Pointer |-> Step(x)]
           P(g) == g = [n \in 0..MaxSessions |-> IF n = 0 THEN t.root ELSE Step(g[n - 1])]
           w == Walk(t, k, s, hash)
<1> USE SessionsAreNumbers
<1>1. t.root \in Pointer /\ F \in [Pointer -> Pointer] /\ \A x \in Pointer : F[x] = Step(x)
  <2>1. \A x \in Pointer : Step(x) \in Pointer
    BY ChildIsPointer DEF Pointer
  <2> QED BY <2>1 DEF Trees
<1> HIDE DEF F, Step
<1>2. PICK h \in [Nat -> Pointer] : h[0] = t.root /\ \A n \in Nat \ {0} : h[n] = F[h[n - 1]]
  <2> DEFINE z == t.root
  <2>1. z \in Pointer /\ F \in [Pointer -> Pointer]
    BY <1>1
  <2> HIDE DEF z
  <2>2. \E h \in [Nat -> Pointer] : h[0] = z /\ \A n \in Nat \ {0} : h[n] = F[h[n - 1]]
    BY <2>1, Recursion
  <2> QED BY <2>2 DEF z
<1>3. P([n \in 0..MaxSessions |-> h[n]])
  <2>1. ASSUME NEW n \in 0..MaxSessions, n # 0
        PROVE  n - 1 \in 0..MaxSessions /\ h[n] = Step(h[n - 1])
    <3>1. n \in Nat \ {0} /\ n - 1 \in 0..MaxSessions /\ n - 1 \in Nat
      BY <2>1
    <3> QED BY <1>1, <1>2, <3>1
  <2> QED BY <1>2, <2>1
<1>4. P(CHOOSE g : P(g))
  <2> HIDE DEF P
  <2> QED BY <1>3
<1>5. w = CHOOSE g : P(g)
  BY DEF Walk, Step
<1> HIDE DEF w
<1>6. w = [n \in 0..MaxSessions |-> IF n = 0 THEN t.root ELSE Step(w[n - 1])]
  BY <1>4, <1>5
<1>7. /\ w[0] = t.root
      /\ \A n \in 0..MaxSessions : n # 0 => n - 1 \in 0..MaxSessions /\ w[n] = Step(w[n - 1])
  <2>1. \A n \in 0..MaxSessions : n # 0 => n - 1 \in 0..MaxSessions
    OBVIOUS
  <2>2. 0 \in 0..MaxSessions
    OBVIOUS
  <2> QED BY <1>6, <2>1, <2>2, Zenon
<1>8. \A n \in 0..MaxSessions : w[n] \in Pointer
  <2> DEFINE T == {n \in Nat : n <= MaxSessions => w[n] \in Pointer}
  <2>1. 0 \in T
    BY <1>1, <1>7
  <2>2. ASSUME NEW n \in Nat, n \in T PROVE n + 1 \in T
    <3> SUFFICES ASSUME n + 1 <= MaxSessions PROVE w[n + 1] \in Pointer
      OBVIOUS
    <3>1. n + 1 \in 0..MaxSessions /\ n + 1 # 0 /\ (n + 1) - 1 = n /\ w[n] \in Pointer
      BY <2>2
    <3>2. w[n + 1] = Step(w[n])
      BY <1>7, <3>1
    <3> QED BY <1>1, <3>1, <3>2
  <2>3. Nat \subseteq T
    <3> HIDE DEF T
    <3> QED BY <2>1, <2>2, EveryNumber
  <2> QED BY <2>3
<1>9. w \in [0..MaxSessions -> Pointer]
  BY <1>6, <1>8
<1> QED BY <1>7, <1>9 DEF w, Step

LEMMA WalkStep ==
  ASSUME NEW t \in Trees, NEW k, NEW s, NEW hash, NEW n \in Nat, n + 1 <= MaxSessions
  PROVE  LET w == Walk(t, k, s, hash)
         IN  /\ w[n] \in Pointer
             /\ w[n + 1] = IF w[n] \in {NULL, s} THEN w[n] ELSE Child(t, k, w[n], hash)
<1>1. n \in 0..MaxSessions /\ n + 1 \in 0..MaxSessions /\ n + 1 # 0 /\ (n + 1) - 1 = n
  BY SessionsAreNumbers
<1> DEFINE w == Walk(t, k, s, hash)
<1>2. \A m \in 0..MaxSessions : m # 0 =>
        w[m] = IF w[m - 1] \in {NULL, s} THEN w[m - 1] ELSE Child(t, k, w[m - 1], hash)
  BY WalkUnfolds
<1>3. w[n + 1] = IF w[(n + 1) - 1] \in {NULL, s} THEN w[(n + 1) - 1]
                 ELSE Child(t, k, w[(n + 1) - 1], hash)
  BY <1>1, <1>2, Zenon
<1>4. w[n] \in Pointer
  <2>1. w \in [0..MaxSessions -> Pointer]
    BY WalkUnfolds, Zenon
  <2> HIDE DEF w
  <2> QED BY <1>1, <2>1
<1> QED BY <1>1, <1>3, <1>4

(* A walk that has stopped stays where it is. *)
LEMMA WalkStops ==
  ASSUME NEW t \in Trees, NEW k, NEW s, NEW hash, NEW n \in 0..MaxSessions, NEW m \in 0..MaxSessions,
         n <= m, Walk(t, k, s, hash)[n] \in {NULL, s}
  PROVE  Walk(t, k, s, hash)[m] = Walk(t, k, s, hash)[n]
<1> DEFINE w == Walk(t, k, s, hash)
           T == {i \in Nat : n <= i /\ i <= MaxSessions => w[i] = w[n]}
<1> USE SessionsAreNumbers
<1>1. 0 \in T
  <2>1. n <= 0 => n = 0
    OBVIOUS
  <2> QED BY <2>1
<1>2. ASSUME NEW i \in Nat, i \in T PROVE i + 1 \in T
  <2> SUFFICES ASSUME n <= i + 1, i + 1 <= MaxSessions PROVE w[i + 1] = w[n]
    OBVIOUS
  <2>1. CASE n = i + 1
    BY <2>1
  <2>2. CASE n <= i
    <3>1. w[i] = w[n]
      BY <1>2, <2>2
    <3> QED BY <3>1, WalkStep
  <2> QED BY <2>1, <2>2
<1>3. Nat \subseteq T
  <2> HIDE DEF T
  <2> QED BY <1>1, <1>2, EveryNumber
<1> QED BY <1>3

(* The tree hangs newer sessions under older ones: create() adds the newest,  *)
(* and remove() enters them again in the order of the list.                  *)
Grows(t, L) ==
  \A n \in L : /\ t.lower[n] # NULL => t.lower[n] \in L /\ t.lower[n] > n
               /\ t.higher[n] # NULL => t.higher[n] \in L /\ t.higher[n] > n

Reached(t, k, x) == \E n \in 0..MaxSessions : Walk(t, k, x, k[x])[n] = x

(* A tree t of just the sessions L. *)
TreeOver(t, k, L) ==
  /\ L # {} => t.root \in L
  /\ Grows(t, L)
  /\ \A x \in L : Reached(t, k, x)

LEMMA WalkStays ==
  ASSUME NEW t \in Trees, NEW k, NEW s, NEW hash, NEW L \in SUBSET Session, Grows(t, L),
         t.root \in L \cup {NULL}
  PROVE  \A n \in 0..MaxSessions :
           LET here == Walk(t, k, s, hash)[n]
           IN  here \in L \cup {NULL} /\ (here \notin {NULL, s} => here > n)
<1> DEFINE w == Walk(t, k, s, hash)
           T == {n \in Nat : n <= MaxSessions => /\ w[n] \in L \cup {NULL}
                                                 /\ w[n] \notin {NULL, s} => w[n] > n}
<1> USE SessionsAreNumbers
<1>1. 0 \in T
  <2>1. w[0] = t.root
    BY WalkUnfolds
  <2>2. \A x \in L : x > 0
    BY DEF Session
  <2> QED BY <2>1, <2>2
<1>2. ASSUME NEW n \in Nat, n \in T PROVE n + 1 \in T
  <2> SUFFICES ASSUME n + 1 <= MaxSessions
               PROVE  w[n + 1] \in L \cup {NULL} /\ (w[n + 1] \notin {NULL, s} => w[n + 1] > n + 1)
    OBVIOUS
  <2>1. /\ w[n] \in L \cup {NULL} /\ (w[n] \notin {NULL, s} => w[n] > n)
        /\ w[n + 1] = IF w[n] \in {NULL, s} THEN w[n] ELSE Child(t, k, w[n], hash)
    BY <1>2, WalkStep
  <2> HIDE DEF w
  <2>2. CASE w[n] \in {NULL, s}
    BY <2>1, <2>2
  <2>3. CASE w[n] \notin {NULL, s}
    <3> DEFINE x == w[n]
               y == w[n + 1]
    <3>1. x \in L /\ x > n /\ x \in Nat /\ (y = t.lower[x] \/ y = t.higher[x])
      BY <2>1, <2>3 DEF Child
    <3>2. y # NULL => y \in L /\ y > x /\ y \in Nat
      BY <3>1 DEF Grows
    <3> HIDE DEF x, y
    <3>3. y # NULL => y > n + 1
      BY <3>1, <3>2
    <3> QED BY <3>2, <3>3 DEF y
  <2> QED BY <2>2, <2>3
<1>3. Nat \subseteq T
  <2> HIDE DEF T
  <2> QED BY <1>1, <1>2, EveryNumber
<1> QED BY <1>3

(* So a walk for a session that is not in the tree falls off it in time, ... *)
LEMMA FindNone ==
  ASSUME NEW t \in Trees, NEW k, NEW s, NEW hash, NEW L \in SUBSET Session, Grows(t, L),
         t.root \in L \cup {NULL}, s \notin L
  PROVE  Find(t, k, s, hash) = NULL
<1> USE SessionsAreNumbers
<1> DEFINE x == Walk(t, k, s, hash)[MaxSessions]
<1>1. x \in L \cup {NULL} /\ (x \notin {NULL, s} => x > MaxSessions)
  BY WalkStays
<1>2. \A y \in L : y \in Nat /\ ~(y > MaxSessions)
  BY DEF Session
<1> QED BY <1>1, <1>2 DEF Find

(* ... and one that reaches its session is there at the end. *)
LEMMA FindSome ==
  ASSUME NEW t \in Trees, NEW k, NEW x, Reached(t, k, x)
  PROVE  Find(t, k, x, k[x]) = x
<1>1. PICK n \in 0..MaxSessions : Walk(t, k, x, k[x])[n] = x
  BY DEF Reached
<1>2. MaxSessions \in 0..MaxSessions /\ n <= MaxSessions
  BY SessionsAreNumbers
<1> QED BY <1>1, <1>2, WalkStops DEF Find

(* A walk looks at the links and keys of the sessions in the tree only. *)
LEMMA WalkAgrees ==
  ASSUME NEW t \in Trees, NEW u \in Trees, NEW k, NEW l, NEW s, NEW hash, NEW L \in SUBSET Session,
         Grows(t, L), t.root \in L \cup {NULL}, u.root = t.root,
         \A x \in L : u.lower[x] = t.lower[x] /\ u.higher[x] = t.higher[x] /\ l[x] = k[x]
  PROVE  \A n \in 0..MaxSessions : Walk(u, l, s, hash)[n] = Walk(t, k, s, hash)[n]
<1> DEFINE w == Walk(t, k, s, hash)
           v == Walk(u, l, s, hash)
           T == {n \in Nat : n <= MaxSessions => v[n] = w[n]}
<1> USE SessionsAreNumbers
<1>1. 0 \in T
  BY WalkUnfolds
<1>2. ASSUME NEW n \in Nat, n \in T PROVE n + 1 \in T
  <2> SUFFICES ASSUME n + 1 <= MaxSessions PROVE v[n + 1] = w[n + 1]
    OBVIOUS
  <2>1. w[n + 1] = IF w[n] \in {NULL, s} THEN w[n] ELSE Child(t, k, w[n], hash)
    BY WalkStep
  <2>2. v[n + 1] = IF v[n] \in {NULL, s} THEN v[n] ELSE Child(u, l, v[n], hash)
    BY WalkStep
  <2>3. v[n] = w[n] /\ n \in 0..MaxSessions
    BY <1>2
  <2>4. w[n] \in L \cup {NULL}
    BY <2>3, WalkStays
  <2> HIDE DEF v, w
  <2>5. \A x \in L : Child(u, l, x, hash) = Child(t, k, x, hash)
    BY DEF Child
  <2>6. CASE w[n] \in {NULL, s}
    BY <2>1, <2>2, <2>3, <2>6, Zenon
  <2>7. CASE w[n] \notin {NULL, s}
    <3>1. Child(u, l, w[n], hash) = Child(t, k, w[n], hash)
      BY <2>4, <2>5, <2>7
    <3> QED BY <2>1, <2>2, <2>3, <2>7, <3>1, Zenon
  <2> QED BY <2>6, <2>7
<1>3. Nat \subseteq T
  <2> HIDE DEF T
  <2> QED BY <1>1, <1>2, EveryNumber
<1> QED BY <1>3

LEMMA TreeAgrees ==
  ASSUME NEW t \in Trees, NEW u \in Trees, NEW k, NEW l, NEW L \in SUBSET Session,
         TreeOver(t, k, L), u.root = t.root,
         \A x \in L : u.lower[x] = t.lower[x] /\ u.higher[x] = t.higher[x] /\ l[x] = k[x]
  PROVE  TreeOver(u, l, L)
<1>1. Grows(t, L) /\ (L # {} => t.root \in L)
  BY DEF TreeOver
<1>2. Grows(u, L)
  BY <1>1 DEF Grows
<1>3. ASSUME NEW x \in L PROVE Reached(u, l, x)
  <2>1. PICK n \in 0..MaxSessions : Walk(t, k, x, k[x])[n] = x
    BY DEF TreeOver, Reached
  <2>2. t.root \in L \cup {NULL} /\ l[x] = k[x]
    BY <1>1
  <2>3. Walk(u, l, x, k[x])[n] = x
    BY <1>1, <2>1, <2>2, WalkAgrees
  <2> QED BY <2>2, <2>3 DEF Reached
<1> QED BY <1>1, <1>2, <1>3 DEF TreeOver

(* link() hangs the session s, newer than those in the tree, where its walk     *)
(* fell off; no other walk gets there.                                       *)
LEMMA LeafIsOnWalk ==
  ASSUME NEW t \in Trees, NEW k, NEW L \in SUBSET Session, L # {}, NEW s \in Session, s \notin L,
         TreeOver(t, k, L)
  PROVE  \E n \in Nat : LET w == Walk(t, k, s, k[s])
                        IN  /\ n + 1 <= MaxSessions /\ w[n] \in L /\ w[n + 1] = NULL
                            /\ Leaf(t, k, s, k[s]) = w[n]
<1> DEFINE w == Walk(t, k, s, k[s])
           Q(n) == w[n] # NULL /\ (n = MaxSessions \/ w[n + 1] = NULL)
           S == {n \in Nat : n <= MaxSessions /\ w[n] = NULL}
<1> USE SessionsAreNumbers
<1>1. t.root \in L /\ NULL \notin L /\ Grows(t, L)
  BY DEF TreeOver
<1>2. w[MaxSessions] = NULL /\ w[0] = t.root
  <2>1. Find(t, k, s, k[s]) = NULL
    BY <1>1, FindNone
  <2>2. w[0] = t.root
    BY WalkUnfolds
  <2> QED BY <2>1, <2>2 DEF Find
<1>3. \A n \in 0..MaxSessions : w[n] \in L \cup {NULL}
  BY <1>1, WalkStays
<1> HIDE DEF w
<1>4. \E n \in 0..MaxSessions : Q(n)
  <2>1. S \in SUBSET Nat /\ S # {}
    BY <1>2
  <2>2. PICK n \in S : \A m \in S : n <= m
    <3> HIDE DEF S
    <3> QED BY <2>1, Least
  <2>3. n # 0
    BY <1>1, <1>2, <2>2
  <2>4. n - 1 \in 0..MaxSessions /\ n - 1 \notin S /\ (n - 1) + 1 = n
    BY <2>2, <2>3
  <2>5. Q(n - 1)
    BY <2>2, <2>4
  <2> QED BY <2>4, <2>5
<1>5. Leaf(t, k, s, k[s]) = w[CHOOSE n \in 0..MaxSessions : Q(n)]
  BY DEF Leaf, w
<1>6. PICK n \in 0..MaxSessions : Q(n) /\ Leaf(t, k, s, k[s]) = w[n]
  <2> HIDE DEF Q
  <2> QED BY <1>4, <1>5
<1>7. n # MaxSessions
  BY <1>2, <1>6
<1>8. n \in Nat /\ n + 1 <= MaxSessions /\ w[n + 1] = NULL /\ w[n] \in L
  BY <1>3, <1>6, <1>7
<1> QED BY <1>6, <1>8 DEF w

LEMMA LinkChanges ==
  ASSUME NEW t \in Trees, NEW k, NEW s \in Session, NEW leaf \in Session,
         leaf = Leaf(t, k, s, k[s]), Child(t, k, leaf, k[s]) = NULL
  PROVE  LET u == Link(t, k, s)
         IN  /\ u \in Trees /\ u.root = t.root
             /\ \A x \in Session : u.lower[x] = t.lower[x]
                                   \/ (x = leaf /\ u.lower[x] = s /\ t.lower[x] = NULL)
             /\ \A x \in Session : u.higher[x] = t.higher[x]
                                   \/ (x = leaf /\ u.higher[x] = s /\ t.higher[x] = NULL)
             /\ Child(u, k, leaf, k[s]) = s
<1>1. CASE k[leaf] <= k[s]
  <2>1. Link(t, k, s) = [t EXCEPT !.higher[leaf] = s]
    BY <1>1 DEF Link
  <2>2. t.higher[leaf] = NULL
    BY <1>1 DEF Child
  <2> QED BY <1>1, <2>1, <2>2 DEF Trees, Child, Pointer
<1>2. CASE ~(k[leaf] <= k[s])
  <2>1. Link(t, k, s) = [t EXCEPT !.lower[leaf] = s]
    BY <1>2 DEF Link
  <2>2. t.lower[leaf] = NULL
    BY <1>2 DEF Child
  <2> QED BY <1>2, <2>1, <2>2 DEF Trees, Child, Pointer
<1> QED BY <1>1, <1>2

LEMMA LinkHangs ==
  ASSUME NEW t \in Trees, NEW k, NEW L \in SUBSET Session, L # {}, NEW s \in Session,
         \A x \in L : x < s, TreeOver(t, k, L), t.lower[s] = NULL, t.higher[s] = NULL
  PROVE  LET u == Link(t, k, s)
         IN  /\ u \in Trees /\ u.root = t.root /\ TreeOver(u, k, L \cup {s})
             /\ \A x \in Session \ L : u.lower[x] = t.lower[x] /\ u.higher[x] = t.higher[x]
<1> DEFINE w == Walk(t, k, s, k[s])
           u == Link(t, k, s)
<1> USE SessionsAreNumbers
<1>1. t.root \in L /\ NULL \notin L /\ s \notin L /\ s # NULL /\ Grows(t, L)
  <2>1. ~(s < s)
    BY SessionsAreNumbers
  <2>2. s \notin L
    BY <2>1
  <2>3. NULL \notin L /\ s # NULL
    OBVIOUS
  <2> QED BY <2>2, <2>3 DEF TreeOver
<1>2. PICK n \in Nat : n + 1 <= MaxSessions /\ w[n] \in L /\ w[n + 1] = NULL /\ Leaf(t, k, s, k[s]) = w[n]
  BY <1>1, LeafIsOnWalk
<1> DEFINE leaf == w[n]
<1>3. leaf \in L /\ leaf \in Session /\ leaf # s /\ leaf # NULL /\ leaf = Leaf(t, k, s, k[s])
  BY <1>1, <1>2
<1>4. Child(t, k, leaf, k[s]) = NULL
  <2>1. w[n + 1] = IF w[n] \in {NULL, s} THEN w[n] ELSE Child(t, k, w[n], k[s])
    BY <1>2, WalkStep
  <2> QED BY <1>2, <1>3, <2>1
<1>5. /\ u \in Trees /\ u.root = t.root
      /\ \A x \in Session : u.lower[x] = t.lower[x]
                            \/ (x = leaf /\ u.lower[x] = s /\ t.lower[x] = NULL)
      /\ \A x \in Session : u.higher[x] = t.higher[x]
                            \/ (x = leaf /\ u.higher[x] = s /\ t.higher[x] = NULL)
      /\ Child(u, k, leaf, k[s]) = s
  <2> HIDE DEF leaf
  <2> QED BY <1>3, <1>4, LinkChanges
<1>6. \A hash : \A x \in Session : Child(t, k, x, hash) # NULL => Child(u, k, x, hash) = Child(t, k, x, hash)
  <2> HIDE DEF u, leaf
  <2> QED BY <1>5 DEF Child
<1>7. Grows(u, L \cup {s})
  <2>1. ASSUME NEW x \in L \cup {s}
        PROVE  /\ u.lower[x] # NULL => u.lower[x] \in L \cup {s} /\ u.lower[x] > x
               /\ u.higher[x] # NULL => u.higher[x] \in L \cup {s} /\ u.higher[x] > x
    <3> HIDE DEF u, leaf
    <3>1. CASE x = s
      BY <1>3, <1>5, <3>1
    <3>2. CASE x \in L
      <4>1. x < s /\ x \in Nat /\ s \in Nat
        BY <3>2
      <4> QED BY <1>1, <1>5, <3>2, <4>1 DEF Grows
    <3> QED BY <3>1, <3>2
  <2> HIDE DEF u
  <2> QED BY <2>1 DEF Grows
(* A walk that comes to its session meets no link that was NULL. *)
<1>8. ASSUME NEW x \in Session, NEW hash, NEW m \in 0..MaxSessions,
             \A i \in 0..m : Walk(t, k, x, hash)[i] # NULL
      PROVE  \A i \in 0..m : Walk(u, k, x, hash)[i] = Walk(t, k, x, hash)[i]
  <2> DEFINE a == Walk(t, k, x, hash)
             b == Walk(u, k, x, hash)
             T == {i \in Nat : i <= m => b[i] = a[i]}
  <2>1. 0 \in T
    BY <1>5, WalkUnfolds
  <2>2. ASSUME NEW i \in Nat, i \in T PROVE i + 1 \in T
    <3> SUFFICES ASSUME i + 1 <= m PROVE b[i + 1] = a[i + 1]
      OBVIOUS
    <3>1. i + 1 <= MaxSessions /\ i \in 0..m /\ i + 1 \in 0..m /\ b[i] = a[i]
      BY <2>2
    <3>2. a[i] \in Pointer /\ a[i + 1] = IF a[i] \in {NULL, x} THEN a[i] ELSE Child(t, k, a[i], hash)
      BY <3>1, WalkStep
    <3>3. b[i + 1] = IF b[i] \in {NULL, x} THEN b[i] ELSE Child(u, k, b[i], hash)
      BY <1>5, <3>1, WalkStep
    <3>4. a[i] # NULL /\ a[i + 1] # NULL
      BY <1>8, <3>1
    <3> HIDE DEF a, b, u
    <3>5. CASE a[i] = x
      BY <3>1, <3>2, <3>3, <3>5, Zenon
    <3>6. CASE a[i] # x
      <4>1. a[i] \in Session /\ a[i] \notin {NULL, x}
        BY <3>2, <3>4, <3>6 DEF Pointer
      <4>2. a[i + 1] = Child(t, k, a[i], hash) /\ b[i + 1] = Child(u, k, a[i], hash)
        BY <3>1, <3>2, <3>3, <4>1, Zenon
      <4> QED BY <1>6, <3>4, <4>1, <4>2
    <3> QED BY <3>5, <3>6
  <2>3. Nat \subseteq T
    <3> HIDE DEF T
    <3> QED BY <2>1, <2>2, EveryNumber
  <2> QED BY <2>3
<1>9. ASSUME NEW x \in L PROVE Reached(u, k, x)
  <2>1. PICK m \in 0..MaxSessions : Walk(t, k, x, k[x])[m] = x
    BY DEF TreeOver, Reached
  <2>2. \A i \in 0..m : Walk(t, k, x, k[x])[i] # NULL
    <3>1. SUFFICES ASSUME NEW i \in 0..m, Walk(t, k, x, k[x])[i] = NULL PROVE FALSE
      OBVIOUS
    <3>2. i \in 0..MaxSessions /\ i <= m
      OBVIOUS
    <3>3. Walk(t, k, x, k[x])[m] = NULL
      BY <3>1, <3>2, WalkStops
    <3> QED BY <1>1, <2>1, <3>3
  <2>3. m \in 0..m /\ x \in Session
    OBVIOUS
  <2>4. Walk(u, k, x, k[x])[m] = x
    BY <1>8, <2>1, <2>2, <2>3
  <2> QED BY <2>4 DEF Reached
<1>10. Reached(u, k, s)
  <2> DEFINE v == Walk(u, k, s, k[s])
  <2>1. n \in 0..MaxSessions /\ n \in 0..n
    BY <1>2
  <2>2. \A i \in 0..n : w[i] # NULL
    <3>1. SUFFICES ASSUME NEW i \in 0..n, w[i] = NULL PROVE FALSE
      OBVIOUS
    <3>2. i \in 0..MaxSessions /\ i <= n
      BY <2>1
    <3>3. w[n] = NULL
      BY <2>1, <3>1, <3>2, WalkStops
    <3> QED BY <1>3, <3>3
  <2>3. v[n] = leaf
    BY <1>8, <2>1, <2>2
  <2>4. v[n + 1] = IF v[n] \in {NULL, s} THEN v[n] ELSE Child(u, k, v[n], k[s])
    BY <1>2, <1>5, WalkStep
  <2>5. v[n + 1] = s
    <3> HIDE DEF u, v, leaf
    <3> QED BY <1>3, <1>5, <2>3, <2>4
  <2>6. n + 1 \in 0..MaxSessions
    BY <1>2
  <2> QED BY <2>5, <2>6 DEF Reached
<1>11. TreeOver(u, k, L \cup {s})
  <2> HIDE DEF u
  <2> QED BY <1>1, <1>5, <1>7, <1>9, <1>10 DEF TreeOver
<1>12. \A x \in Session \ L : u.lower[x] = t.lower[x] /\ u.higher[x] = t.higher[x]
  <2> HIDE DEF u, leaf
  <2> QED BY <1>3, <1>5
<1> QED BY <1>5, <1>11, <1>12

-----------------------------------------------------------------------------
(* remove() enters the sessions A of the list, which begins at t.root, into   *)
(* the tree again: before each of them the tree holds those in front of it.   *)
Cleared(t, x) == [t EXCEPT !.lower[x] = NULL, !.higher[x] = NULL]
Entered(a, t, k, nxt) ==
  IF a.at = NULL THEN a
  ELSE [at   |-> nxt[a.at],
        tree |-> IF a.at = t.root THEN Cleared(a.tree, a.at)
                 ELSE Link(Cleared(a.tree, a.at), k, a.at)]

Chain(t, A, nxt) ==
  /\ t.root \in A \cup {NULL} /\ (A # {} => t.root # NULL)
  /\ \A x \in A : /\ t.root <= x /\ nxt[x] \in A \cup {NULL}
                  /\ nxt[x] # NULL => nxt[x] > x
                  /\ \A y \in A : y <= x \/ (nxt[x] # NULL /\ y >= nxt[x])

LEMMA ClearedTypes ==
  ASSUME NEW t \in Trees, NEW x \in Session
  PROVE  /\ Cleared(t, x) \in Trees /\ Cleared(t, x).root = t.root
         /\ Cleared(t, x).lower[x] = NULL /\ Cleared(t, x).higher[x] = NULL
         /\ \A y \in Session \ {x} : /\ Cleared(t, x).lower[y] = t.lower[y]
                                     /\ Cleared(t, x).higher[y] = t.higher[y]
BY DEF Cleared, Trees, Pointer

LEMMA LinkTypes ==
  ASSUME NEW t \in Trees, NEW k, NEW s \in Session
  PROVE  Link(t, k, s) \in Trees
<1> DEFINE leaf == Leaf(t, k, s, k[s])
<1>1. Link(t, k, s) = [t EXCEPT !.higher[leaf] = s] \/ Link(t, k, s) = [t EXCEPT !.lower[leaf] = s]
  BY DEF Link
<1> HIDE DEF leaf
<1> QED BY <1>1 DEF Trees, Pointer

LEMMA RelinkUnfolds ==
  ASSUME NEW t \in Trees, NEW k, NEW nxt \in [Session -> Pointer]
  PROVE  \E r : /\ Relink(t, k, nxt) = r[MaxSessions].tree
                /\ r[0] = [at |-> t.root, tree |-> t]
                /\ \A n \in Nat : n + 1 <= MaxSessions => r[n + 1] = Entered(r[n], t, k, nxt)
<1> DEFINE Step(a) == Entered(a, t, k, nxt)
           D == [at : Pointer, tree : Trees]
           F == [a \in D |-> Step(a)]
           z == [at |-> t.root, tree |-> t]
           P(g) == g = [n \in 0..MaxSessions |-> IF n = 0 THEN z ELSE Step(g[n - 1])]
           r == CHOOSE g : P(g)
<1> USE SessionsAreNumbers
<1>1. z \in D /\ F \in [D -> D] /\ \A a \in D : F[a] = Step(a)
  <2>1. ASSUME NEW a \in D PROVE Step(a) \in D
    <3>1. CASE a.at = NULL
      BY <2>1, <3>1 DEF Entered
    <3>2. CASE a.at # NULL
      <4>1. a.at \in Session /\ a.tree \in Trees /\ nxt[a.at] \in Pointer
        BY <3>2 DEF Pointer
      <4>2. Cleared(a.tree, a.at) \in Trees /\ Link(Cleared(a.tree, a.at), k, a.at) \in Trees
        BY <4>1, ClearedTypes, LinkTypes
      <4> QED BY <3>2, <4>1, <4>2 DEF Entered
    <3> QED BY <3>1, <3>2
  <2>2. z \in D
    BY DEF Trees
  <2> HIDE DEF Step, D, z
  <2> QED BY <2>1, <2>2
<1> HIDE DEF F, Step, D, z
<1>2. PICK h \in [Nat -> D] : h[0] = z /\ \A n \in Nat \ {0} : h[n] = F[h[n - 1]]
  BY <1>1, Recursion
<1>3. P([n \in 0..MaxSessions |-> h[n]])
  <2>1. ASSUME NEW n \in 0..MaxSessions, n # 0
        PROVE  n - 1 \in 0..MaxSessions /\ h[n] = Step(h[n - 1])
    <3>1. n \in Nat \ {0} /\ n - 1 \in 0..MaxSessions /\ n - 1 \in Nat
      BY <2>1
    <3> QED BY <1>1, <1>2, <3>1
  <2> QED BY <1>2, <2>1
<1>4. P(r)
  <2> HIDE DEF P
  <2> QED BY <1>3
<1>5. Relink(t, k, nxt) = r[MaxSessions].tree
  BY DEF Relink, Step, Entered, Cleared, z
<1> HIDE DEF r
<1>6. r[0] = z
  <2>1. 0 \in 0..MaxSessions
    OBVIOUS
  <2> QED BY <1>4, <2>1, Zenon
<1>7. ASSUME NEW n \in Nat, n + 1 <= MaxSessions PROVE r[n + 1] = Step(r[n])
  <2>1. n + 1 \in 0..MaxSessions /\ n + 1 # 0 /\ (n + 1) - 1 = n
    BY <1>7
  <2>2. r[n + 1] = IF n + 1 = 0 THEN z ELSE Step(r[(n + 1) - 1])
    BY <1>4, <2>1, Zenon
  <2> QED BY <2>1, <2>2
<1> QED BY <1>5, <1>6, <1>7 DEF Step, z

Front(A, at) == {x \in A : at = NULL \/ x < at}
InOrder(a, t, k, A) ==
  /\ a.at \in A \cup {NULL} /\ a.tree \in Trees /\ a.tree.root = t.root
  /\ TreeOver(a.tree, k, Front(A, a.at))
  /\ \A x \in Session \ A : /\ a.tree.lower[x] = t.lower[x]
                            /\ a.tree.higher[x] = t.higher[x]

LEMMA EmptyTree == ASSUME NEW t, NEW k PROVE TreeOver(t, k, {})
BY DEF TreeOver, Grows

LEMMA SingleTree ==
  ASSUME NEW t \in Trees, NEW k, t.root \in Session, t.lower[t.root] = NULL, t.higher[t.root] = NULL
  PROVE  TreeOver(t, k, {t.root})
<1>1. Walk(t, k, t.root, k[t.root])[0] = t.root /\ 0 \in 0..MaxSessions
  BY WalkUnfolds, SessionsAreNumbers
<1>2. Reached(t, k, t.root)
  BY <1>1 DEF Reached
<1> QED BY <1>2 DEF TreeOver, Grows

LEMMA EnteredInOrder ==
  ASSUME NEW t \in Trees, NEW k, NEW nxt, NEW A \in SUBSET Session, Chain(t, A, nxt),
         NEW a, InOrder(a, t, k, A), a.at # NULL
  PROVE  InOrder(Entered(a, t, k, nxt), t, k, A)
<1> DEFINE x == a.at
           bare == Cleared(a.tree, x)
           new == IF x = t.root THEN bare ELSE Link(bare, k, x)
           L == Front(A, x)
           M == Front(A, nxt[x])
<1> USE SessionsAreNumbers
<1>1. /\ x \in A /\ x \in Session /\ a.tree \in Trees /\ a.tree.root = t.root
      /\ TreeOver(a.tree, k, L) /\ nxt[x] \in A \cup {NULL} /\ t.root <= x
      /\ L \subseteq A /\ x \notin L
      /\ \A y \in Session \ A : a.tree.lower[y] = t.lower[y] /\ a.tree.higher[y] = t.higher[y]
  <2>1. \A y \in L : y < x /\ y \in A
    BY DEF Front, InOrder
  <2>2. ~(x < x)
    <3>1. x \in Nat
      BY DEF InOrder
    <3> QED BY <3>1
  <2> HIDE DEF L
  <2>3. L \subseteq A /\ x \notin L
    BY <2>1, <2>2
  <2> QED BY <2>3 DEF InOrder, Chain, L
<1>2. M = L \cup {x}
  <2>1. ASSUME NEW y \in A PROVE y \in M <=> y \in L \cup {x}
    <3>1. y \in Nat /\ x \in Nat
      BY <1>1
    <3>2. y <= x \/ (nxt[x] # NULL /\ y >= nxt[x])
      BY <1>1 DEF Chain
    <3>3. nxt[x] # NULL => nxt[x] > x /\ nxt[x] \in Nat
      BY <1>1 DEF Chain
    <3>4. y \in M <=> nxt[x] = NULL \/ y < nxt[x]
      BY DEF Front
    <3>5. y \in L <=> y < x
      BY <1>1 DEF Front, InOrder
    <3> HIDE DEF x, M, L
    <3> QED BY <3>1, <3>2, <3>3, <3>4, <3>5
  <2>2. M \subseteq A /\ L \cup {x} \subseteq A
    BY <1>1 DEF Front
  <2> HIDE DEF M, L, x
  <2> QED BY <2>1, <2>2
<1> HIDE DEF x, L, M
<1>3. /\ bare \in Trees /\ bare.root = t.root /\ bare.lower[x] = NULL /\ bare.higher[x] = NULL
      /\ \A y \in Session \ {x} : /\ bare.lower[y] = a.tree.lower[y]
                                  /\ bare.higher[y] = a.tree.higher[y]
  BY <1>1, ClearedTypes
<1> HIDE DEF bare
<1>4. TreeOver(bare, k, L)
  <2>1. L \in SUBSET Session
    BY <1>1
  <2>2. \A y \in L : bare.lower[y] = a.tree.lower[y] /\ bare.higher[y] = a.tree.higher[y]
    BY <1>1, <1>3
  <2> QED BY <1>1, <1>3, <2>1, <2>2, TreeAgrees
<1>5. /\ new \in Trees /\ new.root = t.root /\ TreeOver(new, k, M)
      /\ \A y \in Session \ A : new.lower[y] = t.lower[y] /\ new.higher[y] = t.higher[y]
  <2>1. CASE x = t.root
    <3>1. new = bare
      BY <2>1
    <3>2. L = {}
      <4>1. ASSUME NEW y \in L PROVE FALSE
        <5>1. y \in A /\ y < x /\ t.root <= y
          BY <1>1 DEF Front, L, Chain, x
        <5>2. y \in Nat /\ x \in Nat
          BY <1>1, <5>1
        <5> QED BY <2>1, <5>1, <5>2
      <4> QED BY <4>1
    <3>3. TreeOver(bare, k, {x})
      BY <1>1, <1>3, <2>1, SingleTree
    <3> HIDE DEF new
    <3> QED BY <1>1, <1>2, <1>3, <3>1, <3>2, <3>3
  <2>2. CASE x # t.root
    <3>1. new = Link(bare, k, x)
      BY <2>2
    <3>2. t.root \in L /\ L \in SUBSET Session
      <4>1. t.root \in A
        BY <1>1 DEF Chain
      <4>2. t.root \in Nat /\ x \in Nat
        BY <1>1, <4>1
      <4>3. t.root < x
        BY <1>1, <2>2, <4>2
      <4> QED BY <1>1, <4>1, <4>3 DEF L, Front
    <3>3. \A y \in L : y < x
      BY <1>1 DEF L, Front
    <3>4. /\ Link(bare, k, x) \in Trees /\ Link(bare, k, x).root = bare.root
          /\ TreeOver(Link(bare, k, x), k, L \cup {x})
          /\ \A y \in Session \ L : /\ Link(bare, k, x).lower[y] = bare.lower[y]
                                    /\ Link(bare, k, x).higher[y] = bare.higher[y]
      <4>1. L # {}
        BY <3>2
      <4> QED BY <1>1, <1>3, <1>4, <3>2, <3>3, <4>1, LinkHangs
    <3> HIDE DEF new
    <3> QED BY <1>1, <1>2, <1>3, <3>1, <3>4
  <2> QED BY <2>1, <2>2
<1>6. Entered(a, t, k, nxt) = [at |-> nxt[x], tree |-> new]
  BY DEF Entered, x, bare
<1> HIDE DEF new
<1> QED BY <1>1, <1>5, <1>6 DEF InOrder, M

LEMMA RelinkRebuilds ==
  ASSUME NEW t \in Trees, NEW k, NEW nxt \in [Session -> Pointer], NEW A \in SUBSET Session,
         Chain(t, A, nxt)
  PROVE  LET u == Relink(t, k, nxt)
         IN  /\ u \in Trees /\ u.root = t.root /\ TreeOver(u, k, A)
             /\ \A x \in Session \ A : u.lower[x] = t.lower[x] /\ u.higher[x] = t.higher[x]
<1> USE SessionsAreNumbers
<1>1. PICK r : /\ Relink(t, k, nxt) = r[MaxSessions].tree
               /\ r[0] = [at |-> t.root, tree |-> t]
               /\ \A n \in Nat : n + 1 <= MaxSessions => r[n + 1] = Entered(r[n], t, k, nxt)
  BY RelinkUnfolds
<1> DEFINE T == {n \in Nat : n <= MaxSessions =>
                   InOrder(r[n], t, k, A) /\ (r[n].at # NULL => r[n].at > n)}
<1>2. 0 \in T
  <2>1. r[0].at = t.root /\ r[0].tree = t /\ t.root \in A \cup {NULL}
    BY <1>1 DEF Chain
  <2>2. Front(A, t.root) = {}
    <3>1. ASSUME NEW x \in A PROVE ~(t.root = NULL \/ x < t.root)
      <4>1. t.root # NULL /\ t.root \in A /\ t.root <= x
        BY DEF Chain
      <4>2. x \in Nat /\ t.root \in Nat
        BY <4>1
      <4> QED BY <4>1, <4>2
    <3> QED BY <3>1 DEF Front
  <2>3. TreeOver(t, k, {})
    BY EmptyTree
  <2>4. InOrder(r[0], t, k, A)
    BY <2>1, <2>2, <2>3 DEF InOrder
  <2>5. t.root # NULL => t.root > 0
    <3>1. t.root # NULL => t.root \in Session
      BY <2>1
    <3>2. \A x \in Session : x > 0
      BY DEF Session
    <3> QED BY <3>1, <3>2
  <2> QED BY <2>1, <2>4, <2>5
<1>3. ASSUME NEW n \in Nat, n \in T PROVE n + 1 \in T
  <2> SUFFICES ASSUME n + 1 <= MaxSessions
               PROVE  InOrder(r[n + 1], t, k, A) /\ (r[n + 1].at # NULL => r[n + 1].at > n + 1)
    OBVIOUS
  <2>1. /\ InOrder(r[n], t, k, A) /\ (r[n].at # NULL => r[n].at > n)
        /\ r[n + 1] = Entered(r[n], t, k, nxt)
    BY <1>1, <1>3
  <2>2. CASE r[n].at = NULL
    BY <2>1, <2>2 DEF Entered
  <2>3. CASE r[n].at # NULL
    <3>1. InOrder(r[n + 1], t, k, A)
      BY <2>1, <2>3, EnteredInOrder
    <3>2. r[n + 1].at = nxt[r[n].at] /\ r[n].at \in A
      BY <2>1, <2>3 DEF Entered, InOrder
    <3>3. nxt[r[n].at] # NULL => nxt[r[n].at] > r[n].at /\ nxt[r[n].at] \in A
      BY <3>2 DEF Chain
    <3> DEFINE x == r[n].at
               y == nxt[x]
    <3>4. y # NULL => y > n + 1
      <4>1. x \in Nat /\ x > n /\ (y # NULL => y \in Nat /\ y > x)
        BY <2>1, <2>3, <3>2, <3>3
      <4> HIDE DEF x, y
      <4> QED BY <4>1
    <3> QED BY <3>1, <3>2, <3>4
  <2> QED BY <2>2, <2>3
<1>4. Nat \subseteq T
  <2> HIDE DEF T
  <2> QED BY <1>2, <1>3, EveryNumber
<1>5. InOrder(r[MaxSessions], t, k, A) /\ r[MaxSessions].at = NULL
  <2>1. /\ InOrder(r[MaxSessions], t, k, A)
        /\ r[MaxSessions].at # NULL => r[MaxSessions].at > MaxSessions
    BY <1>4
  <2>2. \A x \in A : ~(x > MaxSessions)
    BY DEF Session
  <2> QED BY <2>1, <2>2 DEF InOrder
<1>6. Front(A, NULL) = A
  BY DEF Front
<1> QED BY <1>1, <1>5, <1>6 DEF InOrder

-----------------------------------------------------------------------------
(* With the list comes the tree: it holds the live sessions, newer ones under  *)
(* older ones, and the walk for each of them gets there.                     *)
TreeInv ==
  /\ ListInv
  /\ key \in [Session -> Key \cup {0}] /\ tree \in Trees
  /\ TreeOver(tree, key, live)
  /\ \A s \in Session \ live : lower[s] = NULL /\ higher[s] = NULL

LEMMA TreeFields ==
  /\ tree.root = first /\ tree.lower = lower /\ tree.higher = higher
  /\ tree \in Trees <=> /\ first \in Pointer /\ lower \in [Session -> Pointer]
                        /\ higher \in [Session -> Pointer]
BY DEF tree, Trees

LEMMA TreeInvInit == Init => TreeInv
<1> SUFFICES ASSUME Init PROVE TreeInv
  OBVIOUS
<1>1. ListInv /\ live = {} /\ key \in [Session -> Key \cup {0}]
  BY ListInvInit DEF Init
<1>2. tree \in Trees /\ \A s \in Session : lower[s] = NULL /\ higher[s] = NULL
  BY TreeFields DEF Init, Pointer
<1> QED BY <1>1, <1>2, EmptyTree DEF TreeInv

LEMMA CreateKeepsTree ==
  ASSUME TreeInv, NEW h \in Key, Create(h)
  PROVE  TreeInv'
<1> DEFINE s == created + 1
           k == [key EXCEPT ![s] = h]
           bare == [tree EXCEPT !.lower[s] = NULL, !.higher[s] = NULL]
           t == IF last = NULL THEN [bare EXCEPT !.root = s] ELSE Link(bare, k, s)
<1> USE SessionsAreNumbers
<1>1. /\ ListInv /\ ListInv' /\ live \subseteq Session /\ s \in Session /\ s \notin live
      /\ \A x \in live : x < s
  <2>1. ListInv /\ ListInv'
    BY CreateKeepsListInv DEF TreeInv
  <2>2. created \in 0..MaxSessions /\ live \subseteq 1..created /\ created < MaxSessions
    BY DEF TreeInv, ListInv, ListTypeOK, Create
  <2> QED BY <2>1, <2>2 DEF Session
<1>2. /\ live' = live \cup {s} /\ key' = k /\ lower' = t.lower /\ higher' = t.higher
      /\ first' = IF last = NULL THEN s ELSE first
  BY DEF Create
<1>3. /\ bare \in Trees /\ bare.root = first /\ bare.lower[s] = NULL /\ bare.higher[s] = NULL
      /\ \A x \in Session \ {s} : bare.lower[x] = lower[x] /\ bare.higher[x] = higher[x]
  <2>1. tree \in Trees /\ bare = Cleared(tree, s)
    BY DEF TreeInv, Cleared
  <2> HIDE DEF bare
  <2> QED BY <1>1, <2>1, ClearedTypes, TreeFields
<1>4. k \in [Session -> Key \cup {0}] /\ k[s] = h /\ \A x \in live : k[x] = key[x]
  BY <1>1 DEF TreeInv
<1> HIDE DEF k, bare
<1>5. /\ t \in Trees /\ t.root = first' /\ TreeOver(t, k, live')
      /\ \A x \in Session \ live' : t.lower[x] = NULL /\ t.higher[x] = NULL
  <2>1. CASE last = NULL
    <3>1. live = {}
      BY <1>1, <2>1 DEF ListInv, ListIsLive
    <3>2. t = [bare EXCEPT !.root = s]
      BY <2>1
    <3>3. t \in Trees /\ t.root = s /\ t.lower = bare.lower /\ t.higher = bare.higher
      BY <1>1, <1>3, <3>2 DEF Trees, Pointer
    <3> HIDE DEF t
    <3>4. TreeOver(t, k, {t.root})
      BY <1>1, <1>3, <3>3, SingleTree
    <3> QED BY <1>1, <1>2, <1>3, <2>1, <3>1, <3>3, <3>4 DEF TreeInv
  <2>2. CASE last # NULL
    <3>1. live # {}
      BY <1>1, <2>2 DEF ListInv, ListIsLive
    <3>2. t = Link(bare, k, s)
      BY <2>2
    <3>3. TreeOver(bare, k, live)
      BY <1>1, <1>3, <1>4, TreeAgrees, TreeFields DEF TreeInv
    <3> HIDE DEF t
    <3>4. /\ t \in Trees /\ t.root = bare.root /\ TreeOver(t, k, live \cup {s})
          /\ \A x \in Session \ live : t.lower[x] = bare.lower[x] /\ t.higher[x] = bare.higher[x]
      <4>1. live \in SUBSET Session
        BY <1>1
      <4>2. s \in Session /\ \A x \in live : x < s
        BY <1>1
      <4> HIDE DEF s
      <4>3. LET u == Link(bare, k, s)
            IN  /\ u \in Trees /\ u.root = bare.root /\ TreeOver(u, k, live \cup {s})
                /\ \A x \in Session \ live : u.lower[x] = bare.lower[x] /\ u.higher[x] = bare.higher[x]
        BY <1>3, <3>1, <3>3, <4>1, <4>2, LinkHangs
      <4> QED BY <3>2, <4>3, ZenonT(60)
    <3> QED BY <1>1, <1>2, <1>3, <2>2, <3>4 DEF TreeInv
  <2> QED BY <2>1, <2>2
<1> HIDE DEF t
<1>6. /\ (tree \in Trees)' /\ tree'.root = t.root /\ tree'.lower = t.lower /\ tree'.higher = t.higher
  BY <1>2, <1>5 DEF tree, Trees
<1>7. TreeOver(tree', key', live')
  <2>1. live' \in SUBSET Session
    BY <1>1, <1>2
  <2> QED BY <1>2, <1>5, <1>6, <2>1, TreeAgrees
<1> QED BY <1>1, <1>2, <1>4, <1>5, <1>6, <1>7 DEF TreeInv

(* What remove() walks along is the list as it left it. *)
LEMMA ListIsChain ==
  ASSUME ListInv', NEW t, t.root = first'
  PROVE  Chain(t, live', next')
<1> USE SessionsAreNumbers
<1>1. live' \subseteq Session /\ live' \subseteq Nat
  BY DEF ListInv, ListTypeOK, Session
<1>2. first' \in live' \cup {NULL} /\ (live' # {} => first' # NULL)
  BY <1>1 DEF ListInv, ListIsLive, ListTypeOK
<1>3. ASSUME NEW x \in live'
      PROVE  /\ first' <= x /\ next'[x] \in live' \cup {NULL}
             /\ next'[x] # NULL => next'[x] > x
             /\ \A y \in live' : y <= x \/ (next'[x] # NULL /\ y >= next'[x])
  <2>1. InPlace(x)' /\ x \in Nat /\ \A y \in live' : y <= last'
    BY <1>1 DEF ListInv, ListIsLive, InPlace
  <2>2. CASE x = last'
    BY <2>1, <2>2 DEF InPlace
  <2>3. CASE x # last'
    <3>1. next'[x] \in live' /\ next'[x] \in Nat /\ next'[x] # NULL /\ x < next'[x]
          /\ \A y \in live' : y <= x \/ y >= next'[x]
      BY <1>1, <2>1, <2>3 DEF InPlace, Adjacent
    <3> QED BY <2>1, <3>1 DEF InPlace
  <2> QED BY <2>2, <2>3
<1> QED BY <1>2, <1>3 DEF Chain

LEMMA RemoveKeepsTree ==
  ASSUME TreeInv, NEW s \in Session, Remove(s)
  PROVE  TreeInv'
<1> DEFINE t == [tree EXCEPT !.root = first']
           u == Relink(t, key, next')
<1> USE SessionsAreNumbers
<1>1. ListInv /\ ListInv' /\ s \in live /\ live' = live \ {s} /\ live' \in SUBSET Session
  <2>1. ListInv /\ ListInv'
    BY RemoveKeepsListInv DEF TreeInv
  <2>2. live \subseteq Session
    BY <2>1 DEF ListInv, ListTypeOK, Session
  <2> QED BY <2>1, <2>2 DEF Remove
<1>2. /\ lower' = [u.lower EXCEPT ![s] = NULL] /\ higher' = [u.higher EXCEPT ![s] = NULL]
      /\ key' = [key EXCEPT ![s] = 0]
  BY DEF Remove
<1>3. first' \in Pointer /\ next' \in [Session -> Pointer]
  BY <1>1 DEF ListInv, ListTypeOK, Pointer
<1>4. t \in Trees /\ t.root = first' /\ t.lower = lower /\ t.higher = higher
  <2>1. tree \in Trees
    BY DEF TreeInv
  <2> QED BY <1>3, <2>1 DEF Trees, tree
<1> HIDE DEF t
<1>5. Chain(t, live', next')
  BY <1>1, <1>4, ListIsChain
<1>6. /\ u \in Trees /\ u.root = first' /\ TreeOver(u, key, live')
      /\ \A x \in Session \ live' : u.lower[x] = lower[x] /\ u.higher[x] = higher[x]
  BY <1>1, <1>3, <1>4, <1>5, RelinkRebuilds
<1> HIDE DEF u
<1>7. /\ (tree \in Trees)' /\ tree'.root = u.root
      /\ \A x \in Session \ {s} : tree'.lower[x] = u.lower[x] /\ tree'.higher[x] = u.higher[x]
      /\ lower'[s] = NULL /\ higher'[s] = NULL
  <2>1. /\ u.lower \in [Session -> Pointer] /\ u.higher \in [Session -> Pointer]
        /\ u.root \in Pointer /\ NULL \in Pointer
    BY <1>6 DEF Trees, Pointer
  <2> QED BY <1>2, <1>6, <2>1 DEF tree, Trees
<1>8. key' \in [Session -> Key \cup {0}] /\ \A x \in Session \ {s} : key'[x] = key[x]
  BY <1>2 DEF TreeInv
<1>9. TreeOver(tree', key', live')
  <2>1. \A x \in live' : x \in Session \ {s}
    BY <1>1
  <2> QED BY <1>1, <1>6, <1>7, <1>8, <2>1, TreeAgrees
<1>10. \A x \in Session \ live' : lower'[x] = NULL /\ higher'[x] = NULL
  <2>1. ASSUME NEW x \in Session \ live', x # s
        PROVE  lower'[x] = NULL /\ higher'[x] = NULL
    <3>1. lower[x] = NULL /\ higher[x] = NULL
      BY <1>1, <2>1 DEF TreeInv
    <3> QED BY <1>6, <1>7, <2>1, <3>1 DEF tree
  <2> QED BY <1>7, <2>1
<1> QED BY <1>1, <1>7, <1>8, <1>9, <1>10 DEF TreeInv

LEMMA TreeInvStep == TreeInv /\ [Next]_vars => TreeInv'
<1> SUFFICES ASSUME TreeInv, [Next]_vars PROVE TreeInv'
  OBVIOUS
<1>1. ASSUME NEW h \in Key, Create(h) PROVE TreeInv'
  BY <1>1, CreateKeepsTree
<1>2. ASSUME NEW s \in Session, Remove(s) PROVE TreeInv'
  BY <1>2, RemoveKeepsTree
<1>3. CASE UNCHANGED vars
  <2>1. ListInv'
    BY <1>3, ListInvStep DEF TreeInv
  <2> QED BY <1>3, <2>1 DEF vars, TreeInv, tree
<1> QED BY <1>1, <1>2, <1>3 DEF Next

(* No operation leaves a link, of the list or of the tree, to a session that    *)
(* remove() deleted, for any number of sessions and any hashes of their ids.    *)
THEOREM LinksAreLive == Spec => []TypeOK
<1>1. TreeInv => TypeOK
  <2> SUFFICES ASSUME TreeInv PROVE TypeOK
    OBVIOUS
  <2>1. ASSUME NEW s \in Session
        PROVE  lower[s] \in live \cup {NULL} /\ higher[s] \in live \cup {NULL}
    <3>1. CASE s \in live
      BY <3>1, TreeFields DEF TreeInv, TreeOver, Grows
    <3>2. CASE s \notin live
      BY <3>2 DEF TreeInv
    <3> QED BY <3>1, <3>2
  <2>2. lower \in [Session -> Pointer] /\ higher \in [Session -> Pointer]
    BY TreeFields DEF TreeInv
  <2>3. lower \in [Session -> live \cup {NULL}] /\ higher \in [Session -> live \cup {NULL}]
    BY <2>1, <2>2
  <2> QED BY <2>3 DEF TypeOK, TreeTypeOK, TreeInv, ListInv
<1> QED BY <1>1, TreeInvInit, TreeInvStep, PTL DEF Spec

(* find() returns every live session, and NULL for every id that is not live,  *)
(* whatever the hashes of the ids are and in whatever order sessions come and   *)
(* go (session.cpp, find, link and remove).                                   *)
THEOREM FindCorrect == Spec => []FindIsMembership
<1>1. TreeInv => FindIsMembership
  <2> SUFFICES ASSUME TreeInv PROVE FindIsMembership
    OBVIOUS
  <2>1. /\ tree \in Trees /\ TreeOver(tree, key, live) /\ live \in SUBSET Session
        /\ tree.root \in live \cup {NULL}
    <3>1. live \in SUBSET Session
      BY SessionsAreNumbers DEF TreeInv, ListInv, ListTypeOK, Session
    <3>2. tree.root \in live \cup {NULL}
      BY TreeFields DEF TreeInv, ListInv, ListTypeOK
    <3> QED BY <3>1, <3>2 DEF TreeInv
  <2>2. ASSUME NEW s \in live PROVE Find(tree, key, s, key[s]) = s
    BY <2>1, FindSome DEF TreeOver
  <2>3. ASSUME NEW s \in Session \ live, NEW h \in Key PROVE Find(tree, key, s, h) = NULL
    BY <2>1, FindNone DEF TreeOver
  <2> QED BY <2>2, <2>3 DEF FindIsMembership
<1> QED BY <1>1, TreeInvInit, TreeInvStep, PTL DEF Spec

-----------------------------------------------------------------------------
(* The refinement.  A walk of the list meets the live sessions. *)
LEMMA ListedUnfolds ==
  ASSUME ListInv
  PROVE  \E at : /\ Listed = {at[n] : n \in 0..MaxSessions} \ {NULL}
                 /\ at[0] = first
                 /\ \A n \in Nat : n + 1 <= MaxSessions =>
                      at[n + 1] = IF at[n] = NULL THEN NULL ELSE next[at[n]]
<1> DEFINE Step(x) == IF x = NULL THEN NULL ELSE next[x]
           F == [x \in Pointer |-> Step(x)]
           P(g) == g = [n \in 0..MaxSessions |-> IF n = 0 THEN first ELSE Step(g[n - 1])]
           at == CHOOSE g : P(g)
           z == first
<1> USE SessionsAreNumbers
<1>1. z \in Pointer /\ F \in [Pointer -> Pointer] /\ \A x \in Pointer : F[x] = Step(x)
  <2>1. live \subseteq Session
    BY DEF ListInv, ListTypeOK, Session
  <2>2. first \in Pointer /\ \A x \in Pointer : Step(x) \in Pointer
    BY <2>1 DEF ListInv, ListTypeOK, Pointer
  <2> QED BY <2>2
<1> HIDE DEF F, Step, z
<1>2. PICK h \in [Nat -> Pointer] : h[0] = z /\ \A n \in Nat \ {0} : h[n] = F[h[n - 1]]
  BY <1>1, Recursion
<1>3. P([n \in 0..MaxSessions |-> h[n]])
  <2>1. ASSUME NEW n \in 0..MaxSessions, n # 0
        PROVE  n - 1 \in 0..MaxSessions /\ h[n] = Step(h[n - 1])
    <3>1. n \in Nat \ {0} /\ n - 1 \in 0..MaxSessions /\ n - 1 \in Nat
      BY <2>1
    <3> QED BY <1>1, <1>2, <3>1
  <2> QED BY <1>2, <2>1 DEF z
<1>4. P(at)
  <2> HIDE DEF P
  <2> QED BY <1>3
<1>5. Listed = {at[n] : n \in 0..MaxSessions} \ {NULL}
  BY DEF Listed, Step
<1> HIDE DEF at
<1>6. at[0] = first
  <2>1. 0 \in 0..MaxSessions
    OBVIOUS
  <2> QED BY <1>4, <2>1, Zenon
<1>7. ASSUME NEW n \in Nat, n + 1 <= MaxSessions PROVE at[n + 1] = Step(at[n])
  <2>1. n + 1 \in 0..MaxSessions /\ n + 1 # 0 /\ (n + 1) - 1 = n
    BY <1>7
  <2>2. at[n + 1] = IF n + 1 = 0 THEN first ELSE Step(at[(n + 1) - 1])
    BY <1>4, <2>1, Zenon
  <2> QED BY <2>1, <2>2
<1> QED BY <1>5, <1>6, <1>7 DEF Step

LEMMA ListedIsLive == ListInv => Listed = live
<1> SUFFICES ASSUME ListInv PROVE Listed = live
  OBVIOUS
<1> USE SessionsAreNumbers
<1>1. PICK at : /\ Listed = {at[n] : n \in 0..MaxSessions} \ {NULL}
                /\ at[0] = first
                /\ \A n \in Nat : n + 1 <= MaxSessions =>
                     at[n + 1] = IF at[n] = NULL THEN NULL ELSE next[at[n]]
  BY ListedUnfolds
<1>2. live \subseteq Session /\ NULL \notin live /\ first \in live \cup {NULL}
      /\ next \in [Session -> live \cup {NULL}]
  <2>1. live \subseteq Session
    BY DEF ListInv, ListTypeOK, Session
  <2> QED BY <2>1 DEF ListInv, ListTypeOK
<1>3. \A n \in 0..MaxSessions : at[n] \in live \cup {NULL}
  <2> DEFINE T == {n \in Nat : n <= MaxSessions => at[n] \in live \cup {NULL}}
  <2>1. 0 \in T
    BY <1>1, <1>2
  <2>2. ASSUME NEW n \in Nat, n \in T PROVE n + 1 \in T
    <3> SUFFICES ASSUME n + 1 <= MaxSessions PROVE at[n + 1] \in live \cup {NULL}
      OBVIOUS
    <3>1. at[n] \in live \cup {NULL} /\ at[n + 1] = IF at[n] = NULL THEN NULL ELSE next[at[n]]
      BY <1>1, <2>2
    <3>2. CASE at[n] = NULL
      BY <3>1, <3>2
    <3>3. CASE at[n] # NULL
      <4>1. at[n] \in Session
        BY <1>2, <3>1, <3>3
      <4> QED BY <1>2, <3>1, <3>3, <4>1
    <3> QED BY <3>2, <3>3
  <2>3. Nat \subseteq T
    <3> HIDE DEF T
    <3> QED BY <2>1, <2>2, EveryNumber
  <2> QED BY <2>3
(* The n-th session made is at most the n-th on the list. *)
<1>4. ASSUME NEW s \in live PROVE \E n \in Nat : n < s /\ at[n] = s
  <2> DEFINE S == {x \in live : \A n \in Nat : n < x => at[n] # x}
  <2>1. SUFFICES ASSUME S # {} PROVE FALSE
    OBVIOUS
  <2>2. PICK x \in S : \A y \in S : x <= y
    <3>1. S \in SUBSET Nat
      BY <1>2
    <3> HIDE DEF S
    <3> QED BY <2>1, <3>1, Least
  <2>3. x \in live /\ x \in Nat /\ InPlace(x) /\ 0 < x
    BY <1>2 DEF ListInv, ListIsLive, Session
  <2>4. x # first
    BY <1>1, <2>3
  <2> DEFINE p == prev[x]
  <2>5. p \in live /\ p \in Nat /\ Adjacent(p, x) /\ p < x
    BY <1>2, <2>3, <2>4 DEF InPlace, Adjacent
  <2>6. next[p] = x
    <3>1. InPlace(p) /\ InPlace(last) /\ x <= last /\ last \in live /\ last \in Nat
      BY <1>2, <2>3, <2>5 DEF ListInv, ListIsLive, InPlace
    <3>2. p # last
      BY <2>3, <2>5, <3>1
    <3>3. next[p] \in live /\ Adjacent(p, next[p])
      BY <3>1, <3>2 DEF InPlace
    <3>4. live \subseteq Nat
      BY <1>2
    <3> QED BY <2>3, <2>5, <3>3, <3>4, NeighboursAreUnique
  <2> HIDE DEF p
  <2>7. PICK n \in Nat : n < p /\ at[n] = p
    <3>1. ~(x <= p)
      BY <2>3, <2>5
    <3>2. p \notin S
      <4> HIDE DEF S
      <4> QED BY <2>2, <3>1
    <3> QED BY <2>5, <3>2
  <2>8. n + 1 <= MaxSessions /\ n + 1 < x
    <3>1. x <= MaxSessions
      BY <1>2, <2>3 DEF Session
    <3> QED BY <2>3, <2>5, <2>7, <3>1
  <2>9. at[n + 1] = x
    BY <1>1, <1>2, <2>5, <2>6, <2>7, <2>8
  <2> QED BY <2>2, <2>8, <2>9
<1>5. ASSUME NEW s \in live PROVE s \in Listed
  <2>1. PICK n \in Nat : n < s /\ at[n] = s
    BY <1>4
  <2>2. n \in 0..MaxSessions /\ s # NULL
    BY <1>2, <2>1 DEF Session
  <2> QED BY <1>1, <2>1, <2>2
<1> QED BY <1>1, <1>3, <1>5

(* SessionDB implements SessionRegistry: whoever walks the list from first      *)
(* sees a registry in which each create() enters one session, at the end, and   *)
(* each remove() takes out the one that it is for (session.cpp).               *)
THEOREM RegistryRefined == Spec => ImplementsRegistry
<1> DEFINE Same == Listed = live
<1>1. ListInv => Same
  BY ListedIsLive
<1>2. Init /\ Same => Registry!RegistryInit
  BY DEF Init, Registry!RegistryInit
<1>3. Same /\ Same' /\ [Next]_vars => [Registry!RegistryNext]_(Registry!registryVars)
  <2> SUFFICES ASSUME Same, Same', [Next]_vars
               PROVE  [Registry!RegistryNext]_(Registry!registryVars)
    OBVIOUS
  <2>1. ASSUME NEW h \in Key, Create(h) PROVE Registry!Register
    BY <2>1 DEF Create, Registry!Register
  <2>2. ASSUME NEW s \in Session, Remove(s) PROVE Registry!Unregister(s)
    BY <2>2 DEF Remove, Registry!Unregister
  <2>3. CASE UNCHANGED vars
    BY <2>3 DEF vars, Registry!registryVars
  <2>4. Session = Registry!Session
    BY DEF Session, Registry!Session
  <2> QED BY <2>1, <2>2, <2>3, <2>4 DEF Next, Registry!RegistryNext
<1> HIDE DEF Same
<1> QED BY <1>1, <1>2, <1>3, ListInvInit, ListInvStep, PTL
        DEF Spec, ImplementsRegistry, Registry!RegistrySpec
=============================================================================
