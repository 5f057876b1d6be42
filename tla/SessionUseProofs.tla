---------------------------- MODULE SessionUseProofs ----------------------------
(***************************************************************************)
(* The sessions in use, for any number of workers and sessions: a session is *)
(* never deleted under a thread that updates it, inuse counts its claims, and *)
(* the sweep chooses none that a worker holds, but for the two exceptions     *)
(* that raced and uncounted name.                                            *)
(*                                                                         *)
(* ClaimAccounting is not inductive: the value to store was loaded earlier.   *)
(* UpdatersAgree adds what makes that value right when it is stored.         *)
(***************************************************************************)
EXTENDS SessionUse, FiniteSetTheorems, TLAPS

LEMMA Numbers ==
  MaxSessions \in Nat /\ IdleLimit \in Nat /\ NULL \notin Session /\ Session \subseteq Nat
BY MaxSessionsAssumption, SessionUseAssumption DEF Session, NULL

LEMMA EarliestIsMember ==
  ASSUME NEW S
  PROVE  Earliest(S) \in S \cup {NULL}
BY DEF Earliest

-----------------------------------------------------------------------------
(* Every variable keeps its type, and a thread that shares lck keeps its      *)
(* session: TypeOK and SharedIsProtected need one another, since a release    *)
(* updates a session that must still be there.                               *)
SafeInv == TypeOK /\ SharedIsProtected

LEMMA SafeInvInit == Init => SafeInv
<1> SUFFICES ASSUME Init PROVE SafeInv
  OBVIOUS
<1> USE Numbers
<1>1. RegistryTypeOK /\ age \in [Session -> 0..Stale]
  BY DEF Init, RegistryInit, RegistryTypeOK, Stale
<1>2. /\ inuse \in [Session -> Int] /\ leaks \in [Session -> Nat]
      /\ stuck \in [Session -> {"free", "read", "write"}]
      /\ known \subseteq live /\ due \subseteq live /\ raced \subseteq live
      /\ uncounted \subseteq Worker
  BY DEF Init
<1>3. /\ pc \in [Worker -> Place] /\ cs \in [Worker -> 0..created] /\ reg \in [Worker -> Int]
      /\ \A w \in Worker : cs[w] = NULL /\ pc[w] = "idle"
  BY DEF Init, RegistryInit, Place, NULL
<1>4. xpc \in {"wait", "enter", "scan", "remove"} /\ xcur \in 0..created /\ xnext \in 0..created
  BY DEF Init, RegistryInit, NULL
<1>6. xlocked \in BOOLEAN
  BY DEF Init
<1>5. SharedIsProtected
  BY <1>3 DEF SharedIsProtected, InShared
<1> QED BY <1>1, <1>2, <1>3, <1>4, <1>5, <1>6 DEF SafeInv, TypeOK

(* What deleting a session, with nobody sharing lck, does to the types. *)
LEMMA DeleteKeepsTypes ==
  ASSUME TypeOK, NEW s \in Session, Delete(s)
  PROVE  /\ RegistryTypeOK' /\ created' = created
         /\ inuse' \in [Session -> Int] /\ leaks' \in [Session -> Nat]
         /\ age' \in [Session -> 0..Stale]
         /\ stuck' \in [Session -> {"free", "read", "write"}]
         /\ known' \subseteq live' /\ due' \subseteq live' /\ raced' \subseteq live'
BY Numbers DEF TypeOK, RegistryTypeOK, Delete, Unregister, Stale

LEMMA SafeInvStep == SafeInv /\ [Next]_vars => SafeInv'
<1> SUFFICES ASSUME SafeInv, [Next]_vars PROVE SafeInv'
  OBVIOUS
<1> USE Numbers
<1>t. TypeOK /\ SharedIsProtected
  BY DEF SafeInv
<1>s. \A w \in Worker : pc[w] # "idle" => cs[w] \in Session
  BY <1>t DEF TypeOK, RegistryTypeOK, Session, NULL
<1>l. live \subseteq Session /\ created \in Nat
  BY <1>t DEF TypeOK, RegistryTypeOK, Session
<1>1. ASSUME NEW w \in Worker, Bind(w) PROVE SafeInv'
  <2>1. created + 1 \in Session /\ created' = created + 1 /\ live' = live \cup {created + 1}
    BY <1>1, <1>l DEF Bind, Register, Session
  <2>2. TypeOK'
    BY <1>1, <1>t, <1>l, <2>1 DEF Bind, Register, TypeOK, RegistryTypeOK, InuseOfNew, Goto, Place,
                        Claiming, sweepVars, NULL, Stale
  <2>3. SharedIsProtected'
    BY <1>1, <1>t, <2>1 DEF Bind, SharedIsProtected, InShared, Goto, sweepVars, TypeOK, MayExclude
  <2> QED BY <2>2, <2>3 DEF SafeInv
<1>2. ASSUME NEW w \in Worker, Login(w) PROVE SafeInv'
  BY <1>2, <1>t DEF Login, SafeInv, TypeOK, RegistryTypeOK, registryVars, SharedIsProtected,
                    InShared, Goto, Place, Claiming, sweepVars
<1>3. ASSUME NEW w \in Worker, NEW s \in Session, Get(w, s) PROVE SafeInv'
  BY <1>3, <1>t DEF Get, Load, SafeInv, TypeOK, RegistryTypeOK, registryVars, SharedIsProtected,
                    InShared, Goto, Place, Claiming, sweepVars, MayShare
<1>4. ASSUME NEW w \in Worker, Claim(w) PROVE SafeInv'
  BY <1>4, <1>t, <1>s, SessionUseAssumption
     DEF Claim, SafeInv, TypeOK, RegistryTypeOK, registryVars, SharedIsProtected,
         InShared, Goto, Place, Claiming, sweepVars
<1>5. ASSUME NEW w \in Worker, NEW from \in Claiming \ {"lower", "unclaim"},
             NEW to \in Claiming \ {"lower", "unclaim"}, Step(w, from, to), known' \subseteq live'
      PROVE  SafeInv'
  BY <1>5, <1>t DEF Step, SafeInv, TypeOK, RegistryTypeOK, registryVars, SharedIsProtected,
                    InShared, Goto, Place, Claiming, sweepVars
<1>6. ASSUME NEW w \in Worker, Throw(w) \/ File(w) PROVE SafeInv'
  BY <1>6, <1>t, <1>s
     DEF Throw, File, Finish, SafeInv, TypeOK, RegistryTypeOK, registryVars, SharedIsProtected,
         InShared, Goto, Place, Claiming, sweepVars, NULL
<1>7. ASSUME NEW w \in Worker, BeginRelease(w) PROVE SafeInv'
  <2>1. /\ cs[w] \in Session /\ cs[w] \in live /\ ~xlocked
        /\ age' \in [Session -> 0..Stale] /\ due' \subseteq live
        /\ UNCHANGED <<registryVars, inuse, stuck, sweepVars, leaks, raced>>
    BY <1>7, <1>t, <1>s DEF BeginRelease, MayShare, TypeOK, Stale
  <2>2. CASE Goto(w, "lower") /\ UNCHANGED <<known, cs, reg, uncounted>>
    <3>1. /\ pc' \in [Worker -> Place]
          /\ \A v \in Worker : cs'[v] = NULL <=> pc'[v] = "idle"
      BY <1>7, <1>t, <2>2 DEF BeginRelease, TypeOK, Goto, Place, Claiming
    <3>2. TypeOK'
      BY <1>t, <2>1, <2>2, <3>1 DEF TypeOK, RegistryTypeOK, registryVars, sweepVars
    <3>3. SharedIsProtected'
      BY <1>t, <2>1, <2>2 DEF SharedIsProtected, InShared, Goto, TypeOK, registryVars, sweepVars
    <3> QED BY <3>2, <3>3 DEF SafeInv
  <2>3. CASE Finish(w) /\ known' = known \cup {cs[w]}
    <3>3. /\ pc' \in [Worker -> Place] /\ cs' \in [Worker -> 0..created]
          /\ reg' \in [Worker -> Int] /\ uncounted' \subseteq Worker
          /\ \A v \in Worker : cs'[v] = NULL <=> pc'[v] = "idle"
      BY <1>t, <1>l, <2>3 DEF Finish, TypeOK, Goto, Place, NULL
    <3>1. TypeOK'
      BY <1>t, <2>1, <2>3, <3>3 DEF TypeOK, RegistryTypeOK, registryVars, sweepVars
    <3>2. SharedIsProtected'
      BY <1>t, <2>1, <2>3
         DEF Finish, SharedIsProtected, InShared, Goto, TypeOK, registryVars, sweepVars
    <3> QED BY <3>1, <3>2 DEF SafeInv
  <2> QED BY <1>7, <2>2, <2>3 DEF BeginRelease
<1>b. ASSUME NEW w \in Worker, Lower(w) PROVE SafeInv'
  <2>1. cs[w] \in Session /\ cs[w] \in live /\ inuse[cs[w]] \in Int
    BY <1>b, <1>t, <1>s DEF Lower, TypeOK, SharedIsProtected, InShared
  <2>2. reg' \in [Worker -> Int] /\ raced' \subseteq live'
    BY <1>b, <1>t, <2>1 DEF Lower, Load, TypeOK, registryVars
  <2>3. TypeOK'
    BY <1>b, <1>t, <2>2
       DEF Lower, TypeOK, RegistryTypeOK, registryVars, Goto, Place, Claiming, sweepVars
  <2>4. SharedIsProtected'
    BY <1>b, <1>t, <2>1
       DEF Lower, SharedIsProtected, InShared, Goto, TypeOK, registryVars, sweepVars
  <2> QED BY <2>3, <2>4 DEF SafeInv
<1>8. ASSUME NEW w \in Worker, Release(w) PROVE SafeInv'
  <2>1. cs[w] \in Session /\ cs[w] \in live /\ LoweredInuse(w) \in Int
    BY <1>8, <1>t, <1>s DEF Release, LoweredInuse, TypeOK, SharedIsProtected, InShared
  <2>2. inuse' \in [Session -> Int] /\ raced' \subseteq live' /\ known' \subseteq live'
    BY <1>8, <1>t, <2>1 DEF Release, TypeOK, registryVars
  <2>3. TypeOK'
    BY <1>8, <1>t, <2>2
       DEF Release, Finish, TypeOK, RegistryTypeOK, registryVars, Goto, Place, Claiming,
           sweepVars, NULL
  <2>4. SharedIsProtected'
    BY <1>8, <1>t
       DEF Release, Finish, SharedIsProtected, InShared, Goto, TypeOK, registryVars, sweepVars
  <2> QED BY <2>3, <2>4 DEF SafeInv
<1>9. ASSUME NEW w \in Worker, Remove(w) PROVE SafeInv'
  <2>1. cs[w] \in Session
    BY <1>9, <1>s DEF Remove
  <2>2. TypeOK'
    <3>1. Delete(cs[w]) /\ Finish(w) /\ UNCHANGED sweepVars
      BY <1>9 DEF Remove
    <3>2. /\ RegistryTypeOK' /\ created' = created
          /\ inuse' \in [Session -> Int] /\ leaks' \in [Session -> Nat]
          /\ age' \in [Session -> 0..Stale]
          /\ stuck' \in [Session -> {"free", "read", "write"}]
          /\ known' \subseteq live' /\ due' \subseteq live' /\ raced' \subseteq live'
      BY ONLY <3>1, <1>t, <2>1, DeleteKeepsTypes
    <3>3. /\ pc' \in [Worker -> Place] /\ cs' \in [Worker -> 0..created] /\ reg' \in [Worker -> Int]
          /\ uncounted' \subseteq Worker
          /\ \A v \in Worker : cs'[v] = NULL <=> pc'[v] = "idle"
      BY <3>1, <1>t, <1>l DEF Finish, TypeOK, Goto, Place, NULL
    <3> QED BY <3>1, <3>2, <3>3, <1>t DEF TypeOK, sweepVars
  <2>3. SharedIsProtected'
    BY <1>9, <1>t DEF Remove, MayExclude, Finish, SharedIsProtected, InShared, Goto, TypeOK
  <2> QED BY <2>2, <2>3 DEF SafeInv
<1>10. ASSUME NEW w \in Worker, Dangle(w) PROVE SafeInv'
  BY <1>10, <1>t
     DEF Dangle, Finish, SafeInv, TypeOK, RegistryTypeOK, registryVars, SharedIsProtected,
         InShared, Goto, Place, Claiming, sweepVars, NULL
<1>11. CASE SweepStart
  BY <1>11, <1>t DEF SweepStart, SafeInv, TypeOK, RegistryTypeOK, registryVars, workerVars,
                     SharedIsProtected, InShared
<1>12. CASE SweepEnter
  <2>1. First \in 0..created
    <3>1. First \in live \cup {NULL}
      BY EarliestIsMember DEF First
    <3> QED BY <3>1, <1>t DEF TypeOK, RegistryTypeOK, NULL
  <2> QED BY <1>12, <1>t, <2>1
     DEF SweepEnter, SafeInv, TypeOK, RegistryTypeOK, registryVars, workerVars,
         SharedIsProtected, InShared, MayExclude
<1>a. Onward(xcur) \in 0..created
  <2>1. Onward(xcur) \in live \cup {NULL}
    BY EarliestIsMember DEF Onward, After
  <2>2. live \subseteq 0..created /\ NULL \in 0..created
    BY <1>t, <1>l DEF TypeOK, RegistryTypeOK, NULL
  <2> QED BY <2>1, <2>2
<1>13. CASE SweepPass
  BY <1>13, <1>t, <1>a DEF SweepPass, SafeInv, TypeOK, RegistryTypeOK, registryVars, workerVars,
                     SharedIsProtected, InShared
<1>14. CASE SweepDrop
  BY <1>14, <1>t, <1>a DEF SweepDrop, SafeInv, TypeOK, RegistryTypeOK, registryVars, workerVars,
                     SharedIsProtected, InShared
<1>15. CASE SweepRemove
  <2>1. SharedIsProtected'
    BY <1>15, <1>t DEF SweepRemove, workerVars, MayExclude, SharedIsProtected, InShared
  <2>2. CASE xcur \in live
    BY <1>15, <1>t, <1>l, <2>1, <2>2, DeleteKeepsTypes
       DEF SweepRemove, SafeInv, TypeOK, workerVars, NULL
  <2>3. CASE xcur \notin live
    <3>1. UNCHANGED <<registryVars, inuse, age, stuck, known, due, leaks, raced, workerVars,
                      uncounted>>
      BY <1>15, <2>3 DEF SweepRemove
    <3>2. xpc' = "scan" /\ xlocked' = xlocked /\ xcur' = xnext /\ xnext' = NULL
      BY <1>15 DEF SweepRemove
    <3> QED BY <1>t, <2>1, <3>1, <3>2
       DEF SafeInv, TypeOK, RegistryTypeOK, registryVars, workerVars, NULL
  <2> QED BY <2>2, <2>3
<1>16. CASE SweepDangle
  BY <1>16, <1>t DEF SweepDangle, SafeInv, TypeOK, RegistryTypeOK, registryVars, workerVars,
                     SharedIsProtected, InShared, NULL
<1>17. CASE SweepEnd
  BY <1>17, <1>t DEF SweepEnd, SafeInv, TypeOK, RegistryTypeOK, registryVars, workerVars,
                     SharedIsProtected, InShared
<1>18. CASE Tick
  BY <1>18, <1>t DEF Tick, SafeInv, TypeOK, RegistryTypeOK, registryVars, workerVars, sweepVars,
                     SharedIsProtected, InShared, Stale
<1>19. CASE UNCHANGED vars
  BY <1>19, <1>t DEF vars, SafeInv, TypeOK, RegistryTypeOK, registryVars, workerVars, sweepVars,
                     SharedIsProtected, InShared
<1>20. ASSUME NEW w \in Worker, WorkerStep(w) PROVE SafeInv'
  <2>1. live \subseteq live /\ known \subseteq live
    BY <1>t DEF TypeOK
  <2>2. CASE Plain(w) \/ TakeRead(w) \/ TakeWrite(w) \/ EndRead(w) \/ EndWrite(w)
    <3>1. known' \subseteq live'
      BY <2>1, <2>2 DEF Plain, TakeRead, TakeWrite, EndRead, EndWrite, Step, registryVars
    <3> QED BY <2>2, <3>1, <1>5 DEF Plain, TakeRead, TakeWrite, EndRead, EndWrite, Claiming
  <2> QED BY <1>20, <1>1, <1>2, <1>3, <1>4, <1>6, <1>7, <1>b, <1>8, <1>9, <1>10, <2>2
          DEF WorkerStep
<1> QED BY <1>11, <1>12, <1>13, <1>14, <1>15, <1>16, <1>17, <1>18, <1>19, <1>20
        DEF Next, SweepStep

-----------------------------------------------------------------------------
(* Counting claims: one worker moves at a time. *)
OthersStay(w) == \A v \in Worker \ {w} : pc'[v] = pc[v] /\ cs'[v] = cs[v]

Count(s) == Cardinality(Claimants(s) \ uncounted)

LEMMA CountIsNat == \A S \in SUBSET Worker : IsFiniteSet(S) /\ Cardinality(S) \in Nat
BY SessionUseAssumption, FS_Subset, FS_CardinalityType

LEMMA ClaimKept ==
  ASSUME NEW w \in Worker, NEW s, OthersStay(w), At(w, s, Claiming)' <=> At(w, s, Claiming)
  PROVE  Claimants(s)' = Claimants(s)
BY DEF Claimants, OthersStay, At

LEMMA ClaimMade ==
  ASSUME NEW w \in Worker, NEW s, OthersStay(w), At(w, s, Claiming)', ~At(w, s, Claiming)
  PROVE  Claimants(s)' = Claimants(s) \cup {w} /\ w \notin Claimants(s)
BY DEF Claimants, OthersStay, At

LEMMA ClaimGone ==
  ASSUME NEW w \in Worker, NEW s, OthersStay(w), ~At(w, s, Claiming)', At(w, s, Claiming)
  PROVE  Claimants(s)' = Claimants(s) \ {w} /\ w \in Claimants(s)
BY DEF Claimants, OthersStay, At

-----------------------------------------------------------------------------
(* UpdatersAgree and ClaimAccounting, action by action.  Each lemma has the   *)
(* types of both states from SafeInvStep.                                    *)
AcctInv == UpdatersAgree /\ ClaimAccounting

LEMMA UseInvFacts ==
  ASSUME UseInv
  PROVE  /\ live \subseteq Session /\ created \in Nat /\ created + 1 \notin live
         /\ pc \in [Worker -> Place] /\ cs \in [Worker -> 0..created]
         /\ \A w \in Worker : pc[w] # "idle" => cs[w] \in Session
         /\ \A w \in Worker : pc[w] = "idle" => cs[w] = NULL /\ w \notin uncounted
         /\ \A w \in Worker : InShared(w) => cs[w] \in live
         /\ uncounted \subseteq Worker /\ IsFiniteSet(Worker)
<1> USE Numbers
<1>1. live \subseteq Session /\ created \in Nat /\ created + 1 \notin live
  BY DEF UseInv, TypeOK, RegistryTypeOK, Session
<1>2. pc \in [Worker -> Place] /\ cs \in [Worker -> 0..created] /\ uncounted \subseteq Worker
  BY DEF UseInv, TypeOK
<1>3. \A w \in Worker : pc[w] # "idle" => cs[w] \in Session
  BY <1>2 DEF UseInv, TypeOK, RegistryTypeOK, Session, NULL
<1>4. \A w \in Worker : pc[w] = "idle" => cs[w] = NULL /\ w \notin uncounted
  BY DEF UseInv, TypeOK, UpdatersAgree
<1>5. \A w \in Worker : InShared(w) => cs[w] \in live
  BY DEF UseInv, SharedIsProtected
<1> QED BY <1>1, <1>2, <1>3, <1>4, <1>5, SessionUseAssumption

AcctFacts ==
  /\ \A v, u \in Worker :
        /\ HasLoaded(v) /\ HasLoaded(u) /\ cs[v] = cs[u] /\ cs[v] \notin raced => v = u
  /\ \A v \in Worker : HasLoaded(v) /\ cs[v] \notin raced => reg[v] = inuse[cs[v]]
  /\ \A v \in uncounted : pc[v] \in {"login", "remove", "release", "lower", "unclaim"}
  /\ \A s \in Session \ live : leaks[s] = 0
  /\ \A s \in live \ raced : inuse[s] = Cardinality(Claimants(s) \ uncounted) + leaks[s]
  /\ inuse \in [Session -> Int] /\ leaks \in [Session -> Nat]

LEMMA AcctFactsHold == UseInv => AcctFacts
BY DEF UseInv, UpdatersAgree, ClaimAccounting, TypeOK, AcctFacts

LEMMA AcctBind ==
  ASSUME UseInv, NEW w \in Worker, Bind(w)
  PROVE  AcctInv'
<1> DEFINE n == created + 1
<1> USE Numbers, UseInvFacts DEF AcctFacts
<1>1. /\ n \in Session /\ n \notin live /\ live' = live \cup {n} /\ pc[w] = "idle"
      /\ pc' = [pc EXCEPT ![w] = "login"] /\ cs' = [cs EXCEPT ![w] = n]
      /\ inuse' = [inuse EXCEPT ![n] = IF live = {} THEN 0 ELSE 1]
      /\ uncounted' = IF live = {} THEN uncounted \cup {w} ELSE uncounted
      /\ reg' = reg /\ leaks' = leaks /\ raced' = raced
  BY DEF Bind, Register, Goto, Session, InuseOfNew
<1>2. OthersStay(w)
  BY <1>1 DEF OthersStay
<1>3. AcctFacts
  BY AcctFactsHold
<1>4. UpdatersAgree'
  <2>1. \A v \in Worker : HasLoaded(v)' => v # w /\ HasLoaded(v) /\ cs'[v] = cs[v] /\ cs[v] # n
    BY <1>1, <1>2 DEF HasLoaded, OthersStay
  <2>2. \A v \in Worker : HasLoaded(v)' => inuse'[cs[v]] = inuse[cs[v]]
    BY <1>1, <1>3, <2>1
  <2>3. \A v \in uncounted' : pc'[v] \in {"login", "remove", "release", "lower", "unclaim"}
    BY <1>1, <1>2, <1>3 DEF OthersStay
  <2> QED BY <1>1, <1>3, <2>1, <2>2, <2>3 DEF UpdatersAgree
<1>5. ClaimAccounting'
  <2> SUFFICES ASSUME NEW s \in live' \ raced'
               PROVE  inuse'[s] = Cardinality(Claimants(s)' \ uncounted') + leaks'[s]
    BY DEF ClaimAccounting
  <2>1. CASE s = n
    <3>1. Claimants(s)' = {w}
      BY <1>1, <1>2, <2>1 DEF Claimants, At, OthersStay, Claiming
    <3>2. CASE live = {}
      <4>1. Claimants(s)' \ uncounted' = {}
        BY <3>1, <3>2, <1>1
      <4>2. inuse'[s] = 0 /\ leaks'[s] = 0
        BY <1>1, <1>3, <2>1, <3>2
      <4>3. Cardinality(Claimants(s)' \ uncounted') = 0
        BY <4>1, FS_EmptySet, Zenon
      <4> QED BY ONLY <4>2, <4>3
    <3>3. CASE live # {}
      <4>1. Claimants(s)' \ uncounted' = {w}
        BY <3>1, <3>3, <1>1
      <4>2. inuse'[s] = 1 /\ leaks'[s] = 0
        BY <1>1, <1>3, <2>1, <3>3
      <4>3. Cardinality({w}) = 1
        BY FS_Singleton
      <4>4. Cardinality(Claimants(s)' \ uncounted') = 1
        BY <4>1, <4>3, Zenon
      <4> QED BY ONLY <4>2, <4>4
    <3> QED BY <3>2, <3>3
  <2>2. CASE s # n
    <3>1. s \in live \ raced /\ inuse'[s] = inuse[s]
      BY <1>1, <1>3, <2>2
    <3>2. ~At(w, s, Claiming) /\ ~At(w, s, Claiming)'
      BY <1>1, <2>2 DEF At, Claiming
    <3>3. Claimants(s)' = Claimants(s) /\ w \notin Claimants(s)
      BY <1>2, <3>2, ClaimKept DEF Claimants
    <3>4. Claimants(s)' \ uncounted' = Claimants(s) \ uncounted
      BY <1>1, <3>3
    <3> QED BY <1>1, <1>3, <3>1, <3>4
  <2> QED BY <2>1, <2>2
<1> QED BY <1>4, <1>5 DEF AcctInv

(* A step of a worker that stays on its session and touches no count. *)
LEMMA AcctMove ==
  ASSUME UseInv, NEW w \in Worker, NEW from, NEW to,
         from \in Claiming \ {"lower", "unclaim"}, to \in Claiming \ {"lower", "unclaim"},
         from = "login" => to \in {"release", "remove"},
         from \notin {"remove", "release"},
         pc[w] = from, pc' = [pc EXCEPT ![w] = to],
         UNCHANGED <<live, inuse, cs, reg, leaks, raced, uncounted>>
  PROVE  AcctInv'
<1> USE Numbers, UseInvFacts DEF AcctFacts
<1>1. AcctFacts
  BY AcctFactsHold
<1>2. \A v \in Worker : HasLoaded(v)' <=> HasLoaded(v)
  BY DEF HasLoaded, Claiming
<1>3. UpdatersAgree'
  <2>1. \A v \in uncounted : pc'[v] \in {"login", "remove", "release", "lower", "unclaim"}
    BY <1>1 DEF Claiming
  <2>2. \A v, u \in Worker :
          /\ HasLoaded(v)' /\ HasLoaded(u)' /\ cs[v] = cs[u] /\ cs[v] \notin raced => v = u
    BY <1>1, <1>2
  <2>3. \A v \in Worker : HasLoaded(v)' /\ cs[v] \notin raced => reg[v] = inuse[cs[v]]
    BY <1>1, <1>2
  <2> QED BY <1>1, <2>1, <2>2, <2>3 DEF UpdatersAgree
<1>4. ClaimAccounting'
  <2>1. \A s : Claimants(s)' = Claimants(s)
    BY DEF Claimants, At
  <2> QED BY <1>1, <2>1 DEF ClaimAccounting
<1> QED BY <1>3, <1>4 DEF AcctInv

(* A step of the sweep or the clock that deletes nothing. *)
LEMMA AcctElsewhere ==
  ASSUME UseInv, UNCHANGED <<live, inuse, pc, cs, reg, leaks, raced, uncounted>>
  PROVE  AcctInv'
BY DEF UseInv, AcctInv, UpdatersAgree, ClaimAccounting, HasLoaded, Claimants, At

LEMMA AcctGet ==
  ASSUME UseInv, NEW w \in Worker, NEW s \in Session, Get(w, s)
  PROVE  AcctInv'
<1> USE Numbers, UseInvFacts DEF AcctFacts
<1>1. AcctFacts
  BY AcctFactsHold
<1>2. /\ pc[w] = "idle" /\ s \in live /\ w \notin uncounted /\ cs[w] = NULL /\ s # NULL
      /\ pc' = [pc EXCEPT ![w] = "claim"] /\ cs' = [cs EXCEPT ![w] = s]
      /\ reg' = [reg EXCEPT ![w] = inuse[s]]
      /\ raced' = IF \E v \in Worker : HasLoaded(v) /\ cs[v] = s
                  THEN raced \cup {s} ELSE raced
      /\ UNCHANGED <<live, inuse, leaks, uncounted>>
  BY DEF Get, Load, Goto, registryVars, UseInv, TypeOK
<1>3. reg \in [Worker -> Int]
  BY DEF UseInv, TypeOK
<1>4. UpdatersAgree'
  <2>1. \A v \in Worker \ {w} : /\ HasLoaded(v)' <=> HasLoaded(v)
                                /\ cs'[v] = cs[v] /\ reg'[v] = reg[v]
    BY <1>2, <1>3 DEF HasLoaded
  <2>2. cs'[w] = s /\ reg'[w] = inuse[s] /\ raced \subseteq raced'
    BY <1>2, <1>3
  <2>3. \A v \in Worker \ {w} : HasLoaded(v) /\ cs[v] = s => s \in raced'
    BY <1>2 DEF HasLoaded, At
  <2>4. \A v, u \in Worker :
          /\ HasLoaded(v)' /\ HasLoaded(u)' /\ cs'[v] = cs'[u] /\ cs'[v] \notin raced' => v = u
    BY <1>1, <2>1, <2>2, <2>3
  <2>5. \A v \in Worker : HasLoaded(v)' /\ cs'[v] \notin raced' => reg'[v] = inuse'[cs'[v]]
    BY <1>1, <1>2, <2>1, <2>2
  <2>6. \A v \in uncounted : pc'[v] = pc[v]
    BY <1>2
  <2> QED BY <1>1, <1>2, <2>4, <2>5, <2>6 DEF UpdatersAgree
<1>5. ClaimAccounting'
  <2>1. \A t : Claimants(t)' = Claimants(t)
    BY <1>2 DEF Claimants, At, Claiming
  <2>2. raced \subseteq raced'
    BY <1>2
  <2> QED BY <1>1, <1>2, <2>1, <2>2 DEF ClaimAccounting
<1> QED BY <1>4, <1>5 DEF AcctInv

LEMMA AcctClaim ==
  ASSUME UseInv, NEW w \in Worker, Claim(w)
  PROVE  AcctInv'
<1> DEFINE s == cs[w]
<1> USE Numbers, UseInvFacts DEF AcctFacts
<1>1. AcctFacts
  BY AcctFactsHold
<1>2. PICK place \in Command :
        /\ pc[w] = "claim"
        /\ pc' = [pc EXCEPT ![w] = place]
        /\ inuse' = [inuse EXCEPT ![s] = reg[w] + 1]
        /\ reg' = [reg EXCEPT ![w] = 0]
        /\ UNCHANGED <<live, cs, leaks, raced, uncounted>>
  BY DEF Claim, Goto, registryVars
<1>3. place \in Claiming \ {"lower", "unclaim"} /\ reg \in [Worker -> Int]
  BY SessionUseAssumption DEF Claiming, UseInv, TypeOK
<1>4. HasLoaded(w) /\ s \in live /\ s \in Session /\ w \notin uncounted
  BY <1>1, <1>2 DEF InShared, HasLoaded
<1>5. UpdatersAgree'
  <2>1. \A v \in Worker : HasLoaded(v)' => v # w /\ HasLoaded(v) /\ reg'[v] = reg[v]
    BY <1>2, <1>3 DEF HasLoaded, Claiming
  <2>2. \A v \in Worker : HasLoaded(v)' /\ cs[v] \notin raced => cs[v] # s
    BY <1>1, <1>4, <2>1
  <2>3. \A v \in Worker : HasLoaded(v)' /\ cs[v] \notin raced => reg'[v] = inuse'[cs[v]]
    BY <1>1, <1>2, <2>1, <2>2
  <2>4. \A v \in uncounted : pc'[v] = pc[v]
    BY <1>2, <1>4
  <2>5. \A v, u \in Worker :
          /\ HasLoaded(v)' /\ HasLoaded(u)' /\ cs[v] = cs[u] /\ cs[v] \notin raced => v = u
    BY <1>1, <2>1
  <2> QED BY <1>1, <1>2, <2>3, <2>4, <2>5 DEF UpdatersAgree
<1>6. ClaimAccounting'
  <2>0. OthersStay(w)
    BY <1>2 DEF OthersStay
  <2> SUFFICES ASSUME NEW t \in live \ raced
               PROVE  inuse'[t] = Cardinality(Claimants(t)' \ uncounted) + leaks[t]
    BY <1>2 DEF ClaimAccounting
  <2>1. CASE t = s
    <3>1. Claimants(t)' = Claimants(t) \cup {w} /\ w \notin Claimants(t)
      BY <1>2, <1>3, <2>0, <2>1, ClaimMade DEF At, Claiming
    <3>2. Claimants(t)' \ uncounted = (Claimants(t) \ uncounted) \cup {w}
      BY <3>1, <1>4
    <3> DEFINE C == Claimants(t) \ uncounted
    <3>3. IsFiniteSet(C) /\ Cardinality(C) \in Nat /\ w \notin C
      BY <3>1, CountIsNat DEF Claimants
    <3>4. Cardinality(C \cup {w}) = Cardinality(C) + 1
      BY <3>3, FS_AddElement
    <3>5. inuse[t] = Cardinality(C) + leaks[t] /\ inuse'[t] = inuse[t] + 1 /\ leaks[t] \in Nat
      BY <1>1, <1>2, <1>4, <2>1
    <3> HIDE DEF C
    <3>6. inuse'[t] = Cardinality(C \cup {w}) + leaks[t]
      BY ONLY <3>3, <3>4, <3>5
    <3> QED BY <3>2, <3>6 DEF C
  <2>2. CASE t # s
    <3>1. Claimants(t)' = Claimants(t)
      BY <1>2, <2>0, <2>2, ClaimKept DEF At
    <3> QED BY <1>1, <1>2, <2>2, <3>1
  <2> QED BY <2>1, <2>2
<1> QED BY <1>5, <1>6 DEF AcctInv

(* A claim moves from the workers to the lost ones. *)
LEMMA AcctLose ==
  ASSUME UseInv, NEW w \in Worker, Throw(w) \/ File(w)
  PROVE  AcctInv'
<1> DEFINE s == cs[w]
<1> USE Numbers, UseInvFacts DEF AcctFacts
<1>1. AcctFacts
  BY AcctFactsHold
<1>2. /\ pc[w] \in {"plain", "reading", "writing", "file"} /\ s \in live
      /\ pc' = [pc EXCEPT ![w] = "idle"] /\ cs' = [cs EXCEPT ![w] = NULL]
      /\ reg' = [reg EXCEPT ![w] = 0] /\ uncounted' = uncounted \ {w}
      /\ leaks' = [leaks EXCEPT ![s] = @ + 1]
      /\ UNCHANGED <<live, inuse, raced>>
  BY DEF Throw, File, Finish, Goto, registryVars
<1>3. w \notin uncounted /\ s \in Session /\ uncounted' = uncounted
  BY <1>1, <1>2
<1>4. reg \in [Worker -> Int]
  BY DEF UseInv, TypeOK
<1>5. UpdatersAgree'
  <2>1. \A v \in Worker : HasLoaded(v)' => /\ v # w /\ HasLoaded(v)
                                          /\ cs'[v] = cs[v] /\ reg'[v] = reg[v]
    BY <1>2, <1>4 DEF HasLoaded
  <2>2. \A v \in uncounted : pc'[v] = pc[v]
    BY <1>2, <1>3
  <2>3. \A t \in Session \ live : leaks'[t] = leaks[t]
    BY <1>2
  <2> QED BY <1>1, <1>2, <1>3, <2>1, <2>2, <2>3 DEF UpdatersAgree
<1>6. ClaimAccounting'
  <2>0. OthersStay(w)
    BY <1>2 DEF OthersStay
  <2> SUFFICES ASSUME NEW t \in live \ raced
               PROVE  inuse[t] = Cardinality(Claimants(t)' \ uncounted) + leaks'[t]
    BY <1>2, <1>3 DEF ClaimAccounting
  <2>1. CASE t = s
    <3> DEFINE C == Claimants(t) \ uncounted
    <3>1. Claimants(t)' = Claimants(t) \ {w} /\ w \in Claimants(t)
      BY <1>2, <2>0, <2>1, ClaimGone DEF At, Claiming
    <3>2. Claimants(t)' \ uncounted = C \ {w}
      BY <3>1
    <3>3. IsFiniteSet(C) /\ Cardinality(C) \in Nat /\ w \in C
      BY <3>1, <1>3, CountIsNat DEF Claimants
    <3>4. Cardinality(C \ {w}) = Cardinality(C) - 1
      BY <3>3, FS_RemoveElement
    <3>5. inuse[t] = Cardinality(C) + leaks[t] /\ leaks'[t] = leaks[t] + 1 /\ leaks[t] \in Nat
      BY <1>1, <1>2, <1>3, <2>1
    <3> HIDE DEF C
    <3>6. inuse[t] = Cardinality(C \ {w}) + leaks'[t]
      BY ONLY <3>3, <3>4, <3>5
    <3> QED BY <3>2, <3>6
  <2>2. CASE t # s
    <3>1. Claimants(t)' = Claimants(t)
      BY <1>2, <2>0, <2>2, ClaimKept DEF At, NULL, Claiming
    <3> QED BY <1>1, <1>2, <2>2, <3>1
  <2> QED BY <2>1, <2>2
<1> QED BY <1>5, <1>6 DEF AcctInv

(* A release that finds inuse at zero or below: the worker was not counted.   *)
LEMMA AcctBeginRelease ==
  ASSUME UseInv, NEW w \in Worker, BeginRelease(w)
  PROVE  AcctInv'
<1> DEFINE s == cs[w]
<1> USE Numbers, UseInvFacts DEF AcctFacts
<1>1. AcctFacts
  BY AcctFactsHold
<1>2. pc[w] = "release" /\ s \in live /\ UNCHANGED <<live, inuse, leaks, raced>>
  BY DEF BeginRelease, registryVars
<1>3. CASE inuse[s] > 0
  <2>1. pc' = [pc EXCEPT ![w] = "lower"] /\ UNCHANGED <<cs, reg, uncounted>>
    BY <1>3 DEF BeginRelease, Goto
  <2>2. UpdatersAgree'
    <3>1. \A v \in Worker : HasLoaded(v)' => HasLoaded(v)
      BY <2>1 DEF HasLoaded
    <3>2. \A v \in uncounted : pc'[v] \in {"login", "remove", "release", "lower", "unclaim"}
      BY <1>1, <2>1
    <3> QED BY <1>1, <1>2, <2>1, <3>1, <3>2 DEF UpdatersAgree
  <2>3. \A t : Claimants(t)' = Claimants(t)
    BY <1>2, <2>1 DEF Claimants, At, Claiming
  <2>4. ClaimAccounting'
    BY <1>1, <1>2, <2>1, <2>3 DEF ClaimAccounting
  <2> QED BY <2>2, <2>4 DEF AcctInv
<1>4. CASE ~(inuse[s] > 0)
  <2>1. /\ pc' = [pc EXCEPT ![w] = "idle"] /\ cs' = [cs EXCEPT ![w] = NULL]
        /\ reg' = [reg EXCEPT ![w] = 0] /\ uncounted' = uncounted \ {w}
    BY <1>4 DEF BeginRelease, Finish, Goto
  <2>2. reg \in [Worker -> Int]
    BY DEF UseInv, TypeOK
  <2>3. UpdatersAgree'
    <3>1. \A v \in Worker : HasLoaded(v)' => /\ v # w /\ HasLoaded(v)
                                            /\ cs'[v] = cs[v] /\ reg'[v] = reg[v]
      BY <2>1, <2>2 DEF HasLoaded
    <3>2. \A v \in uncounted' : v \in uncounted /\ pc'[v] = pc[v]
      BY <2>1
    <3> QED BY <1>1, <1>2, <3>1, <3>2 DEF UpdatersAgree
  <2>4. OthersStay(w)
    BY <2>1 DEF OthersStay
  <2>5. s \notin raced => w \in uncounted
    <3> SUFFICES ASSUME s \notin raced, w \notin uncounted PROVE FALSE
      OBVIOUS
    <3> DEFINE C == Claimants(s) \ uncounted
    <3>1. w \in C /\ IsFiniteSet(C) /\ Cardinality(C) \in Nat
      BY <1>2, CountIsNat DEF Claimants, At, Claiming
    <3>2. Cardinality(C) # 0
      BY <3>1, FS_EmptySet
    <3>3. inuse[s] = Cardinality(C) + leaks[s] /\ leaks[s] \in Nat
      BY <1>1, <1>2
    <3> HIDE DEF C
    <3> QED BY ONLY <1>4, <3>1, <3>2, <3>3
  <2>6. ClaimAccounting'
    <3> SUFFICES ASSUME NEW t \in live \ raced
                 PROVE  Claimants(t)' \ uncounted' = Claimants(t) \ uncounted
      BY <1>1, <1>2 DEF ClaimAccounting
    <3>1. CASE t = s
      <4>1. Claimants(t)' = Claimants(t) \ {w}
        BY <1>2, <2>1, <2>4, <3>1, ClaimGone DEF At, Claiming, NULL
      <4> QED BY <2>1, <2>5, <3>1, <4>1
    <3>2. CASE t # s
      <4>1. Claimants(t)' = Claimants(t) /\ w \notin Claimants(t)
        BY <2>1, <2>4, <3>2, ClaimKept DEF At, NULL, Claiming, Claimants
      <4> QED BY <2>1, <4>1
    <3> QED BY <3>1, <3>2
  <2> QED BY <2>3, <2>6 DEF AcctInv
<1> QED BY <1>3, <1>4

LEMMA AcctLower ==
  ASSUME UseInv, NEW w \in Worker, Lower(w)
  PROVE  AcctInv'
<1> DEFINE s == cs[w]
<1> USE Numbers, UseInvFacts DEF AcctFacts
<1>1. AcctFacts
  BY AcctFactsHold
<1>2. /\ pc[w] = "lower" /\ s \in live
      /\ pc' = [pc EXCEPT ![w] = "unclaim"]
      /\ reg' = [reg EXCEPT ![w] = inuse[s]]
      /\ raced' = IF \E v \in Worker : HasLoaded(v) /\ cs[v] = s
                  THEN raced \cup {s} ELSE raced
      /\ UNCHANGED <<live, cs, inuse, leaks, uncounted>>
  BY DEF Lower, Load, Goto, InShared, registryVars
<1>3. reg \in [Worker -> Int]
  BY DEF UseInv, TypeOK
<1>4. UpdatersAgree'
  <2>1. \A v \in Worker \ {w} : (HasLoaded(v)' <=> HasLoaded(v)) /\ reg'[v] = reg[v]
    BY <1>2, <1>3 DEF HasLoaded
  <2>2. reg'[w] = inuse[s] /\ raced \subseteq raced'
    BY <1>2, <1>3
  <2>3. \A v \in Worker \ {w} : HasLoaded(v) /\ cs[v] = s => s \in raced'
    BY <1>2 DEF HasLoaded
  <2>4. \A v, u \in Worker :
          /\ HasLoaded(v)' /\ HasLoaded(u)' /\ cs[v] = cs[u] /\ cs[v] \notin raced' => v = u
    BY <1>1, <2>1, <2>2, <2>3
  <2>5. \A v \in Worker : HasLoaded(v)' /\ cs[v] \notin raced' => reg'[v] = inuse'[cs[v]]
    BY <1>1, <1>2, <2>1, <2>2
  <2>6. \A v \in uncounted : pc'[v] \in {"login", "remove", "release", "lower", "unclaim"}
    BY <1>1, <1>2
  <2> QED BY <1>1, <1>2, <2>4, <2>5, <2>6 DEF UpdatersAgree
<1>5. ClaimAccounting'
  <2>1. \A t : Claimants(t)' = Claimants(t)
    BY <1>2 DEF Claimants, At, Claiming
  <2>2. raced \subseteq raced'
    BY <1>2
  <2> QED BY <1>1, <1>2, <2>1, <2>2 DEF ClaimAccounting
<1> QED BY <1>4, <1>5 DEF AcctInv

LEMMA AcctRelease ==
  ASSUME UseInv, NEW w \in Worker, Release(w)
  PROVE  AcctInv'
<1> DEFINE s == cs[w]
<1> USE Numbers, UseInvFacts DEF AcctFacts
<1>1. AcctFacts
  BY AcctFactsHold
<1>2. /\ pc[w] = "unclaim"
      /\ inuse' = [inuse EXCEPT ![s] = reg[w] - 1]
      /\ raced' = IF w \in uncounted THEN raced \cup {s} ELSE raced
      /\ pc' = [pc EXCEPT ![w] = "idle"] /\ cs' = [cs EXCEPT ![w] = NULL]
      /\ reg' = [reg EXCEPT ![w] = 0] /\ uncounted' = uncounted \ {w}
      /\ UNCHANGED <<live, leaks>>
  BY DEF Release, LoweredInuse, Finish, Goto, registryVars
<1>3. HasLoaded(w) /\ s \in live /\ s \in Session /\ reg \in [Worker -> Int]
  BY <1>2 DEF HasLoaded, InShared, UseInv, TypeOK
<1>4. raced \subseteq raced' /\ uncounted' \subseteq uncounted
  BY <1>2
<1>5. UpdatersAgree'
  <2>1. \A v \in Worker : HasLoaded(v)' => /\ v # w /\ HasLoaded(v)
                                          /\ cs'[v] = cs[v] /\ reg'[v] = reg[v]
    BY <1>2, <1>3 DEF HasLoaded
  <2>2. \A v \in Worker : HasLoaded(v)' /\ cs'[v] \notin raced' => cs[v] # s /\ cs[v] \notin raced
    BY <1>1, <1>3, <1>4, <2>1
  <2>3. \A v \in Worker : HasLoaded(v)' /\ cs'[v] \notin raced' => reg'[v] = inuse'[cs'[v]]
    BY <1>1, <1>2, <2>1, <2>2
  <2>4. \A v, u \in Worker :
          /\ HasLoaded(v)' /\ HasLoaded(u)' /\ cs'[v] = cs'[u] /\ cs'[v] \notin raced' => v = u
    BY <1>1, <1>4, <2>1
  <2>5. \A v \in uncounted' : v # w /\ v \in uncounted /\ pc'[v] = pc[v]
    BY <1>2
  <2> QED BY <1>1, <1>2, <2>3, <2>4, <2>5 DEF UpdatersAgree
<1>6. ClaimAccounting'
  <2>0. OthersStay(w)
    BY <1>2 DEF OthersStay
  <2> SUFFICES ASSUME NEW t \in live, t \notin raced'
               PROVE  inuse'[t] = Cardinality(Claimants(t)' \ uncounted') + leaks[t]
    BY <1>2 DEF ClaimAccounting
  <2>1. CASE t = s
    <3> DEFINE C == Claimants(t) \ uncounted
    <3>1. Claimants(t)' = Claimants(t) \ {w} /\ w \in Claimants(t)
      BY <1>2, <2>0, <2>1, ClaimGone DEF At, Claiming, NULL
    <3>2. Claimants(t)' \ uncounted' = C \ {w}
      BY <3>1, <1>2
    <3>3. IsFiniteSet(C) /\ Cardinality(C) \in Nat
      BY CountIsNat DEF Claimants
    <3>4. inuse[t] = Cardinality(C) + leaks[t] /\ reg[w] = inuse[t] /\ leaks[t] \in Nat
      BY <1>1, <1>3, <1>4, <2>1
    <3>5. inuse'[t] = reg[w] - 1
      BY <1>1, <1>2, <1>3, <2>1
    <3>6. w \notin uncounted /\ w \in C
      BY <1>2, <2>1, <3>1
    <3>7. Cardinality(C) # 0 /\ Cardinality(C \ {w}) = Cardinality(C) - 1
      BY <3>3, <3>6, FS_EmptySet, FS_RemoveElement
    <3> HIDE DEF C
    <3>8. inuse'[t] = Cardinality(C \ {w}) + leaks[t]
      BY ONLY <3>3, <3>4, <3>5, <3>7
    <3> QED BY <3>2, <3>8
  <2>2. CASE t # s
    <3>1. Claimants(t)' = Claimants(t) /\ w \notin Claimants(t)
      BY <1>2, <2>0, <2>2, ClaimKept DEF At, NULL, Claiming, Claimants
    <3>2. Claimants(t)' \ uncounted' = Claimants(t) \ uncounted
      BY <3>1, <1>2
    <3> QED BY <1>1, <1>2, <1>4, <2>2, <3>2
  <2> QED BY <2>1, <2>2
<1> QED BY <1>5, <1>6 DEF AcctInv

(* Session s is deleted, and at most the worker that removes it moves. *)
LEMMA AcctDelete ==
  ASSUME UseInv, NEW s \in Session, MayExclude, Delete(s), uncounted' \subseteq uncounted,
         \A v \in Worker :
           \/ /\ pc'[v] = pc[v] /\ cs'[v] = cs[v] /\ reg'[v] = reg[v]
              /\ v \in uncounted' <=> v \in uncounted
           \/ cs[v] = s /\ pc'[v] = "idle" /\ cs'[v] = NULL /\ v \notin uncounted'
  PROVE  AcctInv'
<1> USE Numbers, UseInvFacts DEF AcctFacts
<1>1. AcctFacts
  BY AcctFactsHold
<1>2. /\ s \in live /\ live' = live \ {s} /\ raced' = raced \ {s}
      /\ inuse' = [inuse EXCEPT ![s] = 0] /\ leaks' = [leaks EXCEPT ![s] = 0]
  BY DEF Delete, Unregister
<1>3. \A v \in Worker : ~HasLoaded(v)'
  BY DEF MayExclude, InShared, HasLoaded
<1>4. UpdatersAgree'
  <2>1. \A v \in uncounted' : pc'[v] \in {"login", "remove", "release", "lower", "unclaim"}
    BY <1>1
  <2>2. \A t \in Session \ live' : leaks'[t] = 0
    BY <1>1, <1>2
  <2> QED BY <1>3, <2>1, <2>2 DEF UpdatersAgree
<1>5. ClaimAccounting'
  <2> SUFFICES ASSUME NEW t \in live \ raced, t # s
               PROVE  inuse'[t] = Cardinality(Claimants(t)' \ uncounted') + leaks'[t]
    BY <1>2 DEF ClaimAccounting
  <2>1. \A v \in Worker : At(v, t, Claiming)' <=> At(v, t, Claiming)
    BY DEF At, Claiming
  <2>2. Claimants(t)' = Claimants(t)
    BY <2>1 DEF Claimants
  <2>3. \A v \in Claimants(t) : v \in uncounted' <=> v \in uncounted
    BY DEF Claimants, At
  <2>4. Claimants(t)' \ uncounted' = Claimants(t) \ uncounted
    BY <2>2, <2>3
  <2>5. inuse'[t] = inuse[t] /\ leaks'[t] = leaks[t]
    BY <1>1, <1>2
  <2> QED BY <1>1, <2>4, <2>5
<1> QED BY <1>4, <1>5 DEF AcctInv

LEMMA AcctRemove ==
  ASSUME UseInv, NEW w \in Worker, Remove(w)
  PROVE  AcctInv'
<1>1. pc[w] = "remove" /\ MayExclude /\ Delete(cs[w]) /\ Finish(w)
  BY DEF Remove
<1>2. cs[w] \in Session /\ pc \in [Worker -> Place] /\ cs \in [Worker -> 0..created]
      /\ reg \in [Worker -> Int]
  BY <1>1, UseInvFacts DEF UseInv, TypeOK
<1>3. uncounted' = uncounted \ {w} /\ pc' = [pc EXCEPT ![w] = "idle"]
      /\ cs' = [cs EXCEPT ![w] = NULL] /\ reg' = [reg EXCEPT ![w] = 0]
  BY <1>1 DEF Finish, Goto
<1>4. \A v \in Worker :
        \/ /\ pc'[v] = pc[v] /\ cs'[v] = cs[v] /\ reg'[v] = reg[v]
           /\ v \in uncounted' <=> v \in uncounted
        \/ cs[v] = cs[w] /\ pc'[v] = "idle" /\ cs'[v] = NULL /\ v \notin uncounted'
  BY <1>2, <1>3
<1>5. uncounted' \subseteq uncounted
  BY <1>3
<1> QED BY <1>1, <1>2, <1>4, <1>5, AcctDelete

LEMMA AcctSweepRemove ==
  ASSUME UseInv, SweepRemove
  PROVE  AcctInv'
<1>1. CASE xcur \in live
  <2>1. MayExclude /\ Delete(xcur) /\ pc' = pc /\ cs' = cs /\ reg' = reg /\ uncounted' = uncounted
    BY <1>1 DEF SweepRemove, workerVars
  <2>2. xcur \in Session
    BY <1>1, UseInvFacts
  <2>3. /\ uncounted' \subseteq uncounted
        /\ \A v \in Worker : /\ pc'[v] = pc[v] /\ cs'[v] = cs[v] /\ reg'[v] = reg[v]
                             /\ v \in uncounted' <=> v \in uncounted
    BY <2>1
  <2> QED BY <2>1, <2>2, <2>3, AcctDelete
<1>2. CASE xcur \notin live
  BY <1>2, AcctElsewhere DEF SweepRemove, registryVars, workerVars
<1> QED BY <1>1, <1>2

(* A worker that was not counted on any live session leaves. *)
LEMMA AcctDangle ==
  ASSUME UseInv, NEW w \in Worker, Dangle(w)
  PROVE  AcctInv'
<1> USE Numbers, UseInvFacts DEF AcctFacts
<1>1. AcctFacts
  BY AcctFactsHold
<1>2. /\ pc[w] # "idle" /\ cs[w] \notin live
      /\ pc' = [pc EXCEPT ![w] = "idle"] /\ cs' = [cs EXCEPT ![w] = NULL]
      /\ reg' = [reg EXCEPT ![w] = 0] /\ uncounted' = uncounted \ {w}
      /\ UNCHANGED <<live, inuse, leaks, raced>>
  BY DEF Dangle, Finish, Goto, registryVars
<1>3. reg \in [Worker -> Int]
  BY DEF UseInv, TypeOK
<1>4. UpdatersAgree'
  <2>1. \A v \in Worker : HasLoaded(v)' => /\ v # w /\ HasLoaded(v)
                                          /\ cs'[v] = cs[v] /\ reg'[v] = reg[v]
    BY <1>2, <1>3 DEF HasLoaded
  <2>2. \A v \in uncounted' : v \in uncounted /\ pc'[v] = pc[v]
    BY <1>2
  <2> QED BY <1>1, <1>2, <2>1, <2>2 DEF UpdatersAgree
<1>5. ClaimAccounting'
  <2> SUFFICES ASSUME NEW t \in live \ raced
               PROVE  inuse[t] = Cardinality(Claimants(t)' \ uncounted') + leaks[t]
    BY <1>2 DEF ClaimAccounting
  <2>1. Claimants(t)' = Claimants(t) /\ w \notin Claimants(t)
    BY <1>2 DEF Claimants, At, Claiming
  <2>2. Claimants(t)' \ uncounted' = Claimants(t) \ uncounted
    BY <1>2, <2>1
  <2> QED BY <1>1, <2>2
<1> QED BY <1>4, <1>5 DEF AcctInv

-----------------------------------------------------------------------------
LEMMA AcctInvInit == Init => AcctInv
<1> SUFFICES ASSUME Init PROVE AcctInv
  OBVIOUS
<1>1. UpdatersAgree
  BY DEF Init, UpdatersAgree, HasLoaded
<1>2. ClaimAccounting
  BY DEF Init, RegistryInit, ClaimAccounting
<1> QED BY <1>1, <1>2 DEF AcctInv

LEMMA AcctInvStep == UseInv /\ [Next]_vars => AcctInv'
<1> SUFFICES ASSUME UseInv, [Next]_vars PROVE AcctInv'
  OBVIOUS
<1>1. ASSUME NEW w \in Worker, Login(w) PROVE AcctInv'
  <2>1. PICK place \in {"release", "remove"} : Goto(w, place)
    BY <1>1 DEF Login
  <2>2. pc[w] = "login" /\ pc' = [pc EXCEPT ![w] = place]
        /\ UNCHANGED <<live, inuse, cs, reg, leaks, raced, uncounted>>
    BY <1>1, <2>1 DEF Login, Goto, registryVars
  <2>3. "login" \in Claiming \ {"lower", "unclaim"} /\ place \in Claiming \ {"lower", "unclaim"}
    BY DEF Claiming
  <2> QED BY <2>1, <2>2, <2>3, AcctMove
<1>2. ASSUME NEW w \in Worker, NEW from \in {"plain", "wantread", "wantwrite", "reading", "writing"},
             NEW to \in {"reading", "writing", "release"}, Step(w, from, to)
      PROVE  AcctInv'
  <2>1. pc[w] = from /\ pc' = [pc EXCEPT ![w] = to]
        /\ UNCHANGED <<live, inuse, cs, reg, leaks, raced, uncounted>>
    BY <1>2 DEF Step, Goto, registryVars
  <2>2. from \in Claiming \ {"lower", "unclaim"} /\ to \in Claiming \ {"lower", "unclaim"}
        /\ from # "login" /\ from \notin {"remove", "release"}
    BY DEF Claiming
  <2> QED BY <2>1, <2>2, AcctMove
<1>3. ASSUME NEW w \in Worker, WorkerStep(w) PROVE AcctInv'
  BY <1>1, <1>2, <1>3, AcctBind, AcctGet, AcctClaim, AcctLose, AcctBeginRelease, AcctLower,
     AcctRelease, AcctRemove, AcctDangle
     DEF WorkerStep, Plain, TakeRead, TakeWrite, EndRead, EndWrite
<1>4. CASE SweepStart \/ SweepEnter \/ SweepPass \/ SweepDrop \/ SweepDangle \/ SweepEnd \/ Tick
           \/ UNCHANGED vars
  <2>1. UNCHANGED <<live, inuse, pc, cs, reg, leaks, raced, uncounted>>
    BY <1>4 DEF SweepStart, SweepEnter, SweepPass, SweepDrop, SweepDangle, SweepEnd, Tick, vars,
                registryVars, workerVars
  <2> QED BY <2>1, AcctElsewhere
<1> QED BY <1>3, <1>4, AcctSweepRemove DEF Next, SweepStep

LEMMA UseInvHolds == Spec => []UseInv
<1>1. Init => UseInv
  BY SafeInvInit, AcctInvInit DEF SafeInv, AcctInv, UseInv
<1>2. UseInv /\ [Next]_vars => UseInv'
  BY SafeInvStep, AcctInvStep DEF SafeInv, AcctInv, UseInv
<1> QED BY <1>1, <1>2, PTL DEF Spec

-----------------------------------------------------------------------------
(* The fields of SessionDB, of the workers and of the expire thread have     *)
(* their types; ids that clients have, due and raced name live sessions only.  *)
THEOREM UseTypeCorrect == Spec => []TypeOK
<1>1. UseInv => TypeOK
  BY DEF UseInv
<1> QED BY <1>1, UseInvHolds, PTL

(* No session is deleted between the load and the store of its inuse.        *)
THEOREM SharedSectionsAreSafe == Spec => []SharedIsProtected
<1>1. UseInv => SharedIsProtected
  BY DEF UseInv
<1> QED BY <1>1, UseInvHolds, PTL

(* inuse counts the claims on a session (get and release).                   *)
THEOREM InuseCountsClaims == Spec => []ClaimAccounting
<1>1. UseInv => ClaimAccounting
  BY DEF UseInv
<1> QED BY <1>1, UseInvHolds, PTL

(* expire() chooses no session with a claim that inuse counts.               *)
THEOREM SweepChoosesIdle == Spec => DropsOnlyIdle
<1>1. ASSUME UseInv, SweepDrop
      PROVE  xcur \in raced \/ Claimants(xcur) \subseteq uncounted
  <2> SUFFICES ASSUME xcur \notin raced PROVE Claimants(xcur) \ uncounted = {}
    OBVIOUS
  <2>1. xcur \in live /\ inuse[xcur] = 0
    BY <1>1 DEF SweepDrop, Doomed
  <2>2. /\ inuse[xcur] = Cardinality(Claimants(xcur) \ uncounted) + leaks[xcur]
        /\ leaks[xcur] \in Nat
    BY <1>1, <2>1, AcctFactsHold, UseInvFacts DEF AcctFacts
  <2>3. IsFiniteSet(Claimants(xcur) \ uncounted) /\ Cardinality(Claimants(xcur) \ uncounted) \in Nat
    BY CountIsNat DEF Claimants
  <2>4. Cardinality(Claimants(xcur) \ uncounted) = 0
    BY ONLY <2>1, <2>2, <2>3
  <2> QED BY <2>3, <2>4, FS_EmptySet
<1>2. UseInv /\ [Next]_vars => [SweepDrop => xcur \in raced \/ Claimants(xcur) \subseteq uncounted]_vars
  BY <1>1
<1> QED BY <1>2, UseInvHolds, PTL DEF Spec, DropsOnlyIdle
=============================================================================
