---------------------------- MODULE ModuleCallsProofs ----------------------------
(***************************************************************************)
(* The calls of modules, for any number of workers, users and modules, any     *)
(* depth of nested calls, any logouts, and while the sessions are saved: the    *)
(* session of a module lives as long as its call or until it is logged out, has *)
(* the credentials of the caller, and is not missing for any other reason.     *)
(*                                                                         *)
(* SessionFollowsCall is not inductive: a worker for a script goes back to its  *)
(* pool and wakes "the" script that waits for it.  Callbacks says that there is *)
(* one such worker for a script, and that no second one can come.             *)
(*                                                                         *)
(* ActsForUser follows callers down to a user.  It is ActsForCaller, an         *)
(* invariant of single steps, taken as often as there are workers: calls are    *)
(* nested (Nested), so that the chain of callers ends.                       *)
(***************************************************************************)
EXTENDS ModuleCalls, Induction, FiniteSetTheorems

-----------------------------------------------------------------------------
(* The inductive invariant. *)

(* The end of the daemon has sessions to save only while it holds lck. *)
Saves == saver # "list" => tosave = {}

(* Only a call with a session of its own gets to these places. *)
Places ==
  \A w \in Worker : pc[w] \in {"open", "rights", "ask", "close"} => GetsSession(w)

(* A user's session goes only if somebody removes it. *)
UsersLeave == User \subseteq live \cup cut

(* A script waits for one request, and sends no other meanwhile. *)
Callbacks ==
  /\ \A w \in Worker : Outer(w) \in Worker => wanted[Outer(w)] = None
  /\ \A v, w \in Worker : Outer(w) \in Worker /\ Outer(v) = Outer(w) => v = w

(* A script has the credentials of the user or the script whose request it is   *)
(* a part of.  (ActsForUser is this, followed from caller to caller.)         *)
ActsForCaller ==
  \A w \in Worker : pc[w] \in {"script", "ask"} /\ GetsSession(w) /\ ~mixed =>
    rights[w] = RightsOf(Outer(w))

CallInv ==
  /\ TypeOK /\ Saves /\ Places /\ UsersLeave /\ Callbacks
  /\ SessionFollowsCall /\ ActsForCaller /\ DiesForAReason

-----------------------------------------------------------------------------
(* What the invariant says of one worker. *)
Calls == [op : Request, mod : Module \cup {None}, session : Session] \cup {NoCall}
Locks == [Session -> {"free", "read", "write"}]

LEMMA Disjoint ==
  /\ None \notin Module /\ None \notin Session /\ User \cap Worker = {}
  /\ Front \cap Back = {} /\ WantsRPC \subseteq Module /\ Leaving \subseteq Session
  /\ Front \subseteq Worker /\ Back \subseteq Worker
  /\ Worker \subseteq Session /\ User \subseteq Session /\ Session = User \cup Worker
BY ModuleCallsAssumption DEF Worker, Session

(* TypeOK, taken apart. *)
LEMMA Types ==
  ASSUME CallInv
  PROVE  /\ live \subseteq Session /\ cut \subseteq Session \ live
         /\ rights \in [Worker -> User \cup {None}] /\ stuck \in Locks
         /\ pc \in [Worker -> Place] /\ call \in [Worker -> Calls]
         /\ asks \in [Worker -> 0..MaxAsks] /\ wanted \in [Worker -> Module \cup {None}]
         /\ \A w \in Worker : /\ pc[w] \in {"idle", "leave"} <=> call[w] = NoCall
                              /\ wanted[w] # None => pc[w] = "ask"
BY DEF CallInv, TypeOK, Calls, Locks

LEMMA CallOf ==
  ASSUME CallInv, NEW w \in Worker
  PROVE  /\ pc[w] \in {"idle", "leave"} => Outer(w) = None /\ ~GetsSession(w)
         /\ pc[w] \notin {"idle", "leave"} => /\ call[w].op \in Request
                                             /\ call[w].mod \in Module \cup {None}
                                             /\ Outer(w) \in Session
<1>1. call[w] \in Calls
  BY Types
<1>2. pc[w] \in {"idle", "leave"} <=> call[w] = NoCall
  BY Types
<1> QED BY <1>1, <1>2, Disjoint DEF GetsSession, NoCall, Outer, Calls

LEMMA SameCall ==
  ASSUME NEW w \in Worker, call'[w] = call[w]
  PROVE  (GetsSession(w)' <=> GetsSession(w)) /\ Outer(w)' = Outer(w)
BY DEF Lists, GetsSession, Outer

(* A script waits for the request it sent, and for no other.                  *)
LEMMA Waiting ==
  ASSUME CallInv, NEW w \in Worker, Outer(w) \in Worker
  PROVE  /\ pc[Outer(w)] = "ask" /\ GetsSession(Outer(w)) /\ wanted[Outer(w)] = None
         /\ Outer(w) \in live \cup cut
         /\ \A v \in Worker : Outer(v) = Outer(w) => v = w
BY DEF CallInv, SessionFollowsCall, Callbacks

LEMMA NotNoCall ==
  ASSUME NEW op \in Request, NEW m \in Module \cup {None}, NEW s \in Session
  PROVE  /\ [op |-> op, mod |-> m, session |-> s] # NoCall
         /\ [op |-> op, mod |-> m, session |-> s] \in Calls
BY Disjoint DEF NoCall, Calls

-----------------------------------------------------------------------------
(* The requests. *)
LEMMA CallInvInit ==
  ASSUME Init
  PROVE  CallInv
<1>1. TypeOK
  <2>1. live \subseteq Session /\ tosave \subseteq live /\ up \in BOOLEAN
        /\ cut \subseteq Session \ live /\ mixed \in BOOLEAN
    BY Disjoint DEF Init
  <2>2. /\ pc \in [Worker -> Place] /\ rights \in [Worker -> User \cup {None}]
        /\ wanted \in [Worker -> Module \cup {None}] /\ asks \in [Worker -> 0..MaxAsks]
        /\ stuck \in [Session -> {"free", "read", "write"}]
    BY ModuleCallsAssumption DEF Init, Place
  <2>3. call \in [Worker -> [op : Request, mod : Module \cup {None}, session : Session]
                         \cup {NoCall}]
    BY DEF Init
  <2> QED BY <2>1, <2>2, <2>3 DEF Init, TypeOK
<1>2. \A w \in Worker : /\ pc[w] = "idle" /\ call[w] = NoCall /\ w \notin live \cup cut
                        /\ Outer(w) \notin Worker
  BY Disjoint DEF Init, Outer, NoCall
<1>3. Saves /\ Places /\ Callbacks /\ ActsForCaller /\ UsersLeave
  BY <1>2 DEF Saves, Places, Callbacks, ActsForCaller, UsersLeave, Init
<1>4. SessionFollowsCall
  BY <1>2 DEF SessionFollowsCall
<1>5. DiesForAReason
  BY DEF DiesForAReason, Init
<1> QED BY <1>1, <1>3, <1>4, <1>5 DEF CallInv

(* A worker gets a request for session s: of a user, or of a script that waits. *)
LEMMA Starts ==
  ASSUME CallInv, NEW w \in Worker, NEW op \in Request, NEW m \in Module \cup {None},
         NEW s \in Session, up, pc[w] = "idle", pc' = [pc EXCEPT ![w] = "lock"],
         call' = [call EXCEPT ![w] = [op |-> op, mod |-> m, session |-> s]],
         UNCHANGED <<live, rights, stuck, asks, saver, tosave, up, history>>,
         wanted' \in [Worker -> Module \cup {None}],
         \A x \in Worker : wanted'[x] \in {wanted[x], None},
         s \in Worker => /\ pc[s] = "ask" /\ GetsSession(s) /\ wanted'[s] = None
                         /\ \A x \in Worker : Outer(x) # s
  PROVE  CallInv'
<1>1. /\ pc \in [Worker -> Place] /\ call \in [Worker -> Calls]
      /\ \A x \in Worker : /\ pc[x] \in {"idle", "leave"} <=> call[x] = NoCall
                           /\ wanted[x] # None => pc[x] = "ask"
  BY Types
<1>2. /\ \A x \in Worker \ {w} : pc'[x] = pc[x] /\ call'[x] = call[x]
      /\ pc'[w] = "lock" /\ call'[w] = [op |-> op, mod |-> m, session |-> s]
      /\ call'[w] # NoCall /\ Outer(w)' = s
  BY <1>1, NotNoCall DEF Outer
<1>3. \A x \in Worker \ {w} : (GetsSession(x)' <=> GetsSession(x)) /\ Outer(x)' = Outer(x)
  BY <1>2, SameCall
<1>4. \A x \in Worker \ {w} : Outer(x) \in Worker => pc[Outer(x)] = "ask" /\ Outer(x) # w
  BY Waiting
<1>5. TypeOK'
  <2>1. call' \in [Worker -> Calls] /\ pc' \in [Worker -> Place]
    BY <1>1, NotNoCall DEF Place
  <2>2. \A x \in Worker : pc'[x] \in {"idle", "leave"} <=> call'[x] = NoCall
    BY <1>1, <1>2
  <2>3. \A x \in Worker : wanted'[x] # None => pc'[x] = "ask"
    BY <1>1, <1>2
  <2>4. live' \subseteq Session /\ cut' \subseteq Session \ live' /\ mixed' \in BOOLEAN
        /\ rights' \in [Worker -> User \cup {None}] /\ stuck' \in Locks
        /\ asks' \in [Worker -> 0..MaxAsks] /\ saver' \in {"off", "list", "saved"}
        /\ tosave' \subseteq live' /\ up' \in BOOLEAN
    BY DEF CallInv, TypeOK, Locks, history
  <2> QED BY <2>1, <2>2, <2>3, <2>4 DEF TypeOK, Calls, Locks
<1>6. Saves' /\ UsersLeave'
  BY DEF CallInv, Saves, UsersLeave, history
<1>7. Places'
  BY <1>2, <1>3 DEF CallInv, Places
<1>8. Callbacks'
  <2>1. ASSUME NEW x \in Worker, Outer(x)' \in Worker PROVE wanted'[Outer(x)'] = None
    BY <2>1, <1>2, <1>3 DEF CallInv, Callbacks
  <2>2. ASSUME NEW x \in Worker, NEW y \in Worker, Outer(x)' \in Worker, Outer(y)' = Outer(x)'
        PROVE  y = x
    BY <2>2, <1>2, <1>3 DEF CallInv, Callbacks
  <2> QED BY <2>1, <2>2 DEF Callbacks
<1>9. SessionFollowsCall'
  <2>1. \A x \in Worker :
          x \in live' \cup cut' <=> pc'[x] \in {"rights", "script", "ask", "close"} /\ GetsSession(x)'
    BY <1>2, <1>3 DEF CallInv, SessionFollowsCall, history
  <2>2. ASSUME NEW x \in Worker, NEW y \in Worker, Outer(x)' = y
        PROVE  pc'[y] = "ask" /\ GetsSession(y)'
    <3>1. CASE x = w
      BY <3>1, <2>2, <1>2, <1>3
    <3>2. CASE x # w
      <4>1. y # w /\ pc[y] = "ask" /\ GetsSession(y)
        BY <3>2, <2>2, <1>3, <1>4, Waiting
      <4> QED BY <4>1, <1>2, <1>3
    <3> QED BY <3>1, <3>2
  <2> QED BY <2>1, <2>2 DEF SessionFollowsCall, Outer, GetsSession, Lists
<1>10. ActsForCaller'
  BY <1>2, <1>3 DEF CallInv, ActsForCaller, RightsOf, history
<1>11. DiesForAReason'
  BY DEF DiesForAReason
<1> QED BY <1>5, <1>6, <1>7, <1>8, <1>9, <1>10, <1>11 DEF CallInv

LEMMA CallInvAsk ==
  ASSUME CallInv, NEW w \in Worker, NEW u \in User, Ask(w, u)
  PROVE  CallInv'
<1>1. PICK m \in Module \cup {None}, op \in Request :
        call' = [call EXCEPT ![w] = [op |-> op, mod |-> m, session |-> u]]
  BY DEF Ask, Start, Asked
<1>2. /\ up /\ pc[w] = "idle" /\ pc' = [pc EXCEPT ![w] = "lock"]
      /\ UNCHANGED <<live, rights, stuck, asks, wanted, saver, tosave, up, history>>
  BY DEF Ask, Step, Goto
<1>3. u \in Session /\ u \notin Worker /\ wanted \in [Worker -> Module \cup {None}]
  BY Types, Disjoint
<1> QED BY <1>1, <1>2, <1>3, Starts

LEMMA CallInvCallback ==
  ASSUME CallInv, NEW w \in Worker, NEW v \in Worker, Callback(w, v)
  PROVE  CallInv'
<1>1. PICK op \in Request :
        call' = [call EXCEPT ![w] = [op |-> op, mod |-> wanted[v], session |-> v]]
  BY DEF Callback, Start, Asked
<1>2. /\ up /\ pc[w] = "idle" /\ pc' = [pc EXCEPT ![w] = "lock"]
      /\ pc[v] = "ask" /\ wanted[v] # None /\ wanted' = [wanted EXCEPT ![v] = None]
      /\ UNCHANGED <<live, rights, stuck, asks, saver, tosave, up, history>>
  BY DEF Callback, Step, Goto
<1>3. /\ v \in Session /\ wanted[v] \in Module \cup {None}
      /\ wanted' \in [Worker -> Module \cup {None}] /\ wanted'[v] = None
      /\ \A x \in Worker : wanted'[x] \in {wanted[x], None}
  BY <1>2, Types, Disjoint
<1>4. GetsSession(v) /\ \A x \in Worker : Outer(x) # v
  BY <1>2 DEF CallInv, Places, Callbacks
<1> QED BY <1>1, <1>2, <1>3, <1>4, Starts

(* A worker whose script has no request of its own goes on: nobody works for   *)
(* its script, so nobody has to be told.                                     *)
LEMMA Moves ==
  ASSUME CallInv, NEW w \in Worker, NEW to \in Place \ {"idle", "leave"}, up,
         pc[w] \notin {"idle", "leave", "ask"}, pc' = [pc EXCEPT ![w] = to],
         UNCHANGED <<call, saver, tosave, up>>,
         to \in {"open", "rights", "ask", "close"} => GetsSession(w),
         live' \subseteq Session, cut' \subseteq Session \ live', stuck' \in Locks,
         live \subseteq live' \/ saver # "list",
         \A x \in Session \ {w} : x \in live' \cup cut' <=> x \in live \cup cut,
         w \in live' \cup cut' <=> to \in {"rights", "script", "ask", "close"} /\ GetsSession(w),
         rights' \in [Worker -> User \cup {None}], mixed' \in BOOLEAN, mixed => mixed',
         \A x \in Worker \ {w} : rights'[x] = rights[x] \/ mixed',
         to \in {"script", "ask"} /\ GetsSession(w) /\ ~mixed' => rights'[w] = RightsOf(Outer(w)),
         asks' \in [Worker -> 0..MaxAsks], wanted' \in [Worker -> Module \cup {None}],
         \A x \in Worker \ {w} : wanted'[x] = wanted[x],
         wanted'[w] # None => to = "ask"
  PROVE  CallInv'
<1>1. /\ pc \in [Worker -> Place]
      /\ \A x \in Worker : /\ pc[x] \in {"idle", "leave"} <=> call[x] = NoCall
                           /\ wanted[x] # None => pc[x] = "ask"
  BY Types
<1>2. /\ \A x \in Worker \ {w} : pc'[x] = pc[x]
      /\ pc'[w] = to /\ w \in Session
      /\ \A x \in Worker : pc'[x] \in {"idle", "leave"} <=> pc[x] \in {"idle", "leave"}
  BY <1>1, Disjoint
<1>3. \A x \in Worker : (GetsSession(x)' <=> GetsSession(x)) /\ Outer(x)' = Outer(x)
  BY SameCall
<1>4. \A x \in Worker : Outer(x) \in Worker => pc[Outer(x)] = "ask" /\ Outer(x) # w
  BY Waiting
<1>5. TypeOK'
  <2>1. tosave' \subseteq live'
    BY DEF TypeOK, CallInv, Saves
  <2>2. pc' \in [Worker -> Place] /\ call' \in [Worker -> Calls]
    BY <1>1, Types
  <2>3. \A x \in Worker : pc'[x] \in {"idle", "leave"} <=> call'[x] = NoCall
    BY <1>1, <1>2
  <2>4. \A x \in Worker : wanted'[x] # None => pc'[x] = "ask"
    BY <1>1, <1>2
  <2>5. saver' \in {"off", "list", "saved"} /\ up' \in BOOLEAN
    BY DEF CallInv, TypeOK
  <2> QED BY <2>1, <2>2, <2>3, <2>4, <2>5 DEF TypeOK, Calls, Locks
<1>6. Saves'
  BY DEF CallInv, Saves
<1>7. Places'
  BY <1>2, <1>3 DEF CallInv, Places
<1>8. UsersLeave'
  <2>1. User \subseteq Session \ {w}
    BY Disjoint
  <2> QED BY <2>1 DEF CallInv, UsersLeave
<1>9. Callbacks'
  BY <1>3, <1>4 DEF CallInv, Callbacks
<1>10. SessionFollowsCall'
  <2>1. \A x \in Worker :
          x \in live' \cup cut' <=> pc'[x] \in {"rights", "script", "ask", "close"} /\ GetsSession(x)'
    BY <1>2, <1>3, Disjoint DEF CallInv, SessionFollowsCall
  <2>2. ASSUME NEW x \in Worker, NEW y \in Worker, Outer(x)' = y
        PROVE  pc'[y] = "ask" /\ GetsSession(y)'
    <3>1. y # w /\ pc[y] = "ask" /\ GetsSession(y)
      BY <2>2, <1>3, <1>4, Waiting
    <3> QED BY <3>1, <1>2, <1>3
  <2> QED BY <2>1, <2>2 DEF SessionFollowsCall, Outer, GetsSession, Lists
<1>11. ActsForCaller'
  <2> SUFFICES ASSUME NEW x \in Worker, pc'[x] \in {"script", "ask"}, GetsSession(x), ~mixed'
               PROVE  rights'[x] = IF Outer(x) \in User THEN Outer(x) ELSE rights'[Outer(x)]
    BY <1>3 DEF ActsForCaller, RightsOf
  <2>1. Outer(x) \in User \/ Outer(x) \in Worker \ {w}
    BY <1>2, <1>4, CallOf, Disjoint
  <2>2. rights'[x] = RightsOf(Outer(x))
    BY <1>2 DEF CallInv, ActsForCaller
  <2> QED BY <2>1, <2>2 DEF RightsOf
<1>12. DiesForAReason'
  BY DEF DiesForAReason
<1> QED BY <1>5, <1>6, <1>7, <1>8, <1>9, <1>10, <1>11, <1>12 DEF CallInv

LEMMA CallInvLock ==
  ASSUME CallInv, NEW w \in Worker, Lock(w) \/ Refuse(w)
  PROVE  CallInv'
<1>1. PICK to \in {"module", "answer"} : pc' = [pc EXCEPT ![w] = to]
  BY DEF Lock, Refuse, Step, Goto
<1>2. /\ up /\ pc[w] \in {"lock", "module"} /\ to \in Place \ {"idle", "leave"}
      /\ UNCHANGED <<live, rights, stuck, call, asks, wanted, saver, tosave, up, cut, mixed>>
  BY DEF Lock, Refuse, Step, Goto, Place, history
<1>3. w \notin live \cup cut /\ wanted[w] = None
  BY <1>2, Types DEF CallInv, SessionFollowsCall
<1>4. mixed \in BOOLEAN
  BY DEF CallInv, TypeOK
<1> QED BY <1>1, <1>2, <1>3, <1>4, Types, Moves

LEMMA CallInvEnter ==
  ASSUME CallInv, NEW w \in Worker, Enter(w)
  PROVE  CallInv'
<1> DEFINE to == IF GetsSession(w) THEN "open" ELSE "script"
<1>1. /\ up /\ pc[w] = "module" /\ pc' = [pc EXCEPT ![w] = to] /\ to \in Place \ {"idle", "leave"}
      /\ UNCHANGED <<live, rights, stuck, call, asks, wanted, saver, tosave, up, cut, mixed>>
  BY DEF Enter, Step, Goto, Place, history
<1>2. w \notin live \cup cut /\ wanted[w] = None
  BY <1>1, Types DEF CallInv, SessionFollowsCall
<1>3. mixed \in BOOLEAN
  BY DEF CallInv, TypeOK
<1>4. to \in {"open", "rights", "ask", "close"} => GetsSession(w)
  OBVIOUS
<1>5. ~(to \in {"rights", "script", "ask", "close"} /\ GetsSession(w))
  OBVIOUS
<1> HIDE DEF to
<1> QED BY <1>1, <1>2, <1>3, <1>4, <1>5, Types, Moves

LEMMA CallInvOpen ==
  ASSUME CallInv, NEW w \in Worker, Open(w)
  PROVE  CallInv'
<1>1. /\ up /\ pc[w] = "open" /\ pc' = [pc EXCEPT ![w] = "rights"]
      /\ "rights" \in Place \ {"idle", "leave"} /\ live' = live \cup {w}
      /\ UNCHANGED <<rights, stuck, call, asks, wanted, saver, tosave, up, cut, mixed>>
  BY DEF Open, Step, Goto, Place, WithSession, history
<1>2. GetsSession(w) /\ wanted[w] = None /\ w \notin cut /\ w \in Session
  BY <1>1, Types, Disjoint DEF CallInv, Places, SessionFollowsCall
<1>3. mixed \in BOOLEAN
  BY DEF CallInv, TypeOK
<1>4. live' \subseteq Session /\ cut' \subseteq Session \ live' /\ live \subseteq live'
  BY <1>1, <1>2, Types
<1> QED BY <1>1, <1>2, <1>3, <1>4, Types, Moves

LEMMA CallInvCopyRights ==
  ASSUME CallInv, NEW w \in Worker, CopyRights(w)
  PROVE  CallInv'
<1>1. PICK s \in Pointed(w) : /\ rights' = [rights EXCEPT ![s] = RightsOf(call[w].session)]
                              /\ mixed' = (mixed \/ s # w)
  BY DEF CopyRights
<1>2. /\ up /\ pc[w] = "rights" /\ pc' = [pc EXCEPT ![w] = "script"]
      /\ "script" \in Place \ {"idle", "leave"}
      /\ UNCHANGED <<live, stuck, call, asks, wanted, saver, tosave, up, cut>>
  BY DEF CopyRights, Step, Goto, Place
<1>3. w \in live \cup cut /\ GetsSession(w) /\ wanted[w] = None /\ s \in Worker
  BY <1>2, Types DEF CallInv, Places, SessionFollowsCall, Pointed
<1>4. RightsOf(Outer(w)) \in User \cup {None}
  <2>1. Outer(w) \in User \cup Worker
    BY <1>2, CallOf, Disjoint
  <2> QED BY <2>1, Types DEF RightsOf
<1>5. /\ rights' \in [Worker -> User \cup {None}] /\ rights'[s] = RightsOf(Outer(w))
      /\ \A v \in Worker \ {s} : rights'[v] = rights[v]
  BY <1>1, <1>3, <1>4, Types DEF Outer
<1>6. mixed' \in BOOLEAN /\ (mixed => mixed') /\ (s # w => mixed')
  <2>1. mixed \in BOOLEAN
    BY DEF CallInv, TypeOK
  <2> QED BY <2>1, <1>1
<1>7. \A v \in Worker \ {w} : rights'[v] = rights[v] \/ mixed'
  BY <1>5, <1>6
<1>8. ~mixed' => rights'[w] = RightsOf(Outer(w))
  BY <1>5, <1>6
<1> HIDE DEF RightsOf
<1> QED BY <1>2, <1>3, <1>5, <1>6, <1>7, <1>8, Types, Moves

LEMMA CallInvTalk ==
  ASSUME CallInv, NEW w \in Worker, Talk(w)
  PROVE  CallInv'
<1>1. PICK m \in MayAsk[call[w].mod] : wanted' = [wanted EXCEPT ![w] = m]
  BY DEF Talk
<1>2. /\ up /\ pc[w] = "script" /\ pc' = [pc EXCEPT ![w] = "ask"]
      /\ "ask" \in Place \ {"idle", "leave"}
      /\ GetsSession(w) /\ asks[w] < MaxAsks /\ asks' = [asks EXCEPT ![w] = asks[w] + 1]
      /\ UNCHANGED <<live, rights, stuck, call, saver, tosave, up, cut, mixed>>
  BY DEF Talk, Step, Goto, Place, history
<1>3. w \in live \cup cut /\ (~mixed => rights[w] = RightsOf(Outer(w)))
  BY <1>2 DEF CallInv, SessionFollowsCall, ActsForCaller
<1>4. m \in Module
  BY <1>1, <1>2, ModuleCallsAssumption DEF GetsSession
<1>5. /\ wanted' \in [Worker -> Module \cup {None}]
      /\ \A v \in Worker \ {w} : wanted'[v] = wanted[v]
  BY <1>1, <1>4, Types
<1>6. asks' \in [Worker -> 0..MaxAsks]
  <2>1. asks[w] + 1 \in 0..MaxAsks
    BY <1>2, Types, ModuleCallsAssumption
  <2> QED BY <2>1, <1>2, Types
<1>7. mixed \in BOOLEAN
  BY DEF CallInv, TypeOK
<1> HIDE DEF RightsOf
<1> QED BY <1>2, <1>3, <1>5, <1>6, <1>7, Types, Moves

LEMMA CallInvScriptEnds ==
  ASSUME CallInv, NEW w \in Worker, ScriptEnds(w)
  PROVE  CallInv'
<1> DEFINE to == IF GetsSession(w) THEN "close" ELSE "answer"
<1>1. /\ up /\ pc[w] = "script" /\ pc' = [pc EXCEPT ![w] = to]
      /\ to \in Place \ {"idle", "leave"} /\ asks' = [asks EXCEPT ![w] = 0]
      /\ UNCHANGED <<live, rights, stuck, call, wanted, saver, tosave, up, cut, mixed>>
  BY DEF ScriptEnds, Step, Goto, Place, history
<1>2. (w \in live \cup cut <=> GetsSession(w)) /\ wanted[w] = None
  BY <1>1, Types DEF CallInv, SessionFollowsCall
<1>3. asks' \in [Worker -> 0..MaxAsks]
  BY <1>1, Types, ModuleCallsAssumption
<1>4. to \in {"open", "rights", "ask", "close"} => GetsSession(w)
  OBVIOUS
<1>5. w \in live \cup cut <=> to \in {"rights", "script", "ask", "close"} /\ GetsSession(w)
  BY <1>2
<1>6. to \notin {"script", "ask"} /\ mixed \in BOOLEAN
  BY DEF CallInv, TypeOK
<1> HIDE DEF to
<1> QED BY <1>1, <1>2, <1>3, <1>4, <1>5, <1>6, Types, Moves

(* The session that goes may be another's, which then counts as cut. *)
LEMMA CallInvClose ==
  ASSUME CallInv, NEW w \in Worker, Close(w)
  PROVE  CallInv'
<1>1. PICK s \in Pointed(w) : /\ live' = live \ {s} /\ stuck' = [stuck EXCEPT ![s] = "free"]
                              /\ cut' = (cut \ {w}) \cup ({s} \ {w})
  BY DEF Close, WithoutSession, Unlocked
<1>2. /\ up /\ pc[w] = "close" /\ pc' = [pc EXCEPT ![w] = "answer"]
      /\ "answer" \in Place \ {"idle", "leave"}
      /\ saver # "list" /\ rights' = [rights EXCEPT ![w] = None]
      /\ UNCHANGED <<call, asks, wanted, saver, tosave, up, mixed>>
  BY DEF Close, Step, Goto, Place, MayExclude
<1>3. wanted[w] = None /\ w \in Session /\ s \in Session
  BY <1>2, Types, Disjoint DEF Pointed
<1>4. s # w => s \in live /\ w \notin live
  BY DEF Pointed
<1>5. /\ live' \subseteq Session /\ cut' \subseteq Session \ live' /\ stuck' \in Locks
      /\ w \notin live' \cup cut'
      /\ \A x \in Session \ {w} : x \in live' \cup cut' <=> x \in live \cup cut
  BY <1>1, <1>3, <1>4, Types DEF Locks
<1>6. /\ rights' \in [Worker -> User \cup {None}] /\ mixed \in BOOLEAN
      /\ \A v \in Worker \ {w} : rights'[v] = rights[v]
  BY <1>2, Types DEF CallInv, TypeOK
<1> QED BY <1>2, <1>3, <1>5, <1>6, Types, Moves

LEMMA CallInvCrypted ==
  ASSUME CallInv, NEW w \in Worker, Crypted(w)
  PROVE  CallInv'
<1>1. PICK op \in Request :
        call' = [call EXCEPT ![w] = [op |-> op, mod |-> call[w].mod, session |-> call[w].session]]
  BY DEF Crypted, Start, Request
<1>2. /\ up /\ pc[w] = "answer" /\ pc' = [pc EXCEPT ![w] = "module"]
      /\ UNCHANGED <<live, rights, stuck, asks, wanted, saver, tosave, up, history>>
  BY DEF Crypted, Step, Goto
<1>3. /\ pc \in [Worker -> Place] /\ call \in [Worker -> Calls]
      /\ \A x \in Worker : /\ pc[x] \in {"idle", "leave"} <=> call[x] = NoCall
                           /\ wanted[x] # None => pc[x] = "ask"
  BY Types
<1>4. call[w].session \in Session /\ call[w].mod \in Module \cup {None}
  BY <1>2, CallOf DEF Outer
<1>5. /\ \A x \in Worker \ {w} : pc'[x] = pc[x] /\ call'[x] = call[x]
      /\ pc'[w] = "module" /\ call'[w] # NoCall
      /\ \A x \in Worker : Outer(x)' = Outer(x)
  BY <1>1, <1>2, <1>3, <1>4, NotNoCall DEF Outer
<1>6. \A x \in Worker \ {w} : GetsSession(x)' <=> GetsSession(x)
  BY <1>5, SameCall
<1>7. \A x \in Worker : Outer(x) \in Worker => pc[Outer(x)] = "ask" /\ Outer(x) # w
  BY <1>2, Waiting
<1>8. TypeOK'
  <2>1. call' \in [Worker -> Calls] /\ pc' \in [Worker -> Place]
    BY <1>1, <1>2, <1>3, <1>4, NotNoCall DEF Place
  <2>2. \A x \in Worker : pc'[x] \in {"idle", "leave"} <=> call'[x] = NoCall
    BY <1>2, <1>3, <1>5
  <2>3. \A x \in Worker : wanted'[x] # None => pc'[x] = "ask"
    BY <1>2, <1>3, <1>5
  <2>4. live' \subseteq Session /\ cut' \subseteq Session \ live' /\ mixed' \in BOOLEAN
        /\ rights' \in [Worker -> User \cup {None}] /\ stuck' \in Locks
        /\ asks' \in [Worker -> 0..MaxAsks] /\ wanted' \in [Worker -> Module \cup {None}]
        /\ saver' \in {"off", "list", "saved"} /\ tosave' \subseteq live' /\ up' \in BOOLEAN
    BY <1>2 DEF CallInv, TypeOK, Locks, history
  <2> QED BY <2>1, <2>2, <2>3, <2>4 DEF TypeOK, Calls, Locks
<1>9. Saves' /\ UsersLeave'
  BY <1>2 DEF CallInv, Saves, UsersLeave, history
<1>10. Places'
  BY <1>5, <1>6 DEF CallInv, Places
<1>11. Callbacks'
  BY <1>2, <1>5 DEF CallInv, Callbacks
<1>12. SessionFollowsCall'
  <2>1. \A x \in Worker :
          x \in live' \cup cut' <=> pc'[x] \in {"rights", "script", "ask", "close"} /\ GetsSession(x)'
    BY <1>2, <1>5, <1>6 DEF CallInv, SessionFollowsCall, history
  <2>2. ASSUME NEW x \in Worker, NEW y \in Worker, Outer(x)' = y
        PROVE  pc'[y] = "ask" /\ GetsSession(y)'
    BY <2>2, <1>5, <1>6, <1>7, Waiting
  <2> QED BY <2>1, <2>2 DEF SessionFollowsCall, Outer, GetsSession, Lists
<1>13. ActsForCaller'
  BY <1>2, <1>5, <1>6 DEF CallInv, ActsForCaller, RightsOf, history
<1>14. DiesForAReason'
  BY <1>2 DEF DiesForAReason
<1> QED BY <1>8, <1>9, <1>10, <1>11, <1>12, <1>13, <1>14 DEF CallInv

(* A request ends, with its session unlocked or not; the script goes on. *)
LEMMA Ends ==
  ASSUME CallInv, NEW w \in Worker, up, pc[w] \in {"module", "answer"}, pc' = Resumed(w),
         call' = [call EXCEPT ![w] = NoCall], stuck' \in Locks,
         UNCHANGED <<live, rights, asks, wanted, saver, tosave, up, history>>
  PROVE  CallInv'
<1> DEFINE v == Outer(w)
<1>1. /\ pc \in [Worker -> Place] /\ call \in [Worker -> Calls]
      /\ \A x \in Worker : /\ pc[x] \in {"idle", "leave"} <=> call[x] = NoCall
                           /\ wanted[x] # None => pc[x] = "ask"
  BY Types
<1>2. v \in Worker => /\ v # w /\ pc[v] = "ask" /\ v \in live \cup cut /\ wanted[v] = None
                      /\ GetsSession(v) /\ \A x \in Worker : Outer(x) = v => x = w
  BY Waiting
<1>3. /\ pc'[w] = "idle" /\ call'[w] = NoCall
      /\ v \in Worker => pc'[v] = "script"
      /\ \A x \in Worker \ {w} : call'[x] = call[x]
      /\ \A x \in Worker \ {w} : x # v => pc'[x] = pc[x]
      /\ pc' \in [Worker -> Place]
  BY <1>1, <1>2 DEF Resumed, Place, Outer
<1>4. /\ \A x \in Worker \ {w} : (GetsSession(x)' <=> GetsSession(x)) /\ Outer(x)' = Outer(x)
      /\ ~GetsSession(w)' /\ Outer(w)' = None
  <2>1. ~GetsSession(w)' /\ Outer(w)' = None
    BY <1>3, Disjoint DEF GetsSession, NoCall, Outer
  <2> QED BY <2>1, <1>3, SameCall
<1>5. \A x \in Worker : Outer(x) \in Worker => pc[Outer(x)] = "ask" /\ Outer(x) # w
  BY Waiting
<1> HIDE DEF v
<1>6. TypeOK'
  <2>1. call' \in [Worker -> Calls]
    BY <1>1 DEF Calls
  <2>2. \A x \in Worker : pc'[x] \in {"idle", "leave"} <=> call'[x] = NoCall
    BY <1>1, <1>2, <1>3
  <2>3. \A x \in Worker : wanted'[x] # None => pc'[x] = "ask"
    BY <1>1, <1>2, <1>3
  <2>4. live' \subseteq Session /\ cut' \subseteq Session \ live' /\ mixed' \in BOOLEAN
        /\ rights' \in [Worker -> User \cup {None}]
        /\ asks' \in [Worker -> 0..MaxAsks] /\ wanted' \in [Worker -> Module \cup {None}]
        /\ saver' \in {"off", "list", "saved"} /\ tosave' \subseteq live' /\ up' \in BOOLEAN
    BY DEF CallInv, TypeOK, history
  <2> QED BY <2>1, <2>2, <2>3, <2>4, <1>3 DEF TypeOK, Calls, Locks
<1>7. Saves' /\ UsersLeave'
  BY DEF CallInv, Saves, UsersLeave, history
<1>8. Places'
  <2> SUFFICES ASSUME NEW x \in Worker, pc'[x] \in {"open", "rights", "ask", "close"}
               PROVE  GetsSession(x)'
    BY DEF Places
  <2>1. x # w /\ x # v
    BY <1>3
  <2> QED BY <2>1, <1>3, <1>4 DEF CallInv, Places
<1>9. Callbacks'
  <2>1. None \notin Worker
    BY Disjoint
  <2> QED BY <2>1, <1>4 DEF CallInv, Callbacks
<1>10. SessionFollowsCall'
  <2>1. ASSUME NEW x \in Worker
        PROVE  x \in live' \cup cut' <=>
                 pc'[x] \in {"rights", "script", "ask", "close"} /\ GetsSession(x)'
    <3>1. x \in live \cup cut <=> pc[x] \in {"rights", "script", "ask", "close"} /\ GetsSession(x)
      BY DEF CallInv, SessionFollowsCall
    <3>2. live' = live /\ cut' = cut
      BY DEF history
    <3>3. CASE x = w
      BY <3>1, <3>2, <3>3, <1>4
    <3>4. CASE x # w /\ x = v
      BY <3>1, <3>2, <3>4, <1>2, <1>3, <1>4
    <3>5. CASE x # w /\ x # v
      BY <3>1, <3>2, <3>5, <1>3, <1>4
    <3> QED BY <3>3, <3>4, <3>5
  <2>2. ASSUME NEW x \in Worker, NEW y \in Worker, Outer(x)' = y
        PROVE  pc'[y] = "ask" /\ GetsSession(y)'
    <3>1. x # w /\ Outer(x) = y
      BY <2>2, <1>4, Disjoint
    <3>2. pc[y] = "ask" /\ y # w /\ y # v /\ GetsSession(y)
      BY <3>1, <1>2, <1>5, Waiting
    <3> QED BY <3>2, <1>3, <1>4
  <2> QED BY <2>1, <2>2 DEF SessionFollowsCall, Outer, GetsSession, Lists
<1>11. ActsForCaller'
  <2> SUFFICES ASSUME NEW x \in Worker, pc'[x] \in {"script", "ask"}, GetsSession(x)', ~mixed'
               PROVE  rights'[x] = IF Outer(x)' \in User THEN Outer(x)' ELSE rights'[Outer(x)']
    BY DEF ActsForCaller, RightsOf
  <2>1. x # w /\ GetsSession(x) /\ pc[x] \in {"script", "ask"} /\ Outer(x)' = Outer(x) /\ ~mixed
    BY <1>2, <1>3, <1>4 DEF history
  <2> QED BY <2>1 DEF CallInv, ActsForCaller, RightsOf
<1>12. DiesForAReason'
  BY DEF DiesForAReason
<1> QED BY <1>6, <1>7, <1>8, <1>9, <1>10, <1>11, <1>12 DEF CallInv

LEMMA CallInvAnswer ==
  ASSUME CallInv, NEW w \in Worker, Answer(w)
  PROVE  CallInv'
BY Types, Ends DEF Answer

LEMMA CallInvThrow ==
  ASSUME CallInv, NEW w \in Worker, Throw(w)
  PROVE  CallInv'
<1>1. pc[w] \in {"module", "answer"} /\ stuck' = [stuck EXCEPT ![call[w].session] = call[w].op.lock]
  BY DEF Throw
<1>2. call[w].op.lock \in {"read", "write"}
  <2>1. call[w].op \in Request
    BY <1>1, CallOf
  <2>2. \A op \in Request : op.lock \in {"read", "write"}
    BY DEF Request, createObject, updateObject, deleteObject, makeCrypt, callMethod,
           setSpecialPhysicalQuota, listParamsForMethod, listDynamicObjects, Wrapper
  <2> QED BY <2>1, <2>2
<1>3. stuck' \in Locks
  BY <1>1, <1>2, Types DEF Locks
<1> QED BY <1>1, <1>3, Ends DEF Throw

(* A script is told that its session is gone. *)
LEMMA CallInvUnknown ==
  ASSUME CallInv, NEW w \in Worker, NEW v \in Worker, Unknown(w, v)
  PROVE  CallInv'
<1>1. /\ up /\ pc[v] = "ask" /\ pc' = [pc EXCEPT ![v] = "script"]
      /\ "script" \in Place \ {"idle", "leave"}
      /\ wanted[v] # None /\ wanted' = [wanted EXCEPT ![v] = None]
      /\ UNCHANGED <<live, rights, stuck, call, asks, saver, tosave, up, history>>
  BY DEF Unknown, Goto, Place
<1>2. /\ pc \in [Worker -> Place] /\ call \in [Worker -> Calls]
      /\ wanted \in [Worker -> Module \cup {None}]
      /\ \A x \in Worker : /\ pc[x] \in {"idle", "leave"} <=> call[x] = NoCall
                           /\ wanted[x] # None => pc[x] = "ask"
  BY Types
<1>3. /\ \A x \in Worker \ {v} : pc'[x] = pc[x] /\ wanted'[x] = wanted[x]
      /\ pc'[v] = "script" /\ wanted'[v] = None
      /\ \A x \in Worker : (GetsSession(x)' <=> GetsSession(x)) /\ Outer(x)' = Outer(x)
      /\ \A x \in Worker : Outer(x) # v
  BY <1>1, <1>2, SameCall, Waiting
<1>4. TypeOK'
  <2>1. pc' \in [Worker -> Place] /\ wanted' \in [Worker -> Module \cup {None}]
    BY <1>1, <1>2
  <2>2. \A x \in Worker : pc'[x] \in {"idle", "leave"} <=> call'[x] = NoCall
    BY <1>1, <1>2, <1>3
  <2>3. \A x \in Worker : wanted'[x] # None => pc'[x] = "ask"
    BY <1>2, <1>3
  <2> QED BY <2>1, <2>2, <2>3, <1>1 DEF CallInv, TypeOK, history
<1>5. Saves' /\ UsersLeave'
  BY <1>1 DEF CallInv, Saves, UsersLeave, history
<1>6. Places'
  BY <1>3 DEF CallInv, Places
<1>7. Callbacks'
  BY <1>3 DEF CallInv, Callbacks
<1>8. SessionFollowsCall'
  <2>1. \A x \in Worker :
          x \in live' \cup cut' <=> pc'[x] \in {"rights", "script", "ask", "close"} /\ GetsSession(x)'
    BY <1>1, <1>3 DEF CallInv, SessionFollowsCall, history
  <2>2. ASSUME NEW x \in Worker, NEW y \in Worker, Outer(x)' = y
        PROVE  pc'[y] = "ask" /\ GetsSession(y)'
    BY <2>2, <1>3, Waiting
  <2> QED BY <2>1, <2>2 DEF SessionFollowsCall, Outer, GetsSession, Lists
<1>9. ActsForCaller'
  BY <1>1, <1>3 DEF CallInv, ActsForCaller, RightsOf, history
<1>10. DiesForAReason'
  BY <1>1 DEF DiesForAReason
<1> QED BY <1>4, <1>5, <1>6, <1>7, <1>8, <1>9, <1>10 DEF CallInv

-----------------------------------------------------------------------------
(* Who removes a session, what ends a process, and who saves the sessions.     *)
LEMMA CallInvLeave ==
  ASSUME CallInv, NEW w \in Worker, Logout(w) \/ Leave(w)
  PROVE  CallInv'
<1>1. PICK to \in {"idle", "leave"} : pc' = [pc EXCEPT ![w] = to]
  BY DEF Logout, Leave, Step, Goto
<1>2. /\ up /\ pc[w] \in {"idle", "leave"} /\ to \in Place
      /\ UNCHANGED <<rights, call, asks, wanted, saver, tosave, up, mixed>>
  BY DEF Logout, Leave, Step, Goto, Place, history
<1>3. /\ live' \subseteq Session /\ cut' \subseteq Session \ live' /\ stuck' \in Locks
      /\ tosave' \subseteq live'
      /\ \A x \in Session : x \in live' \cup cut' <=> x \in live \cup cut
  <2>1. CASE Logout(w)
    BY <2>1, <1>2, Types DEF Logout, history, CallInv, TypeOK
  <2>2. CASE Leave(w)
    <3>1. PICK s \in Leaving : /\ live' = live \ {s} /\ stuck' = [stuck EXCEPT ![s] = "free"]
                               /\ cut' = cut \cup ({s} \cap live)
      BY <2>2 DEF Leave, WithoutSession, Unlocked
    <3>2. tosave = {} /\ s \in Session
      BY <2>2, Disjoint DEF Leave, MayExclude, CallInv, Saves
    <3>3. stuck' \in Locks
      BY <3>1, <3>2, Types DEF Locks
    <3>4. /\ live' \subseteq Session /\ cut' \subseteq Session \ live'
          /\ \A x \in Session : x \in live' \cup cut' <=> x \in live \cup cut
      BY <3>1, <3>2, Types
    <3> QED BY <3>2, <3>3, <3>4, <1>2
  <2> QED BY <2>1, <2>2
<1>4. /\ pc \in [Worker -> Place] /\ call \in [Worker -> Calls]
      /\ \A x \in Worker : /\ pc[x] \in {"idle", "leave"} <=> call[x] = NoCall
                           /\ wanted[x] # None => pc[x] = "ask"
  BY Types
<1>5. /\ \A x \in Worker \ {w} : pc'[x] = pc[x]
      /\ pc'[w] = to /\ ~GetsSession(w)
      /\ \A x \in Worker : (GetsSession(x)' <=> GetsSession(x)) /\ Outer(x)' = Outer(x)
      /\ \A x \in Worker : Outer(x) # w
  BY <1>1, <1>2, <1>4, SameCall, CallOf, Waiting
<1>6. TypeOK'
  <2>1. pc' \in [Worker -> Place]
    BY <1>1, <1>2, <1>4
  <2>2. \A x \in Worker : pc'[x] \in {"idle", "leave"} <=> call'[x] = NoCall
    BY <1>2, <1>4, <1>5
  <2>3. \A x \in Worker : wanted'[x] # None => pc'[x] = "ask"
    BY <1>2, <1>4, <1>5
  <2> QED BY <2>1, <2>2, <2>3, <1>2, <1>3 DEF CallInv, TypeOK, Locks
<1>7. Saves' /\ UsersLeave'
  BY <1>2, <1>3, Disjoint DEF CallInv, Saves, UsersLeave
<1>8. Places'
  BY <1>5 DEF CallInv, Places
<1>9. Callbacks'
  BY <1>2, <1>5 DEF CallInv, Callbacks
<1>10. SessionFollowsCall'
  <2>1. \A x \in Worker :
          x \in live' \cup cut' <=> pc'[x] \in {"rights", "script", "ask", "close"} /\ GetsSession(x)'
    BY <1>3, <1>5, Disjoint DEF CallInv, SessionFollowsCall
  <2>2. ASSUME NEW x \in Worker, NEW y \in Worker, Outer(x)' = y
        PROVE  pc'[y] = "ask" /\ GetsSession(y)'
    BY <2>2, <1>5, Waiting
  <2> QED BY <2>1, <2>2 DEF SessionFollowsCall, Outer, GetsSession, Lists
<1>11. ActsForCaller'
  BY <1>2, <1>5 DEF CallInv, ActsForCaller, RightsOf
<1>12. DiesForAReason'
  BY <1>2 DEF DiesForAReason
<1> QED BY <1>6, <1>7, <1>8, <1>9, <1>10, <1>11, <1>12 DEF CallInv

(* A session that a call needs and does not find was removed by others. *)
LEMMA CallInvDie ==
  ASSUME CallInv, NEW w \in Worker, Die(w)
  PROVE  CallInv'
<1>1. /\ up' = FALSE
      /\ UNCHANGED <<live, rights, stuck, pc, call, asks, wanted, saver, tosave, history>>
  BY DEF Die
<1>2. TypeOK'
  BY <1>1 DEF CallInv, TypeOK, history
<1>3. Saves' /\ Places' /\ Callbacks' /\ ActsForCaller' /\ SessionFollowsCall' /\ UsersLeave'
  BY <1>1 DEF CallInv, Saves, Places, Callbacks, ActsForCaller, RightsOf, UsersLeave,
              SessionFollowsCall, Outer, GetsSession, Lists, history
<1>4. \/ pc[w] = "rights" /\ (~call[w].op.carries \/ cut \cap {w, Outer(w)} # {})
      \/ pc[w] = "close" /\ w \in cut
  <2>1. CASE pc[w] \in {"rights", "close"} /\ w \notin live
    <3>1. w \in cut
      BY <2>1 DEF CallInv, Places, SessionFollowsCall
    <3> QED BY <2>1, <3>1
  <2>2. CASE pc[w] = "rights" /\ Outer(w) \notin live
    <3>1. CASE Outer(w) \in Worker
      BY <2>2, <3>1, Waiting
    <3>2. CASE Outer(w) \in User
      BY <2>2, <3>2 DEF CallInv, UsersLeave
    <3> QED BY <2>2, <3>1, <3>2, CallOf, Disjoint
  <2> QED BY <2>1, <2>2 DEF Die, Outer
<1>5. DiesForAReason'
  BY <1>1, <1>4 DEF DiesForAReason, Outer, history
<1> QED BY <1>2, <1>3, <1>5 DEF CallInv

LEMMA CallInvSave ==
  ASSUME CallInv, SaveStart \/ Save
  PROVE  CallInv'
<1>1. /\ up /\ UNCHANGED <<live, rights, stuck, pc, call, asks, wanted, up, history>>
      /\ saver' \in {"list", "saved"} /\ tosave' \subseteq live
      /\ saver' # "list" => tosave' = {}
  BY DEF Save, SaveStart, SaveSession, SaveEnd, CallInv, TypeOK
<1>2. TypeOK'
  BY <1>1 DEF CallInv, TypeOK, history
<1>3. Saves' /\ Places' /\ Callbacks' /\ ActsForCaller' /\ SessionFollowsCall' /\ UsersLeave'
  BY <1>1 DEF CallInv, Saves, Places, Callbacks, ActsForCaller, RightsOf, UsersLeave,
              SessionFollowsCall, Outer, GetsSession, Lists, history
<1>4. DiesForAReason'
  BY <1>1 DEF DiesForAReason
<1> QED BY <1>2, <1>3, <1>4 DEF CallInv

LEMMA CallInvStep ==
  ASSUME CallInv, [Next]_vars
  PROVE  CallInv'
<1>1. ASSUME NEW w \in Worker, Proceed(w) PROVE CallInv'
  BY <1>1, CallInvCallback, CallInvUnknown, CallInvLock, CallInvEnter, CallInvOpen,
     CallInvCopyRights, CallInvDie, CallInvScriptEnds, CallInvClose, CallInvCrypted,
     CallInvAnswer, CallInvLeave, Disjoint DEF Proceed
<1>2. CASE UNCHANGED vars
  BY <1>2 DEF vars, history, CallInv, TypeOK, Saves, Places, Callbacks, ActsForCaller, RightsOf,
              UsersLeave, SessionFollowsCall, DiesForAReason, Outer, GetsSession, Lists
<1> QED BY <1>1, <1>2, CallInvAsk, CallInvTalk, CallInvThrow, CallInvLeave, CallInvSave DEF Next

-----------------------------------------------------------------------------
(* Calls are nested: no script waits, through whatever calls, for itself.       *)
Busy == {w \in Worker : call[w] # NoCall}

Below(rank) == \A w \in Busy : Outer(w) \in Worker => rank[Outer(w)] < rank[w]

Nested == \E rank \in [Worker -> Nat] : Below(rank)

LEMMA NestedInit ==
  ASSUME Init
  PROVE  Nested
<1>1. [w \in Worker |-> 0] \in [Worker -> Nat] /\ Busy = {}
  BY DEF Init, Busy
<1> QED BY <1>1 DEF Nested, Below

LEMMA NestedSame ==
  ASSUME Nested, Busy' \subseteq Busy,
         \A w \in Busy' : Outer(w)' \in Worker => Outer(w)' = Outer(w)
  PROVE  Nested'
<1>1. PICK rank \in [Worker -> Nat] : Below(rank)
  BY DEF Nested
<1>2. \A w \in Busy' : Outer(w)' \in Worker => rank[Outer(w)'] < rank[w]
  BY <1>1 DEF Below
<1>3. Below(rank)'
  BY <1>2 DEF Below
<1> QED BY <1>3 DEF Nested

LEMMA NestedCallback ==
  ASSUME CallInv, Nested, NEW w \in Worker, NEW v \in Worker, Callback(w, v)
  PROVE  Nested'
<1>1. PICK rank \in [Worker -> Nat] : Below(rank)
  BY DEF Nested
<1>2. PICK op : call' = [call EXCEPT ![w] = [op |-> op, mod |-> wanted[v], session |-> v]]
  BY DEF Callback, Start
<1>3. pc[w] = "idle" /\ v # w
  BY DEF Callback, Step, Goto
<1>4. Outer(w)' = v /\ \A x \in Worker \ {w} : call'[x] = call[x] /\ Outer(x)' = Outer(x)
  BY <1>2, Types DEF Outer
<1> DEFINE higher == [rank EXCEPT ![w] = rank[v] + 1]
<1>5. /\ higher \in [Worker -> Nat] /\ higher[w] = rank[v] + 1
      /\ \A x \in Worker \ {w} : higher[x] = rank[x]
  OBVIOUS
<1>6. rank[v] \in Nat
  OBVIOUS
<1> HIDE DEF higher
<1>7. ASSUME NEW x \in Busy', Outer(x)' \in Worker
      PROVE  higher[Outer(x)'] < higher[x]
  <2>1. CASE x = w
    BY <2>1, <1>3, <1>4, <1>5, <1>6
  <2>2. CASE x # w
    <3>1. x \in Busy /\ Outer(x)' = Outer(x) /\ x \in Worker
      BY <2>2, <1>4, <1>7 DEF Busy
    <3>2. Outer(x) # w
      BY <3>1, <1>3, <1>7, Waiting
    <3>3. rank[Outer(x)] < rank[x]
      BY <3>1, <1>1, <1>7 DEF Below
    <3> QED BY <3>1, <3>2, <3>3, <2>2, <1>5, <1>7
  <2> QED BY <2>1, <2>2
<1>8. Below(higher)'
  BY <1>7 DEF Below
<1> QED BY <1>5, <1>8 DEF Nested

(* Every other step keeps a call's session, or ends the call, or starts a user's. *)
LEMMA NestedStep ==
  ASSUME CallInv, Nested, [Next]_vars
  PROVE  Nested'
<1>1. ASSUME NEW w \in Worker, Crypted(w)
      PROVE  Nested'
  <2>1. PICK op : call' = [call EXCEPT ![w] = [op |-> op, mod |-> call[w].mod,
                                              session |-> call[w].session]]
    BY <1>1 DEF Crypted, Start
  <2>2. call[w] # NoCall
    BY <1>1, Types DEF Crypted, Step
  <2>3. Busy' \subseteq Busy /\ \A x \in Worker : Outer(x)' = Outer(x)
    BY <2>1, <2>2, Types DEF Busy, Outer
  <2> QED BY <2>3, NestedSame DEF Busy
<1>2. ASSUME NEW w \in Worker, Answer(w) \/ Throw(w)
      PROVE  Nested'
  <2>1. call' = [call EXCEPT ![w] = NoCall]
    BY <1>2 DEF Answer, Throw
  <2>2. /\ Busy' \subseteq Busy /\ w \notin Busy'
        /\ \A x \in Worker \ {w} : Outer(x)' = Outer(x)
    BY <2>1, Types DEF Busy, Outer
  <2> QED BY <2>2, NestedSame DEF Busy
<1>3. ASSUME NEW w \in Worker, NEW u \in User, Ask(w, u)
      PROVE  Nested'
  <2>1. PICK op, m : call' = [call EXCEPT ![w] = [op |-> op, mod |-> m, session |-> u]]
    BY <1>3 DEF Ask, Start
  <2>2. Outer(w)' = u /\ u \notin Worker
        /\ \A x \in Worker \ {w} : call'[x] = call[x] /\ Outer(x)' = Outer(x)
    BY <2>1, Types, Disjoint DEF Outer
  <2>3. PICK rank \in [Worker -> Nat] : Below(rank)
    BY DEF Nested
  <2>4. \A x \in Busy' : Outer(x)' \in Worker => rank[Outer(x)'] < rank[x]
    BY <2>2, <2>3 DEF Below, Busy
  <2>5. Below(rank)'
    BY <2>4 DEF Below
  <2> QED BY <2>5 DEF Nested
<1>4. ASSUME UNCHANGED call
      PROVE  Nested'
  BY <1>4, NestedSame DEF Busy, Outer
<1>5. ASSUME NEW w \in Worker, Proceed(w)
      PROVE  Nested'
  <2>1. CASE Lock(w) \/ Refuse(w) \/ Enter(w) \/ Open(w) \/ CopyRights(w)
    BY <2>1, <1>4 DEF Lock, Refuse, Enter, Open, CopyRights
  <2>2. CASE Die(w) \/ ScriptEnds(w) \/ Close(w) \/ Leave(w)
    BY <2>2, <1>4 DEF Die, ScriptEnds, Close, Leave
  <2>3. ASSUME NEW v \in Worker, Unknown(v, w)
        PROVE  Nested'
    BY <2>3, <1>4 DEF Unknown
  <2> QED BY <2>1, <2>2, <2>3, <1>1, <1>2, <1>5, NestedCallback, Disjoint DEF Proceed
<1>6. ASSUME NEW w \in Worker, Talk(w) \/ Logout(w)
      PROVE  Nested'
  BY <1>6, <1>4 DEF Talk, Logout
<1>7. ASSUME SaveStart \/ Save
      PROVE  Nested'
  BY <1>7, <1>4 DEF SaveStart, Save, SaveSession, SaveEnd
<1>8. ASSUME UNCHANGED vars
      PROVE  Nested'
  BY <1>8, <1>4 DEF vars
<1> QED BY <1>2, <1>3, <1>5, <1>6, <1>7, <1>8 DEF Next

-----------------------------------------------------------------------------
(* From a script to the user at the bottom of its calls. *)
LEMMA UserOfUnfolds ==
  ASSUME CallInv
  PROVE  /\ \A s \in Session : UserOf[0][s] = s
         /\ \A n \in Nat, s \in Session :
              UserOf[n + 1][s] = IF s \in Worker /\ call[s] # NoCall THEN UserOf[n][call[s].session]
                                 ELSE s
<1> DEFINE z == [s \in Session |-> s]
           D == [Session -> Session]
           Up(g) == [s \in Session |-> IF s \in Worker /\ call[s] # NoCall
                                      THEN g[call[s].session] ELSE s]
           F == [g \in D |-> Up(g)]
           P(x) == x = [n \in Nat |-> IF n = 0 THEN z ELSE Up(x[n - 1])]
<1>1. \A w \in Worker : call[w] # NoCall => call[w].session \in Session
  BY Types, CallOf DEF Outer
<1>2. z \in D /\ F \in [D -> D]
  BY <1>1
<1>3. PICK h \in [Nat -> D] : h[0] = z /\ \A n \in Nat \ {0} : h[n] = F[h[n - 1]]
  <2> HIDE DEF z, F, D
  <2> QED BY <1>2, Recursion
<1>4. P(h)
  <2>1. ASSUME NEW n \in Nat PROVE h[n] = IF n = 0 THEN z ELSE Up(h[n - 1])
    <3>1. n # 0 => n - 1 \in Nat /\ h[n - 1] \in D
      OBVIOUS
    <3> HIDE DEF z, D, Up
    <3> QED BY <3>1, <1>3
  <2> HIDE DEF z, D, Up
  <2> QED BY <2>1
<1>5. P(CHOOSE x : P(x))
  <2> HIDE DEF P
  <2> QED BY <1>4
<1>6. UserOf = CHOOSE x : P(x)
  BY DEF UserOf
<1>7. UserOf = [n \in Nat |-> IF n = 0 THEN z ELSE Up(UserOf[n - 1])]
  <2> HIDE DEF z, Up
  <2> QED BY <1>5, <1>6
<1>8. UserOf[0] = z /\ \A n \in Nat : UserOf[n + 1] = Up(UserOf[n])
  <2> HIDE DEF z, Up
  <2>1. \A n \in Nat : n + 1 \in Nat /\ n + 1 # 0 /\ (n + 1) - 1 = n
    OBVIOUS
  <2> QED BY <1>7, <2>1
<1>9. \A s \in Session : z[s] = s
  OBVIOUS
<1>10. ASSUME NEW g, NEW s \in Session
       PROVE  Up(g)[s] = IF s \in Worker /\ call[s] # NoCall THEN g[call[s].session] ELSE s
  OBVIOUS
<1> HIDE DEF z, Up
<1>11. ASSUME NEW n \in Nat, NEW s \in Session
       PROVE  UserOf[n + 1][s] = IF s \in Worker /\ call[s] # NoCall THEN UserOf[n][call[s].session]
                                 ELSE s
  <2>1. UserOf[n + 1] = Up(UserOf[n])
    BY <1>8
  <2>2. Up(UserOf[n])[s] = IF s \in Worker /\ call[s] # NoCall THEN UserOf[n][call[s].session]
                           ELSE s
    BY <1>10
  <2> QED BY <2>1, <2>2
<1> QED BY <1>8, <1>9, <1>11

(* The scripts that UserOf follows to a user in n steps. *)
Reach(n) == {w \in Busy : UserOf[n][w] \in User}

LEMMA UserIsOwn ==
  ASSUME CallInv, NEW n \in Nat, NEW u \in User
  PROVE  UserOf[n][u] = u
<1>1. u \in Session /\ u \notin Worker
  BY Disjoint
<1>2. CASE n = 0
  BY <1>1, <1>2, UserOfUnfolds
<1>3. CASE n # 0
  <2>1. n - 1 \in Nat /\ (n - 1) + 1 = n
    BY <1>3
  <2>2. UserOf[(n - 1) + 1][u] = u
    BY <1>1, <2>1, UserOfUnfolds
  <2> QED BY <2>1, <2>2
<1> QED BY <1>2, <1>3

(* The caller of a script is a user or waits for it. *)
LEMMA Callers ==
  ASSUME CallInv, NEW w \in Busy
  PROVE  /\ w \in Worker /\ w \in Session /\ w \notin User /\ call[w] # NoCall
         /\ \/ call[w].session \in User
            \/ /\ call[w].session \in Busy /\ pc[call[w].session] = "ask"
               /\ GetsSession(call[w].session)
<1>1. w \in Worker /\ w \in Session /\ w \notin User /\ call[w] # NoCall
  BY Disjoint DEF Busy
<1>2. call[w].session \in User \cup Worker
  BY <1>1, Types, CallOf, Disjoint DEF Outer
<1>3. CASE call[w].session \in Worker
  <2>1. pc[call[w].session] = "ask" /\ GetsSession(call[w].session)
    BY <1>1, <1>3, Waiting DEF Outer
  <2> QED BY <1>1, <1>3, <2>1, Types DEF Busy
<1> QED BY <1>1, <1>2, <1>3

LEMMA ReachStep ==
  ASSUME CallInv, NEW n \in Nat, NEW w \in Busy
  PROVE  /\ UserOf[n + 1][w] = UserOf[n][call[w].session]
         /\ w \in Reach(n + 1) <=> call[w].session \in User \cup Reach(n)
<1>1. UserOf[n + 1][w] = UserOf[n][call[w].session]
  BY Callers, UserOfUnfolds
<1>2. CASE call[w].session \in User
  BY <1>1, <1>2, UserIsOwn DEF Reach
<1>3. CASE call[w].session \in Busy /\ call[w].session \notin User
  BY <1>1, <1>3 DEF Reach
<1> QED BY <1>1, <1>2, <1>3, Callers

LEMMA ReachGrows ==
  ASSUME CallInv, NEW n \in Nat
  PROVE  Reach(n) \subseteq Reach(n + 1)
<1> DEFINE T == {m \in Nat : Reach(m) \subseteq Reach(m + 1)}
<1>1. 0 \in T
  <2>1. \A w \in Busy : UserOf[0][w] = w /\ w \notin User
    BY Callers, UserOfUnfolds
  <2> QED BY <2>1 DEF Reach
<1>2. ASSUME NEW m \in Nat, m \in T PROVE m + 1 \in T
  <2>1. ASSUME NEW w \in Busy, w \in Reach(m + 1) PROVE w \in Reach((m + 1) + 1)
    <3>1. call[w].session \in User \cup Reach(m)
      BY <2>1, ReachStep
    <3>2. call[w].session \in User \cup Reach(m + 1) /\ m + 1 \in Nat
      BY <3>1, <1>2
    <3> QED BY <3>2, ReachStep
  <2>2. Reach(m + 1) \subseteq Busy
    BY DEF Reach
  <2> QED BY <2>1, <2>2
<1>3. Nat \subseteq T
  <2> HIDE DEF T
  <2> QED BY <1>1, <1>2, EveryNumber
<1> QED BY <1>3

LEMMA WorkersAreFinite ==
  IsFiniteSet(Worker) /\ Cardinality(Worker) \in Nat
<1>1. IsFiniteSet(Worker)
  BY ModuleCallsAssumption, FS_Union DEF Worker
<1> QED BY <1>1, FS_CardinalityType

(* As many steps as there are workers reach the user of every script. *)
LEMMA EveryScriptReached ==
  ASSUME CallInv, Nested
  PROVE  Reach(Cardinality(Worker)) = Busy
<1> DEFINE T == {n \in Nat : Reach(n) = Busy \/ Cardinality(Reach(n)) >= n}
<1>0. \A n \in Nat : /\ Reach(n) \subseteq Busy /\ Busy \subseteq Worker
                     /\ IsFiniteSet(Reach(n)) /\ Cardinality(Reach(n)) \in Nat
  <2>1. \A n \in Nat : Reach(n) \subseteq Busy /\ Busy \subseteq Worker
    BY DEF Reach, Busy
  <2> QED BY <2>1, WorkersAreFinite, FS_Subset, FS_CardinalityType
<1>1. 0 \in T
  BY <1>0
<1>2. ASSUME NEW n \in Nat, n \in T PROVE n + 1 \in T
  <2>1. Reach(n) \subseteq Reach(n + 1) /\ n + 1 \in Nat
    BY ReachGrows
  <2>2. CASE Reach(n) = Busy
    BY <2>1, <2>2, <1>0
  <2>3. CASE Reach(n) # Busy
    <3>1. PICK rank \in [Worker -> Nat] : Below(rank)
      BY DEF Nested
    <3> DEFINE R == {rank[w] : w \in Busy \ Reach(n)}
    <3>2. R \in SUBSET Nat /\ R # {}
      BY <2>3, <1>0
    <3>3. PICK r \in R : \A q \in R : r <= q
      <4> HIDE DEF R
      <4> QED BY <3>2, Least
    <3>4. PICK w \in Busy \ Reach(n) : rank[w] = r
      BY <3>3
    <3>5. call[w].session \in User \cup Reach(n)
      <4>1. SUFFICES ASSUME call[w].session \in Busy \ Reach(n) PROVE FALSE
        BY Callers
      <4>2. rank[call[w].session] < rank[w] /\ rank[call[w].session] \in R
        BY <3>1, <4>1 DEF Below, Busy, Outer
      <4>3. rank[w] <= rank[call[w].session]
        BY <3>3, <3>4, <4>2
      <4>4. rank[w] \in Nat /\ rank[call[w].session] \in Nat
        BY <3>1, <4>1, <1>0
      <4> QED BY <4>2, <4>3, <4>4
    <3>6. w \in Reach(n + 1)
      BY <3>5, ReachStep
    <3>7. Cardinality(Reach(n)) < Cardinality(Reach(n + 1))
      <4>1. Reach(n) # Reach(n + 1)
        BY <3>4, <3>6
      <4>2. /\ Cardinality(Reach(n)) <= Cardinality(Reach(n + 1))
            /\ Cardinality(Reach(n)) # Cardinality(Reach(n + 1))
        BY <4>1, <2>1, <1>0, FS_Subset
      <4> QED BY <4>2, <2>1, <1>0
    <3>8. Cardinality(Reach(n)) >= n
      BY <2>3, <1>2
    <3>9. Cardinality(Reach(n + 1)) >= n + 1
      <4>1. Cardinality(Reach(n)) \in Nat /\ Cardinality(Reach(n + 1)) \in Nat
        BY <1>0, <2>1
      <4> QED BY <4>1, <3>7, <3>8
    <3> QED BY <3>9, <2>1
  <2> QED BY <2>2, <2>3
<1>3. Nat \subseteq T
  <2> HIDE DEF T
  <2> QED BY <1>1, <1>2, EveryNumber
<1> DEFINE all == Cardinality(Worker)
<1>4. all \in Nat
  BY WorkersAreFinite
<1>5. Reach(all) = Busy \/ Cardinality(Reach(all)) >= all
  BY <1>3, <1>4
<1>6. CASE Cardinality(Reach(all)) >= all
  <2>1. Reach(all) \subseteq Worker /\ Cardinality(Reach(all)) <= Cardinality(Worker)
    BY <1>0, <1>4, WorkersAreFinite, FS_Subset
  <2>2. Cardinality(Reach(all)) = Cardinality(Worker)
    BY <2>1, <1>6, <1>0, <1>4
  <2>3. Reach(all) = Worker
    BY <2>1, <2>2, WorkersAreFinite, FS_Subset
  <2> QED BY <2>3, <1>0, <1>4
<1> QED BY <1>5, <1>6

LEMMA RightsAreOfUser ==
  ASSUME CallInv, ~mixed, NEW n \in Nat
  PROVE  \A w \in Reach(n) : pc[w] \in {"script", "ask"} /\ GetsSession(w) => rights[w] = UserOf[n][w]
<1> DEFINE Right(m) == \A w \in Reach(m) :
                         pc[w] \in {"script", "ask"} /\ GetsSession(w) => rights[w] = UserOf[m][w]
           T == {m \in Nat : Right(m)}
<1>1. 0 \in T
  <2>1. \A w \in Busy : UserOf[0][w] = w /\ w \notin User
    BY Callers, UserOfUnfolds
  <2> QED BY <2>1 DEF Reach
<1>2. ASSUME NEW m \in Nat, Right(m) PROVE Right(m + 1)
  <2> SUFFICES ASSUME NEW w \in Reach(m + 1), pc[w] \in {"script", "ask"}, GetsSession(w)
               PROVE  rights[w] = UserOf[m + 1][w]
    OBVIOUS
  <2>1. w \in Busy
    BY DEF Reach
  <2>2. rights[w] = RightsOf(call[w].session)
    BY <2>1 DEF CallInv, ActsForCaller, Busy, Outer
  <2>3. CASE call[w].session \in User
    <3>1. UserOf[m + 1][w] = UserOf[m][call[w].session]
      BY <2>1, ReachStep
    <3>2. UserOf[m][call[w].session] = call[w].session
      BY <2>3, UserIsOwn
    <3> QED BY <3>1, <3>2, <2>2, <2>3 DEF RightsOf
  <2>4. CASE call[w].session \notin User
    <3>1. call[w].session \in Reach(m) /\ pc[call[w].session] = "ask" /\ GetsSession(call[w].session)
      BY <2>1, <2>4, ReachStep, Callers
    <3>2. rights[call[w].session] = UserOf[m][call[w].session]
      BY <3>1, <1>2
    <3>3. UserOf[m + 1][w] = UserOf[m][call[w].session]
      BY <2>1, ReachStep
    <3> QED BY <3>2, <3>3, <2>2, <2>4 DEF RightsOf
  <2> QED BY <2>3, <2>4
<1> HIDE DEF Right
<1>3. Nat \subseteq T
  <2>1. \A m \in Nat : m \in T => m + 1 \in T
    BY <1>2
  <2> HIDE DEF T
  <2> QED BY <1>1, <2>1, EveryNumber
<1>4. Right(n)
  BY <1>3
<1> QED BY <1>4 DEF Right

LEMMA ActsForUserHolds ==
  ASSUME CallInv, Nested
  PROVE  ActsForUser
<1> SUFFICES ASSUME NEW w \in Worker, pc[w] \in {"script", "ask"}, GetsSession(w), ~mixed
             PROVE  rights[w] = UserOf[Cardinality(Worker)][w]
  BY DEF ActsForUser
<1>1. w \in Reach(Cardinality(Worker)) /\ Cardinality(Worker) \in Nat
  BY EveryScriptReached, WorkersAreFinite, Types DEF Busy
<1> QED BY <1>1, RightsAreOfUser

-----------------------------------------------------------------------------
(* The theorems. *)
LEMMA CallsStayRight ==
  Spec => [](CallInv /\ Nested)
<1>1. Init => CallInv /\ Nested
  BY CallInvInit, NestedInit
<1>2. CallInv /\ Nested /\ [Next]_vars => (CallInv /\ Nested)'
  BY CallInvStep, NestedStep
<1> QED BY <1>1, <1>2, PTL DEF Spec

(* Whatever the workers, their scripts and the thread that ends the daemon do,   *)
(* whoever is logged out, and in whatever order: the sessions that saveToDisk    *)
(* has still to read are in SessionDB, a worker has a request while it works,    *)
(* and a script that wants an answer waits for it.                             *)
THEOREM CallsHaveTypes ==
  Spec => []TypeOK
<1>1. CallInv => TypeOK
  BY DEF CallInv
<1> QED BY <1>1, CallsStayRight, PTL

(* CoreModule::action makes a session for the call, and only a logout, or the    *)
(* end of a call whose own session was logged out, removes it before the call    *)
(* does; no request of a script outlives the call that it comes from.          *)
THEOREM ModuleSessionsFollowCalls ==
  Spec => []SessionFollowsCall
<1>1. CallInv => SessionFollowsCall
  BY DEF CallInv
<1> QED BY <1>1, CallsStayRight, PTL

(* However deep calls are nested, a script acts with the credentials of the      *)
(* user at the bottom of them, until some are written to freed memory.          *)
THEOREM ScriptsActForTheirUser ==
  Spec => []ActsForUser
<1>1. CallInv /\ Nested => ActsForUser
  BY ActsForUserHolds
<1> QED BY <1>1, CallsStayRight, PTL

(* Where the process ends in a call, either the method passes no sessionid to a   *)
(* module with wantsrpc, or the session that the call came with, or the one it   *)
(* was given, had been removed by others.                                     *)
THEOREM ProcessDiesForAReason ==
  Spec => []DiesForAReason
<1>1. CallInv => DiesForAReason
  BY DEF CallInv
<1> QED BY <1>1, CallsStayRight, PTL

=============================================================================
