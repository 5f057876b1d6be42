------------------------------ MODULE ModuleCalls ------------------------------
(***************************************************************************)
(* The calls of opencore to its modules, and of the modules back to opencore *)
(* (moduledb.cpp, module.cpp, api.cpp), while the end of the daemon saves     *)
(* the sessions (session.cpp saveToDisk).                                    *)
(*                                                                         *)
(* A request locks its session, then serlock of its module, and starts the    *)
(* module's script.  For a module with wantsrpc opencore makes a session that *)
(* lives as long as the call; with it the script may send requests of its     *)
(* own, which take another worker.  A module session has the name of the      *)
(* worker whose call it was made for: each worker has one call at a time.     *)
(*                                                                         *)
(* lck of SessionDB is held over a step by saveToDisk only.  A session may be   *)
(* logged out by whoever knows its id, a script its own; what comes of the     *)
(* request that was sent with it is in SessionUse.tla, what comes of the calls  *)
(* of modules is here.                                                       *)
(***************************************************************************)
EXTENDS Naturals, FiniteSets

CONSTANTS
  Module, None,
  WantsRPC, Demo,         \* modules with that attribute in module.xml
  MayAsk,                 \* the modules that the script of a module may ask for
  User,                   \* the sessions of users
  Leaving,                \* the sessions that may be logged out
  Front, Back,            \* the workers of the two HTTP servers
  Clients,                \* the users whose requests a worker gets
  Commands,               \* what classes are asked for: a module's, and unknown ones
  MaxAsks,                \* bound on the requests of one script
  MaxStuck                \* bound on the sessions left locked at a time

Worker == Front \cup Back
Session == User \cup Worker

ASSUME ModuleCallsAssumption ==
  /\ None \notin Module \cup Session
  /\ WantsRPC \subseteq Module /\ Demo \subseteq Module
  /\ MayAsk \in [Module -> SUBSET Module]
  /\ Commands \in [Module \cup {None} -> SUBSET STRING]
  /\ Front \cap Back = {} /\ User \cap Worker = {}
  /\ Clients \in [Worker -> SUBSET User]
  /\ IsFiniteSet(Front) /\ IsFiniteSet(Back)
  /\ MaxAsks \in Nat /\ MaxStuck \in Nat
  /\ Leaving \subseteq Session

VARIABLES
  live,                   \* the sessions in SessionDB
  rights,                 \* the user whose credentials a module session has
  stuck,                  \* how a session is left locked by a request that threw
  pc, call,               \* a worker's place, and its request
  asks, wanted,           \* requests its script sent; the module it wants
  saver, tosave,          \* the thread that ends the daemon; what it has to save
  up,                     \* the process lives
  (* History, read by the properties only: *)
  cut,                    \* sessions that others removed
  mixed                   \* credentials were written to a session's reused memory

history == <<cut, mixed>>
vars == <<live, rights, stuck, pc, call, asks, wanted, saver, tosave, up, history>>

-----------------------------------------------------------------------------
(* What ModuleDB's methods differ in: how their caller locks the session, and *)
(* whether the parameters have the id of the session.                        *)
Wrapper(command, lock, carries) == [command |-> command, lock |-> lock, carries |-> carries]

createObject == Wrapper("create", "write", TRUE)
updateObject == Wrapper("update", "write", TRUE)
deleteObject == Wrapper("delete", "write", TRUE)
makeCrypt == Wrapper("crypt", "write", FALSE)
callMethod == Wrapper("callmethod", "write", FALSE)
setSpecialPhysicalQuota == Wrapper("setspecialphysicalquota", "write", FALSE)
listParamsForMethod == Wrapper("listparamsformethod", "read", FALSE)
listDynamicObjects == Wrapper("listobjects", "read", FALSE)

Request == {createObject, updateObject, deleteObject, makeCrypt, callMethod,
            setSpecialPhysicalQuota, listParamsForMethod, listDynamicObjects}
Asked(m) == {op \in Request : op.command \in Commands[m]}
NoCall == [op |-> None, mod |-> None, session |-> None]

-----------------------------------------------------------------------------
Place == {"idle", "lock", "module", "open", "rights", "script", "ask", "close", "answer", "leave"}

(* CoreSession::spinlock.  An exception out of a request leaves it locked.    *)
Locked(w) == pc[w] \notin {"idle", "lock", "leave"}
Collide(mode, other) == "write" \in {mode, other} /\ "free" \notin {mode, other}
Hinders(v, w) ==
  v # w /\ Locked(v) /\ call[v].session = call[w].session /\ Collide(call[v].op.lock, call[w].op.lock)
MayLock(w) ==
  ~Collide(stuck[call[w].session], call[w].op.lock) /\ \A v \in Worker : ~Hinders(v, w)

(* serlock of the module: a listing shares it, any other action does not.    *)
Inside(w) == pc[w] \in {"open", "rights", "script", "ask", "close"}
Lists(w) == call[w].op.command = "listobjects"
Bars(v, w) == Inside(v) /\ call[v].mod = call[w].mod /\ ~(Lists(v) /\ Lists(w))
MayEnter(w) == \A v \in Worker : ~Bars(v, w)

(* An exclusive section of lck, and a shared one.                            *)
(* (MayExcludeAnyway is a variant: who changes the list waits for nobody.)    *)
MayExcludeAnyway == TRUE
MayExclude == saver # "list"

GetsSession(w) == call[w].mod \in WantsRPC /\ ~Lists(w)

-----------------------------------------------------------------------------
Init ==
  /\ live = User /\ rights = [w \in Worker |-> None] /\ stuck = [s \in Session |-> "free"]
  /\ pc = [w \in Worker |-> "idle"] /\ call = [w \in Worker |-> NoCall]
  /\ asks = [w \in Worker |-> 0] /\ wanted = [w \in Worker |-> None]
  /\ saver = "off" /\ tosave = {} /\ up = TRUE /\ cut = {} /\ mixed = FALSE

Goto(w, place) == pc' = [pc EXCEPT ![w] = place]
Start(w, op, m, s) == call' = [call EXCEPT ![w] = [op |-> op, mod |-> m, session |-> s]]

(* One step of worker w from one place to another.                           *)
Step(w, from, to) ==
  /\ up /\ pc[w] = from
  /\ Goto(w, to)
  /\ UNCHANGED <<saver, tosave, up>>

(* A user's request for a class of a module; None: no such class, or no such   *)
(* method.  makeCrypt comes first where an object has a password that its      *)
(* module encrypts.  Either server has clients of its own (bind).             *)
Ask(w, u) ==
  /\ Step(w, "idle", "lock") /\ u \in live \cap Clients[w]
  /\ \E m \in Module \cup {None} : \E op \in Asked(m) : Start(w, op, m, u)
  /\ UNCHANGED <<live, rights, stuck, asks, wanted, history>>

(* The script of v has a request of its own, and finds a worker ...           *)
Callback(w, v) ==
  /\ Step(w, "idle", "lock") /\ w \in Back
  /\ pc[v] = "ask" /\ wanted[v] # None /\ v \in live
  /\ wanted' = [wanted EXCEPT ![v] = None]
  /\ \E op \in Asked(wanted[v]) : Start(w, op, wanted[v], v)
  /\ UNCHANGED <<live, rights, stuck, asks, history>>

(* ... which answers "Unknown session" once that was logged out.             *)
Unknown(w, v) ==
  /\ up /\ w \in Back /\ pc[w] = "idle"
  /\ pc[v] = "ask" /\ wanted[v] # None /\ v \notin live
  /\ wanted' = [wanted EXCEPT ![v] = None] /\ Goto(v, "script")
  /\ UNCHANGED <<live, rights, stuck, call, asks, saver, tosave, up, history>>

Lock(w) ==
  /\ Step(w, "lock", "module") /\ MayLock(w)
  /\ UNCHANGED <<live, rights, stuck, call, asks, wanted, history>>

(* ModuleDB does not know the class or module.xml the method, or action()     *)
(* answers for a demo module.                                                *)
Refuse(w) ==
  /\ Step(w, "module", "answer")
  /\ call[w].mod = None \/ (call[w].mod \in Demo /\ ~Lists(w))
  /\ UNCHANGED <<live, rights, stuck, call, asks, wanted, history>>

(* CoreModule::action.                                                       *)
Enter(w) ==
  /\ Step(w, "module", IF GetsSession(w) THEN "open" ELSE "script")
  /\ call[w].mod # None /\ (call[w].mod \in Demo => Lists(w))
  /\ MayEnter(w)
  /\ UNCHANGED <<live, rights, stuck, call, asks, wanted, history>>

(* action() would catch what sdb->create throws, but that throws nothing.     *)
(* (Unlisted is a variant: the session is not found under its id.)            *)
Unlisted(w) == live
WithSession(w) == live \cup {w}

Open(w) ==
  /\ Step(w, "open", "rights") /\ MayExclude
  /\ live' = WithSession(w)
  /\ UNCHANGED <<rights, stuck, call, asks, wanted, history>>

(* Where the pointer to a module's session leads: once the session was logged  *)
(* out, to freed memory, which may by now be that of another's.  (The script    *)
(* has the id that its session was made with: that this is read from the memory  *)
(* once more, when it may be another's, is left out.)                         *)
Pointed(w) == {w} \cup IF w \in live THEN {} ELSE live \cap Worker

(* get() finds the session of the request, and its credentials are copied ... *)
(* (OwnRights is a variant: those of a callback are not the user's.)          *)
OwnRights(s) == s
RightsOf(s) == IF s \in User THEN s ELSE rights[s]

CopyRights(w) ==
  /\ Step(w, "rights", "script")
  /\ call[w].op.carries /\ call[w].session \in live
  /\ \E s \in Pointed(w) :
       /\ rights' = [rights EXCEPT ![s] = RightsOf(call[w].session)]
       /\ mixed' = (mixed \/ s # w)
  /\ UNCHANGED <<live, stuck, call, asks, wanted, cut>>

(* ... or not, and getCredentials of NULL ends the process.  Freed memory may   *)
(* end it too: setCredentials here, release() and remove() below.             *)
Die(w) ==
  /\ up /\ up' = FALSE
  /\ \/ pc[w] = "rights" /\ (~call[w].op.carries \/ call[w].session \notin live)
     \/ pc[w] \in {"rights", "close"} /\ w \notin live
  /\ UNCHANGED <<live, rights, stuck, pc, call, asks, wanted, saver, tosave, history>>

(* The script may talk to opencore while it has a session.                   *)
Talk(w) ==
  /\ Step(w, "script", "ask")
  /\ GetsSession(w) /\ asks[w] < MaxAsks
  /\ asks' = [asks EXCEPT ![w] = @ + 1]
  /\ \E m \in MayAsk[call[w].mod] : wanted' = [wanted EXCEPT ![w] = m]
  /\ UNCHANGED <<live, rights, stuck, call, history>>

(* API::execute comes back when the script has given its answer or is gone.  *)
ScriptEnds(w) ==
  /\ Step(w, "script", IF GetsSession(w) THEN "close" ELSE "answer")
  /\ asks' = [asks EXCEPT ![w] = 0]
  /\ UNCHANGED <<live, rights, stuck, call, wanted, history>>

(* remove() of session s.  (KeptSession is a variant: it is forgotten.)       *)
KeptSession(s) == live
WithoutSession(s) == live \ {s}
Unlocked(s) == [stuck EXCEPT ![s] = "free"]

(* release() and remove() of the module's session, or of nothing, or another's. *)
Close(w) ==
  /\ Step(w, "close", "answer") /\ MayExclude
  /\ rights' = [rights EXCEPT ![w] = None]
  /\ \E s \in Pointed(w) :
       /\ live' = WithoutSession(s) /\ stuck' = Unlocked(s)
       /\ cut' = (cut \ {w}) \cup ({s} \ {w})
  /\ UNCHANGED <<call, asks, wanted, mixed>>

(* What the script may answer, and what the request makes of it: only a       *)
(* result block without an error is good.                                    *)
Output == {"result", "error", "no result", "nothing"}
Good(output) == output = "result"

(* The encrypted password goes into the object that was asked for; any other  *)
(* answer ends the request, and a script that waited for it goes on.         *)
Crypted(w) ==
  /\ Step(w, "answer", "module")
  /\ call[w].op = makeCrypt /\ call[w].mod # None
  /\ \E op \in {createObject, updateObject}, output \in Output :
       Good(output) /\ Start(w, op, call[w].mod, call[w].session)
  /\ UNCHANGED <<live, rights, stuck, asks, wanted, history>>

(* (Unresumed is a variant: the script is not told.)                          *)
Unresumed(w) == [pc EXCEPT ![w] = "idle"]
Resumed(w) == IF call[w].session \in Worker
              THEN [pc EXCEPT ![w] = "idle", ![call[w].session] = "script"]
              ELSE [pc EXCEPT ![w] = "idle"]

Answer(w) ==
  /\ up /\ pc[w] = "answer"
  /\ pc' = Resumed(w) /\ call' = [call EXCEPT ![w] = NoCall]
  /\ UNCHANGED <<live, rights, stuck, asks, wanted, saver, tosave, up, history>>

(* An exception before or after the call of the module, like that of a class    *)
(* that ModuleDB does not find, ends in RPCRequestHandler::run: there is an     *)
(* answer, but no munlock().                                                 *)
Throw(w) ==
  LET s == call[w].session
  IN  /\ up /\ pc[w] \in {"module", "answer"}
      /\ pc' = Resumed(w) /\ call' = [call EXCEPT ![w] = NoCall]
      /\ s \in live /\ Cardinality({t \in Session \ {s} : stuck[t] # "free"}) < MaxStuck
      /\ stuck' = [stuck EXCEPT ![s] = call[w].op.lock]
      /\ UNCHANGED <<live, rights, asks, wanted, saver, tosave, up, history>>

(* Any client of either server may send a logout, and remove() asks for no lock *)
(* of the session that it names: a user's, or that of a module's call.         *)
Logout(w) ==
  /\ Step(w, "idle", "leave") /\ Leaving # {}
  /\ UNCHANGED <<live, rights, stuck, call, asks, wanted, history>>

Leave(w) ==
  /\ Step(w, "leave", "idle") /\ MayExclude
  /\ \E s \in Leaving :
       /\ live' = WithoutSession(s) /\ stuck' = Unlocked(s)
       /\ cut' = cut \cup ({s} \cap live)
  /\ UNCHANGED <<rights, call, asks, wanted, mixed>>

-----------------------------------------------------------------------------
(* saveToDisk, once, with the RPC servers still open: under the shared mode   *)
(* of lck it reads one session after the other.                              *)
SaveStart ==
  /\ up /\ saver = "off"
  /\ saver' = "list" /\ tosave' = live
  /\ UNCHANGED <<live, rights, stuck, pc, call, asks, wanted, up, history>>

Writes(w, s) == Locked(w) /\ call[w].session = s /\ call[w].op.lock = "write"
(* (SaveSame is a variant that stays with its session.)                       *)
SaveSame == up /\ saver = "list" /\ tosave # {} /\ UNCHANGED vars
SaveSession ==
  /\ up /\ saver = "list"
  /\ \E s \in tosave :
       /\ stuck[s] # "write" /\ \A w \in Worker : ~Writes(w, s)
       /\ tosave' = tosave \ {s}
  /\ UNCHANGED <<live, rights, stuck, pc, call, asks, wanted, saver, up, history>>

SaveEnd ==
  /\ up /\ saver = "list" /\ tosave = {}
  /\ saver' = "saved"
  /\ UNCHANGED <<live, rights, stuck, pc, call, asks, wanted, tosave, up, history>>

-----------------------------------------------------------------------------
Proceed(w) ==
  \/ Lock(w) \/ Refuse(w) \/ Enter(w) \/ Open(w) \/ CopyRights(w) \/ Die(w)
  \/ ScriptEnds(w) \/ Close(w) \/ Crypted(w) \/ Answer(w) \/ Leave(w)
  \/ \E v \in Back : Callback(v, w) \/ Unknown(v, w)

Save == SaveSession \/ SaveEnd

Next ==
  \/ \E w \in Worker :
       \/ Proceed(w) \/ Talk(w) \/ Throw(w) \/ Logout(w)
       \/ \E u \in User : Ask(w, u)
  \/ SaveStart \/ Save

Spec == Init /\ [][Next]_vars

(* A thread that can go on does, a lock that is free again and again is given, *)
(* a request of a script has its turn when workers are free again and again,   *)
(* and every script ends: API::execute waits for it without a timeout.        *)
FairSpec == Spec /\ SF_vars(Save) /\ \A w \in Worker : SF_vars(Proceed(w))

-----------------------------------------------------------------------------
Outer(w) == call[w].session

(* The sessions that saveToDisk has still to read are there: it never follows  *)
(* a pointer to a session that was removed.                                  *)
TypeOK ==
  /\ live \subseteq Session /\ cut \subseteq Session \ live /\ mixed \in BOOLEAN
  /\ rights \in [Worker -> User \cup {None}] /\ stuck \in [Session -> {"free", "read", "write"}]
  /\ pc \in [Worker -> Place]
  /\ call \in [Worker -> [op : Request, mod : Module \cup {None}, session : Session]
                         \cup {NoCall}]
  /\ asks \in [Worker -> 0..MaxAsks] /\ wanted \in [Worker -> Module \cup {None}]
  /\ saver \in {"off", "list", "saved"} /\ tosave \subseteq live /\ up \in BOOLEAN
  /\ \A w \in Worker : (pc[w] \in {"idle", "leave"} <=> call[w] = NoCall)
                       /\ (wanted[w] # None => pc[w] = "ask")

(* A module's session lives as long as the call it was made for, unless it was  *)
(* logged out: no answer leaves one behind, and no other call removes it.  And  *)
(* a request of a script never outlives the call it is made from, which waits   *)
(* for it, however deep the calls are nested.                                *)
SessionFollowsCall ==
  \A w \in Worker :
    /\ w \in live \cup cut <=> pc[w] \in {"rights", "script", "ask", "close"} /\ GetsSession(w)
    /\ Outer(w) \in Worker => pc[Outer(w)] = "ask" /\ GetsSession(Outer(w))

(* A script acts with the credentials of the user whose request is at the     *)
(* bottom of the calls it is nested in, unless credentials were written to     *)
(* the memory of a session that was logged out.                              *)
UserOf[n \in Nat] ==
  IF n = 0 THEN [s \in Session |-> s]
  ELSE [s \in Session |-> IF s \in Worker /\ call[s] # NoCall
                          THEN UserOf[n - 1][call[s].session] ELSE s]

ActsForUser ==
  \A w \in Worker : pc[w] \in {"script", "ask"} /\ GetsSession(w) /\ ~mixed =>
    rights[w] = UserOf[Cardinality(Worker)][w]

(* The process dies in a module call only if a method that passes no sessionid *)
(* met a module with wantsrpc, or somebody logged out the very session that     *)
(* the call was made with or for.  No other request, nor the end of one,        *)
(* takes a session away that a call still needs.                             *)
DiesForAReason ==
  up \/ \E w \in Worker :
          \/ pc[w] = "rights" /\ (~call[w].op.carries \/ cut \cap {w, Outer(w)} # {})
          \/ pc[w] = "close" /\ w \in cut

-----------------------------------------------------------------------------
(* A worker waits for good if what it waits for is a session left locked, or    *)
(* others, hold, who all wait for good: for the lock of a session, for serlock, *)
(* for a script's request to be answered, or taken by a worker, and for lck.   *)
SaverWaits(hold) ==
  saver = "list" /\ \E s \in tosave : stuck[s] = "write" \/ \E v \in hold : Writes(v, s)

Waits(w, hold) ==
  CASE pc[w] = "lock" -> \/ Collide(stuck[call[w].session], call[w].op.lock)
                         \/ \E v \in hold : Hinders(v, w)
    [] pc[w] = "module" -> \E v \in hold : Bars(v, w)
    [] pc[w] = "ask" -> IF wanted[w] # None THEN Back \subseteq hold
                        ELSE \E v \in hold : call[v].session = w
    [] pc[w] \in {"open", "close", "leave"} -> SaverWaits(hold)
    [] OTHER -> FALSE
Left[n \in Nat] == IF n = 0 THEN Worker ELSE {w \in Left[n - 1] : Waits(w, Left[n - 1])}
Hopeless == Left[Cardinality(Worker)]

(* Requests end, if no module asks for itself in a circle and no session or     *)
(* module is shared by one listing after the other for ever, unless the process *)
(* dies, or one waits for good: because a session was left locked, because the  *)
(* end of the daemon waits and holds lck, or because all workers that scripts   *)
(* can have wait themselves, for what the scripts' calls hold.               *)
Reason == (\E s \in Session : stuck[s] # "free") \/ SaverWaits(Hopeless) \/ Back \subseteq Hopeless
Unshared == \A w \in Worker : Locked(w) => call[w].op.lock = "write"

RequestsEnd ==
  []<>Unshared =>
    \A w \in Worker : pc[w] # "idle" ~> pc[w] = "idle" \/ ~up \/ (w \in Hopeless /\ Reason)

(* saveToDisk ends, unless it waits for a session left locked, or for one whose *)
(* request waits for good.                                                   *)
SaveEnds == saver = "list" ~> saver = "saved" \/ ~up \/ SaverWaits(Hopeless)
=============================================================================
