------------------------------- MODULE SessionUse -------------------------------
(***************************************************************************)
(* The sessions in use: the HTTP workers of opencore take a session from     *)
(* SessionDB, work with the bare pointer and give it back, while the expire   *)
(* thread removes the idle ones (rpc.cpp, rpcrequesthandler.cpp,             *)
(* session.cpp).  How SessionDB finds a session is left to SessionDB.tla;    *)
(* here it is the registry of SessionRegistry.                               *)
(*                                                                         *)
(* Two kinds of locks.  lck guards the registry.  The workers change inuse   *)
(* under its SHARED mode, so inuse++ is a load and a store of its own; what   *)
(* runs in exclusive mode is one action, except the sweep.  Each session has *)
(* a reader/writer lock of its own (spinlock), held over a call.             *)
(*                                                                         *)
(* breaksection, a macro of the Grace library, gives back the lock of the    *)
(* section and then executes its statement.                                  *)
(***************************************************************************)
EXTENDS SessionRegistry, FiniteSets

CONSTANTS
  Worker,                 \* the threads of the HTTP server
  Command,                \* where the commands that clients send take a worker
  IdleLimit,              \* the 600 s of expire(), in ticks
  MaxLeaks,               \* bound on the claims a session loses
  MaxInuse, MaxDebt       \* bounds on inuse above and below zero, which lost
                          \* updates drive it to

ASSUME SessionUseAssumption ==
  /\ IsFiniteSet(Worker)
  /\ Command \subseteq {"plain", "wantread", "wantwrite", "file", "remove"}
  /\ IdleLimit \in Nat /\ MaxLeaks \in Nat /\ MaxInuse \in Nat /\ MaxDebt \in Nat

VARIABLES
  inuse,                  \* CoreSession::inuse
  age,                    \* ticks since CoreSession::heartbeat, at most IdleLimit + 1
  stuck,                  \* mode in which a thrown call left CoreSession::spinlock
  known,                  \* the sessions whose ids clients have
  pc, cs, reg,            \* a worker's place, session pointer, and loaded inuse
  xpc, xlocked,           \* the expire thread's place; whether it holds lck
  xcur, xnext,            \* its s and ns
  due,                    \* sessions whose heartbeat lies before its cutoff
  (* History, read by the properties; leaks also by the guards that bound it: *)
  leaks,                  \* claims that nothing will release
  raced,                  \* sessions with inuse out of step for good
  uncounted               \* workers whose claim inuse never counted

workerVars == <<pc, cs, reg>>
sweepVars == <<xpc, xlocked, xcur, xnext>>
vars == <<registryVars, inuse, age, stuck, known, workerVars, sweepVars, due,
          leaks, raced, uncounted>>

Stale == IdleLimit + 1

(* Where a worker counts as holding a claim on its session. *)
Claiming == {"login", "plain", "wantread", "wantwrite", "reading", "writing",
             "file", "remove", "release", "lower", "unclaim"}
Place == Claiming \cup {"idle", "claim"}

At(w, s, places) == pc[w] \in places /\ cs[w] = s
Claimants(s) == {w \in Worker : At(w, s, Claiming)}

-----------------------------------------------------------------------------
(* lck: the workers between two accesses of inuse share it.                 *)
InShared(w) == pc[w] \in {"claim", "lower", "unclaim"}
HasLoaded(w) == pc[w] \in {"claim", "unclaim"}
MayShare == ~xlocked
(* (MayExcludeReaders is a variant: an exclusive mode that forgets readers.) *)
MayExcludeReaders == ~xlocked
MayExclude == ~xlocked /\ \A w \in Worker : ~InShared(w)

(* spinlock of session s. *)
MayRead(s) == stuck[s] # "write" /\ \A w \in Worker : ~At(w, s, {"writing"})
MayWrite(s) == stuck[s] = "free" /\ \A w \in Worker : ~At(w, s, {"reading", "writing"})

-----------------------------------------------------------------------------
Init ==
  /\ RegistryInit
  /\ inuse = [s \in Session |-> 0] /\ age = [s \in Session |-> 0]
  /\ stuck = [s \in Session |-> "free"] /\ known = {}
  /\ pc = [w \in Worker |-> "idle"] /\ cs = [w \in Worker |-> NULL]
  /\ reg = [w \in Worker |-> 0]
  /\ xpc = "wait" /\ xlocked = FALSE /\ xcur = NULL /\ xnext = NULL /\ due = {}
  /\ leaks = [s \in Session |-> 0] /\ raced = {} /\ uncounted = {}

Goto(w, place) == pc' = [pc EXCEPT ![w] = place]

(* The request is answered and the worker's pointer goes out of scope.        *)
(* (FinishHolding is a variant in which it does not.)                         *)
FinishHolding(w) ==
  /\ Goto(w, "idle")
  /\ UNCHANGED cs
  /\ reg' = [reg EXCEPT ![w] = 0]
  /\ uncounted' = uncounted \ {w}
Finish(w) ==
  /\ Goto(w, "idle")
  /\ cs' = [cs EXCEPT ![w] = NULL]
  /\ reg' = [reg EXCEPT ![w] = 0]
  /\ uncounted' = uncounted \ {w}

(* Load inuse of session s.  A second worker between its load and its store  *)
(* makes one of the two updates go missing.                                  *)
Load(w, s) ==
  /\ reg' = [reg EXCEPT ![w] = inuse[s]]
  /\ raced' = IF \E v \in Worker : HasLoaded(v) /\ cs[v] = s
              THEN raced \cup {s} ELSE raced

(* delete s; the fields of a deleted session read as those of a fresh one.   *)
Delete(s) ==
  /\ Unregister(s)
  /\ inuse' = [inuse EXCEPT ![s] = 0] /\ age' = [age EXCEPT ![s] = 0]
  /\ stuck' = [stuck EXCEPT ![s] = "free"] /\ leaks' = [leaks EXCEPT ![s] = 0]
  /\ known' = known \ {s} /\ raced' = raced \ {s} /\ due' = due \ {s}

-----------------------------------------------------------------------------
(* bind and getLanguages: SessionDB::create.  demand() returns before it      *)
(* sets inuse when the session is the only one.                              *)
InuseOfNew == IF live = {} THEN 0 ELSE 1

Bind(w) ==
  /\ pc[w] = "idle"
  /\ MayExclude
  /\ Register
  /\ LET s == created + 1
     IN  /\ inuse' = [inuse EXCEPT ![s] = InuseOfNew]
         /\ age' = [age EXCEPT ![s] = 0]
         /\ cs' = [cs EXCEPT ![w] = s]
  /\ uncounted' = IF live = {} THEN uncounted \cup {w} ELSE uncounted
  /\ Goto(w, "login")
  /\ UNCHANGED <<stuck, known, reg, sweepVars, due, leaks, raced>>

(* The rest of bind: release() on a good login, remove() on a bad one.  A     *)
(* getLanguages always ends in remove().                                     *)
Login(w) ==
  /\ pc[w] = "login" /\ cs[w] \in live
  /\ \E place \in {"release", "remove"} : Goto(w, place)
  /\ UNCHANGED <<registryVars, inuse, age, stuck, known, cs, reg, sweepVars, due,
                 leaks, raced, uncounted>>

(* SessionDB::get, for a session whose id some client has. *)
Get(w, s) ==
  /\ pc[w] = "idle"
  /\ MayShare
  /\ s \in known /\ inuse[s] \in -MaxDebt .. MaxInuse - 1
  /\ Load(w, s)
  /\ cs' = [cs EXCEPT ![w] = s]
  /\ Goto(w, "claim")
  /\ UNCHANGED <<registryVars, inuse, age, stuck, known, sweepVars, due, leaks, uncounted>>

(* The store of inuse++, and the command that follows: one without a lock    *)
(* (ping, classXML, listModules, listClasses, an unknown one, the landing    *)
(* page), one under mlockr, one under mlockw, a module file, a logout.       *)
Claim(w) ==
  /\ pc[w] = "claim"
  /\ inuse' = [inuse EXCEPT ![cs[w]] = reg[w] + 1]
  /\ reg' = [reg EXCEPT ![w] = 0]
  /\ \E place \in Command : /\ place = "file" => leaks[cs[w]] < MaxLeaks
                            /\ Goto(w, place)
  /\ UNCHANGED <<registryVars, age, stuck, known, cs, sweepVars, due, leaks, raced, uncounted>>

(* One step of a call that stays within its session. *)
Step(w, from, to) ==
  /\ pc[w] = from /\ cs[w] \in live
  /\ Goto(w, to)
  /\ UNCHANGED <<registryVars, inuse, age, stuck, cs, reg, sweepVars, due,
                 leaks, raced, uncounted>>

Plain(w) == Step(w, "plain", "release") /\ UNCHANGED known
TakeRead(w) == Step(w, "wantread", "reading") /\ MayRead(cs[w]) /\ UNCHANGED known
TakeWrite(w) == Step(w, "wantwrite", "writing") /\ MayWrite(cs[w]) /\ UNCHANGED known
EndWrite(w) == Step(w, "writing", "release") /\ UNCHANGED known

(* What is read may be the list of all sessions, with their ids. *)
EndRead(w) == Step(w, "reading", "release") /\ known' \in {known, live}

(* An exception out of a call ends in the catch of RPCRequestHandler::run:   *)
(* neither munlock() nor release() runs.                                     *)
Throw(w) ==
  /\ pc[w] \in {"plain", "reading", "writing"} /\ cs[w] \in live
  /\ leaks[cs[w]] < MaxLeaks
  /\ leaks' = [leaks EXCEPT ![cs[w]] = @ + 1]
  /\ stuck' = [stuck EXCEPT ![cs[w]] = CASE pc[w] = "plain"   -> @
                                         [] pc[w] = "reading" -> "read"
                                         [] pc[w] = "writing" -> "write"]
  /\ Finish(w)
  /\ UNCHANGED <<registryVars, inuse, age, known, sweepVars, due, raced>>

(* ModuleFileHandler::run returns without a release(). *)
File(w) ==
  /\ pc[w] = "file" /\ cs[w] \in live
  /\ leaks' = [leaks EXCEPT ![cs[w]] = @ + 1]
  /\ Finish(w)
  /\ UNCHANGED <<registryVars, inuse, age, stuck, known, sweepVars, due, raced>>

(* SessionDB::release: heartbeat, and the test of inuse.  The answer to a good *)
(* login gives the client its id.                                            *)
BeginRelease(w) ==
  /\ pc[w] = "release" /\ cs[w] \in live
  /\ MayShare
  /\ age' = [age EXCEPT ![cs[w]] = 0]
  /\ due' = due \ {cs[w]}
  /\ IF inuse[cs[w]] > 0
     THEN Goto(w, "lower") /\ UNCHANGED <<known, cs, reg, uncounted>>
     ELSE Finish(w) /\ known' = known \cup {cs[w]}
  /\ UNCHANGED <<registryVars, inuse, stuck, sweepVars, leaks, raced>>

(* inuse-- reads it once more ... *)
Lower(w) ==
  /\ pc[w] = "lower"
  /\ Load(w, cs[w])
  /\ Goto(w, "unclaim")
  /\ UNCHANGED <<registryVars, inuse, age, stuck, known, cs, sweepVars, due, leaks, uncounted>>

(* ... and stores it, which takes another's claim if this one never counted.   *)
(* (KeptInuse is a variant that forgets the decrement.)                       *)
KeptInuse(w) == inuse[cs[w]]
LoweredInuse(w) == reg[w] - 1

Release(w) ==
  /\ pc[w] = "unclaim"
  /\ inuse' = [inuse EXCEPT ![cs[w]] = LoweredInuse(w)]
  /\ raced' = IF w \in uncounted THEN raced \cup {cs[w]} ELSE raced
  /\ known' = known \cup {cs[w]}
  /\ Finish(w)
  /\ UNCHANGED <<registryVars, age, stuck, sweepVars, due, leaks>>

(* SessionDB::remove, for a logout, a failed login or getLanguages.  It does  *)
(* not look at inuse, nor at spinlock.                                       *)
Remove(w) ==
  /\ pc[w] = "remove"
  /\ MayExclude
  /\ Delete(cs[w])
  /\ Finish(w)
  /\ UNCHANGED sweepVars

(* A worker whose session was deleted under it goes on with a dangling       *)
(* pointer.  This models the outcome in which the process lives on and no     *)
(* other session is hurt: the request ends without effect.                   *)
Dangle(w) ==
  /\ pc[w] # "idle" /\ cs[w] \notin live
  /\ Finish(w)
  /\ UNCHANGED <<registryVars, inuse, age, stuck, known, sweepVars, due, leaks, raced>>

-----------------------------------------------------------------------------
(* SessionDB::expire, called by SessionExpireThread after each minute.        *)
(* (Fresh is a variant of Overdue with the comparison turned round.)         *)
Fresh(s) == age[s] < IdleLimit
Overdue(s) == age[s] = Stale

SweepStart ==
  /\ xpc = "wait"
  /\ xpc' = "enter"
  /\ due' = {s \in live : Overdue(s)}
  /\ UNCHANGED <<registryVars, inuse, age, stuck, known, workerVars, xlocked, xcur, xnext,
                 leaks, raced, uncounted>>

SweepEnter ==
  /\ xpc = "enter"
  /\ MayExclude
  /\ xpc' = "scan" /\ xlocked' = TRUE /\ xcur' = First
  /\ UNCHANGED <<registryVars, inuse, age, stuck, known, workerVars, xnext, due,
                 leaks, raced, uncounted>>

(* (DoomedAnyway is a variant without the test of inuse.) *)
DoomedAnyway(s) == s \in due
Doomed(s) == inuse[s] = 0 /\ s \in due

Onward(s) == After(s)

SweepPass ==
  /\ xpc = "scan" /\ xcur \in live
  /\ ~Doomed(xcur)
  /\ xcur' = Onward(xcur)
  /\ UNCHANGED <<registryVars, inuse, age, stuck, known, workerVars, xpc, xlocked, xnext, due,
                 leaks, raced, uncounted>>

(* breaksection remove (s): lck is given back first, and the walk goes on     *)
(* without it.                                                               *)
SweepDrop ==
  /\ xpc = "scan" /\ xcur \in live
  /\ Doomed(xcur)
  /\ xpc' = "remove" /\ xlocked' = FALSE /\ xnext' = Onward(xcur)
  /\ UNCHANGED <<registryVars, inuse, age, stuck, known, workerVars, xcur, due,
                 leaks, raced, uncounted>>

(* remove(s) takes lck itself.  It finds nothing if s was deleted meanwhile. *)
SweepRemove ==
  /\ xpc = "remove"
  /\ MayExclude
  /\ IF xcur \in live
     THEN Delete(xcur)
     ELSE UNCHANGED <<registryVars, inuse, age, stuck, known, due, leaks, raced>>
  /\ xpc' = "scan" /\ xcur' = xnext /\ xnext' = NULL
  /\ UNCHANGED <<workerVars, xlocked, uncounted>>

(* ns was deleted while the walk had no lock: it follows a dangling pointer,  *)
(* and ends, or comes back to the list, where nobody can tell.               *)
SweepDangle ==
  /\ xpc = "scan" /\ xcur \notin live \cup {NULL}
  /\ xcur' \in {NULL} \cup {s \in live : s > xcur}
  /\ UNCHANGED <<registryVars, inuse, age, stuck, known, workerVars, xpc, xlocked, xnext, due,
                 leaks, raced, uncounted>>

(* (SweepEndLocked is a variant that does not give lck back.) *)
SweepEndLocked ==
  /\ xpc = "scan" /\ xcur = NULL
  /\ xpc' = "wait" /\ due' = {}
  /\ UNCHANGED <<registryVars, inuse, age, stuck, known, workerVars, xlocked, xcur, xnext,
                 leaks, raced, uncounted>>

SweepEnd ==
  /\ xpc = "scan" /\ xcur = NULL
  /\ xpc' = "wait" /\ xlocked' = FALSE /\ due' = {}
  /\ UNCHANGED <<registryVars, inuse, age, stuck, known, workerVars, xcur, xnext,
                 leaks, raced, uncounted>>

Tick ==
  /\ \E s \in live : age[s] < Stale
  /\ age' = [s \in Session |-> IF s \in live /\ age[s] < Stale THEN age[s] + 1 ELSE age[s]]
  /\ UNCHANGED <<registryVars, inuse, stuck, known, workerVars, sweepVars, due,
                 leaks, raced, uncounted>>

-----------------------------------------------------------------------------
WorkerStep(w) ==
  \/ Bind(w) \/ Login(w) \/ \E s \in Session : Get(w, s)
  \/ Claim(w) \/ Plain(w) \/ TakeRead(w) \/ TakeWrite(w) \/ EndRead(w) \/ EndWrite(w)
  \/ Throw(w) \/ File(w) \/ BeginRelease(w) \/ Lower(w) \/ Release(w) \/ Remove(w)
  \/ Dangle(w)

SweepStep ==
  SweepStart \/ SweepEnter \/ SweepPass \/ SweepDrop \/ SweepRemove \/ SweepDangle \/ SweepEnd

Next == (\E w \in Worker : WorkerStep(w)) \/ SweepStep \/ Tick

Spec == Init /\ [][Next]_vars

(* What holds of the threads: one that can run does, and one that waits for   *)
(* a lock gets it if the lock is free again and again.  Nothing makes a       *)
(* client send a request or the clock advance; but clients do not overlap     *)
(* their requests so that some worker shares a lock at every moment.          *)
Proceed(w) ==
  \/ Login(w) \/ Claim(w) \/ Plain(w) \/ TakeRead(w) \/ TakeWrite(w) \/ EndRead(w)
  \/ EndWrite(w) \/ File(w) \/ BeginRelease(w) \/ Lower(w) \/ Release(w) \/ Remove(w)
  \/ Dangle(w)

ReadersPause ==
  /\ []<>(\A w \in Worker : ~InShared(w))
  /\ \A s \in Session : []<>(\A w \in Worker : ~At(w, s, {"reading", "writing"}))

FairSpec ==
  Spec /\ (\A w \in Worker : SF_vars(Proceed(w))) /\ SF_vars(SweepStep) /\ ReadersPause

-----------------------------------------------------------------------------
TypeOK ==
  /\ RegistryTypeOK
  /\ inuse \in [Session -> Int] /\ leaks \in [Session -> Nat]
  /\ age \in [Session -> 0..Stale]
  /\ stuck \in [Session -> {"free", "read", "write"}]
  /\ pc \in [Worker -> Place] /\ cs \in [Worker -> 0..created] /\ reg \in [Worker -> Int]
  /\ xpc \in {"wait", "enter", "scan", "remove"} /\ xlocked \in BOOLEAN
  /\ xcur \in 0..created /\ xnext \in 0..created
  /\ known \subseteq live /\ due \subseteq live /\ raced \subseteq live
  /\ uncounted \subseteq Worker
  /\ \A w \in Worker : cs[w] = NULL <=> pc[w] = "idle"

(* A worker that is about to store inuse has its session: nothing is deleted  *)
(* between the load and the store, by a logout or by the sweep, which for     *)
(* most of its walk holds no lock.                                           *)
SharedIsProtected == \A w \in Worker : InShared(w) => cs[w] \in live /\ ~xlocked

(* inuse is the number of workers that hold the session, plus the claims     *)
(* lost for good (get, release), so that it is not negative either; the       *)
(* exceptions named by raced and uncounted are two updates at once under a    *)
(* shared lock, and a first session.                                         *)
ClaimAccounting ==
  \A s \in live \ raced : inuse[s] = Cardinality(Claimants(s) \ uncounted) + leaks[s]

(* Why ClaimAccounting lasts: where the count is trusted, at most one worker  *)
(* is between load and store, and what it loaded is still so.                *)
UpdatersAgree ==
  /\ \A v, w \in Worker :
        /\ HasLoaded(v) /\ HasLoaded(w) /\ cs[v] = cs[w] /\ cs[v] \notin raced
        => v = w
  /\ \A w \in Worker : HasLoaded(w) /\ cs[w] \notin raced => reg[w] = inuse[cs[w]]
  /\ \A w \in uncounted : pc[w] \in {"login", "remove", "release", "lower", "unclaim"}
  /\ \A s \in Session \ live : leaks[s] = 0

UseInv == TypeOK /\ SharedIsProtected /\ UpdatersAgree /\ ClaimAccounting

(* The sweep makes up its mind on a session that nobody uses, but for a      *)
(* worker that inuse does not count.                                         *)
DropsOnlyIdle ==
  [][SweepDrop => xcur \in raced \/ Claimants(xcur) \subseteq uncounted]_vars

-----------------------------------------------------------------------------
(* A session that nobody uses does not stay forever once it is due: no sweep  *)
(* waits or walks without end, whatever is removed under it.                 *)
IdleSessionsGo ==
  \A s \in Session : []<>~(s \in live /\ inuse[s] = 0 /\ age[s] = Stale)

(* A request is answered, unless an exception left its session locked. *)
RequestsEnd ==
  \A w \in Worker :
    pc[w] # "idle" ~> \/ pc[w] = "idle"
                      \/ pc[w] \in {"wantread", "wantwrite"} /\ stuck[cs[w]] # "free"

-----------------------------------------------------------------------------
(* What a comment of session.h says of the code, and a run refutes.          *)

(* "SessionDB remains fully responsible for the allocation of any session    *)
(* objects.  Before discarding the pointer, either the release() or expire() *)
(* method should be called": until then a call has a session to work with.   *)
CallHasSession == \A w \in Worker : pc[w] \in {"reading", "writing"} => cs[w] \in live
=============================================================================
