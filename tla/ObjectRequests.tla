----------------------------- MODULE ObjectRequests -----------------------------
(***************************************************************************)
(* The requests that change objects: CoreSession::createObject, updateObject, *)
(* deleteObject and chown (session.cpp), which keep the database and the      *)
(* modules in step, one request at a time per session (mlockw) but any number *)
(* of sessions at once.  The database is ObjectStore.  A module is what it    *)
(* has configured for each object; it takes one action at a time (serlock).   *)
(*                                                                         *)
(* A request is a job that goes through its statements and module calls step  *)
(* by step.  The reads before a write are one step, the write is another.     *)
(* A request that is refused before it writes leaves nothing, and is no step. *)
(***************************************************************************)
EXTENDS ObjectStore

CONSTANTS
  Session,                \* the sessions, each with one request at a time
  Command,                \* the requests that sessions send
  Answer,                 \* what modules may answer: "ok", "failed", "postponed"
  Immediate               \* whether requests may ask for the database only

ASSUME ObjectRequestsAssumption ==
  /\ Command \subseteq {"create", "chown", "quota", "update", "delete", "crash"}
  /\ Answer \subseteq {"ok", "failed", "postponed"}
  /\ Immediate \subseteq BOOLEAN

VARIABLES
  user,                   \* the user of a session, NULL before the login
  job,                    \* the request of a session and how far it is
  conf,                   \* what its module has configured for an object
  (* History, read by the properties only: *)
  drift,                  \* objects that may be in a module and not in the
                          \* database, or the other way round
  behind,                 \* objects whose module may have an older content
  moved                   \* objects whose owner is not the one they were made by

requestVars == <<user, job, conf, drift, behind, moved>>
vars == <<storeVars, requestVars>>

Steps == {"idle", "insert", "give", "chown", "check", "replace", "fetch", "call", "report"}

Job == [do : Steps, cmd : {"", "create", "update", "delete", "chown"},
        x : 0..MaxObjects,              \* the object at work
        row : Row,                      \* the row to write
        new : 0..MaxObjects,            \* the owner to set
        now : BOOLEAN,                  \* immediate
        todo : Seq(Object),             \* objects left to delete
        first : BOOLEAN,                \* firstobject
        sent : 0..MaxContent,           \* the content fetched for the module
        answer : {"ok", "failed", "postponed"}]

Idle == [do |-> "idle", cmd |-> "", x |-> NULL, row |-> NoRow, new |-> NULL, now |-> FALSE,
         todo |-> <<>>, first |-> FALSE, sent |-> 0, answer |-> "ok"]

(* An object is busy while a request writes it or calls its module about it.  *)
Busy(x) == \E s \in Session : job[s].x = x /\ job[s].cmd # "chown"
Marked(x) == IF Busy(x) THEN drift \cup {x} ELSE drift

Does(s, step) == job[s].do = step
Become(s, j) == job' = [job EXCEPT ![s] = j]
Done(s) == Become(s, Idle)

Init ==
  /\ StoreInit
  /\ user = [s \in Session |-> NULL]
  /\ job = [s \in Session |-> Idle]
  /\ conf = [x \in Object |-> IF x = 1 THEN 1 ELSE 0]
  /\ drift = {} /\ behind = {} /\ moved = {}

-----------------------------------------------------------------------------
Login(s, u) ==
  /\ user[s] = NULL
  /\ u \in Rows /\ obj[u].class = User
  /\ user' = [user EXCEPT ![s] = u]
  /\ UNCHANGED <<storeVars, job, conf, drift, behind, moved>>

Logout(s) ==
  /\ user[s] # NULL /\ Does(s, "idle")
  /\ user' = [user EXCEPT ![s] = NULL]
  /\ UNCHANGED <<storeVars, job, conf, drift, behind, moved>>

(* createObject: the checks of DBManager::createObject and the row to insert.  *)
(* A parameter "owner" asks for a chown to new once the row is there.         *)
Create(s, c, p, n, v, new, now) ==
  /\ user[s] # NULL /\ Does(s, "idle")
  /\ last + Cardinality({t \in Session : Does(t, "insert")}) < MaxObjects
  /\ MayCreate(user[s], c, p)
  /\ Become(s, [Idle EXCEPT !.do = "insert", !.cmd = "create", !.new = new, !.now = now,
                            !.row = NewRow(user[s], c, p, n, v)])
  /\ UNCHANGED <<storeVars, user, conf, drift, behind, moved>>

(* The transaction; a clash ends the request. *)
Insert(s) ==
  /\ Does(s, "insert")
  /\ UNCHANGED <<user, conf, behind>>
  /\ IF CanInsert(job[s].row)
     THEN LET x == last + 1
              u == LocalId(user[s])
          IN  /\ InsertRow(job[s].row, u)
              /\ moved' = IF job[s].row.owner # u THEN moved \cup {x} ELSE moved
              /\ drift' = IF job[s].now THEN drift \cup {x} ELSE drift
              /\ IF job[s].new # NULL
                 THEN Become(s, [job[s] EXCEPT !.do = "give", !.x = x, !.row = NoRow])
                 ELSE IF job[s].now THEN Done(s)
                 ELSE Become(s, [job[s] EXCEPT !.do = "fetch", !.x = x, !.row = NoRow])
     ELSE Done(s) /\ UNCHANGED <<storeVars, drift, moved>>

(* The chown that a createObject asks for.  Where it is refused the row goes   *)
(* again (reportCreateFailure).                                              *)
Give(s) ==
  /\ Does(s, "give")
  /\ UNCHANGED <<user, conf, behind>>
  /\ IF MayChown(user[s], job[s].x, job[s].new)
     THEN /\ SetOwner(job[s].x, job[s].new)
          /\ moved' = moved \cup {job[s].x}
          /\ UNCHANGED drift
          /\ IF job[s].now THEN Done(s) ELSE Become(s, [job[s] EXCEPT !.do = "fetch", !.new = NULL])
     ELSE DropRow(job[s].x) /\ Done(s) /\ UNCHANGED <<drift, moved>>

(* chown: the checks, and the UPDATE. *)
Chown(s, x, new) ==
  /\ user[s] # NULL /\ Does(s, "idle")
  /\ MayChown(user[s], x, new)
  /\ Become(s, [Idle EXCEPT !.do = "chown", !.cmd = "chown", !.x = x, !.new = new])
  /\ UNCHANGED <<storeVars, user, conf, drift, behind, moved>>

ChownWrite(s) ==
  /\ Does(s, "chown")
  /\ SetOwner(job[s].x, job[s].new)
  /\ moved' = moved \cup {job[s].x}
  /\ Done(s)
  /\ UNCHANGED <<user, conf, drift, behind>>

SetQuota(s, u, c, q) ==
  /\ user[s] # NULL /\ Does(s, "idle")
  /\ MayChange(user[s], u) /\ u # user[s]
  /\ SetLimit(u, c, q)
  /\ UNCHANGED requestVars

(* updateObject: the row as it was read, with the new content. *)
Update(s, x, v, now) ==
  /\ user[s] # NULL /\ Does(s, "idle")
  /\ MayChange(user[s], x)
  /\ Become(s, [Idle EXCEPT !.do = "replace", !.cmd = "update", !.x = x, !.now = now,
                            !.row = [obj[x] EXCEPT !.content = v]])
  /\ drift' = Marked(x)
  /\ UNCHANGED <<storeVars, user, conf, behind, moved>>

(* deleteObject: the list of what is to go. *)
Delete(s, x, now) ==
  /\ user[s] # NULL /\ Does(s, "idle")
  /\ MayChange(user[s], x)
  /\ LET q == ObjectTree(x)
     IN  /\ q \in Seq(Rows)
         /\ Become(s, [Idle EXCEPT !.do = "check", !.cmd = "delete", !.x = Head(q), !.todo = q,
                                   !.first = TRUE, !.now = now])
         /\ drift' = Marked(Head(q))
  /\ UNCHANGED <<storeVars, user, conf, behind, moved>>

(* On to the next object of the list, if there is one. *)
(* (NextOfSame is a variant that forgets where it was.) *)
NextOfSame(s) ==
  IF Len(job[s].todo) = 1 THEN Idle
  ELSE [job[s] EXCEPT !.do = "check", !.x = Head(Tail(job[s].todo)),
                      !.row = NoRow, !.answer = "ok", !.first = FALSE]
NextOfList(s) ==
  IF Len(job[s].todo) = 1 THEN Idle
  ELSE [job[s] EXCEPT !.do = "check", !.todo = Tail(@), !.x = Head(Tail(job[s].todo)),
                      !.row = NoRow, !.answer = "ok", !.first = FALSE]
MarkedNext(s) ==
  IF Len(job[s].todo) > 1 THEN Marked(Head(Tail(job[s].todo))) ELSE drift

(* deleteObject of DBManager, up to the REPLACE.  An object that is gone goes   *)
(* on, with no class that ModuleDB knows; the user himself, and an owner, end  *)
(* the request where it is.                                                  *)
Check(s) ==
  LET x == job[s].x
  IN  /\ Does(s, "check")
      /\ IF x \notin Rows
         THEN IF job[s].now
              THEN Become(s, NextOfList(s)) /\ drift' = MarkedNext(s)
              ELSE /\ Become(s, [job[s] EXCEPT !.do = "report", !.answer = "failed"])
                   /\ UNCHANGED drift
         ELSE IF x = user[s] \/ \E y \in Rows : obj[y].owner = x
         THEN Done(s) /\ UNCHANGED drift
         ELSE /\ Become(s, [job[s] EXCEPT !.do = "replace",
                                          !.row = [obj[x] EXCEPT !.content = 0]])
              /\ UNCHANGED drift
      /\ UNCHANGED <<storeVars, user, conf, behind, moved>>

(* The REPLACE of an update or a delete.  It brings back what was deleted      *)
(* since it was read, and the owner that was read.                           *)
Replace(s) ==
  LET x == job[s].x
      marked == drift \cup {y \in Rows \ {x} : Clash(obj[y], job[s].row)}
  IN  /\ Does(s, "replace")
      /\ ReplaceRow(x, job[s].row)
      /\ moved' = IF Owner(x) # job[s].row.owner THEN moved \cup {x} ELSE moved
      /\ behind' = IF job[s].now THEN behind \cup {x} ELSE behind
      /\ IF ~job[s].now
         THEN Become(s, [job[s] EXCEPT !.do = "fetch", !.row = NoRow]) /\ drift' = marked
         ELSE IF job[s].cmd = "delete"
         THEN Become(s, NextOfList(s)) /\ drift' = marked \cup MarkedNext(s)
         ELSE Done(s) /\ drift' = marked
      /\ UNCHANGED <<user, conf>>

(* fetchObject for the module.  Where it fails, a create or an update ends, and *)
(* leaves the row as it is; a delete goes on as in Check, and the row goes.    *)
Fetch(s) ==
  LET x == job[s].x
      gone == job[s].cmd # "update"
  IN  /\ Does(s, "fetch")
      /\ IF Fetchable(x)
         THEN /\ Become(s, [job[s] EXCEPT !.do = "call", !.sent = obj[x].content])
              /\ UNCHANGED <<drift, behind>>
         ELSE /\ IF job[s].cmd = "delete"
                 THEN Become(s, [job[s] EXCEPT !.do = "report", !.answer = "failed"])
                 ELSE Done(s)
              /\ drift' = IF gone THEN drift \cup {x} ELSE drift
              /\ behind' = IF gone THEN behind ELSE behind \cup {x}
      /\ UNCHANGED <<storeVars, user, conf, moved>>

(* The module call. *)
(* (Configured is what an obedient module has afterwards.)                   *)
Configured(s) == IF job[s].cmd = "delete" THEN 0 ELSE job[s].sent

Call(s, a) ==
  LET x == job[s].x
      c == job[s].cmd
  IN  /\ Does(s, "call")
      /\ conf' = IF a = "ok" THEN [conf EXCEPT ![x] = Configured(s)] ELSE conf
      /\ drift' = IF <<a, c>> \in {<<"postponed", "create">>, <<"failed", "delete">>}
                  THEN drift \cup {x} ELSE drift
      /\ behind' = IF a = "ok" THEN behind \ {x}
                   ELSE IF c = "create" THEN behind ELSE behind \cup {x}
      /\ Become(s, [job[s] EXCEPT !.do = "report", !.sent = 0, !.answer = a])
      /\ UNCHANGED <<storeVars, user, moved>>

(* What the database is told.  A failed create is deleted, a failed update     *)
(* stays; of a tree only the first object may fail, and then it goes anyway.   *)
(* (KeepFailed is a variant of DropFailed that lets a failed create stay.)    *)
KeepFailed(s) == job[s].cmd = "delete" /\ job[s].first
DropFailed(s) == job[s].cmd = "create" \/ (job[s].cmd = "delete" /\ job[s].first)

Report(s) ==
  LET j == job[s]
  IN  /\ Does(s, "report")
      /\ IF j.answer = "failed" /\ DropFailed(s) THEN DropRow(j.x)
         ELSE IF j.answer = "ok" \/ (j.answer = "failed" /\ j.cmd = "delete") THEN PurgeRow(j.x)
         ELSE UNCHANGED storeVars
      /\ IF j.cmd = "delete" /\ ~(j.answer = "failed" /\ j.first)
         THEN Become(s, NextOfList(s)) /\ drift' = MarkedNext(s)
         ELSE Done(s) /\ UNCHANGED drift
      /\ UNCHANGED <<user, conf, behind, moved>>

(* The process dies and comes up again: what is on disk and in the modules stays. *)
(* A create has a row and maybe no module by then, a delete that was answered  *)
(* the other way round; an update may have left its module behind.            *)
HalfWay(x) ==
  \E s \in Session :
    /\ job[s].x = x
    /\ job[s].cmd = "create" \/ (job[s].cmd = "delete" /\ Does(s, "report"))

Crash ==
  /\ \E s \in Session : ~Does(s, "idle")
  /\ job' = [s \in Session |-> Idle]
  /\ user' = [s \in Session |-> NULL]
  /\ drift' = drift \cup {x \in Object : HalfWay(x)}
  /\ behind' = behind \cup {x \in Object : Busy(x)}
  /\ UNCHANGED <<storeVars, conf, moved>>

-----------------------------------------------------------------------------
(* Quotas and objects are given to users: the parameter is called useruuid.   *)
(* An object has a metaid if it has a context to be unique in.               *)
Users == {u \in Rows : obj[u].class = User}
MetaidOf(c) == IF Scope[c] = "none" THEN {""} ELSE Name

Request(s) ==
  \/ \E u \in Object : Login(s, u)
  \/ Logout(s)
  \/ /\ "create" \in Command
     /\ \E c \in Class : \E n \in MetaidOf(c), p \in 0..last, v \in 1..MaxContent,
           new \in {NULL} \cup IF "chown" \in Command THEN Users ELSE {}, now \in Immediate :
          Create(s, c, p, n, v, new, now)
  \/ "chown" \in Command /\ \E x \in Object, new \in Users : Chown(s, x, new)
  \/ "quota" \in Command /\ \E u \in Users, c \in Class :
        \E q \in Quota[c] : SetQuota(s, u, c, q)
  \/ /\ "update" \in Command
     /\ \E x \in Object, v \in 1..MaxContent, now \in Immediate : Update(s, x, v, now)
  \/ "delete" \in Command /\ \E x \in Object, now \in Immediate : Delete(s, x, now)

Proceed(s) ==
  \/ Insert(s) \/ Give(s) \/ ChownWrite(s) \/ Check(s) \/ Replace(s) \/ Fetch(s)
  \/ (\E a \in Answer : Call(s, a)) \/ Report(s)

Next ==
  \/ \E s \in Session : (Does(s, "idle") /\ Request(s)) \/ Proceed(s)
  \/ "crash" \in Command /\ Crash

Spec == Init /\ [][Next]_vars

-----------------------------------------------------------------------------
(* A job speaks of ids up to n; a deletion is at the head of its list. *)
JobOK(j, n) ==
  /\ j.x <= n /\ j.new <= n /\ Within(j.row, n) /\ \A i \in DOMAIN j.todo : j.todo[i] <= n
  /\ j.do = "insert" => j.cmd = "create"
  /\ j.do \notin {"idle", "insert"} => j.x \in Object
  /\ j.do = "check" \/ j.cmd = "delete" => j.todo # <<>> /\ Head(j.todo) = j.x

TypeOK ==
  /\ StoreTypeOK
  /\ user \in [Session -> 0..last] /\ job \in [Session -> Job]
  /\ \A s \in Session : JobOK(job[s], last)
  /\ conf \in [Object -> 0..MaxContent]
  /\ drift \subseteq Object /\ behind \subseteq Object /\ moved \subseteq Object

(* powermirror, which createObject fills in once for all (_setpowermirror), is *)
(* the owners above: over what user u owns, u has power, his owner has, and    *)
(* who has it over what that owner owns.  A chown does not follow it up.      *)
MirrorFollowsOwners ==
  \A u \in Rows \ moved :
    obj[u].class = User => Mirror(u) = {u, obj[u].owner} \cup Mirror(obj[u].owner)

(* With one session: haspower, for an object whose owners were never changed:  *)
(* it is the object itself and its owners, and theirs, that have power over it. *)
PowerIsAncestry ==
  \A x \in Rows :
    LET above == Above(x)
    IN  above \cap moved = {} => {u \in Rows : HasPower(x, u)} = above

(* With one session and no postponed answers: a child has a parent, of the     *)
(* class it requires (deletes go leaf-first, and stop half-way at a leaf; a    *)
(* postponed one leaves its row, and goes on to the parent's).                *)
ParentsExist ==
  \A x \in Rows :
    LET p == obj[x].parent
    IN  IF Requires[obj[x].class] = "" THEN p = NULL
        ELSE p \in Rows /\ obj[p].class = Requires[obj[x].class]

(* Likewise: it also has the owner of its parent, chown or not.              *)
OwnersFollowParents ==
  \A x \in Rows : obj[x].parent # NULL => obj[x].owner = Owner(obj[x].parent)

(* With one session: nothing a user makes takes what he has power over past    *)
(* the smallest quota on the chain above him.                                *)
QuotaKept ==
  [][\A s \in Session, u \in Object, c \in Class :
       /\ last' # last /\ Does(s, "insert")
       /\ u = user[s] /\ c = job[s].row.class
       => Limit(u, c) = -1 \/ Usage(u, c)' <= Limit(u, c)]_vars

(* Where no request is under way, the modules have what the database has: no   *)
(* object of theirs without a row, no row (not even one marked deleted)        *)
(* without theirs, and the same content, since the last answer "ok" at any    *)
(* rate.  Only a create or a delete can leave a row or a module's object       *)
(* alone (drift): a create for the database only, one postponed or one that    *)
(* cannot be fetched, a delete that its module refuses or that cannot be       *)
(* fetched, a crash half-way, a row that a REPLACE takes the name of, and two  *)
(* requests on one object at once.  What else goes wrong leaves the module     *)
(* with an older content (behind), until an update comes through.             *)
InStep ==
  \A x \in Object \ drift :
    ~Busy(x) => /\ x \in Rows <=> conf[x] # 0
                /\ x \in behind \/ conf[x] = obj[x].content

(* A deleted object stays deleted, whatever was read before (updateObject and  *)
(* deleteObject REPLACE what they read): it comes back only where two requests *)
(* met on it, or where database and module were apart already.               *)
DeletedStaysGone ==
  [][Rows' \cap 1..last \subseteq Rows \cup drift]_vars
=============================================================================
