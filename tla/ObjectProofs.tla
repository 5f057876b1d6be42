------------------------------ MODULE ObjectProofs ------------------------------
(***************************************************************************)
(* The object database under any number of sessions, objects and classes:     *)
(* its types, the uniqueness of metaids, the powers that follow owners, and   *)
(* the modules that are kept in step with it; and, for requests that come one  *)
(* after the other, power as ancestry, the quotas that are kept, and children   *)
(* that keep their parents.                                                  *)
(***************************************************************************)
EXTENDS ObjectRequests, Induction, FiniteSetTheorems, SequenceTheorems, TLAPS

LEMMA Bounds ==
  /\ MaxObjects \in Nat \ {0} /\ MaxContent \in Nat \ {0}
  /\ NULL = 0 /\ Object = 1..MaxObjects /\ NULL \in 0..MaxObjects /\ Object \subseteq 0..MaxObjects
<1>1. MaxObjects \in Nat \ {0} /\ MaxContent \in Nat \ {0}
  BY ObjectStoreAssumption, Zenon DEF ObjectStoreAssumption
<1> QED BY <1>1 DEF NULL, Object

LEMMA Classes == User \in Class /\ "" \notin Class /\ Admin \in Name
BY ObjectStoreAssumption, Zenon DEF ObjectStoreAssumption

LEMMA Rowtypes ==
  ASSUME NEW r \in Row
  PROVE  /\ r.class \in Class \cup {""} /\ r.parent \in 0..MaxObjects
         /\ r.owner \in 0..MaxObjects /\ r.name \in Name \cup {""}
         /\ r.content \in 0..MaxContent
         /\ \A v \in 0..MaxContent : [r EXCEPT !.content = v] \in Row
         /\ \A o \in 0..MaxObjects : [r EXCEPT !.owner = o] \in Row
BY DEF Row

LEMMA NoRowTypes == NoRow \in Row /\ NoRow.class = "" /\ NoRow.owner = 0 /\ NoRow.parent = 0
BY Bounds DEF NoRow, Row

LEMMA IdleTypes ==
  /\ Idle \in Job /\ Idle.do = "idle" /\ Idle.cmd = "" /\ Idle.x = 0 /\ Idle.new = 0
  /\ Idle.row = NoRow
<1>1. /\ Idle.do = "idle" /\ Idle.cmd = "" /\ Idle.x = 0 /\ Idle.new = 0 /\ Idle.row = NoRow
  BY Bounds DEF Idle
<1>2. <<>> \in Seq(Object) /\ 0 \in 0..MaxContent /\ "idle" \in Steps
  BY Bounds DEF Steps
<1>3. Idle \in Job
  BY <1>2, NoRowTypes, Bounds, Zenon DEF Idle, Job
<1> QED BY <1>1, <1>3

(* The list of a deletion holds objects up to the last id, and is not empty.  *)
LEMMA ListsHaveObjects ==
  ASSUME StoreTypeOK, NEW x, NEW q, q = ObjectTree(x), q \in Seq(Rows)
  PROVE  /\ q \in Seq(Object) /\ q # <<>> /\ Head(q) \in Object
         /\ \A i \in DOMAIN q : q[i] <= last
<1>1. \A y \in Rows : y \in Object /\ y <= last
  BY DEF Rows, StoreTypeOK
<1>2. q # <<>>
  BY DEF ObjectTree
<1> QED BY <1>1, <1>2

-----------------------------------------------------------------------------
(* What the statements do to the types of the tables. *)
LEMMA WithinNoRow == ASSUME NEW n \in Nat PROVE Within(NoRow, n)
<1>1. NoRow.owner = 0 /\ NoRow.parent = 0
  BY NoRowTypes
<1> QED BY <1>1 DEF Within

LEMMA RowIds == ASSUME NEW r \in Row PROVE r.owner \in Nat /\ r.parent \in Nat
<1>1. r.owner \in 0..MaxObjects /\ r.parent \in 0..MaxObjects
  BY Rowtypes
<1> QED BY <1>1, Bounds

LEMMA WithinGrows ==
  ASSUME NEW r \in Row, NEW n \in Nat, NEW m \in Nat, n <= m, Within(r, n)
  PROVE  Within(r, m)
BY RowIds DEF Within

LEMMA WithinContent ==
  ASSUME NEW r \in Row, NEW n, NEW v, Within(r, n)
  PROVE  Within([r EXCEPT !.content = v], n)
BY DEF Within, Row

LEMMA WithinOwner ==
  ASSUME NEW r \in Row, NEW n \in Nat, NEW o \in 0..n, Within(r, n)
  PROVE  Within([r EXCEPT !.owner = o], n)
<1>1. [r EXCEPT !.owner = o].owner = o /\ [r EXCEPT !.owner = o].parent = r.parent
  BY DEF Row
<1> QED BY <1>1 DEF Within

LEMMA TableTypes ==
  ASSUME StoreTypeOK, UNCHANGED <<last, power, limit>>, obj' \in [Object -> Row],
         \A x \in Object : Within(obj'[x], last) /\ (obj'[x].class # "" => x <= last)
  PROVE  StoreTypeOK' /\ last' = last
<1>1. \A x \in Object : Within(obj'[x], last') /\ (x \in Rows' => x <= last')
  BY DEF Rows
<1>2. last' \in Object /\ power' \subseteq (0..last') \X (0..last')
      /\ limit' \in [Object -> [Class -> Nat \cup {-1}]]
  BY DEF StoreTypeOK
<1> QED BY <1>1, <1>2 DEF StoreTypeOK

LEMMA InsertTypes ==
  ASSUME StoreTypeOK, NEW r \in Row, Within(r, last), NEW u \in 0..last, InsertRow(r, u)
  PROVE  StoreTypeOK' /\ last' = last + 1 /\ last' \in Object
<1> USE Bounds
<1>1. last' = last + 1 /\ last' \in Object /\ last \in Object
  BY DEF StoreTypeOK, InsertRow
<1>2. obj' \in [Object -> Row]
  BY <1>1 DEF StoreTypeOK, InsertRow
<1>3. ASSUME NEW x \in Object
      PROVE  Within(obj'[x], last') /\ (x \in Rows' => x <= last')
  <2>1. CASE x = last'
    <3>1. obj'[x] = r
      BY <1>1, <2>1 DEF StoreTypeOK, InsertRow
    <3> QED BY <1>1, <2>1, <3>1, WithinGrows
  <2>2. CASE x # last'
    <3>1. obj'[x] = obj[x] /\ (x \in Rows' => x \in Rows)
      BY <1>1, <2>2 DEF StoreTypeOK, InsertRow, Rows
    <3>2. obj[x] \in Row /\ Within(obj[x], last) /\ (x \in Rows => x <= last)
      BY DEF StoreTypeOK
    <3>3. last \in Nat /\ last' \in Nat /\ last <= last'
      BY <1>1
    <3>4. Within(obj[x], last')
      BY <3>2, <3>3, WithinGrows
    <3> QED BY <1>1, <3>1, <3>2, <3>4
  <2> QED BY <2>1, <2>2
<1>4. power' \subseteq (0..last') \X (0..last')
  <2>1. \A p \in Mirror(u) : p \in 0..last
    BY DEF Mirror, StoreTypeOK
  <2>2. Powers(last + 1, u) \subseteq (0..last') \X (0..last')
    BY <1>1, <2>1 DEF Powers
  <2>3. power \subseteq (0..last') \X (0..last')
    BY <1>1 DEF StoreTypeOK
  <2> QED BY <2>2, <2>3 DEF InsertRow
<1>5. limit' \in [Object -> [Class -> Nat \cup {-1}]]
  BY DEF StoreTypeOK, InsertRow
<1> QED BY <1>1, <1>2, <1>3, <1>4, <1>5 DEF StoreTypeOK

LEMMA ReplaceTypes ==
  ASSUME StoreTypeOK, NEW r \in Row, Within(r, last), NEW x \in 0..last, ReplaceRow(x, r)
  PROVE  StoreTypeOK' /\ last' = last
<1>1. UNCHANGED <<last, power, limit>> /\ obj' = Replaced(x, r)
  BY DEF ReplaceRow
<1>2. obj' \in [Object -> Row]
  BY <1>1, NoRowTypes DEF Replaced, StoreTypeOK
<1>3. ASSUME NEW y \in Object
      PROVE  Within(obj'[y], last) /\ (obj'[y].class # "" => y <= last)
  <2>1. (obj'[y] = r /\ y = x) \/ obj'[y] = NoRow \/ obj'[y] = obj[y]
    BY <1>1 DEF Replaced
  <2>2. last \in Nat /\ Within(NoRow, last) /\ x <= last
    BY WithinNoRow, Bounds DEF StoreTypeOK
  <2>3. Within(obj[y], last) /\ (obj[y].class # "" => y <= last)
    BY DEF StoreTypeOK, Rows
  <2> QED BY <2>1, <2>2, <2>3, NoRowTypes
<1> QED BY <1>1, <1>2, <1>3, TableTypes

LEMMA DropTypes ==
  ASSUME StoreTypeOK, NEW x, DropRow(x)
  PROVE  StoreTypeOK' /\ last' = last
<1>1. UNCHANGED <<last, power, limit>> /\ obj' = [obj EXCEPT ![x] = NoRow]
  BY DEF DropRow
<1>2. obj' \in [Object -> Row]
  BY <1>1, NoRowTypes DEF StoreTypeOK
<1>3. ASSUME NEW y \in Object
      PROVE  Within(obj'[y], last) /\ (obj'[y].class # "" => y <= last)
  <2>1. obj'[y] = NoRow \/ obj'[y] = obj[y]
    BY <1>1 DEF StoreTypeOK
  <2>2. Within(NoRow, last)
    BY WithinNoRow, Bounds DEF StoreTypeOK
  <2>3. Within(obj[y], last) /\ (obj[y].class # "" => y <= last)
    BY DEF StoreTypeOK, Rows
  <2> QED BY <2>1, <2>2, <2>3, NoRowTypes
<1> QED BY <1>1, <1>2, <1>3, TableTypes

LEMMA PurgeTypes ==
  ASSUME StoreTypeOK, NEW x, PurgeRow(x)
  PROVE  StoreTypeOK' /\ last' = last
<1>1. CASE DropRow(x)
  BY <1>1, DropTypes
<1>2. CASE UNCHANGED storeVars
  BY <1>2 DEF StoreTypeOK, storeVars, Rows
<1> QED BY <1>1, <1>2 DEF PurgeRow

LEMMA OwnerTypes ==
  ASSUME StoreTypeOK, NEW x, NEW new \in 0..last, SetOwner(x, new)
  PROVE  StoreTypeOK' /\ last' = last
<1>1. UNCHANGED <<last, power, limit>>
  BY DEF SetOwner
<1>2. new \in 0..MaxObjects /\ last \in Nat
  BY Bounds DEF StoreTypeOK
<1>3. obj' \in [Object -> Row]
  BY <1>2, Rowtypes DEF SetOwner, StoreTypeOK
<1>4. ASSUME NEW y \in Object
      PROVE  Within(obj'[y], last) /\ (obj'[y].class # "" => y <= last)
  <2>1. obj[y] \in Row /\ Within(obj[y], last) /\ (obj[y].class # "" => y <= last)
    BY DEF StoreTypeOK, Rows
  <2>2. obj'[y] = obj[y] \/ obj'[y] = [obj[y] EXCEPT !.owner = new]
    BY DEF SetOwner, StoreTypeOK
  <2>3. Within([obj[y] EXCEPT !.owner = new], last)
    BY <1>2, <2>1, WithinOwner
  <2>4. [obj[y] EXCEPT !.owner = new].class = obj[y].class
    BY <2>1 DEF Row
  <2> QED BY <2>1, <2>2, <2>3, <2>4
<1> QED BY <1>1, <1>3, <1>4, TableTypes

-----------------------------------------------------------------------------
(* What the steps do to the jobs. *)
LEMMA JobTypes ==
  ASSUME NEW j \in Job
  PROVE  /\ j.do \in Steps /\ j.x \in 0..MaxObjects /\ j.row \in Row /\ j.new \in 0..MaxObjects
         /\ j.now \in BOOLEAN /\ j.todo \in Seq(Object) /\ j.sent \in 0..MaxContent
         /\ j.answer \in {"ok", "failed", "postponed"}
BY DEF Job

LEMMA IdleOK == ASSUME NEW n \in Nat PROVE Idle \in Job /\ JobOK(Idle, n)
<1>1. Idle \in Job /\ Idle.do = "idle" /\ Idle.cmd = "" /\ Within(Idle.row, n)
  BY IdleTypes, WithinNoRow
<1>2. Idle.do # "check" /\ Idle.do # "insert" /\ Idle.cmd # "delete"
  BY <1>1
<1>3. Idle.x = 0 /\ Idle.new = 0 /\ Idle.todo = <<>>
  BY Bounds DEF Idle
<1>4. Idle.x <= n /\ Idle.new <= n /\ \A i \in DOMAIN Idle.todo : Idle.todo[i] <= n
  BY <1>3
<1>5. Idle.do \in {"idle", "insert"}
  BY <1>1
<1> QED BY <1>1, <1>2, <1>4, <1>5 DEF JobOK

LEMMA JobGrows ==
  ASSUME NEW j \in Job, NEW n \in Nat, NEW m \in Nat, n <= m, JobOK(j, n)
  PROVE  JobOK(j, m)
<1>1. j.x \in Nat /\ j.new \in Nat /\ Within(j.row, m)
  BY JobTypes, Bounds, WithinGrows DEF JobOK
<1>2. \A i \in DOMAIN j.todo : j.todo[i] <= m
  <2>1. \A i \in DOMAIN j.todo : j.todo[i] \in Nat
    BY JobTypes, Bounds
  <2> QED BY <2>1 DEF JobOK
<1> QED BY <1>1, <1>2 DEF JobOK

LEMMA BecomeTypes ==
  ASSUME TypeOK, NEW s \in Session, NEW j \in Job, last' \in Nat, last <= last',
         JobOK(j, last'), Become(s, j)
  PROVE  job' \in [Session -> Job] /\ \A t \in Session : JobOK(job'[t], last')
<1>1. job \in [Session -> Job] /\ job' = [job EXCEPT ![s] = j]
  BY DEF TypeOK, Become
<1>2. \A t \in Session : JobOK(job[t], last')
  BY <1>1, JobGrows, Bounds DEF TypeOK, StoreTypeOK
<1> QED BY <1>1, <1>2

LEMMA DoneTypes ==
  ASSUME TypeOK, NEW s \in Session, last' \in Nat, last <= last', Done(s)
  PROVE  job' \in [Session -> Job] /\ \A t \in Session : JobOK(job'[t], last')
BY IdleOK, BecomeTypes DEF Done

(* The list gets shorter, and the job stays at its head. *)
LEMMA Tails ==
  ASSUME NEW q \in Seq(Object), q # <<>>, Len(q) # 1
  PROVE  /\ Len(q) > 1 /\ Tail(q) \in Seq(Object) /\ Tail(q) # <<>>
         /\ Head(Tail(q)) \in Object /\ Head(Tail(q)) = q[2] /\ 2 \in DOMAIN q
         /\ \A i \in DOMAIN Tail(q) : Tail(q)[i] = q[i + 1] /\ i + 1 \in DOMAIN q
<1>1. Len(q) \in Nat /\ Len(q) # 0 /\ DOMAIN q = 1..Len(q)
  OBVIOUS
<1>2. Len(q) > 1
  BY <1>1
<1>3. Tail(q) \in Seq(Object) /\ Len(Tail(q)) = Len(q) - 1
  BY <1>2
<1>4. \A i \in DOMAIN Tail(q) : Tail(q)[i] = q[i + 1] /\ i + 1 \in DOMAIN q
  BY <1>1, <1>2, <1>3
<1>5. Tail(q) # <<>> /\ Head(Tail(q)) = Tail(q)[1] /\ 1 \in DOMAIN Tail(q)
  BY <1>1, <1>2, <1>3
<1> QED BY <1>1, <1>2, <1>3, <1>4, <1>5

LEMMA NextOfListTypes ==
  ASSUME TypeOK, NEW s \in Session, Does(s, "check") \/ job[s].cmd = "delete"
  PROVE  NextOfList(s) \in Job /\ JobOK(NextOfList(s), last) /\ MarkedNext(s) \subseteq Object
<1> DEFINE j == job[s]
<1>1. j \in Job /\ JobOK(j, last) /\ j.todo \in Seq(Object) /\ j.todo # <<>>
  BY JobTypes DEF TypeOK, JobOK, Does
<1>2. last \in Nat /\ last \in Object /\ drift \subseteq Object
  BY Bounds DEF TypeOK, StoreTypeOK
<1>3. CASE Len(j.todo) = 1
  BY <1>2, <1>3, IdleOK DEF NextOfList, MarkedNext
<1>4. CASE Len(j.todo) # 1
  <2> DEFINE q == Tail(j.todo)
             k == [j EXCEPT !.do = "check", !.todo = q, !.x = Head(q),
                            !.row = NoRow, !.answer = "ok", !.first = FALSE]
  <2>1. /\ Len(j.todo) > 1 /\ q \in Seq(Object) /\ q # <<>> /\ Head(q) \in Object
        /\ Head(q) <= last /\ \A i \in DOMAIN q : q[i] <= last
    BY <1>1, <1>4, Tails DEF JobOK
  <2>2. NextOfList(s) = k
    BY <1>4, Zenon DEF NextOfList
  <2>3. k \in Job
    BY <1>1, <2>1, NoRowTypes, Bounds DEF Job, Steps
  <2>4. JobOK(k, last)
    <3>1. k.do = "check" /\ k.x = Head(q) /\ k.new = j.new /\ k.row = NoRow /\ k.todo = q
      BY <1>1 DEF Job
    <3> QED BY <1>1, <1>2, <2>1, <3>1, WithinNoRow DEF JobOK
  <2>5. MarkedNext(s) \subseteq Object
    BY <1>2, <2>1 DEF MarkedNext, Marked
  <2> QED BY <2>2, <2>3, <2>4, <2>5
<1> QED BY <1>3, <1>4

(* A job that stays with its object and its list. *)
LEMMA SameJob ==
  ASSUME NEW j \in Job, NEW n, JobOK(j, n), NEW k \in Job,
         j.do \notin {"idle", "insert"}, k.todo = j.todo, k.x = j.x, k.cmd = j.cmd, k.do \notin {"check", "insert"},
         k.new <= n, Within(k.row, n)
  PROVE  JobOK(k, n)
BY DEF JobOK

LEMMA StoreIds ==
  ASSUME TypeOK
  PROVE  /\ last \in Nat /\ last \in Object /\ last <= MaxObjects
         /\ \A s \in Session : user[s] \in 0..last /\ LocalId(user[s]) \in 0..last
                               /\ job[s] \in Job /\ JobOK(job[s], last)
         /\ \A x \in Rows : x \in Object /\ x \in 0..last /\ obj[x] \in Row /\ Within(obj[x], last)
         /\ \A x : Owner(x) \in 0..last
<1>1. last \in Nat /\ last \in Object /\ last <= MaxObjects
  BY Bounds DEF TypeOK, StoreTypeOK
<1>2. \A s \in Session : /\ user[s] \in 0..last /\ LocalId(user[s]) \in 0..last
                           /\ job[s] \in Job /\ JobOK(job[s], last)
  BY <1>1, Bounds DEF TypeOK, LocalId
<1>3. \A x \in Rows : x \in Object /\ x \in 0..last /\ obj[x] \in Row /\ Within(obj[x], last)
  <2> TAKE x \in Rows
  <2>1. x \in Object /\ x <= last /\ obj[x] \in Row /\ Within(obj[x], last)
    BY DEF TypeOK, StoreTypeOK, Rows
  <2> QED BY <1>1, <2>1, Bounds
<1>4. \A x : Owner(x) \in 0..last
  BY <1>1, <1>3, Bounds, RowIds DEF Owner, Within
<1> QED BY <1>1, <1>2, <1>3, <1>4

(* The requests leave the tables as they are, and their rows are rows. *)
LEMMA NewRowIds ==
  ASSUME TypeOK, NEW u \in 0..last, NEW c, NEW p \in 0..last, NEW n, NEW v
  PROVE  /\ LocalId(p) \in 0..MaxObjects /\ OwnerOfNew(u, p) \in 0..MaxObjects
         /\ Within(NewRow(u, c, p, n, v), last)
<1>1. LocalId(p) \in 0..last
  BY StoreIds, Bounds DEF LocalId
<1>2. OwnerOfNew(u, p) \in 0..last
  BY StoreIds DEF OwnerOfNew
<1>3. Within(NewRow(u, c, p, n, v), last)
  BY <1>1, <1>2, StoreIds DEF NewRow, Within
<1> QED BY <1>1, <1>2, <1>3, StoreIds, Bounds

LEMMA NewRowTypes ==
  ASSUME TypeOK, NEW u \in 0..last, NEW c \in Class, NEW p \in 0..last,
         NEW n \in Name \cup {""}, NEW v \in 0..MaxContent
  PROVE  NewRow(u, c, p, n, v) \in Row
BY NewRowIds, Zenon DEF NewRow, Row

LEMMA CreateTypes ==
  ASSUME TypeOK, NEW s \in Session, NEW c, NEW p \in 0..last, NEW v, NEW n,
         NEW new \in 0..last, NEW now \in BOOLEAN,
         NewRow(user[s], c, p, n, v) \in Row, Create(s, c, p, n, v, new, now)
  PROVE  job' \in [Session -> Job] /\ \A t \in Session : JobOK(job'[t], last')
<1> DEFINE r == NewRow(user[s], c, p, n, v)
           k == [Idle EXCEPT !.do = "insert", !.cmd = "create", !.new = new, !.now = now, !.row = r]
<1>1. last' = last /\ Become(s, k)
  BY DEF Create, storeVars
<1>2. Within(r, last) /\ new \in 0..MaxObjects
  BY NewRowIds, StoreIds, Bounds
<1> HIDE DEF r
<1>3. k \in Job
  BY <1>2, IdleTypes DEF Job, Steps, r
<1>4. k.do = "insert" /\ k.cmd = "create" /\ k.new = new /\ k.row = r /\ k.x = 0 /\ k.todo = <<>>
  BY IdleTypes, Bounds DEF Idle
<1>5. JobOK(k, last)
  BY <1>2, <1>4, StoreIds DEF JobOK
<1> QED BY <1>1, <1>3, <1>5, StoreIds, BecomeTypes

LEMMA ChownTypes ==
  ASSUME TypeOK, NEW s \in Session, NEW x \in Object, NEW new \in Object, Chown(s, x, new)
  PROVE  job' \in [Session -> Job] /\ \A t \in Session : JobOK(job'[t], last')
<1> DEFINE k == [Idle EXCEPT !.do = "chown", !.cmd = "chown", !.x = x, !.new = new]
<1>1. last' = last /\ Become(s, k) /\ x \in 0..last /\ new \in 0..last
  BY StoreIds DEF Chown, storeVars, MayChown, MayChange
<1>2. k \in Job
  BY IdleTypes, Bounds DEF Job, Steps
<1>3. k.do = "chown" /\ k.cmd = "chown" /\ k.x = x /\ k.new = new /\ k.row = NoRow /\ k.todo = <<>>
  BY IdleTypes DEF Idle
<1>4. JobOK(k, last)
  BY <1>1, <1>3, StoreIds, WithinNoRow DEF JobOK
<1> QED BY <1>1, <1>2, <1>4, StoreIds, BecomeTypes

LEMMA UpdateTypes ==
  ASSUME TypeOK, NEW s \in Session, NEW x \in Object, NEW v \in 1..MaxContent, NEW now \in BOOLEAN,
         Update(s, x, v, now)
  PROVE  job' \in [Session -> Job] /\ \A t \in Session : JobOK(job'[t], last')
<1> DEFINE r == [obj[x] EXCEPT !.content = v]
           k == [Idle EXCEPT !.do = "replace", !.cmd = "update", !.x = x, !.now = now, !.row = r]
<1>1. last' = last /\ Become(s, k) /\ x \in Rows
  BY DEF Update, storeVars, MayChange
<1>2. x \in 0..last /\ r \in Row /\ Within(r, last)
  <2>1. v \in 0..MaxContent
    BY Bounds
  <2>2. x \in 0..last /\ obj[x] \in Row /\ Within(obj[x], last)
    BY <1>1, StoreIds
  <2> QED BY <2>1, <2>2, Rowtypes, WithinContent
<1>3. k \in Job
  BY <1>2, IdleTypes, Bounds DEF Job, Steps
<1>4. k.do = "replace" /\ k.cmd = "update" /\ k.x = x /\ k.new = 0 /\ k.row = r /\ k.todo = <<>>
  BY IdleTypes, Bounds DEF Idle
<1>5. JobOK(k, last)
  BY <1>2, <1>4, StoreIds DEF JobOK
<1> QED BY <1>1, <1>3, <1>5, StoreIds, BecomeTypes

LEMMA DeleteTypes ==
  ASSUME TypeOK, NEW s \in Session, NEW x \in Object, NEW now \in BOOLEAN, Delete(s, x, now)
  PROVE  /\ job' \in [Session -> Job] /\ \A t \in Session : JobOK(job'[t], last')
         /\ drift' \subseteq Object
<1> DEFINE q == ObjectTree(x)
<1>1. /\ q \in Seq(Rows)
      /\ Become(s, [Idle EXCEPT !.do = "check", !.cmd = "delete", !.x = Head(q), !.todo = q,
                                !.first = TRUE, !.now = now])
      /\ drift' = Marked(Head(q))
  BY DEF Delete
<1> DEFINE k == [Idle EXCEPT !.do = "check", !.cmd = "delete", !.x = Head(q), !.todo = q,
                            !.first = TRUE, !.now = now]
<1>2. last' = last /\ x \in Rows /\ StoreTypeOK /\ drift \subseteq Object
  BY DEF Delete, storeVars, MayChange, TypeOK
<1>3. q \in Seq(Object) /\ q # <<>> /\ Head(q) \in Object /\ \A i \in DOMAIN q : q[i] <= last
  BY <1>1, <1>2, ListsHaveObjects
<1> HIDE DEF q
<1>4. Head(q) <= last
  BY <1>3
<1>5. k \in Job
  BY <1>3, IdleTypes, Bounds DEF Job, Steps
<1>6. k.do = "check" /\ k.x = Head(q) /\ k.new = 0 /\ k.row = NoRow /\ k.todo = q
  BY IdleTypes, Bounds DEF Idle
<1>7. JobOK(k, last)
  BY <1>3, <1>4, <1>6, StoreIds, WithinNoRow DEF JobOK
<1>8. drift' \subseteq Object
  BY <1>1, <1>2, <1>3 DEF Marked
<1> QED BY <1>1, <1>2, <1>5, <1>7, <1>8, StoreIds, BecomeTypes

(* The steps that go on with a job. *)
LEMMA InsertStep ==
  ASSUME TypeOK, NEW s \in Session, Insert(s)
  PROVE  TypeOK'
<1> DEFINE j == job[s]
           u == LocalId(user[s])
<1>1. /\ StoreTypeOK /\ j \in Job /\ JobOK(j, last) /\ last \in Nat /\ u \in 0..last
      /\ j.row \in Row /\ Within(j.row, last) /\ j.do = "insert"
  BY StoreIds, JobTypes DEF TypeOK, JobOK, Insert, Does
<1>2. user' = user /\ conf' = conf /\ behind' = behind
  BY DEF Insert
<1>3. CASE CanInsert(j.row)
  <2>1. /\ InsertRow(j.row, u)
        /\ moved' \subseteq moved \cup {last + 1} /\ drift' \subseteq drift \cup {last + 1}
    BY <1>3 DEF Insert
  <2>2. StoreTypeOK' /\ last' = last + 1 /\ last' \in Object /\ last' \in 0..MaxObjects
    BY <1>1, <2>1, InsertTypes, Bounds
  <2>3. user' \in [Session -> 0..last']
    BY <1>1, <1>2, <2>2 DEF TypeOK
  <2>4. JobOK(j, last') /\ last' \in Nat /\ last <= last' /\ Within(NoRow, last')
    BY <1>1, <2>2, JobGrows, WithinNoRow
  <2>5. PICK what \in {"give", "fetch"} :
           \/ Become(s, [j EXCEPT !.do = what, !.x = last + 1, !.row = NoRow])
           \/ Done(s)
    BY <1>3 DEF Insert
  <2>6. ASSUME Become(s, [j EXCEPT !.do = what, !.x = last + 1, !.row = NoRow])
        PROVE  job' \in [Session -> Job] /\ \A t \in Session : JobOK(job'[t], last')
    <3> DEFINE k == [j EXCEPT !.do = what, !.x = last + 1, !.row = NoRow]
    <3>1. k \in Job
      BY <1>1, <2>2, NoRowTypes DEF Job, Steps
    <3>2. k.x = last' /\ k.new = j.new /\ k.row = NoRow /\ k.todo = j.todo /\ k.cmd = j.cmd /\ k.do = what
      BY <1>1, <2>2 DEF Job
    <3>3. k.cmd = "create" /\ k.x <= last' /\ k.x \in Object
      BY <1>1, <2>2, <3>2 DEF JobOK
    <3>4. JobOK(k, last')
      BY <2>4, <3>2, <3>3 DEF JobOK
    <3> QED BY <2>4, <2>6, <3>1, <3>4, BecomeTypes
  <2>7. job' \in [Session -> Job] /\ \A t \in Session : JobOK(job'[t], last')
    BY <2>4, <2>5, <2>6, DoneTypes
  <2> QED BY <1>2, <2>1, <2>2, <2>3, <2>7 DEF TypeOK
<1>4. CASE ~CanInsert(j.row)
  <2>1. Done(s) /\ UNCHANGED <<storeVars, drift, moved>>
    BY <1>4 DEF Insert
  <2>2. StoreTypeOK' /\ last' = last
    BY <1>1, <2>1 DEF storeVars, StoreTypeOK, Rows
  <2>3. job' \in [Session -> Job] /\ \A t \in Session : JobOK(job'[t], last')
    BY <1>1, <2>1, <2>2, DoneTypes
  <2> QED BY <1>2, <2>1, <2>2, <2>3 DEF TypeOK
<1> QED BY <1>3, <1>4

LEMMA GiveStep ==
  ASSUME TypeOK, NEW s \in Session, Give(s)
  PROVE  TypeOK'
<1> DEFINE j == job[s]
           k == [j EXCEPT !.do = "fetch", !.new = NULL]
<1>1. /\ StoreTypeOK /\ j \in Job /\ JobOK(j, last) /\ last \in Nat /\ j.do = "give"
      /\ j.new \in 0..last /\ UNCHANGED <<user, conf, drift, behind>>
  <2>1. j.new \in Nat /\ j.new <= last
    BY StoreIds, JobTypes, Bounds DEF JobOK
  <2> QED BY <2>1, StoreIds DEF TypeOK, Give, Does
<1>2. \/ SetOwner(j.x, j.new) /\ moved' = moved \cup {j.x} /\ j.x \in Rows
      \/ DropRow(j.x) /\ moved' = moved
  BY DEF Give, MayChown, MayChange
<1>3. StoreTypeOK' /\ last' = last /\ moved' \subseteq Object
  BY <1>1, <1>2, OwnerTypes, DropTypes DEF TypeOK, Rows
<1>4. k \in Job /\ k.x = j.x /\ k.new = 0 /\ k.row = j.row /\ k.todo = j.todo /\ k.cmd = j.cmd
      /\ k.do = "fetch"
  BY <1>1, Bounds DEF Job, Steps
<1>5. JobOK(k, last)
  BY <1>1, <1>4, SameJob DEF JobOK
<1>6. Done(s) \/ Become(s, k)
  BY DEF Give
<1>7. job' \in [Session -> Job] /\ \A t \in Session : JobOK(job'[t], last')
  BY <1>1, <1>3, <1>4, <1>5, <1>6, BecomeTypes, DoneTypes
<1> QED BY <1>1, <1>3, <1>7 DEF TypeOK

LEMMA ChownStep ==
  ASSUME TypeOK, NEW s \in Session, ChownWrite(s)
  PROVE  TypeOK'
<1> DEFINE j == job[s]
<1>1. j.new \in Nat /\ j.new <= last /\ last \in Nat /\ StoreTypeOK /\ j.x \in Object
  <2>1. j.do = "chown"
    BY DEF ChownWrite, Does
  <2>2. j \in Job /\ JobOK(j, last) /\ last \in Nat /\ StoreTypeOK
    BY StoreIds DEF TypeOK
  <2>3. j.new \in Nat
    BY <2>2, JobTypes, Bounds
  <2> QED BY <2>1, <2>2, <2>3 DEF JobOK
<1>2. SetOwner(j.x, j.new) /\ Done(s) /\ UNCHANGED <<user, conf, drift, behind>>
      /\ moved' = moved \cup {j.x}
  BY DEF ChownWrite
<1>3. StoreTypeOK' /\ last' = last
  BY <1>1, <1>2, OwnerTypes
<1>4. job' \in [Session -> Job] /\ \A t \in Session : JobOK(job'[t], last')
  BY <1>1, <1>2, <1>3, DoneTypes
<1>5. moved' \subseteq Object
  BY <1>1, <1>2 DEF TypeOK
<1> QED BY <1>2, <1>3, <1>4, <1>5 DEF TypeOK

LEMMA CheckStep ==
  ASSUME TypeOK, NEW s \in Session, Check(s)
  PROVE  TypeOK'
<1> DEFINE j == job[s]
           a == [j EXCEPT !.do = "report", !.answer = "failed"]
           r == [obj[j.x] EXCEPT !.content = 0]
           b == [j EXCEPT !.do = "replace", !.row = r]
<1>1. /\ StoreTypeOK /\ j \in Job /\ JobOK(j, last) /\ last \in Nat /\ j.do = "check"
      /\ j.x \in Object /\ j.new <= last /\ Within(j.row, last)
  BY StoreIds DEF TypeOK, JobOK, Check, Does
<1>2. UNCHANGED <<storeVars, user, conf, behind, moved>>
  BY DEF Check
<1>3. StoreTypeOK' /\ last' = last
  BY <1>1, <1>2 DEF storeVars, StoreTypeOK, Rows
<1>4. NextOfList(s) \in Job /\ JobOK(NextOfList(s), last) /\ MarkedNext(s) \subseteq Object
  BY <1>1, NextOfListTypes DEF Does
<1>5. a \in Job /\ JobOK(a, last)
  <2>1. /\ a \in Job /\ a.x = j.x /\ a.new = j.new /\ a.row = j.row /\ a.todo = j.todo
        /\ a.cmd = j.cmd /\ a.do = "report"
    BY <1>1 DEF Job, Steps
  <2> QED BY <1>1, <2>1, SameJob
<1>6. b \in Job /\ JobOK(b, last)
  <2>1. obj[j.x] \in Row /\ Within(obj[j.x], last)
    BY <1>1 DEF StoreTypeOK
  <2>2. r \in Row /\ Within(r, last)
    <3>1. 0 \in 0..MaxContent
      BY Bounds
    <3> QED BY <2>1, <3>1, Rowtypes, WithinContent
  <2> HIDE DEF r
  <2>3. /\ b \in Job /\ b.x = j.x /\ b.new = j.new /\ b.row = r /\ b.todo = j.todo
        /\ b.cmd = j.cmd /\ b.do = "replace"
    BY <1>1, <2>2 DEF Job, Steps
  <2> QED BY <1>1, <2>2, <2>3, SameJob
<1>7. \/ Become(s, NextOfList(s)) /\ drift' = MarkedNext(s)
      \/ Become(s, a) /\ drift' = drift
      \/ Done(s) /\ drift' = drift
      \/ Become(s, b) /\ drift' = drift
  BY DEF Check
<1>8. job' \in [Session -> Job] /\ \A t \in Session : JobOK(job'[t], last')
  BY <1>1, <1>3, <1>4, <1>5, <1>6, <1>7, BecomeTypes, DoneTypes
<1>9. drift' \subseteq Object
  BY <1>4, <1>7 DEF TypeOK
<1> QED BY <1>2, <1>3, <1>8, <1>9 DEF TypeOK

LEMMA ReplaceStep ==
  ASSUME TypeOK, NEW s \in Session, Replace(s)
  PROVE  TypeOK'
<1> DEFINE j == job[s]
           a == [j EXCEPT !.do = "fetch", !.row = NoRow]
           lost == {y \in Rows \ {j.x} : Clash(obj[y], j.row)}
           marked == drift \cup lost
<1>1. /\ StoreTypeOK /\ j \in Job /\ JobOK(j, last) /\ last \in Nat /\ j.do = "replace"
      /\ j.x \in Object /\ j.x \in 0..last /\ j.new <= last /\ j.row \in Row /\ Within(j.row, last)
  <2>1. j \in Job /\ JobOK(j, last) /\ last \in Nat /\ j.do = "replace" /\ StoreTypeOK
    BY StoreIds DEF Replace, Does, TypeOK
  <2>2. j.x \in Object /\ j.x <= last /\ j.new <= last /\ j.row \in Row /\ Within(j.row, last)
    BY <2>1, JobTypes DEF JobOK
  <2> QED BY <2>1, <2>2, Bounds
<1>2. ReplaceRow(j.x, j.row) /\ UNCHANGED <<user, conf>>
      /\ moved' \subseteq moved \cup {j.x} /\ behind' \subseteq behind \cup {j.x}
  BY DEF Replace
<1>3. StoreTypeOK' /\ last' = last
  BY <1>1, <1>2, ReplaceTypes
<1>4. marked \subseteq Object
  BY <1>1 DEF TypeOK, Rows
<1>5. a \in Job /\ JobOK(a, last)
  <2>1. /\ a \in Job /\ a.x = j.x /\ a.new = j.new /\ a.row = NoRow /\ a.todo = j.todo
        /\ a.cmd = j.cmd /\ a.do = "fetch"
    BY <1>1, NoRowTypes DEF Job, Steps
  <2> QED BY <1>1, <2>1, SameJob, WithinNoRow
<1>6. \/ Become(s, a) /\ drift' = marked
      \/ /\ j.cmd = "delete"
         /\ Become(s, NextOfList(s)) /\ drift' = marked \cup MarkedNext(s)
      \/ Done(s) /\ drift' = marked
  BY DEF Replace
<1>7. j.cmd = "delete" => /\ NextOfList(s) \in Job /\ JobOK(NextOfList(s), last)
                          /\ MarkedNext(s) \subseteq Object
  BY NextOfListTypes
<1>8. job' \in [Session -> Job] /\ \A t \in Session : JobOK(job'[t], last')
  BY <1>1, <1>3, <1>5, <1>6, <1>7, BecomeTypes, DoneTypes
<1>9. drift' \subseteq Object /\ moved' \subseteq Object /\ behind' \subseteq Object
  BY <1>1, <1>2, <1>4, <1>6, <1>7 DEF TypeOK
<1> QED BY <1>2, <1>3, <1>8, <1>9 DEF TypeOK

LEMMA FetchStep ==
  ASSUME TypeOK, NEW s \in Session, Fetch(s)
  PROVE  TypeOK'
<1> DEFINE j == job[s]
           c == obj[j.x].content
           a == [j EXCEPT !.do = "call", !.sent = c]
           b == [j EXCEPT !.do = "report", !.answer = "failed"]
<1>1. /\ StoreTypeOK /\ j \in Job /\ JobOK(j, last) /\ last \in Nat /\ j.do = "fetch"
      /\ j.x \in Object /\ j.new <= last /\ Within(j.row, last)
  BY StoreIds DEF TypeOK, JobOK, Fetch, Does
<1>2. /\ UNCHANGED <<storeVars, user, conf, moved>>
      /\ drift' \subseteq drift \cup {j.x} /\ behind' \subseteq behind \cup {j.x}
  BY DEF Fetch
<1>3. StoreTypeOK' /\ last' = last
  BY <1>1, <1>2 DEF storeVars, StoreTypeOK, Rows
<1>4. a \in Job /\ JobOK(a, last)
  <2>1. c \in 0..MaxContent
    BY <1>1, Rowtypes DEF StoreTypeOK
  <2> HIDE DEF c
  <2>2. /\ a \in Job /\ a.x = j.x /\ a.new = j.new /\ a.row = j.row /\ a.todo = j.todo
        /\ a.cmd = j.cmd /\ a.do = "call"
    BY <1>1, <2>1 DEF Job, Steps
  <2> QED BY <1>1, <2>2, SameJob
<1>5. b \in Job /\ JobOK(b, last)
  <2>1. /\ b \in Job /\ b.x = j.x /\ b.new = j.new /\ b.row = j.row /\ b.todo = j.todo
        /\ b.cmd = j.cmd /\ b.do = "report"
    BY <1>1 DEF Job, Steps
  <2> QED BY <1>1, <2>1, SameJob
<1>6. Become(s, a) \/ Become(s, b) \/ Done(s)
  BY DEF Fetch
<1>7. job' \in [Session -> Job] /\ \A t \in Session : JobOK(job'[t], last')
  BY <1>1, <1>3, <1>4, <1>5, <1>6, BecomeTypes, DoneTypes
<1>8. drift' \subseteq Object /\ behind' \subseteq Object
  BY <1>1, <1>2 DEF TypeOK
<1> QED BY <1>2, <1>3, <1>7, <1>8 DEF TypeOK

LEMMA CallStep ==
  ASSUME TypeOK, NEW s \in Session, NEW a \in Answer, Call(s, a)
  PROVE  TypeOK'
<1> DEFINE j == job[s]
           b == [j EXCEPT !.do = "report", !.sent = 0, !.answer = a]
<1>1. /\ StoreTypeOK /\ j \in Job /\ JobOK(j, last) /\ last \in Nat /\ j.do = "call"
      /\ j.x \in Object /\ j.new <= last /\ Within(j.row, last) /\ j.sent \in 0..MaxContent
  BY StoreIds, JobTypes DEF TypeOK, JobOK, Call, Does
<1>2. UNCHANGED <<storeVars, user, moved>> /\ Become(s, b)
      /\ drift' \subseteq drift \cup {j.x} /\ behind' \subseteq behind \cup {j.x}
  BY DEF Call
<1>3. StoreTypeOK' /\ last' = last
  BY <1>1, <1>2 DEF storeVars, StoreTypeOK, Rows
<1>4. Configured(s) \in 0..MaxContent
  BY <1>1, Bounds DEF Configured
<1>5. conf' \in [Object -> 0..MaxContent]
  BY <1>4 DEF Call, TypeOK
<1>6. b \in Job /\ JobOK(b, last)
  <2>1. 0 \in 0..MaxContent /\ a \in {"ok", "failed", "postponed"}
    BY Bounds, ObjectRequestsAssumption
  <2>2. /\ b \in Job /\ b.x = j.x /\ b.new = j.new /\ b.row = j.row /\ b.todo = j.todo
        /\ b.cmd = j.cmd /\ b.do = "report"
    BY <1>1, <2>1 DEF Job, Steps
  <2> QED BY <1>1, <2>2, SameJob
<1>7. job' \in [Session -> Job] /\ \A t \in Session : JobOK(job'[t], last')
  BY <1>1, <1>2, <1>3, <1>6, BecomeTypes
<1>8. drift' \subseteq Object /\ behind' \subseteq Object
  BY <1>1, <1>2 DEF TypeOK
<1> QED BY <1>2, <1>3, <1>5, <1>7, <1>8 DEF TypeOK

LEMMA ReportStep ==
  ASSUME TypeOK, NEW s \in Session, Report(s)
  PROVE  TypeOK'
<1> DEFINE j == job[s]
<1>1. StoreTypeOK /\ last \in Nat
  BY StoreIds DEF TypeOK
<1>2. UNCHANGED <<user, conf, behind, moved>>
  BY DEF Report
<1>3. DropRow(j.x) \/ PurgeRow(j.x) \/ UNCHANGED storeVars
  BY DEF Report
<1>4. StoreTypeOK' /\ last' = last
  <2>1. CASE UNCHANGED storeVars
    BY <1>1, <2>1 DEF storeVars, StoreTypeOK, Rows
  <2> QED BY <1>1, <1>3, <2>1, DropTypes, PurgeTypes
<1>5. \/ j.cmd = "delete" /\ Become(s, NextOfList(s)) /\ drift' = MarkedNext(s)
      \/ Done(s) /\ drift' = drift
  BY DEF Report
<1>6. j.cmd = "delete" => /\ NextOfList(s) \in Job /\ JobOK(NextOfList(s), last)
                          /\ MarkedNext(s) \subseteq Object
  BY NextOfListTypes
<1>7. job' \in [Session -> Job] /\ \A t \in Session : JobOK(job'[t], last')
  BY <1>1, <1>4, <1>5, <1>6, BecomeTypes, DoneTypes
<1>8. drift' \subseteq Object
  BY <1>5, <1>6 DEF TypeOK
<1> QED BY <1>2, <1>4, <1>7, <1>8 DEF TypeOK

LEMMA CrashStep ==
  ASSUME TypeOK, Crash
  PROVE  TypeOK'
<1>1. StoreTypeOK /\ last \in Nat /\ UNCHANGED <<storeVars, conf, moved>>
  BY StoreIds DEF TypeOK, Crash
<1>2. StoreTypeOK' /\ last' = last
  BY <1>1 DEF storeVars, StoreTypeOK, Rows
<1>3. job' \in [Session -> Job] /\ \A t \in Session : JobOK(job'[t], last')
  BY <1>1, <1>2, IdleOK DEF Crash
<1>4. user' \in [Session -> 0..last'] /\ drift' \subseteq Object /\ behind' \subseteq Object
  <2>1. NULL \in 0..last'
    BY <1>1, <1>2, Bounds
  <2>2. user' \in [Session -> 0..last']
    BY <2>1 DEF Crash
  <2> QED BY <2>2 DEF Crash, TypeOK
<1> QED BY <1>1, <1>2, <1>3, <1>4 DEF TypeOK

LEMMA QuotaStep ==
  ASSUME TypeOK, NEW s \in Session, NEW u \in Object, NEW c \in Class, NEW q \in Quota[c],
         SetQuota(s, u, c, q)
  PROVE  TypeOK'
<1>1. q \in Nat
  BY ObjectStoreAssumption
<1>2. /\ UNCHANGED <<obj, last, power>> /\ limit' = [limit EXCEPT ![u][c] = q]
      /\ UNCHANGED requestVars
  BY DEF SetQuota, SetLimit
<1>3. StoreTypeOK'
  <2>1. limit' \in [Object -> [Class -> Nat \cup {-1}]]
    BY <1>1, <1>2 DEF TypeOK, StoreTypeOK
  <2> QED BY <1>2, <2>1 DEF TypeOK, StoreTypeOK, Rows
<1> QED BY <1>2, <1>3 DEF TypeOK, requestVars

LEMMA UserStep ==
  ASSUME TypeOK, NEW s \in Session,
         (\E u \in Object : Login(s, u)) \/ Logout(s)
  PROVE  TypeOK'
<1>1. UNCHANGED <<storeVars, job, conf, drift, behind, moved>>
  BY DEF Login, Logout
<1>2. StoreTypeOK' /\ last' = last
  BY <1>1 DEF TypeOK, storeVars, StoreTypeOK, Rows
<1>3. PICK u \in Rows \cup {NULL} : user' = [user EXCEPT ![s] = u]
  BY DEF Login, Logout
<1>4. u \in 0..last
  BY StoreIds, Bounds
<1> QED BY <1>1, <1>2, <1>3, <1>4 DEF TypeOK

LEMMA TypeInit == Init => TypeOK
<1> SUFFICES ASSUME Init PROVE TypeOK
  OBVIOUS
<1> DEFINE first == [NoRow EXCEPT !.class = User, !.name = Admin, !.content = 1]
<1>1. 1 \in Object /\ 1 \in 0..MaxContent /\ last = 1 /\ 0..last = {0, 1}
  BY Bounds DEF Init, StoreInit
<1>2. first \in Row
  BY <1>1, NoRowTypes, Classes, Zenon DEF Row, NoRow
<1>3. Within(first, 1)
  <2>1. first.owner = 0 /\ first.parent = 0
    BY NoRowTypes DEF Row
  <2> QED BY <2>1 DEF Within
<1>4. \A x \in Object : obj[x] = IF x = 1 THEN first ELSE NoRow
  BY DEF Init, StoreInit
<1> HIDE DEF first
<1>5. obj \in [Object -> Row]
  BY <1>2, NoRowTypes DEF Init, StoreInit, first
<1>6. \A x \in Object : Within(obj[x], last) /\ (x \in Rows => x <= last)
  <2>1. NoRow.class = "" /\ Within(NoRow, 1)
    BY NoRowTypes, WithinNoRow
  <2> TAKE x \in Object
  <2>2. CASE x = 1
    BY <1>1, <1>3, <1>4, <2>2
  <2>3. CASE x # 1
    <3>1. obj[x] = NoRow
      BY <1>4, <2>3
    <3>2. x \notin Rows
      BY <2>1, <3>1 DEF Rows
    <3> QED BY <1>1, <2>1, <3>1, <3>2
  <2> QED BY <2>2, <2>3
<1>7. power \subseteq (0..last) \X (0..last)
  BY <1>1 DEF Init, StoreInit
<1>8. limit \in [Object -> [Class -> Nat \cup {-1}]]
  BY DEF Init, StoreInit
<1>9. StoreTypeOK
  BY <1>1, <1>5, <1>6, <1>7, <1>8 DEF StoreTypeOK
<1>10. user \in [Session -> 0..last] /\ conf \in [Object -> 0..MaxContent]
  BY <1>1, Bounds DEF Init
<1>11. job \in [Session -> Job] /\ \A s \in Session : JobOK(job[s], last)
  BY <1>1, IdleOK DEF Init
<1> QED BY <1>9, <1>10, <1>11 DEF TypeOK, Init

LEMMA TypeStep == TypeOK /\ [Next]_vars => TypeOK'
<1> SUFFICES ASSUME TypeOK, [Next]_vars PROVE TypeOK'
  OBVIOUS
<1>1. ASSUME NEW s \in Session, Request(s) PROVE TypeOK'
  <2>1. CASE (\E u \in Object : Login(s, u)) \/ Logout(s)
    BY <2>1, UserStep
  <2>2. ASSUME NEW c \in Class, NEW n \in MetaidOf(c), NEW p \in 0..last, NEW v \in 1..MaxContent,
               NEW new \in {NULL} \cup IF "chown" \in Command THEN Users ELSE {},
               NEW now \in Immediate, Create(s, c, p, n, v, new, now)
        PROVE  TypeOK'
    <3>0. n \in Name \cup {""}
      BY DEF MetaidOf
    <3>1. v \in 0..MaxContent /\ user[s] \in 0..last
      <4>1. v \in 0..MaxContent
        BY Bounds
      <4> QED BY <4>1, StoreIds
    <3>2. NewRow(user[s], c, p, n, v) \in Row
      BY <3>0, <3>1, NewRowTypes
    <3>3. new \in 0..last /\ now \in BOOLEAN
      BY StoreIds, Bounds, ObjectRequestsAssumption DEF Users
    <3>4. job' \in [Session -> Job] /\ \A t \in Session : JobOK(job'[t], last')
      BY <2>2, <3>2, <3>3, CreateTypes
    <3> QED BY <2>2, <3>4 DEF Create, TypeOK, storeVars, StoreTypeOK, Rows
  <2>3. ASSUME NEW x \in Object, NEW new \in Users, Chown(s, x, new)
        PROVE  TypeOK'
    <3>1. new \in Object
      BY DEF Users, Rows
    <3> QED BY <2>3, <3>1, ChownTypes DEF Chown, TypeOK, storeVars, StoreTypeOK, Rows
  <2>4. ASSUME NEW u \in Users, NEW c \in Class, NEW q \in Quota[c], SetQuota(s, u, c, q)
        PROVE  TypeOK'
    <3>1. u \in Object
      BY DEF Users, Rows
    <3> QED BY <2>4, <3>1, QuotaStep
  <2>5. ASSUME NEW x \in Object, NEW v \in 1..MaxContent, NEW now \in Immediate, Update(s, x, v, now)
        PROVE  TypeOK'
    <3>1. now \in BOOLEAN
      BY ObjectRequestsAssumption
    <3>2. drift' \subseteq Object
      BY <2>5 DEF Update, Marked, TypeOK
    <3> QED BY <2>5, <3>1, <3>2, UpdateTypes DEF Update, TypeOK, storeVars, StoreTypeOK, Rows
  <2>6. ASSUME NEW x \in Object, NEW now \in Immediate, Delete(s, x, now)
        PROVE  TypeOK'
    <3>1. now \in BOOLEAN
      BY ObjectRequestsAssumption
    <3> QED BY <2>6, <3>1, DeleteTypes DEF Delete, TypeOK, storeVars, StoreTypeOK, Rows
  <2> QED BY <1>1, <2>1, <2>2, <2>3, <2>4, <2>5, <2>6 DEF Request
<1>2. ASSUME NEW s \in Session, Proceed(s) PROVE TypeOK'
  BY <1>2, InsertStep, GiveStep, ChownStep, CheckStep, ReplaceStep, FetchStep, CallStep, ReportStep
     DEF Proceed
<1>3. CASE UNCHANGED vars
  BY <1>3 DEF vars, storeVars, requestVars, TypeOK, StoreTypeOK, Rows
<1> QED BY <1>1, <1>2, <1>3, CrashStep DEF Next

(* The tables, the jobs and the modules keep their types, every job speaks of  *)
(* ids that were handed out, and a deletion never runs past its list.        *)
THEOREM ObjectsTypeCorrect == Spec => []TypeOK
BY TypeInit, TypeStep, PTL DEF Spec

-----------------------------------------------------------------------------
(* A step leaves the tables alone or is one of four statements. *)
Inserts == \E s \in Session :
  LET r == job[s].row
      u == LocalId(user[s])
  IN  /\ CanInsert(r) /\ InsertRow(r, u)
      /\ r.owner # u => last + 1 \in moved'
Gives == \E x \in Object, new \in 0..last : SetOwner(x, new) /\ x \in moved'
Drops == \E x \in Object : DropRow(x)
Replaces == \E s \in Session :
  LET x == job[s].x
      r == job[s].row
  IN  /\ Does(s, "replace") /\ x \in Object /\ ReplaceRow(x, r)
      /\ Owner(x) # r.owner => x \in moved'

LEMMA Statements ==
  ASSUME TypeOK, [Next]_vars
  PROVE  UNCHANGED <<obj, power, last>> \/ Inserts \/ Gives \/ Drops \/ Replaces
<1> DEFINE Same == UNCHANGED <<obj, power, last>>
<1>1. ASSUME NEW s \in Session, Request(s) PROVE Same
  BY <1>1 DEF Request, Login, Logout, Create, Chown, SetQuota, SetLimit, Update, Delete, storeVars
<1>2. ASSUME NEW s \in Session, Proceed(s) PROVE Same \/ Inserts \/ Gives \/ Drops \/ Replaces
  <2> DEFINE j == job[s]
  <2>1. j.do \in {"give", "chown", "replace", "report"} => j.x \in Object /\ j.new \in 0..last
    <3>1. j \in Job /\ JobOK(j, last) /\ last \in Nat
      BY StoreIds
    <3>2. j.new \in Nat
      BY <3>1, JobTypes, Bounds
    <3> QED BY <3>1, <3>2 DEF JobOK
  <2>2. CASE Insert(s)
    BY <2>2, Zenon DEF Insert, Inserts, storeVars
  <2>3. CASE Give(s)
    BY <2>1, <2>3 DEF Give, Gives, Drops, Does
  <2>4. CASE ChownWrite(s)
    BY <2>1, <2>4 DEF ChownWrite, Gives, Does
  <2>5. CASE Replace(s)
    BY <2>1, <2>5 DEF Replace, Replaces, Does
  <2>6. CASE Report(s)
    BY <2>1, <2>6 DEF Report, PurgeRow, Drops, Does, storeVars
  <2>7. CASE Check(s) \/ Fetch(s) \/ \E a \in Answer : Call(s, a)
    BY <2>7 DEF Check, Fetch, Call, storeVars
  <2> QED BY <1>2, <2>2, <2>3, <2>4, <2>5, <2>6, <2>7 DEF Proceed
<1>3. CASE Crash
  BY <1>3 DEF Crash, storeVars
<1>4. CASE UNCHANGED vars
  BY <1>4 DEF vars, storeVars
<1> QED BY <1>1, <1>2, <1>3, <1>4 DEF Next

(* The UNIQUE of the table, which REPLACE keeps.  The proofs about one session   *)
(* below need it: what is read and written back takes nobody's name.           *)
NamesUnique == \A x, y \in Rows : x # y => ~Clash(obj[x], obj[y])

LEMMA ClashIsMutual ==
  ASSUME NEW r, NEW q, Clash(r, q)
  PROVE  Clash(q, r)
BY DEF Clash

LEMMA NoClashWithNoRow ==
  ASSUME NEW r
  PROVE  ~Clash(NoRow, r) /\ ~Clash(r, NoRow)
BY NoRowTypes DEF Clash

LEMMA NamesStep == TypeOK /\ NamesUnique /\ [Next]_vars => NamesUnique'
<1> SUFFICES ASSUME TypeOK, NamesUnique, [Next]_vars,
                    NEW x \in Rows', NEW y \in Rows', x # y
             PROVE  ~Clash(obj'[x], obj'[y])
  BY DEF NamesUnique
<1>1. obj \in [Object -> Row] /\ x \in Object /\ y \in Object /\ last \in Nat
  BY StoreIds DEF TypeOK, StoreTypeOK, Rows
<1>2. CASE UNCHANGED <<obj, power, last>>
  BY <1>2 DEF NamesUnique, Rows
<1>3. CASE Inserts
  <2>1. PICK s \in Session : CanInsert(job[s].row) /\ InsertRow(job[s].row, LocalId(user[s]))
    BY <1>3 DEF Inserts
  <2> DEFINE r == job[s].row
  <2>2. \A z \in Object : obj'[z] = IF z = last + 1 THEN r ELSE obj[z]
    BY <1>1, <2>1 DEF InsertRow
  <2>3. \A z \in Object : z \in Rows' /\ z # last + 1 => z \in Rows /\ ~Clash(obj[z], r)
    BY <2>1, <2>2 DEF Rows, CanInsert
  <2>4. CASE x # last + 1 /\ y # last + 1
    BY <1>1, <2>2, <2>3, <2>4 DEF NamesUnique
  <2>5. CASE y = last + 1
    BY <1>1, <2>2, <2>3, <2>5
  <2>6. CASE x = last + 1
    BY <1>1, <2>2, <2>3, <2>6, ClashIsMutual
  <2> QED BY <2>4, <2>5, <2>6
<1>4. CASE Gives
  <2>1. PICK z \in Object, new \in 0..last : SetOwner(z, new)
    BY <1>4 DEF Gives
  <2>2. \A a \in Object : obj'[a].class = obj[a].class /\ obj'[a].name = obj[a].name
                          /\ obj'[a].parent = obj[a].parent
    <3> TAKE a \in Object
    <3>1. obj[a] \in Row /\ (obj'[a] = obj[a] \/ obj'[a] = [obj[a] EXCEPT !.owner = new])
      BY <1>1, <2>1 DEF SetOwner
    <3> QED BY <3>1 DEF Row
  <2>3. x \in Rows /\ y \in Rows
    BY <1>1, <2>2 DEF Rows
  <2>4. ~Clash(obj[x], obj[y])
    BY <2>3 DEF NamesUnique
  <2> QED BY <1>1, <2>2, <2>4 DEF Clash
<1>5. CASE Drops
  <2>1. PICK z \in Object : DropRow(z)
    BY <1>5 DEF Drops
  <2>2. \A a \in Object : obj'[a] = NoRow \/ obj'[a] = obj[a]
    BY <1>1, <2>1 DEF DropRow
  <2> QED BY <1>1, <2>2, NoClashWithNoRow DEF NamesUnique, Rows
<1>6. CASE Replaces
  <2>1. PICK s \in Session : ReplaceRow(job[s].x, job[s].row)
    BY <1>6 DEF Replaces
  <2> DEFINE z == job[s].x
             r == job[s].row
  <2>2. \A a \in Object : obj'[a] = IF a = z THEN r ELSE IF Clash(obj[a], r) THEN NoRow ELSE obj[a]
    BY <2>1 DEF ReplaceRow, Replaced
  <2>3. \A a \in Object : a \in Rows' /\ a # z => a \in Rows /\ obj'[a] = obj[a] /\ ~Clash(obj[a], r)
    BY <2>2, NoRowTypes DEF Rows
  <2>4. CASE x # z /\ y # z
    BY <1>1, <2>3, <2>4 DEF NamesUnique
  <2>5. CASE y = z
    BY <1>1, <2>2, <2>3, <2>5
  <2>6. CASE x = z
    BY <1>1, <2>2, <2>3, <2>6, ClashIsMutual
  <2> QED BY <2>4, <2>5, <2>6
<1> QED BY <1>2, <1>3, <1>4, <1>5, <1>6, Statements

LEMMA NamesAreUnique == Spec => []NamesUnique
<1>1. Init => NamesUnique
  <2> SUFFICES ASSUME Init PROVE NamesUnique
    OBVIOUS
  <2>1. \A x \in Rows : x = 1
    BY NoRowTypes DEF Init, StoreInit, Rows
  <2> QED BY <2>1 DEF NamesUnique
<1>2. TypeOK /\ NamesUnique /\ [Next]_vars => NamesUnique'
  BY NamesStep
<1> QED BY <1>1, <1>2, ObjectsTypeCorrect, PTL DEF Spec

-----------------------------------------------------------------------------
(* MirrorFollowsOwners is not inductive: a REPLACE brings back an object with  *)
(* the owner that was read before.  ReplacesFollow says what makes that right. *)
Mirrors(x, o) == Mirror(x) = {x, o} \cup Mirror(o)

ReplacesFollow ==
  \A s \in Session :
    Does(s, "replace") /\ job[s].row.class = User /\ job[s].x \notin moved
      => Mirrors(job[s].x, job[s].row.owner)

MirrorInv == MirrorFollowsOwners /\ ReplacesFollow

LEMMA MovedGrows == ASSUME [Next]_vars PROVE moved \subseteq moved'
<1>1. ASSUME NEW s \in Session, Request(s) PROVE moved' = moved
  BY <1>1 DEF Request, Login, Logout, Create, Chown, SetQuota, Update, Delete, requestVars
<1>2. ASSUME NEW s \in Session, Proceed(s) PROVE moved \subseteq moved'
  BY <1>2 DEF Proceed, Insert, Give, ChownWrite, Check, Replace, Fetch, Call, Report
<1> QED BY <1>1, <1>2 DEF Next, Crash, vars, requestVars

(* A REPLACE was there before, or its row was just read. *)
ReadsRow(t) ==
  LET x == job'[t].x
  IN  /\ x \in Rows /\ UNCHANGED <<obj, power, last>>
      /\ job'[t].row.class = obj[x].class /\ job'[t].row.owner = obj[x].owner

LEMMA ReplaceJobs ==
  ASSUME TypeOK, [Next]_vars, NEW t \in Session, job'[t].do = "replace"
  PROVE  job'[t] = job[t] \/ ReadsRow(t)
<1>1. job \in [Session -> Job] /\ Idle.do = "idle" /\ obj \in [Object -> Row]
  BY IdleTypes DEF TypeOK, StoreTypeOK
<1>2. ASSUME NEW s \in Session, Request(s) PROVE job'[t] = job[t] \/ ReadsRow(t)
  <2>1. CASE \E x \in Object, v \in 1..MaxContent, now \in Immediate : Update(s, x, v, now)
    <3>1. PICK x \in Object, v \in 1..MaxContent, now \in Immediate : Update(s, x, v, now)
      BY <2>1
    <3> DEFINE r == [obj[x] EXCEPT !.content = v]
               k == [Idle EXCEPT !.do = "replace", !.cmd = "update", !.x = x, !.now = now, !.row = r]
    <3>2. x \in Rows /\ UNCHANGED <<obj, power, last>> /\ job' = [job EXCEPT ![s] = k]
      BY <3>1 DEF Update, MayChange, storeVars, Become
    <3>3. k.x = x /\ k.row = r
      BY DEF Idle
    <3>4. r.class = obj[x].class /\ r.owner = obj[x].owner
      BY <1>1 DEF Row
    <3> HIDE DEF r, k
    <3> QED BY <1>1, <3>2, <3>3, <3>4 DEF ReadsRow
  <2>2. CASE \E x \in Object, now \in Immediate : Delete(s, x, now)
    <3>1. PICK k : k.do = "check" /\ job' = [job EXCEPT ![s] = k]
      BY <2>2, IdleTypes DEF Delete, Become, Idle
    <3> QED BY <1>1, <3>1
  <2>3. CASE \E k : k.do # "replace" /\ job' = [job EXCEPT ![s] = k]
    BY <1>1, <2>3
  <2>4. ASSUME NEW c, NEW p, NEW n, NEW v, NEW new, NEW now, Create(s, c, p, n, v, new, now)
        PROVE  \E k : k.do # "replace" /\ job' = [job EXCEPT ![s] = k]
    BY <2>4 DEF Create, Become, Idle
  <2>5. ASSUME NEW x, NEW new, Chown(s, x, new)
        PROVE  \E k : k.do # "replace" /\ job' = [job EXCEPT ![s] = k]
    BY <2>5 DEF Chown, Become, Idle
  <2>6. ASSUME NEW u, NEW c, NEW q, SetQuota(s, u, c, q) PROVE job' = job
    BY <2>6 DEF SetQuota, requestVars
  <2>7. ASSUME NEW u, Login(s, u) \/ Logout(s) PROVE job' = job
    BY <2>7 DEF Login, Logout
  <2> QED BY <1>2, <2>1, <2>2, <2>3, <2>4, <2>5, <2>6, <2>7, Zenon DEF Request
<1>3. ASSUME NEW s \in Session, Proceed(s) PROVE job'[t] = job[t] \/ ReadsRow(t)
  <2> DEFINE j == job[s]
  <2>1. CASE t # s
    BY <1>1, <1>3, <2>1 DEF Proceed, Insert, Give, ChownWrite, Check, Replace, Fetch, Call, Report,
         Become, Done
  <2>2. CASE t = s
    <3>1. j \in Job /\ (job' = [job EXCEPT ![s] = NextOfList(s)] => job'[s].do # "replace")
      <4>1. j \in Job
        BY <1>1
      <4>2. NextOfList(s).do # "replace"
        BY <1>1, <4>1 DEF NextOfList, Job
      <4> QED BY <1>1, <4>1, <4>2
    <3>2. CASE Check(s)
      <4> DEFINE r == [obj[j.x] EXCEPT !.content = 0]
                 k == [j EXCEPT !.do = "replace", !.row = r]
      <4>1. j.x \in Rows /\ job' = [job EXCEPT ![s] = k] /\ UNCHANGED <<obj, power, last>>
        BY <1>1, <2>2, <3>1, <3>2 DEF Check, Become, Done, storeVars, Job
      <4>2. k.x = j.x /\ k.row = r
        BY <3>1 DEF Job
      <4>3. r.class = obj[j.x].class /\ r.owner = obj[j.x].owner
        BY <1>1, <4>1 DEF Row, Rows
      <4> HIDE DEF r, k
      <4> QED BY <1>1, <2>2, <4>1, <4>2, <4>3 DEF ReadsRow
    <3>3. CASE Insert(s) \/ Give(s) \/ ChownWrite(s)
      BY <1>1, <2>2, <3>1, <3>3 DEF Insert, Give, ChownWrite, Become, Done, Job
    <3>4. CASE Replace(s)
      BY <1>1, <2>2, <3>1, <3>4 DEF Replace, Become, Done, Job
    <3>5. CASE Fetch(s)
      BY <1>1, <2>2, <3>1, <3>5 DEF Fetch, Become, Done, Job
    <3>6. CASE Report(s)
      BY <1>1, <2>2, <3>1, <3>6 DEF Report, Become, Done
    <3>7. CASE \E a \in Answer : Call(s, a)
      BY <1>1, <2>2, <3>1, <3>7 DEF Call, Become, Job
    <3> QED BY <1>3, <3>2, <3>3, <3>4, <3>5, <3>6, <3>7 DEF Proceed
  <2> QED BY <2>1, <2>2
<1>4. CASE Crash
  BY <1>1, <1>4 DEF Crash
<1>5. CASE UNCHANGED vars
  BY <1>5 DEF vars, requestVars
<1> QED BY <1>2, <1>3, <1>4, <1>5 DEF Next

(* While powermirror stays, an object that has its owner still follows him.   *)
LEMMA ReplacesGoOn ==
  ASSUME TypeOK, MirrorInv, [Next]_vars, UNCHANGED power
  PROVE  ReplacesFollow'
<1> SUFFICES ASSUME NEW t \in Session, job'[t].do = "replace", job'[t].row.class = User,
                    job'[t].x \notin moved'
             PROVE  Mirrors(job[t].x, job[t].row.owner)'
  BY DEF ReplacesFollow, Does
<1>1. \A a : Mirror(a)' = Mirror(a)
  BY DEF Mirror
<1>2. job'[t].x \notin moved
  BY MovedGrows
<1>3. CASE job'[t] = job[t]
  BY <1>1, <1>2, <1>3 DEF MirrorInv, ReplacesFollow, Mirrors, Does
<1>4. CASE ReadsRow(t)
  BY <1>1, <1>2, <1>4 DEF MirrorInv, MirrorFollowsOwners, ReadsRow, Mirrors
<1> QED BY <1>3, <1>4, ReplaceJobs

LEMMA MirrorStep == TypeOK /\ MirrorInv /\ [Next]_vars => MirrorInv'
<1> SUFFICES ASSUME TypeOK, MirrorInv, [Next]_vars PROVE MirrorInv'
  OBVIOUS
<1>0. obj \in [Object -> Row] /\ last \in Nat /\ last \in Object /\ power \subseteq (0..last) \X (0..last)
      /\ last <= MaxObjects
  BY StoreIds DEF TypeOK, StoreTypeOK
<1>1. CASE UNCHANGED <<obj, power, last>>
  <2>1. MirrorFollowsOwners'
    BY <1>1, MovedGrows DEF MirrorInv, MirrorFollowsOwners, Rows, Mirror
  <2> QED BY <1>1, <2>1, ReplacesGoOn DEF MirrorInv
<1>2. CASE Drops
  <2>1. PICK x \in Object : DropRow(x)
    BY <1>2 DEF Drops
  <2>2. UNCHANGED power /\ \A y \in Object : y \in Rows' => y \in Rows /\ obj'[y] = obj[y]
    BY <1>0, <2>1, NoRowTypes DEF DropRow, Rows
  <2>3. MirrorFollowsOwners'
    BY <2>2, MovedGrows DEF MirrorInv, MirrorFollowsOwners, Rows, Mirror
  <2> QED BY <2>2, <2>3, ReplacesGoOn DEF MirrorInv
<1>3. CASE Gives
  <2>1. PICK x \in Object, new \in 0..last : SetOwner(x, new) /\ x \in moved'
    BY <1>3 DEF Gives
  <2>2. UNCHANGED power /\ \A y \in Object : y \in Rows' /\ y # x => y \in Rows /\ obj'[y] = obj[y]
    BY <1>0, <2>1 DEF SetOwner, Rows
  <2>3. MirrorFollowsOwners'
    BY <2>1, <2>2, MovedGrows DEF MirrorInv, MirrorFollowsOwners, Rows, Mirror
  <2> QED BY <2>2, <2>3, ReplacesGoOn DEF MirrorInv
<1>4. CASE Replaces
  <2>1. PICK s \in Session : /\ Does(s, "replace") /\ job[s].x \in Object
                             /\ ReplaceRow(job[s].x, job[s].row)
                             /\ Owner(job[s].x) # job[s].row.owner => job[s].x \in moved'
    BY <1>4 DEF Replaces
  <2> DEFINE x == job[s].x
             r == job[s].row
  <2>2. UNCHANGED power /\ obj'[x] = r
        /\ \A y \in Object : y \in Rows' /\ y # x => y \in Rows /\ obj'[y] = obj[y]
    BY <1>0, <2>1, NoRowTypes DEF ReplaceRow, Replaced, Rows
  <2>3. r.class = User /\ x \notin moved' => Mirrors(x, r.owner)
    BY <2>1, MovedGrows DEF MirrorInv, ReplacesFollow
  <2>4. MirrorFollowsOwners'
    <3> SUFFICES ASSUME NEW y \in Rows', y \notin moved', obj'[y].class = User
                 PROVE  (Mirror(y) = {y, obj[y].owner} \cup Mirror(obj[y].owner))'
      BY DEF MirrorFollowsOwners
    <3>1. (\A a : Mirror(a)' = Mirror(a)) /\ y \in Object
      BY <2>2 DEF Mirror, Rows
    <3>2. CASE y = x
      BY <2>2, <2>3, <3>1, <3>2 DEF Mirrors
    <3>3. CASE y # x
      BY <2>2, <3>1, <3>3, MovedGrows DEF MirrorInv, MirrorFollowsOwners
    <3> QED BY <3>2, <3>3
  <2> QED BY <2>2, <2>4, ReplacesGoOn DEF MirrorInv
<1>5. CASE Inserts
  <2>1. PICK s \in Session : /\ InsertRow(job[s].row, LocalId(user[s]))
                             /\ job[s].row.owner # LocalId(user[s]) => last + 1 \in moved'
    BY <1>5 DEF Inserts
  <2>a. PICK r, u, x : r = job[s].row /\ u = LocalId(user[s]) /\ x = last + 1
    OBVIOUS
  <2>2. u \in 0..last /\ x \in Object /\ x \notin 0..last
    <3>1. last < MaxObjects
      BY <2>1 DEF InsertRow
    <3> QED BY <1>0, <2>a, <3>1, StoreIds, Bounds
  <2>3. /\ power' = IF r.class = User THEN power \cup Powers(x, u) ELSE power
        /\ obj'[x] = r
        /\ \A y \in Object : y # x => obj'[y] = obj[y]
    BY <1>0, <2>1, <2>2, <2>a DEF InsertRow
  <2>4. \A y \in 0..last : Mirror(y)' = Mirror(y)
    BY <2>2, <2>3 DEF Mirror, Powers
  <2>5. r.class = User => Mirror(x)' = {x, u} \cup Mirror(u)
    <3> SUFFICES ASSUME r.class = User PROVE Mirror(x)' = {x, u} \cup Mirror(u)
      OBVIOUS
    <3>1. \A p : <<x, p>> \notin power
      BY <1>0, <2>2
    <3>2. \A p : <<x, p>> \in power' <=> p \in {x, u} \cup Mirror(u)
      BY <2>3, <3>1 DEF Powers
    <3>3. {x, u} \cup Mirror(u) \subseteq 0..MaxObjects
      <4>1. x \in 0..MaxObjects /\ u \in 0..MaxObjects
        BY <1>0, <2>2, Bounds
      <4> QED BY <4>1 DEF Mirror
    <3> QED BY <3>2, <3>3 DEF Mirror
  <2>6. MirrorFollowsOwners'
    <3> SUFFICES ASSUME NEW y \in Rows', y \notin moved', obj'[y].class = User
                 PROVE  (Mirror(y) = {y, obj[y].owner} \cup Mirror(obj[y].owner))'
      BY DEF MirrorFollowsOwners
    <3>1. CASE y = x
      <4>1. obj'[y] = r /\ r.owner = u
        BY <2>1, <2>3, <2>a, <3>1
      <4> QED BY <2>2, <2>4, <2>5, <3>1, <4>1
    <3>2. CASE y # x
      <4>1. y \in Rows /\ obj'[y] = obj[y] /\ y \notin moved
        BY <2>3, <3>2, MovedGrows DEF Rows
      <4>2. y \in 0..last /\ obj[y].owner \in 0..last
        BY <4>1, StoreIds DEF Owner
      <4> QED BY <2>4, <4>1, <4>2 DEF MirrorInv, MirrorFollowsOwners
    <3> QED BY <3>1, <3>2
  <2>7. ReplacesFollow'
    <3> SUFFICES ASSUME NEW t \in Session, job'[t].do = "replace", job'[t].row.class = User,
                        job'[t].x \notin moved'
                 PROVE  Mirrors(job[t].x, job[t].row.owner)'
      BY DEF ReplacesFollow, Does
    <3>1. job'[t] = job[t]
      <4>1. last' # last
        BY <1>0, <2>1 DEF InsertRow
      <4> QED BY <4>1, ReplaceJobs DEF ReadsRow
    <3>2. job[t].x \in 0..last /\ job[t].row.owner \in 0..last
      <4>1. job[t] \in Job /\ JobOK(job[t], last)
        BY StoreIds
      <4>2. job[t].x \in Nat /\ job[t].row.owner \in Nat
        BY <4>1, JobTypes, RowIds, Bounds
      <4> QED BY <1>0, <4>1, <4>2 DEF JobOK, Within
    <3>3. Mirrors(job[t].x, job[t].row.owner)
      BY <3>1, MovedGrows DEF MirrorInv, ReplacesFollow, Does
    <3> QED BY <2>4, <3>1, <3>2, <3>3 DEF Mirrors
  <2> QED BY <2>6, <2>7 DEF MirrorInv
<1> QED BY <1>1, <1>2, <1>3, <1>4, <1>5, Statements

(* For any number of users and sessions, what createObject wrote into          *)
(* powermirror once for all stays the truth about every user whose owner did  *)
(* not change, although requests overlap and REPLACE brings rows back.       *)
THEOREM MirrorIsTrue == Spec => []MirrorFollowsOwners
<1>1. Init => MirrorInv
  <2> SUFFICES ASSUME Init PROVE MirrorInv
    OBVIOUS
  <2>1. /\ \A x \in Rows : x = 1
        /\ obj[1].owner = 0 /\ 1 \in Object /\ {0, 1} \subseteq 0..MaxObjects
    <3>1. 1 \in Object /\ {0, 1} \subseteq 0..MaxObjects
      BY Bounds
    <3>2. obj[1].owner = 0
      BY <3>1 DEF Init, StoreInit, NoRow, NULL
    <3> QED BY <3>1, <3>2, NoRowTypes DEF Init, StoreInit, Rows
  <2>2. Mirror(1) = {0, 1} /\ Mirror(0) = {1}
    BY <2>1 DEF Init, StoreInit, Mirror
  <2>3. MirrorFollowsOwners
    BY <2>1, <2>2 DEF MirrorFollowsOwners
  <2>4. ReplacesFollow
    BY IdleTypes DEF Init, ReplacesFollow, Does
  <2> QED BY <2>3, <2>4 DEF MirrorInv
<1>2. TypeOK /\ MirrorInv /\ [Next]_vars => MirrorInv'
  BY MirrorStep
<1>3. MirrorInv => MirrorFollowsOwners
  BY DEF MirrorInv
<1> QED BY <1>1, <1>2, <1>3, ObjectsTypeCorrect, PTL DEF Spec
-----------------------------------------------------------------------------
(* InStep says what holds between requests.  Progress says what a request that   *)
(* keeps a module in step has done so far, as long as it is alone with its      *)
(* object: the tables o and what the modules have, c, as they are then.        *)
There(x, o) == o[x].class # ""
Agrees(x, o, c, b) == (There(x, o) <=> c[x] # 0) /\ (x \in b \/ c[x] = o[x].content)
Marks(j, x, o) == There(x, o) /\ (o[x].content = 0 <=> j.cmd = "delete")

Progress(j, o, c, b) ==
  /\ j.do \in {"check", "replace"} => Agrees(j.x, o, c, b)
  /\ j.do = "replace" => There(j.x, o)
  /\ j.do = "give" => ~j.now /\ Marks(j, j.x, o) /\ c[j.x] = 0
  /\ j.do \in {"fetch", "call"} => ~j.now /\ Marks(j, j.x, o) /\ (j.cmd = "create" <=> c[j.x] = 0)
  /\ j.do = "call" => j.sent = o[j.x].content
  /\ j.do = "report" /\ j.answer = "ok" => Marks(j, j.x, o) /\ c[j.x] = o[j.x].content
  /\ j.do = "report" /\ j.answer = "failed" /\ j.cmd # "update" =>
       c[j.x] = 0 /\ (j.cmd = "delete" => ~There(j.x, o))
  /\ j.do = "report" /\ (j.answer = "postponed" \/ (j.answer = "failed" /\ j.cmd = "update")) =>
       Marks(j, j.x, o) /\ c[j.x] # 0 /\ j.x \in b

(* Which command is at which step, and which rows it writes. *)
Commands(j) ==
  /\ j.do = "idle" => j.x = NULL
  /\ j.do = "insert" => j.x = NULL /\ j.cmd = "create"
  /\ j.do = "give" => j.cmd = "create"
  /\ j.do = "check" => j.cmd = "delete"
  /\ j.do = "replace" => j.cmd \in {"update", "delete"}
  /\ j.do \in {"fetch", "call", "report"} => j.cmd \in {"create", "update", "delete"}
  /\ j.do = "chown" <=> j.cmd = "chown"
  /\ j.do \in {"insert", "replace"} => j.row.class # "" /\ (j.row.content = 0 <=> j.cmd = "delete")

Serves(j, x) == j.x = x /\ j.cmd # "chown"
Alone ==
  \A s, t \in Session : \A x \in Object \ drift :
    Serves(job[s], x) /\ Serves(job[t], x) => s = t

Steady ==
  /\ \A s \in Session : Commands(job[s])
  /\ \A x \in Object : ~There(x, obj) => obj[x].content = 0
  /\ Alone
  /\ \A s \in Session : \A x \in Object \ drift : Serves(job[s], x) => Progress(job[s], obj, conf, behind)
  /\ InStep

(* What other requests know of an object does not change. *)
Stays(x) ==
  /\ There(x, obj') <=> There(x, obj)
  /\ obj'[x].content = obj[x].content /\ conf'[x] = conf[x]
  /\ x \in behind' <=> x \in behind

LEMMA BusyServes == \A x : Busy(x) <=> \E s \in Session : Serves(job[s], x)
BY DEF Busy, Serves

LEMMA ThereAreRows == \A x \in Object : x \in Rows <=> There(x, obj)
BY DEF Rows, There

LEMMA AgreesWhenIdle ==
  ASSUME Steady, NEW x \in Object \ drift, ~Busy(x)
  PROVE  Agrees(x, obj, conf, behind)
BY ThereAreRows DEF Steady, InStep, Agrees

LEMMA ProgressStays ==
  ASSUME NEW j, Stays(j.x)
  PROVE  /\ Progress(j, obj, conf, behind) => Progress(j, obj', conf', behind')
         /\ Agrees(j.x, obj, conf, behind) => Agrees(j.x, obj', conf', behind')
BY DEF Progress, Stays, Agrees, Marks

LEMMA AgreesStays ==
  ASSUME NEW x, Stays(x), Agrees(x, obj, conf, behind)
  PROVE  Agrees(x, obj', conf', behind')
BY DEF Stays, Agrees

LEMMA IdleServesNone ==
  /\ Commands(Idle) /\ \A x \in Object : ~Serves(Idle, x)
  /\ \A j : Commands(j) /\ j.do \in {"idle", "insert"} => \A x \in Object : ~Serves(j, x)
<1>1. \A x \in Object : x # NULL
  BY Bounds
<1>2. Idle.do = "idle" /\ Idle.x = NULL /\ Idle.cmd = ""
  BY IdleTypes, Bounds
<1>3. Commands(Idle)
  BY <1>2 DEF Commands
<1> QED BY <1>1, <1>2, <1>3 DEF Serves, Commands

(* A step of one request, which stays with its object, goes to one that nobody  *)
(* is at, or ends.                                                           *)
LEMMA SteadyStep ==
  ASSUME TypeOK, Steady, NEW s \in Session, NEW k, Become(s, k), drift \subseteq drift', Commands(k),
         \A x \in Object \ drift' : ~Serves(job[s], x) /\ ~Serves(k, x) => Stays(x),
         \A x \in Object \ drift' :
           Serves(k, x) => (Serves(job[s], x) \/ ~Busy(x)) /\ Progress(k, obj', conf', behind'),
         \A x \in Object \ drift' : Serves(job[s], x) /\ ~Serves(k, x) => Agrees(x, obj', conf', behind'),
         \A x \in Object : ~There(x, obj') => obj'[x].content = 0
  PROVE  Steady'
<1>1. /\ job'[s] = k /\ \A t \in Session \ {s} : job'[t] = job[t]
  BY DEF Become, TypeOK
<1>2. \A t \in Session : Commands(job'[t])
  BY <1>1 DEF Steady
<1>3. ASSUME NEW t \in Session, NEW x \in Object \ drift', Serves(job'[t], x), t # s
      PROVE  ~Serves(k, x) /\ ~Serves(job[s], x) /\ Progress(job[t], obj, conf, behind)
  <2>1. Serves(job[t], x) /\ x \in Object \ drift
    BY <1>1, <1>3
  <2>2. ~Serves(job[s], x) /\ Busy(x) /\ Progress(job[t], obj, conf, behind)
    BY <1>3, <2>1, BusyServes DEF Steady, Alone
  <2> QED BY <1>3, <2>2
<1>4. Alone'
  <2>1. ASSUME NEW t \in Session, NEW u \in Session, NEW x \in Object \ drift',
               Serves(job'[t], x), Serves(job'[u], x)
        PROVE  t = u
    <3>1. CASE t # s /\ u # s
      BY <1>1, <2>1, <3>1 DEF Steady, Alone
    <3>2. CASE t = s /\ u # s
      BY <1>1, <1>3, <2>1, <3>2
    <3>3. CASE u = s /\ t # s
      BY <1>1, <1>3, <2>1, <3>3
    <3> QED BY <3>1, <3>2, <3>3
  <2> QED BY <2>1 DEF Alone, Serves
<1>5. ASSUME NEW t \in Session, NEW x \in Object \ drift', Serves(job'[t], x)
      PROVE  Progress(job'[t], obj', conf', behind')
  <2>1. CASE t = s
    BY <1>1, <1>5, <2>1
  <2>2. CASE t # s
    <3>1. Stays(x) /\ Progress(job[t], obj, conf, behind) /\ job'[t] = job[t] /\ job[t].x = x
      BY <1>1, <1>3, <1>5, <2>2 DEF Serves
    <3> QED BY <3>1, ProgressStays
  <2> QED BY <2>1, <2>2
<1>6. ASSUME NEW x \in Object \ drift', \A t \in Session : ~Serves(job'[t], x)
      PROVE  Agrees(x, obj', conf', behind')
  <2>1. CASE Serves(job[s], x)
    BY <1>1, <1>6, <2>1
  <2>2. CASE ~Serves(job[s], x)
    <3>1. ~Busy(x) /\ x \in Object \ drift /\ ~Serves(k, x)
      BY <1>1, <1>6, <2>2, BusyServes
    <3> QED BY <2>2, <3>1, AgreesWhenIdle, AgreesStays
  <2> QED BY <2>1, <2>2
<1>7. InStep'
  <2>1. ASSUME NEW x \in Object \ drift', ~Busy(x)'
        PROVE  /\ x \in Rows' <=> conf'[x] # 0
               /\ x \in behind' \/ conf'[x] = obj'[x].content
    <3>1. \A t \in Session : ~Serves(job'[t], x)
      BY <2>1 DEF Busy, Serves
    <3> QED BY <1>6, <3>1 DEF Agrees, There, Rows
  <2> QED BY <2>1 DEF InStep
<1> QED BY <1>2, <1>4, <1>5, <1>7 DEF Steady, There, Serves

(* What the statements leave as it is. *)
LEMMA UnchangedStays ==
  ASSUME UNCHANGED <<storeVars, conf, behind>>, Steady
  PROVE  /\ obj' = obj /\ conf' = conf /\ behind' = behind /\ \A x : Stays(x)
         /\ \A x \in Object : ~There(x, obj') => obj'[x].content = 0
<1>1. obj' = obj /\ conf' = conf /\ behind' = behind
  BY DEF storeVars
<1> QED BY <1>1 DEF Stays, There, Steady

LEMMA DropStays ==
  ASSUME TypeOK, Steady, NEW x \in Object, DropRow(x), UNCHANGED <<conf, behind>>
  PROVE  /\ \A y \in Object \ {x} : Stays(y)
         /\ ~There(x, obj') /\ obj'[x].content = 0
         /\ \A y \in Object : ~There(y, obj') => obj'[y].content = 0
<1>1. obj' = [obj EXCEPT ![x] = NoRow] /\ conf' = conf /\ behind' = behind /\ obj \in [Object -> Row]
  BY DEF DropRow, TypeOK, StoreTypeOK
<1>2. NoRow.class = "" /\ NoRow.content = 0
  BY DEF NoRow
<1>3. obj'[x] = NoRow /\ \A y \in Object \ {x} : obj'[y] = obj[y]
  BY <1>1
<1> QED BY <1>1, <1>2, <1>3 DEF Stays, There, Steady

LEMMA OwnerStays ==
  ASSUME TypeOK, Steady, NEW x, NEW new, SetOwner(x, new), UNCHANGED <<conf, behind>>
  PROVE  /\ \A y \in Object : Stays(y)
         /\ \A y \in Object : ~There(y, obj') => obj'[y].content = 0
<1>1. conf' = conf /\ behind' = behind /\ obj \in [Object -> Row]
  BY DEF TypeOK, StoreTypeOK
<1>2. \A y \in Object : obj'[y].class = obj[y].class /\ obj'[y].content = obj[y].content
  <2> TAKE y \in Object
  <2>1. obj'[y] = obj[y] \/ obj'[y] = [obj[y] EXCEPT !.owner = new]
    BY <1>1 DEF SetOwner
  <2>2. obj[y] \in Row
    BY <1>1
  <2> QED BY <2>1, <2>2 DEF Row
<1> QED BY <1>1, <1>2 DEF Stays, There, Steady

LEMMA ReplaceStays ==
  ASSUME TypeOK, Steady, NEW x \in Object, NEW r, ReplaceRow(x, r), UNCHANGED conf, r.class # "",
         behind' \subseteq behind \cup {x}, behind \subseteq behind'
  PROVE  /\ \A y \in Object \ {x} : ~(y \in Rows /\ Clash(obj[y], r)) => Stays(y)
         /\ obj'[x] = r
         /\ \A y \in Object : ~There(y, obj') => obj'[y].content = 0
<1>1. conf' = conf /\ obj' = Replaced(x, r)
  BY DEF ReplaceRow
<1>2. /\ obj'[x] = r
      /\ \A y \in Object \ {x} : obj'[y] = obj[y] \/ (obj'[y] = NoRow /\ y \in Rows /\ Clash(obj[y], r))
  BY <1>1 DEF Replaced, Clash, Rows
<1>3. NoRow.class = "" /\ NoRow.content = 0
  BY DEF NoRow
<1> QED BY <1>1, <1>2, <1>3 DEF Stays, There, Steady

(* The requests, from the checks on. *)
LEMMA IdleJob ==
  ASSUME Steady, NEW s \in Session, Does(s, "idle") \/ Does(s, "insert")
  PROVE  \A x \in Object : ~Serves(job[s], x)
BY IdleServesNone DEF Steady, Does

LEMMA SteadyCreate ==
  ASSUME TypeOK, Steady, NEW s \in Session, NEW c \in Class, NEW p, NEW n, NEW v \in 1..MaxContent,
         NEW new, NEW now, Create(s, c, p, n, v, new, now)
  PROVE  Steady'
<1> DEFINE r == NewRow(user[s], c, p, n, v)
           k == [Idle EXCEPT !.do = "insert", !.cmd = "create", !.new = new, !.now = now, !.row = r]
<1>1. Become(s, k) /\ UNCHANGED <<storeVars, conf, behind>> /\ drift' = drift /\ Does(s, "idle")
  BY DEF Create
<1>2. r.class # "" /\ r.content # 0
  <2>1. r.class = c /\ r.content = v
    BY DEF NewRow
  <2>2. v # 0
    BY Bounds
  <2> QED BY <2>1, <2>2, Classes, Zenon
<1> HIDE DEF r
<1>3. k.do = "insert" /\ k.cmd = "create" /\ k.x = NULL /\ k.row = r
  BY DEF Idle
<1> HIDE DEF k
<1>4. Commands(k)
  BY <1>2, <1>3 DEF Commands
<1>5. \A x \in Object : ~Serves(job[s], x) /\ ~Serves(k, x)
  BY <1>1, <1>3, <1>4, IdleJob, IdleServesNone
<1> QED BY <1>1, <1>4, <1>5, UnchangedStays, SteadyStep

LEMMA SteadyChown ==
  ASSUME TypeOK, Steady, NEW s \in Session, NEW x, NEW new, Chown(s, x, new)
  PROVE  Steady'
<1> DEFINE k == [Idle EXCEPT !.do = "chown", !.cmd = "chown", !.x = x, !.new = new]
<1>1. Become(s, k) /\ UNCHANGED <<storeVars, conf, behind>> /\ drift' = drift /\ Does(s, "idle")
  BY DEF Chown
<1>2. k.do = "chown" /\ k.cmd = "chown"
  BY DEF Idle
<1> HIDE DEF k
<1>3. Commands(k) /\ \A y \in Object : ~Serves(job[s], y) /\ ~Serves(k, y)
  BY <1>1, <1>2, IdleJob DEF Commands, Serves
<1> QED BY <1>1, <1>3, UnchangedStays, SteadyStep

(* A request comes to an object: if no other is at it, the object agrees.     *)
LEMMA Arrives ==
  ASSUME Steady, NEW x \in Object, x \notin Marked(x)
  PROVE  ~Busy(x) /\ Agrees(x, obj, conf, behind)
<1>1. ~Busy(x) /\ x \in Object \ drift
  BY DEF Marked
<1> QED BY <1>1, AgreesWhenIdle

LEMMA SteadyUpdate ==
  ASSUME TypeOK, Steady, NEW s \in Session, NEW x \in Object, NEW v \in 1..MaxContent, NEW now,
         Update(s, x, v, now)
  PROVE  Steady'
<1> DEFINE r == [obj[x] EXCEPT !.content = v]
           k == [Idle EXCEPT !.do = "replace", !.cmd = "update", !.x = x, !.now = now, !.row = r]
<1>1. /\ Become(s, k) /\ UNCHANGED <<storeVars, conf, behind>> /\ Does(s, "idle") /\ x \in Rows
      /\ drift' = Marked(x)
  BY DEF Update, MayChange
<1>2. drift \subseteq drift'
  BY <1>1 DEF Marked
<1>3. r.class # "" /\ r.content # 0
  <2>1. obj[x] \in Row /\ obj[x].class # ""
    BY <1>1 DEF Rows, TypeOK, StoreTypeOK
  <2>2. r.class = obj[x].class /\ r.content = v
    BY <2>1 DEF Row
  <2>3. v # 0
    BY Bounds
  <2> QED BY <2>1, <2>2, <2>3, Zenon
<1> HIDE DEF r
<1>4. k.do = "replace" /\ k.cmd = "update" /\ k.x = x /\ k.row = r
  BY DEF Idle
<1> HIDE DEF k
<1>5. Commands(k) /\ \A y \in Object : ~Serves(job[s], y) /\ (Serves(k, y) => y = x)
  BY <1>1, <1>3, <1>4, IdleJob DEF Commands, Serves
<1>6. obj' = obj /\ conf' = conf /\ behind' = behind
  BY <1>1 DEF storeVars
<1>7. x \notin drift' => ~Busy(x) /\ Progress(k, obj', conf', behind')
  BY <1>1, <1>4, <1>6, Arrives, ThereAreRows DEF Progress
<1> QED BY <1>1, <1>2, <1>5, <1>7, UnchangedStays, SteadyStep

LEMMA SteadyDelete ==
  ASSUME TypeOK, Steady, NEW s \in Session, NEW z \in Object, NEW now, Delete(s, z, now)
  PROVE  Steady'
<1> DEFINE q == ObjectTree(z)
           k == [Idle EXCEPT !.do = "check", !.cmd = "delete", !.x = Head(q), !.todo = q,
                             !.first = TRUE, !.now = now]
           x == Head(q)
<1>1. /\ Become(s, k) /\ UNCHANGED <<storeVars, conf, behind>> /\ Does(s, "idle")
      /\ drift' = Marked(x) /\ q \in Seq(Rows)
  BY DEF Delete
<1>2. x \in Object
  BY <1>1, ListsHaveObjects DEF TypeOK
<1> HIDE DEF q
<1>3. drift \subseteq drift'
  BY <1>1 DEF Marked
<1>4. k.do = "check" /\ k.cmd = "delete" /\ k.x = x
  BY DEF Idle
<1> HIDE DEF k, x
<1>5. Commands(k) /\ \A y \in Object : ~Serves(job[s], y) /\ (Serves(k, y) => y = x)
  BY <1>1, <1>4, IdleJob DEF Commands, Serves
<1>6. obj' = obj /\ conf' = conf /\ behind' = behind
  BY <1>1 DEF storeVars
<1>7. x \notin drift' => ~Busy(x) /\ Progress(k, obj', conf', behind')
  BY <1>1, <1>2, <1>4, <1>6, Arrives DEF Progress
<1> QED BY <1>1, <1>3, <1>5, <1>7, UnchangedStays, SteadyStep

(* A deletion goes on to the next object of its list, or ends. *)
LEMMA NextArrives ==
  ASSUME Steady, TypeOK, NEW s \in Session, job[s].cmd = "delete"
  PROVE  /\ Commands(NextOfList(s)) /\ drift \subseteq MarkedNext(s)
         /\ \A x \in Object \ MarkedNext(s) : Serves(NextOfList(s), x) =>
              /\ ~Busy(x) /\ Agrees(x, obj, conf, behind)
              /\ Stays(x) => Progress(NextOfList(s), obj', conf', behind')
<1> DEFINE j == job[s]
           k == NextOfList(s)
           y == Head(Tail(j.todo))
<1>1. drift \subseteq MarkedNext(s)
  BY DEF MarkedNext, Marked
<1>2. CASE Len(j.todo) = 1
  BY <1>1, <1>2, IdleServesNone DEF NextOfList
<1>3. CASE Len(j.todo) # 1
  <2>1. j \in Job /\ j.todo \in Seq(Object) /\ j.todo # <<>>
    BY JobTypes DEF TypeOK, JobOK
  <2>2. Len(j.todo) > 1 /\ y \in Object
    BY <1>3, <2>1, Tails
  <2>3. MarkedNext(s) = Marked(y)
    BY <2>2 DEF MarkedNext
  <2>4. k.do = "check" /\ k.cmd = "delete" /\ k.x = y
    BY <1>3, <2>1 DEF NextOfList, Job
  <2> HIDE DEF k, y
  <2>5. Commands(k)
    BY <2>4 DEF Commands
  <2>6. ASSUME NEW x \in Object \ MarkedNext(s), Serves(k, x)
        PROVE  /\ ~Busy(x) /\ Agrees(x, obj, conf, behind)
               /\ Stays(x) => Progress(k, obj', conf', behind')
    <3>1. x = y
      BY <2>4, <2>6 DEF Serves
    <3>2. ~Busy(y) /\ Agrees(y, obj, conf, behind)
      BY <2>2, <2>3, <2>6, <3>1, Arrives
    <3>3. Stays(y) => Agrees(k.x, obj', conf', behind')
      BY <2>4, <3>2, AgreesStays
    <3>4. Stays(y) => Progress(k, obj', conf', behind')
      BY <2>4, <3>3 DEF Progress
    <3> QED BY <3>1, <3>2, <3>4
  <2> QED BY <1>1, <2>5, <2>6 DEF k
<1> QED BY <1>2, <1>3

(* The steps that go on with a request.  It is at an object that no other is   *)
(* at, and has made the progress its step tells, or the object is in drift.    *)
LEMMA Serving ==
  ASSUME TypeOK, Steady, NEW s \in Session, job[s].do \notin {"idle", "insert", "chown"}
  PROVE  /\ Commands(job[s]) /\ job[s] \in Job /\ job[s].x \in Object /\ job[s].cmd # "chown"
         /\ \A y \in Object : Serves(job[s], y) <=> y = job[s].x
         /\ Busy(job[s].x)
         /\ job[s].x \notin drift => Progress(job[s], obj, conf, behind)
<1>1. Commands(job[s]) /\ job[s] \in Job /\ JobOK(job[s], last)
  BY StoreIds DEF Steady
<1>2. job[s].x \in Object /\ job[s].cmd # "chown"
  BY <1>1 DEF JobOK, Commands
<1>3. \A y \in Object : Serves(job[s], y) <=> y = job[s].x
  BY <1>2 DEF Serves
<1>4. Busy(job[s].x)
  BY <1>2 DEF Busy
<1>5. job[s].x \notin drift => Progress(job[s], obj, conf, behind)
  BY <1>2, <1>3 DEF Steady
<1> QED BY <1>1, <1>2, <1>3, <1>4, <1>5

LEMMA SteadyInsert ==
  ASSUME TypeOK, Steady, NEW s \in Session, Insert(s)
  PROVE  Steady'
<1> DEFINE j == job[s]
           x == last + 1
<1>1. /\ Commands(j) /\ j \in Job /\ JobOK(j, last) /\ last \in Nat /\ j.do = "insert"
      /\ j.cmd = "create" /\ UNCHANGED <<conf, behind>> /\ \A y \in Object : ~Serves(j, y)
  BY StoreIds, IdleJob DEF Steady, Insert, Does, Commands
<1>2. CASE ~CanInsert(j.row)
  <2>1. Become(s, Idle) /\ UNCHANGED <<storeVars, conf, behind>> /\ drift' = drift
    BY <1>1, <1>2 DEF Insert, Done
  <2> QED BY <1>1, <2>1, IdleServesNone, UnchangedStays, SteadyStep
<1>3. CASE CanInsert(j.row)
  <2>1. /\ last < MaxObjects /\ obj' = [obj EXCEPT ![x] = j.row] /\ x \in Object
        /\ drift' = IF j.now THEN drift \cup {x} ELSE drift
    BY <1>1, <1>3, Bounds DEF Insert, InsertRow
  <2>2. obj'[x] = j.row /\ \A y \in Object \ {x} : obj'[y] = obj[y]
    BY <2>1 DEF TypeOK, StoreTypeOK
  <2>3. \A y \in Object \ {x} : Stays(y)
    BY <1>1, <2>2 DEF Stays, There
  <2>4. j.row.class # "" /\ j.row.content # 0
    BY <1>1 DEF Commands
  <2>5. \A y \in Object : ~There(y, obj') => obj'[y].content = 0
    BY <2>2, <2>4 DEF There, Steady
  <2>6. ~Busy(x) /\ ~There(x, obj)
    <3>1. \A t \in Session : job[t].x # x
      <4>1. \A t \in Session : job[t].x <= last /\ job[t].x \in Nat
        BY StoreIds, JobTypes, Bounds DEF JobOK
      <4> QED BY <1>1, <4>1
    <3>2. x \notin Rows
      BY <1>1, StoreIds
    <3> QED BY <2>1, <3>1, <3>2, ThereAreRows DEF Busy
  <2>7. x \notin drift => conf'[x] = 0 /\ There(x, obj') /\ (obj'[x].content = 0 <=> j.cmd = "delete")
    BY <1>1, <2>1, <2>2, <2>4, <2>6, AgreesWhenIdle DEF Agrees, There
  <2>8. PICK what \in {"give", "fetch"} :
           \/ Become(s, [j EXCEPT !.do = what, !.x = x, !.row = NoRow]) /\ (what = "fetch" => ~j.now)
           \/ Done(s)
    BY <1>3 DEF Insert
  <2>9. CASE Done(s)
    <3>1. x \in drift'
      <4>1. j.now
        <5>1. Idle.do = "idle" /\ job' = [job EXCEPT ![s] = Idle] /\ job'[s] = Idle
          BY <2>9, <1>1, IdleTypes DEF Done, Become, TypeOK
        <5>2. ASSUME NEW w \in {"give", "fetch"},
                     Become(s, [j EXCEPT !.do = w, !.x = x, !.row = NoRow]) PROVE FALSE
          <6>1. job'[s] = [j EXCEPT !.do = w, !.x = x, !.row = NoRow]
            BY <5>2 DEF Become, TypeOK
          <6>2. job'[s].do = w
            BY <6>1, <1>1 DEF Job
          <6> QED BY <5>1, <6>2
        <5> QED BY <1>3, <5>2 DEF Insert
      <4> QED BY <2>1, <4>1
    <3>2. Become(s, Idle) /\ drift \subseteq drift'
      BY <2>1, <2>9 DEF Done
    <3> QED BY <1>1, <2>3, <2>5, <3>1, <3>2, IdleServesNone, SteadyStep
  <2>10. CASE /\ Become(s, [j EXCEPT !.do = what, !.x = x, !.row = NoRow])
              /\ what = "fetch" => ~j.now
    <3> DEFINE k == [j EXCEPT !.do = what, !.x = x, !.row = NoRow]
    <3>1. k.do = what /\ k.x = x /\ k.cmd = "create" /\ k.now = j.now
      BY <1>1 DEF Job
    <3> HIDE DEF k
    <3>2. Commands(k)
      BY <3>1 DEF Commands
    <3>3. \A y \in Object : Serves(k, y) <=> y = x
      BY <3>1 DEF Serves
    <3>4. drift \subseteq drift' /\ (x \notin drift' => ~k.now)
      BY <2>1, <3>1
    <3>5. x \notin drift' => Progress(k, obj', conf', behind')
      BY <2>7, <3>1, <3>4, <1>1 DEF Progress, Marks
    <3>6. Become(s, k)
      BY <2>10 DEF k
    <3>7. \A y \in Object \ drift' : Serves(k, y) => ~Busy(y) /\ Progress(k, obj', conf', behind')
      BY <2>6, <3>3, <3>5
    <3>8. \A y \in Object \ drift' : ~Serves(k, y) => Stays(y)
      BY <2>3, <3>3
    <3>9. drift \subseteq drift' /\ \A y \in Object : ~Serves(job[s], y)
      BY <1>1, <3>4
    <3> QED BY <2>5, <3>2, <3>6, <3>7, <3>8, <3>9, SteadyStep
  <2> QED BY <2>8, <2>9, <2>10
<1> QED BY <1>2, <1>3

LEMMA SteadyGive ==
  ASSUME TypeOK, Steady, NEW s \in Session, Give(s)
  PROVE  Steady'
<1> DEFINE j == job[s]
           x == j.x
<1>1. j.do = "give" /\ UNCHANGED <<conf, drift, behind>>
  BY DEF Give, Does
<1>2. /\ Commands(j) /\ j \in Job /\ x \in Object /\ j.cmd = "create"
      /\ \A y \in Object : Serves(j, y) <=> y = x
      /\ x \notin drift => Progress(j, obj, conf, behind)
  BY <1>1, Serving DEF Commands
<1>3. x \notin drift => ~j.now /\ Marks(j, x, obj) /\ conf[x] = 0
  BY <1>1, <1>2 DEF Progress
<1>4. CASE MayChown(user[s], x, j.new)
  <2> DEFINE k == [j EXCEPT !.do = "fetch", !.new = NULL]
  <2>1. SetOwner(x, j.new) /\ IF j.now THEN Done(s) ELSE Become(s, k)
    BY <1>4 DEF Give
  <2>2. \A y \in Object : Stays(y) /\ (~There(y, obj') => obj'[y].content = 0)
    BY <1>1, <2>1, OwnerStays
  <2>3. CASE j.now
    <3>1. Become(s, Idle) /\ x \in drift'
      BY <1>1, <1>3, <2>1, <2>3 DEF Done
    <3> QED BY <1>1, <1>2, <2>2, <3>1, IdleServesNone, SteadyStep
  <2>4. CASE ~j.now
    <3>1. k.do = "fetch" /\ k.x = x /\ k.cmd = "create" /\ k.now = j.now
      BY <1>2 DEF Job
    <3>2. Become(s, k)
      BY <2>1, <2>4
    <3> HIDE DEF k
    <3>3. Commands(k) /\ \A y \in Object : Serves(k, y) <=> y = x
      BY <3>1 DEF Commands, Serves
    <3>4. x \notin drift => Progress(k, obj, conf, behind)
      BY <1>2, <1>3, <2>4, <3>1 DEF Progress, Marks
    <3>5. x \notin drift' => Progress(k, obj', conf', behind')
      BY <1>1, <1>2, <2>2, <3>1, <3>4, ProgressStays
    <3> QED BY <1>1, <1>2, <2>2, <3>2, <3>3, <3>5, SteadyStep
  <2> QED BY <2>3, <2>4
<1>5. CASE ~MayChown(user[s], x, j.new)
  <2>1. DropRow(x) /\ Become(s, Idle)
    BY <1>5 DEF Give, Done
  <2>2. /\ \A y \in Object \ {x} : Stays(y)
        /\ ~There(x, obj') /\ obj'[x].content = 0
        /\ \A y \in Object : ~There(y, obj') => obj'[y].content = 0
    BY <1>1, <1>2, <2>1, DropStays
  <2>3. x \notin drift' => Agrees(x, obj', conf', behind')
    BY <1>1, <1>3, <2>2 DEF Agrees
  <2> QED BY <1>1, <1>2, <2>1, <2>2, <2>3, IdleServesNone, SteadyStep
<1> QED BY <1>4, <1>5

LEMMA SteadyChownWrite ==
  ASSUME TypeOK, Steady, NEW s \in Session, ChownWrite(s)
  PROVE  Steady'
<1>1. job[s].do = "chown" /\ SetOwner(job[s].x, job[s].new) /\ Become(s, Idle) /\ UNCHANGED <<conf, drift, behind>>
  BY DEF ChownWrite, Does, Done
<1>2. \A y \in Object : ~Serves(job[s], y)
  BY <1>1 DEF Steady, Commands, Serves
<1> QED BY <1>1, <1>2, OwnerStays, IdleServesNone, SteadyStep

LEMMA SteadyCheck ==
  ASSUME TypeOK, Steady, NEW s \in Session, Check(s)
  PROVE  Steady'
<1> DEFINE j == job[s]
           x == j.x
<1>1. j.do = "check" /\ UNCHANGED <<storeVars, conf, behind>>
  BY DEF Check, Does
<1>2. /\ Commands(j) /\ j \in Job /\ x \in Object /\ j.cmd = "delete" /\ Busy(x)
      /\ \A y \in Object : Serves(j, y) <=> y = x
      /\ x \notin drift => Agrees(x, obj, conf, behind)
  BY <1>1, Serving DEF Commands, Progress
<1>3. /\ obj' = obj /\ conf' = conf /\ behind' = behind /\ \A y : Stays(y)
      /\ \A y \in Object : ~There(y, obj') => obj'[y].content = 0
  BY <1>1, UnchangedStays
<1>4. CASE Become(s, NextOfList(s)) /\ drift' = MarkedNext(s)
  BY <1>2, <1>3, <1>4, NextArrives, SteadyStep
<1>5. CASE Become(s, Idle) /\ drift' = drift
  BY <1>2, <1>3, <1>5, IdleServesNone, SteadyStep
<1>6. CASE /\ Become(s, [j EXCEPT !.do = "report", !.answer = "failed"]) /\ drift' = drift
           /\ x \notin Rows
  <2> DEFINE k == [j EXCEPT !.do = "report", !.answer = "failed"]
  <2>1. k.do = "report" /\ k.x = x /\ k.cmd = "delete" /\ k.answer = "failed"
    BY <1>2 DEF Job
  <2> HIDE DEF k
  <2>2. Commands(k) /\ \A y \in Object : Serves(k, y) <=> y = x
    BY <2>1 DEF Commands, Serves
  <2>3. x \notin drift' => Progress(k, obj', conf', behind')
    BY <1>2, <1>3, <1>6, <2>1, ThereAreRows DEF Progress, Agrees, Steady
  <2> QED BY <1>2, <1>3, <1>6, <2>2, <2>3, SteadyStep DEF k
<1>7. CASE /\ Become(s, [j EXCEPT !.do = "replace", !.row = [obj[x] EXCEPT !.content = 0]])
           /\ drift' = drift /\ x \in Rows
  <2> DEFINE r == [obj[x] EXCEPT !.content = 0]
             k == [j EXCEPT !.do = "replace", !.row = r]
  <2>1. r.class # "" /\ r.content = 0
    BY <1>2, <1>7 DEF Rows, TypeOK, StoreTypeOK, Row
  <2> HIDE DEF r
  <2>2. k.do = "replace" /\ k.x = x /\ k.cmd = "delete" /\ k.row = r
    BY <1>2 DEF Job
  <2>3. Become(s, k)
    BY <1>7 DEF r
  <2> HIDE DEF k
  <2>4. Commands(k) /\ \A y \in Object : Serves(k, y) <=> y = x
    BY <2>1, <2>2 DEF Commands, Serves
  <2>5. x \notin drift' => Progress(k, obj', conf', behind')
    BY <1>2, <1>3, <1>7, <2>2, ThereAreRows DEF Progress
  <2> QED BY <1>2, <1>3, <1>7, <2>3, <2>4, <2>5, SteadyStep
<1>8. \/ Become(s, NextOfList(s)) /\ drift' = MarkedNext(s)
      \/ Become(s, Idle) /\ drift' = drift
      \/ /\ Become(s, [j EXCEPT !.do = "report", !.answer = "failed"]) /\ drift' = drift
         /\ x \notin Rows
      \/ /\ Become(s, [j EXCEPT !.do = "replace", !.row = [obj[x] EXCEPT !.content = 0]])
         /\ drift' = drift /\ x \in Rows
  BY DEF Check, Done
<1> QED BY <1>4, <1>5, <1>6, <1>7, <1>8

LEMMA SteadyReplace ==
  ASSUME TypeOK, Steady, NEW s \in Session, Replace(s)
  PROVE  Steady'
<1> DEFINE j == job[s]
           x == j.x
           lost == {y \in Rows \ {x} : Clash(obj[y], j.row)}
           marked == drift \cup lost
<1>1. /\ j.do = "replace" /\ UNCHANGED conf /\ ReplaceRow(x, j.row)
      /\ behind' = IF j.now THEN behind \cup {x} ELSE behind
  BY DEF Replace, Does
<1>2. /\ Commands(j) /\ j \in Job /\ x \in Object /\ j.cmd \in {"update", "delete"} /\ Busy(x)
      /\ \A y \in Object : Serves(j, y) <=> y = x
      /\ j.row.class # "" /\ (j.row.content = 0 <=> j.cmd = "delete")
      /\ x \notin drift => conf[x] # 0
  BY <1>1, Serving DEF Commands, Progress, Agrees
<1>3. /\ obj'[x] = j.row
      /\ \A y \in Object : ~There(y, obj') => obj'[y].content = 0
  BY <1>1, <1>2, ReplaceStays
<1>4. \A y \in Object \ {x} : y \notin lost => Stays(y)
  BY <1>1, <1>2, ReplaceStays
<1>5. /\ lost \subseteq marked /\ drift \subseteq marked
      /\ x \notin drift /\ j.now => Agrees(x, obj', conf', behind')
  BY <1>1, <1>2, <1>3 DEF Agrees, There
<1>6. \/ Become(s, [j EXCEPT !.do = "fetch", !.row = NoRow]) /\ drift' = marked /\ ~j.now
      \/ /\ Become(s, NextOfList(s)) /\ drift' = marked \cup MarkedNext(s)
         /\ j.now /\ j.cmd = "delete"
      \/ Become(s, Idle) /\ drift' = marked /\ j.now
  BY DEF Replace, Done
<1> HIDE DEF lost, marked
<1>7. CASE Become(s, [j EXCEPT !.do = "fetch", !.row = NoRow]) /\ drift' = marked /\ ~j.now
  <2> DEFINE k == [j EXCEPT !.do = "fetch", !.row = NoRow]
  <2>1. k.do = "fetch" /\ k.x = x /\ k.cmd = j.cmd /\ k.now = j.now
    BY <1>2 DEF Job
  <2>2. Become(s, k)
    BY <1>7
  <2> HIDE DEF k
  <2>3. Commands(k) /\ \A y \in Object : Serves(k, y) <=> y = x
    BY <1>2, <2>1 DEF Commands, Serves
  <2>4. x \notin drift' => Progress(k, obj', conf', behind')
    BY <1>1, <1>2, <1>3, <1>5, <1>7, <2>1 DEF Progress, Marks, There
  <2>5. \A y \in Object \ drift' : ~Serves(j, y) => Stays(y)
    BY <1>2, <1>4, <1>5, <1>7
  <2> QED BY <1>2, <1>3, <1>5, <1>7, <2>2, <2>3, <2>4, <2>5, SteadyStep
<1>8. CASE /\ Become(s, NextOfList(s)) /\ drift' = marked \cup MarkedNext(s)
           /\ j.now /\ j.cmd = "delete"
  <2> DEFINE k == NextOfList(s)
  <2>1. Commands(k) /\ drift \subseteq drift'
    BY <1>5, <1>8, NextArrives
  <2>2. \A y \in Object \ drift' : y # x => Stays(y)
    BY <1>4, <1>5, <1>8, <2>1
  <2>3. \A y \in Object \ drift' : Serves(k, y) => ~Busy(y) /\ Progress(k, obj', conf', behind')
    BY <1>2, <1>8, <2>2, NextArrives
  <2> QED BY <1>2, <1>3, <1>5, <1>8, <2>1, <2>2, <2>3, SteadyStep
<1>9. CASE Become(s, Idle) /\ drift' = marked /\ j.now
  <2>1. \A y \in Object \ drift' : y # x => Stays(y)
    BY <1>4, <1>5, <1>9
  <2> QED BY <1>2, <1>3, <1>5, <1>9, <2>1, IdleServesNone, SteadyStep
<1> QED BY <1>6, <1>7, <1>8, <1>9

LEMMA SteadyFetch ==
  ASSUME TypeOK, Steady, NEW s \in Session, Fetch(s)
  PROVE  Steady'
<1> DEFINE j == job[s]
           x == j.x
           c == obj[x].content
           a == [j EXCEPT !.do = "call", !.sent = c]
           b == [j EXCEPT !.do = "report", !.answer = "failed"]
<1>1. j.do = "fetch" /\ UNCHANGED <<storeVars, conf>> /\ drift \subseteq drift'
  BY DEF Fetch, Does
<1>2. /\ Commands(j) /\ j \in Job /\ x \in Object /\ j.cmd \in {"create", "update", "delete"}
      /\ \A y \in Object : Serves(j, y) <=> y = x
      /\ x \notin drift => ~j.now /\ Marks(j, x, obj) /\ (j.cmd = "create" <=> conf[x] = 0)
  BY <1>1, Serving DEF Commands, Progress
<1>3. /\ obj' = obj /\ conf' = conf
      /\ \A y \in Object : ~There(y, obj') => obj'[y].content = 0
  BY <1>1 DEF storeVars, Steady, There
<1>4. \/ Become(s, a) /\ UNCHANGED <<drift, behind>>
      \/ Become(s, b) /\ x \in drift' /\ behind' = behind
      \/ Become(s, Idle) /\ x \in drift' /\ behind' = behind
      \/ Become(s, Idle) /\ j.cmd = "update" /\ drift' = drift /\ behind' = behind \cup {x}
  BY DEF Fetch, Done
<1>8. \A y \in Object \ {x} : Stays(y)
  BY <1>3, <1>4 DEF Stays, There
<1>5. CASE Become(s, a) /\ UNCHANGED <<drift, behind>>
  <2>1. a.do = "call" /\ a.x = x /\ a.cmd = j.cmd /\ a.now = j.now /\ a.sent = c
    <3> HIDE DEF c
    <3> QED BY <1>2 DEF Job
  <2> HIDE DEF a
  <2>2. Commands(a) /\ \A y \in Object : Serves(a, y) <=> y = x
    BY <1>2, <2>1 DEF Commands, Serves
  <2>3. x \notin drift' => Progress(a, obj', conf', behind')
    BY <1>1, <1>2, <1>3, <2>1 DEF Progress, Marks
  <2> QED BY <1>1, <1>2, <1>3, <1>5, <1>8, <2>2, <2>3, SteadyStep
<1>6. CASE Become(s, b) /\ x \in drift'
  <2>1. b.do = "report" /\ b.x = x /\ b.cmd = j.cmd
    BY <1>2 DEF Job
  <2> HIDE DEF b
  <2>2. Commands(b) /\ \A y \in Object : Serves(b, y) <=> y = x
    BY <1>2, <2>1 DEF Commands, Serves
  <2> QED BY <1>1, <1>2, <1>3, <1>6, <1>8, <2>2, SteadyStep
<1>7. CASE Become(s, Idle) /\ (x \in drift' \/ (j.cmd = "update" /\ drift' = drift /\ behind' = behind \cup {x}))
  <2>1. x \notin drift' => Agrees(x, obj', conf', behind')
    BY <1>2, <1>3, <1>7 DEF Agrees, Marks
  <2> QED BY <1>1, <1>2, <1>3, <1>7, <1>8, <2>1, IdleServesNone, SteadyStep
<1> QED BY <1>4, <1>5, <1>6, <1>7

LEMMA SteadyCall ==
  ASSUME TypeOK, Steady, NEW s \in Session, NEW a \in Answer, Call(s, a)
  PROVE  Steady'
<1> DEFINE j == job[s]
           x == j.x
           k == [j EXCEPT !.do = "report", !.sent = 0, !.answer = a]
<1>1. /\ j.do = "call" /\ UNCHANGED storeVars /\ Become(s, k)
      /\ conf' = IF a = "ok" THEN [conf EXCEPT ![x] = Configured(s)] ELSE conf
      /\ drift' = IF <<a, j.cmd>> \in {<<"postponed", "create">>, <<"failed", "delete">>}
                  THEN drift \cup {x} ELSE drift
      /\ behind' = IF a = "ok" THEN behind \ {x}
                   ELSE IF j.cmd = "create" THEN behind ELSE behind \cup {x}
  BY DEF Call, Does
<1>2. /\ Commands(j) /\ j \in Job /\ x \in Object /\ j.cmd \in {"create", "update", "delete"}
      /\ \A y \in Object : Serves(j, y) <=> y = x
      /\ x \notin drift => /\ Marks(j, x, obj) /\ j.sent = obj[x].content
                           /\ j.cmd = "create" <=> conf[x] = 0
      /\ a \in {"ok", "failed", "postponed"}
  BY <1>1, Serving, ObjectRequestsAssumption DEF Commands, Progress
<1>3. k.do = "report" /\ k.x = x /\ k.cmd = j.cmd /\ k.answer = a
  BY <1>2 DEF Job
<1> HIDE DEF k
<1>4. Commands(k) /\ \A y \in Object : Serves(k, y) <=> y = x
  BY <1>2, <1>3 DEF Commands, Serves
<1>5. /\ obj' = obj
      /\ \A y \in Object \ {x} : conf'[y] = conf[y] /\ (y \in behind' <=> y \in behind)
  BY <1>1 DEF storeVars, TypeOK
<1>6. /\ \A y \in Object \ {x} : Stays(y)
      /\ \A y \in Object : ~There(y, obj') => obj'[y].content = 0
  BY <1>5 DEF Stays, There, Steady
<1>7. x \notin drift' => Progress(k, obj', conf', behind')
  <2>1. SUFFICES ASSUME x \notin drift' PROVE Progress(k, obj', conf', behind')
    OBVIOUS
  <2>2. /\ x \notin drift
        /\ a = "postponed" => j.cmd # "create"
        /\ a = "failed" => j.cmd # "delete"
    BY <1>1, <2>1
  <2>3. Marks(k, x, obj')
    BY <1>2, <1>3, <1>5, <2>2 DEF Marks, There
  <2>4. a = "ok" => conf'[x] = obj'[x].content
    <3>1. a = "ok" => conf'[x] = Configured(s)
      BY <1>1, <1>2 DEF TypeOK
    <3>2. Configured(s) = obj[x].content
      BY <1>2, <2>2 DEF Configured, Marks
    <3> QED BY <1>5, <3>1, <3>2
  <2>5. a # "ok" => conf' = conf /\ (j.cmd # "create" => x \in behind')
    BY <1>1
  <2>6. a = "failed" /\ j.cmd # "update" => conf'[x] = 0 /\ j.cmd # "delete"
    BY <1>2, <2>2, <2>5
  <2>7. a = "postponed" \/ (a = "failed" /\ j.cmd = "update") => conf'[x] # 0 /\ x \in behind'
    BY <1>2, <2>2, <2>5
  <2> QED BY <1>3, <2>3, <2>4, <2>6, <2>7 DEF Progress
<1> QED BY <1>1, <1>2, <1>4, <1>6, <1>7, SteadyStep

LEMMA SteadyReport ==
  ASSUME TypeOK, Steady, NEW s \in Session, Report(s)
  PROVE  Steady'
<1> DEFINE j == job[s]
           x == j.x
<1>1. j.do = "report" /\ UNCHANGED <<conf, behind>>
  BY DEF Report, Does
<1>2. /\ Commands(j) /\ j \in Job /\ x \in Object /\ j.cmd \in {"create", "update", "delete"}
      /\ Busy(x) /\ (\A y \in Object : Serves(j, y) <=> y = x)
      /\ j.answer \in {"ok", "failed", "postponed"}
  BY <1>1, Serving, JobTypes DEF Commands
<1>3. x \notin drift =>
        /\ j.answer = "ok" => Marks(j, x, obj) /\ conf[x] = obj[x].content
        /\ j.answer = "failed" /\ j.cmd # "update" => conf[x] = 0 /\ (j.cmd = "delete" => ~There(x, obj))
        /\ j.answer = "postponed" \/ (j.answer = "failed" /\ j.cmd = "update") =>
             Marks(j, x, obj) /\ conf[x] # 0 /\ x \in behind
  BY <1>1, Serving DEF Progress
<1>4. DropRow(x) \/ UNCHANGED storeVars
  BY DEF Report, PurgeRow
<1>5. /\ \A y \in Object \ {x} : Stays(y)
      /\ \A y \in Object : ~There(y, obj') => obj'[y].content = 0
  <2>1. CASE UNCHANGED storeVars
    BY <1>1, <2>1, UnchangedStays
  <2>2. CASE DropRow(x)
    BY <1>1, <1>2, <2>2, DropStays
  <2> QED BY <1>4, <2>1, <2>2
<1>6. x \notin drift => Agrees(x, obj', conf', behind')
  <2>1. SUFFICES ASSUME x \notin drift PROVE Agrees(x, obj', conf', behind')
    OBVIOUS
  <2>2. ASSUME DropRow(x), conf[x] = 0
        PROVE  Agrees(x, obj', conf', behind')
    <3>1. ~There(x, obj') /\ obj'[x].content = 0
      BY <1>1, <1>2, <2>2, DropStays
    <3> QED BY <1>1, <2>2, <3>1 DEF Agrees
  <2>3. ASSUME UNCHANGED storeVars, There(x, obj), conf[x] # 0, x \in behind \/ conf[x] = obj[x].content
        PROVE  Agrees(x, obj', conf', behind')
    BY <1>1, <2>3 DEF storeVars, Agrees, There
  <2>4. CASE j.answer = "ok"
    <3>1. IF obj[x].content = 0 THEN DropRow(x) ELSE UNCHANGED storeVars
      BY <2>4 DEF Report, PurgeRow
    <3> QED BY <1>3, <2>1, <2>2, <2>3, <2>4, <3>1 DEF Marks
  <2>5. CASE j.answer = "failed" /\ j.cmd # "update"
    <3>1. conf[x] = 0 /\ (j.cmd = "delete" => obj[x].content = 0)
      BY <1>2, <1>3, <2>1, <2>5 DEF Steady
    <3>2. DropRow(x)
      BY <1>2, <2>5, <3>1 DEF Report, PurgeRow, DropFailed
    <3> QED BY <2>2, <3>1, <3>2
  <2>6. CASE j.answer = "postponed" \/ (j.answer = "failed" /\ j.cmd = "update")
    <3>1. UNCHANGED storeVars
      BY <2>6 DEF Report, DropFailed
    <3> QED BY <1>3, <2>1, <2>3, <2>6, <3>1 DEF Marks
  <2> QED BY <1>2, <2>4, <2>5, <2>6
<1>7. \/ Become(s, NextOfList(s)) /\ drift' = MarkedNext(s) /\ j.cmd = "delete"
      \/ Become(s, Idle) /\ drift' = drift
  BY DEF Report, Done
<1>8. CASE Become(s, NextOfList(s)) /\ drift' = MarkedNext(s) /\ j.cmd = "delete"
  <2> DEFINE k == NextOfList(s)
  <2>1. Commands(k) /\ drift \subseteq drift'
    BY <1>8, NextArrives
  <2>2. \A y \in Object \ drift' : Serves(k, y) =>
          /\ ~Busy(y)
          /\ Stays(y) => Progress(k, obj', conf', behind')
    BY <1>8, NextArrives
  <2>3. \A y \in Object \ drift' : Serves(k, y) => ~Busy(y) /\ Progress(k, obj', conf', behind')
    BY <1>2, <1>5, <2>2
  <2> QED BY <1>2, <1>5, <1>6, <1>8, <2>1, <2>3, SteadyStep
<1>9. CASE Become(s, Idle) /\ drift' = drift
  BY <1>2, <1>5, <1>6, <1>9, IdleServesNone, SteadyStep
<1> QED BY <1>7, <1>8, <1>9

LEMMA SteadyCrash == ASSUME TypeOK, Steady, Crash PROVE Steady'
<1>1. /\ \A s \in Session : job'[s] = Idle
      /\ obj' = obj /\ conf' = conf /\ drift' = drift \cup {x \in Object : HalfWay(x)}
      /\ behind' = behind \cup {x \in Object : Busy(x)}
  BY DEF Crash, storeVars
<1>2. /\ \A s \in Session : Commands(job'[s])
      /\ \A s \in Session, x \in Object : ~Serves(job'[s], x)
  BY <1>1, IdleServesNone
<1>3. ASSUME NEW x \in Object \ drift'
      PROVE  Agrees(x, obj', conf', behind')
  <2>1. x \notin drift /\ ~HalfWay(x)
    BY <1>1
  <2>2. CASE ~Busy(x)
    BY <1>1, <2>1, <2>2, AgreesWhenIdle DEF Agrees
  <2>3. CASE Busy(x)
    <3>1. PICK s \in Session : Serves(job[s], x)
      BY <2>3, BusyServes
    <3>2. /\ Commands(job[s]) /\ Progress(job[s], obj, conf, behind) /\ job[s].x = x
          /\ job[s].cmd # "create" /\ ~(job[s].cmd = "delete" /\ job[s].do = "report")
          /\ job[s] \in Job /\ x # NULL
      BY <2>1, <3>1, Bounds DEF Steady, Serves, HalfWay, Does, TypeOK
    <3>3. job[s].do \in {"check", "replace", "fetch", "call", "report"} /\ job[s].cmd \in {"update", "delete"}
      <4>1. job[s].do \in Steps /\ job[s].answer \in {"ok", "failed", "postponed"}
        BY <3>2 DEF Job
      <4> QED BY <3>1, <3>2, <4>1 DEF Commands, Serves, Steps
    <3>4. job[s].answer \in {"ok", "failed", "postponed"}
      BY <3>2, JobTypes
    <3>5. There(x, obj) <=> conf[x] # 0
      BY <3>2, <3>3, <3>4 DEF Progress, Agrees, Marks
    <3> QED BY <1>1, <2>3, <3>5 DEF Agrees
  <2> QED BY <2>2, <2>3
<1>4. InStep'
  BY <1>3 DEF InStep, Agrees, There, Rows
<1>5. \A x \in Object : ~There(x, obj') => obj'[x].content = 0
  BY <1>1 DEF Steady, There
<1> QED BY <1>2, <1>4, <1>5 DEF Steady, Alone, There, Serves

(* Who is logged in and what the quotas are is of no matter. *)
LEMMA SteadyElse == ASSUME Steady, UNCHANGED <<obj, job, conf, drift, behind>> PROVE Steady'
BY DEF Steady, InStep, Alone, Busy, Rows, There

LEMMA SteadyInit == Init => Steady
<1> SUFFICES ASSUME Init PROVE Steady
  OBVIOUS
<1>1. /\ \A s \in Session : job[s] = Idle
      /\ obj = [x \in Object |->
                  IF x = 1 THEN [NoRow EXCEPT !.class = User, !.name = Admin, !.content = 1] ELSE NoRow]
      /\ conf = [x \in Object |-> IF x = 1 THEN 1 ELSE 0]
  BY DEF Init, StoreInit
<1>2. /\ \A s \in Session : Commands(job[s])
      /\ \A s \in Session, x \in Object : ~Serves(job[s], x)
  BY <1>1, IdleServesNone
<1>3. \A x \in Object : x # 1 => obj[x].class = "" /\ obj[x].content = 0 /\ conf[x] = 0
  BY <1>1 DEF NoRow
<1>4. 1 \in Object => obj[1].class = User /\ obj[1].content = 1 /\ conf[1] = 1
  BY <1>1 DEF NoRow
<1>5. User # ""
  BY Classes
<1>6. \A x \in Object : Agrees(x, obj, conf, behind)
  <2>1. ASSUME 1 \in Object PROVE Agrees(1, obj, conf, behind)
    <3>1. There(1, obj) /\ conf[1] = obj[1].content /\ conf[1] # 0
      <4>1. 1 # 0
        OBVIOUS
      <4>2. obj[1].class # ""
        BY <1>4, <1>5, <2>1, Zenon
      <4>3. conf[1] = obj[1].content /\ conf[1] # 0
        BY <1>4, <2>1
      <4> QED BY <4>2, <4>3 DEF There
    <3> QED BY <3>1 DEF Agrees
  <2>2. ASSUME NEW x \in Object, x # 1 PROVE Agrees(x, obj, conf, behind)
    BY <1>3, <2>2 DEF Agrees, There
  <2> QED BY <2>1, <2>2
<1>7. InStep
  BY <1>6, ThereAreRows DEF InStep, Agrees
<1> QED BY <1>2, <1>3, <1>4, <1>5, <1>7 DEF Steady, Alone, There

LEMMA SteadyNext == ASSUME TypeOK, Steady, [Next]_vars PROVE Steady'
<1>1. CASE UNCHANGED vars
  BY <1>1, SteadyElse DEF vars, storeVars, requestVars
<1>2. CASE Crash
  BY <1>2, SteadyCrash
<1>3. ASSUME NEW s \in Session, Request(s)
      PROVE  Steady'
  <2>1. CASE (\E u \in Object : Login(s, u)) \/ Logout(s)
    BY <2>1, SteadyElse DEF Login, Logout, storeVars
  <2>2. ASSUME NEW u, NEW c, NEW q, SetQuota(s, u, c, q)
        PROVE  Steady'
    BY <2>2, SteadyElse DEF SetQuota, SetLimit, requestVars
  <2>3. CASE \E c \in Class : \E n \in MetaidOf(c), p \in 0..last, v \in 1..MaxContent,
               new \in {NULL} \cup IF "chown" \in Command THEN Users ELSE {}, now \in Immediate :
               Create(s, c, p, n, v, new, now)
    BY <2>3, SteadyCreate
  <2>4. CASE \E x \in Object, new \in Users : Chown(s, x, new)
    BY <2>4, SteadyChown
  <2>5. CASE \E x \in Object, v \in 1..MaxContent, now \in Immediate : Update(s, x, v, now)
    BY <2>5, SteadyUpdate
  <2>6. CASE \E x \in Object, now \in Immediate : Delete(s, x, now)
    BY <2>6, SteadyDelete
  <2> QED BY <1>3, <2>1, <2>2, <2>3, <2>4, <2>5, <2>6 DEF Request
<1>4. ASSUME NEW s \in Session, Proceed(s)
      PROVE  Steady'
  BY <1>4, SteadyInsert, SteadyGive, SteadyChownWrite, SteadyCheck, SteadyReplace, SteadyFetch,
     SteadyCall, SteadyReport DEF Proceed
<1> QED BY <1>1, <1>2, <1>3, <1>4 DEF Next

(* Between requests the modules have what the database has: the objects that a  *)
(* module has configured are those that have a row, whatever number of         *)
(* sessions send whatever requests, but for a create that its module was not    *)
(* asked for or did not answer, a delete that it refused, a crash half-way, a   *)
(* clash in a REPLACE and two requests at once; and it has the content of the   *)
(* row unless an update is known not to have reached it (createObject,         *)
(* updateObject, deleteObject and reportSuccess).                           *)
THEOREM ModulesInStep == Spec => []InStep
<1>1. Init => Steady
  BY SteadyInit
<1>2. TypeOK /\ Steady /\ [Next]_vars => Steady'
  BY SteadyNext
<1>3. Steady => InStep
  BY DEF Steady
<1> QED BY <1>1, <1>2, <1>3, ObjectsTypeCorrect, PTL DEF Spec

(* What is deleted comes back only where two requests met on it, or where       *)
(* database and module were apart already: ids are handed out once, and the     *)
(* row that a REPLACE writes is still there unless another request took it     *)
(* (createObject, updateObject, deleteObject).                               *)
THEOREM DeletedObjectsStayGone == Spec => DeletedStaysGone
<1> DEFINE Kept == Rows' \cap 1..last \subseteq Rows \cup drift
<1>1. TypeOK /\ Steady /\ [Next]_vars => Kept
  <2> SUFFICES ASSUME TypeOK, Steady, [Next]_vars, NEW x \in Rows', x \in 1..last, x \notin drift
               PROVE  x \in Rows
    OBVIOUS
  <2>1. obj \in [Object -> Row] /\ last \in Nat /\ x \in Object
    BY StoreIds DEF TypeOK, StoreTypeOK, Rows
  <2>2. CASE UNCHANGED <<obj, power, last>>
    BY <2>2 DEF Rows
  <2>3. CASE Inserts
    <3>1. x # last + 1
      BY <2>1
    <3> QED BY <2>1, <2>3, <3>1 DEF Inserts, InsertRow, Rows
  <2>4. CASE Gives
    BY <2>1, <2>4 DEF Gives, SetOwner, Rows, Row
  <2>5. CASE Drops
    BY <2>1, <2>5, NoRowTypes DEF Drops, DropRow, Rows
  <2>6. CASE Replaces
    <3>1. PICK s \in Session : job[s].do = "replace" /\ job[s].x \in Object /\ ReplaceRow(job[s].x, job[s].row)
      BY <2>6 DEF Replaces, Does
    <3>2. CASE x = job[s].x
      BY <2>1, <3>1, <3>2, Serving, ThereAreRows DEF Progress
    <3>3. CASE x # job[s].x
      BY <2>1, <3>1, <3>3, NoRowTypes DEF ReplaceRow, Replaced, Rows
    <3> QED BY <3>2, <3>3
  <2> QED BY <2>2, <2>3, <2>4, <2>5, <2>6, Statements
<1>2. Spec => []Steady
  <2>1. Init => Steady
    BY SteadyInit
  <2>2. TypeOK /\ Steady /\ [Next]_vars => Steady'
    BY SteadyNext
  <2> QED BY <2>1, <2>2, ObjectsTypeCorrect, PTL DEF Spec
<1> QED BY <1>1, <1>2, ObjectsTypeCorrect, PTL DEF Spec, DeletedStaysGone

-----------------------------------------------------------------------------
(* With one session the requests come one after the other.  What a request has *)
(* read is then still true when it writes: the tables o, and the job j of user *)
(* u.  A job is at an end for its object, so that it may go, once nobody is     *)
(* owned by it.                                                              *)
OneSession == \A s, t \in Session : s = t

IsUser(u, o) == u \in Object /\ o[u].class = User
OwnsNone(x, o) == \A y \in Object : There(y, o) => o[y].owner # x
Childless(x, o) == \A y \in Object : There(y, o) => o[y].parent # x

Fits(r, o) ==
  IF Requires[r.class] = "" THEN r.parent = NULL
  ELSE /\ r.parent \in Object /\ o[r.parent].class = Requires[r.class]
       /\ r.owner = o[r.parent].owner

Doomed(j) ==
  j.do \in {"give", "replace", "fetch", "call", "report"} /\ j.cmd \in {"create", "delete"}

Reads(u, j, o) ==
  /\ u = NULL \/ IsUser(u, o)
  /\ j.do # "idle" => u # NULL
  /\ j.do = "insert" => Fits(j.row, o)
  /\ j.do = "chown" => (There(j.x, o) => o[j.x].parent = NULL) /\ Childless(j.x, o)
  /\ j.do = "give" => j.new # j.x
  /\ j.do = "replace" => There(j.x, o) /\ j.row = [o[j.x] EXCEPT !.content = j.row.content]
  /\ j.do \in {"give", "fetch", "call", "report"} =>
       (There(j.x, o) => (o[j.x].content = 0 <=> j.cmd = "delete"))
  /\ j.do \in {"fetch", "call", "report"} => ~j.now
  /\ Doomed(j) /\ There(j.x, o) =>
       j.x # u /\ OwnsNone(j.x, o) /\ (j.cmd = "create" => Childless(j.x, o))

(* Everybody but the first user is owned by an older user, as long as nobody    *)
(* has given him away: m are those who were.                                 *)
Owned(o, m) ==
  \A x \in Object \ m :
    There(x, o) => \/ x = 1 /\ o[x].owner = NULL
                   \/ IsUser(o[x].owner, o) /\ o[x].owner < x

Settled(s) == Reads(user[s], job[s], obj) /\ Owned(obj, moved)
Solo == Owned(obj, moved) /\ \A s \in Session : Reads(user[s], job[s], obj)

LEMMA SoloStep ==
  ASSUME OneSession, NEW s \in Session, Settled(s)'
  PROVE  Solo'
BY DEF OneSession, Settled, Solo

LEMMA SoloParts ==
  ASSUME TypeOK, Steady, Solo, NEW s \in Session
  PROVE  /\ Settled(s) /\ Commands(job[s]) /\ job[s] \in Job /\ obj \in [Object -> Row]
         /\ job \in [Session -> Job] /\ user \in [Session -> 0..last] /\ last \in Object
BY StoreIds DEF Solo, Settled, Steady, TypeOK, StoreTypeOK

(* Between objects, or after the last one, a job has read nothing. *)
LEMMA ReadsNothing ==
  ASSUME NEW u, NEW o, u = NULL \/ IsUser(u, o), NEW k, k.do \in {"idle", "check"},
         k.do # "idle" => u # NULL
  PROVE  Reads(u, k, o)
<1>1. k.do \notin {"insert", "chown", "give", "replace", "fetch", "call", "report"}
  OBVIOUS
<1> QED BY <1>1, Zenon DEF Reads, Doomed

LEMMA NextReadsNothing ==
  ASSUME NEW s \in Session, job[s] \in Job
  PROVE  NextOfList(s).do \in {"idle", "check"}
<1>1. CASE Len(job[s].todo) = 1
  BY <1>1, IdleTypes DEF NextOfList
<1>2. CASE Len(job[s].todo) # 1
  BY <1>2 DEF NextOfList, Job
<1> QED BY <1>1, <1>2

(* Nobody loses his owner. *)
LEMMA OwnedStays ==
  ASSUME NEW o, NEW p, NEW m, NEW n, Owned(o, m), m \subseteq n,
         \A x \in Object \ n : There(x, p) => There(x, o) /\ p[x].owner = o[x].owner,
         \A z : IsUser(z, o) /\ ~OwnsNone(z, o) => IsUser(z, p)
  PROVE  Owned(p, n)
<1> SUFFICES ASSUME NEW x \in Object \ n, There(x, p)
             PROVE  (x = 1 /\ p[x].owner = NULL) \/ (IsUser(p[x].owner, p) /\ p[x].owner < x)
  BY DEF Owned
<1>1. There(x, o) /\ p[x].owner = o[x].owner /\ x \in Object \ m
  OBVIOUS
<1>2. (x = 1 /\ o[x].owner = NULL) \/ (IsUser(o[x].owner, o) /\ o[x].owner < x)
  BY <1>1 DEF Owned
<1>3. ~OwnsNone(o[x].owner, o)
  BY <1>1 DEF OwnsNone
<1> QED BY <1>1, <1>2, <1>3

(* The rows are what they were, but for their contents. *)
Alike(o, p) ==
  \A y \in Object : p[y].class = o[y].class /\ p[y].owner = o[y].owner /\ p[y].parent = o[y].parent

LEMMA AlikeStays ==
  ASSUME NEW o, NEW p, Alike(o, p)
  PROVE  /\ \A y \in Object : There(y, p) <=> There(y, o)
         /\ \A u : IsUser(u, p) <=> IsUser(u, o)
         /\ \A x : (OwnsNone(x, p) <=> OwnsNone(x, o)) /\ (Childless(x, p) <=> Childless(x, o))
         /\ \A r : Fits(r, p) <=> Fits(r, o)
         /\ \A m, n : Owned(o, m) /\ m \subseteq n => Owned(p, n)
<1>1. \A y \in Object : There(y, p) <=> There(y, o)
  BY DEF Alike, There
<1>2. \A u : IsUser(u, p) <=> IsUser(u, o)
  BY DEF Alike, IsUser
<1>3. \A x : (OwnsNone(x, p) <=> OwnsNone(x, o)) /\ (Childless(x, p) <=> Childless(x, o))
  BY <1>1 DEF Alike, OwnsNone, Childless
<1>4. \A r : Fits(r, p) <=> Fits(r, o)
  BY DEF Alike, Fits
<1>5. ASSUME NEW m, NEW n, Owned(o, m), m \subseteq n PROVE Owned(p, n)
  <2>1. \A x \in Object : There(x, p) => There(x, o) /\ p[x].owner = o[x].owner
    BY <1>1 DEF Alike
  <2> QED BY <1>2, <1>5, <2>1, OwnedStays
<1> QED BY <1>1, <1>2, <1>3, <1>4, <1>5

LEMMA NoChange == \A o : Alike(o, o)
BY DEF Alike

LEMMA ContentAlike ==
  ASSUME NEW o \in [Object -> Row], NEW x \in Object, NEW c
  PROVE  Alike(o, [o EXCEPT ![x].content = c])
<1> DEFINE p == [o EXCEPT ![x].content = c]
<1>1. \A y \in Object : o[y] \in Row /\ p[y] = IF y = x THEN [o[x] EXCEPT !.content = c] ELSE o[y]
  OBVIOUS
<1>2. [o[x] EXCEPT !.content = c].class = o[x].class /\ [o[x] EXCEPT !.content = c].owner = o[x].owner
      /\ [o[x] EXCEPT !.content = c].parent = o[x].parent
  BY <1>1 DEF Row
<1> HIDE DEF p
<1> QED BY <1>1, <1>2 DEF Alike, p

(* An object goes that is no user at work and owns none. *)
LEMMA DropKeeps ==
  ASSUME NEW o \in [Object -> Row], NEW x \in Object, NEW m, NEW n, m \subseteq n,
         There(x, o) => OwnsNone(x, o), Owned(o, m)
  PROVE  LET p == [o EXCEPT ![x] = NoRow]
         IN  /\ \A y \in Object : There(y, p) => y # x /\ There(y, o) /\ p[y] = o[y]
             /\ \A u : IsUser(u, o) /\ u # x => IsUser(u, p)
             /\ Owned(p, n)
<1> DEFINE p == [o EXCEPT ![x] = NoRow]
<1>1. \A y \in Object : p[y] = IF y = x THEN NoRow ELSE o[y]
  OBVIOUS
<1>2. NoRow.class = "" /\ User # ""
  BY NoRowTypes, Classes
<1> HIDE DEF p
<1>3. \A y \in Object : There(y, p) => y # x /\ There(y, o) /\ p[y] = o[y]
  BY <1>1, <1>2 DEF There
<1>4. \A u : IsUser(u, o) /\ u # x => IsUser(u, p)
  BY <1>1 DEF IsUser
<1>5. \A z : IsUser(z, o) /\ ~OwnsNone(z, o) => IsUser(z, p)
  BY <1>2, <1>4 DEF IsUser, There
<1>6. Owned(p, n)
  BY <1>3, <1>5, OwnedStays
<1> QED BY <1>3, <1>4, <1>6 DEF p

LEMMA Becomes ==
  ASSUME TypeOK, NEW s \in Session, NEW k, Become(s, k)
  PROVE  job'[s] = k
BY DEF Become, TypeOK

LEMMA SoloUser ==
  ASSUME OneSession, TypeOK, Steady, Solo, NEW s \in Session,
         (\E u \in Object : Login(s, u)) \/ Logout(s)
  PROVE  Solo'
<1>1. Settled(s) /\ user \in [Session -> 0..last] /\ UNCHANGED <<obj, job, moved>>
  BY SoloParts DEF Login, Logout, storeVars
<1>2. \/ user'[s] = NULL /\ job[s].do = "idle"
      \/ IsUser(user'[s], obj) /\ user[s] = NULL
  BY <1>1 DEF Login, Logout, Does, IsUser, Rows
<1>3. job[s].do = "idle"
  BY <1>1, <1>2 DEF Settled, Reads
<1>4. Reads(user'[s], job[s], obj)
  BY <1>2, <1>3, ReadsNothing
<1> QED BY <1>1, <1>4, SoloStep DEF Settled

LEMMA SoloCreate ==
  ASSUME OneSession, TypeOK, Steady, Solo, NEW s \in Session,
         NEW c \in Class, NEW p \in 0..last, NEW n, NEW v, NEW new, NEW now,
         Create(s, c, p, n, v, new, now)
  PROVE  Solo'
<1> DEFINE r == NewRow(user[s], c, p, n, v)
           k == [Idle EXCEPT !.do = "insert", !.cmd = "create", !.new = new, !.now = now, !.row = r]
<1>1. /\ Settled(s) /\ Become(s, k) /\ UNCHANGED <<obj, user, moved>> /\ user[s] # NULL
      /\ MayCreate(user[s], c, p)
  BY SoloParts DEF Create, storeVars
<1>2. k.do = "insert" /\ k.row = r
  BY DEF Idle
<1>3. Fits(r, obj)
  <2>1. r.class = c /\ r.parent = LocalId(p) /\ r.owner = OwnerOfNew(user[s], p)
    BY DEF NewRow
  <2>2. CASE Requires[c] = ""
    BY <1>1, <2>1, <2>2 DEF Fits, MayCreate, LocalId
  <2>3. CASE Requires[c] # ""
    <3>3. p \in Rows /\ obj[p].class = Requires[c]
      BY <1>1, <2>3, Zenon DEF MayCreate
    <3>1. p \in Object
      BY <3>3 DEF Rows
    <3>2. p # NULL
      BY <3>1, Bounds
    <3> HIDE DEF r
    <3> QED BY <2>1, <2>3, <3>3, <3>1, <3>2 DEF Fits, LocalId, OwnerOfNew, Owner
  <2> QED BY <2>2, <2>3
<1> HIDE DEF r, k
<1>4. user[s] = NULL \/ IsUser(user[s], obj)
  BY <1>1 DEF Settled, Reads
<1>5. Reads(user[s], k, obj)
  BY <1>1, <1>2, <1>3, <1>4 DEF Reads, Doomed
<1> QED BY <1>1, <1>5, SoloStep, Becomes DEF Settled

LEMMA SoloChown ==
  ASSUME OneSession, TypeOK, Steady, Solo, NEW s \in Session, NEW x \in Object, NEW new,
         Chown(s, x, new)
  PROVE  Solo'
<1> DEFINE k == [Idle EXCEPT !.do = "chown", !.cmd = "chown", !.x = x, !.new = new]
<1>1. /\ Settled(s) /\ Become(s, k) /\ UNCHANGED <<obj, user, moved>> /\ user[s] # NULL
      /\ MayChown(user[s], x, new)
  BY SoloParts DEF Chown, storeVars
<1>2. k.do = "chown" /\ k.x = x
  BY DEF Idle
<1> HIDE DEF k
<1>3. obj[x].parent = NULL /\ Childless(x, obj)
  BY <1>1 DEF MayChown, Childless, Rows, There
<1>4. user[s] = NULL \/ IsUser(user[s], obj)
  BY <1>1 DEF Settled, Reads
<1>5. Reads(user[s], k, obj)
  BY <1>1, <1>2, <1>3, <1>4 DEF Reads, Doomed
<1> QED BY <1>1, <1>5, SoloStep, Becomes DEF Settled

LEMMA SoloUpdate ==
  ASSUME OneSession, TypeOK, Steady, Solo, NEW s \in Session, NEW x \in Object, NEW v, NEW now,
         Update(s, x, v, now)
  PROVE  Solo'
<1> DEFINE r == [obj[x] EXCEPT !.content = v]
           k == [Idle EXCEPT !.do = "replace", !.cmd = "update", !.x = x, !.now = now, !.row = r]
<1>1. /\ Settled(s) /\ Become(s, k) /\ UNCHANGED <<obj, user, moved>> /\ user[s] # NULL
      /\ x \in Rows /\ obj \in [Object -> Row]
  BY SoloParts DEF Update, storeVars, MayChange
<1>2. k.do = "replace" /\ k.cmd = "update" /\ k.x = x /\ k.row = r
  BY DEF Idle
<1>3. There(x, obj) /\ r = [obj[x] EXCEPT !.content = r.content]
  <2>1. obj[x] \in Row /\ r.content = v
    BY <1>1 DEF Row
  <2> QED BY <1>1, <2>1 DEF There, Rows
<1> HIDE DEF k, r
<1>4. user[s] = NULL \/ IsUser(user[s], obj)
  BY <1>1 DEF Settled, Reads
<1>5. Reads(user[s], k, obj)
  BY <1>1, <1>2, <1>3, <1>4 DEF Reads, Doomed
<1> QED BY <1>1, <1>5, SoloStep, Becomes DEF Settled

LEMMA SoloDelete ==
  ASSUME OneSession, TypeOK, Steady, Solo, NEW s \in Session, NEW z, NEW now, Delete(s, z, now)
  PROVE  Solo'
<1> DEFINE q == ObjectTree(z)
           k == [Idle EXCEPT !.do = "check", !.cmd = "delete", !.x = Head(q), !.todo = q,
                             !.first = TRUE, !.now = now]
<1>1. /\ Settled(s) /\ Become(s, k) /\ UNCHANGED <<obj, user, moved>> /\ user[s] # NULL
  BY SoloParts DEF Delete, storeVars
<1> HIDE DEF q
<1>2. k.do = "check"
  BY DEF Idle
<1> HIDE DEF k
<1>3. user[s] = NULL \/ IsUser(user[s], obj)
  BY <1>1 DEF Settled, Reads
<1>4. Reads(user[s], k, obj)
  BY <1>1, <1>2, <1>3, ReadsNothing
<1> QED BY <1>1, <1>4, SoloStep, Becomes DEF Settled

(* A request that ends, or goes on to the next object, when the rows are but for *)
(* their contents what they were.                                            *)
LEMMA SoloRests ==
  ASSUME OneSession, TypeOK, Steady, Solo, NEW s \in Session, Alike(obj, obj'), user' = user,
         moved \subseteq moved', NEW k, Become(s, k), k.do \in {"idle", "check"},
         k.do # "idle" => user[s] # NULL
  PROVE  Solo'
<1>1. Settled(s)
  BY SoloParts
<1>2. user[s] = NULL \/ IsUser(user[s], obj')
  BY <1>1, AlikeStays DEF Settled, Reads
<1>3. Reads(user[s], k, obj')
  BY <1>2, ReadsNothing
<1>4. Owned(obj', moved')
  BY <1>1, AlikeStays DEF Settled
<1> QED BY <1>3, <1>4, SoloStep, Becomes DEF Settled

LEMMA SoloInsert ==
  ASSUME OneSession, TypeOK, Steady, Solo, NEW s \in Session, Insert(s)
  PROVE  Solo'
<1> DEFINE j == job[s]
           r == j.row
           x == last + 1
           u == user[s]
<1>1. /\ Settled(s) /\ Commands(j) /\ j \in Job /\ JobOK(j, last) /\ obj \in [Object -> Row]
      /\ j.do = "insert" /\ user' = user /\ last \in Nat /\ u \in 0..last
      /\ \A y \in Object : Within(obj[y], last) /\ (There(y, obj) => y <= last)
  BY SoloParts, StoreIds, ThereAreRows DEF Insert, Does, TypeOK, StoreTypeOK
<1>2. IsUser(u, obj) /\ Fits(r, obj) /\ u # NULL
  BY <1>1 DEF Settled, Reads
<1>3. CASE ~CanInsert(r)
  <2>1. Become(s, Idle) /\ UNCHANGED <<obj, user, moved>>
    BY <1>3 DEF Insert, Done, storeVars
  <2> QED BY <2>1, NoChange, IdleTypes, SoloRests
<1>4. CASE CanInsert(r)
  <2>1. PICK k : Become(s, k) /\ k = job'[s] /\
          \/ k.do = "idle"
          \/ k.do = "give" /\ k.x = x /\ k.new = j.new /\ k.cmd = j.cmd
          \/ k.do = "fetch" /\ k.x = x /\ k.cmd = j.cmd /\ ~k.now
    BY <1>1, <1>4, IdleTypes, Becomes DEF Insert, Done, Job
  <2>2. /\ InsertRow(r, LocalId(u)) /\ moved' = IF r.owner # LocalId(u) THEN moved \cup {x} ELSE moved
    BY <1>4 DEF Insert
  <2>3. LocalId(u) = u
    BY <1>2, Classes DEF LocalId, IsUser, Rows
  <2>4. x \in Object /\ r \in Row /\ Within(r, last)
    BY <1>1, <2>2, JobTypes, Bounds DEF InsertRow, JobOK
  <2>5. \A y \in Object : obj'[y] = IF y = x THEN r ELSE obj[y]
    BY <1>1, <2>2, <2>4 DEF InsertRow
  <2>6. ~There(x, obj) /\ x # u /\ x > last
    <3>1. x > last /\ x # u
      BY <1>1
    <3> QED BY <1>1, <2>4, <3>1
  <2>7. r.class # "" /\ r.content # 0 /\ j.cmd = "create"
    BY <1>1, Zenon DEF Commands
  <2> HIDE DEF j, r, x, u
  <2>8. /\ \A z : IsUser(z, obj) => IsUser(z, obj')
        /\ \A y \in Object : There(y, obj') => y = x \/ There(y, obj)
    BY <2>5, <2>6, Classes DEF IsUser, There
  <2>9. OwnsNone(x, obj') /\ Childless(x, obj')
    <3>1. \A y \in Object : obj'[y].owner \in Nat /\ obj'[y].owner <= last
                            /\ obj'[y].parent \in Nat /\ obj'[y].parent <= last
      BY <1>1, <2>4, <2>5, RowIds DEF Within
    <3>2. x \in Nat
      BY <2>4, Bounds
    <3> QED BY <1>1, <2>6, <3>1, <3>2 DEF OwnsNone, Childless
  <2>10. Owned(obj', moved')
    <3>1. moved' \subseteq moved \cup {x} /\ moved \subseteq moved'
      BY <2>2
    <3>2. Owned(obj, moved \cup {x})
      BY <1>1, OwnedStays DEF Settled
    <3>3. \A y \in Object \ (moved \cup {x}) : There(y, obj') => There(y, obj) /\ obj'[y].owner = obj[y].owner
      BY <2>5, <2>8
    <3>4. Owned(obj', moved \cup {x})
      BY <2>8, <3>2, <3>3, OwnedStays
    <3>5. x \notin moved' => r.owner = u /\ obj'[x].owner = u /\ IsUser(u, obj') /\ u < x
      <4>1. x \notin moved' => r.owner = u
        BY <2>2, <2>3
      <4>2. obj'[x].owner = r.owner /\ IsUser(u, obj')
        BY <1>2, <2>4, <2>5, <2>8
      <4>3. u < x
        BY <1>1 DEF x
      <4> QED BY <4>1, <4>2, <4>3
    <3> QED BY <3>1, <3>4, <3>5 DEF Owned
  <2>11. There(x, obj') /\ obj'[x].content # 0
    BY <2>4, <2>5, <2>7 DEF There
  <2>12. j.do = "insert" /\ j.new <= last /\ j.new \in Nat
    BY <1>1, JobTypes, Bounds DEF JobOK, j
  <2>13. j.new # x
    BY <1>1, <2>12 DEF x
  <2>14. Reads(u, k, obj')
    <3>1. IsUser(u, obj')
      BY <1>2, <2>8
    <3>2. CASE k.do = "idle"
      BY <3>1, <3>2, ReadsNothing
    <3>3. CASE k.do = "give" /\ k.x = x /\ k.new = j.new /\ k.cmd = j.cmd
      BY <1>2, <2>6, <2>7, <2>9, <2>11, <2>13, <3>1, <3>3 DEF Reads, Doomed
    <3>4. CASE k.do = "fetch" /\ k.x = x /\ k.cmd = j.cmd /\ ~k.now
      BY <1>2, <2>6, <2>7, <2>9, <2>11, <3>1, <3>4 DEF Reads, Doomed
    <3> QED BY <2>1, <3>2, <3>3, <3>4
  <2> QED BY <1>1, <2>1, <2>10, <2>14, SoloStep DEF Settled, u
<1> QED BY <1>3, <1>4

(* The object at work goes, and the request goes on to the next one, or ends. *)
LEMMA SoloDrops ==
  ASSUME OneSession, TypeOK, Steady, Solo, NEW s \in Session, NEW x \in Object,
         obj' = [obj EXCEPT ![x] = NoRow], user' = user, moved \subseteq moved', user[s] # NULL,
         There(x, obj) => OwnsNone(x, obj) /\ x # user[s],
         NEW k, Become(s, k), k.do \in {"idle", "check"}
  PROVE  Solo'
<1>1. Settled(s) /\ obj \in [Object -> Row]
  BY SoloParts
<1>2. IsUser(user[s], obj)
  BY <1>1 DEF Settled, Reads
<1>3. user[s] # x
  BY <1>2, Classes DEF IsUser, There
<1>4. IsUser(user[s], obj') /\ Owned(obj', moved')
  BY <1>1, <1>2, <1>3, DropKeeps DEF Settled
<1>5. Reads(user[s], k, obj')
  BY <1>4, ReadsNothing
<1> QED BY <1>4, <1>5, SoloStep, Becomes DEF Settled

GivenTo(o, x, w, p) ==
  \A y \in Object : /\ There(y, p) <=> There(y, o)
                    /\ p[y].class = o[y].class /\ p[y].parent = o[y].parent
                    /\ p[y].content = o[y].content
                    /\ p[y].owner = IF y = x THEN w ELSE o[y].owner

LEMMA OwnerFields ==
  ASSUME NEW o \in [Object -> Row], NEW x \in Object, NEW w
  PROVE  GivenTo(o, x, w, [o EXCEPT ![x].owner = w])
<1> DEFINE r == [o[x] EXCEPT !.owner = w]
           p == [o EXCEPT ![x].owner = w]
<1>1. \A y \in Object : p[y] = IF y = x THEN r ELSE o[y]
  OBVIOUS
<1>2. /\ r.class = o[x].class /\ r.parent = o[x].parent /\ r.content = o[x].content
      /\ r.owner = w
  <2>1. o[x] \in Row
    OBVIOUS
  <2> QED BY <2>1 DEF Row
<1> HIDE DEF r, p
<1>3. \A y \in Object : /\ p[y].class = o[y].class /\ p[y].parent = o[y].parent
                        /\ p[y].content = o[y].content
                        /\ p[y].owner = IF y = x THEN w ELSE o[y].owner
  BY <1>1, <1>2
<1>4. GivenTo(o, x, w, p)
  BY <1>3 DEF There, GivenTo
<1> QED BY <1>4 DEF p

LEMMA OwnerKeeps ==
  ASSUME NEW o, NEW x, NEW w, NEW p, GivenTo(o, x, w, p), NEW m, Owned(o, m)
  PROVE  (\A u : IsUser(u, o) => IsUser(u, p)) /\ Owned(p, m \cup {x})
<1>1. \A u : IsUser(u, o) => IsUser(u, p)
  BY DEF IsUser, GivenTo
<1>2. \A y \in Object \ (m \cup {x}) : There(y, p) => There(y, o) /\ p[y].owner = o[y].owner
  BY DEF GivenTo
<1>3. Owned(p, m \cup {x})
  BY <1>1, <1>2, OwnedStays
<1> QED BY <1>1, <1>3

LEMMA SoloGive ==
  ASSUME OneSession, TypeOK, Steady, Solo, NEW s \in Session, Give(s)
  PROVE  Solo'
<1> DEFINE j == job[s]
           x == j.x
           u == user[s]
<1>1. /\ Settled(s) /\ Commands(j) /\ j \in Job /\ JobOK(j, last) /\ obj \in [Object -> Row]
      /\ j.do = "give" /\ user' = user /\ last \in Object
  BY SoloParts, StoreIds DEF Give, Does
<1>2. x \in Object /\ j.cmd = "create" /\ j.new \in 0..MaxObjects
  BY <1>1, JobTypes DEF JobOK, Commands
<1>3. /\ IsUser(u, obj) /\ u # NULL /\ j.new # x
      /\ There(x, obj) => /\ x # u /\ OwnsNone(x, obj) /\ Childless(x, obj)
                          /\ obj[x].content # 0
  BY <1>1, <1>2 DEF Settled, Reads, Doomed
<1>4. CASE ~MayChown(u, x, j.new)
  <2>1. Become(s, Idle) /\ moved' = moved /\ obj' = [obj EXCEPT ![x] = NoRow]
    BY <1>4 DEF Give, Done, DropRow
  <2> HIDE DEF j, x, u
  <2> QED BY <1>1, <1>2, <1>3, <2>1, IdleTypes, SoloDrops DEF u
<1>5. CASE MayChown(u, x, j.new)
  <2>1. PICK k : Become(s, k) /\ k = job'[s] /\
          (k.do = "idle" \/ (k.do = "fetch" /\ k.x = x /\ k.cmd = j.cmd /\ ~k.now))
    <3> DEFINE f == [j EXCEPT !.do = "fetch", !.new = NULL]
    <3>1. f.do = "fetch" /\ f.x = x /\ f.cmd = j.cmd /\ f.now = j.now
      BY <1>1 DEF Job
    <3>2. IF j.now THEN Become(s, Idle) ELSE Become(s, f)
      BY <1>5 DEF Give, Done
    <3> HIDE DEF f, j
    <3> QED BY <3>1, <3>2, IdleTypes, Becomes
  <2>2. moved' = moved \cup {x} /\ x \in Rows /\ obj' = [obj EXCEPT ![x].owner = j.new]
    BY <1>5 DEF Give, SetOwner, MayChown, MayChange
  <2> HIDE DEF j, x, u
  <2>7. GivenTo(obj, x, j.new, obj')
    BY <1>1, <1>2, <2>2, OwnerFields
  <2>3. Owned(obj', moved') /\ IsUser(u, obj')
    BY <1>1, <1>2, <1>3, <2>2, <2>7, OwnerKeeps DEF Settled
  <2>4. \A y \in Object : /\ There(y, obj') <=> There(y, obj)
                          /\ obj'[y].parent = obj[y].parent /\ obj'[y].content = obj[y].content
                          /\ obj'[y].owner = IF y = x THEN j.new ELSE obj[y].owner
    BY <2>7 DEF GivenTo
  <2>5. There(x, obj') => /\ x # u /\ OwnsNone(x, obj') /\ Childless(x, obj')
                          /\ obj'[x].content # 0
    BY <1>2, <1>3, <2>4 DEF OwnsNone, Childless
  <2>6. Reads(u, k, obj')
    <3>1. CASE k.do = "idle"
      BY <2>3, <3>1, ReadsNothing
    <3>2. CASE k.do = "fetch" /\ k.x = x /\ k.cmd = j.cmd /\ ~k.now
      BY <1>2, <1>3, <2>3, <2>5, <3>2 DEF Reads, Doomed
    <3> QED BY <2>1, <3>1, <3>2
  <2> QED BY <1>1, <2>1, <2>3, <2>6, SoloStep DEF Settled, u
<1> QED BY <1>4, <1>5

LEMMA SoloChownWrite ==
  ASSUME OneSession, TypeOK, Steady, Solo, NEW s \in Session, ChownWrite(s)
  PROVE  Solo'
<1> DEFINE j == job[s]
           x == j.x
           u == user[s]
<1>1. /\ Settled(s) /\ j \in Job /\ JobOK(j, last) /\ obj \in [Object -> Row]
      /\ j.do = "chown" /\ user' = user /\ Become(s, Idle) /\ moved' = moved \cup {x}
  BY SoloParts, StoreIds DEF ChownWrite, Does, Done
<1>2. x \in Object /\ j.new \in 0..MaxObjects
  BY <1>1, JobTypes DEF JobOK
<1>3. IsUser(u, obj)
  BY <1>1 DEF Settled, Reads
<1>4. obj' = obj \/ obj' = [obj EXCEPT ![x].owner = j.new]
  BY DEF ChownWrite, SetOwner
<1> HIDE DEF j, x, u
<1>5. Owned(obj', moved') /\ IsUser(u, obj')
  <2>1. CASE obj' = obj
    <3>1. Owned(obj, moved \cup {x})
      BY <1>1, NoChange, AlikeStays DEF Settled
    <3> QED BY <1>1, <1>3, <2>1, <3>1
  <2>2. CASE obj' = [obj EXCEPT ![x].owner = j.new]
    <3>1. GivenTo(obj, x, j.new, obj')
      BY <1>1, <1>2, <2>2, OwnerFields
    <3> QED BY <1>1, <1>3, <3>1, OwnerKeeps DEF Settled
  <2> QED BY <1>4, <2>1, <2>2
<1>6. Reads(u, Idle, obj')
  <2>1. Idle.do \in {"idle", "check"} /\ ~(Idle.do # "idle")
    BY IdleTypes
  <2> QED BY <1>5, <2>1, ReadsNothing
<1> QED BY <1>1, <1>5, <1>6, SoloStep, Becomes DEF Settled, u

LEMMA SoloCheck ==
  ASSUME OneSession, TypeOK, Steady, Solo, NEW s \in Session, Check(s)
  PROVE  Solo'
<1> DEFINE j == job[s]
           x == j.x
           u == user[s]
<1>1. /\ Settled(s) /\ Commands(j) /\ j \in Job /\ JobOK(j, last) /\ obj \in [Object -> Row]
      /\ j.do = "check" /\ UNCHANGED <<obj, user, moved>>
  BY SoloParts, StoreIds DEF Check, Does, storeVars
<1>2. IsUser(u, obj) /\ u # NULL /\ j.cmd = "delete" /\ x \in Object
  BY <1>1 DEF Settled, Reads, Commands, JobOK
<1>3. CASE Become(s, NextOfList(s)) \/ Become(s, Idle)
  BY <1>1, <1>2, <1>3, NoChange, NextReadsNothing, IdleTypes, SoloRests
<1>4. CASE ~There(x, obj) /\ ~j.now /\ Become(s, [j EXCEPT !.do = "report", !.answer = "failed"])
  <2> DEFINE k == [j EXCEPT !.do = "report", !.answer = "failed"]
  <2>1. Become(s, k) /\ k.do = "report" /\ k.x = x /\ k.now = j.now
    BY <1>1, <1>4 DEF Job
  <2> HIDE DEF k
  <2>2. Reads(u, k, obj)
    BY <1>2, <1>4, <2>1 DEF Reads, Doomed
  <2> QED BY <1>1, <2>1, <2>2, SoloStep, Becomes DEF Settled
<1>5. CASE /\ There(x, obj) /\ x # u /\ OwnsNone(x, obj)
           /\ Become(s, [j EXCEPT !.do = "replace", !.row = [obj[x] EXCEPT !.content = 0]])
  <2> DEFINE r == [obj[x] EXCEPT !.content = 0]
             k == [j EXCEPT !.do = "replace", !.row = r]
  <2>1. k.do = "replace" /\ k.x = x /\ k.row = r /\ k.cmd = "delete"
    BY <1>1, <1>2 DEF Job
  <2>2. r = [obj[x] EXCEPT !.content = r.content]
    <3>1. obj[x] \in Row /\ r.content = 0
      BY <1>1, <1>2 DEF Row
    <3> QED BY <3>1
  <2>3. Become(s, k)
    BY <1>5
  <2> HIDE DEF k, r, j, x, u
  <2>4. Reads(u, k, obj)
    BY <1>2, <1>5, <2>1, <2>2 DEF Reads, Doomed
  <2> QED BY <1>1, <2>3, <2>4, SoloStep, Becomes DEF Settled, u
<1>6. CASE x \notin Rows
  BY <1>2, <1>3, <1>4, <1>6, ThereAreRows DEF Check
<1>7. CASE x \in Rows /\ (x = u \/ \E y \in Rows : obj[y].owner = x)
  BY <1>3, <1>7 DEF Check, Done
<1>8. CASE x \in Rows /\ x # u /\ ~\E y \in Rows : obj[y].owner = x
  <2>1. There(x, obj) /\ OwnsNone(x, obj)
    BY <1>2, <1>8, ThereAreRows DEF OwnsNone
  <2> QED BY <1>5, <1>8, <2>1 DEF Check
<1> QED BY <1>6, <1>7, <1>8

(* No row clashes with a row that is only given other contents. *)
LEMMA RewriteReplaces ==
  ASSUME TypeOK, NamesUnique, NEW x \in Object, There(x, obj), NEW r, r = [obj[x] EXCEPT !.content = r.content]
  PROVE  Replaced(x, r) = [obj EXCEPT ![x].content = r.content]
<1>1. obj \in [Object -> Row] /\ obj[x] \in Row
  BY DEF TypeOK, StoreTypeOK
<1>2. /\ r.class = obj[x].class /\ r.name = obj[x].name /\ r.parent = obj[x].parent
  BY <1>1 DEF Row
<1>3. ASSUME NEW y \in Object, y # x PROVE ~Clash(obj[y], r)
  <2>1. CASE ~There(y, obj)
    BY <2>1 DEF Clash, There
  <2>2. CASE There(y, obj)
    <3>1. ~Clash(obj[y], obj[x])
      BY <1>3, <2>2 DEF NamesUnique, Rows, There
    <3> QED BY <1>2, <3>1 DEF Clash
  <2> QED BY <2>1, <2>2
<1>4. \A y \in Object : Replaced(x, r)[y] = IF y = x THEN r ELSE obj[y]
  BY <1>3 DEF Replaced
<1>5. [obj EXCEPT ![x].content = r.content] = [y \in Object |-> IF y = x THEN r ELSE obj[y]]
  BY <1>1
<1>6. Replaced(x, r) = [y \in Object |-> IF y = x THEN r ELSE obj[y]]
  BY <1>3 DEF Replaced
<1> QED BY <1>5, <1>6

LEMMA SoloReplace ==
  ASSUME OneSession, TypeOK, NamesUnique, Steady, Solo, NEW s \in Session, Replace(s)
  PROVE  Solo'
<1> DEFINE j == job[s]
           x == j.x
           u == user[s]
           r == j.row
<1>1. /\ Settled(s) /\ Commands(j) /\ j \in Job /\ JobOK(j, last) /\ obj \in [Object -> Row]
      /\ j.do = "replace" /\ user' = user /\ moved \subseteq moved' /\ obj' = Replaced(x, r)
  BY SoloParts, StoreIds DEF Replace, Does, ReplaceRow
<1>2. IsUser(u, obj) /\ u # NULL /\ x \in Object /\ There(x, obj)
      /\ r = [obj[x] EXCEPT !.content = r.content]
  BY <1>1 DEF Settled, Reads, JobOK
<1>3. obj' = [obj EXCEPT ![x].content = r.content]
  BY <1>1, <1>2, RewriteReplaces
<1>4. Alike(obj, obj')
  <2>1. Alike(obj, [obj EXCEPT ![x].content = r.content])
    BY <1>1, <1>2, ContentAlike
  <2> HIDE DEF r, x
  <2> QED BY <1>3, <2>1
<1>5. CASE Become(s, NextOfList(s)) \/ Become(s, Idle)
  BY <1>1, <1>2, <1>4, <1>5, NextReadsNothing, IdleTypes, SoloRests
<1>6. CASE ~j.now /\ Become(s, [j EXCEPT !.do = "fetch", !.row = NoRow])
  <2> DEFINE k == [j EXCEPT !.do = "fetch", !.row = NoRow]
  <2>1. Become(s, k) /\ k.do = "fetch" /\ k.x = x /\ k.now = j.now /\ k.cmd = j.cmd
    BY <1>1, <1>6 DEF Job
  <2>2. obj'[x].content = r.content
    <3>1. obj[x] \in Row /\ obj'[x] = [obj[x] EXCEPT !.content = r.content]
      BY <1>1, <1>2, <1>3
    <3> QED BY <3>1 DEF Row
  <2>3. r.content = 0 <=> j.cmd = "delete"
    BY <1>1 DEF Commands
  <2>4. j.cmd \in {"update", "delete"}
    BY <1>1 DEF Commands
  <2>5. j.cmd = "delete" => x # u /\ OwnsNone(x, obj)
    BY <1>1, <1>2 DEF Settled, Reads, Doomed
  <2> HIDE DEF k, j, x, u, r
  <2>6. IsUser(u, obj') /\ Owned(obj', moved') /\ (OwnsNone(x, obj) <=> OwnsNone(x, obj'))
    BY <1>1, <1>2, <1>4, AlikeStays DEF Settled
  <2>7. Reads(u, k, obj')
    <3>1. u = NULL \/ IsUser(u, obj')
      BY <2>6
    <3>2. ~k.now /\ (obj'[k.x].content = 0 <=> k.cmd = "delete")
      BY <1>6, <2>1, <2>2, <2>3
    <3>3. Doomed(k) => k.x # u /\ OwnsNone(k.x, obj') /\ k.cmd # "create"
      BY <2>1, <2>4, <2>5, <2>6 DEF Doomed
    <3>4. k.do \notin {"idle", "insert", "chown", "give", "replace"} /\ u # NULL
      BY <1>2, <2>1
    <3> QED BY <3>1, <3>2, <3>3, <3>4, Zenon DEF Reads
  <2> QED BY <1>1, <2>1, <2>6, <2>7, SoloStep, Becomes DEF Settled, u
<1> QED BY <1>5, <1>6 DEF Replace, Done

(* The store is left alone, and the module has its say. *)
LEMMA SoloGoesOn ==
  ASSUME OneSession, TypeOK, Steady, Solo, NEW s \in Session, UNCHANGED <<obj, user, moved>>,
         job[s].do \in {"fetch", "call"}, NEW k, Become(s, k), k.do \in {"call", "report"},
         k.x = job[s].x, k.cmd = job[s].cmd, k.now = job[s].now
  PROVE  Solo'
<1> DEFINE j == job[s]
           x == j.x
           u == user[s]
<1>1. Settled(s)
  BY SoloParts
<1>2. /\ IsUser(u, obj) /\ u # NULL /\ ~j.now /\ (There(x, obj) => (obj[x].content = 0 <=> j.cmd = "delete"))
      /\ j.cmd \in {"create", "delete"} /\ There(x, obj) =>
           x # u /\ OwnsNone(x, obj) /\ (j.cmd = "create" => Childless(x, obj))
  BY <1>1 DEF Settled, Reads, Doomed
<1> HIDE DEF j, x, u
<1>3. Reads(u, k, obj)
  <2>1. k.do \notin {"idle", "insert", "chown", "give", "replace"}
    OBVIOUS
  <2>2. k.x = x /\ k.cmd = j.cmd /\ ~k.now
    BY <1>2 DEF j, x
  <2> QED BY <1>2, <2>1, <2>2, Zenon DEF Reads, Doomed
<1> QED BY <1>1, <1>3, SoloStep, Becomes DEF Settled, u

LEMMA SoloFetch ==
  ASSUME OneSession, TypeOK, Steady, Solo, NEW s \in Session, Fetch(s)
  PROVE  Solo'
<1> DEFINE j == job[s]
           x == j.x
<1>1. Settled(s) /\ j \in Job /\ j.do = "fetch" /\ UNCHANGED <<obj, user, moved>>
  BY SoloParts DEF Fetch, Does, storeVars
<1>2. CASE Become(s, Idle)
  BY <1>1, <1>2, NoChange, IdleTypes, SoloRests
<1>3. CASE Become(s, [j EXCEPT !.do = "call", !.sent = obj[x].content])
  <2> DEFINE k == [j EXCEPT !.do = "call", !.sent = obj[x].content]
  <2>1. k.do = "call" /\ k.x = x /\ k.cmd = j.cmd /\ k.now = j.now
    BY <1>1 DEF Job
  <2> HIDE DEF k
  <2> QED BY <1>1, <1>3, <2>1, SoloGoesOn DEF k
<1>4. CASE Become(s, [j EXCEPT !.do = "report", !.answer = "failed"])
  <2> DEFINE k == [j EXCEPT !.do = "report", !.answer = "failed"]
  <2>1. k.do = "report" /\ k.x = x /\ k.cmd = j.cmd /\ k.now = j.now
    BY <1>1 DEF Job
  <2> HIDE DEF k
  <2> QED BY <1>1, <1>4, <2>1, SoloGoesOn DEF k
<1> QED BY <1>2, <1>3, <1>4 DEF Fetch, Done

LEMMA SoloCall ==
  ASSUME OneSession, TypeOK, Steady, Solo, NEW s \in Session, NEW a \in Answer, Call(s, a)
  PROVE  Solo'
<1> DEFINE j == job[s]
           k == [j EXCEPT !.do = "report", !.sent = 0, !.answer = a]
<1>1. Settled(s) /\ j \in Job /\ j.do = "call" /\ UNCHANGED <<obj, user, moved>> /\ Become(s, k)
  BY SoloParts DEF Call, Does, storeVars
<1>2. k.do = "report" /\ k.x = j.x /\ k.cmd = j.cmd /\ k.now = j.now
  BY <1>1 DEF Job
<1> HIDE DEF k
<1> QED BY <1>1, <1>2, SoloGoesOn

LEMMA SoloReport ==
  ASSUME OneSession, TypeOK, Steady, Solo, NEW s \in Session, Report(s)
  PROVE  Solo'
<1> DEFINE j == job[s]
           x == j.x
           u == user[s]
<1>1. /\ Settled(s) /\ Commands(j) /\ j \in Job /\ JobOK(j, last) /\ obj \in [Object -> Row]
      /\ j.do = "report" /\ user' = user /\ moved' = moved
  BY SoloParts, StoreIds DEF Report, Does
<1>2. x \in Object /\ j.cmd \in {"create", "update", "delete"}
  BY <1>1 DEF JobOK, Commands
<1>3. /\ IsUser(u, obj) /\ u # NULL
      /\ There(x, obj) => (obj[x].content = 0 <=> j.cmd = "delete")
      /\ There(x, obj) /\ j.cmd # "update" => x # u /\ OwnsNone(x, obj)
  BY <1>1, <1>2 DEF Settled, Reads, Doomed
<1>4. PICK k : Become(s, k) /\ k.do \in {"idle", "check"}
  <2>1. Become(s, NextOfList(s)) \/ Become(s, Idle)
    BY DEF Report, Done
  <2> QED BY <1>1, <2>1, NextReadsNothing, IdleTypes
<1>5. CASE obj' = obj
  BY <1>1, <1>3, <1>4, <1>5, NoChange, SoloRests
<1>6. CASE obj' = [obj EXCEPT ![x] = NoRow] /\ (There(x, obj) => j.cmd # "update")
  BY <1>1, <1>2, <1>3, <1>4, <1>6, SoloDrops
<1>7. \/ obj' = obj
      \/ obj' = [obj EXCEPT ![x] = NoRow] /\ (There(x, obj) => j.cmd # "update")
  <2>1. \/ DropRow(x) /\ j.cmd \in {"create", "delete"}
        \/ PurgeRow(x)
        \/ UNCHANGED storeVars
    BY DEF Report, DropFailed
  <2>2. CASE DropRow(x) /\ j.cmd \in {"create", "delete"}
    BY <2>2 DEF DropRow
  <2>3. CASE PurgeRow(x)
    BY <1>3, <2>3 DEF PurgeRow, DropRow, storeVars
  <2> QED BY <2>1, <2>2, <2>3 DEF storeVars
<1> QED BY <1>5, <1>6, <1>7

LEMMA SoloCrash == ASSUME OneSession, TypeOK, Steady, Solo, Crash PROVE Solo'
<1>1. UNCHANGED <<obj, moved>> /\ \A s \in Session : user'[s] = NULL /\ job'[s] = Idle
  BY DEF Crash, storeVars
<1>2. Idle.do \in {"idle", "check"} /\ ~(Idle.do # "idle")
  BY IdleTypes
<1>3. Reads(NULL, Idle, obj)
  BY <1>2, ReadsNothing
<1> QED BY <1>1, <1>3 DEF Solo

LEMMA SoloElse == ASSUME Solo, UNCHANGED <<obj, user, job, moved>> PROVE Solo'
BY DEF Solo

LEMMA SoloInit == Init => Solo
<1> SUFFICES ASSUME Init PROVE Solo
  OBVIOUS
<1>1. \A s \in Session : user[s] = NULL /\ job[s] = Idle
  BY DEF Init
<1>2. Idle.do \in {"idle", "check"} /\ ~(Idle.do # "idle")
  BY IdleTypes
<1>3. Reads(NULL, Idle, obj)
  BY <1>2, ReadsNothing
<1>4. \A x \in Object : There(x, obj) => x = 1 /\ obj[x].owner = NULL
  <2>1. obj = [x \in Object |->
                 IF x = 1 THEN [NoRow EXCEPT !.class = User, !.name = Admin, !.content = 1] ELSE NoRow]
    BY DEF Init, StoreInit
  <2>2. NoRow.class = "" /\ [NoRow EXCEPT !.class = User, !.name = Admin, !.content = 1].owner = NULL
    BY DEF NoRow
  <2> QED BY <2>1, <2>2 DEF There
<1> QED BY <1>1, <1>3, <1>4 DEF Solo, Owned

LEMMA SoloNext ==
  ASSUME OneSession, TypeOK, NamesUnique, Steady, Solo, [Next]_vars
  PROVE  Solo'
<1>1. CASE UNCHANGED vars
  BY <1>1, SoloElse DEF vars, storeVars, requestVars
<1>2. CASE Crash
  BY <1>2, SoloCrash
<1>3. ASSUME NEW s \in Session, Request(s)
      PROVE  Solo'
  <2>1. CASE (\E u \in Object : Login(s, u)) \/ Logout(s)
    BY <2>1, SoloUser
  <2>2. ASSUME NEW u, NEW c, NEW q, SetQuota(s, u, c, q)
        PROVE  Solo'
    BY <2>2, SoloElse DEF SetQuota, SetLimit, requestVars
  <2>3. CASE \E c \in Class : \E n \in MetaidOf(c), p \in 0..last, v \in 1..MaxContent,
               new \in {NULL} \cup IF "chown" \in Command THEN Users ELSE {}, now \in Immediate :
               Create(s, c, p, n, v, new, now)
    BY <2>3, SoloCreate
  <2>4. CASE \E x \in Object, new \in Users : Chown(s, x, new)
    BY <2>4, SoloChown
  <2>5. CASE \E x \in Object, v \in 1..MaxContent, now \in Immediate : Update(s, x, v, now)
    BY <2>5, SoloUpdate
  <2>6. CASE \E x \in Object, now \in Immediate : Delete(s, x, now)
    BY <2>6, SoloDelete
  <2> QED BY <1>3, <2>1, <2>2, <2>3, <2>4, <2>5, <2>6 DEF Request
<1>4. ASSUME NEW s \in Session, Proceed(s)
      PROVE  Solo'
  BY <1>4, SoloInsert, SoloGive, SoloChownWrite, SoloCheck, SoloReplace, SoloFetch,
     SoloCall, SoloReport DEF Proceed
<1> QED BY <1>1, <1>2, <1>3, <1>4 DEF Next

LEMMA SoloAlways == ASSUME OneSession PROVE Spec => []Solo
<1>1. Init => Solo
  BY SoloInit
<1>2. TypeOK /\ NamesUnique /\ Steady /\ Solo /\ [Next]_vars => Solo'
  BY SoloNext
<1>3. Init => Steady
  BY SteadyInit
<1>4. TypeOK /\ Steady /\ [Next]_vars => Steady'
  BY SteadyNext
<1> QED BY <1>1, <1>2, <1>3, <1>4, ObjectsTypeCorrect, NamesAreUnique, PTL DEF Spec

(* haspower asks the owner of an object and powermirror; Climb is the chain of   *)
(* owners itself.                                                            *)
LEMMA ClimbUnfolds ==
  ASSUME obj \in [Object -> Row], NEW u \in 0..MaxObjects
  PROVE  /\ \A n \in 0..MaxObjects : Climb(u)[n] \in 0..MaxObjects
         /\ Climb(u)[0] = u
         /\ \A n \in 0..MaxObjects : n # 0 => Climb(u)[n] = Owner(Climb(u)[n - 1])
<1>10. PICK D, z : D = 0..MaxObjects /\ z = u
  OBVIOUS
<1>1. u \in D /\ (\A a \in D : Owner(a) \in D) /\ MaxObjects \in Nat
  BY <1>10, Bounds, Rowtypes DEF Owner, Rows
<1>9. PICK F \in [D -> D] : \A a \in D : F[a] = Owner(a)
  <2> DEFINE f == [a \in D |-> Owner(a)]
  <2>1. f \in [D -> D] /\ \A a \in D : f[a] = Owner(a)
    BY <1>1
  <2> HIDE DEF f
  <2> QED BY <2>1
<1>2. PICK h \in [Nat -> D] : h[0] = u /\ \A n \in Nat \ {0} : h[n] = F[h[n - 1]]
  <2>1. z \in D /\ F \in [D -> D]
    BY <1>1, <1>9, <1>10
  <2>2. \E h \in [Nat -> D] : h[0] = z /\ \A n \in Nat \ {0} : h[n] = F[h[n - 1]]
    BY <2>1, Recursion, Z3
  <2> QED BY <1>10, <2>2
<1> DEFINE P(g) == g = [k \in 0..MaxObjects |-> IF k = 0 THEN u ELSE Owner(g[k - 1])]
           w == Climb(u)
<1>3. P([n \in 0..MaxObjects |-> h[n]])
  <2>1. ASSUME NEW n \in 0..MaxObjects, n # 0
        PROVE  n - 1 \in 0..MaxObjects /\ h[n] = Owner(h[n - 1])
    <3>1. n \in Nat \ {0} /\ n - 1 \in 0..MaxObjects /\ n - 1 \in Nat
      BY <1>1, <2>1
    <3>2. h[n] = F[h[n - 1]] /\ h[n - 1] \in D
      BY <1>2, <3>1
    <3> QED BY <1>9, <3>1, <3>2
  <2> QED BY <1>2, <2>1
<1>4. P(CHOOSE g : P(g))
  <2> HIDE DEF P
  <2> QED BY <1>3
<1>5. w = CHOOSE g : P(g)
  BY DEF Climb
<1> HIDE DEF w
<1>6. w = [k \in 0..MaxObjects |-> IF k = 0 THEN u ELSE Owner(w[k - 1])]
  BY <1>4, <1>5
<1>7. w[0] = u /\ \A n \in 0..MaxObjects : n # 0 => w[n] = Owner(w[n - 1])
  <2>1. 0 \in 0..MaxObjects
    BY <1>1
  <2> QED BY <1>6, <2>1
<1>8. \A n \in 0..MaxObjects : w[n] \in 0..MaxObjects
  <2>1. \A a : Owner(a) \in 0..MaxObjects
    BY Bounds, Rowtypes DEF Owner, Rows
  <2> QED BY <1>7, <2>1
<1> QED BY <1>7, <1>8 DEF w

(* Owners that were never changed are older and older users. *)
LEMMA ClimbDescends ==
  ASSUME TypeOK, Owned(obj, moved), NEW x \in Rows, NEW w, w = Climb(x), Above(x) \cap moved = {}
  PROVE  /\ \A n \in 0..MaxObjects :
              w[n] = NULL \/ (w[n] \in Rows \ moved /\ w[n] <= x - n)
         /\ \A n \in 0..MaxObjects : n # 0 /\ w[n] # NULL => IsUser(w[n], obj)
         /\ \A n \in 0..MaxObjects : n + 1 \in 0..MaxObjects /\ w[n] # NULL /\ w[n + 1] = NULL => w[n] = 1
         /\ w[MaxObjects] = NULL
<1>1. /\ \A n \in 0..MaxObjects : w[n] \in 0..MaxObjects
      /\ w[0] = x
      /\ \A n \in 0..MaxObjects : n # 0 => w[n] = Owner(w[n - 1])
  <2>1. x \in 0..MaxObjects /\ obj \in [Object -> Row]
    BY Bounds DEF Rows, TypeOK, StoreTypeOK
  <2> QED BY <2>1, ClimbUnfolds
<1>2. \A n \in 0..MaxObjects : w[n] # NULL => w[n] \notin moved
  BY DEF Above
<1>3. MaxObjects \in Nat \ {0} /\ NULL = 0 /\ x \in 1..MaxObjects /\ Rows \subseteq 1..MaxObjects
  BY Bounds DEF Rows
<1> DEFINE P(n) == w[n] = NULL \/ (w[n] \in Rows \ moved /\ w[n] <= x - n)
           T == {n \in Nat : n \in 0..MaxObjects => P(n)}
<1>4. ASSUME NEW n \in Nat, n + 1 \in 0..MaxObjects, P(n)
      PROVE  /\ P(n + 1)
             /\ w[n + 1] # NULL => IsUser(w[n + 1], obj)
             /\ w[n] # NULL /\ w[n + 1] = NULL => w[n] = 1
  <2>1. n \in 0..MaxObjects /\ n + 1 # 0 /\ (n + 1) - 1 = n
    BY <1>3, <1>4
  <2>2. w[n + 1] = Owner(w[n]) /\ w[n + 1] \in 0..MaxObjects
    BY <1>1, <1>4, <2>1
  <2>3. CASE w[n] = NULL
    <3>1. w[n + 1] = NULL
      BY <1>3, <2>2, <2>3 DEF Owner
    <3> QED BY <2>3, <3>1
  <2>4. CASE w[n] # NULL
    <3> DEFINE a == w[n]
               b == w[n + 1]
    <3>1. a \in Rows /\ a \in Object \ moved /\ a <= x - n /\ a \in 1..MaxObjects /\ There(a, obj)
      BY <1>3, <1>4, <2>4 DEF Rows, There
    <3>2. b = obj[a].owner /\ b \in 0..MaxObjects
      BY <2>2, <3>1 DEF Owner
    <3>3. (a = 1 /\ b = NULL) \/ (IsUser(b, obj) /\ b < a)
      BY <3>1, <3>2 DEF Owned
    <3>4. b # NULL => b \notin moved
      BY <1>2, <1>4
    <3> HIDE DEF a, b
    <3>5. CASE a = 1 /\ b = NULL
      BY <3>5 DEF a, b
    <3>6. CASE IsUser(b, obj) /\ b < a
      <4>1. b \in Rows
        BY <3>6, Classes, Zenon DEF IsUser, Rows
      <4>2. b <= x - (n + 1)
        BY <1>3, <3>1, <3>2, <3>6
      <4>3. b # NULL
        BY <1>3, <4>1
      <4> QED BY <3>4, <3>6, <4>1, <4>2, <4>3 DEF a, b
    <3> QED BY <3>3, <3>5, <3>6
  <2> QED BY <2>3, <2>4
<1>5. 0 \in T
  BY <1>1, <1>2, <1>3
<1>6. \A n \in Nat : n \in T => n + 1 \in T
  <2> SUFFICES ASSUME NEW n \in Nat, n \in T, n + 1 \in 0..MaxObjects PROVE P(n + 1)
    OBVIOUS
  <2>1. n \in 0..MaxObjects
    BY <1>3
  <2>2. P(n)
    BY <2>1
  <2> HIDE DEF P
  <2> QED BY <1>4, <2>2
<1>7. Nat \subseteq T
  <2> HIDE DEF T
  <2> QED BY <1>5, <1>6, EveryNumber
<1>8. \A n \in 0..MaxObjects : P(n)
  BY <1>3, <1>7
<1> HIDE DEF T
<1>9. \A n \in 0..MaxObjects : n # 0 /\ w[n] # NULL => IsUser(w[n], obj)
  <2> TAKE n \in 0..MaxObjects
  <2> SUFFICES ASSUME n # 0, w[n] # NULL PROVE IsUser(w[n], obj)
    OBVIOUS
  <2> DEFINE m == n - 1
  <2>1. m \in Nat /\ m \in 0..MaxObjects /\ m + 1 = n
    BY <1>3
  <2>2. P(m)
    BY <1>8, <2>1
  <2> HIDE DEF P, m
  <2>3. w[m + 1] # NULL => IsUser(w[m + 1], obj)
    BY <1>4, <2>1, <2>2
  <2> QED BY <2>1, <2>3
<1>10. \A n \in 0..MaxObjects : n + 1 \in 0..MaxObjects /\ w[n] # NULL /\ w[n + 1] = NULL => w[n] = 1
  <2> HIDE DEF P
  <2>1. \A n \in 0..MaxObjects : n \in Nat
    BY <1>3
  <2> QED BY <1>4, <1>8, <2>1
<1>11. w[MaxObjects] = NULL
  <2>1. P(MaxObjects) /\ w[MaxObjects] \in 0..MaxObjects
    BY <1>1, <1>3, <1>8
  <2>2. \A a \in Rows : ~(a <= 0)
    BY <1>3
  <2>3. x - MaxObjects <= 0 /\ x - MaxObjects \in Int
    BY <1>3
  <2>4. \A a \in 0..MaxObjects : a <= x - MaxObjects => a <= 0
    BY <1>3, <2>3
  <2> QED BY <2>1, <2>2, <2>4
<1> QED BY <1>8, <1>9, <1>10, <1>11

LEMMA RowsAreObjects ==
  NULL \notin Rows /\ Owner(NULL) = NULL /\ \A u \in Rows : u \in Object /\ u \in 0..MaxObjects
<1>1. NULL \notin Object /\ \A u \in Object : u \in 0..MaxObjects
  BY Bounds
<1> QED BY <1>1 DEF Rows, Owner

(* The powers over what a user in the chain owns are the users above him.        *)
LEMMA PowersClimb ==
  ASSUME TypeOK, Owned(obj, moved), MirrorFollowsOwners, Mirror(NULL) = {1},
         NEW x \in Rows, NEW w, w = Climb(x), Above(x) \cap moved = {}
  PROVE  \A n \in 0..MaxObjects :
           n # 0 /\ w[n] # NULL => Mirror(w[n]) \ {NULL} = {w[k] : k \in n..MaxObjects} \ {NULL}
<1>1. /\ \A n \in 0..MaxObjects :
            w[n] = NULL \/ (w[n] \in Rows \ moved /\ w[n] <= x - n)
      /\ \A n \in 0..MaxObjects : n # 0 /\ w[n] # NULL => IsUser(w[n], obj)
      /\ \A n \in 0..MaxObjects : n + 1 \in 0..MaxObjects /\ w[n] # NULL /\ w[n + 1] = NULL => w[n] = 1
      /\ w[MaxObjects] = NULL
  BY ClimbDescends
<1>2. \A n \in 0..MaxObjects : n # 0 => w[n] = Owner(w[n - 1])
  <2>1. x \in 0..MaxObjects /\ obj \in [Object -> Row]
    BY Bounds DEF Rows, TypeOK, StoreTypeOK
  <2> QED BY <2>1, ClimbUnfolds
<1>3. MaxObjects \in Nat \ {0} /\ NULL = 0
  BY Bounds
<1> DEFINE Q(n) == n # 0 /\ w[n] # NULL => Mirror(w[n]) \ {NULL} = {w[k] : k \in n..MaxObjects} \ {NULL}
           T == {d \in Nat : d <= MaxObjects => Q(MaxObjects - d)}
<1>4. ASSUME NEW n \in 0..MaxObjects, n + 1 \in 0..MaxObjects, n # 0, w[n] # NULL, Q(n + 1)
      PROVE  Mirror(w[n]) \ {NULL} = {w[k] : k \in n..MaxObjects} \ {NULL}
  <2> DEFINE a == w[n]
             b == w[n + 1]
             rest == {w[k] : k \in (n + 1)..MaxObjects}
  <2>1. a \in Rows \ moved /\ obj[a].class = User /\ b = obj[a].owner
    <3>1. a \in Rows \ moved /\ IsUser(a, obj)
      BY <1>1, <1>4
    <3>2. b = Owner(a)
      <4>1. n + 1 # 0 /\ (n + 1) - 1 = n
        BY <1>3
      <4> QED BY <1>2, <1>4, <4>1
    <3> QED BY <3>1, <3>2 DEF IsUser, Owner
  <2>2. Mirror(a) = {a, b} \cup Mirror(b)
    BY <2>1 DEF MirrorFollowsOwners
  <2>3. {w[k] : k \in n..MaxObjects} = {a} \cup rest /\ b \in rest
    <3>1. n..MaxObjects = {n} \cup ((n + 1)..MaxObjects) /\ n + 1 \in (n + 1)..MaxObjects
      BY <1>3, <1>4
    <3> QED BY <3>1
  <2>4. CASE b = NULL
    <3>1. a = 1
      BY <1>1, <1>4, <2>4
    <3>2. Mirror(a) \ {NULL} = {a}
      BY <1>3, <2>2, <2>4, <3>1
    <3>3. \A k \in (n + 1)..MaxObjects : w[k] = NULL
      <4> TAKE k \in (n + 1)..MaxObjects
      <4> DEFINE U == {m \in Nat : m \in (n + 1)..MaxObjects => w[m] = NULL}
      <4>1. 0 \in U
        BY <1>3
      <4>2. ASSUME NEW m \in Nat, m \in U, m + 1 \in (n + 1)..MaxObjects PROVE w[m + 1] = NULL
        <5>1. CASE m = n
          BY <2>4, <5>1
        <5>2. CASE m # n
          <6>1. m \in (n + 1)..MaxObjects /\ m + 1 \in 0..MaxObjects /\ m + 1 # 0 /\ (m + 1) - 1 = m
            BY <1>3, <4>2, <5>2
          <6>2. w[m] = NULL /\ w[m + 1] = Owner(w[m])
            BY <1>2, <4>2, <6>1
          <6> QED BY <6>2, RowsAreObjects
        <5> QED BY <5>1, <5>2
      <4>3. \A m \in Nat : m \in U => m + 1 \in U
        BY <4>2
      <4>4. Nat \subseteq U
        <5> HIDE DEF U
        <5> QED BY <4>1, <4>3, EveryNumber
      <4> QED BY <1>3, <4>4
    <3>4. rest \subseteq {NULL}
      BY <3>3
    <3> HIDE DEF rest, a, b
    <3>5. a # NULL
      BY <1>3, <3>1
    <3> QED BY <2>3, <3>2, <3>4, <3>5 DEF a
  <2>5. CASE b # NULL
    <3>1. Mirror(b) \ {NULL} = rest \ {NULL}
      <4>1. n + 1 # 0
        BY <1>3
      <4> QED BY <1>4, <2>5, <4>1
    <3> HIDE DEF rest, a, b
    <3> QED BY <2>2, <2>3, <3>1 DEF a
  <2> QED BY <2>4, <2>5
<1>5. 0 \in T
  BY <1>1, <1>3
<1>6. ASSUME NEW d \in Nat, d \in T, d + 1 <= MaxObjects
      PROVE  Q(MaxObjects - (d + 1))
  <2> DEFINE n == MaxObjects - (d + 1)
  <2>1. n \in 0..MaxObjects /\ n + 1 \in 0..MaxObjects /\ n + 1 = MaxObjects - d /\ d <= MaxObjects
    BY <1>3, <1>6
  <2>2. Q(n + 1)
    BY <1>6, <2>1
  <2> HIDE DEF n
  <2> QED BY <1>4, <2>1, <2>2 DEF n
<1>7. Nat \subseteq T
  <2> HIDE DEF Q
  <2>1. \A d \in Nat : d \in T => d + 1 \in T
    BY <1>6
  <2> HIDE DEF T
  <2> QED BY <1>5, <2>1, EveryNumber
<1> QED
  <2> TAKE n \in 0..MaxObjects
  <2> DEFINE d == MaxObjects - n
  <2>1. d \in Nat /\ d <= MaxObjects /\ MaxObjects - d = n
    BY <1>3
  <2>2. d \in T
    BY <1>7, <2>1
  <2> HIDE DEF d
  <2> QED BY <2>1, <2>2

LEMMA PowersAreOwners ==
  ASSUME TypeOK, Owned(obj, moved), MirrorFollowsOwners, Mirror(NULL) = {1}
  PROVE  PowerIsAncestry
<1> SUFFICES ASSUME NEW x \in Rows, Above(x) \cap moved = {}
             PROVE  {u \in Rows : HasPower(x, u)} = Above(x)
  BY DEF PowerIsAncestry
<1>0. PICK w : w = Climb(x)
  OBVIOUS
<1>1. /\ \A n \in 0..MaxObjects :
            w[n] = NULL \/ (w[n] \in Rows \ moved /\ w[n] <= x - n)
      /\ \A n \in 0..MaxObjects : n + 1 \in 0..MaxObjects /\ w[n] # NULL /\ w[n + 1] = NULL => w[n] = 1
  BY <1>0, ClimbDescends
<1>2. \A n \in 0..MaxObjects :
        n # 0 /\ w[n] # NULL => Mirror(w[n]) \ {NULL} = {w[k] : k \in n..MaxObjects} \ {NULL}
  BY <1>0, PowersClimb
<1>3. w[0] = x /\ w[1] = Owner(x) /\ 1 \in 0..MaxObjects /\ 0 \in 0..MaxObjects
  <2>1. x \in 0..MaxObjects /\ obj \in [Object -> Row]
    BY Bounds DEF Rows, TypeOK, StoreTypeOK
  <2>2. /\ w[0] = x
        /\ \A n \in 0..MaxObjects : n # 0 => w[n] = Owner(w[n - 1])
    BY <1>0, <2>1, ClimbUnfolds
  <2>3. 1 \in 0..MaxObjects /\ 0 \in 0..MaxObjects /\ 1 # 0 /\ 1 - 1 = 0
    BY Bounds
  <2> QED BY <2>2, <2>3
<1>4. Above(x) = {w[k] : k \in 0..MaxObjects} \ {NULL}
  BY <1>0 DEF Above
<1>5. {w[k] : k \in 0..MaxObjects} = {x} \cup {w[k] : k \in 1..MaxObjects}
  <2>1. 0..MaxObjects = {0} \cup 1..MaxObjects
    BY Bounds
  <2> QED BY <1>3, <2>1
<1>6. Above(x) \subseteq Rows /\ NULL \notin Rows /\ \A u \in Rows : u \in 0..MaxObjects
  <2>1. NULL \notin Rows /\ \A u \in Rows : u \in 0..MaxObjects
    BY RowsAreObjects
  <2> QED BY <1>1, <1>4, <2>1
<1> DEFINE o == Owner(x)
<1>7. \A u \in Rows : HasPower(x, u) <=> u = x \/ u = o \/ u \in Mirror(o)
  BY <1>6 DEF HasPower, Owner, Mirror
<1>8. CASE o = NULL
  <2>1. x = 1
    <3>1. 0 + 1 = 1 /\ x # NULL
      BY <1>6
    <3> QED BY <1>1, <1>3, <1>8, <3>1
  <2>2. \A u \in Rows : HasPower(x, u) <=> u = x
    BY <1>6, <1>7, <1>8, <2>1
  <2>3. \A k \in 1..MaxObjects : w[k] = NULL
    <3> TAKE k \in 1..MaxObjects
    <3>1. k \in 0..MaxObjects /\ x - k <= 0
      BY <2>1, Bounds
    <3>2. w[k] \in Rows => w[k] \in 1..MaxObjects
      BY Bounds DEF Rows
    <3>3. \A a \in 1..MaxObjects : ~(a <= x - k)
      BY <2>1, <3>1, Bounds
    <3> QED BY <1>1, <3>1, <3>2, <3>3
  <2>4. {w[k] : k \in 1..MaxObjects} \subseteq {NULL}
    BY <2>3
  <2>5. Above(x) = {x}
    BY <1>4, <1>5, <1>6, <2>4
  <2> QED BY <2>2, <2>5
<1>9. CASE o # NULL
  <2>1. Mirror(o) \ {NULL} = {w[k] : k \in 1..MaxObjects} \ {NULL}
    <3>1. 1 # 0
      OBVIOUS
    <3> QED BY <1>2, <1>3, <1>9, <3>1
  <2>2. o \in {w[k] : k \in 1..MaxObjects}
    BY <1>3, Bounds
  <2> HIDE DEF o
  <2>3. Above(x) = {x} \cup (Mirror(o) \ {NULL}) /\ o \in Above(x)
    BY <1>4, <1>5, <1>6, <1>9, <2>1, <2>2
  <2> QED BY <1>6, <1>7, <2>3
<1> QED BY <1>8, <1>9

(* Nobody but the first user ever gets power over what nobody owns. *)
NobodyIsFirst == Mirror(NULL) = {1}

LEMMA NobodysPowers ==
  ASSUME TypeOK, NobodyIsFirst, [Next]_vars
  PROVE  NobodyIsFirst'
<1>1. CASE UNCHANGED power
  BY <1>1 DEF Mirror, NobodyIsFirst
<1>2. CASE Inserts
  <2>1. PICK r, u : InsertRow(r, u)
    BY <1>2 DEF Inserts
  <2>2. last + 1 # NULL
    BY StoreIds, Bounds
  <2>3. \A p : <<NULL, p>> \in power' <=> <<NULL, p>> \in power
    BY <2>1, <2>2 DEF InsertRow, Powers
  <2> QED BY <2>3 DEF Mirror, NobodyIsFirst
<1> QED BY <1>1, <1>2, Statements DEF Gives, Drops, Replaces, SetOwner, DropRow, ReplaceRow

(* With one session, and whatever it does and its modules answer: the power that *)
(* haspower finds, from the owner of an object and powermirror alone, is the    *)
(* power that the chain of owners gives, as long as no owner on it was changed  *)
(* (DBManager::haspower, _setpowermirror, isDeleteable).                      *)
THEOREM PowersAreAncestry == ASSUME OneSession PROVE Spec => []PowerIsAncestry
<1>1. Init => NobodyIsFirst
  <2>1. {0, 1} \subseteq 0..MaxObjects /\ NULL = 0
    BY Bounds
  <2> QED BY <2>1 DEF Init, StoreInit, Mirror, NobodyIsFirst
<1>2. TypeOK /\ NobodyIsFirst /\ [Next]_vars => NobodyIsFirst'
  BY NobodysPowers
<1>3. TypeOK /\ Solo /\ MirrorFollowsOwners /\ NobodyIsFirst => PowerIsAncestry
  BY PowersAreOwners DEF Solo, NobodyIsFirst
<1>4. Spec => []Solo
  BY SoloAlways
<1> QED BY <1>1, <1>2, <1>3, <1>4, ObjectsTypeCorrect, MirrorIsTrue, PTL DEF Spec

(* What MayCreate found of the quotas is still so when the row is inserted. *)
Counted ==
  \A s \in Session :
    Does(s, "insert") => user[s] \in Object /\ ~OverQuota(user[s], job[s].row.class)

LEMMA QuotaStays ==
  ASSUME UNCHANGED storeVars, NEW u, NEW c
  PROVE  OverQuota(u, c)' <=> OverQuota(u, c)
BY DEF OverQuota, Limit, Usage, Above, Climb, Owner, Rows, storeVars

LEMMA CountedStep ==
  ASSUME OneSession, TypeOK, Steady, Solo, Counted, [Next]_vars
  PROVE  Counted'
<1> SUFFICES ASSUME NEW s \in Session, job'[s].do = "insert"
             PROVE  (user[s] \in Object /\ ~OverQuota(user[s], job[s].row.class))'
  BY DEF Counted, Does
<1>1. job \in [Session -> Job] /\ Settled(s) /\ job[s] \in Job
  BY SoloParts
<1>2. CASE UNCHANGED vars
  <2>1. UNCHANGED storeVars /\ user' = user /\ job' = job
    BY <1>2 DEF vars, requestVars
  <2>2. PICK u, c : u = user[s] /\ c = job[s].row.class
    OBVIOUS
  <2>3. u \in Object /\ ~OverQuota(u, c)
    BY <2>1, <2>2 DEF Counted, Does
  <2>4. ~OverQuota(u, c)'
    BY <2>1, <2>3, QuotaStays
  <2> QED BY <2>1, <2>2, <2>3, <2>4
<1>3. CASE Crash
  BY <1>3, IdleTypes DEF Crash
<1>4. ASSUME NEW t \in Session, Request(t)
      PROVE  (user[s] \in Object /\ ~OverQuota(user[s], job[s].row.class))'
  <2>1. t = s
    BY DEF OneSession
  <2>2. CASE job' = job
    <3>1. job[s].do # "idle" /\ user[s] # NULL
      BY <1>1, <2>2 DEF Settled, Reads
    <3>2. FALSE
      BY <1>4, <2>1, <2>2, <3>1 DEF Request, Login, Logout, Create, Chown, SetQuota, Update, Delete, Does
    <3> QED BY <3>2
  <2>3. CASE \E c \in Class : \E n \in MetaidOf(c), p \in 0..last, v \in 1..MaxContent,
               new \in {NULL} \cup IF "chown" \in Command THEN Users ELSE {}, now \in Immediate :
               Create(s, c, p, n, v, new, now)
    <3>1. PICK c \in Class : \E p, n, v, new, now : Create(s, c, p, n, v, new, now)
      BY <2>3
    <3>8. PICK p, n, v, new, now : Create(s, c, p, n, v, new, now)
      BY <3>1
    <3> DEFINE r == NewRow(user[s], c, p, n, v)
               k == [Idle EXCEPT !.do = "insert", !.cmd = "create", !.new = new, !.now = now, !.row = r]
    <3>2. Become(s, k) /\ UNCHANGED <<storeVars, user>> /\ MayCreate(user[s], c, p)
      BY <3>8 DEF Create
    <3>3. k.row = r /\ r.class = c
      BY DEF Idle, NewRow
    <3> HIDE DEF k, r
    <3>4. user[s] \in Object /\ ~OverQuota(user[s], c)
      BY <3>2 DEF MayCreate, Rows
    <3>5. PICK u : u = user[s]
      OBVIOUS
    <3>6. ~OverQuota(u, c)'
      BY <3>2, <3>4, <3>5, QuotaStays
    <3>7. job'[s].row.class = c /\ user'[s] = u /\ u \in Object
      BY <3>2, <3>3, <3>4, <3>5, Becomes
    <3> QED BY <3>6, <3>7
  <2>4. \/ job' = job
        \/ \E c \in Class : \E n \in MetaidOf(c), p \in 0..last, v \in 1..MaxContent,
               new \in {NULL} \cup IF "chown" \in Command THEN Users ELSE {}, now \in Immediate :
               Create(s, c, p, n, v, new, now)
    <3>1. ASSUME NEW x, NEW new, Chown(s, x, new) PROVE FALSE
      BY <1>1, <3>1 DEF Chown, Become, Idle
    <3>2. ASSUME NEW x, NEW v, NEW now, Update(s, x, v, now) PROVE FALSE
      BY <1>1, <3>2 DEF Update, Become, Idle
    <3>3. ASSUME NEW x, NEW now, Delete(s, x, now) PROVE FALSE
      BY <1>1, <3>3 DEF Delete, Become, Idle
    <3>4. ASSUME NEW u, NEW c, NEW q, SetQuota(s, u, c, q) PROVE job' = job
      BY <3>4 DEF SetQuota, requestVars
    <3>5. ASSUME NEW u, Login(s, u) \/ Logout(s) PROVE job' = job
      BY <3>5 DEF Login, Logout
    <3> QED BY <1>4, <2>1, <3>1, <3>2, <3>3, <3>4, <3>5, Zenon DEF Request
  <2> QED BY <2>2, <2>3, <2>4
<1>5. ASSUME NEW t \in Session, Proceed(t) PROVE FALSE
  <2>1. t = s
    BY DEF OneSession
  <2>2. job' # [job EXCEPT ![s] = NextOfList(s)] /\ job' # [job EXCEPT ![s] = Idle]
    <3>1. NextOfList(s).do # "insert" /\ Idle.do # "insert"
      BY <1>1, NextReadsNothing, IdleTypes
    <3> QED BY <1>1, <3>1
  <2>3. \A k : k.do # "insert" => job' # [job EXCEPT ![s] = k]
    BY <1>1
  <2> DEFINE j == job[s]
  <2>4. ~(Give(s) \/ ChownWrite(s))
    <3>1. ~ChownWrite(s)
      BY <2>2 DEF ChownWrite, Become, Done
    <3>2. [j EXCEPT !.do = "fetch", !.new = NULL].do = "fetch"
      BY <1>1 DEF Job
    <3>3. ~Become(s, [j EXCEPT !.do = "fetch", !.new = NULL])
      BY <2>3, <3>2 DEF Become
    <3>4. ~Give(s)
      BY <2>2, <3>3, Zenon DEF Give, Become, Done
    <3> QED BY <3>1, <3>4
  <2>5. ~Insert(s)
    BY <1>1, <2>2 DEF Insert, Become, Done, Job
  <2>6. ~Check(s)
    <3>1. [j EXCEPT !.do = "report", !.answer = "failed"].do = "report"
      BY <1>1 DEF Job
    <3>2. \A r : [j EXCEPT !.do = "replace", !.row = r].do = "replace"
      BY <1>1 DEF Job
    <3> QED BY <2>2, <2>3, <3>1, <3>2 DEF Check, Become, Done
  <2>7. ~(Replace(s) \/ Report(s))
    <3>1. [j EXCEPT !.do = "fetch", !.row = NoRow].do = "fetch"
      BY <1>1 DEF Job
    <3> QED BY <2>2, <2>3, <3>1 DEF Replace, Report, Become, Done
  <2>8. ~Fetch(s)
    <3>1. [j EXCEPT !.do = "report", !.answer = "failed"].do = "report"
      BY <1>1 DEF Job
    <3>2. \A c : [j EXCEPT !.do = "call", !.sent = c].do = "call"
      BY <1>1 DEF Job
    <3> QED BY <2>2, <2>3, <3>1, <3>2 DEF Fetch, Become, Done
  <2>9. ~\E a \in Answer : Call(s, a)
    BY <1>1 DEF Call, Become, Job
  <2> QED BY <1>5, <2>1, <2>4, <2>5, <2>6, <2>7, <2>8, <2>9 DEF Proceed
<1> QED BY <1>2, <1>3, <1>4, <1>5 DEF Next

LEMMA LimitIsNumber ==
  ASSUME TypeOK, NEW u \in 0..MaxObjects, NEW c \in Class
  PROVE  Limit(u, c) \in Nat \cup {-1}
<1> DEFINE set == {limit[a][c] : a \in Above(u)} \ {-1}
<1>1. Above(u) \subseteq Object
  <2>1. obj \in [Object -> Row] /\ MaxObjects \in Nat
    BY Bounds DEF TypeOK, StoreTypeOK
  <2>2. \A n \in 0..MaxObjects : Climb(u)[n] \in 0..MaxObjects
    BY <2>1, ClimbUnfolds
  <2>3. \A a \in 0..MaxObjects : a # NULL => a \in Object
    BY Bounds
  <2> QED BY <2>2, <2>3 DEF Above
<1>2. limit \in [Object -> [Class -> Nat \cup {-1}]]
  BY DEF TypeOK, StoreTypeOK
<1>3. set \subseteq Nat
  BY <1>1, <1>2
<1>4. Limit(u, c) = IF set = {} THEN -1 ELSE CHOOSE q \in set : \A r \in set : q <= r
  BY DEF Limit
<1> HIDE DEF set
<1>5. CASE set = {}
  BY <1>4, <1>5
<1>6. CASE set # {}
  <2>1. PICK S : S = set
    OBVIOUS
  <2>2. \E n \in S : \A m \in S : n <= m
    <3>1. S \in SUBSET Nat /\ S # {}
      BY <1>3, <1>6, <2>1
    <3> QED BY <3>1, Least
  <2>3. (CHOOSE q \in set : \A r \in set : q <= r) \in set
    BY <2>1, <2>2
  <2> QED BY <1>3, <1>4, <1>6, <2>3
<1> QED BY <1>5, <1>6

LEMMA QuotaHolds ==
  ASSUME OneSession, TypeOK, Counted, [Next]_vars, NEW s \in Session, NEW u \in Object, NEW c \in Class,
         last' # last, Does(s, "insert"), u = user[s], c = job[s].row.class
  PROVE  Limit(u, c) = -1 \/ Usage(u, c)' <= Limit(u, c)
<1> DEFINE S == {x \in Rows : obj[x].class = c /\ <<obj[x].owner, u>> \in power}
           x == last + 1
<1>1. PICK r, w : InsertRow(r, w)
  <2>1. Inserts
    BY Statements DEF Gives, Drops, Replaces, SetOwner, DropRow, ReplaceRow
  <2> QED BY <2>1 DEF Inserts
<1>2. /\ obj \in [Object -> Row] /\ last \in Nat
      /\ \A y \in Object : obj[y].owner \in Nat /\ obj[y].owner <= last
  <2>1. obj \in [Object -> Row] /\ last \in Nat /\ \A y \in Object : Within(obj[y], last)
    BY StoreIds DEF TypeOK, StoreTypeOK
  <2> QED BY <2>1, RowIds DEF Within
<1>3. Limit(u, c) = -1 \/ ~(Usage(u, c) >= Limit(u, c))
  BY DEF Counted, OverQuota
<1>4. IsFiniteSet(S) /\ Cardinality(S) \in Nat /\ Usage(u, c) = Cardinality(S)
  <2>1. IsFiniteSet(Object)
    <3>1. 1 \in Int /\ MaxObjects \in Int /\ Object = 1..MaxObjects
      BY Bounds
    <3> QED BY <3>1, FS_Interval
  <2>2. S \subseteq Object
    BY DEF Rows
  <2>3. IsFiniteSet(S)
    BY <2>1, <2>2, FS_Subset
  <2> QED BY <2>3, FS_CardinalityType DEF Usage
<1>5. Usage(u, c)' <= Cardinality(S) + 1 /\ Usage(u, c)' \in Nat
  <2> DEFINE N == {y \in Rows' : obj'[y].class = c /\ <<obj'[y].owner, u>> \in power'}
  <2>1. N \subseteq S \cup {x}
    <3> SUFFICES ASSUME NEW y \in N, y # x PROVE y \in S
      OBVIOUS
    <3>1. y \in Object /\ obj'[y] = obj[y]
      BY <1>1, <1>2 DEF InsertRow, Rows
    <3>2. y \in Rows /\ obj[y].class = c /\ <<obj[y].owner, u>> \in power'
      BY <3>1 DEF Rows
    <3>3. obj[y].owner # x
      BY <1>2, <3>1
    <3>4. <<obj[y].owner, u>> \in power
      BY <1>1, <3>2, <3>3 DEF InsertRow, Powers
    <3> QED BY <3>2, <3>4
  <2>2. Usage(u, c)' = Cardinality(N)
    BY DEF Usage
  <2> HIDE DEF S, N, x
  <2>3. IsFiniteSet(S \cup {x}) /\ Cardinality(S \cup {x}) <= Cardinality(S) + 1
    <3>1. /\ IsFiniteSet(S \cup {x})
          /\ Cardinality(S \cup {x}) = IF x \in S THEN Cardinality(S) ELSE Cardinality(S) + 1
      BY <1>4, FS_AddElement
    <3> QED BY <1>4, <3>1
  <2>4. Cardinality(N) <= Cardinality(S \cup {x}) /\ Cardinality(N) \in Nat /\ Cardinality(S \cup {x}) \in Nat
    BY <2>1, <2>3, FS_Subset, FS_CardinalityType
  <2> QED BY <1>4, <2>2, <2>3, <2>4
<1>6. Limit(u, c) \in Nat \cup {-1}
  <2>1. u \in 0..MaxObjects
    BY Bounds
  <2> QED BY <2>1, LimitIsNumber
<1> QED BY <1>3, <1>4, <1>5, <1>6

(* With one session: nothing a user makes takes what he has power over past the *)
(* smallest quota on the chain above him, whatever quotas are set and however   *)
(* long the insert takes after the check (DBManager::createObject, checkUserQuota). *)
THEOREM QuotaIsKept == ASSUME OneSession PROVE Spec => QuotaKept
<1>1. Init => Counted
  BY IdleTypes DEF Init, Counted, Does
<1>2. TypeOK /\ Steady /\ Solo /\ Counted /\ [Next]_vars => Counted'
  BY CountedStep
<1>3. TypeOK /\ Counted /\ [Next]_vars =>
        [\A s \in Session, u \in Object, c \in Class :
           /\ last' # last /\ Does(s, "insert")
           /\ u = user[s] /\ c = job[s].row.class
           => Limit(u, c) = -1 \/ Usage(u, c)' <= Limit(u, c)]_vars
  BY QuotaHolds
<1>4. Spec => []Solo
  BY SoloAlways
<1>5. Spec => []Steady
  BY SteadyInit, SteadyNext, ObjectsTypeCorrect, PTL DEF Spec
<1> QED BY <1>1, <1>2, <1>3, <1>4, <1>5, ObjectsTypeCorrect, PTL DEF Spec, QuotaKept

-----------------------------------------------------------------------------
(* A list is in order when what is below an entry comes before it: R are the    *)
(* pairs of an object and what it is directly below of.                      *)
Led(q, R) ==
  \A i \in DOMAIN q : \A y : <<y, q[i]>> \in R => \E k \in 1..(i - 1) : q[k] = y
Holds(q, y) == \E k \in DOMAIN q : q[k] = y

LEMMA Joined ==
  ASSUME NEW D, NEW p \in Seq(D), NEW q \in Seq(D)
  PROVE  /\ p \o q \in Seq(D)
         /\ \A E \in SUBSET D : p \o q \in Seq(E) => p \in Seq(E) /\ q \in Seq(E)
         /\ \A R : Led(p, R) /\ Led(q, R) => Led(p \o q, R)
         /\ \A y : Holds(p, y) \/ Holds(q, y) => Holds(p \o q, y)
<1> DEFINE m == Len(p)
           n == Len(q)
           r == p \o q
<1>1. /\ m \in Nat /\ n \in Nat /\ DOMAIN p = 1..m /\ DOMAIN q = 1..n
      /\ r \in Seq(D) /\ Len(r) = m + n /\ DOMAIN r = 1..(m + n)
      /\ \A i \in 1..m : p[i] \in D /\ r[i] = p[i]
      /\ \A i \in 1..n : q[i] \in D /\ r[m + i] = q[i]
  BY ConcatProperties, LenProperties
<1> HIDE DEF m, n, r
<1>2. ASSUME NEW E \in SUBSET D, r \in Seq(E) PROVE p \in Seq(E) /\ q \in Seq(E)
  <2>1. \A i \in 1..(m + n) : r[i] \in E
    BY <1>1, <1>2
  <2>2. \A i \in 1..m : p[i] \in E
    BY <1>1, <2>1
  <2>3. \A i \in 1..n : q[i] \in E
    <3> TAKE i \in 1..n
    <3>1. m + i \in 1..(m + n)
      BY <1>1
    <3> QED BY <1>1, <2>1, <3>1
  <2> QED BY <1>1, <2>2, <2>3 DEF m, n
<1>3. ASSUME NEW R, Led(p, R), Led(q, R) PROVE Led(r, R)
  <2> SUFFICES ASSUME NEW i \in 1..(m + n), NEW y, <<y, r[i]>> \in R
               PROVE  \E k \in 1..(i - 1) : r[k] = y
    BY <1>1 DEF Led
  <2>1. CASE i <= m
    <3>1. i \in DOMAIN p /\ r[i] = p[i]
      BY <1>1, <2>1
    <3>2. PICK k \in 1..(i - 1) : p[k] = y
      BY <1>3, <3>1 DEF Led
    <3> QED BY <1>1, <2>1, <3>2
  <2>2. CASE i > m
    <3>1. i - m \in 1..n /\ m + (i - m) = i
      BY <1>1, <2>2
    <3>2. r[i] = q[i - m]
      BY <1>1, <3>1
    <3>3. PICK k \in 1..(i - m - 1) : q[k] = y
      BY <1>1, <1>3, <3>1, <3>2 DEF Led
    <3>4. k \in 1..n /\ m + k \in 1..(i - 1)
      BY <1>1, <3>1
    <3> QED BY <1>1, <3>3, <3>4
  <2> QED BY <1>1, <2>1, <2>2
<1>4. ASSUME NEW y, Holds(p, y) \/ Holds(q, y) PROVE Holds(r, y)
  <2>1. CASE Holds(p, y)
    BY <1>1, <2>1 DEF Holds
  <2>2. CASE Holds(q, y)
    <3>1. PICK k \in 1..n : q[k] = y
      BY <1>1, <2>2 DEF Holds
    <3>2. m + k \in 1..(m + n) /\ r[m + k] = y
      BY <1>1, <3>1
    <3> QED BY <1>1, <3>2 DEF Holds
  <2> QED BY <1>4, <2>1, <2>2
<1> QED BY <1>1, <1>2, <1>3, <1>4 DEF r

(* An object comes after all that is below it. *)
LEMMA Appended ==
  ASSUME NEW D, NEW p \in Seq(D), NEW x \in D, NEW R, Led(p, R),
         \A y : <<y, x>> \in R => Holds(p, y)
  PROVE  Led(p \o <<x>>, R) /\ Holds(p \o <<x>>, x)
<1> DEFINE m == Len(p)
           r == p \o <<x>>
<1>1. /\ m \in Nat /\ DOMAIN p = 1..m /\ DOMAIN r = 1..(m + 1)
      /\ \A i \in 1..m : r[i] = p[i]
      /\ r[m + 1] = x
  BY ConcatProperties, LenProperties
<1> HIDE DEF m, r
<1>2. Led(r, R)
  <2> SUFFICES ASSUME NEW i \in 1..(m + 1), NEW y, <<y, r[i]>> \in R
               PROVE  \E k \in 1..(i - 1) : r[k] = y
    BY <1>1 DEF Led
  <2>1. CASE i \in 1..m
    <3>1. PICK k \in 1..(i - 1) : p[k] = y
      BY <1>1, <2>1 DEF Led
    <3> QED BY <1>1, <2>1, <3>1
  <2>2. CASE i = m + 1
    <3>1. PICK k \in 1..m : p[k] = y
      BY <1>1, <2>2 DEF Holds
    <3> QED BY <1>1, <2>2, <3>1
  <2> QED BY <1>1, <2>1, <2>2
<1>3. Holds(r, x)
  BY <1>1 DEF Holds
<1> QED BY <1>2, <1>3 DEF r

-----------------------------------------------------------------------------
(* The recursions of listObjectTree. *)
Lists == Seq(0..MaxObjects)

LEMMA ListParts ==
  ASSUME NEW f \in [Object -> Lists], NEW n \in Object
  PROVE  f[n] \o <<n>> \in Lists /\ <<>> \in Lists
<1>1. n \in 0..MaxObjects /\ f[n] \in Seq(0..MaxObjects) /\ <<n>> \in Seq(0..MaxObjects)
  BY Bounds DEF Lists
<1> QED BY <1>1, ConcatProperties DEF Lists

ToList(w, y, f) ==
  /\ w \in [0..MaxObjects -> Lists] /\ w[0] = <<>>
  /\ \A n \in Object : w[n] = w[n - 1] \o (IF Under(n, y) THEN f[n] \o <<n>> ELSE <<>>)

LEMMA ChildrenUnfold ==
  ASSUME NEW f \in [Object -> Lists], NEW y
  PROVE  \E w : ToList(w, y, f) /\ Children(y, f) = w[MaxObjects]
<1>1. PICK D, U : D = Lists /\ U = {n \in Object : Under(n, y)}
  OBVIOUS
<1> DEFINE G(n) == IF n \in U THEN f[n] \o <<n>> ELSE <<>>
<1>2. U \subseteq Object /\ MaxObjects \in Nat /\ Object = 1..MaxObjects
  BY <1>1, Bounds
<1>3. \A n : G(n) \in D
  <2>1. <<>> \in D
    BY <1>1 DEF Lists
  <2>2. \A n \in Object : f[n] \o <<n>> \in D
    BY <1>1, ListParts
  <2> QED BY <1>2, <2>1, <2>2
<1>4. PICK F \in [Nat \X D -> D] : \A n \in Nat, d \in D : F[<<n, d>>] = d \o G(n + 1)
  <2> DEFINE g == [e \in Nat \X D |-> e[2] \o G(e[1] + 1)]
  <2>1. \A d, e \in D : d \o e \in D
    BY <1>1, ConcatProperties DEF Lists
  <2> HIDE DEF G
  <2>2. g \in [Nat \X D -> D]
    BY <1>3, <2>1
  <2>3. \A n \in Nat, d \in D : g[<<n, d>>] = d \o G(n + 1)
    OBVIOUS
  <2> HIDE DEF g
  <2> QED BY <2>2, <2>3
<1> HIDE DEF G
<1>5. <<>> \in D
  BY <1>1 DEF Lists
<1>6. PICK h \in [Nat -> D] : h[0] = <<>> /\ \A n \in Nat : h[n + 1] = F[<<n, h[n]>>]
  <2>1. PICK z : z = <<>>
    OBVIOUS
  <2>2. IntoNumbered(z, F, D)
    BY <1>5, <2>1 DEF IntoNumbered
  <2>3. \E h : RepeatsNumbered(h, z, F, D)
    BY <2>2, NumberedRepetition
  <2> QED BY <2>1, <2>3 DEF RepeatsNumbered
<1>7. \A n \in Object : n - 1 \in Nat /\ n - 1 \in 0..MaxObjects /\ h[n] = h[n - 1] \o G(n)
  <2> TAKE n \in Object
  <2>1. n - 1 \in Nat /\ (n - 1) + 1 = n /\ n - 1 \in 0..MaxObjects
    BY <1>2
  <2>2. h[n] = F[<<n - 1, h[n - 1]>>] /\ h[n - 1] \in D
    BY <1>6, <2>1
  <2> QED BY <1>4, <2>1, <2>2
<1>8. \A n \in Object : G(n) = IF Under(n, y) THEN f[n] \o <<n>> ELSE <<>>
  BY <1>1 DEF G
<1> DEFINE P(g) == g = [n \in 0..MaxObjects |->
                          IF n = 0 THEN <<>>
                          ELSE g[n - 1] \o (IF Under(n, y) THEN f[n] \o <<n>> ELSE <<>>)]
           w == [n \in 0..MaxObjects |-> h[n]]
           v == CHOOSE g : P(g)
<1>9. P(w)
  <2>1. ASSUME NEW n \in 0..MaxObjects, n # 0
        PROVE  w[n] = w[n - 1] \o (IF Under(n, y) THEN f[n] \o <<n>> ELSE <<>>)
    <3>1. n \in Object /\ n - 1 \in 0..MaxObjects
      BY <1>2, <2>1
    <3>2. w[n] = h[n] /\ w[n - 1] = h[n - 1]
      BY <3>1
    <3> HIDE DEF w
    <3> QED BY <1>7, <1>8, <3>1, <3>2
  <2>2. 0 \in 0..MaxObjects /\ w[0] = <<>>
    BY <1>2, <1>6
  <2> HIDE DEF w
  <2>3. w = [n \in 0..MaxObjects |-> w[n]]
    BY DEF w
  <2> QED BY <2>1, <2>2, <2>3
<1>10. P(v)
  <2> HIDE DEF P, w
  <2> QED BY <1>9
<1>11. Children(y, f) = v[MaxObjects]
  BY DEF Children
<1> HIDE DEF v, w
<1>15. v = [n \in 0..MaxObjects |->
              IF n = 0 THEN <<>>
              ELSE v[n - 1] \o (IF Under(n, y) THEN f[n] \o <<n>> ELSE <<>>)]
  BY <1>10
<1>12. v[0] = <<>> /\ \A n \in Object : v[n] = v[n - 1] \o (IF Under(n, y) THEN f[n] \o <<n>> ELSE <<>>)
  <2>1. \A n \in Object : n \in 0..MaxObjects /\ n # 0
    BY <1>2
  <2>2. 0 \in 0..MaxObjects
    BY <1>2
  <2> QED BY <1>15, <2>1, <2>2
<1>13. \A n \in 0..MaxObjects : v[n] = h[n]
  <2> DEFINE T == {n \in Nat : n \in 0..MaxObjects => v[n] = h[n]}
  <2>1. 0 \in T
    BY <1>6, <1>12
  <2>2. ASSUME NEW n \in Nat, n \in T PROVE n + 1 \in T
    <3> SUFFICES ASSUME n + 1 \in 0..MaxObjects PROVE v[n + 1] = h[n + 1]
      OBVIOUS
    <3>1. n + 1 \in Object /\ (n + 1) - 1 = n /\ v[n] = h[n]
      BY <1>2, <2>2
    <3>2. v[n + 1] = v[n] \o G(n + 1) /\ h[n + 1] = h[n] \o G(n + 1)
      BY <1>7, <1>8, <1>12, <3>1
    <3> QED BY <3>1, <3>2
  <2>3. Nat \subseteq T
    <3> HIDE DEF T
    <3> QED BY <2>1, <2>2, EveryNumber
  <2> QED BY <1>2, <2>3
<1>14. v \in [0..MaxObjects -> Lists]
  <2>1. v = [n \in 0..MaxObjects |-> v[n]]
    BY <1>15
  <2>2. \A n \in 0..MaxObjects : v[n] \in Lists
    BY <1>1, <1>2, <1>13
  <2> QED BY <2>1, <2>2
<1> QED BY <1>11, <1>12, <1>14 DEF ToList

(* The list of x, level by level. *)
ToTree(w) ==
  /\ w \in [0..MaxObjects -> [Object -> Lists]]
  /\ \A y \in Object : w[0][y] = <<NULL>>
  /\ \A k \in Object : \A y \in Object : w[k][y] = Children(y, w[k - 1])

LEMMA BelowUnfolds == \E w : ToTree(w) /\ \A x \in Object : Below(x) = w[MaxObjects][x]
<1>1. PICK D, O : D = [Object -> Lists] /\ O = Object
  OBVIOUS
<1>2. MaxObjects \in Nat /\ Object = 1..MaxObjects /\ 0 \in 0..MaxObjects
      /\ MaxObjects \in 0..MaxObjects
  BY Bounds
<1>3. ASSUME NEW f \in D, NEW y PROVE Children(y, f) \in Lists
  <2>1. PICK w : ToList(w, y, f) /\ Children(y, f) = w[MaxObjects]
    BY <1>1, <1>3, ChildrenUnfold
  <2> QED BY <1>2, <2>1 DEF ToList
<1>4. PICK F \in [D -> D] : \A f \in D : F[f] = [y \in O |-> Children(y, f)]
  <2> DEFINE g == [f \in D |-> [y \in O |-> Children(y, f)]]
  <2>1. g \in [D -> D] /\ \A f \in D : g[f] = [y \in O |-> Children(y, f)]
    BY <1>1, <1>3
  <2> HIDE DEF g
  <2> QED BY <2>1
<1>5. PICK z : z = [y \in Object |-> <<NULL>>]
  OBVIOUS
<1>6. Into(z, F, D)
  <2>1. <<NULL>> \in Lists
    BY Bounds DEF Lists
  <2> QED BY <1>1, <1>5, <2>1 DEF Into
<1>7. PICK h : Repeats(h, z, F, D)
  BY <1>6, Repetition
<1>8. h \in [Nat -> D] /\ h[0] = z /\ \A n \in Nat : h[n + 1] = F[h[n]]
  BY <1>7 DEF Repeats
<1>9. \A k \in Object : k - 1 \in 0..MaxObjects /\ h[k] = [y \in Object |-> Children(y, h[k - 1])]
  <2> TAKE k \in Object
  <2>1. k - 1 \in Nat /\ (k - 1) + 1 = k /\ k - 1 \in 0..MaxObjects
    BY <1>2
  <2> QED BY <1>1, <1>4, <1>8, <2>1
<1> DEFINE P(g) == g = [k \in 0..MaxObjects |->
                          IF k = 0 THEN [y \in Object |-> <<NULL>>]
                          ELSE [y \in Object |-> Children(y, g[k - 1])]]
           w == [n \in 0..MaxObjects |-> h[n]]
           v == CHOOSE g : P(g)
<1>10. P(w)
  <2>1. ASSUME NEW k \in 0..MaxObjects, k # 0
        PROVE  w[k] = [y \in Object |-> Children(y, w[k - 1])]
    <3>1. k \in Object /\ k - 1 \in 0..MaxObjects
      BY <1>2, <2>1
    <3>2. w[k] = h[k] /\ w[k - 1] = h[k - 1]
      BY <3>1
    <3> HIDE DEF w
    <3> QED BY <1>9, <3>1, <3>2
  <2>2. w[0] = [y \in Object |-> <<NULL>>]
    BY <1>2, <1>5, <1>8
  <2> HIDE DEF w
  <2>3. w = [n \in 0..MaxObjects |-> w[n]]
    BY DEF w
  <2> QED BY <2>1, <2>2, <2>3
<1>11. P(v)
  <2> HIDE DEF P, w
  <2> QED BY <1>10
<1>12. \A x : Below(x) = v[MaxObjects][x]
  BY DEF Below
<1> HIDE DEF v, w
<1>13. v = [k \in 0..MaxObjects |->
              IF k = 0 THEN [y \in Object |-> <<NULL>>]
              ELSE [y \in Object |-> Children(y, v[k - 1])]]
  BY <1>11
<1>14. v[0] = z /\ \A k \in Object : v[k] = [y \in Object |-> Children(y, v[k - 1])]
  <2>1. \A k \in Object : k \in 0..MaxObjects /\ k # 0
    BY <1>2
  <2> QED BY <1>2, <1>5, <1>13, <2>1
<1>15. \A n \in 0..MaxObjects : v[n] = h[n]
  <2> DEFINE T == {n \in Nat : n \in 0..MaxObjects => v[n] = h[n]}
  <2>1. 0 \in T
    BY <1>8, <1>14
  <2>2. ASSUME NEW n \in Nat, n \in T PROVE n + 1 \in T
    <3> SUFFICES ASSUME n + 1 \in 0..MaxObjects PROVE v[n + 1] = h[n + 1]
      OBVIOUS
    <3>1. n + 1 \in Object /\ (n + 1) - 1 = n /\ v[n] = h[n]
      BY <1>2, <2>2
    <3>2. /\ v[n + 1] = [y \in Object |-> Children(y, v[n])]
          /\ h[n + 1] = [y \in Object |-> Children(y, h[n])]
      BY <1>9, <1>14, <3>1, Zenon
    <3> QED BY <3>1, <3>2
  <2>3. Nat \subseteq T
    <3> HIDE DEF T
    <3> QED BY <2>1, <2>2, EveryNumber
  <2> QED BY <1>2, <2>3
<1>16. v \in [0..MaxObjects -> [Object -> Lists]]
  <2>1. v = [n \in 0..MaxObjects |-> v[n]]
    BY <1>13
  <2>2. \A n \in 0..MaxObjects : v[n] \in D
    <3>1. \A n \in Nat : h[n] \in D
      BY <1>8
    <3>2. \A n \in 0..MaxObjects : n \in Nat
      BY <1>2
    <3> QED BY <1>15, <3>1, <3>2, Zenon
  <2> QED BY <1>1, <2>1, <2>2
<1>17. ToTree(v)
  BY <1>5, <1>14, <1>16 DEF ToTree
<1> QED BY <1>12, <1>17

-----------------------------------------------------------------------------
(* Where the list of x is one of rows, everything below an entry comes before it. *)
Tidy(q, R) == q \in Lists /\ (q \in Seq(Rows) => Led(q, R))
Covers(q, y, R) == q \in Seq(Rows) => \A z : <<z, y>> \in R => Holds(q, z)

LEMMA ChildrenLed ==
  ASSUME NEW R, R = {e \in Object \X Object : Under(e[1], e[2])},
         NEW f \in [Object -> Lists], NEW y \in Object,
         \A x \in Object : Tidy(f[x], R) /\ Covers(f[x], x, R)
  PROVE  Tidy(Children(y, f), R) /\ Covers(Children(y, f), y, R)
<1>1. PICK w : ToList(w, y, f) /\ Children(y, f) = w[MaxObjects]
  BY ChildrenUnfold
<1>2. PICK D, W : D = 0..MaxObjects /\ W = Rows
  OBVIOUS
<1>3. /\ MaxObjects \in Nat /\ Object = 1..MaxObjects /\ W \subseteq Object /\ Object \subseteq D
      /\ Lists = Seq(D)
  BY <1>2, Bounds DEF Rows, Lists
<1> DEFINE Upto(n) ==
             w[n] \in Seq(W) => Led(w[n], R) /\ \A z \in 1..n : <<z, y>> \in R => Holds(w[n], z)
           T == {n \in Nat : n \in 0..MaxObjects => Upto(n)}
<1>4. 0 \in T
  <2>1. w[0] = <<>>
    BY <1>1 DEF ToList
  <2>2. Led(<<>>, R)
    BY DEF Led
  <2> QED BY <2>1, <2>2
<1>5. ASSUME NEW m \in Nat, m \in T PROVE m + 1 \in T
  <2> DEFINE n == m + 1
             g == IF Under(n, y) THEN f[n] \o <<n>> ELSE <<>>
  <2> SUFFICES ASSUME n \in 0..MaxObjects, w[n] \in Seq(W)
               PROVE  Led(w[n], R) /\ \A z \in 1..n : <<z, y>> \in R => Holds(w[n], z)
    OBVIOUS
  <2>1. n \in Object /\ n - 1 = m /\ m \in 0..MaxObjects /\ Upto(m)
    BY <1>3, <1>5
  <2>2. w[n] = w[m] \o g /\ w[m] \in Seq(D) /\ f[n] \in Seq(D)
    BY <1>1, <1>3, <2>1 DEF ToList
  <2>3. f[n] \o <<n>> \in Seq(D) /\ <<n>> \in Seq(D) /\ n \in D
    BY <1>3, <2>1, <2>2, ConcatProperties
  <2>4. g \in Seq(D)
    BY <2>3
  <2>5. <<n, y>> \in R <=> Under(n, y)
    BY <2>1
  <2> HIDE DEF n
  <2>6. w[m] \in Seq(W) /\ g \in Seq(W)
    <3> HIDE DEF g
    <3> QED BY <1>3, <2>2, <2>4, Joined
  <2>7. Led(g, R) /\ (Under(n, y) => Holds(g, n))
    <3>1. CASE ~Under(n, y)
      BY <3>1 DEF Led
    <3>2. CASE Under(n, y)
      <4>1. f[n] \o <<n>> \in Seq(W)
        BY <2>6, <3>2
      <4>2. f[n] \in Seq(W)
        BY <1>3, <2>2, <2>3, <4>1, Joined
      <4>3. Led(f[n], R) /\ \A z : <<z, n>> \in R => Holds(f[n], z)
        BY <1>2, <2>1, <4>2 DEF Tidy, Covers
      <4>4. Led(f[n] \o <<n>>, R) /\ Holds(f[n] \o <<n>>, n)
        BY <2>2, <2>3, <4>3, Appended
      <4> QED BY <3>2, <4>4
    <3> QED BY <3>1, <3>2
  <2> HIDE DEF g
  <2>8. Led(w[m], R) /\ \A z \in 1..m : <<z, y>> \in R => Holds(w[m], z)
    BY <2>1, <2>6
  <2>9. Led(w[n], R)
    BY <2>2, <2>4, <2>7, <2>8, Joined
  <2>10. ASSUME NEW z \in 1..n, <<z, y>> \in R PROVE Holds(w[n], z)
    <3>1. Holds(w[m], z) \/ Holds(g, z)
      <4>1. CASE z = n
        BY <2>5, <2>7, <2>10, <4>1
      <4>2. CASE z # n
        <5>1. z \in 1..m
          BY <4>2 DEF n
        <5> QED BY <2>8, <2>10, <5>1
      <4> QED BY <4>1, <4>2
    <3> QED BY <2>2, <2>4, <3>1, Joined
  <2> QED BY <2>9, <2>10
<1>6. Nat \subseteq T
  <2> HIDE DEF T
  <2> QED BY <1>4, <1>5, EveryNumber
<1>7. Upto(MaxObjects) /\ w[MaxObjects] \in Lists
  <2> HIDE DEF Upto
  <2>1. MaxObjects \in 0..MaxObjects /\ (MaxObjects \in 0..MaxObjects => Upto(MaxObjects))
    BY <1>3, <1>6
  <2> QED BY <1>1, <2>1 DEF ToList
<1>8. \A z : <<z, y>> \in R => z \in 1..MaxObjects
  BY <1>3
<1> QED BY <1>1, <1>2, <1>7, <1>8 DEF Tidy, Covers

LEMMA BelowLed ==
  ASSUME NEW R, R = {e \in Object \X Object : Under(e[1], e[2])}, NEW x \in Object
  PROVE  Tidy(Below(x), R) /\ Covers(Below(x), x, R)
<1>1. PICK w : ToTree(w) /\ \A y \in Object : Below(y) = w[MaxObjects][y]
  BY BelowUnfolds
<1>2. MaxObjects \in Nat /\ Object = 1..MaxObjects
  BY Bounds
<1> DEFINE Level(k) == \A y \in Object : Tidy(w[k][y], R) /\ Covers(w[k][y], y, R)
           T == {k \in Nat : k \in 0..MaxObjects => Level(k)}
<1>3. 0 \in T
  <2>1. \A y \in Object : w[0][y] = <<NULL>>
    BY <1>1 DEF ToTree
  <2>2. <<NULL>> \in Lists /\ <<NULL>> \notin Seq(Rows)
    <3>1. NULL \notin Rows /\ NULL \in 0..MaxObjects
      BY Bounds DEF Rows
    <3>2. <<NULL>>[1] = NULL /\ Len(<<NULL>>) = 1
      OBVIOUS
    <3>3. ASSUME <<NULL>> \in Seq(Rows) PROVE FALSE
      <4>1. <<NULL>>[1] \in Rows
        BY <3>2, <3>3, ElementOfSeq
      <4> QED BY <3>1, <3>2, <4>1
    <3> QED BY <3>1, <3>3 DEF Lists
  <2> QED BY <2>1, <2>2 DEF Tidy, Covers
<1>4. ASSUME NEW k \in Nat, k \in T PROVE k + 1 \in T
  <2> SUFFICES ASSUME k + 1 \in 0..MaxObjects PROVE Level(k + 1)
    OBVIOUS
  <2>1. k + 1 \in Object /\ (k + 1) - 1 = k /\ k \in 0..MaxObjects /\ Level(k)
    <3> HIDE DEF Level
    <3> QED BY <1>2, <1>4
  <2>2. PICK f : f = w[k]
    OBVIOUS
  <2>3. f \in [Object -> Lists] /\ \A y \in Object : w[k + 1][y] = Children(y, f)
    BY <1>1, <2>1, <2>2 DEF ToTree
  <2>4. \A y \in Object : Tidy(f[y], R) /\ Covers(f[y], y, R)
    BY <2>1, <2>2
  <2>5. \A y \in Object : Tidy(Children(y, f), R) /\ Covers(Children(y, f), y, R)
    BY <2>3, <2>4, ChildrenLed
  <2> QED BY <2>3, <2>5
<1>5. Nat \subseteq T
  <2> HIDE DEF T
  <2> QED BY <1>3, <1>4, EveryNumber
<1>6. Level(MaxObjects)
  <2>1. MaxObjects \in T /\ MaxObjects \in 0..MaxObjects
    BY <1>2, <1>5
  <2> HIDE DEF Level
  <2> QED BY <2>1
<1> QED BY <1>1, <1>6

(* What a deletion has on its list comes after its children. *)
LeafFirst(q, o) ==
  \A i \in DOMAIN q, y \in Object :
    There(y, o) /\ o[y].parent = q[i] => \E k \in 1..(i - 1) : q[k] = y

LEMMA TreeIsLeafFirst ==
  ASSUME NEW x \in Object, NEW q, q = ObjectTree(x), q \in Seq(Rows)
  PROVE  LeafFirst(q, obj)
<1>1. PICK R, D, p : R = {e \in Object \X Object : Under(e[1], e[2])} /\ D = 0..MaxObjects /\ p = Below(x)
  OBVIOUS
<1>2. Tidy(p, R) /\ Covers(p, x, R)
  BY <1>1, BelowLed
<1>3. q = p \o <<x>> /\ p \in Seq(D) /\ x \in D /\ <<x>> \in Seq(D)
  BY <1>1, <1>2, Bounds DEF ObjectTree, Tidy, Lists
<1>4. p \in Seq(Rows)
  <2>1. PICK W : W = Rows
    OBVIOUS
  <2>2. W \in SUBSET D
    BY <1>1, <2>1, Bounds DEF Rows
  <2> QED BY <1>3, <2>1, <2>2, Joined
<1>5. Led(q, R)
  BY <1>2, <1>3, <1>4, Appended DEF Tidy, Covers
<1>6. ASSUME NEW i \in DOMAIN q, NEW y \in Object, There(y, obj), obj[y].parent = q[i]
      PROVE  <<y, q[i]>> \in R
  <2>1. q[i] \in Object
    <3>1. PICK W : W = Rows
      OBVIOUS
    <3>2. q \in Seq(W) /\ i \in 1..Len(q)
      BY <3>1
    <3>3. q[i] \in W
      BY <3>2, ElementOfSeq
    <3> QED BY <3>1, <3>3 DEF Rows
  <2>2. Under(y, q[i])
    BY <1>6 DEF Under, Rows, There
  <2> QED BY <1>1, <2>1, <2>2
<1> QED BY <1>5, <1>6 DEF Led, LeafFirst

-----------------------------------------------------------------------------
(* With one session, and modules that never postpone, families stay together:   *)
(* every row fits its parent, and a deletion that removes rows has, after what  *)
(* it has done with, a list that still goes leaf-first.                       *)
Family(o) == \A x \in Object : There(x, o) => Fits(o[x], o)
Listed(j, o) ==
  /\ j.cmd = "delete" /\ ~j.now => LeafFirst(j.todo, o)
  /\ j.answer # "postponed"
Kin == Family(obj) /\ \A s \in Session : Listed(job[s], obj)

LEMMA KinStep ==
  ASSUME OneSession, NEW s \in Session, (Family(obj) /\ Listed(job[s], obj))'
  PROVE  Kin'
BY DEF OneSession, Kin

LEMMA AlikeFamily ==
  ASSUME NEW o, NEW p, Alike(o, p)
  PROVE  /\ Family(o) => Family(p)
         /\ \A q : LeafFirst(q, o) => LeafFirst(q, p)
<1>1. \A y \in Object : (There(y, p) <=> There(y, o)) /\ p[y].parent = o[y].parent
  BY AlikeStays DEF Alike
<1>2. ASSUME Family(o) PROVE Family(p)
  <2> SUFFICES ASSUME NEW x \in Object, There(x, p) PROVE Fits(p[x], p)
    BY DEF Family
  <2>1. Fits(o[x], o)
    BY <1>1, <1>2 DEF Family
  <2>2. p[x].class = o[x].class /\ p[x].owner = o[x].owner /\ p[x].parent = o[x].parent
    BY DEF Alike
  <2> QED BY <2>1, <2>2 DEF Fits, Alike
<1>3. ASSUME NEW q, LeafFirst(q, o) PROVE LeafFirst(q, p)
  BY <1>1, <1>3 DEF LeafFirst
<1> QED BY <1>2, <1>3

LEMMA DropFamily ==
  ASSUME NEW o \in [Object -> Row], NEW x \in Object, NEW p, p = [o EXCEPT ![x] = NoRow],
         Family(o), There(x, o) => Childless(x, o)
  PROVE  Family(p)
<1>1. \A y \in Object : p[y] = IF y = x THEN NoRow ELSE o[y]
  OBVIOUS
<1> SUFFICES ASSUME NEW y \in Object, There(y, p) PROVE Fits(p[y], p)
  BY DEF Family
<1>2. y # x /\ There(y, o) /\ p[y] = o[y] /\ Fits(o[y], o)
  BY <1>1, NoRowTypes DEF There, Family
<1>3. CASE Requires[o[y].class] = ""
  BY <1>2, <1>3 DEF Fits
<1>4. CASE Requires[o[y].class] # ""
  <2>1. /\ o[y].parent \in Object /\ o[o[y].parent].class = Requires[o[y].class]
        /\ o[y].owner = o[o[y].parent].owner
    BY <1>2, <1>4, Zenon DEF Fits
  <2>2. There(o[y].parent, o)
    BY <1>4, <2>1 DEF There
  <2>3. o[y].parent # x
    BY <1>2, <2>2 DEF Childless
  <2>4. p[o[y].parent] = o[o[y].parent]
    BY <1>1, <2>1, <2>3
  <2> QED BY <1>2, <2>1, <2>4, <1>4, Zenon DEF Fits
<1> QED BY <1>3, <1>4

LEMMA OwnerFamily ==
  ASSUME NEW o, NEW x \in Object, NEW w, NEW p, GivenTo(o, x, w, p), Family(o),
         There(x, o) => o[x].parent = NULL, Childless(x, o)
  PROVE  Family(p)
<1> SUFFICES ASSUME NEW y \in Object, There(y, p) PROVE Fits(p[y], p)
  BY DEF Family
<1>1. There(y, o) /\ Fits(o[y], o) /\ p[y].class = o[y].class /\ p[y].parent = o[y].parent
  BY DEF GivenTo, Family
<1>2. CASE Requires[o[y].class] = ""
  BY <1>1, <1>2 DEF Fits
<1>3. CASE Requires[o[y].class] # ""
  <2>1. /\ o[y].parent \in Object /\ o[o[y].parent].class = Requires[o[y].class]
        /\ o[y].owner = o[o[y].parent].owner
    BY <1>1, <1>3, Zenon DEF Fits
  <2>2. o[y].parent # x /\ y # x
    <3>1. o[y].parent # x
      BY <1>1 DEF Childless
    <3>2. o[y].parent # NULL
      BY <2>1, Bounds
    <3> QED BY <1>1, <3>1, <3>2
  <2>3. p[y].owner = o[y].owner /\ p[o[y].parent].owner = o[o[y].parent].owner
        /\ p[o[y].parent].class = o[o[y].parent].class
    BY <2>1, <2>2 DEF GivenTo
  <2> QED BY <1>1, <1>3, <2>1, <2>3, Zenon DEF Fits
<1> QED BY <1>2, <1>3

LEMMA InsertFamily ==
  ASSUME NEW o, NEW x \in Object, ~There(x, o), NEW r, Fits(r, o), Family(o), NEW p,
         \A y \in Object : p[y] = IF y = x THEN r ELSE o[y]
  PROVE  Family(p)
<1>1. ASSUME NEW q, Fits(q, o) PROVE Fits(q, p)
  <2>1. CASE Requires[q.class] = ""
    BY <1>1, <2>1 DEF Fits
  <2>2. CASE Requires[q.class] # ""
    <3>1. q.parent \in Object /\ o[q.parent].class = Requires[q.class] /\ q.owner = o[q.parent].owner
      BY <1>1, <2>2, Zenon DEF Fits
    <3>2. q.parent # x
      BY <2>2, <3>1 DEF There
    <3>3. p[q.parent] = o[q.parent]
      BY <3>1, <3>2
    <3> QED BY <2>2, <3>1, <3>3, Zenon DEF Fits
  <2> QED BY <2>1, <2>2
<1>2. \A y \in Object : There(y, p) => y = x \/ There(y, o)
  BY DEF There
<1> QED BY <1>1, <1>2 DEF Family

-----------------------------------------------------------------------------
LEMMA ListedIdle == \A o : Listed(Idle, o)
<1>1. Idle.cmd = "" /\ Idle.answer = "ok"
  BY DEF Idle
<1> QED BY <1>1 DEF Listed

LEMMA ListedOn ==
  ASSUME NEW j, NEW o, Listed(j, o), NEW k, k.cmd = j.cmd, k.now = j.now, k.todo = j.todo,
         k.answer # "postponed"
  PROVE  Listed(k, o)
BY DEF Listed

(* The head of the list is gone: the rest goes leaf-first. *)
LEMMA ListedNext ==
  ASSUME TypeOK, NEW s \in Session, Does(s, "check") \/ job[s].cmd = "delete", NEW o,
         \/ job[s].now
         \/ /\ LeafFirst(job[s].todo, obj) /\ ~There(job[s].x, o)
            /\ \A y \in Object : There(y, o) => There(y, obj) /\ o[y].parent = obj[y].parent
  PROVE  Listed(NextOfList(s), o)
<1> DEFINE j == job[s]
           q == j.todo
<1>1. j \in Job /\ q \in Seq(Object) /\ q # <<>> /\ Head(q) = j.x
  BY JobTypes DEF TypeOK, JobOK, Does
<1>2. CASE Len(q) = 1
  BY <1>2, ListedIdle DEF NextOfList
<1>3. CASE Len(q) # 1
  <2> DEFINE k == [j EXCEPT !.do = "check", !.todo = Tail(q), !.x = Head(Tail(q)),
                            !.row = NoRow, !.answer = "ok", !.first = FALSE]
  <2>1. NextOfList(s) = k
    BY <1>3, Zenon DEF NextOfList
  <2>2. k.cmd = j.cmd /\ k.now = j.now /\ k.todo = Tail(q) /\ k.answer = "ok"
    BY <1>1 DEF Job
  <2> HIDE DEF k
  <2>3. CASE j.now
    BY <2>1, <2>2, <2>3 DEF Listed
  <2>4. CASE /\ LeafFirst(q, obj) /\ ~There(j.x, o)
             /\ \A y \in Object : There(y, o) => There(y, obj) /\ o[y].parent = obj[y].parent
    <3>1. \A i \in DOMAIN Tail(q) : i \in Nat /\ Tail(q)[i] = q[i + 1] /\ i + 1 \in DOMAIN q
          /\ \A m \in 1..(i - 1) : Tail(q)[m] = q[m + 1]
      <4>1. \A i \in DOMAIN Tail(q) : Tail(q)[i] = q[i + 1] /\ i + 1 \in DOMAIN q
        BY <1>1, <1>3, Tails
      <4>2. Tail(q) \in Seq(Object)
        BY <1>1
      <4>3. DOMAIN Tail(q) = 1..Len(Tail(q)) /\ Len(Tail(q)) \in Nat
        BY <4>2
      <4> QED BY <4>1, <4>3
    <3>2. q[1] = j.x
      BY <1>1
    <3>3. ASSUME NEW i \in DOMAIN Tail(q), NEW y \in Object, There(y, o), o[y].parent = Tail(q)[i]
          PROVE  \E m \in 1..(i - 1) : Tail(q)[m] = y
      <4>1. There(y, obj) /\ obj[y].parent = q[i + 1] /\ i + 1 \in DOMAIN q /\ y # j.x
        BY <2>4, <3>1, <3>3
      <4>2. PICK m \in 1..((i + 1) - 1) : q[m] = y
        BY <2>4, <4>1 DEF LeafFirst
      <4>3. m # 1
        BY <3>2, <4>1, <4>2
      <4>4. m - 1 \in 1..(i - 1) /\ (m - 1) + 1 = m
        BY <3>1, <4>2, <4>3
      <4>5. Tail(q)[m - 1] = q[(m - 1) + 1]
        BY <3>1, <4>4
      <4> QED BY <4>2, <4>4, <4>5
    <3>4. LeafFirst(Tail(q), o)
      BY <3>3 DEF LeafFirst
    <3> QED BY <2>1, <2>2, <3>4 DEF Listed
  <2> QED BY <2>3, <2>4
<1> QED BY <1>2, <1>3

(* The rows are but for their contents what they were. *)
LEMMA KinRests ==
  ASSUME OneSession, TypeOK, Kin, NEW s \in Session, Alike(obj, obj'), NEW k, Become(s, k),
         Listed(k, obj)
  PROVE  Kin'
<1>1. Family(obj')
  BY AlikeFamily DEF Kin
<1>2. Listed(k, obj')
  BY AlikeFamily DEF Listed
<1> QED BY <1>1, <1>2, Becomes, KinStep

LEMMA KinCreate ==
  ASSUME OneSession, TypeOK, Kin, NEW s \in Session, NEW c, NEW p, NEW n, NEW v, NEW new, NEW now,
         Create(s, c, p, n, v, new, now)
  PROVE  Kin'
<1> DEFINE k == [Idle EXCEPT !.do = "insert", !.cmd = "create", !.new = new, !.now = now,
                             !.row = NewRow(user[s], c, p, n, v)]
<1>1. Become(s, k) /\ obj' = obj
  BY DEF Create, storeVars
<1>2. k.cmd = "create" /\ k.answer = "ok"
  BY DEF Idle
<1> HIDE DEF k
<1> QED BY <1>1, <1>2, NoChange, KinRests DEF Listed

LEMMA KinChown ==
  ASSUME OneSession, TypeOK, Kin, NEW s \in Session, NEW x, NEW new, Chown(s, x, new)
  PROVE  Kin'
<1> DEFINE k == [Idle EXCEPT !.do = "chown", !.cmd = "chown", !.x = x, !.new = new]
<1>1. Become(s, k) /\ obj' = obj
  BY DEF Chown, storeVars
<1>2. k.cmd = "chown" /\ k.answer = "ok"
  BY DEF Idle
<1> HIDE DEF k
<1> QED BY <1>1, <1>2, NoChange, KinRests DEF Listed

LEMMA KinUpdate ==
  ASSUME OneSession, TypeOK, Kin, NEW s \in Session, NEW x, NEW v, NEW now, Update(s, x, v, now)
  PROVE  Kin'
<1> DEFINE k == [Idle EXCEPT !.do = "replace", !.cmd = "update", !.x = x, !.now = now,
                             !.row = [obj[x] EXCEPT !.content = v]]
<1>1. Become(s, k) /\ obj' = obj
  BY DEF Update, storeVars
<1>2. k.cmd = "update" /\ k.answer = "ok"
  BY DEF Idle
<1> HIDE DEF k
<1> QED BY <1>1, <1>2, NoChange, KinRests DEF Listed

LEMMA KinDelete ==
  ASSUME OneSession, TypeOK, Kin, NEW s \in Session, NEW x \in Object, NEW now, Delete(s, x, now)
  PROVE  Kin'
<1> DEFINE q == ObjectTree(x)
           k == [Idle EXCEPT !.do = "check", !.cmd = "delete", !.x = Head(q), !.todo = q,
                             !.first = TRUE, !.now = now]
<1>1. Become(s, k) /\ obj' = obj /\ q \in Seq(Rows)
  BY DEF Delete, storeVars
<1>2. LeafFirst(q, obj)
  BY <1>1, TreeIsLeafFirst
<1> HIDE DEF q
<1>3. k.answer = "ok" /\ k.todo = q
  BY DEF Idle
<1> HIDE DEF k
<1> QED BY <1>1, <1>2, <1>3, NoChange, KinRests DEF Listed

LEMMA KinInsert ==
  ASSUME OneSession, TypeOK, Steady, Solo, Kin, NEW s \in Session, Insert(s)
  PROVE  Kin'
<1> DEFINE j == job[s]
           r == j.row
           x == last + 1
<1>1. /\ Settled(s) /\ Commands(j) /\ j \in Job /\ obj \in [Object -> Row]
      /\ j.do = "insert" /\ last \in Nat /\ \A y \in Object : There(y, obj) => y <= last
  BY SoloParts, StoreIds, ThereAreRows DEF Insert, Does, TypeOK, StoreTypeOK
<1>2. Fits(r, obj) /\ Family(obj) /\ Listed(j, obj)
  BY <1>1 DEF Settled, Reads, Kin
<1>3. CASE ~CanInsert(r)
  <2>1. Become(s, Idle) /\ obj' = obj
    BY <1>3 DEF Insert, Done, storeVars
  <2> QED BY <2>1, NoChange, ListedIdle, KinRests
<1>4. CASE CanInsert(r)
  <2>1. PICK k : Become(s, k) /\ (k = Idle \/ (k.cmd = "create" /\ k.answer # "postponed"))
    <3>1. \A d : [j EXCEPT !.do = d, !.x = x, !.row = NoRow].cmd = "create"
                 /\ [j EXCEPT !.do = d, !.x = x, !.row = NoRow].answer = j.answer
      BY <1>1 DEF Job, Commands
    <3>2. \/ Become(s, Idle)
          \/ \E d : Become(s, [j EXCEPT !.do = d, !.x = x, !.row = NoRow])
      BY <1>4 DEF Insert, Done
    <3>3. j.answer # "postponed"
      BY <1>2 DEF Listed
    <3> QED BY <3>1, <3>2, <3>3
  <2>2. InsertRow(r, LocalId(user[s]))
    BY <1>4 DEF Insert
  <2>3. x \in Object
    BY <1>1, <2>2, Bounds DEF InsertRow
  <2>4. \A y \in Object : obj'[y] = IF y = x THEN r ELSE obj[y]
    BY <1>1, <2>2, <2>3 DEF InsertRow
  <2>5. ~There(x, obj)
    BY <1>1, <2>3
  <2> HIDE DEF x, r, j
  <2>6. Family(obj')
    BY <1>2, <2>3, <2>4, <2>5, InsertFamily
  <2>7. Listed(k, obj')
    BY <2>1, ListedIdle DEF Listed
  <2> QED BY <2>1, <2>6, <2>7, Becomes, KinStep
<1> QED BY <1>3, <1>4

LEMMA KinGive ==
  ASSUME OneSession, TypeOK, Steady, Solo, Kin, NEW s \in Session, Give(s)
  PROVE  Kin'
<1> DEFINE j == job[s]
           x == j.x
<1>1. /\ Settled(s) /\ Commands(j) /\ j \in Job /\ JobOK(j, last) /\ obj \in [Object -> Row]
      /\ j.do = "give"
  BY SoloParts, StoreIds DEF Give, Does
<1>2. /\ x \in Object /\ j.cmd = "create" /\ (There(x, obj) => Childless(x, obj))
      /\ Family(obj) /\ Listed(j, obj)
  BY <1>1 DEF Settled, Reads, Doomed, JobOK, Commands, Kin
<1>3. CASE ~MayChown(user[s], x, j.new)
  <2>1. Become(s, Idle) /\ obj' = [obj EXCEPT ![x] = NoRow]
    BY <1>3 DEF Give, Done, DropRow
  <2>2. Family(obj')
    BY <1>1, <1>2, <2>1, DropFamily
  <2>3. Listed(Idle, obj')
    BY ListedIdle
  <2> QED BY <2>1, <2>2, <2>3, Becomes, KinStep
<1>4. CASE MayChown(user[s], x, j.new)
  <2>1. PICK k : Become(s, k) /\ (k = Idle \/ (k.cmd = "create" /\ k.answer # "postponed"))
    <3>1. /\ [j EXCEPT !.do = "fetch", !.new = NULL].cmd = "create"
          /\ [j EXCEPT !.do = "fetch", !.new = NULL].answer # "postponed"
      BY <1>1, <1>2 DEF Job, Listed
    <3>2. Become(s, Idle) \/ Become(s, [j EXCEPT !.do = "fetch", !.new = NULL])
      BY <1>4 DEF Give, Done
    <3> QED BY <3>1, <3>2
  <2>2. obj' = [obj EXCEPT ![x].owner = j.new] /\ There(x, obj) /\ obj[x].parent = NULL
    BY <1>2, <1>4, ThereAreRows DEF Give, SetOwner, MayChown, MayChange
  <2> HIDE DEF x, j
  <2>3. GivenTo(obj, x, j.new, obj')
    BY <1>1, <1>2, <2>2, OwnerFields
  <2>4. Family(obj')
    BY <1>2, <2>2, <2>3, OwnerFamily
  <2>5. Listed(k, obj')
    BY <2>1, ListedIdle DEF Listed
  <2> QED BY <2>1, <2>4, <2>5, Becomes, KinStep
<1> QED BY <1>3, <1>4

LEMMA KinChownWrite ==
  ASSUME OneSession, TypeOK, Steady, Solo, Kin, NEW s \in Session, ChownWrite(s)
  PROVE  Kin'
<1> DEFINE j == job[s]
           x == j.x
<1>1. /\ Settled(s) /\ j \in Job /\ JobOK(j, last) /\ obj \in [Object -> Row]
      /\ j.do = "chown" /\ Become(s, Idle)
  BY SoloParts, StoreIds DEF ChownWrite, Does, Done
<1>2. /\ x \in Object /\ Family(obj) /\ Childless(x, obj)
      /\ There(x, obj) => obj[x].parent = NULL
  BY <1>1 DEF Settled, Reads, JobOK, Kin
<1>3. Family(obj')
  <2>1. CASE obj' = obj
    BY <1>2, <2>1
  <2>2. CASE obj' = [obj EXCEPT ![x].owner = j.new]
    <3> HIDE DEF j, x
    <3>1. GivenTo(obj, x, j.new, obj')
      BY <1>1, <1>2, <2>2, OwnerFields
    <3> QED BY <1>2, <3>1, OwnerFamily
  <2> QED BY <2>1, <2>2 DEF ChownWrite, SetOwner
<1>4. Listed(Idle, obj')
  BY ListedIdle
<1> QED BY <1>1, <1>3, <1>4, Becomes, KinStep

LEMMA KinCheck ==
  ASSUME OneSession, TypeOK, Steady, Kin, NEW s \in Session, Check(s)
  PROVE  Kin'
<1> DEFINE j == job[s]
           x == j.x
<1>1. /\ j \in Job /\ j.do = "check" /\ obj' = obj /\ Listed(j, obj)
  BY JobTypes DEF Check, Does, storeVars, Kin, TypeOK
<1>2. CASE Become(s, Idle)
  BY <1>1, <1>2, NoChange, ListedIdle, KinRests
<1>3. CASE j.now /\ Become(s, NextOfList(s))
  <2>1. Listed(NextOfList(s), obj)
    BY <1>1, <1>3, ListedNext DEF Does
  <2> QED BY <1>1, <1>3, <2>1, NoChange, KinRests
<1>4. CASE Become(s, [j EXCEPT !.do = "report", !.answer = "failed"])
  <2> DEFINE k == [j EXCEPT !.do = "report", !.answer = "failed"]
  <2>1. Become(s, k) /\ k.cmd = j.cmd /\ k.now = j.now /\ k.todo = j.todo /\ k.answer = "failed"
    BY <1>1, <1>4 DEF Job
  <2> HIDE DEF k, j
  <2> QED BY <1>1, <2>1, ListedOn, NoChange, KinRests
<1>5. CASE Become(s, [j EXCEPT !.do = "replace", !.row = [obj[x] EXCEPT !.content = 0]])
  <2> DEFINE r == [obj[x] EXCEPT !.content = 0]
             k == [j EXCEPT !.do = "replace", !.row = r]
  <2> HIDE DEF r
  <2>1. k.cmd = j.cmd /\ k.now = j.now /\ k.todo = j.todo /\ k.answer = j.answer
    BY <1>1 DEF Job
  <2>2. Become(s, k)
    BY <1>5 DEF r
  <2>3. k.answer # "postponed"
    BY <1>1, <2>1 DEF Listed
  <2> HIDE DEF k, j
  <2> QED BY <1>1, <2>1, <2>2, <2>3, ListedOn, NoChange, KinRests
<1> QED BY <1>2, <1>3, <1>4, <1>5 DEF Check, Done

LEMMA KinReplace ==
  ASSUME OneSession, TypeOK, NamesUnique, Steady, Solo, Kin, NEW s \in Session, Replace(s)
  PROVE  Kin'
<1> DEFINE j == job[s]
           x == j.x
           r == j.row
<1>1. /\ Settled(s) /\ j \in Job /\ JobOK(j, last) /\ obj \in [Object -> Row]
      /\ j.do = "replace" /\ obj' = Replaced(x, r) /\ Listed(j, obj)
  BY SoloParts, StoreIds DEF Replace, Does, ReplaceRow, Kin
<1>2. x \in Object /\ There(x, obj) /\ r = [obj[x] EXCEPT !.content = r.content]
  BY <1>1 DEF Settled, Reads, JobOK
<1>3. Alike(obj, obj')
  <2>1. obj' = [obj EXCEPT ![x].content = r.content]
    BY <1>1, <1>2, RewriteReplaces
  <2>2. Alike(obj, [obj EXCEPT ![x].content = r.content])
    BY <1>1, <1>2, ContentAlike
  <2> HIDE DEF r, x
  <2> QED BY <2>1, <2>2
<1>4. CASE Become(s, Idle)
  BY <1>3, <1>4, ListedIdle, KinRests
<1>5. CASE j.now /\ j.cmd = "delete" /\ Become(s, NextOfList(s))
  <2>1. Listed(NextOfList(s), obj)
    BY <1>1, <1>5, ListedNext
  <2> QED BY <1>3, <1>5, <2>1, KinRests
<1>6. CASE Become(s, [j EXCEPT !.do = "fetch", !.row = NoRow])
  <2> DEFINE k == [j EXCEPT !.do = "fetch", !.row = NoRow]
  <2>1. Become(s, k) /\ k.cmd = j.cmd /\ k.now = j.now /\ k.todo = j.todo /\ k.answer = j.answer
    BY <1>1, <1>6 DEF Job
  <2>2. k.answer # "postponed"
    BY <1>1, <2>1 DEF Listed
  <2> HIDE DEF k, j, x, r
  <2> QED BY <1>1, <1>3, <2>1, <2>2, ListedOn, KinRests
<1> QED BY <1>4, <1>5, <1>6 DEF Replace, Done

LEMMA KinFetch ==
  ASSUME OneSession, TypeOK, Kin, NEW s \in Session, Fetch(s)
  PROVE  Kin'
<1> DEFINE j == job[s]
<1>1. j \in Job /\ obj' = obj /\ Listed(j, obj)
  BY JobTypes DEF Fetch, storeVars, Kin, TypeOK
<1>2. CASE Become(s, Idle)
  BY <1>1, <1>2, NoChange, ListedIdle, KinRests
<1>3. ASSUME NEW c, Become(s, [j EXCEPT !.do = "call", !.sent = c]) PROVE Kin'
  <2> DEFINE k == [j EXCEPT !.do = "call", !.sent = c]
  <2>1. Become(s, k) /\ k.cmd = j.cmd /\ k.now = j.now /\ k.todo = j.todo /\ k.answer = j.answer
    BY <1>1, <1>3 DEF Job
  <2>2. k.answer # "postponed"
    BY <1>1, <2>1 DEF Listed
  <2> HIDE DEF k, j
  <2> QED BY <1>1, <2>1, <2>2, ListedOn, NoChange, KinRests
<1>4. CASE Become(s, [j EXCEPT !.do = "report", !.answer = "failed"])
  <2> DEFINE k == [j EXCEPT !.do = "report", !.answer = "failed"]
  <2>1. Become(s, k) /\ k.cmd = j.cmd /\ k.now = j.now /\ k.todo = j.todo /\ k.answer = "failed"
    BY <1>1, <1>4 DEF Job
  <2> HIDE DEF k, j
  <2> QED BY <1>1, <2>1, ListedOn, NoChange, KinRests
<1> QED BY <1>2, <1>3, <1>4 DEF Fetch, Done

LEMMA KinCall ==
  ASSUME OneSession, "postponed" \notin Answer, TypeOK, Kin, NEW s \in Session,
         NEW a \in Answer, Call(s, a)
  PROVE  Kin'
<1> DEFINE j == job[s]
           k == [j EXCEPT !.do = "report", !.sent = 0, !.answer = a]
<1>1. j \in Job /\ obj' = obj /\ Listed(j, obj) /\ Become(s, k)
  BY JobTypes DEF Call, storeVars, Kin, TypeOK
<1>2. k.cmd = j.cmd /\ k.now = j.now /\ k.todo = j.todo /\ k.answer = a /\ a # "postponed"
  BY <1>1 DEF Job
<1> HIDE DEF k, j
<1> QED BY <1>1, <1>2, ListedOn, NoChange, KinRests

LEMMA KinReport ==
  ASSUME OneSession, TypeOK, Steady, Solo, Kin, NEW s \in Session, Report(s)
  PROVE  Kin'
<1> DEFINE j == job[s]
           x == j.x
           q == j.todo
<1>1. /\ Settled(s) /\ Commands(j) /\ j \in Job /\ JobOK(j, last) /\ obj \in [Object -> Row]
      /\ j.do = "report" /\ Listed(j, obj) /\ Family(obj) /\ q \in Seq(Object)
  BY SoloParts, StoreIds, JobTypes DEF Report, Does, Kin
<1>2. /\ x \in Object /\ j.cmd \in {"create", "update", "delete"} /\ j.answer \in {"ok", "failed"}
      /\ j.cmd = "delete" => q # <<>> /\ Head(q) = x
  BY <1>1 DEF JobOK, Commands, Job, Listed
<1>3. /\ ~j.now
      /\ There(x, obj) => (obj[x].content = 0 <=> j.cmd = "delete")
      /\ There(x, obj) /\ j.cmd = "create" => Childless(x, obj)
  BY <1>1, <1>2 DEF Settled, Reads, Doomed
<1>4. j.cmd = "delete" => LeafFirst(q, obj) /\ Childless(x, obj)
  <2> SUFFICES ASSUME j.cmd = "delete" PROVE LeafFirst(q, obj) /\ Childless(x, obj)
    OBVIOUS
  <2>1. LeafFirst(q, obj)
    BY <1>1, <1>3 DEF Listed
  <2>2. 1 \in DOMAIN q /\ q[1] = x
    BY <1>1, <1>2
  <2> HIDE DEF q, x, j
  <2>3. \A y \in Object : There(y, obj) => obj[y].parent # x
    BY <2>1, <2>2 DEF LeafFirst
  <2> QED BY <2>1, <2>3 DEF Childless
<1>5. \/ obj' = obj /\ j.cmd # "delete"
      \/ obj' = [obj EXCEPT ![x] = NoRow] /\ (There(x, obj) => j.cmd # "update")
      \/ obj' = obj /\ j.cmd = "delete" /\ ~There(x, obj)
  <2>1. \/ DropRow(x) /\ j.cmd \in {"create", "delete"}
        \/ PurgeRow(x)
        \/ UNCHANGED storeVars /\ j.cmd # "delete"
    BY <1>2 DEF Report, DropFailed
  <2>2. CASE DropRow(x) /\ j.cmd \in {"create", "delete"}
    BY <2>2 DEF DropRow
  <2>3. CASE PurgeRow(x)
    BY <1>3, <2>3 DEF PurgeRow, DropRow, storeVars
  <2> QED BY <2>1, <2>2, <2>3 DEF storeVars
<1>6. /\ Family(obj')
      /\ j.cmd = "delete" =>
           /\ ~There(x, obj')
           /\ \A y \in Object : There(y, obj') => There(y, obj) /\ obj'[y].parent = obj[y].parent
  <2>1. CASE obj' = obj /\ (j.cmd # "delete" \/ ~There(x, obj))
    BY <1>1, <2>1
  <2>2. CASE obj' = [obj EXCEPT ![x] = NoRow] /\ (There(x, obj) => j.cmd # "update")
    <3>1. There(x, obj) => Childless(x, obj)
      BY <1>2, <1>3, <1>4, <2>2
    <3> HIDE DEF j, q
    <3>2. Family(obj')
      BY <1>1, <1>2, <2>2, <3>1, DropFamily
    <3>3. \A y \in Object : obj'[y] = IF y = x THEN NoRow ELSE obj[y]
      BY <1>1, <2>2
    <3>4. ~There(x, obj') /\ \A y \in Object : There(y, obj') => There(y, obj) /\ obj'[y].parent = obj[y].parent
      BY <1>2, <3>3, NoRowTypes DEF There
    <3> QED BY <3>2, <3>4
  <2> QED BY <1>5, <2>1, <2>2
<1>7. CASE Become(s, Idle)
  <2>1. Listed(Idle, obj')
    BY ListedIdle
  <2> QED BY <1>6, <1>7, <2>1, Becomes, KinStep
<1>8. CASE j.cmd = "delete" /\ Become(s, NextOfList(s))
  <2>1. Listed(NextOfList(s), obj')
    BY <1>4, <1>6, <1>8, ListedNext
  <2> QED BY <1>6, <1>8, <2>1, Becomes, KinStep
<1> QED BY <1>7, <1>8 DEF Report, Done

LEMMA KinCrash == ASSUME TypeOK, Kin, Crash PROVE Kin'
<1>1. obj' = obj /\ \A s \in Session : job'[s] = Idle
  BY DEF Crash, storeVars
<1>2. Listed(Idle, obj)
  BY ListedIdle
<1> QED BY <1>1, <1>2 DEF Kin

LEMMA KinElse == ASSUME Kin, UNCHANGED <<obj, job>> PROVE Kin'
BY DEF Kin

LEMMA KinInit == Init => Kin
<1> SUFFICES ASSUME Init PROVE Kin
  OBVIOUS
<1>1. \A s \in Session : job[s] = Idle
  BY DEF Init
<1>2. \A x \in Object : There(x, obj) => obj[x].class = User /\ obj[x].parent = NULL
  <2>1. obj = [x \in Object |->
                 IF x = 1 THEN [NoRow EXCEPT !.class = User, !.name = Admin, !.content = 1] ELSE NoRow]
    BY DEF Init, StoreInit
  <2>2. /\ NoRow.class = "" /\ [NoRow EXCEPT !.class = User, !.name = Admin, !.content = 1].class = User
        /\ [NoRow EXCEPT !.class = User, !.name = Admin, !.content = 1].parent = NULL
    BY DEF NoRow
  <2> QED BY <2>1, <2>2 DEF There
<1>3. Requires[User] = ""
  BY ObjectStoreAssumption, Zenon DEF ObjectStoreAssumption
<1>4. Family(obj)
  BY <1>2, <1>3 DEF Family, Fits
<1> QED BY <1>1, <1>4, ListedIdle DEF Kin

LEMMA KinNext ==
  ASSUME OneSession, "postponed" \notin Answer, TypeOK, NamesUnique, Steady, Solo, Kin, [Next]_vars
  PROVE  Kin'
<1>1. CASE UNCHANGED vars
  BY <1>1, KinElse DEF vars, storeVars, requestVars
<1>2. CASE Crash
  BY <1>2, KinCrash
<1>3. ASSUME NEW s \in Session, Request(s)
      PROVE  Kin'
  <2>1. CASE (\E u \in Object : Login(s, u)) \/ Logout(s)
    BY <2>1, KinElse DEF Login, Logout, storeVars
  <2>2. ASSUME NEW u, NEW c, NEW q, SetQuota(s, u, c, q)
        PROVE  Kin'
    BY <2>2, KinElse DEF SetQuota, SetLimit, requestVars
  <2>3. CASE \E c \in Class : \E n \in MetaidOf(c), p \in 0..last, v \in 1..MaxContent,
               new \in {NULL} \cup IF "chown" \in Command THEN Users ELSE {}, now \in Immediate :
               Create(s, c, p, n, v, new, now)
    BY <2>3, KinCreate
  <2>4. CASE \E x \in Object, new \in Users : Chown(s, x, new)
    BY <2>4, KinChown
  <2>5. CASE \E x \in Object, v \in 1..MaxContent, now \in Immediate : Update(s, x, v, now)
    BY <2>5, KinUpdate
  <2>6. CASE \E x \in Object, now \in Immediate : Delete(s, x, now)
    BY <2>6, KinDelete
  <2> QED BY <1>3, <2>1, <2>2, <2>3, <2>4, <2>5, <2>6 DEF Request
<1>4. ASSUME NEW s \in Session, Proceed(s)
      PROVE  Kin'
  BY <1>4, KinInsert, KinGive, KinChownWrite, KinCheck, KinReplace, KinFetch,
     KinCall, KinReport DEF Proceed
<1> QED BY <1>1, <1>2, <1>3, <1>4 DEF Next

LEMMA KinAlways == ASSUME OneSession, "postponed" \notin Answer PROVE Spec => []Kin
<1>1. Init => Kin
  BY KinInit
<1>2. TypeOK /\ NamesUnique /\ Steady /\ Solo /\ Kin /\ [Next]_vars => Kin'
  BY KinNext
<1>3. Spec => []Solo
  BY SoloAlways
<1>4. Spec => []Steady
  BY SteadyInit, SteadyNext, ObjectsTypeCorrect, PTL DEF Spec
<1> QED BY <1>1, <1>2, <1>3, <1>4, ObjectsTypeCorrect, NamesAreUnique, PTL DEF Spec

(* With one session and modules that postpone nothing: a child has a parent, of  *)
(* the class it requires, wherever a deletion breaks off                      *)
(* (DBManager::listObjectTree, CoreSession::deleteObject).                    *)
THEOREM ChildrenHaveParents ==
  ASSUME OneSession, "postponed" \notin Answer PROVE Spec => []ParentsExist
<1>1. TypeOK /\ Kin => ParentsExist
  <2> SUFFICES ASSUME TypeOK, Kin, NEW x \in Rows
               PROVE  LET p == obj[x].parent
                      IN  IF Requires[obj[x].class] = "" THEN p = NULL
                          ELSE p \in Rows /\ obj[p].class = Requires[obj[x].class]
    BY DEF ParentsExist
  <2>1. x \in Object /\ There(x, obj) /\ Fits(obj[x], obj)
    BY ThereAreRows DEF Rows, Kin, Family
  <2>2. CASE Requires[obj[x].class] = ""
    BY <2>1, <2>2 DEF Fits
  <2>3. CASE Requires[obj[x].class] # ""
    <3>1. obj[x].parent \in Object /\ obj[obj[x].parent].class = Requires[obj[x].class]
      BY <2>1, <2>3, Zenon DEF Fits
    <3>2. obj[x].parent \in Rows
      BY <2>3, <3>1 DEF Rows
    <3> QED BY <2>3, <3>1, <3>2
  <2> QED BY <2>2, <2>3
<1> QED BY <1>1, ObjectsTypeCorrect, KinAlways, PTL

(* As above: a child also has the owner of its parent, whatever is given away    *)
(* (DBManager::createObject, chown).                                         *)
THEOREM ChildrenFollowParents ==
  ASSUME OneSession, "postponed" \notin Answer PROVE Spec => []OwnersFollowParents
<1>1. TypeOK /\ Kin => OwnersFollowParents
  <2> SUFFICES ASSUME TypeOK, Kin, NEW x \in Rows, obj[x].parent # NULL
               PROVE  obj[x].owner = Owner(obj[x].parent)
    BY DEF OwnersFollowParents
  <2>1. x \in Object /\ There(x, obj) /\ Fits(obj[x], obj)
    BY ThereAreRows DEF Rows, Kin, Family
  <2>2. Requires[obj[x].class] # ""
    BY <2>1 DEF Fits
  <2>3. /\ obj[x].parent \in Object /\ obj[obj[x].parent].class = Requires[obj[x].class]
        /\ obj[x].owner = obj[obj[x].parent].owner
    BY <2>1, <2>2, Zenon DEF Fits
  <2>4. obj[x].parent \in Rows
    BY <2>2, <2>3 DEF Rows
  <2> QED BY <2>3, <2>4 DEF Owner
<1> QED BY <1>1, ObjectsTypeCorrect, KinAlways, PTL
=============================================================================
