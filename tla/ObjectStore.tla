------------------------------ MODULE ObjectStore ------------------------------
(***************************************************************************)
(* The object database of opencore as DBManager sees it (dbmanager.cpp):     *)
(* the tables objects, powermirror and classquota, what DBManager reads out   *)
(* of them, and the statements that change them.  Every statement is atomic   *)
(* (dosqlite holds dbhandle); the requests of ObjectRequests.tla are          *)
(* sequences of them.                                                        *)
(*                                                                         *)
(* An object stands for a row id.  AUTOINCREMENT never hands out an id again, *)
(* and a uuid belongs to one id, so the two name the same thing.  Rows of     *)
(* classes are left out: a class is named by itself.                         *)
(***************************************************************************)
EXTENDS Integers, FiniteSets, Sequences

CONSTANTS
  MaxObjects,             \* bound on the rows ever inserted
  Class, User,            \* the classes, and the one whose objects own others
  Requires,               \* the class a parent must have; "" for none
  Scope,                  \* where metaids are unique: "parent", "class", "none"
  Name, Admin,            \* metaids, and the one of the first user
  MaxContent,             \* bound on the different contents of an object
  Quota,                  \* the values a quota of a class is set to
  MaxLimits               \* bound on the rows of classquota

ASSUME ObjectStoreAssumption ==
  /\ MaxObjects \in Nat \ {0} /\ MaxContent \in Nat \ {0}
  /\ User \in Class /\ "" \notin Class
  /\ Requires \in [Class -> Class \cup {""}] /\ Requires[User] = ""
  /\ Scope \in [Class -> {"parent", "class", "none"}]
  /\ Admin \in Name
  /\ Quota \in [Class -> SUBSET Nat] /\ MaxLimits \in Nat

VARIABLES
  obj,                    \* the table objects
  last,                   \* the last id handed out
  power,                  \* the table powermirror: pairs <<userid, powerid>>
  limit                   \* the table classquota; -1 where it has no row

storeVars == <<obj, last, power, limit>>

NULL == 0                 \* no object: the id that no row has

Object == 1..MaxObjects

(* Content 0 is the empty string: the row of an object marked deleted. *)
Row == [class : Class \cup {""}, parent : 0..MaxObjects, owner : 0..MaxObjects,
        name : Name \cup {""}, content : 0..MaxContent]

NoRow == [class |-> "", parent |-> NULL, owner |-> NULL, name |-> "", content |-> 0]

Rows == {x \in Object : obj[x].class # ""}

-----------------------------------------------------------------------------
(* What DBManager reads.  Owner is SELECT owner, 0 where there is no row;     *)
(* LocalId is findlocalid, 0 likewise.          *)
Owner(x) == IF x \in Rows THEN obj[x].owner ELSE NULL
LocalId(u) == IF u \in Rows THEN u ELSE NULL

(* haspower: u is x, or owns x, or has power over the owner of x. *)
HasPower(x, u) ==
  \/ x = u
  \/ x \in Rows /\ (obj[x].owner = u \/ <<obj[x].owner, u>> \in power)

(* fetchObject for a module reads x and then its parents, as far up as the     *)
(* classes require one and there is one: all of them must have a row, of the  *)
(* class required.                                                           *)
ParentOK(x, set) ==
  LET p == obj[x].parent
      need == Requires[obj[x].class]
  IN  need = "" \/ p = NULL \/ (p \in set /\ obj[p].class = need)
Fetchable(x) ==
  LET upto[n \in 0..MaxObjects] ==        \* those that n rows suffice for
        IF n = 0 THEN {} ELSE {y \in Rows : ParentOK(y, upto[n - 1])}
  IN  x \in Rows /\ x \in upto[MaxObjects]

(* The powers that powermirror gives over what u owns. *)
Mirror(u) == {p \in 0..MaxObjects : <<u, p>> \in power}

(* getUserQuota climbs from a user to his owner and on until there is none.   *)
(* No chain without a cycle is longer than MaxObjects.                       *)
Climb(u) ==
  LET climb[k \in 0..MaxObjects] == IF k = 0 THEN u ELSE Owner(climb[k - 1])
  IN  climb
ChainEnds(u) == Climb(u)[MaxObjects] = NULL
Above(u) == LET climb == Climb(u) IN {climb[k] : k \in 0..MaxObjects} \ {NULL}

(* The smallest quota on the chain; -1 if there is none. *)
Limit(u, c) ==
  LET set == {limit[a][c] : a \in Above(u)} \ {-1}
  IN  IF set = {} THEN -1 ELSE CHOOSE q \in set : \A r \in set : q <= r

Usage(u, c) == Cardinality({x \in Rows : obj[x].class = c /\ <<obj[x].owner, u>> \in power})

(* (OverQuotaAfter is a variant that lets in one too many.) *)
OverQuotaAfter(u, c) == Limit(u, c) # -1 /\ Usage(u, c) > Limit(u, c)
OverQuota(u, c) == Limit(u, c) # -1 /\ Usage(u, c) >= Limit(u, c)

(* listObjectTree of x: what has x as parent or as owner, in the order of the  *)
(* ids, each after what is below it, and x itself at the end.  What can be     *)
(* reached in two ways is in it twice.  Below a cycle there is no end, and the  *)
(* code never returns: here the list is no sequence of rows then.             *)
(* (RootFirst is a variant in the wrong order.)                              *)
Under(y, x) == y \in Rows /\ (obj[y].parent = x \/ obj[y].owner = x)
Children(y, of) ==        \* of says what is below each of them
  LET upto[n \in 0..MaxObjects] ==        \* ids up to n
        IF n = 0 THEN <<>>
        ELSE upto[n - 1] \o (IF Under(n, y) THEN of[n] \o <<n>> ELSE <<>>)
  IN  upto[MaxObjects]
Below(x) ==
  LET below[k \in 0..MaxObjects] ==
        IF k = 0 THEN [y \in Object |-> <<NULL>>]
        ELSE [y \in Object |-> Children(y, below[k - 1])]
  IN  below[MaxObjects][x]
RootFirst(x) == <<x>> \o Below(x)
ObjectTree(x) == Below(x) \o <<x>>

-----------------------------------------------------------------------------
(* What createObject lets user u make: a c under p, which may be the uuid of  *)
(* an object that is no more.  The owner of p becomes the owner; it reads as  *)
(* 0 where p has no row.                                                     *)
MayCreate(u, c, p) ==
  /\ u \in Rows
  /\ IF Requires[c] = "" THEN p \notin Rows
     ELSE p \in Rows /\ obj[p].class = Requires[c]
  /\ p \in Rows => HasPower(p, LocalId(u))
  /\ ChainEnds(u) /\ ~OverQuota(u, c)
OwnerOfNew(u, p) == IF p = NULL THEN u ELSE Owner(p)
NewRow(u, c, p, n, v) ==
  [class |-> c, parent |-> LocalId(p), owner |-> OwnerOfNew(u, p), name |-> n, content |-> v]

(* What findObject and updateObject let user u change. *)
MayChange(u, x) == x \in Rows /\ HasPower(x, LocalId(u))

(* chown: of an object without parent and children, to any object one has     *)
(* power over.  (MayChownChild is a variant that asks for no missing parent.) *)
MayChownChild(u, x, new) == MayChange(u, x) /\ MayChange(u, new)
MayChown(u, x, new) ==
  /\ MayChange(u, x) /\ MayChange(u, new)
  /\ obj[x].parent = NULL /\ \A y \in Rows : obj[y].parent # x

(* UNIQUE (metaid, uniquecontext). *)
Clash(r, q) ==
  /\ r.class # "" /\ q.class # "" /\ r.name = q.name
  /\ \/ Scope[r.class] = "class" /\ r.class = q.class
     \/ Scope[r.class] = "parent" /\ Scope[q.class] = "parent" /\ r.parent = q.parent

-----------------------------------------------------------------------------
(* The statements.  INSERT fails on a clash; the transaction of createObject  *)
(* also fills in the powers over what a new user x, made by user u, will own.  *)
(* (PowersOfMaker forgets who has power over the maker, PowersAbove the maker  *)
(* himself.)                                                                 *)
PowersAbove(x, u) == {<<x, x>>} \cup {<<x, p>> : p \in Mirror(u) \ {u}}
PowersOfMaker(x, u) == {<<x, u>>, <<x, x>>}
Powers(x, u) == {<<x, u>>, <<x, x>>} \cup {<<x, p>> : p \in Mirror(u)}

(* (InsertRowReusing is a variant that hands out the last id again if its row  *)
(* is gone, as SQLite does without AUTOINCREMENT.)                           *)
CanInsert(r) == \A y \in Rows : ~Clash(obj[y], r)
InsertRowReusing(r, u) ==
  /\ last < MaxObjects
  /\ last' = IF last \in Rows THEN last + 1 ELSE last
  /\ obj' = [obj EXCEPT ![last'] = r]
  /\ power' = IF r.class = User THEN power \cup Powers(last', u) ELSE power
  /\ UNCHANGED limit
InsertRow(r, u) ==
  /\ last < MaxObjects
  /\ last' = last + 1
  /\ obj' = [obj EXCEPT ![last + 1] = r]
  /\ power' = IF r.class = User THEN power \cup Powers(last + 1, u) ELSE power
  /\ UNCHANGED limit

(* REPLACE with the id of x: the row is written whether it is there or not,   *)
(* and rows that clash with it are deleted.                                  *)
Replaced(x, r) ==
  [y \in Object |-> IF y = x THEN r ELSE IF Clash(obj[y], r) THEN NoRow ELSE obj[y]]
ReplaceRow(x, r) == obj' = Replaced(x, r) /\ UNCHANGED <<last, power, limit>>

DropRow(x) == obj' = [obj EXCEPT ![x] = NoRow] /\ UNCHANGED <<last, power, limit>>

(* reportSuccess: DELETE WHERE content=''. *)
PurgeRow(x) ==
  IF obj[x].content = 0 THEN DropRow(x) ELSE UNCHANGED storeVars

SetOwner(x, new) ==
  /\ obj' = IF x \in Rows THEN [obj EXCEPT ![x].owner = new] ELSE obj
  /\ UNCHANGED <<last, power, limit>>

SetLimit(u, c, q) ==
  /\ Cardinality({w \in Object \X Class : limit[w[1]][w[2]] # -1} \cup {<<u, c>>}) <= MaxLimits
  /\ limit' = [limit EXCEPT ![u][c] = q]
  /\ UNCHANGED <<obj, last, power>>

(* A new database, once ModuleDB::init has made the first user in god mode:   *)
(* he has no owner, and has power over what nobody owns.                     *)
StoreInit ==
  /\ obj = [x \in Object |->
              IF x = 1 THEN [NoRow EXCEPT !.class = User, !.name = Admin, !.content = 1]
              ELSE NoRow]
  /\ last = 1
  /\ power = {<<1, 0>>, <<1, 1>>, <<0, 1>>}
  /\ limit = [u \in Object |-> [c \in Class |-> -1]]

(* A row speaks of ids up to n. *)
Within(r, n) == r.owner <= n /\ r.parent <= n

StoreTypeOK ==
  /\ obj \in [Object -> Row] /\ last \in Object
  /\ \A x \in Object : Within(obj[x], last) /\ (x \in Rows => x <= last)
  /\ power \subseteq (0..last) \X (0..last)
  /\ limit \in [Object -> [Class -> Nat \cup {-1}]]
=============================================================================
