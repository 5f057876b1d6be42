------------------------------- MODULE SessionDB -------------------------------
(***************************************************************************)
(* The data structure of SessionDB (session.cpp): CoreSession objects on a   *)
(* doubly linked list (first, last, prev, next) that are also the nodes of   *)
(* an unbalanced binary tree (lower, higher) keyed by a hash of the session  *)
(* id.  Each action is one critical section of the lock lck.                 *)
(*                                                                         *)
(* A session id is a fresh uuid, named here by its serial number; its hash   *)
(* statstring::key() may be any member of Key, so different sessions may     *)
(* share one.                                                                *)
(***************************************************************************)
EXTENDS Integers

CONSTANTS
  MaxSessions,            \* bound on the sessions ever made
  Key                     \* the values of statstring::key()

ASSUME SessionDBAssumption == MaxSessions \in Nat /\ Key \subseteq Nat

VARIABLES
  created,                \* serial number of the newest session
  live,                   \* the CoreSession objects between new and delete
  key,                    \* id.key() of a live session
  first, last,            \* ends of the list
  prev, next,             \* list links
  lower, higher           \* tree links

vars == <<created, live, key, first, last, prev, next, lower, higher>>

Session == 1..MaxSessions
NULL == 0

-----------------------------------------------------------------------------
(* The trees the code walks are values of their own, since remove() and      *)
(* demand() change one and then walk it again.                               *)
tree == [root |-> first, lower |-> lower, higher |-> higher]

(* One step down: equal keys go to the higher side.  (ChildStrict is a        *)
(* variant that sends them to the other.)                                    *)
ChildStrict(t, k, n, hash) == IF k[n] < hash THEN t.higher[n] ELSE t.lower[n]
Child(t, k, n, hash) == IF k[n] <= hash THEN t.higher[n] ELSE t.lower[n]

(* The node the walk for session s with this hash is at after n steps.  A    *)
(* walk stops at s, or at NULL when it falls off the tree.                   *)
Walk(t, k, s, hash) ==
  LET at[n \in 0..MaxSessions] ==
        IF n = 0 THEN t.root
        ELSE LET here == at[n - 1]
             IN  IF here \in {NULL, s} THEN here ELSE Child(t, k, here, hash)
  IN  at

Find(t, k, s, hash) == Walk(t, k, s, hash)[MaxSessions]

(* The node with a free link on the walk's side, where link() hangs s. *)
Leaf(t, k, s, hash) ==
  LET at == Walk(t, k, s, hash)
  IN  at[CHOOSE n \in 0..MaxSessions :
            /\ at[n] # NULL
            /\ n = MaxSessions \/ at[n + 1] = NULL]

(* SessionDB::link *)
Link(t, k, s) ==
  LET leaf == Leaf(t, k, s, k[s])
  IN  IF k[leaf] <= k[s] THEN [t EXCEPT !.higher[leaf] = s]
                         ELSE [t EXCEPT !.lower[leaf] = s]

(* The loop at the end of remove(): every session on the list from t.root    *)
(* loses its tree links, then enters the tree again under those before it.   *)
Relink(t, k, nxt) ==
  LET after[n \in 0..MaxSessions] ==
        IF n = 0 THEN [at |-> t.root, tree |-> t]
        ELSE LET crsr == after[n - 1].at
                 bare == [after[n - 1].tree EXCEPT !.lower[crsr] = NULL,
                                                   !.higher[crsr] = NULL]
             IN  IF crsr = NULL THEN after[n - 1]
                 ELSE [at   |-> nxt[crsr],
                       tree |-> IF crsr = t.root THEN bare ELSE Link(bare, k, crsr)]
  IN  after[MaxSessions].tree

-----------------------------------------------------------------------------
Init ==
  /\ created = 0 /\ live = {}
  /\ key = [s \in Session |-> 0]
  /\ first = NULL /\ last = NULL
  /\ prev = [s \in Session |-> NULL] /\ next = [s \in Session |-> NULL]
  /\ lower = [s \in Session |-> NULL] /\ higher = [s \in Session |-> NULL]

(* create() and createFromSerialized(): demand() makes a session, with hash  *)
(* h, whose id the tree does not hold.  The constructor clears its links;    *)
(* demand() makes it the first, or hangs it behind the last and in the tree. *)
Create(h) ==
  LET s == created + 1
      k == [key EXCEPT ![s] = h]
      bare == [tree EXCEPT !.lower[s] = NULL, !.higher[s] = NULL]
      t == IF last = NULL THEN [bare EXCEPT !.root = s] ELSE Link(bare, k, s)
  IN  /\ created < MaxSessions
      /\ Find(tree, key, s, h) = NULL
      /\ created' = s
      /\ live' = live \cup {s}
      /\ key' = k
      /\ prev' = [prev EXCEPT ![s] = last]
      /\ next' = IF last = NULL THEN [next EXCEPT ![s] = NULL]
                                ELSE [next EXCEPT ![s] = NULL, ![last] = s]
      /\ last' = s
      /\ first' = IF last = NULL THEN s ELSE first
      /\ lower' = t.lower /\ higher' = t.higher

(* What remove() assigns to the list: s's neighbours are joined, and an end  *)
(* of the list moves when s was there.  (The ...Kept forms are variants with  *)
(* one assignment forgotten.)                                                *)
FirstKept(s) == first
FirstWithout(s) == IF prev[s] = NULL THEN next[s] ELSE first

LastKept(s) == last
LastWithout(s) == IF next[s] = NULL THEN prev[s] ELSE last

NextWithout(s) ==
  [t \in Session |-> IF t = s THEN NULL ELSE IF t = prev[s] THEN next[s] ELSE next[t]]

PrevKept(s) == [prev EXCEPT ![s] = NULL]
PrevWithout(s) ==
  [t \in Session |-> IF t = s THEN NULL ELSE IF t = next[s] THEN prev[s] ELSE prev[t]]

(* remove(s): walk to s, take it off the list, rebuild the tree, delete s.   *)
(* The fields of a deleted object read as NULL from here on.                 *)
Remove(s) ==
  /\ s \in live
  /\ Find(tree, key, s, key[s]) = s
  /\ first' = FirstWithout(s)
  /\ last' = LastWithout(s)
  /\ next' = NextWithout(s)
  /\ prev' = PrevWithout(s)
  /\ LET t == Relink([tree EXCEPT !.root = first'], key, next')
     IN  /\ lower' = [t.lower EXCEPT ![s] = NULL]
         /\ higher' = [t.higher EXCEPT ![s] = NULL]
  /\ key' = [key EXCEPT ![s] = 0]
  /\ live' = live \ {s}
  /\ UNCHANGED created

Next ==
  \/ \E h \in Key : Create(h)
  \/ \E s \in Session : Remove(s)

Spec == Init /\ [][Next]_vars

-----------------------------------------------------------------------------
(* Every variable has its type, and every link of the list and the tree leads *)
(* from a live session to a live session or nowhere: no operation leaves a    *)
(* pointer to a session that remove() deleted.                               *)
ListTypeOK ==
  /\ created \in 0..MaxSessions
  /\ live \subseteq 1..created
  /\ first \in live \cup {NULL} /\ last \in live \cup {NULL}
  /\ prev \in [Session -> live \cup {NULL}]
  /\ next \in [Session -> live \cup {NULL}]
  /\ \A s \in Session \ live : prev[s] = NULL /\ next[s] = NULL

TreeTypeOK ==
  /\ key \in [Session -> Key \cup {0}]
  /\ lower \in [Session -> live \cup {NULL}]
  /\ higher \in [Session -> live \cup {NULL}]

TypeOK == ListTypeOK /\ TreeTypeOK

(* a and b are next to one another among the live sessions. *)
Adjacent(a, b) == a < b /\ \A c \in live : c <= a \/ c >= b

(* Session s lies between the ends of the list and is linked to its            *)
(* neighbours, both ways.                                                    *)
InPlace(s) ==
  /\ first <= s /\ s <= last
  /\ IF s = last THEN next[s] = NULL
                 ELSE next[s] \in live /\ Adjacent(s, next[s])
  /\ IF s = first THEN prev[s] = NULL
                  ELSE prev[s] \in live /\ Adjacent(prev[s], s)

(* The list is exactly the live sessions, in the order they were made, and   *)
(* can be walked from either end: what list(), saveToDisk() and expire() walk *)
(* over.  Removals in the middle, at an end and of the last one keep it so.   *)
ListIsLive ==
  /\ first = NULL <=> live = {}
  /\ last = NULL <=> live = {}
  /\ live # {} => first \in live /\ last \in live
  /\ \A s \in live : InPlace(s)

(* A lookup finds every live session and no other, however the hashes of     *)
(* their ids collide.  Were it to miss one, that client would be logged out  *)
(* and remove() would leave the object in the registry for ever.             *)
FindIsMembership ==
  /\ \A s \in live : Find(tree, key, s, key[s]) = s
  /\ \A s \in Session \ live, h \in Key : Find(tree, key, s, h) = NULL

-----------------------------------------------------------------------------
(* What a client of the registry sees: the sessions a walk of the list from  *)
(* first meets.  SessionDB implements SessionRegistry under this mapping.     *)
Listed ==
  LET at[n \in 0..MaxSessions] ==
        IF n = 0 THEN first ELSE IF at[n - 1] = NULL THEN NULL ELSE next[at[n - 1]]
  IN  {at[n] : n \in 0..MaxSessions} \ {NULL}

Registry == INSTANCE SessionRegistry WITH live <- Listed, created <- created

(* Every step of the structure registers one session, unregisters one, or    *)
(* leaves the registry as it is.                                             *)
ImplementsRegistry == Registry!RegistrySpec
=============================================================================
