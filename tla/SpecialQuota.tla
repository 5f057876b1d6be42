------------------------------- MODULE SpecialQuota -------------------------------
(***************************************************************************)
(* Quotas of something that is no object, one tag of them (disk space): the    *)
(* table specialquota of DBManager, and QuotaClass::updateObject that sets it  *)
(* (internalclass.cpp) and tells the module of the tag what is left to whom.   *)
(* One session at a time sets quotas: the climb over the owners reads the      *)
(* table statement by statement, without a transaction.                      *)
(***************************************************************************)
EXTENDS Naturals, Sequences, SequencesExt, FiniteSetsExt

CONSTANTS
  User, NoUser,           \* the users, and what is not one
  Owner,                  \* the owner of a user; NoUser for the first
  Amount                  \* the quotas and warning levels set

VARIABLES
  order,                  \* the users with a row, in the order of the ids
  quota, warning,         \* the columns; 0 where there is no row
  physical                \* what the module was last told to let a user have

vars == <<order, quota, warning, physical>>

(* The owners above a user, and whom powermirror gives power over him. *)
Above(u) ==
  LET above[k \in 0..Cardinality(User), v \in User] ==
        IF k = 0 \/ Owner[v] = NoUser THEN {} ELSE {Owner[v]} \cup above[k - 1, Owner[v]]
  IN  above[Cardinality(User), u]
HasPower(u, a) == a = u \/ a \in Above(u)
IsAdmin(a) == Owner[a] = NoUser
HasRow(u) == u \in Range(order)

(* setSpecialQuota: what a has assigned below but for u.  The query groups by   *)
(* id, and the code takes the first row of the answer.                        *)
Assigned(a, u) == SelectSeq(order, LAMBDA v : v # u /\ a \in Above(v))
SubAssigned(a, u) == IF Assigned(a, u) = <<>> THEN 0 ELSE quota[Head(Assigned(a, u))]

(* Each owner on the way up who has a quota must have enough left. *)
Fits(u, q) == \A a \in Above(u) : HasRow(a) => SubAssigned(a, u) + q <= quota[a]

(* The physical quotas that go with it. *)
Phys(u, q) ==
  [v \in {u} \cup {a \in Above(u) : HasRow(a)} |->
     IF v = u THEN q ELSE quota[v] - SubAssigned(v, u) - q]

(* REPLACE: the row goes to the end, with a new id. *)
setSpecialQuota(s, u, q, w) ==
  /\ HasPower(u, s)
  /\ w <= q
  /\ Fits(u, q)
  /\ order' = Append(SelectSeq(order, LAMBDA v : v # u), u)
  /\ quota' = [quota EXCEPT ![u] = q]
  /\ warning' = [warning EXCEPT ![u] = w]

-----------------------------------------------------------------------------
Init ==
  /\ order = <<>>
  /\ quota = [u \in User |-> 0] /\ warning = [u \in User |-> 0]
  /\ physical = [u \in User |-> 0]

(* Only an admin may change his own quota. *)
MaySet(s, u) == IsAdmin(s) \/ u # s

(* updateObject of a quota: the warning level stays.  When the module refuses   *)
(* the client is told so, but the row is there.                              *)
SetQuota(s, u, q, told) ==
  /\ MaySet(s, u)
  /\ setSpecialQuota(s, u, q, warning[u])
  /\ LET phys == Phys(u, q)
     IN  physical' = IF told THEN [v \in User |-> IF v \in DOMAIN phys THEN phys[v] ELSE physical[v]]
                     ELSE physical

(* updateObject of a ":warning": the quota stays, the module is not told. *)
SetWarning(s, u, w) ==
  /\ MaySet(s, u)
  /\ setSpecialQuota(s, u, quota[u], w)
  /\ UNCHANGED physical

Next ==
  \E s, u \in User :
    \/ \E q \in Amount, told \in BOOLEAN : SetQuota(s, u, q, told)
    \/ \E w \in Amount : SetWarning(s, u, w)

Spec == Init /\ [][Next]_vars

-----------------------------------------------------------------------------
(* "assigned quota too large for allowance" (dbmanager.cpp): what is assigned   *)
(* to the users of an owner when one of them is given more is no larger than    *)
(* the owner's own quota.                                                    *)
Below(a) == {v \in Range(order') : Owner[v] = a}
AllowanceKept ==
  [][\A u \in User :
       quota'[u] > quota[u] =>
         \A a \in Above(u) :
           HasRow(a) =>
             MapThenSumSet(LAMBDA v : quota'[v], Below(a)) <= quota[a]]_vars
=============================================================================
