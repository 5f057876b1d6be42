---------------------------- MODULE SessionRegistry ----------------------------
(***************************************************************************)
(* What SessionDB promises the rest of opencore: a registry of live         *)
(* sessions that is walked in the order the sessions were made.             *)
(*                                                                         *)
(* A session stands for one CoreSession object.  Its uuid is fresh          *)
(* (strutil::uuid), so a session is named by its serial number, and the     *)
(* order of creation is the order of the numbers.                           *)
(***************************************************************************)
EXTENDS Integers

CONSTANT MaxSessions      \* bound on the sessions ever made

ASSUME MaxSessionsAssumption == MaxSessions \in Nat

VARIABLES
  live,                   \* the sessions the registry holds
  created                 \* how many sessions were ever made

registryVars == <<live, created>>

Session == 1..MaxSessions

NULL == 0                 \* the null pointer

(* The earliest of a set of sessions, NULL if there is none. *)
Earliest(S) ==
  IF \E s \in S : \A t \in S : s <= t
  THEN CHOOSE s \in S : \A t \in S : s <= t
  ELSE NULL

(* SessionDB::first and CoreSession::next, as a walk of the list sees them. *)
First == Earliest(live)
After(s) == Earliest({t \in live : t > s})

RegistryTypeOK ==
  /\ created \in 0..MaxSessions
  /\ live \subseteq 1..created

-----------------------------------------------------------------------------
RegistryInit == live = {} /\ created = 0

(* A new session enters at the end of the walk. *)
Register ==
  /\ created < MaxSessions
  /\ created' = created + 1
  /\ live' = live \cup {created + 1}

(* Session s leaves; the walk order of the others is unchanged. *)
Unregister(s) ==
  /\ s \in live
  /\ live' = live \ {s}
  /\ UNCHANGED created

RegistryNext == Register \/ \E s \in Session : Unregister(s)

RegistrySpec == RegistryInit /\ [][RegistryNext]_registryVars
=============================================================================
