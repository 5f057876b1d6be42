----------------------------- MODULE MCModuleCalls -----------------------------
(* A domain module that asks for mail, a mail module that asks for nobody, and  *)
(* a user module without wantsrpc, which encrypts passwords.                 *)
EXTENDS ModuleCalls, TLC

CONSTANTS domain, mail, user, u1, u2, f1, f2, b1

MCCommands ==
  domain :> {"create", "listobjects"} @@ mail :> {"create"} @@ user :> {"crypt"}
  @@ None :> {"create"}

MCMayAsk == [m \in Module |-> IF m = domain THEN {mail} ELSE {}]

MCClients == f1 :> {u1} @@ f2 :> {} @@ b1 :> {u1, u2}
=============================================================================
