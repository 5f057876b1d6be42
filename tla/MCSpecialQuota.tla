----------------------------- MODULE MCSpecialQuota -----------------------------
(* An instance of SpecialQuota: an admin, his reseller, and the customers. *)
EXTENDS SpecialQuota

MCOwner ==
  [u \in User |-> CASE u = "admin" -> NoUser [] u = "reseller" -> "admin" [] OTHER -> "reseller"]
=============================================================================
