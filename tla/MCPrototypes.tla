------------------------------ MODULE MCPrototypes ------------------------------
(* An instance of Prototypes: a domain with two hosts in it, and below the first  *)
(* an alias that is unique in its class.                                      *)
EXTENDS Prototypes, TLC

Original(c, p, for) ==
  [class |-> c, parent |-> p, metaid |-> [stem |-> c, for |-> for],
   of |-> None, top |-> 1]
MCPrototype ==
  <<Original("Domain", None, "$prototype$"), Original("Host", 1, ""),
    Original("Alias", 2, "$prototype$"), Original("Host", 1, "$prototype$")>>

MCScope == [c \in Class |-> IF c = "Host" THEN "parent" ELSE "class"]

(* An idle session is like any other. *)
Seen ==
  <<row, [s \in Session |-> IF Copying(s) THEN job[s] ELSE Idle], edits, {s \in raced : Copying(s)}>>

Symmetry == Permutations(Session)
=============================================================================
