------------------------------- MODULE MCRecords -------------------------------
(* Instances of Records: classes of two fields, with every kind of index. *)
EXTENDS Records

MCFields == <<"f", "g">>

Text0 == [type |-> "string", enabled |-> TRUE, crypt |-> "", required |-> FALSE,
          default |-> "", strict |-> FALSE]
Password == [Text0 EXCEPT !.type = "password", !.crypt = "extern"]

(* A first field that is most often crypted, and a second of any kind. *)
First ==
  {Text0, Password,
   [Password EXCEPT !.crypt = "md5", !.required = TRUE],
   [Password EXCEPT !.strict = TRUE],
   [Password EXCEPT !.enabled = FALSE],
   [Password EXCEPT !.crypt = "other"]}
Second ==
  First \cup
  {[Text0 EXCEPT !.crypt = "md5"],
   [Text0 EXCEPT !.type = "password"],
   [Text0 EXCEPT !.required = TRUE],
   [Text0 EXCEPT !.required = TRUE, !.default = "word", !.strict = TRUE],
   [Text0 EXCEPT !.enabled = FALSE, !.default = "word", !.required = TRUE],
   [Text0 EXCEPT !.type = "integer", !.required = TRUE, !.default = "1"],
   [Text0 EXCEPT !.type = "bool"],
   [Text0 EXCEPT !.type = "enum"],
   [Text0 EXCEPT !.type = "enum", !.required = TRUE, !.default = "1"],
   [Text0 EXCEPT !.type = "enum", !.required = TRUE, !.default = "true"]}

Pairs(k, A, B) ==
  {[manual |-> k = "manual", child |-> k = "child", field |-> [f |-> a, g |-> b]] :
     a \in A, b \in B}

(* Which object has which metaid matters for passwords only. *)
MCDefinition ==
  Pairs("manual", First, Second) \cup Pairs("child", {Text0, Password}, First)
    \cup Pairs("root", {Password}, {Password})

(* No action reads sent. *)
Seen == <<class, row, given, skipped>>
=============================================================================
