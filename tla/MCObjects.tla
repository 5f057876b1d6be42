------------------------------- MODULE MCObjects -------------------------------
(* Instances of ObjectRequests: users, domains, and mail under a domain. *)
EXTENDS ObjectRequests, TLC

MCRequires == [c \in Class |-> IF c = "Mail" THEN "Domain" ELSE ""]

(* Metaids matter for users only, or for domains too. *)
UserScope == [c \in Class |-> IF c = User THEN "class" ELSE "none"]
ClassScope == [c \in Class |-> IF c = "Mail" THEN "parent" ELSE "class"]

NoQuota == [c \in Class |-> {}]
DomainQuota == [NoQuota EXCEPT !["Domain"] = {1}]

Symmetry == Permutations(Session) \cup Permutations(Name \ {Admin})

(* What counts of a drifted object is only whether its row is marked deleted;  *)
(* of one that is behind, whether its module has it.  moved is not looked at.  *)
Plain(x, content) == IF x \in drift /\ content # 0 THEN 1 ELSE content
SeenRow(x) == [obj[x] EXCEPT !.content = Plain(x, @)]
SeenJob(j) == [j EXCEPT !.row.content = Plain(j.x, @), !.sent = Plain(j.x, @)]
SeenConf(x) ==
  IF x \in drift THEN "drift" ELSE IF x \in behind THEN <<conf[x] # 0>> ELSE <<conf[x]>>
Seen == <<[x \in Object |-> <<SeenRow(x), SeenConf(x)>>], last, power, limit, user,
          [s \in Session |-> SeenJob(job[s])]>>
=============================================================================
