-------------------------------- MODULE Prototypes --------------------------------
(***************************************************************************)
(* An object of a class with a prototype is made as a copy of the tree below   *)
(* the object with the metaid "$prototype$": the end of                       *)
(* DBManager::createObject and copyprototype (dbmanager.cpp), which goes down  *)
(* the tree by recursion, an INSERT for every object, without a transaction.   *)
(* Other sessions make and delete objects meanwhile, and the admin, who has     *)
(* power over what no user owns, changes the prototype.                       *)
(*                                                                         *)
(* The contents of the objects are left out.                                 *)
(***************************************************************************)
EXTENDS Naturals, Sequences, FiniteSets

CONSTANTS
  Session,
  MaxRows,                \* bound on the rows ever inserted
  Class, Root,            \* the classes, and the one with a prototype
  Scope,                  \* where a metaid is unique: "parent", "class", "none"
  Prototype,              \* the rows of the prototype, parents first
  Name,                   \* the metaids that clients choose
  MaxEdits                \* bound on the objects made and deleted otherwise

(* A metaid of a prototype has the word $prototype$ in it, or not.  It is the   *)
(* stem, and the metaid that valueparse puts in for the word.                 *)
Metaid == [stem : STRING, for : Name \cup {"", "$prototype$"}]

VARIABLES
  row,                    \* the rows, in the order of their ids
  job,                    \* the request of a session: its calls of copyprototype
  edits,                  \* counts the changes that are no copies, for their bound
  (* History, read by the property only: *)
  raced                   \* the sessions whose copy, or its original, was changed

vars == <<row, job, edits, raced>>

None == 0
(* of is what the row was copied from, and top the root it was inserted below:  *)
(* history, read by the property and for raced.                              *)
NoRow == [class |-> "", parent |-> None, metaid |-> [stem |-> "", for |-> ""],
          of |-> None, top |-> None]
Rows == {x \in 1..Len(row) : row[x] # NoRow}

ASSUME PrototypesAssumption ==
  /\ MaxRows \in Nat /\ MaxEdits \in Nat /\ "" \notin Class /\ Root \in Class
  /\ Scope \in [Class -> {"parent", "class", "none"}]
  /\ Len(Prototype) \in 1..MaxRows
  /\ Prototype[1].class = Root /\ Prototype[1].parent = None

Idle == [do |-> "idle", todo |-> <<>>, name |-> "", copy |-> NoRow, root |-> None, ok |-> TRUE]

Children(x) == {y \in Rows : row[y].parent = x}
Tree(r) == {y \in Rows : row[y].top = r /\ r # None}
TopOf(parent) == IF parent = None THEN Len(row) + 1 ELSE row[parent].top
(* UNIQUE (metaid, uniquecontext). *)
Clash(r, q) ==
  /\ r.metaid = q.metaid
  /\ \/ Scope[r.class] = "class" /\ r.class = q.class
     \/ Scope[r.class] = "parent" /\ Scope[q.class] = "parent" /\ r.parent = q.parent
CanInsert(r) == \A x \in Rows : ~Clash(row[x], r)

-----------------------------------------------------------------------------
Init ==
  /\ row = Prototype
  /\ job = [s \in Session |-> Idle]
  /\ edits = 0
  /\ raced = {}

Become(s, j) == job' = [job EXCEPT ![s] = j]
Does(s, step) == job[s].do = step

(* createObject finds the prototype and calls copyprototype. *)
createObject(s, name) ==
  /\ Does(s, "idle")
  /\ 1 \in Rows
  /\ Become(s, [Idle EXCEPT !.do = "read", !.name = name, !.todo = <<[from |-> 1, parent |-> None]>>])
  /\ raced' = raced \ {s}
  /\ UNCHANGED <<row, edits>>

(* An error in one call ends them all, and what was inserted stays. *)
Fail(s) == Become(s, [job[s] EXCEPT !.do = "idle", !.todo = <<>>, !.copy = NoRow, !.ok = FALSE])

(* The first SELECT: "Object disappeared". *)
Read(s) ==
  LET x == Head(job[s].todo).from
  IN  /\ Does(s, "read")
      /\ IF x \in Rows
         THEN Become(s, [job[s] EXCEPT !.do = "insert", !.copy = [row[x] EXCEPT !.of = x]])
         ELSE Fail(s)
      /\ UNCHANGED <<row, edits, raced>>

(* The INSERT of the copy, below the copy of its parent. *)
(* (UnderRoot is a variant that puts all of them below the first.)            *)
UnderRoot(s) == job[s].root
CopyUnder(s) == Head(job[s].todo).parent
Parsed(metaid, name) ==
  IF metaid.for = "$prototype$" THEN [metaid EXCEPT !.for = name] ELSE metaid
Copy(s) ==
  [job[s].copy EXCEPT !.parent = CopyUnder(s), !.metaid = Parsed(@, job[s].name),
                      !.top = TopOf(CopyUnder(s))]

Insert(s) ==
  LET new == Len(row) + 1
  IN  /\ Does(s, "insert")
      /\ Len(row) < MaxRows
      /\ IF CanInsert(Copy(s))
         THEN /\ row' = Append(row, Copy(s))
              /\ Become(s, [job[s] EXCEPT !.do = "list",
                                          !.root = IF @ = None THEN new ELSE @,
                                          !.todo = <<[Head(@) EXCEPT !.parent = new]>> \o Tail(@)])
         ELSE Fail(s) /\ UNCHANGED row
      /\ UNCHANGED <<edits, raced>>

(* The SELECT of the children, in the order of their ids, and a call for each. *)
(* (FirstChild is a variant that takes one of them only.)                    *)
Calls(set, parent) ==
  LET calls[n \in 0..MaxRows] ==
        IF n = 0 THEN <<>>
        ELSE calls[n - 1] \o (IF n \in set THEN <<[from |-> n, parent |-> parent]>> ELSE <<>>)
  IN  calls[MaxRows]
FirstChild(s) ==
  LET call == Head(job[s].todo)
      set == Children(call.from)
  IN  Calls({x \in set : \A y \in set : x <= y}, call.parent) \o Tail(job[s].todo)
Onward(s) ==
  LET call == Head(job[s].todo)
  IN  Calls(Children(call.from), call.parent) \o Tail(job[s].todo)

List(s) ==
  /\ Does(s, "list")
  /\ Become(s, [job[s] EXCEPT !.do = IF Onward(s) = <<>> THEN "idle" ELSE "read",
                              !.todo = Onward(s), !.copy = NoRow])
  /\ UNCHANGED <<row, edits, raced>>

-----------------------------------------------------------------------------
(* What else happens: an object of its own below one that is there, and the     *)
(* deletion of a leaf.  Prototypes themselves are not deleted, but what is      *)
(* below them is.                                                            *)
Copying(s) == ~Does(s, "idle")
Races(x) == {s \in Session : Copying(s) /\ row[x].top \in {1, job[s].root} \ {None}}
Counted == edits < MaxEdits /\ edits' = edits + 1

Make(c, parent, metaid) ==
  LET r == [class |-> c, parent |-> parent, metaid |-> metaid, of |-> None,
            top |-> TopOf(parent)]
  IN  /\ Len(row) < MaxRows
      /\ c # Root /\ parent \in Rows
      /\ CanInsert(r)
      /\ row' = Append(row, r)
      /\ raced' = raced \cup Races(parent)
      /\ Counted
      /\ UNCHANGED job

Delete(x) ==
  /\ x \in Rows \ {1}
  /\ Children(x) = {}
  /\ row' = [row EXCEPT ![x] = NoRow]
  /\ raced' = raced \cup Races(x)
  /\ Counted
  /\ UNCHANGED job

Next ==
  \/ \E s \in Session :
       (\E name \in Name : createObject(s, name)) \/ Read(s) \/ Insert(s) \/ List(s)
  \/ \E c \in Class, parent \in Rows, name \in Name \cup {""} :
       Make(c, parent, [stem |-> c, for |-> name])
  \/ \E x \in Rows : Delete(x)

Spec == Init /\ [][Next]_vars

-----------------------------------------------------------------------------
(* A copy agrees with the prototype: no object of it is copied twice, each is   *)
(* below the copy of what its original is below, and has the metaid with the    *)
(* new name in it.                                                           *)
Agrees(tree, r, name) ==
  /\ \A x, y \in tree : row[x].of = row[y].of => x = y
  /\ \A x \in tree :
       LET o == row[x].of
       IN  /\ o \in Rows /\ row[x].class = row[o].class
           /\ row[x].metaid = Parsed(row[o].metaid, name)
           /\ IF x = r THEN o = 1 ELSE row[row[x].parent].of = row[o].parent

(* When a createObject comes to its end, what it has made is the whole tree     *)
(* below the prototype if it succeeds, and a part of it, from the top, if it    *)
(* fails: half a copy is left behind only with an error.  Nothing is promised   *)
(* where the prototype or the copy was changed meanwhile.                     *)
Outcome(s) ==
  LET r == job[s].root
      tree == Tree(r)
  IN  /\ Agrees(tree, r, job[s].name)
      /\ job[s].ok <=> Cardinality(tree) = Cardinality(Tree(1))
CopiesAreWhole ==
  [][\A s \in Session :
       Copying(s) /\ ~Copying(s)' /\ s \notin raced => Outcome(s)']_vars
=============================================================================
