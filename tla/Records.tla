--------------------------------- MODULE Records ---------------------------------
(***************************************************************************)
(* What becomes of the fields of an object on their way through opencore:     *)
(* CoreSession::createObject, updateObject and getObject (session.cpp),       *)
(* CoreClass::normalize (module.cpp), handleCrypts (session.cpp), and the      *)
(* fetchObject, hidepasswords and listObjects of DBManager.                    *)
(*                                                                         *)
(* The objects are of one class, whose definition is any of Definition, and    *)
(* under one parent if it asks for one.  A request is one step: the locks      *)
(* between requests are SessionUse, the rows and modules ObjectRequests.       *)
(***************************************************************************)
EXTENDS Naturals, Sequences

CONSTANTS
  MaxRows,                \* bound on the rows ever inserted
  MaxTimes,               \* bound on how often a text is crypted over
  Fields,                 \* the sequence of the names of the fields
  Definition,             \* the class definitions looked at
  Input,                  \* the texts that clients send
  Name                    \* the metaids of a class with a manual index

Field == {Fields[i] : i \in DOMAIN Fields}

(* A value is a text that was crypted a number of times; "pre" is a text that  *)
(* begins with the header "pre-crypted password follows".                    *)
Text == {"", "word", "0", "1", "true", "false", "pre"}
Value == [text : Text, times : 0..MaxTimes + 1]
Plain(t) == [text |-> t, times |-> 0]
Empty == Plain("")

(* strict is a regexp that "word" matches and no number or crypted text does;   *)
(* the members of every enum are "0" and "1".                                *)
FieldDef == [type : {"string", "password", "integer", "bool", "enum"}, enabled : BOOLEAN,
             crypt : {"", "extern", "md5", "other"}, required : BOOLEAN,
             default : Text, strict : BOOLEAN]
ClassDef == [manual : BOOLEAN, child : BOOLEAN, field : [Field -> FieldDef]]

ASSUME RecordsAssumption ==
  /\ MaxRows \in Nat \ {0} /\ MaxTimes \in Nat \ {0}
  /\ Fields \in Seq(Field) /\ \A i, j \in DOMAIN Fields : Fields[i] = Fields[j] => i = j
  /\ Definition \subseteq ClassDef /\ Input \subseteq Text
  /\ "" \notin Name /\ "deleted" \notin Name

VARIABLES
  class,                  \* the definition of the class
  row,                    \* the rows, in the order of their ids
  (* History, read by the properties only: *)
  sent,                   \* the last update: the row, and the fields that came with it
  given,                  \* <<x, f>>: f was filled in by a request for x itself
  skipped                 \* <<x, f>>: f came after a pre-crypted field, in x or in an
                          \* object that x may have its password from

vars == <<class, row, sent, given, skipped>>

NoRow == [name |-> "deleted", data |-> <<>>]
Rows == {x \in 1..Len(row) : row[x] # NoRow}
Form == UNION {[S -> {Plain(t) : t \in Input}] : S \in SUBSET Field}

(* Reading a value that is not there gives an empty one. *)
At(data, f) == IF f \in DOMAIN data THEN data[f] ELSE Empty

-----------------------------------------------------------------------------
(* CoreClass::normalize.  A field that is there must match its regexp unless   *)
(* it is empty, and be a member of its enum, empty or not; only an empty       *)
(* password is let through as it is.                                         *)
IsMember(v) == v \in {Plain("0"), Plain("1")}
Accepts(d, v) ==
  \/ d.type = "password" /\ v = Empty
  \/ /\ d.strict /\ v # Empty => v = Plain("word")
     /\ d.type = "enum" => IsMember(v)

(* ival and bval, written back as text. *)
Converted(d, v) ==
  CASE d.type = "integer" -> IF v = Plain("1") THEN v ELSE Plain("0")
    [] d.type = "bool" -> Plain(IF v \in {Plain("1"), Plain("true")} THEN "true" ELSE "false")
    [] OTHER -> v

(* normalizeLayoutNode: a required field that is missing takes its default,    *)
(* and there is no default for the type "password".  (normalize has converted  *)
(* what was there, so that an empty integer is not missing.)                 *)
Missing(data) == {f \in Field : class.field[f].required /\ At(data, f) = Empty}
(* (DefaultUnchecked is a variant that takes any default for an enum, Untyped  *)
(* one that leaves numbers and truth values as they are sent.)                *)
DefaultUnchecked(d) == (d.default = "") <=> (d.type = "password")
CanDefault(d) ==
  IF d.default = "" THEN d.type = "password"
  ELSE d.type # "password" /\ (d.type = "enum" => IsMember(Plain(d.default)))

Untyped(data) == data
Typed(data) == [f \in DOMAIN data |-> Converted(class.field[f], data[f])]
Normalizes(data) ==
  /\ \A f \in DOMAIN data : Accepts(class.field[f], data[f])
  /\ \A f \in Missing(Typed(data)) : CanDefault(class.field[f])
Normalized(data) ==
  LET typed == Typed(data)
      filled == {f \in Missing(typed) : class.field[f].default # ""}
  IN  [f \in DOMAIN data \cup filled |->
         IF f \in filled
         THEN Converted(class.field[f], Plain(class.field[f].default))
         ELSE typed[f]]

-----------------------------------------------------------------------------
(* handleCrypts goes over the enabled fields with a crypt attribute in order.   *)
(* A pre-crypted one loses its header and ends the loop.                      *)
Crypts(d) == d.enabled /\ d.crypt # ""
Pre(data, i) == Crypts(class.field[Fields[i]]) /\ At(data, Fields[i]) = Plain("pre")
ToCrypt(data) ==
  {Fields[i] : i \in {i \in DOMAIN Fields : /\ Crypts(class.field[Fields[i]])
                                            /\ \A j \in 1..i - 1 : ~Pre(data, j)}}
Skipped(data) ==
  {f \in Field : /\ Crypts(class.field[f]) /\ f \notin ToCrypt(data)
                 /\ At(data, f) # Empty /\ At(data, f).times = 0}

(* An empty field takes what the object found holds; old is empty where there   *)
(* is none.  The module, or an unknown type of crypt, may fail.               *)
CanCrypt(data, old) ==
  \A f \in ToCrypt(data) :
    /\ At(data, f) = Empty => old # {}
    /\ At(data, f) \notin {Empty, Plain("pre")} =>
         class.field[f].crypt # "other" /\ At(data, f).times <= MaxTimes
CryptedValue(v) ==
  IF v = Plain("pre") THEN [text |-> "word", times |-> 1] ELSE [v EXCEPT !.times = @ + 1]
Crypted(data, old) ==
  [f \in DOMAIN data \cup ToCrypt(data) |->
     IF f \notin ToCrypt(data) THEN data[f]
     ELSE IF At(data, f) # Empty THEN CryptedValue(data[f])
     ELSE At(old, f)]

(* fetchObject for a user.  Passwords only get a tag.  (DBManager::filter, which *)
(* is to leave out what is private for the module, asks the registration of the *)
(* class for "privateformodule"; CoreClass::getregistration does not write it    *)
(* there, so that every field passes.)                                       *)
Fetched(x) == row[x].data

(* getObject empties what is a password, and a listing shows the same. *)
hidepasswords(data) ==
  [f \in DOMAIN data |-> IF class.field[f].type = "password" THEN Empty ELSE data[f]]
getObject(x) == hidepasswords(Fetched(x))

-----------------------------------------------------------------------------
(* What findObject finds for handleCrypts in createObject.  A class with an     *)
(* automatic index gives no id to look for: any object of the class under the  *)
(* parent will do, and none is found without a parent.                        *)
(* (FoundAny is a variant that looks for the class and parent only.)          *)
FoundAny(name) == Rows
Found(name) ==
  IF class.manual THEN {x \in Rows : row[x].name = name}
  ELSE IF class.child THEN Rows ELSE {}

Filled(x, data) == {<<x, f>> : f \in {f \in DOMAIN data : data[f] # Empty}}

Init ==
  /\ class \in Definition
  /\ row = <<>>
  /\ sent = [x |-> 0, fields |-> <<>>]
  /\ given = {} /\ skipped = {}

(* createObject.  (A metaid is unique under the parent.) *)
createObject(name, form) ==
  LET data == Normalized(form)
      found == Found(name)
      x == Len(row) + 1
  IN  /\ Len(row) < MaxRows
      /\ class.manual <=> name # ""
      /\ Normalizes(form)
      /\ CanCrypt(data, found)
      /\ class.manual => \A y \in Rows : row[y].name # name
      /\ \E old \in IF found = {} THEN {<<>>} ELSE {Fetched(y) : y \in found} :
           row' = Append(row, [name |-> name, data |-> Crypted(data, old)])
      /\ given' = given \cup Filled(x, data)
      /\ skipped' = skipped \cup {<<x, f>> : f \in Skipped(data)}
                            \cup {<<x, f>> : f \in {h \in Field : \E y \in found : <<y, h>> \in skipped}}
      /\ sent' = [x |-> 0, fields |-> <<>>]
      /\ UNCHANGED class

(* The missing parameters, and those not enabled whether they are sent or not,  *)
(* are filled in from the old object.                                        *)
(* (FillMissing is a variant that lets a disabled field be changed.)          *)
FillMissing(x, form) ==
  [f \in Field |-> IF f \in DOMAIN form THEN form[f] ELSE At(Fetched(x), f)]
FillIn(x, form) ==
  [f \in Field |->
     IF f \in DOMAIN form /\ class.field[f].enabled THEN form[f] ELSE At(Fetched(x), f)]

updateObject(x, form) ==
  LET all == FillIn(x, form)
      data == Normalized(all)
  IN  /\ x \in Rows
      /\ Normalizes(all)
      /\ CanCrypt(data, {x})
      /\ row' = [row EXCEPT ![x].data = Crypted(data, Fetched(x))]
      /\ given' = given \cup Filled(x, form)
      /\ skipped' = skipped \cup {<<x, f>> : f \in Skipped(data)}
      /\ sent' = [x |-> x, fields |-> form]
      /\ UNCHANGED class

deleteObject(x) ==
  /\ x \in Rows
  /\ row' = [row EXCEPT ![x] = NoRow]
  /\ sent' = [x |-> 0, fields |-> <<>>]
  /\ UNCHANGED <<class, given, skipped>>

(* A client sends what it likes, or what it was shown. *)
Next ==
  \/ \E name \in Name \cup {""}, form \in Form : createObject(name, form)
  \/ \E x \in Rows, form \in Form : updateObject(x, form)
  \/ \E x \in Rows : updateObject(x, getObject(x))
  \/ \E x \in Rows : deleteObject(x)

Spec == Init /\ [][Next]_vars

-----------------------------------------------------------------------------
(* Rows hold values of the fields of the class; what was recorded of them is    *)
(* about rows and fields that there are.                                     *)
TypeOK ==
  /\ class \in Definition
  /\ row \in Seq([name : Name \cup {"", "deleted"}, data : UNION {[S -> Value] : S \in SUBSET Field}])
  /\ \A x \in Rows : \A f \in DOMAIN row[x].data :
       LET d == class.field[f] v == row[x].data[f]
       IN  v = Empty \/ v.times > 0 \/ v = Converted(d, v)
  /\ sent.x \in 0..Len(row)
  /\ given \cup skipped \subseteq (1..Len(row)) \X Field

(* An object that is stored can be updated without a change of any field: its  *)
(* values pass the checks of normalize and handleCrypts once more.  It cannot  *)
(* where a regexp does not fit the crypted text, the number or the default,   *)
(* where an enum is crypted or was never given, or where the type of crypt is   *)
(* not known.                                                                *)
Stuck(x, f) ==
  LET d == class.field[f]
  IN  \/ d.strict /\ (Crypts(d) \/ d.type \in {"integer", "bool"} \/ d.default \notin {"", "word"})
      \/ d.type = "enum" /\ (Crypts(d) \/ At(Fetched(x), f) = Empty)
      \/ d.crypt = "other"
      \/ At(row[x].data, f).times > MaxTimes          \* the bound
StaysUpdatable ==
  \A x \in Rows :
    LET all == FillIn(x, <<>>)
    IN  \/ Normalizes(all) /\ CanCrypt(Normalized(all), {x})
        \/ \E f \in Field : Stuck(x, f)

(* What is stored in a field to be crypted is crypted, and it is the password  *)
(* that a request gave to this very object.  It is plain where a pre-crypted   *)
(* field before it ended the loop; it may be that of another object where one  *)
(* with an automatic index was made below a parent, and it is a 0 where a     *)
(* number was to be crypted and an update found it empty.                     *)
PasswordIsOwn ==
  \A x \in Rows, f \in Field :
    Crypts(class.field[f]) /\ At(row[x].data, f) # Empty =>
      /\ At(row[x].data, f).times > 0 \/ <<x, f>> \in skipped
      /\ \/ <<x, f>> \in given \/ (~class.manual /\ class.child)
         \/ class.field[f].type \in {"integer", "bool"}

(* A field that an update leaves out, or sends as getObject or listObjects has   *)
(* shown it, stays as it is.  Not kept are: a password that is not crypted and   *)
(* is sent as shown, a crypted field that is left out (it is crypted once more) *)
(* or is no password, one that is sent empty with a pre-crypted field before    *)
(* it, a default or one that an earlier such field left as it was (it is       *)
(* emptied), and an empty number, truth value or required field (it takes one). *)
PreBefore(x, f, fields) ==
  \E g \in Field \ {f} :
    Plain("pre") \in {At(fields, g), At(row[x].data, g), Plain(class.field[g].default)}
NotKept(d, x, f, fields, before) ==
  \/ d.type = "password" /\ ~Crypts(d) /\ f \in DOMAIN fields
  \/ Crypts(d) /\ (f \notin DOMAIN fields \/ d.type # "password")
  \/ Crypts(d) /\ PreBefore(x, f, fields)
  \/ before = Empty /\ (d.type \in {"integer", "bool"} \/ d.required)
UpdateKeeps ==
  [][\A x \in Rows, f \in Field :
       LET d == class.field[f]
           before == At(row[x].data, f)
           fields == sent'.fields
       IN  /\ sent'.x = x
           /\ \/ f \notin DOMAIN fields \/ ~d.enabled
              \/ fields[f] = At(getObject(x), f)
           => At(row'[x].data, f) = before \/ NotKept(d, x, f, fields, before)]_vars
=============================================================================
