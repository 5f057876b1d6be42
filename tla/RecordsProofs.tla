---------------------------- MODULE RecordsProofs ----------------------------
(***************************************************************************)
(* The fields of objects, for a class of any number of fields with any          *)
(* attributes, any number of objects of it, and any texts that clients send:    *)
(* types, updates that go on being possible, whose passwords are stored, and   *)
(* what an update leaves alone.                                              *)
(*                                                                         *)
(* What is stored in a field is described by Stored and Owned: a field that is  *)
(* not crypted holds what normalize lets through, a required one is empty only  *)
(* if it is a password without default.                                      *)
(***************************************************************************)
EXTENDS Records, TLAPS

Data == UNION {[S -> Value] : S \in SUBSET Field}
Number(d) == d.type \in {"integer", "bool"}

-----------------------------------------------------------------------------
(* Values and data. *)
LEMMA ValueFacts ==
  /\ Empty \in Value /\ Empty.times = 0 /\ Empty.text = ""
  /\ \A t \in Text : Plain(t) \in Value /\ Plain(t).times = 0 /\ Plain(t).text = t
  /\ \A v \in Value : v.times \in Nat /\ v.times <= MaxTimes + 1 /\ v = [text |-> v.text, times |-> v.times]
  /\ MaxTimes \in Nat \ {0}
<1>1. MaxTimes \in Nat \ {0} /\ 0 \in 0..MaxTimes + 1
  <2>1. MaxTimes \in Nat \ {0}
    BY RecordsAssumption
  <2> QED BY <2>1
<1>2. \A t \in Text : Plain(t) \in Value /\ Plain(t).times = 0 /\ Plain(t).text = t
  BY <1>1 DEF Plain, Value
<1>3. "" \in Text
  BY DEF Text
<1>4. \A v \in Value : v.times \in Nat /\ v.times <= MaxTimes + 1 /\ v = [text |-> v.text, times |-> v.times]
  BY <1>1 DEF Value
<1> QED BY <1>1, <1>2, <1>3, <1>4 DEF Empty

LEMMA TimesFacts ==
  /\ Empty \in Value /\ Empty.times = 0
  /\ \A t \in Text : Plain(t) \in Value /\ Plain(t).times = 0
  /\ \A v \in Value : v.times \in Nat /\ v.times <= MaxTimes + 1
BY ValueFacts

LEMMA DataFacts ==
  ASSUME NEW data \in Data
  PROVE  /\ DOMAIN data \subseteq Field
         /\ \A f \in DOMAIN data : data[f] \in Value /\ At(data, f) = data[f]
         /\ \A f : f \notin DOMAIN data => At(data, f) = Empty
         /\ \A f : At(data, f) \in Value
<1>1. PICK S \in SUBSET Field : data \in [S -> Value]
  BY DEF Data
<1> QED BY <1>1, ValueFacts DEF At

LEMMA MakesData ==
  ASSUME NEW S \in SUBSET Field, NEW data \in [S -> Value]
  PROVE  data \in Data
BY DEF Data

LEMMA NoData == <<>> \in Data /\ DOMAIN <<>> = {} /\ \A f : At(<<>>, f) = Empty
<1>1. <<>> \in [{} -> Value] /\ DOMAIN <<>> = {}
  OBVIOUS
<1>2. <<>> \in Data
  BY <1>1, MakesData
<1> QED BY <1>1, <1>2 DEF At

LEMMA FieldDefs ==
  ASSUME class \in Definition, NEW f \in Field
  PROVE  /\ class.field[f] \in FieldDef
         /\ class.field[f].default \in Text
         /\ class.field[f].type \in {"string", "password", "integer", "bool", "enum"}
         /\ class.field[f].required \in BOOLEAN
         /\ class.field[f].enabled \in BOOLEAN /\ class.field[f].strict \in BOOLEAN
<1>1. class \in ClassDef
  BY RecordsAssumption
<1>2. class.field[f] \in FieldDef
  BY <1>1 DEF ClassDef
<1> QED BY <1>2 DEF FieldDef

-----------------------------------------------------------------------------
(* normalize. *)
LEMMA ConvertedFacts ==
  ASSUME NEW d \in FieldDef, NEW v \in Value
  PROVE  /\ Converted(d, v) \in Value
         /\ Converted(d, Converted(d, v)) = Converted(d, v)
         /\ Number(d) => Converted(d, v) # Empty /\ Converted(d, v).times = 0
         /\ ~Number(d) => Converted(d, v) = v
         /\ Converted(d, v).times <= v.times
<1>1. /\ \A t \in {"0", "1", "true", "false"} : /\ Plain(t) \in Value /\ Plain(t).times = 0
                                                /\ Plain(t).text = t
      /\ Empty.text = ""
  BY ValueFacts DEF Text
<1>2. v.times \in Nat
  BY ValueFacts
<1>3. CASE d.type = "integer"
  <2>1. Converted(d, v) = IF v = Plain("1") THEN v ELSE Plain("0")
    BY <1>3 DEF Converted
  <2>2. Converted(d, Converted(d, v)) = IF Converted(d, v) = Plain("1") THEN Converted(d, v) ELSE Plain("0")
    BY <1>3 DEF Converted
  <2>3. Converted(d, v) = Plain("1") \/ Converted(d, v) = Plain("0")
    BY <2>1
  <2>4. Converted(d, v) \in Value /\ Converted(d, v).times = 0 /\ Converted(d, v) # Empty
    BY <1>1, <2>3
  <2>5. Converted(d, Converted(d, v)) = Converted(d, v)
    BY <2>2, <2>3
  <2> QED BY <1>2, <1>3, <2>4, <2>5 DEF Number
<1>4. CASE d.type = "bool"
  <2>1. Converted(d, v) = Plain(IF v \in {Plain("1"), Plain("true")} THEN "true" ELSE "false")
    BY <1>4 DEF Converted
  <2>2. Converted(d, Converted(d, v)) =
          Plain(IF Converted(d, v) \in {Plain("1"), Plain("true")} THEN "true" ELSE "false")
    BY <1>4 DEF Converted
  <2>3. /\ Converted(d, v) = Plain("true") \/ Converted(d, v) = Plain("false")
        /\ Converted(d, Converted(d, v)) = Converted(d, v)
    <3>1. CASE v \in {Plain("1"), Plain("true")}
      BY <2>1, <2>2, <3>1
    <3>2. CASE v \notin {Plain("1"), Plain("true")}
      <4>1. Converted(d, v) = Plain("false")
        BY <2>1, <3>2
      <4>2. Plain("false") \notin {Plain("1"), Plain("true")}
        BY <1>1
      <4> QED BY <2>2, <4>1, <4>2
    <3> QED BY <3>1, <3>2
  <2>4. Converted(d, v) \in Value /\ Converted(d, v).times = 0 /\ Converted(d, v) # Empty
    BY <1>1, <2>3
  <2> QED BY <1>2, <1>4, <2>3, <2>4 DEF Number
<1>5. CASE d.type \notin {"integer", "bool"}
  <2>1. Converted(d, v) = v
    BY <1>5 DEF Converted
  <2> QED BY <1>2, <1>5, <2>1 DEF Number
<1> QED BY <1>3, <1>4, <1>5

LEMMA TypedFacts ==
  ASSUME class \in Definition, NEW data \in Data
  PROVE  /\ Typed(data) \in Data /\ DOMAIN Typed(data) = DOMAIN data
         /\ \A f \in DOMAIN data : At(Typed(data), f) = Converted(class.field[f], data[f])
         /\ \A f : f \notin DOMAIN data => At(Typed(data), f) = Empty
<1>1. \A f \in DOMAIN data : Converted(class.field[f], data[f]) \in Value
  BY DataFacts, FieldDefs, ConvertedFacts
<1>2. Typed(data) \in [DOMAIN data -> Value] /\ DOMAIN data \in SUBSET Field
  BY <1>1, DataFacts DEF Typed
<1>3. Typed(data) \in Data
  BY <1>2, MakesData
<1> QED BY <1>2, <1>3 DEF Typed, At

(* What normalize makes of a field, and what it lets through. *)
Defaulted(data, f) ==
  class.field[f].required /\ At(Typed(data), f) = Empty /\ class.field[f].default # ""

LEMMA NormalizedFacts ==
  ASSUME class \in Definition, NEW data \in Data
  PROVE  /\ Normalized(data) \in Data /\ DOMAIN data \subseteq DOMAIN Normalized(data)
         /\ \A f \in Field :
              At(Normalized(data), f) = IF Defaulted(data, f)
                                        THEN Converted(class.field[f], Plain(class.field[f].default))
                                        ELSE At(Typed(data), f)
<1> DEFINE filled == {f \in Missing(Typed(data)) : class.field[f].default # ""}
<1>1. filled \subseteq Field /\ \A f \in Field : f \in filled <=> Defaulted(data, f)
  BY DEF Missing, Defaulted
<1>2. Normalized(data) = [f \in DOMAIN data \cup filled |->
                            IF f \in filled
                            THEN Converted(class.field[f], Plain(class.field[f].default))
                            ELSE Typed(data)[f]]
  BY DEF Normalized
<1> HIDE DEF filled
<1>3. \A f \in filled : Converted(class.field[f], Plain(class.field[f].default)) \in Value
  BY <1>1, FieldDefs, ValueFacts, ConvertedFacts
<1>4. \A f \in DOMAIN data : Typed(data)[f] \in Value /\ Typed(data)[f] = At(Typed(data), f)
  BY TypedFacts, DataFacts
<1>5. Normalized(data) \in [DOMAIN data \cup filled -> Value] /\ DOMAIN data \cup filled \in SUBSET Field
  BY <1>1, <1>2, <1>3, <1>4, DataFacts
<1>6. Normalized(data) \in Data
  BY <1>5, MakesData
<1>7. ASSUME NEW f \in Field
      PROVE  At(Normalized(data), f) = IF f \in filled
                                       THEN Converted(class.field[f], Plain(class.field[f].default))
                                       ELSE At(Typed(data), f)
  <2>1. CASE f \in filled
    BY <1>2, <2>1 DEF At
  <2>2. CASE f \in DOMAIN data \ filled
    BY <1>2, <1>4, <2>2 DEF At
  <2>3. CASE f \notin DOMAIN data \cup filled
    BY <1>2, <2>3, TypedFacts DEF At
  <2> QED BY <2>1, <2>2, <2>3
<1> QED BY <1>1, <1>5, <1>6, <1>7

(* Nothing that was not a password gets longer crypted; a required field that  *)
(* is still empty is a password without default.                             *)
LEMMA NormalizedField ==
  ASSUME class \in Definition, NEW data \in Data, Normalizes(data), NEW f \in Field
  PROVE  LET d == class.field[f]
             v == At(Normalized(data), f)
         IN  /\ v \in Value /\ v.times <= At(data, f).times
             /\ v = Empty \/ v = Converted(d, v)
             /\ d.required /\ v = Empty => d.default = "" /\ d.type = "password"
             /\ Defaulted(data, f) => /\ v = Converted(d, Plain(d.default)) /\ CanDefault(d)
                                      /\ d.default # ""
             /\ ~Defaulted(data, f) /\ f \in DOMAIN data => v = Converted(d, data[f])
             /\ ~Defaulted(data, f) /\ f \notin DOMAIN data => v = Empty
<1> DEFINE d == class.field[f]
           v == At(Normalized(data), f)
<1>1. /\ d \in FieldDef /\ d.default \in Text /\ d.required \in BOOLEAN
      /\ d.type \in {"string", "password", "integer", "bool", "enum"}
  BY FieldDefs
<1>2. v = IF Defaulted(data, f) THEN Converted(d, Plain(d.default)) ELSE At(Typed(data), f)
  BY NormalizedFacts
<1>3. v \in Value /\ At(data, f) \in Value
  BY NormalizedFacts, DataFacts
<1>4. /\ f \in DOMAIN data => At(Typed(data), f) = Converted(d, data[f]) /\ At(data, f) = data[f]
                              /\ data[f] \in Value
      /\ f \notin DOMAIN data => At(Typed(data), f) = Empty /\ At(data, f) = Empty
  BY TypedFacts, DataFacts
<1>5. Plain(d.default) \in Value /\ (d.default # "" => Plain(d.default) # Empty)
  BY <1>1, ValueFacts
<1>8. Plain(d.default).times = 0 /\ Empty.times = 0 /\ At(data, f).times \in Nat /\ v.times \in Nat
  BY <1>1, <1>3, ValueFacts
<1> HIDE DEF d, v
<1>6. CASE Defaulted(data, f)
  <2>1. v = Converted(d, Plain(d.default)) /\ d.default # "" /\ d.required /\ At(Typed(data), f) = Empty
    BY <1>2, <1>6 DEF Defaulted, d
  <2>2. CanDefault(d)
    BY <2>1 DEF Normalizes, Missing, d
  <2>3. v # Empty /\ v = Converted(d, v) /\ v.times = 0
    <3>1. Plain(d.default) # Empty
      BY <1>5, <2>1
    <3>2. /\ Converted(d, Converted(d, Plain(d.default))) = Converted(d, Plain(d.default))
          /\ Number(d) => Converted(d, Plain(d.default)) # Empty
          /\ ~Number(d) => Converted(d, Plain(d.default)) = Plain(d.default)
      BY <1>1, <1>5, ConvertedFacts
    <3>3. Converted(d, Plain(d.default)).times <= Plain(d.default).times
      BY <1>1, <1>5, ConvertedFacts
    <3>4. v # Empty
      BY <2>1, <3>1, <3>2
    <3>5. v = Converted(d, v)
      BY <2>1, <3>2
    <3>6. v.times = 0
      <4>1. Converted(d, Plain(d.default)).times <= 0 /\ v.times = Converted(d, Plain(d.default)).times
        BY <1>8, <2>1, <3>3
      <4> QED BY <1>8, <4>1
    <3> QED BY <3>4, <3>5, <3>6
  <2>4. v.times <= At(data, f).times
    <3>1. v.times = 0
      BY <2>3
    <3> QED BY <1>8, <3>1
  <2> QED BY <1>3, <1>6, <2>1, <2>2, <2>3, <2>4 DEF d, v
<1>7. CASE ~Defaulted(data, f)
  <2>1. v = At(Typed(data), f)
    BY <1>2, <1>7
  <2>2. d.required /\ v = Empty => d.default = "" /\ d.type = "password"
    <3>1. d.required /\ v = Empty => d.default = "" /\ CanDefault(d)
      BY <1>7, <2>1 DEF Normalizes, Missing, Defaulted, d
    <3> QED BY <3>1 DEF CanDefault
  <2>3. CASE f \in DOMAIN data
    <3>1. v = Converted(d, data[f]) /\ At(data, f) = data[f] /\ data[f] \in Value
      BY <1>4, <2>1, <2>3
    <3>2. v = Converted(d, v) /\ v.times <= At(data, f).times
      BY <1>1, <3>1, ConvertedFacts
    <3> QED BY <1>3, <1>7, <2>2, <2>3, <3>1, <3>2 DEF d, v
  <2>4. CASE f \notin DOMAIN data
    <3>1. v = Empty /\ At(data, f) = Empty
      BY <1>4, <2>1, <2>4
    <3>2. v.times <= At(data, f).times
      BY <1>8, <3>1
    <3> QED BY <1>3, <1>7, <2>2, <2>4, <3>1, <3>2 DEF d, v
  <2> QED BY <2>3, <2>4
<1> QED BY <1>6, <1>7

-----------------------------------------------------------------------------
(* handleCrypts. *)
LEMMA ToCryptFacts ==
  ASSUME NEW data
  PROVE  ToCrypt(data) \subseteq Field /\ \A f \in ToCrypt(data) : Crypts(class.field[f])
BY DEF ToCrypt, Field

LEMMA CryptedValueFacts ==
  ASSUME NEW v \in Value, v = Plain("pre") \/ v.times <= MaxTimes
  PROVE  CryptedValue(v) \in Value /\ CryptedValue(v).times > 0 /\ CryptedValue(v) # Empty
<1>1. MaxTimes \in Nat \ {0} /\ Empty.times = 0
  BY ValueFacts
<1>2. CASE v = Plain("pre")
  <2>1. CryptedValue(v) = [text |-> "word", times |-> 1] /\ "word" \in Text /\ 1 \in 0..MaxTimes + 1
    BY <1>1, <1>2 DEF CryptedValue, Text
  <2> QED BY <1>1, <2>1 DEF Value
<1>3. CASE v # Plain("pre") /\ v.times <= MaxTimes
  <2>1. CryptedValue(v) = [v EXCEPT !.times = v.times + 1]
    BY <1>3 DEF CryptedValue
  <2>2. v.text \in Text /\ v.times + 1 \in 0..MaxTimes + 1 /\ v = [text |-> v.text, times |-> v.times]
    BY <1>1, <1>3 DEF Value
  <2>3. CryptedValue(v) = [text |-> v.text, times |-> v.times + 1]
    BY <2>1, <2>2
  <2> QED BY <1>1, <2>2, <2>3 DEF Value
<1> QED BY <1>2, <1>3

LEMMA CryptedFacts ==
  ASSUME class \in Definition, NEW data \in Data, NEW old \in Data, NEW found, CanCrypt(data, found)
  PROVE  /\ Crypted(data, old) \in Data
         /\ \A f \in Field :
              /\ f \notin ToCrypt(data) => At(Crypted(data, old), f) = At(data, f)
              /\ f \in ToCrypt(data) /\ At(data, f) # Empty =>
                   /\ At(Crypted(data, old), f) \in Value
                   /\ At(Crypted(data, old), f).times > 0 /\ At(Crypted(data, old), f) # Empty
              /\ f \in ToCrypt(data) /\ At(data, f) = Empty =>
                   At(Crypted(data, old), f) = At(old, f) /\ found # {}
<1> DEFINE C == Crypted(data, old)
<1>1. ToCrypt(data) \subseteq Field /\ DOMAIN data \subseteq Field
  BY ToCryptFacts, DataFacts
<1>2. C = [f \in DOMAIN data \cup ToCrypt(data) |->
             IF f \notin ToCrypt(data) THEN data[f]
             ELSE IF At(data, f) # Empty THEN CryptedValue(data[f]) ELSE At(old, f)]
  BY DEF Crypted
<1>3. ASSUME NEW f \in ToCrypt(data), At(data, f) # Empty
      PROVE  /\ CryptedValue(data[f]) \in Value
             /\ CryptedValue(data[f]).times > 0 /\ CryptedValue(data[f]) # Empty
  <2>1. f \in DOMAIN data /\ data[f] \in Value /\ At(data, f) = data[f]
    BY <1>3, DataFacts
  <2>2. data[f] = Plain("pre") \/ data[f].times <= MaxTimes
    BY <1>3, <2>1 DEF CanCrypt
  <2> QED BY <2>1, <2>2, CryptedValueFacts
<1>4. \A f : At(old, f) \in Value
  BY DataFacts
<1>5. \A f \in DOMAIN data : data[f] \in Value /\ At(data, f) = data[f]
  BY DataFacts
<1>6. \A f \in DOMAIN data \cup ToCrypt(data) :
        (IF f \notin ToCrypt(data) THEN data[f]
         ELSE IF At(data, f) # Empty THEN CryptedValue(data[f]) ELSE At(old, f)) \in Value
  BY <1>3, <1>4, <1>5
<1>7. C \in [DOMAIN data \cup ToCrypt(data) -> Value] /\ DOMAIN data \cup ToCrypt(data) \in SUBSET Field
  BY <1>1, <1>2, <1>6
<1>8. C \in Data
  BY <1>7, MakesData
<1>9. ASSUME NEW f \in Field, f \notin ToCrypt(data)
      PROVE  At(C, f) = At(data, f)
  BY <1>2, <1>9 DEF At
<1>10. ASSUME NEW f \in Field, f \in ToCrypt(data)
       PROVE  At(C, f) = IF At(data, f) # Empty THEN CryptedValue(data[f]) ELSE At(old, f)
  BY <1>2, <1>10 DEF At
<1>11. \A f \in Field : f \in ToCrypt(data) /\ At(data, f) = Empty => found # {}
  BY DEF CanCrypt
<1> QED BY <1>3, <1>8, <1>9, <1>10, <1>11

-----------------------------------------------------------------------------
(* What is read. *)
LEMMA HiddenFacts ==
  ASSUME NEW data \in Data
  PROVE  /\ hidepasswords(data) \in Data /\ DOMAIN hidepasswords(data) = DOMAIN data
         /\ \A f : At(hidepasswords(data), f) =
              IF class.field[f].type = "password" THEN Empty ELSE At(data, f)
<1>1. hidepasswords(data) =
        [f \in DOMAIN data |-> IF class.field[f].type = "password" THEN Empty ELSE data[f]]
  BY DEF hidepasswords
<1>2. hidepasswords(data) \in [DOMAIN data -> Value]
  BY <1>1, DataFacts, ValueFacts
<1>3. hidepasswords(data) \in Data
  BY <1>2, DataFacts, MakesData
<1> QED BY <1>1, <1>3 DEF At

-----------------------------------------------------------------------------
(* What a field holds, and whose it is. *)
Stored(d, v) ==
  /\ ~Crypts(d) => v.times = 0
  /\ v = Empty \/ v.times > 0 \/ v = Converted(d, v)
  /\ ~Crypts(d) /\ v # Empty =>
       /\ d.strict /\ ~Number(d) /\ d.default \in {"", "word"} => v = Plain("word")
       /\ d.type = "enum" => IsMember(v)
  /\ d.required /\ v = Empty => d.default = "" /\ d.type = "password"

Owned(x, f, v, fromIt, uncrypted) ==
  /\ Crypts(class.field[f]) /\ v # Empty =>
       /\ v.times > 0 \/ <<x, f>> \in uncrypted
       /\ <<x, f>> \in fromIt \/ (~class.manual /\ class.child) \/ Number(class.field[f])
  /\ class.field[f].required /\ class.field[f].default # "" => <<x, f>> \in fromIt

(* normalize and handleCrypts, one after the other. *)
LEMMA StoredField ==
  ASSUME class \in Definition, NEW data \in Data, NEW old \in Data, NEW found,
         Normalizes(data), CanCrypt(Normalized(data), found), NEW f \in Field,
         ~Crypts(class.field[f]) => At(data, f).times = 0,
         LET u == At(old, f) IN u = Empty \/ u.times > 0 \/ u = Converted(class.field[f], u)
  PROVE  Stored(class.field[f], At(Crypted(Normalized(data), old), f))
<1> DEFINE d == class.field[f]
           n == At(Normalized(data), f)
           v == At(Crypted(Normalized(data), old), f)
<1>1. /\ d \in FieldDef /\ d.default \in Text
      /\ d.type \in {"string", "password", "integer", "bool", "enum"}
  BY FieldDefs
<1>2. Normalized(data) \in Data
  BY NormalizedFacts
<1>3. /\ f \notin ToCrypt(Normalized(data)) => v = n
      /\ f \in ToCrypt(Normalized(data)) /\ n # Empty => v.times > 0 /\ v # Empty
      /\ f \in ToCrypt(Normalized(data)) /\ n = Empty => v = At(old, f)
  BY <1>2, CryptedFacts
<1>4. /\ n = Empty \/ n = Converted(d, n)
      /\ d.required /\ n = Empty => d.default = "" /\ d.type = "password"
  BY NormalizedField
<1>5. CASE f \in ToCrypt(Normalized(data))
  <2>1. Crypts(d)
    BY <1>5, ToCryptFacts
  <2> QED BY <1>3, <1>4, <1>5, <2>1 DEF Stored
<1>6. CASE f \notin ToCrypt(Normalized(data))
  <2>1. v = n
    BY <1>3, <1>6
  <2>2. ~Crypts(d) => n.times = 0
    <3>1. n \in Value /\ n.times <= At(data, f).times
      BY NormalizedField
    <3>2. n.times \in Nat
      BY <3>1, ValueFacts
    <3> QED BY <3>1, <3>2
  <2>3. ASSUME n # Empty
        PROVE  /\ d.strict /\ ~Number(d) /\ d.default \in {"", "word"} => n = Plain("word")
               /\ d.type = "enum" => IsMember(n)
    <3>1. d.type = "enum" => ~Number(d) /\ d.type # "password"
      BY DEF Number
    <3>2. CASE Defaulted(data, f)
      <4>1. n = Converted(d, Plain(d.default)) /\ CanDefault(d) /\ d.default # ""
        BY <3>2, NormalizedField
      <4>2. ~Number(d) => n = Plain(d.default)
        BY <1>1, <4>1, ValueFacts, ConvertedFacts
      <4> QED BY <3>1, <4>1, <4>2 DEF CanDefault
    <3>3. CASE ~Defaulted(data, f)
      <4>1. f \in DOMAIN data /\ n = Converted(d, data[f])
        BY <2>3, <3>3, NormalizedField
      <4>2. data[f] \in Value /\ (~Number(d) => n = data[f])
        BY <1>1, <4>1, DataFacts, ConvertedFacts
      <4>3. Accepts(d, data[f])
        BY <4>1 DEF Normalizes
      <4>4. ~Number(d) => n = Empty \/ ((d.strict => n = Plain("word")) /\ (d.type = "enum" => IsMember(n)))
        BY <4>2, <4>3 DEF Accepts
      <4> QED BY <2>3, <3>1, <4>4
    <3> QED BY <3>2, <3>3
  <2> HIDE DEF d, n, v
  <2>4. Stored(d, n)
    BY <1>4, <2>2, <2>3 DEF Stored
  <2> QED BY <2>1, <2>4 DEF d, v
<1> QED BY <1>5, <1>6

-----------------------------------------------------------------------------
(* The rows. *)
Names == Name \cup {""}
RowType == [name : Name \cup {"", "deleted"}, data : Data]

Types ==
  /\ class \in Definition
  /\ row \in Seq(RowType)
  /\ sent.x \in 0..Len(row)
  /\ given \cup skipped \subseteq (1..Len(row)) \X Field

Kept ==
  \A x \in Rows : \A f \in Field :
    /\ Stored(class.field[f], At(row[x].data, f))
    /\ Owned(x, f, At(row[x].data, f), given, skipped)

RInv == Types /\ Kept

LEMMA RowFacts ==
  ASSUME Types, NEW x \in Rows
  PROVE  /\ x \in 1..Len(row) /\ Len(row) \in Nat /\ row[x] \in RowType /\ row[x].data \in Data
         /\ Fetched(x) \in Data
         /\ \A f : At(Fetched(x), f) = At(row[x].data, f)
<1>1. x \in 1..Len(row) /\ row \in Seq(RowType)
  BY DEF Rows, Types
<1>2. Len(row) \in Nat /\ row[x] \in RowType
  BY <1>1
<1>3. row[x].data \in Data
  BY <1>2 DEF RowType
<1> QED BY <1>1, <1>2, <1>3 DEF Fetched

(* What clients send: texts, or an object as it was shown.                    *)
LEMMA FormFacts ==
  ASSUME NEW form \in Form
  PROVE  form \in Data /\ \A f \in DOMAIN form : form[f].times = 0
<1>1. PICK S \in SUBSET Field : form \in [S -> {Plain(t) : t \in Input}]
  BY DEF Form
<1>2. \A f \in S : form[f] \in Value /\ form[f].times = 0
  <2>1. Input \subseteq Text
    BY RecordsAssumption
  <2> QED BY <1>1, <2>1, TimesFacts
<1>3. form \in [S -> Value]
  BY <1>1, <1>2
<1> QED BY <1>1, <1>2, <1>3, MakesData

Shown(x, form) == form = getObject(x)

LEMMA ShownFacts ==
  ASSUME Types, Kept, NEW x \in Rows, NEW form, Shown(x, form)
  PROVE  /\ form \in Data
         /\ \A f \in Field : /\ At(form, f) = Empty \/ At(form, f) = At(row[x].data, f)
                             /\ ~Crypts(class.field[f]) => At(form, f).times = 0
<1>1. form \in Data /\ \A f : At(form, f) = Empty \/ At(form, f) = At(row[x].data, f)
  BY RowFacts, HiddenFacts DEF getObject, Shown
<1>2. \A f \in Field : ~Crypts(class.field[f]) => At(row[x].data, f).times = 0
  BY DEF Kept, Stored
<1> QED BY <1>1, <1>2, ValueFacts

LEMMA FillInFacts ==
  ASSUME Types, Kept, NEW x \in Rows, NEW form \in Data,
         \A f \in Field : ~Crypts(class.field[f]) => At(form, f).times = 0
  PROVE  /\ FillIn(x, form) \in Data /\ DOMAIN FillIn(x, form) = Field
         /\ \A f \in Field :
              /\ At(FillIn(x, form), f) =
                   IF f \in DOMAIN form /\ class.field[f].enabled THEN At(form, f) ELSE At(Fetched(x), f)
              /\ ~Crypts(class.field[f]) => At(FillIn(x, form), f).times = 0
<1>1. FillIn(x, form) = [f \in Field |-> IF f \in DOMAIN form /\ class.field[f].enabled
                                         THEN form[f] ELSE At(Fetched(x), f)]
  BY DEF FillIn
<1>2. /\ \A f \in DOMAIN form : form[f] = At(form, f) /\ form[f] \in Value
      /\ Fetched(x) \in Data /\ \A f : At(Fetched(x), f) \in Value
  BY RowFacts, DataFacts
<1>3. FillIn(x, form) \in [Field -> Value]
  BY <1>1, <1>2
<1>4. FillIn(x, form) \in Data /\ DOMAIN FillIn(x, form) = Field
  BY <1>3, MakesData
<1>5. \A f \in Field : At(FillIn(x, form), f) =
        IF f \in DOMAIN form /\ class.field[f].enabled THEN At(form, f) ELSE At(Fetched(x), f)
  BY <1>1, <1>2 DEF At
<1>6. \A f \in Field : ~Crypts(class.field[f]) => At(Fetched(x), f).times = 0
  BY RowFacts, ValueFacts DEF Kept, Stored
<1> QED BY <1>4, <1>5, <1>6

LEMMA AppendFacts ==
  ASSUME NEW s \in Seq(RowType), NEW r \in RowType
  PROVE  /\ Append(s, r) \in Seq(RowType) /\ Len(s) \in Nat
         /\ Len(Append(s, r)) = Len(s) + 1 /\ Append(s, r)[Len(s) + 1] = r
         /\ \A y \in 1..Len(s) : Append(s, r)[y] = s[y]
OBVIOUS

LEMMA FilledFacts ==
  ASSUME NEW x, NEW data \in Data, NEW f, At(data, f) # Empty
  PROVE  <<x, f>> \in Filled(x, data)
<1>1. f \in DOMAIN data /\ data[f] # Empty
  BY DataFacts
<1> QED BY <1>1 DEF Filled

LEMMA SkippedFacts ==
  ASSUME NEW data \in Data, NEW f \in Field \ ToCrypt(data), Crypts(class.field[f]),
         At(data, f) # Empty
  PROVE  At(data, f).times > 0 \/ f \in Skipped(data)
<1>1. At(data, f).times \in Nat
  BY DataFacts, ValueFacts
<1> QED BY <1>1 DEF Skipped

(* A new object. *)
LEMMA OwnedByCreate ==
  ASSUME Types, Kept, NEW name \in Names, NEW form \in Form, createObject(name, form),
         NEW old \in Data, Found(name) = {} \/ \E y \in Found(name) : old = Fetched(y), NEW f \in Field
  PROVE  Owned(Len(row) + 1, f, At(Crypted(Normalized(form), old), f), given', skipped')
<1> DEFINE d == class.field[f]
           x == Len(row) + 1
           data == Normalized(form)
           n == At(data, f)
           v == At(Crypted(data, old), f)
<1>m. class.manual => \A y \in Rows : row[y].name # name
  BY DEF createObject
<1>0. Normalizes(form) /\ CanCrypt(data, Found(name)) /\ class \in Definition
  BY DEF createObject, Types
<1>1. /\ given' = given \cup Filled(x, data)
      /\ skipped' = skipped \cup {<<x, g>> : g \in Skipped(data)}
           \cup {<<x, g>> : g \in {h \in Field : \E y \in Found(name) : <<y, h>> \in skipped}}
  BY DEF createObject
<1>2. form \in Data /\ data \in Data
  BY <1>0, FormFacts, NormalizedFacts
<1>3. /\ f \notin ToCrypt(data) => v = n
      /\ f \in ToCrypt(data) /\ n # Empty => v.times > 0
      /\ f \in ToCrypt(data) /\ n = Empty => v = At(old, f) /\ Found(name) # {}
  <2> DEFINE found == Found(name)
  <2> HIDE DEF data, found
  <2>1. CanCrypt(data, found)
    BY <1>0 DEF found
  <2>2. /\ f \notin ToCrypt(data) => At(Crypted(data, old), f) = At(data, f)
        /\ f \in ToCrypt(data) /\ At(data, f) # Empty => At(Crypted(data, old), f).times > 0
        /\ f \in ToCrypt(data) /\ At(data, f) = Empty =>
             At(Crypted(data, old), f) = At(old, f) /\ found # {}
    BY <1>0, <1>2, <2>1, CryptedFacts
  <2> QED BY <2>2 DEF found
<1>4. n # Empty => <<x, f>> \in given'
  BY <1>1, <1>2, FilledFacts
<1>5. d.required /\ d.default # "" => n # Empty
  BY <1>0, <1>2, NormalizedField
<1>6. ASSUME Crypts(d), n # Empty
      PROVE  v.times > 0 \/ <<x, f>> \in skipped'
  <2>1. CASE f \in ToCrypt(data)
    BY <1>3, <1>6, <2>1
  <2>2. CASE f \notin ToCrypt(data)
    <3>1. n.times > 0 \/ f \in Skipped(data)
      BY <1>2, <1>6, <2>2, SkippedFacts
    <3> QED BY <1>1, <1>3, <2>2, <3>1
  <2> QED BY <2>1, <2>2
<1>7. ASSUME Crypts(d), n = Empty, v # Empty
      PROVE  /\ v.times > 0 \/ <<x, f>> \in skipped'
             /\ ~class.manual /\ class.child
  <2>1. v = At(old, f) /\ Found(name) # {}
    BY <1>3, <1>7
  <2>2. PICK y \in Found(name) : old = Fetched(y)
    BY <2>1
  <2>3. y \in Rows /\ ~class.manual /\ class.child
    BY <1>m, <2>2 DEF Found
  <2>4. v = At(row[y].data, f)
    BY <1>7, <2>1, <2>2, <2>3, RowFacts
  <2>5. v.times > 0 \/ <<y, f>> \in skipped
    BY <1>7, <2>3, <2>4 DEF Kept, Owned
  <2>6. <<y, f>> \in skipped => <<x, f>> \in skipped'
    BY <1>1, <2>2
  <2> QED BY <2>3, <2>5, <2>6
<1> HIDE DEF x, v, n, d
<1>8. Crypts(d) /\ v # Empty =>
        /\ v.times > 0 \/ <<x, f>> \in skipped'
        /\ <<x, f>> \in given' \/ (~class.manual /\ class.child) \/ Number(d)
  BY <1>4, <1>6, <1>7
<1>9. d.required /\ d.default # "" => <<x, f>> \in given'
  BY <1>4, <1>5
<1> QED BY <1>8, <1>9 DEF Owned, x, v, d

(* What is found for the fields of it that are empty. *)
IsOld(name, form, old) ==
  /\ row' = Append(row, [name |-> name, data |-> Crypted(Normalized(form), old)])
  /\ Found(name) = {} \/ \E y \in Found(name) : old = Fetched(y)
  /\ \A f \in Field : LET u == At(old, f)
                      IN  u = Empty \/ u.times > 0 \/ u = Converted(class.field[f], u)

LEMMA OldOfCreate ==
  ASSUME Types, Kept, NEW name \in Names, NEW form \in Form, createObject(name, form)
  PROVE  \E old \in Data : IsOld(name, form, old)
<1>1. PICK old \in IF Found(name) = {} THEN {<<>>} ELSE {Fetched(y) : y \in Found(name)} :
        row' = Append(row, [name |-> name, data |-> Crypted(Normalized(form), old)])
  BY DEF createObject
<1>2. CASE Found(name) = {}
  <2>1. old = <<>>
    BY <1>1, <1>2
  <2> QED BY <1>1, <1>2, <2>1, NoData DEF IsOld
<1>3. CASE Found(name) # {}
  <2>1. PICK y \in Found(name) : old = Fetched(y)
    BY <1>1, <1>3
  <2>2. y \in Rows
    BY <2>1 DEF Found
  <2>3. \A f \in Field : Stored(class.field[f], At(row[y].data, f))
    BY <2>2 DEF Kept
  <2>4. \A f \in Field : LET u == At(old, f)
                         IN  u = Empty \/ u.times > 0 \/ u = Converted(class.field[f], u)
    BY <2>1, <2>2, <2>3, RowFacts DEF Stored
  <2>5. old \in Data
    BY <2>1, <2>2, RowFacts
  <2> QED BY <1>1, <2>1, <2>4, <2>5 DEF IsOld
<1> QED BY <1>2, <1>3

LEMMA CreateKeeps ==
  ASSUME RInv, NEW name \in Names, NEW form \in Form, createObject(name, form)
  PROVE  RInv'
<1> DEFINE data == Normalized(form)
           x == Len(row) + 1
<1>1. Types /\ Kept /\ class \in Definition /\ row \in Seq(RowType)
  BY DEF RInv, Types
<1>s. Normalizes(form) /\ CanCrypt(data, Found(name)) /\ class' = class
      /\ sent' = [x |-> 0, fields |-> <<>>]
  BY DEF createObject
<1>g. /\ given' = given \cup Filled(x, data)
      /\ skipped' = skipped \cup {<<x, g>> : g \in Skipped(data)}
           \cup {<<x, g>> : g \in {h \in Field : \E y \in Found(name) : <<y, h>> \in skipped}}
  BY DEF createObject
<1>2. form \in Data /\ data \in Data /\ \A f \in Field : At(form, f).times = 0
  <2>1. form \in Data /\ \A f \in DOMAIN form : form[f].times = 0
    BY FormFacts
  <2>2. \A f \in Field : At(form, f).times = 0
    BY <2>1, TimesFacts DEF At
  <2> QED BY <1>1, <2>1, <2>2, NormalizedFacts
<1>3. PICK old \in Data : IsOld(name, form, old)
  BY <1>1, OldOfCreate
<1>4. row' = Append(row, [name |-> name, data |-> Crypted(data, old)])
  BY <1>3 DEF IsOld
<1>5. Found(name) = {} \/ \E y \in Found(name) : old = Fetched(y)
  BY <1>3 DEF IsOld
<1>6. \A f \in Field : LET u == At(old, f)
                       IN  u = Empty \/ u.times > 0 \/ u = Converted(class.field[f], u)
  BY <1>3 DEF IsOld
<1> DEFINE new == [name |-> name, data |-> Crypted(data, old)]
<1>7. new \in RowType
  <2>1. Crypted(data, old) \in Data
    BY <1>1, <1>s, <1>2, CryptedFacts
  <2> QED BY <2>1 DEF RowType, Names
<1>8. /\ row' \in Seq(RowType) /\ Len(row) \in Nat /\ Len(row') = Len(row) + 1 /\ row'[x] = new
      /\ \A y \in 1..Len(row) : row'[y] = row[y]
  <2>1. row' = Append(row, new)
    BY <1>4
  <2> HIDE DEF new
  <2> QED BY <1>1, <1>7, <2>1, AppendFacts
<1>n. Len(row) \in Nat /\ Len(row') = Len(row) + 1 /\ 1..Len(row') = (1..Len(row)) \cup {x}
  <2>1. Len(row) \in Nat /\ Len(row') = Len(row) + 1
    BY <1>8
  <2> QED BY <2>1
<1>9. Types'
  <2> HIDE DEF x, data
  <2>1. Filled(x, data) \subseteq {x} \X Field /\ Skipped(data) \subseteq Field
    <3>1. DOMAIN data \subseteq Field
      BY <1>2, DataFacts
    <3>2. ASSUME NEW p \in Filled(x, data) PROVE p \in {x} \X Field
      <4>1. PICK f \in DOMAIN data : p = <<x, f>>
        BY <3>2 DEF Filled
      <4> QED BY <3>1, <4>1
    <3>3. Skipped(data) \subseteq Field
      BY DEF Skipped
    <3> QED BY <3>2, <3>3
  <2>2. given \cup skipped \subseteq (1..Len(row)) \X Field
    BY <1>1 DEF Types
  <2>3. given' \cup skipped' \subseteq ((1..Len(row)) \cup {x}) \X Field
    <3>1. ASSUME NEW p \in given' PROVE p \in ((1..Len(row)) \cup {x}) \X Field
      BY <1>g, <2>1, <2>2, <3>1
    <3>2. ASSUME NEW p \in skipped' PROVE p \in ((1..Len(row)) \cup {x}) \X Field
      <4>1. CASE p \in skipped
        BY <2>2, <4>1
      <4>2. ASSUME NEW g \in Field, p = <<x, g>> PROVE p \in ((1..Len(row)) \cup {x}) \X Field
        BY <4>2
      <4>3. p \in skipped \/ \E g \in Field : p = <<x, g>>
        BY <1>g, <2>1, <3>2
      <4> QED BY <4>1, <4>2, <4>3
    <3> QED BY <3>1, <3>2
  <2>4. (1..Len(row)) \cup {x} \subseteq 1..Len(row')
    BY <1>n
  <2>5. sent'.x \in 0..Len(row')
    <3>1. sent'.x = 0
      BY <1>s
    <3>2. 0 \in 0..Len(row')
      BY <1>n
    <3> QED BY <3>1, <3>2
  <2> QED BY <1>1, <1>s, <1>8, <2>3, <2>4, <2>5 DEF Types
<1>10. ASSUME NEW y \in Rows', NEW f \in Field
       PROVE  /\ Stored(class.field[f], At(row'[y].data, f))
              /\ Owned(y, f, At(row'[y].data, f), given', skipped')
  <2>1. CASE y = x
    <3>1. row'[y].data = Crypted(data, old)
      <4>1. row'[y] = [name |-> name, data |-> Crypted(data, old)]
        BY <1>8, <2>1
      <4> QED BY <4>1
    <3>2. Stored(class.field[f], At(Crypted(data, old), f))
      BY <1>1, <1>s, <1>2, <1>5, <1>6, StoredField
    <3>3. Owned(x, f, At(Crypted(data, old), f), given', skipped')
      BY <1>1, <1>5, OwnedByCreate
    <3> QED BY <2>1, <3>1, <3>2, <3>3
  <2>2. CASE y # x
    <3>1. y \in 1..Len(row) /\ row'[y] = row[y] /\ y \in Rows
      <4>1. y \in 1..Len(row') /\ row'[y] # NoRow
        BY <1>10 DEF Rows
      <4>2. y \in 1..Len(row)
        BY <1>n, <2>2, <4>1
      <4> QED BY <1>8, <4>1, <4>2 DEF Rows
    <3>2. /\ Stored(class.field[f], At(row[y].data, f))
          /\ Owned(y, f, At(row[y].data, f), given, skipped)
      BY <1>1, <3>1 DEF Kept
    <3>3. Owned(y, f, At(row[y].data, f), given', skipped')
      BY <1>g, <3>2 DEF Owned
    <3> QED BY <3>1, <3>2, <3>3
  <2> QED BY <2>1, <2>2
<1>11. Kept'
  BY <1>s, <1>10 DEF Kept, Owned
<1> QED BY <1>9, <1>11 DEF RInv

(* An object that is updated. *)
UpdatedOf(x, form) == Crypted(Normalized(FillIn(x, form)), Fetched(x))

LEMMA UpdateFacts ==
  ASSUME Types, Kept, NEW x \in Rows, NEW form \in Data, updateObject(x, form),
         \A f \in Field : ~Crypts(class.field[f]) => At(form, f).times = 0
  PROVE  LET all == FillIn(x, form)
             data == Normalized(all)
         IN  /\ all \in Data /\ data \in Data /\ UpdatedOf(x, form) \in Data /\ Fetched(x) \in Data
             /\ Normalizes(all) /\ CanCrypt(data, {x}) /\ class \in Definition
             /\ \A f \in Field :
                  /\ f \notin ToCrypt(data) => At(UpdatedOf(x, form), f) = At(data, f)
                  /\ f \in ToCrypt(data) /\ At(data, f) # Empty => At(UpdatedOf(x, form), f).times > 0
                  /\ f \in ToCrypt(data) /\ At(data, f) = Empty =>
                       At(UpdatedOf(x, form), f) = At(Fetched(x), f)
<1> DEFINE all == FillIn(x, form)
           data == Normalized(all)
<1>1. Normalizes(all) /\ CanCrypt(data, {x}) /\ class \in Definition
  BY DEF updateObject, Types
<1>2. all \in Data /\ Fetched(x) \in Data
  BY FillInFacts, RowFacts
<1>3. data \in Data
  BY <1>1, <1>2, NormalizedFacts
<1> HIDE DEF data
<1>4. Crypted(data, Fetched(x)) \in Data
  BY <1>1, <1>2, <1>3, CryptedFacts
<1>5. ASSUME NEW f \in Field
      PROVE  /\ f \notin ToCrypt(data) => At(Crypted(data, Fetched(x)), f) = At(data, f)
             /\ f \in ToCrypt(data) /\ At(data, f) # Empty => At(Crypted(data, Fetched(x)), f).times > 0
             /\ f \in ToCrypt(data) /\ At(data, f) = Empty =>
                  At(Crypted(data, Fetched(x)), f) = At(Fetched(x), f)
  BY <1>1, <1>2, <1>3, CryptedFacts
<1> QED BY <1>1, <1>2, <1>3, <1>4, <1>5 DEF UpdatedOf, data

LEMMA OwnedByUpdate ==
  ASSUME Types, Kept, NEW x \in Rows, NEW form \in Data, updateObject(x, form),
         \A f \in Field : ~Crypts(class.field[f]) => At(form, f).times = 0, NEW f \in Field
  PROVE  Owned(x, f, At(UpdatedOf(x, form), f), given', skipped')
<1> DEFINE d == class.field[f]
           all == FillIn(x, form)
           data == Normalized(all)
           n == At(data, f)
           v == At(UpdatedOf(x, form), f)
           old == At(row[x].data, f)
           fetched == At(Fetched(x), f)
<1>1. /\ given' = given \cup Filled(x, form)
      /\ skipped' = skipped \cup {<<x, g>> : g \in Skipped(data)}
  BY DEF updateObject
<1>2. /\ f \notin ToCrypt(data) => v = n
      /\ f \in ToCrypt(data) /\ n # Empty => v.times > 0
      /\ f \in ToCrypt(data) /\ n = Empty => v = fetched
  BY UpdateFacts
<1>3. fetched = Empty \/ fetched = old
  BY RowFacts
<1>4. Owned(x, f, old, given, skipped)
  BY DEF Kept
<1>5. all \in Data /\ data \in Data /\ Normalizes(all) /\ class \in Definition
  BY UpdateFacts
<1>6. ASSUME Crypts(d), n # Empty
      PROVE  v.times > 0 \/ <<x, f>> \in skipped'
  <2>1. CASE f \in ToCrypt(data)
    BY <1>2, <1>6, <2>1
  <2>2. CASE f \notin ToCrypt(data)
    <3>1. n.times > 0 \/ f \in Skipped(data)
      BY <1>5, <1>6, <2>2, SkippedFacts
    <3> QED BY <1>1, <1>2, <2>2, <3>1
  <2> QED BY <2>1, <2>2
<1>7. ASSUME Crypts(d), n # Empty, ~Number(d)
      PROVE  <<x, f>> \in given' \/ (~class.manual /\ class.child)
  <2>1. CASE Defaulted(all, f)
    <3>1. d.required /\ d.default # ""
      BY <2>1 DEF Defaulted
    <3> QED BY <1>1, <1>4, <3>1 DEF Owned
  <2>2. CASE ~Defaulted(all, f)
    <3>1. f \in DOMAIN all /\ n = Converted(d, all[f])
      BY <1>5, <1>7, <2>2, NormalizedField
    <3>2. n = all[f] /\ all[f] = At(all, f)
      BY <1>5, <1>7, <3>1, FieldDefs, DataFacts, ConvertedFacts
    <3>3. At(all, f) = At(form, f) \/ At(all, f) = fetched
      BY FillInFacts
    <3>4. CASE At(form, f) # Empty
      BY <1>1, <3>4, FilledFacts
    <3>5. CASE fetched # Empty
      BY <1>1, <1>3, <1>4, <1>7, <3>5 DEF Owned
    <3> QED BY <1>7, <3>2, <3>3, <3>4, <3>5
  <2> QED BY <2>1, <2>2
<1>8. ASSUME Crypts(d), n = Empty, v # Empty
      PROVE  /\ v.times > 0 \/ <<x, f>> \in skipped'
             /\ <<x, f>> \in given' \/ (~class.manual /\ class.child) \/ Number(d)
  <2>1. v = old
    BY <1>2, <1>3, <1>8
  <2> QED BY <1>1, <1>4, <1>8, <2>1 DEF Owned
<1> HIDE DEF d, n, v, old
<1>9. d.required /\ d.default # "" => <<x, f>> \in given'
  BY <1>1, <1>4 DEF Owned, d
<1>10. Crypts(d) /\ v # Empty =>
         /\ v.times > 0 \/ <<x, f>> \in skipped'
         /\ <<x, f>> \in given' \/ (~class.manual /\ class.child) \/ Number(d)
  BY <1>6, <1>7, <1>8
<1> QED BY <1>9, <1>10 DEF Owned, v, d

(* Clients send texts, or an object as it was shown. *)
Sendable(x, form) == form \in Form \/ Shown(x, form)

LEMMA SendableFacts ==
  ASSUME Types, Kept, NEW x \in Rows, NEW form, Sendable(x, form)
  PROVE  form \in Data /\ \A f \in Field : ~Crypts(class.field[f]) => At(form, f).times = 0
<1>1. CASE form \in Form
  <2>1. form \in Data /\ \A f \in DOMAIN form : form[f].times = 0
    BY <1>1, FormFacts
  <2>2. \A f \in Field : At(form, f).times = 0
    BY <2>1, TimesFacts DEF At
  <2> QED BY <2>1, <2>2
<1>2. CASE Shown(x, form)
  BY <1>2, ShownFacts
<1> QED BY <1>1, <1>2 DEF Sendable

LEMMA UpdateStays ==
  ASSUME RInv, NEW x \in Rows, NEW form, Sendable(x, form), updateObject(x, form)
  PROVE  RInv'
<1> DEFINE data == Normalized(FillIn(x, form))
           new == UpdatedOf(x, form)
<1>1. Types /\ Kept /\ class \in Definition /\ row \in Seq(RowType)
  BY DEF RInv, Types
<1>2. form \in Data /\ \A f \in Field : ~Crypts(class.field[f]) => At(form, f).times = 0
  BY <1>1, SendableFacts
<1>3. /\ given' = given \cup Filled(x, form) /\ class' = class
      /\ skipped' = skipped \cup {<<x, g>> : g \in Skipped(data)}
      /\ sent' = [x |-> x, fields |-> form]
  BY DEF updateObject
<1>4. /\ FillIn(x, form) \in Data /\ data \in Data /\ new \in Data /\ Fetched(x) \in Data
      /\ Normalizes(FillIn(x, form)) /\ CanCrypt(data, {x})
  BY <1>1, <1>2, UpdateFacts
<1>5. x \in 1..Len(row) /\ Len(row) \in Nat /\ row[x] \in RowType
  BY <1>1, RowFacts
<1>6. row' = [row EXCEPT ![x].data = new]
  BY DEF updateObject, UpdatedOf
<1>7. /\ row' \in Seq(RowType) /\ Len(row') = Len(row)
      /\ row'[x] \in RowType /\ row'[x].data = new
      /\ \A y \in 1..Len(row) : y # x => row'[y] = row[y]
  <2> HIDE DEF new
  <2>1. [row[x] EXCEPT !.data = new] \in RowType /\ [row[x] EXCEPT !.data = new].data = new
    BY <1>4, <1>5 DEF RowType
  <2>2. row' = [row EXCEPT ![x] = [row[x] EXCEPT !.data = new]]
    BY <1>6
  <2> QED BY <1>1, <1>5, <2>1, <2>2
<1>8. Types'
  <2> HIDE DEF data
  <2>1. Filled(x, form) \subseteq {x} \X Field
    <3>1. DOMAIN form \subseteq Field
      BY <1>2, DataFacts
    <3>2. ASSUME NEW p \in Filled(x, form) PROVE p \in {x} \X Field
      <4>1. PICK f \in DOMAIN form : p = <<x, f>>
        BY <3>2 DEF Filled
      <4> QED BY <3>1, <4>1
    <3> QED BY <3>2
  <2>2. Skipped(data) \subseteq Field
    BY DEF Skipped
  <2>3. given \cup skipped \subseteq (1..Len(row)) \X Field
    BY <1>1 DEF Types
  <2>4. given' \cup skipped' \subseteq (1..Len(row)) \X Field
    <3>1. {x} \X Field \subseteq (1..Len(row)) \X Field
      BY <1>5
    <3> QED BY <1>3, <2>1, <2>2, <2>3, <3>1
  <2>5. sent'.x \in 0..Len(row')
    <3>1. sent'.x = x
      BY <1>3
    <3> QED BY <1>5, <1>7, <3>1
  <2> QED BY <1>1, <1>3, <1>7, <2>4, <2>5 DEF Types
<1>9. ASSUME NEW y \in Rows', NEW f \in Field
      PROVE  /\ Stored(class.field[f], At(row'[y].data, f))
             /\ Owned(y, f, At(row'[y].data, f), given', skipped')
  <2>1. CASE y = x
    <3>1. /\ FillIn(x, form) \in Data
          /\ ~Crypts(class.field[f]) => At(FillIn(x, form), f).times = 0
      BY <1>1, <1>2, FillInFacts
    <3>2. Stored(class.field[f], At(row[x].data, f))
      BY <1>1 DEF Kept
    <3>3. LET u == At(Fetched(x), f) IN u = Empty \/ u.times > 0 \/ u = Converted(class.field[f], u)
      BY <1>1, <3>2, RowFacts DEF Stored
    <3>4. Stored(class.field[f], At(new, f))
      <4>1. Stored(class.field[f], At(Crypted(data, Fetched(x)), f))
        BY <1>1, <1>4, <3>1, <3>3, StoredField
      <4> QED BY <4>1 DEF UpdatedOf
    <3>5. Owned(x, f, At(new, f), given', skipped')
      BY <1>1, <1>2, OwnedByUpdate
    <3> QED BY <1>7, <2>1, <3>4, <3>5
  <2>2. CASE y # x
    <3>1. row'[y] = row[y] /\ y \in Rows
      <4>1. y \in 1..Len(row') /\ row'[y] # NoRow
        BY <1>9 DEF Rows
      <4> QED BY <1>7, <2>2, <4>1 DEF Rows
    <3>2. /\ Stored(class.field[f], At(row[y].data, f))
          /\ Owned(y, f, At(row[y].data, f), given, skipped)
      BY <1>1, <3>1 DEF Kept
    <3>3. Owned(y, f, At(row[y].data, f), given', skipped')
      BY <1>3, <3>2 DEF Owned
    <3> QED BY <3>1, <3>2, <3>3
  <2> QED BY <2>1, <2>2
<1>10. Kept'
  BY <1>3, <1>9 DEF Kept, Owned
<1> QED BY <1>8, <1>10 DEF RInv

LEMMA DeleteKeeps ==
  ASSUME RInv, NEW x \in Rows, deleteObject(x)
  PROVE  RInv'
<1>1. Types /\ Kept /\ row \in Seq(RowType) /\ sent' = [x |-> 0, fields |-> <<>>]
      /\ class' = class /\ given' = given /\ skipped' = skipped /\ row' = [row EXCEPT ![x] = NoRow]
  BY DEF RInv, Types, deleteObject
<1>2. x \in 1..Len(row) /\ Len(row) \in Nat
  BY <1>1, RowFacts
<1>3. NoRow \in RowType
  BY NoData DEF NoRow, RowType
<1>4. /\ row' \in Seq(RowType) /\ Len(row') = Len(row) /\ row'[x] = NoRow
      /\ \A y \in 1..Len(row) : y # x => row'[y] = row[y]
  BY <1>1, <1>2, <1>3
<1>5. Types'
  <2>1. sent'.x = 0
    BY <1>1
  <2>2. sent'.x \in 0..Len(row')
    BY <1>2, <1>4, <2>1
  <2> QED BY <1>1, <1>4, <2>2 DEF Types
<1>6. ASSUME NEW y \in Rows' PROVE y \in Rows /\ row'[y] = row[y]
  BY <1>4, <1>6 DEF Rows
<1>7. Kept'
  BY <1>1, <1>6 DEF Kept, Owned
<1> QED BY <1>5, <1>7 DEF RInv

LEMMA RInvInit == Init => RInv
<1> SUFFICES ASSUME Init PROVE RInv
  OBVIOUS
<1>1. row = <<>> /\ Rows = {}
  BY DEF Init, Rows
<1>2. sent.x = 0 /\ class \in Definition /\ given = {} /\ skipped = {}
  BY DEF Init
<1>3. Types
  BY <1>1, <1>2 DEF Types
<1> QED BY <1>1, <1>3 DEF RInv, Kept

LEMMA RInvStep == RInv /\ [Next]_vars => RInv'
<1> SUFFICES ASSUME RInv, [Next]_vars PROVE RInv'
  OBVIOUS
<1>1. CASE Next
  <2>1. CASE \E name \in Name \cup {""}, form \in Form : createObject(name, form)
    BY <2>1, CreateKeeps DEF Names
  <2>2. CASE \E x \in Rows, form \in Form : updateObject(x, form)
    BY <2>2, UpdateStays DEF Sendable
  <2>3. CASE \E x \in Rows : updateObject(x, getObject(x))
    BY <2>3, UpdateStays DEF Sendable, Shown
  <2>4. CASE \E x \in Rows : deleteObject(x)
    BY <2>4, DeleteKeeps
  <2> QED BY <1>1, <2>1, <2>2, <2>3, <2>4 DEF Next
<1>2. CASE UNCHANGED vars
  <2>1. class' = class /\ row' = row /\ sent' = sent /\ given' = given /\ skipped' = skipped
    BY <1>2 DEF vars
  <2> QED BY <2>1 DEF RInv, Types, Kept, Rows, Owned
<1> QED BY <1>1, <1>2

LEMMA AlwaysRInv == Spec => []RInv
BY RInvInit, RInvStep, PTL DEF Spec

-----------------------------------------------------------------------------
(* Rows hold values of the fields of the class, numbers and truth values as     *)
(* normalize writes them back (CoreClass::normalize, DBManager::createObject).  *)
THEOREM FieldsHaveTypes == Spec => []TypeOK
<1>1. RInv => TypeOK
  <2> SUFFICES ASSUME RInv PROVE TypeOK
    OBVIOUS
  <2>1. Types /\ Kept
    BY DEF RInv
  <2>2. row \in Seq([name : Name \cup {"", "deleted"}, data : UNION {[S -> Value] : S \in SUBSET Field}])
    BY <2>1 DEF Types, RowType, Data
  <2>3. ASSUME NEW x \in Rows, NEW f \in DOMAIN row[x].data
        PROVE  LET d == class.field[f] v == row[x].data[f]
               IN  v = Empty \/ v.times > 0 \/ v = Converted(d, v)
    <3>1. f \in Field /\ row[x].data[f] = At(row[x].data, f)
      BY <2>1, RowFacts, DataFacts
    <3> QED BY <2>1, <3>1 DEF Kept, Stored
  <2> QED BY <2>1, <2>2, <2>3 DEF Types, TypeOK
<1> QED BY <1>1, AlwaysRInv, PTL

(* The password stored for an object is crypted and is one that was given to    *)
(* it, with the exceptions that PasswordIsOwn names (handleCrypts and its       *)
(* callers createObject and updateObject of CoreSession).                     *)
THEOREM PasswordsAreTheirOwn == Spec => []PasswordIsOwn
<1>1. RInv => PasswordIsOwn
  <2> SUFFICES ASSUME RInv, NEW x \in Rows, NEW f \in Field,
                      Crypts(class.field[f]), At(row[x].data, f) # Empty
               PROVE  /\ At(row[x].data, f).times > 0 \/ <<x, f>> \in skipped
                      /\ \/ <<x, f>> \in given \/ (~class.manual /\ class.child)
                         \/ class.field[f].type \in {"integer", "bool"}
    BY DEF PasswordIsOwn
  <2>1. Owned(x, f, At(row[x].data, f), given, skipped)
    BY DEF RInv, Kept
  <2> QED BY <2>1 DEF Owned, Number
<1> QED BY <1>1, AlwaysRInv, PTL

(* What an update is made of that changes no field. *)
LEMMA Unchanged ==
  ASSUME RInv, NEW x \in Rows, NEW f \in Field, ~Stuck(x, f)
  PROVE  LET all == FillIn(x, <<>>)
             d == class.field[f]
         IN  /\ Accepts(d, At(all, f))
             /\ At(Typed(all), f) = Empty /\ d.required => CanDefault(d)
             /\ At(Normalized(all), f) \notin {Empty, Plain("pre")} /\ Crypts(d) =>
                  d.crypt # "other" /\ At(Normalized(all), f).times <= MaxTimes
<1> DEFINE all == FillIn(x, <<>>)
           d == class.field[f]
           old == At(row[x].data, f)
           fetched == At(Fetched(x), f)
           n == At(Normalized(all), f)
<1>1. Types /\ Kept /\ class \in Definition
  BY DEF RInv, Types
<1>2. /\ d \in FieldDef /\ d.default \in Text
      /\ d.type \in {"string", "password", "integer", "bool", "enum"}
      /\ d.required \in BOOLEAN /\ d.strict \in BOOLEAN
  BY <1>1, FieldDefs
<1>3. <<>> \in Data /\ DOMAIN <<>> = {} /\ \A g : At(<<>>, g) = Empty
  BY NoData
<1>4. /\ all \in Data /\ DOMAIN all = Field /\ At(all, f) = fetched
      /\ all[f] = fetched
  <2>1. \A g \in Field : ~Crypts(class.field[g]) => At(<<>>, g).times = 0
    BY <1>3, TimesFacts
  <2>2. all \in Data /\ DOMAIN all = Field /\ At(all, f) = fetched
    BY <1>1, <1>3, <2>1, FillInFacts
  <2> QED BY <2>2, DataFacts
<1>5. fetched = old /\ old \in Value /\ fetched \in Value
  BY <1>1, RowFacts, DataFacts
<1>6. Stored(d, old)
  BY <1>1 DEF Kept
<1>7. ~Stuck(x, f)
  OBVIOUS
<1>8. /\ ~(d.strict /\ (Crypts(d) \/ Number(d) \/ d.default \notin {"", "word"}))
      /\ ~(d.type = "enum" /\ (Crypts(d) \/ fetched = Empty))
      /\ d.crypt # "other" /\ ~(old.times > MaxTimes)
  BY <1>7 DEF Stuck, Number
<1>9. At(Typed(all), f) = Converted(d, fetched)
  BY <1>1, <1>4, TypedFacts
<1>t. old.times \in Nat /\ fetched.times \in Nat /\ MaxTimes \in Nat /\ Empty.times = 0
  BY <1>5, ValueFacts
<1> HIDE DEF all, d, old, fetched, n
<1>10. ASSUME fetched # Empty
       PROVE  fetched = old /\ old # Empty
  BY <1>5, <1>10
<1>11. Accepts(d, fetched)
  <2>1. d.strict /\ fetched # Empty => fetched = Plain("word")
    BY <1>6, <1>8, <1>10 DEF Stored
  <2>2. d.type = "enum" => IsMember(fetched)
    BY <1>6, <1>8, <1>10 DEF Stored
  <2> QED BY <2>1, <2>2 DEF Accepts
<1>12. ASSUME Converted(d, fetched) = Empty, d.required
       PROVE  CanDefault(d)
  <2>1. ~Number(d) /\ fetched = Empty
    BY <1>2, <1>5, <1>12, ConvertedFacts
  <2>2. d.type # "enum"
    BY <1>8, <2>1
  <2>3. old = Empty
    BY <1>5, <2>1
  <2>4. d.default = "" /\ d.type = "password"
    BY <1>6, <1>12, <2>3 DEF Stored
  <2> QED BY <2>4 DEF CanDefault
<1>13. ASSUME n \notin {Empty, Plain("pre")}
       PROVE  n.times <= MaxTimes
  <2>1. n = (IF Defaulted(all, f) THEN Converted(d, Plain(d.default)) ELSE Converted(d, fetched))
    <3>1. n = IF Defaulted(all, f) THEN Converted(d, Plain(d.default)) ELSE At(Typed(all), f)
      BY <1>1, <1>4, NormalizedFacts DEF n, d
    <3> QED BY <1>9, <3>1
  <2>2. CASE Defaulted(all, f)
    <3>1. Plain(d.default) \in Value /\ Plain(d.default).times = 0
      BY <1>2, ValueFacts
    <3>2. Converted(d, Plain(d.default)) \in Value
          /\ Converted(d, Plain(d.default)).times <= Plain(d.default).times
      BY <1>2, <3>1, ConvertedFacts
    <3>3. Converted(d, Plain(d.default)).times \in Nat
      BY <3>2, TimesFacts
    <3>4. n.times = Converted(d, Plain(d.default)).times
      BY <2>1, <2>2
    <3> QED BY <1>t, <3>1, <3>2, <3>3, <3>4
  <2>3. CASE ~Defaulted(all, f)
    <3>1. Converted(d, fetched) \in Value /\ Converted(d, fetched).times <= fetched.times
      BY <1>2, <1>5, ConvertedFacts
    <3>2. Converted(d, fetched).times \in Nat
      BY <3>1, TimesFacts
    <3>3. n.times = Converted(d, fetched).times
      BY <2>1, <2>3
    <3>4. fetched.times <= MaxTimes
      <4>1. fetched.times = Empty.times \/ fetched.times = old.times
        BY <1>5
      <4>2. ~(old.times > MaxTimes)
        BY <1>8
      <4> QED BY <1>t, <4>1, <4>2
    <3> QED BY <1>t, <3>1, <3>2, <3>3, <3>4
  <2> QED BY <2>2, <2>3
<1> QED BY <1>4, <1>8, <1>9, <1>11, <1>12, <1>13 DEF d, n, all

(* An object can be updated without a change of any field, but for the fields   *)
(* that Stuck names: its values pass CoreClass::normalize and handleCrypts      *)
(* again (CoreSession::updateObject).                                       *)
THEOREM ObjectsStayUpdatable == Spec => []StaysUpdatable
<1>1. RInv => StaysUpdatable
  <2> SUFFICES ASSUME RInv, NEW x \in Rows, \A f \in Field : ~Stuck(x, f)
               PROVE  LET all == FillIn(x, <<>>)
                      IN  Normalizes(all) /\ CanCrypt(Normalized(all), {x})
    BY DEF StaysUpdatable
  <2> DEFINE all == FillIn(x, <<>>)
             data == Normalized(all)
  <2>1. Types /\ Kept /\ class \in Definition
    BY DEF RInv, Types
  <2>2. all \in Data /\ DOMAIN all = Field /\ \A f \in Field : all[f] = At(all, f)
    <3>1. <<>> \in Data /\ \A f \in Field : ~Crypts(class.field[f]) => At(<<>>, f).times = 0
      BY NoData, TimesFacts
    <3>2. all \in Data /\ DOMAIN all = Field
      BY <2>1, <3>1, FillInFacts
    <3> QED BY <3>2, DataFacts
  <2>3. Normalizes(all)
    <3>1. \A f \in DOMAIN all : Accepts(class.field[f], all[f])
      BY <2>2, Unchanged
    <3>2. \A f \in Missing(Typed(all)) : CanDefault(class.field[f])
      BY Unchanged DEF Missing
    <3> QED BY <3>1, <3>2 DEF Normalizes
  <2>4. CanCrypt(data, {x})
    <3>1. \A f \in ToCrypt(data) : f \in Field /\ Crypts(class.field[f])
      BY ToCryptFacts
    <3>2. ASSUME NEW f \in ToCrypt(data), At(data, f) \notin {Empty, Plain("pre")}
          PROVE  class.field[f].crypt # "other" /\ At(data, f).times <= MaxTimes
      BY <3>1, <3>2, Unchanged
    <3> HIDE DEF data
    <3> QED BY <3>2 DEF CanCrypt
  <2> QED BY <2>3, <2>4
<1> QED BY <1>1, AlwaysRInv, PTL

(* Nothing but the text itself becomes a pre-crypted text. *)
LEMMA ConvertedPre ==
  ASSUME NEW d \in FieldDef, NEW v \in Value, Converted(d, v) = Plain("pre")
  PROVE  v = Plain("pre")
<1>1. /\ Plain("0").text = "0" /\ Plain("1").text = "1" /\ Plain("pre").text = "pre"
      /\ Plain("true").text = "true" /\ Plain("false").text = "false"
  BY ValueFacts DEF Text
<1>2. CASE d.type = "integer"
  <2>1. Converted(d, v) = Plain("1") \/ Converted(d, v) = Plain("0")
    BY <1>2 DEF Converted
  <2> QED BY <1>1, <2>1
<1>3. CASE d.type = "bool"
  <2>1. Converted(d, v) = Plain("true") \/ Converted(d, v) = Plain("false")
    BY <1>3 DEF Converted
  <2> QED BY <1>1, <2>1
<1>4. CASE d.type \notin {"integer", "bool"}
  BY <1>4 DEF Converted
<1> QED BY <1>2, <1>3, <1>4

(* Without a pre-crypted text in another field, handleCrypts comes to f. *)
LEMMA ComesTo ==
  ASSUME Types, Kept, NEW x \in Rows, NEW form \in Data, updateObject(x, form),
         \A g \in Field : ~Crypts(class.field[g]) => At(form, g).times = 0,
         NEW f \in Field, Crypts(class.field[f]), ~PreBefore(x, f, form)
  PROVE  f \in ToCrypt(Normalized(FillIn(x, form)))
<1> DEFINE all == FillIn(x, form)
           data == Normalized(all)
<1>1. PICK i \in DOMAIN Fields : f = Fields[i]
  BY DEF Field
<1>2. DOMAIN Fields = 1..Len(Fields) /\ Len(Fields) \in Nat
  <2>1. Fields \in Seq(Field)
    BY RecordsAssumption
  <2> HIDE DEF Field
  <2> QED BY <2>1
<1>3. all \in Data /\ data \in Data /\ Normalizes(all) /\ class \in Definition /\ DOMAIN all = Field
  BY UpdateFacts, FillInFacts
<1> HIDE DEF data
<1>4. ASSUME NEW j \in 1..i - 1 PROVE ~Pre(data, j)
  <2> DEFINE g == Fields[j]
             d == class.field[g]
  <2>1. j \in DOMAIN Fields /\ j # i
    BY <1>2
  <2>2. g \in Field \ {f}
    BY <1>1, <2>1, RecordsAssumption DEF Field
  <2>3. d \in FieldDef /\ d.default \in Text /\ Plain(d.default) \in Value
    BY <1>3, <2>2, FieldDefs, ValueFacts
  <2>4. /\ At(form, g) # Plain("pre") /\ At(row[x].data, g) # Plain("pre")
        /\ Plain(d.default) # Plain("pre")
    BY <2>2 DEF PreBefore
  <2>5. At(all, g) # Plain("pre") /\ all[g] = At(all, g) /\ all[g] \in Value
    <3>1. At(Fetched(x), g) = Empty \/ At(Fetched(x), g) = At(row[x].data, g)
      BY RowFacts
    <3>2. At(all, g) = At(form, g) \/ At(all, g) = At(Fetched(x), g)
      BY <2>2, FillInFacts
    <3>3. Empty # Plain("pre")
      <4>1. Empty.text = "" /\ Plain("pre").text = "pre"
        BY ValueFacts DEF Text
      <4> QED BY <4>1
    <3> QED BY <1>3, <2>2, <2>4, <3>1, <3>2, <3>3, DataFacts
  <2>6. \/ At(data, g) = Converted(d, Plain(d.default))
        \/ At(data, g) = Converted(d, all[g])
    BY <1>3, <2>2, NormalizedField DEF data
  <2>7. At(data, g) # Plain("pre")
    BY <2>3, <2>4, <2>5, <2>6, ConvertedPre
  <2> QED BY <2>7 DEF Pre
<1> QED BY <1>1, <1>4 DEF ToCrypt, data

LEMMA FieldStays ==
  ASSUME RInv, NEW x \in Rows, NEW form, Sendable(x, form), updateObject(x, form), NEW f \in Field,
         \/ f \notin DOMAIN form \/ ~class.field[f].enabled
         \/ form[f] = At(getObject(x), f),
         ~NotKept(class.field[f], x, f, form, At(row[x].data, f))
  PROVE  At(UpdatedOf(x, form), f) = At(row[x].data, f)
<1> DEFINE d == class.field[f]
           all == FillIn(x, form)
           data == Normalized(all)
           n == At(data, f)
           v == At(UpdatedOf(x, form), f)
           before == At(row[x].data, f)
           fetched == At(Fetched(x), f)
           shown == At(form, f)
<1>1. Types /\ Kept /\ class \in Definition
  BY DEF RInv, Types
<1>2. form \in Data /\ \A g \in Field : ~Crypts(class.field[g]) => At(form, g).times = 0
  BY <1>1, SendableFacts
<1>3. all \in Data /\ data \in Data /\ Normalizes(all) /\ DOMAIN all = Field
  BY <1>1, <1>2, UpdateFacts, FillInFacts
<1>4. /\ f \notin ToCrypt(data) => v = n
      /\ f \in ToCrypt(data) /\ n = Empty => v = fetched
  BY <1>1, <1>2, UpdateFacts
<1>5. /\ all[f] = At(all, f) /\ all[f] \in Value
      /\ At(all, f) = IF f \in DOMAIN form /\ d.enabled THEN shown ELSE fetched
  BY <1>1, <1>2, <1>3, DataFacts, FillInFacts
<1>6. fetched = before /\ before \in Value
  BY <1>1, RowFacts, DataFacts
<1>7. /\ f \notin DOMAIN form => shown = Empty
      /\ f \in DOMAIN form => shown = form[f]
  BY <1>2, DataFacts
<1>8. At(getObject(x), f) = IF d.type = "password" THEN Empty ELSE fetched
  BY <1>1, RowFacts, HiddenFacts DEF getObject
<1>9. Stored(d, before)
  BY <1>1 DEF Kept
<1>10. /\ d \in FieldDef /\ Plain(d.default) \in Value
       /\ d.required \in BOOLEAN /\ d.enabled \in BOOLEAN
  BY <1>1, FieldDefs, ValueFacts
<1>11. \/ f \notin DOMAIN form \/ ~d.enabled
       \/ form[f] = At(getObject(x), f)
  OBVIOUS
<1>12. ~NotKept(d, x, f, form, before)
  OBVIOUS
<1>13. /\ ~(d.type = "password" /\ ~Crypts(d) /\ f \in DOMAIN form)
       /\ Crypts(d) => f \in DOMAIN form /\ d.type = "password"
       /\ Crypts(d) => ~PreBefore(x, f, form)
       /\ before = Empty => ~Number(d) /\ ~d.required
  BY <1>12 DEF NotKept, Number
<1>14. /\ Defaulted(all, f) => CanDefault(d) /\ d.default # "" /\ d.required /\ At(Typed(all), f) = Empty
       /\ ~Defaulted(all, f) => n = Converted(d, all[f])
       /\ At(Typed(all), f) = Converted(d, all[f])
  BY <1>1, <1>3, NormalizedField, TypedFacts DEF Defaulted
<1>15. Crypts(d) => f \in ToCrypt(data)
  <2>1. Crypts(class.field[f]) => ~PreBefore(x, f, form)
    BY <1>13
  <2> QED BY <1>1, <1>2, <2>1, ComesTo
<1>16. ~Crypts(d) => f \notin ToCrypt(data)
  BY ToCryptFacts
<1>17. Crypts(d) => d.enabled
  BY DEF Crypts
<1> HIDE DEF d, all, data, n, v, before, fetched, shown
<1>18. CASE Crypts(d)
  <2>1. f \in DOMAIN form /\ d.type = "password" /\ d.enabled
    BY <1>13, <1>17, <1>18
  <2>2. shown = Empty /\ all[f] = Empty
    BY <1>5, <1>7, <1>8, <1>11, <2>1
  <2>3. ~Defaulted(all, f)
    BY <1>14, <2>1 DEF CanDefault
  <2>4. ~Number(d)
    BY <2>1 DEF Number
  <2>5. n = Empty
    BY <1>5, <1>10, <1>14, <2>2, <2>3, <2>4, ConvertedFacts
  <2>6. v = fetched
    BY <1>4, <1>15, <1>18, <2>5
  <2> QED BY <1>6, <1>13, <2>2, <2>6 DEF v, before
<1>19. CASE ~Crypts(d)
  <2>1. all[f] = before
    <3>1. CASE f \notin DOMAIN form \/ ~d.enabled
      BY <1>5, <1>6, <1>7, <1>13, <3>1
    <3>2. CASE f \in DOMAIN form /\ d.enabled
      <4>1. d.type # "password" /\ shown = form[f] /\ all[f] = shown
        BY <1>5, <1>7, <1>13, <1>19, <3>2
      <4>2. shown = fetched
        BY <1>8, <1>11, <3>2, <4>1
      <4> QED BY <1>6, <1>13, <4>1, <4>2
    <3> QED BY <3>1, <3>2
  <2>2. before = Empty => Converted(d, before) = Empty
    BY <1>6, <1>10, <1>13, ConvertedFacts
  <2>3. Converted(d, before) = before
    <3>1. before = Empty \/ before.times > 0 \/ before = Converted(d, before)
      BY <1>9 DEF Stored
    <3>2. before.times = 0
      BY <1>9, <1>19 DEF Stored
    <3>3. ~(before.times > 0)
      BY <3>2
    <3> QED BY <2>2, <3>1, <3>3
  <2>4. ~Defaulted(all, f)
    BY <1>13, <1>14, <2>1, <2>3
  <2>5. v = n /\ n = before
    BY <1>4, <1>14, <1>16, <1>19, <2>1, <2>3, <2>4
  <2> QED BY <2>5 DEF v, before
<1> QED BY <1>18, <1>19

(* A field that an update leaves out, or sends as it was shown, stays as it     *)
(* is, with the exceptions that NotKept names (CoreSession::updateObject,       *)
(* getObject and listObjects, CoreClass::normalize, handleCrypts).            *)
THEOREM UpdatesKeepTheRest == Spec => UpdateKeeps
<1>1. RInv /\ [Next]_vars =>
        [\A x \in Rows, f \in Field :
           LET d == class.field[f]
               before == At(row[x].data, f)
               fields == sent'.fields
           IN  /\ sent'.x = x
               /\ \/ f \notin DOMAIN fields \/ ~d.enabled
                  \/ fields[f] = At(getObject(x), f)
               => At(row'[x].data, f) = before \/ NotKept(d, x, f, fields, before)]_vars
  <2> SUFFICES ASSUME RInv, Next, NEW x \in Rows, NEW f \in Field, sent'.x = x,
                      \/ f \notin DOMAIN sent'.fields \/ ~class.field[f].enabled
                      \/ sent'.fields[f] = At(getObject(x), f),
                      ~NotKept(class.field[f], x, f, sent'.fields, At(row[x].data, f))
               PROVE  At(row'[x].data, f) = At(row[x].data, f)
    OBVIOUS
  <2>1. Types /\ x \in 1..Len(row) /\ Len(row) \in Nat /\ x # 0
    <3>1. Types
      BY DEF RInv
    <3>2. x \in 1..Len(row) /\ Len(row) \in Nat
      BY <3>1, RowFacts
    <3> QED BY <3>1, <3>2
  <2>2. ASSUME NEW y \in Rows, NEW form, Sendable(y, form), updateObject(y, form)
        PROVE  At(row'[x].data, f) = At(row[x].data, f)
    <3>1. sent' = [x |-> y, fields |-> form] /\ row' = [row EXCEPT ![y].data = UpdatedOf(y, form)]
      BY <2>2 DEF updateObject, UpdatedOf
    <3>2. y = x /\ sent'.fields = form
      BY <3>1
    <3>3. At(UpdatedOf(x, form), f) = At(row[x].data, f)
      BY <2>2, <3>2, FieldStays
    <3>4. row'[x].data = UpdatedOf(x, form)
      <4>1. row \in Seq(RowType) /\ row[x] \in RowType
        BY <2>1, RowFacts DEF Types
      <4>2. x \in DOMAIN row /\ row'[x] = [row[x] EXCEPT !.data = UpdatedOf(x, form)]
        BY <2>1, <3>1, <3>2, <4>1
      <4> QED BY <4>1, <4>2 DEF RowType
    <3> QED BY <3>3, <3>4
  <2>3. CASE \E name \in Name \cup {""}, form \in Form : createObject(name, form)
    <3>1. sent' = [x |-> 0, fields |-> <<>>]
      BY <2>3 DEF createObject
    <3>2. sent'.x = 0
      BY <3>1
    <3> QED BY <2>1, <3>2
  <2>4. CASE \E y \in Rows, form \in Form : updateObject(y, form)
    BY <2>2, <2>4 DEF Sendable
  <2>5. CASE \E y \in Rows : updateObject(y, getObject(y))
    BY <2>2, <2>5 DEF Sendable, Shown
  <2>6. CASE \E y \in Rows : deleteObject(y)
    BY <2>1, <2>6 DEF deleteObject
  <2> QED BY <2>3, <2>4, <2>5, <2>6 DEF Next
<1> QED BY <1>1, AlwaysRInv, PTL DEF Spec, UpdateKeeps

=============================================================================
