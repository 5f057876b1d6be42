------------------------- MODULE ModuleRegistryProofs -------------------------
(***************************************************************************)
(* The loading of the modules, for any modules, classes and objects, any       *)
(* order of the directory, requirements in any circle, and any number of       *)
(* starts, upgrades and crashes.                                             *)
(*                                                                         *)
(* Each property of a process needs to be known of the calls of loadModule in   *)
(* progress: what the place of a frame says of its module.                   *)
(***************************************************************************)
EXTENDS ModuleRegistry, SequenceTheorems, TLAPS

-----------------------------------------------------------------------------
(* The inductive invariant. *)

(* One call for a module; all but the innermost, and all once an exception is   *)
(* on its way up, wait in loadDependencies.                                  *)
Calls ==
  /\ \A i, j \in DOMAIN frames : frames[i].mod = frames[j].mod => i = j
  /\ \A i \in DOMAIN frames :
       /\ frames[i].mod \in history
       /\ i < Len(frames) \/ raised # "none" => frames[i].at = "check"

Linked ==
  /\ Range(linked) \subseteq history
  /\ \A i, j \in DOMAIN linked : linked[i] = linked[j] => i = j
  /\ \A i \in DOMAIN frames :
       frames[i].mod \in Range(linked) <=> frames[i].at \notin {"verify", "require", "check"}

(* The rows of what byclass has; the classes that a call is done with.        *)
Told(f, owner) ==
  /\ f.at = "classes" => \A j \in DOMAIN ClassesOf[f.mod] :
                           j < f.n => owner[ClassesOf[f.mod][j]] # NoModule
  /\ f.at = "import" => \A c \in Range(ClassesOf[f.mod]) : owner[c] # NoModule

Registered ==
  /\ Range(byclass) \subseteq Range(linked) \cup {NoModule}
  /\ status = "down" => \A c \in Classes : byclass[c] = NoModule
  /\ \A c \in Classes : byclass[c] \notin failed \cup {NoModule} =>
       rows[c] = [module |-> byclass[c], version |-> version[byclass[c]]]
  /\ \A i \in DOMAIN frames : Told(frames[i], byclass)

(* A module in the cache of the process has its objects, or is about to be     *)
(* asked for them.                                                           *)
Gave(m, there, mute) == Imports(m) \subseteq there \/ m \in mute
Has(m) == Gave(m, objects, silent)
Asks(f) == f.at \in {"classes", "import"} /\ f.first
Awaits(m, calls) == \E i \in DOMAIN calls : calls[i].mod = m /\ Asks(calls[i])
Pending(m) == Awaits(m, frames)
Given(f, there, mute) ==
  /\ f.at = "import" => \A j \in 1..f.n - 1 : <<f.mod, j>> \in there
  /\ f.at = "upgrade" => Gave(f.mod, there, mute)

Imported ==
  /\ \A m \in Modules : cacheFile.modules[m] > 0 => Has(m)
  /\ \A m \in Modules : cache.modules[m] > 0 => Has(m) \/ Pending(m)
  /\ \A i \in DOMAIN frames : Given(frames[i], objects, silent)

(* A class was read before it was registered.                                *)
Early(c) ==
  \E m \in Range(linked) : c \in Range(ObjectsOf[m])
                         /\ (m \in upgraded \/ c \notin Range(ClassesOf[m]))
Fresh ==
  /\ \A c \in Classes : classdata[c] # 0 /\ byclass[c] = NoModule => Early(c)
  /\ \A i \in DOMAIN frames : frames[i].at = "upgrade" => frames[i].mod \in upgraded
  /\ StaleOnlyAfterUpgrade

-----------------------------------------------------------------------------
(* The stack of calls.                                                       *)
LEMMA TopIsFrame ==
  ASSUME NEW s \in Seq(FrameType), s # <<>>
  PROVE  /\ Len(s) \in Nat \ {0} /\ DOMAIN s = 1..Len(s) /\ Len(s) \in DOMAIN s
         /\ s[Len(s)] \in FrameType
OBVIOUS

LEMMA SetTop ==
  ASSUME NEW s \in Seq(FrameType), s # <<>>, NEW r \in FrameType
  PROVE  LET t == [s EXCEPT ![Len(s)] = r]
         IN  /\ t \in Seq(FrameType) /\ Len(t) = Len(s) /\ DOMAIN t = DOMAIN s /\ t # <<>>
             /\ t[Len(s)] = r /\ \A i \in DOMAIN s : i < Len(s) => t[i] = s[i]
<1> DEFINE t == [s EXCEPT ![Len(s)] = r]
<1>1. Len(s) \in Nat \ {0} /\ DOMAIN s = 1..Len(s)
  OBVIOUS
<1>2. t \in Seq(FrameType) /\ DOMAIN t = DOMAIN s /\ Len(t) = Len(s)
  BY <1>1
<1>3. t[Len(s)] = r /\ \A i \in DOMAIN s : i < Len(s) => t[i] = s[i]
  BY <1>1
<1> QED BY <1>1, <1>2, <1>3

LEMMA Pop ==
  ASSUME NEW s \in Seq(FrameType), s # <<>>
  PROVE  /\ Under(s) \in Seq(FrameType) /\ Len(Under(s)) = Len(s) - 1
         /\ DOMAIN Under(s) = 1..Len(s) - 1 /\ DOMAIN s = 1..Len(s) /\ Len(s) \in Nat \ {0}
         /\ \A i \in DOMAIN Under(s) : i \in DOMAIN s /\ i < Len(s) /\ Under(s)[i] = s[i]
<1>1. Len(s) \in Nat \ {0} /\ DOMAIN s = 1..Len(s)
  OBVIOUS
<1>2. /\ Under(s) \in Seq(FrameType) /\ Len(Under(s)) = Len(s) - 1
      /\ \A i \in 1..Len(s) - 1 : Under(s)[i] = s[i]
  BY <1>1 DEF Under
<1> QED BY <1>1, <1>2

LEMMA Push ==
  ASSUME NEW s \in Seq(FrameType), NEW r \in FrameType
  PROVE  /\ Append(s, r) \in Seq(FrameType) /\ Append(s, r) # <<>>
         /\ Len(Append(s, r)) = Len(s) + 1 /\ Len(s) \in Nat
         /\ DOMAIN Append(s, r) = 1..Len(s) + 1 /\ DOMAIN s = 1..Len(s)
         /\ Append(s, r)[Len(s) + 1] = r
         /\ \A i \in DOMAIN s : Append(s, r)[i] = s[i]
OBVIOUS

-----------------------------------------------------------------------------
(* The cache. *)
LEMMA CacheTypes ==
  ASSUME version \in [Modules -> Version], NEW t \in Table, NEW m \in Modules
  PROVE  /\ Entered(t, m) \in Table /\ Entered(t, m).modules[m] = version[m]
         /\ \A k \in Modules \ {m} : Entered(t, m).modules[k] = t.modules[k]
         /\ Forgotten(t, m) \in Table /\ Forgotten(t, m).modules[m] = 0
         /\ \A k \in Modules \ {m} : Forgotten(t, m).modules[k] = t.modules[k]
<1>1. version[m] \in Version /\ 0 \in Version /\ t.modules \in [Modules -> Version]
  BY ModuleRegistryAssumption DEF Table, Version
<1> QED BY <1>1 DEF Entered, Forgotten, Table

LEMMA DroppedNothing ==
  ASSUME NEW t \in Table, NEW names \in Reloads
  PROVE  Dropped(t, names) = t
<1>1. DOMAIN t = {"modules"} /\ "modules" \notin names
  BY ModuleRegistryAssumption DEF Table
<1>2. DOMAIN t \ names = DOMAIN t
  BY <1>1
<1>3. t = [k \in DOMAIN t |-> t[k]]
  BY DEF Table
<1> QED BY <1>2, <1>3 DEF Dropped

LEMMA EmptyCacheType ==
  /\ EmptyCache \in Table /\ 0 \in Version
  /\ \A m \in Modules : EmptyCache.modules[m] = 0
BY ModuleRegistryAssumption DEF EmptyCache, Table, Version

-----------------------------------------------------------------------------
(* Types; and whatever is in progress is for an entry of the directory. *)
HasEntry == raised # "none" \/ frames # <<>> => todo # <<>> /\ status = "loading"

Typed == TypeOK /\ HasEntry

(* The memory of a process that ended. *)
LEMMA ExitTypes ==
  ASSUME Exit
  PROVE  /\ status' = "down" /\ cache' \in Table /\ todo' = <<>> /\ history' = {} /\ frames' = <<>>
         /\ raised' = "none" /\ linked' = <<>> /\ byname' = {}
         /\ byclass' \in [Classes -> Modules \cup {NoModule}] /\ classdata' \in [Classes -> Version]
         /\ failed' = {} /\ upgraded' = {}
         /\ \A c \in Classes : byclass'[c] = NoModule /\ classdata'[c] = 0
         /\ \A m \in Modules : cache'.modules[m] = 0
BY EmptyCacheType DEF Exit

LEMMA TypedInit ==
  ASSUME Init
  PROVE  Typed
<1>1. version \in [Modules -> Version]
  BY ModuleRegistryAssumption DEF Init, Version
<1>2. /\ rows \in [Classes -> [module : Modules \cup {NoModule}, version : Version]]
      /\ classdata \in [Classes -> Version]
  BY EmptyCacheType DEF Init, NoRow
<1>3. starts \in 0..MaxStarts /\ faults \in 0..MaxFaults
  BY ModuleRegistryAssumption DEF Init
<1>4. todo \in Seq(Modules) /\ linked \in Seq(Modules) /\ frames \in Seq(FrameType)
  BY DEF Init
<1> QED BY <1>1, <1>2, <1>3, <1>4, EmptyCacheType DEF Init, Typed, TypeOK, HasEntry

(* The module of the innermost call, and what becomes of its frame. *)
LEMMA TopTypes ==
  ASSUME Typed, NEW place, At(place)
  PROVE  /\ frames \in Seq(FrameType) /\ frames # <<>> /\ raised = "none" /\ Top.at = place
         /\ Top \in FrameType /\ Top.mod \in Modules /\ status = "loading" /\ todo # <<>>
         /\ Under(frames) \in Seq(FrameType)
         /\ \A r \in FrameType : /\ [frames EXCEPT ![Len(frames)] = r] \in Seq(FrameType)
                                 /\ [frames EXCEPT ![Len(frames)] = r] # <<>>
<1>1. frames \in Seq(FrameType) /\ frames # <<>> /\ raised = "none" /\ Top.at = place
      /\ status = "loading" /\ todo # <<>>
  BY DEF At, Typed, TypeOK, HasEntry
<1>2. Top \in FrameType
  BY <1>1, TopIsFrame DEF Top
<1>3. Top.mod \in Modules
  BY <1>2 DEF FrameType
<1> QED BY <1>1, <1>2, <1>3, SetTop, Pop

LEMMA FaultTypes ==
  ASSUME TypeOK, Fault \/ NoFault
  PROVE  faults' \in 0..MaxFaults
BY ModuleRegistryAssumption DEF TypeOK, Fault, NoFault

LEMMA FrameIsTyped ==
  ASSUME NEW m \in Modules
  PROVE  Frame(m) \in FrameType /\ Frame(m).mod = m /\ Frame(m).at = "verify"
BY DEF Frame, FrameType, Place

LEMMA FrameChanges ==
  ASSUME NEW r \in FrameType
  PROVE  /\ [r EXCEPT !.at = "require"] \in FrameType
         /\ [r EXCEPT !.at = "check"] \in FrameType
         /\ [r EXCEPT !.at = "upgrade"] \in FrameType
         /\ [r EXCEPT !.at = "import", !.n = 1] \in FrameType
         /\ [r EXCEPT !.at = "classes", !.n = 1, !.first = TRUE] \in FrameType
         /\ [r EXCEPT !.at = "classes", !.n = 1, !.first = FALSE] \in FrameType
         /\ [r EXCEPT !.n = r.n + 1] \in FrameType
<1>1. /\ r = [mod |-> r.mod, at |-> r.at, n |-> r.n, first |-> r.first]
      /\ r.mod \in Modules /\ r.at \in Place /\ r.n \in Nat \ {0} /\ r.first \in BOOLEAN
      /\ r.n + 1 \in Nat \ {0}
  BY DEF FrameType
<1>2. /\ [r EXCEPT !.at = "require"] \in FrameType
      /\ [r EXCEPT !.at = "check"] \in FrameType
      /\ [r EXCEPT !.at = "upgrade"] \in FrameType
  BY DEF FrameType, Place
<1>3. ASSUME NEW place \in Place, NEW n \in Nat \ {0}, NEW b \in BOOLEAN
      PROVE  /\ [r EXCEPT !.at = place, !.n = n] \in FrameType
             /\ [r EXCEPT !.at = place, !.n = n, !.first = b] \in FrameType
  BY DEF FrameType
<1>4. /\ [r EXCEPT !.at = "import", !.n = 1] \in FrameType
      /\ [r EXCEPT !.at = "classes", !.n = 1, !.first = TRUE] \in FrameType
      /\ [r EXCEPT !.at = "classes", !.n = 1, !.first = FALSE] \in FrameType
  <2> DEFINE one == 1
  <2>1. one \in Nat \ {0} /\ "import" \in Place /\ "classes" \in Place
    BY DEF Place
  <2> HIDE DEF one
  <2>2. /\ [r EXCEPT !.at = "import", !.n = one] \in FrameType
        /\ [r EXCEPT !.at = "classes", !.n = one, !.first = TRUE] \in FrameType
        /\ [r EXCEPT !.at = "classes", !.n = one, !.first = FALSE] \in FrameType
    BY <2>1, <1>3
  <2> QED BY <2>2 DEF one
<1>5. [r EXCEPT !.n = r.n + 1] \in FrameType
  BY <1>1 DEF FrameType
<1> QED BY <1>2, <1>3, <1>4, <1>5

LEMMA TypedStep ==
  ASSUME Typed, [Next]_vars
  PROVE  Typed'
<1> USE DEF HasEntry, diskVars, memory
<1>a. /\ version \in [Modules -> Version] /\ cacheFile \in Table
      /\ rows \in [Classes -> [module : Modules \cup {NoModule}, version : Version]]
      /\ objects \subseteq UNION {Imports(m) : m \in Modules}
      /\ status \in {"down", "loading", "up"} /\ cache \in Table
      /\ todo \in Seq(Modules) /\ history \subseteq Modules
      /\ frames \in Seq(FrameType)
      /\ raised \in {"none", "init", "critical"}
      /\ linked \in Seq(Modules) /\ byname \subseteq Modules
      /\ byclass \in [Classes -> Modules \cup {NoModule}]
      /\ classdata \in [Classes -> Version]
      /\ starts \in 0..MaxStarts /\ faults \in 0..MaxFaults
      /\ failed \subseteq Modules
      /\ upgraded \subseteq Modules /\ silent \subseteq Modules
  BY DEF Typed, TypeOK
<1>b. HasEntry
  BY DEF Typed
<1>c. TypeOK
  BY DEF Typed
<1> USE DEF Typed, TypeOK
<1>1. ASSUME Begin PROVE Typed'
  <2>1. /\ cache' = cacheFile /\ todo' = Directory /\ status' = "loading" /\ starts' = starts + 1
        /\ starts < MaxStarts /\ status = "down"
        /\ UNCHANGED <<diskVars, history, frames, raised, linked, byname, byclass,
                       classdata, failed, upgraded, faults, silent>>
    BY <1>1, <1>a, DroppedNothing DEF Begin
  <2>2. starts' \in 0..MaxStarts /\ todo' \in Seq(Modules)
    BY <2>1, <1>a, ModuleRegistryAssumption
  <2>3. HasEntry'
    BY <2>1, <1>b
  <2> QED BY <2>1, <2>2, <2>3, <1>a
<1>2. ASSUME NextEntry PROVE Typed'
  <2>1. /\ status = "loading" /\ raised = "none" /\ frames = <<>> /\ todo # <<>>
        /\ UNCHANGED <<diskVars, status, cache, raised, linked, byname, byclass,
                       classdata, failed, upgraded, starts, faults, silent>>
    BY <1>2 DEF NextEntry
  <2>2. Head(todo) \in Modules /\ Tail(todo) \in Seq(Modules)
    BY <2>1, <1>a
  <2>3. CASE todo' = Tail(todo) /\ UNCHANGED <<history, frames>>
    BY <2>1, <2>2, <2>3, <1>a
  <2>4. CASE Load(frames, Head(todo)) /\ UNCHANGED todo
    <3>1. frames' \in Seq(FrameType)
      BY <2>2, <2>4, <1>a, FrameIsTyped, Push DEF Load
    <3>2. history' \subseteq Modules
      BY <2>2, <2>4, <1>a DEF Load
    <3> QED BY <2>1, <2>4, <3>1, <3>2, <1>a
  <2> QED BY <1>2, <2>3, <2>4 DEF NextEntry
<1>3. ASSUME Verify PROVE Typed'
  <2>1. At("verify") /\ UNCHANGED <<diskVars, status, todo, history, linked, byname, byclass,
                                    classdata, upgraded, starts, silent>>
    BY <1>3 DEF Verify
  <2>2. /\ frames # <<>> /\ Top.mod \in Modules /\ status = "loading" /\ todo # <<>>
        /\ Top \in FrameType /\ Under(frames) \in Seq(FrameType)
    BY <2>1, TopTypes
  <2>3. frames' \in Seq(FrameType)
    <3>1. [Top EXCEPT !.at = "require"] \in FrameType
      BY ONLY <2>2, FrameChanges
    <3>2. [frames EXCEPT ![Len(frames)] = [Top EXCEPT !.at = "require"]] \in Seq(FrameType)
      BY <2>1, <3>1, TopTypes
    <3> QED BY <1>3, <2>2, <3>2 DEF Verify, Raise, Return, Goto, Top
  <2>4. /\ raised' \in {"none", "init", "critical"} /\ failed' \subseteq Modules
    BY <1>3, <1>a, <2>2 DEF Verify, Raise
  <2>5. cache' \in Table
    <3>1. Forgotten(cache, Top.mod) \in Table
      BY <1>a, <2>2, CacheTypes
    <3> QED BY <1>3, <1>a, <3>1 DEF Verify
  <2>6. faults' \in 0..MaxFaults
    BY ONLY <1>3, <1>c, FaultTypes DEF Verify
  <2> QED BY <2>1, <2>2, <2>3, <2>4, <2>5, <2>6, <1>a
<1>4. ASSUME Require PROVE Typed'
  <2>1. At("require") /\ UNCHANGED <<diskVars, status, cache, todo, raised, linked, byname,
                               byclass, classdata, failed, upgraded, starts, faults, silent>>
    BY <1>4 DEF Require
  <2>2. /\ frames # <<>> /\ Top.mod \in Modules /\ status = "loading" /\ todo # <<>>
        /\ Top \in FrameType
    BY <2>1, TopTypes
  <2> DEFINE r == Requires[Top.mod]
             waiting == [frames EXCEPT ![Len(frames)].at = "check"]
  <2>3. waiting \in Seq(FrameType)
    <3>1. [Top EXCEPT !.at = "check"] \in FrameType
      BY ONLY <2>2, FrameChanges
    <3>2. [frames EXCEPT ![Len(frames)] = [Top EXCEPT !.at = "check"]] \in Seq(FrameType)
      BY <2>1, <3>1, TopTypes
    <3> QED BY <3>2 DEF Top
  <2>4. CASE frames' = waiting /\ UNCHANGED history
    BY <2>1, <2>2, <2>3, <2>4, <1>a
  <2>5. CASE r \notin history \cup {NoModule} /\ Load(waiting, r)
    <3>1. r \in Modules
      BY <2>2, <2>5, ModuleRegistryAssumption
    <3> HIDE DEF waiting, r
    <3>2. frames' \in Seq(FrameType)
      BY <2>3, <2>5, <3>1, FrameIsTyped, Push DEF Load
    <3>3. history' \subseteq Modules
      BY <2>5, <3>1, <1>a DEF Load
    <3> QED BY <2>1, <2>2, <3>2, <3>3, <1>a
  <2> QED BY <1>4, <2>4, <2>5 DEF Require, Goto
<1>5. ASSUME CheckModuleCache PROVE Typed'
  <2>1. At("check") /\ linked' = Append(linked, Top.mod)
        /\ UNCHANGED <<diskVars, status, todo, history, byclass, classdata, starts, silent>>
    BY <1>5 DEF CheckModuleCache
  <2>2. /\ frames # <<>> /\ Top.mod \in Modules /\ status = "loading" /\ todo # <<>>
        /\ Top \in FrameType /\ Under(frames) \in Seq(FrameType)
    BY <2>1, TopTypes
  <2>3. frames' \in Seq(FrameType)
    <3> DEFINE b == cache.modules[Top.mod] = 0
    <3>1. /\ [Top EXCEPT !.at = "upgrade"] \in FrameType
          /\ [Top EXCEPT !.at = "classes", !.n = 1, !.first = b] \in FrameType
      <4>1. b = TRUE \/ b = FALSE
        OBVIOUS
      <4> HIDE DEF b
      <4> QED BY ONLY <2>2, <4>1, FrameChanges
    <3>2. /\ [frames EXCEPT ![Len(frames)] = [Top EXCEPT !.at = "upgrade"]] \in Seq(FrameType)
          /\ [frames EXCEPT ![Len(frames)] =
               [Top EXCEPT !.at = "classes", !.n = 1, !.first = b]] \in Seq(FrameType)
      BY <2>1, <3>1, TopTypes
    <3> QED BY <1>5, <2>2, <3>2 DEF CheckModuleCache, Raise, Return, Goto, Settle, FirstStep, Top
  <2>4. linked' \in Seq(Modules)
    BY <2>1, <2>2, <1>a
  <2>5. /\ raised' \in {"none", "init", "critical"} /\ failed' \subseteq Modules
        /\ byname' \subseteq Modules /\ upgraded' \subseteq Modules
    BY <1>5, <1>a, <2>2 DEF CheckModuleCache, Raise, Settle
  <2>6. cache' \in Table
    <3>1. Entered(cache, Top.mod) \in Table
      BY <1>a, <2>2, CacheTypes
    <3> QED BY <1>5, <1>a, <3>1 DEF CheckModuleCache, Settle
  <2>7. faults' \in 0..MaxFaults
    BY ONLY <1>5, <1>c, FaultTypes DEF CheckModuleCache
  <2> QED BY <2>1, <2>2, <2>3, <2>4, <2>5, <2>6, <2>7, <1>a
<1>6. ASSUME RegisterClass PROVE Typed'
  <2>1. At("classes") /\ Top.n \in DOMAIN ClassesOf[Top.mod]
        /\ UNCHANGED <<version, cacheFile, objects, status, todo, history, linked, byname,
                       classdata, upgraded, starts, faults, silent>>
    BY <1>6 DEF RegisterClass
  <2>2. /\ frames # <<>> /\ Top.mod \in Modules /\ status = "loading" /\ todo # <<>>
        /\ Top \in FrameType /\ Under(frames) \in Seq(FrameType)
    BY <2>1, TopTypes
  <2> DEFINE m == Top.mod
             c == ClassesOf[m][Top.n]
  <2>3. c \in Classes
    BY ONLY <2>1, <2>2, ModuleRegistryAssumption
  <2>4. frames' \in Seq(FrameType)
    <3>1. [Top EXCEPT !.n = Top.n + 1] \in FrameType
      BY ONLY <2>2, FrameChanges
    <3>2. [frames EXCEPT ![Len(frames)] = [Top EXCEPT !.n = Top.n + 1]] \in Seq(FrameType)
      BY <2>1, <3>1, TopTypes
    <3> QED BY <1>6, <2>2, <3>2 DEF RegisterClass, Raise, Return, Top
  <2>5. rows' \in [Classes -> [module : Modules \cup {NoModule}, version : Version]]
    <3>1. Content(m, c) \in [module : Modules \cup {NoModule}, version : Version]
      BY <1>a, <2>2 DEF Content
    <3> QED BY <1>6, <1>a, <2>3, <3>1 DEF RegisterClass
  <2>6. byclass' \in [Classes -> Modules \cup {NoModule}]
    BY <1>6, <1>a, <2>2, <2>3 DEF RegisterClass
  <2>7. raised' \in {"none", "init", "critical"} /\ failed' \subseteq Modules
    BY <1>6, <1>a, <2>2 DEF RegisterClass, Raise
  <2>8. cache' \in Table
    <3>1. Forgotten(cache, Top.mod) \in Table
      BY <1>a, <2>2, CacheTypes
    <3> QED BY <1>6, <1>a, <3>1 DEF RegisterClass
  <2> QED BY <2>1, <2>2, <2>4, <2>5, <2>6, <2>7, <2>8, <1>a
<1>7. ASSUME ClassesDone PROVE Typed'
  <2>1. At("classes") /\ UNCHANGED <<diskVars, status, cache, todo, history, raised, linked, byname,
                 byclass, classdata, failed, upgraded, starts, faults, silent>>
    BY <1>7 DEF ClassesDone
  <2>2. /\ frames # <<>> /\ Top \in FrameType /\ status = "loading" /\ todo # <<>>
        /\ Under(frames) \in Seq(FrameType)
    BY <2>1, TopTypes
  <2>3. frames' \in Seq(FrameType)
    <3>1. [Top EXCEPT !.at = "import", !.n = 1] \in FrameType
      BY ONLY <2>2, FrameChanges
    <3>2. [frames EXCEPT ![Len(frames)] = [Top EXCEPT !.at = "import", !.n = 1]] \in Seq(FrameType)
      BY <2>1, <3>1, TopTypes
    <3> QED BY <1>7, <2>2, <3>2 DEF ClassesDone, Return, Top
  <2> QED BY <2>1, <2>2, <2>3, <1>a
<1>8. ASSUME Importing
      PROVE  /\ frames # <<>> /\ Top.mod \in Modules /\ status = "loading" /\ todo # <<>>
             /\ Top \in FrameType /\ Under(frames) \in Seq(FrameType)
             /\ \A r \in FrameType : [frames EXCEPT ![Len(frames)] = r] \in Seq(FrameType)
  BY <1>8, TopTypes DEF Importing
<1>9. ASSUME Importing, Settle("classes", FALSE)
      PROVE  /\ cache' \in Table /\ byname' \subseteq Modules /\ frames' \in Seq(FrameType)
  <2>1. [Top EXCEPT !.at = "classes", !.n = 1, !.first = FALSE] \in FrameType
    BY ONLY <1>8, <1>9, FrameChanges
  <2>2. [frames EXCEPT ![Len(frames)] = [Top EXCEPT !.at = "classes", !.n = 1, !.first = FALSE]]
          \in Seq(FrameType)
    BY <2>1, <1>8, <1>9
  <2>3. cache' \in Table /\ byname' \subseteq Modules
    BY ONLY <1>8, <1>9, <1>a, CacheTypes DEF Settle
  <2> QED BY <2>2, <2>3, <1>9 DEF Settle, Top
<1>10. ASSUME Importing, ImportEnds
       PROVE  /\ cache' \in Table /\ byname' \subseteq Modules /\ frames' \in Seq(FrameType)
  BY <1>8, <1>9, <1>10, <1>a DEF ImportEnds, Return
<1>11. ASSUME NoConfig PROVE Typed'
  <2>1. Importing /\ ImportEnds /\ (Fault \/ NoFault)
        /\ silent' \in {silent, silent \cup {Top.mod}}
        /\ UNCHANGED <<diskVars, status, todo, history, raised, linked, byclass,
                       classdata, failed, upgraded, starts>>
    BY <1>11 DEF NoConfig
  <2>2. faults' \in 0..MaxFaults
    BY ONLY <2>1, <1>c, FaultTypes
  <2>3. silent' \subseteq Modules
    BY <2>1, <1>8, <1>a
  <2> QED BY <2>1, <2>2, <2>3, <1>8, <1>10, <1>a
<1>12. ASSUME NEW c \in Classes PROVE ReadsClass(c) \in [Classes -> Version]
  BY <1>a DEF ReadsClass
<1>13. ASSUME Importing, Top.n \in DOMAIN ObjectsOf[Top.mod]
       PROVE  ObjectsOf[Top.mod][Top.n] \in Classes
  <2>1. ObjectsOf[Top.mod] \in Seq(Classes)
    BY <1>8, <1>13, ModuleRegistryAssumption
  <2> QED BY ONLY <2>1, <1>13
<1>14. ASSUME ImportObject PROVE Typed'
  <2>1. /\ Importing /\ Top.n \in DOMAIN ObjectsOf[Top.mod]
        /\ objects' = objects \cup {<<Top.mod, Top.n>>}
        /\ classdata' = ReadsClass(ObjectsOf[Top.mod][Top.n])
        /\ frames' = [frames EXCEPT ![Len(frames)].n = @ + 1]
        /\ UNCHANGED <<version, cacheFile, rows, status, cache, todo, history, raised,
                 linked, byname, byclass, failed, upgraded, starts, faults, silent>>
    BY <1>14 DEF ImportObject
  <2>2. objects' \subseteq UNION {Imports(m) : m \in Modules}
    BY <2>1, <1>8, <1>a DEF Imports
  <2>3. frames' \in Seq(FrameType)
    <3>2. [Top EXCEPT !.n = Top.n + 1] \in FrameType
      BY ONLY <2>1, <1>8, FrameChanges
    <3> QED BY <2>1, <3>2, <1>8 DEF Top
  <2>4. classdata' \in [Classes -> Version]
    BY <2>1, <1>12, <1>13
  <2> QED BY <2>1, <2>2, <2>3, <2>4, <1>8, <1>a
<1>15. ASSUME ImportFails PROVE Typed'
  <2>1. /\ Importing /\ Top.n \in DOMAIN ObjectsOf[Top.mod]
        /\ classdata' = ReadsClass(ObjectsOf[Top.mod][Top.n])
        /\ UNCHANGED <<diskVars, status, todo, history, linked, byclass, upgraded,
                       starts, faults, silent>>
    BY <1>15 DEF ImportFails
  <2>2. classdata' \in [Classes -> Version]
    BY <2>1, <1>12, <1>13
  <2>3. CASE cache' = AfterFailure(cache, Top.mod) /\ Raise("init") /\ UNCHANGED byname
    <3>1. frames' \in Seq(FrameType) /\ raised' = "init" /\ failed' \subseteq Modules
      BY <2>1, <2>3, <1>8, <1>a DEF Raise, Return
    <3>2. cache' \in Table
      BY ONLY <2>1, <2>3, <1>8, <1>a, CacheTypes DEF AfterFailure
    <3> QED BY <2>1, <2>2, <2>3, <3>1, <3>2, <1>8, <1>a
  <2>4. CASE Settle("classes", FALSE) /\ UNCHANGED <<raised, failed>>
    BY <2>1, <2>2, <2>4, <1>8, <1>9, <1>a
  <2> QED BY <1>15, <2>3, <2>4 DEF ImportFails
<1>16. ASSUME ImportDone PROVE Typed'
  <2>1. Importing /\ ImportEnds
        /\ UNCHANGED <<diskVars, status, todo, history, raised, linked, byclass,
                       classdata, failed, upgraded, starts, faults, silent>>
    BY <1>16 DEF ImportDone
  <2> QED BY <2>1, <1>8, <1>10, <1>a
<1>17. ASSUME Disable PROVE Typed'
  <2>1. /\ raised # "none" /\ frames # <<>> /\ raised' = "init" /\ frames' = Under(frames)
        /\ failed' = failed \cup {Top.mod}
        /\ UNCHANGED <<diskVars, status, cache, todo, history, linked, byname, byclass,
                       classdata, upgraded, starts, faults, silent>>
    BY <1>17 DEF Disable, Raise, Return
  <2>2. frames' \in Seq(FrameType) /\ Top \in FrameType
    BY <2>1, <1>a, Pop, TopIsFrame DEF Top
  <2>3. failed' \subseteq Modules
    BY <2>1, <2>2, <1>a DEF FrameType
  <2> QED BY <2>1, <2>2, <2>3, <1>a, <1>b
<1>18. ASSUME SkipEntry PROVE Typed'
  <2>1. /\ raised = "init" /\ frames = <<>> /\ raised' = "none" /\ todo' = Tail(todo)
        /\ UNCHANGED <<diskVars, status, cache, history, frames, linked, byname, byclass,
                       classdata, failed, upgraded, starts, faults, silent>>
    BY <1>18 DEF SkipEntry
  <2>2. todo' \in Seq(Modules)
    BY <2>1, <1>a, <1>b
  <2> QED BY <2>1, <2>2, <1>a
<1>19. ASSUME Exit, cacheFile' \in Table, UNCHANGED <<version, rows, objects, starts, faults, silent>>
       PROVE  Typed'
  BY <1>19, <1>a, ExitTypes
<1>20. ASSUME GiveUp PROVE Typed'
  BY <1>20, <1>19, <1>a DEF GiveUp
<1>21. ASSUME Crash PROVE Typed'
  BY <1>21, <1>19, <1>a, EmptyCacheType DEF Crash
<1>22. ASSUME Finish PROVE Typed'
  BY <1>22, <1>a DEF Finish, AllLoaded
<1>23. ASSUME Install PROVE Typed'
  <2>1. version' \in [Modules -> Version]
        /\ UNCHANGED <<cacheFile, rows, objects, status, memory, starts, faults, silent>>
    BY <1>23, <1>a DEF Install
  <2> QED BY <2>1, <1>a, <1>b
<1>24. ASSUME UNCHANGED vars PROVE Typed'
  BY <1>24, <1>a, <1>b DEF vars
<1> QED
  BY ONLY [Next]_vars, <1>1, <1>2, <1>3, <1>4, <1>5, <1>6, <1>7, <1>11, <1>14, <1>15, <1>16, <1>17,
     <1>18, <1>20, <1>21, <1>22, <1>23, <1>24 DEF Next

-----------------------------------------------------------------------------
(* What the steps do to the stack: nothing, or the innermost call moves, with   *)
(* a new call inside it or not, or is over, or the process ends.              *)
Idle == UNCHANGED <<frames, raised>>
Moved(r) == frames # <<>> /\ raised = "none" /\ raised' = "none"
            /\ r \in FrameType /\ r.mod = Top.mod
            /\ frames' = [frames EXCEPT ![Len(frames)] = r]
Popped == frames # <<>> /\ frames' = Under(frames)
Pushed(calls, m) ==
  /\ calls \in Seq(FrameType) /\ m \in Modules \ history /\ raised' = "none"
  /\ frames' = Append(calls, Frame(m)) /\ history' = history \cup {m}
  /\ \/ frames = <<>> /\ calls = <<>>
     \/ /\ frames # <<>> /\ raised = "none" /\ Top.at = "require"
        /\ calls = [frames EXCEPT ![Len(frames)] = [Top EXCEPT !.at = "check"]]

LEMMA MovedFrames ==
  ASSUME Typed, NEW r, Moved(r)
  PROVE  /\ frames \in Seq(FrameType) /\ Len(frames) \in Nat \ {0} /\ Len(frames') = Len(frames)
         /\ DOMAIN frames = 1..Len(frames) /\ DOMAIN frames' = 1..Len(frames)
         /\ frames'[Len(frames)] = r /\ frames[Len(frames)] = Top
         /\ \A i \in DOMAIN frames : i # Len(frames) => frames'[i] = frames[i] /\ i < Len(frames)
<1>1. frames \in Seq(FrameType) /\ frames # <<>> /\ r \in FrameType
      /\ frames' = [frames EXCEPT ![Len(frames)] = r]
  BY DEF Typed, TypeOK, Moved
<1>2. Len(frames) \in Nat \ {0} /\ DOMAIN frames = 1..Len(frames)
  BY <1>1, TopIsFrame
<1> QED BY <1>1, <1>2, SetTop DEF Top

LEMMA PoppedFrames ==
  ASSUME Typed, Popped
  PROVE  /\ frames \in Seq(FrameType) /\ Len(frames) \in Nat \ {0} /\ Len(frames') = Len(frames) - 1
         /\ DOMAIN frames = 1..Len(frames) /\ DOMAIN frames' = 1..Len(frames) - 1
         /\ frames[Len(frames)] = Top
         /\ \A i \in DOMAIN frames' : i \in DOMAIN frames /\ i < Len(frames) /\ frames'[i] = frames[i]
<1>1. frames \in Seq(FrameType) /\ frames # <<>> /\ frames' = Under(frames)
  BY DEF Typed, TypeOK, Popped
<1> QED BY <1>1, Pop DEF Top

LEMMA CallsMoved ==
  ASSUME Typed, Calls, NEW r, Moved(r), history \subseteq history'
  PROVE  Calls'
<1>1. \A i \in DOMAIN frames : frames'[i].mod = frames[i].mod
  BY MovedFrames DEF Moved
<1>2. raised' = "none"
  BY DEF Moved
<1> QED BY <1>1, <1>2, MovedFrames DEF Calls

LEMMA CallsPopped ==
  ASSUME Typed, Calls, Popped, history' = history
  PROVE  Calls'
BY PoppedFrames DEF Calls

LEMMA PushedFrames ==
  ASSUME Typed, Calls, NEW calls, NEW m, Pushed(calls, m)
  PROVE  /\ Len(calls) \in Nat /\ DOMAIN calls = 1..Len(calls) /\ Len(frames') = Len(calls) + 1
         /\ DOMAIN frames' = 1..Len(calls) + 1 /\ frames'[Len(calls) + 1] = Frame(m)
         /\ DOMAIN calls = DOMAIN frames
         /\ \A i \in DOMAIN calls : frames'[i] = calls[i] /\ calls[i].mod = frames[i].mod
                                 /\ calls[i].at = "check"
                                 /\ frames[i].at \in {"require", "check"}
<1>1. /\ Len(calls) \in Nat /\ DOMAIN calls = 1..Len(calls) /\ Len(frames') = Len(calls) + 1
      /\ DOMAIN frames' = 1..Len(calls) + 1 /\ frames'[Len(calls) + 1] = Frame(m)
      /\ \A i \in DOMAIN calls : frames'[i] = calls[i]
  <2>1. Frame(m) \in FrameType /\ calls \in Seq(FrameType) /\ frames' = Append(calls, Frame(m))
    BY FrameIsTyped DEF Pushed
  <2> QED BY <2>1, Push
<1>2. CASE frames = <<>> /\ calls = <<>>
  BY <1>1, <1>2
<1>3. CASE /\ frames # <<>> /\ Top.at = "require"
           /\ calls = [frames EXCEPT ![Len(frames)] = [Top EXCEPT !.at = "check"]]
  <2>1. frames \in Seq(FrameType)
    BY DEF Typed, TypeOK
  <2>2. Top \in FrameType /\ [Top EXCEPT !.at = "check"] \in FrameType
    BY <1>3, <2>1, TopIsFrame, FrameChanges DEF Top
  <2>3. /\ DOMAIN calls = DOMAIN frames /\ calls[Len(frames)] = [Top EXCEPT !.at = "check"]
        /\ \A i \in DOMAIN frames : i < Len(frames) => calls[i] = frames[i]
        /\ DOMAIN frames = 1..Len(frames) /\ Len(frames) \in Nat \ {0}
    BY <1>3, <2>1, <2>2, SetTop, TopIsFrame
  <2>4. [Top EXCEPT !.at = "check"].at = "check" /\ [Top EXCEPT !.at = "check"].mod = Top.mod
    BY <2>2 DEF FrameType
  <2>5. ASSUME NEW i \in DOMAIN frames
        PROVE  calls[i].mod = frames[i].mod /\ calls[i].at = "check" /\ frames[i].at \in {"require", "check"}
    <3>1. CASE i = Len(frames)
      BY <1>3, <2>3, <2>4, <3>1 DEF Top
    <3>2. CASE i # Len(frames)
      BY <2>3, <2>5, <3>2 DEF Calls
    <3> QED BY <3>1, <3>2
  <2> QED BY <1>1, <2>3, <2>5
<1> QED BY <1>2, <1>3 DEF Pushed

LEMMA CallsPushed ==
  ASSUME Typed, Calls, NEW calls, NEW m, Pushed(calls, m)
  PROVE  Calls'
<1>1. /\ \A i, j \in DOMAIN calls : calls[i].mod = calls[j].mod => i = j
      /\ \A i \in DOMAIN calls : calls[i].mod \in history /\ calls[i].mod # m
  BY PushedFrames DEF Calls, Pushed
<1>2. Frame(m).mod = m /\ history' = history \cup {m} /\ raised' = "none"
  BY FrameIsTyped DEF Pushed
<1>3. \A i \in DOMAIN frames' : i \in DOMAIN calls \/ i = Len(frames')
  BY PushedFrames
<1>4. ASSUME NEW i \in DOMAIN frames', NEW j \in DOMAIN frames', frames'[i].mod = frames'[j].mod
      PROVE  i = j
  BY <1>1, <1>2, <1>3, <1>4, PushedFrames
<1>5. ASSUME NEW i \in DOMAIN frames'
      PROVE  frames'[i].mod \in history' /\ (i < Len(frames') \/ raised' # "none" => frames'[i].at = "check")
  BY <1>1, <1>2, <1>3, PushedFrames
<1> QED BY <1>4, <1>5 DEF Calls

(* The frames that the innermost call moves to. *)
Put(place) == [Top EXCEPT !.at = place]
Settled(b) == [Top EXCEPT !.at = "classes", !.n = 1, !.first = b]
Asked == [Top EXCEPT !.at = "import", !.n = 1]
Counted == [Top EXCEPT !.n = Top.n + 1]

LEMMA FrameFields ==
  ASSUME Top \in FrameType
  PROVE  /\ \A place \in Place : /\ Put(place).mod = Top.mod /\ Put(place).at = place
                                 /\ Put(place).n = Top.n /\ Put(place).first = Top.first
         /\ \A b \in BOOLEAN : /\ Settled(b) \in FrameType
                               /\ Settled(b).mod = Top.mod /\ Settled(b).at = "classes"
                               /\ Settled(b).n = 1 /\ Settled(b).first = b
         /\ Asked \in FrameType /\ Asked.mod = Top.mod /\ Asked.at = "import" /\ Asked.n = 1
         /\ Asked.first = Top.first
         /\ Counted \in FrameType /\ Counted.mod = Top.mod /\ Counted.at = Top.at
         /\ Counted.n = Top.n + 1 /\ Counted.first = Top.first
         /\ {Put("require"), Put("check"), Put("upgrade")} \subseteq FrameType
<1>1. \A place \in Place : /\ Put(place).mod = Top.mod /\ Put(place).at = place
                           /\ Put(place).n = Top.n /\ Put(place).first = Top.first
  BY DEF Put, FrameType
<1>2. ASSUME NEW b \in BOOLEAN
      PROVE  /\ Settled(b).mod = Top.mod /\ Settled(b).at = "classes"
             /\ Settled(b).n = 1 /\ Settled(b).first = b
  BY DEF Settled, FrameType
<1>3. /\ Asked.mod = Top.mod /\ Asked.at = "import" /\ Asked.n = 1 /\ Asked.first = Top.first
      /\ Counted.mod = Top.mod /\ Counted.at = Top.at /\ Counted.n = Top.n + 1
      /\ Counted.first = Top.first
  BY DEF Asked, Counted, FrameType
<1>4. /\ Settled(TRUE) \in FrameType /\ Settled(FALSE) \in FrameType /\ Asked \in FrameType
      /\ Counted \in FrameType /\ {Put("require"), Put("check"), Put("upgrade")} \subseteq FrameType
  BY FrameChanges DEF Settled, Asked, Counted, Put
<1>5. \A b \in BOOLEAN : Settled(b) \in FrameType
  BY <1>4
<1> QED BY <1>1, <1>2, <1>3, <1>4, <1>5

LEMMA MovesTo ==
  ASSUME Typed, NEW place, At(place), raised' = raised, NEW r \in FrameType, r.mod = Top.mod,
         frames' = [frames EXCEPT ![Len(frames)] = r]
  PROVE  Moved(r)
BY DEF Moved, At

LEMMA VerifyShape ==
  ASSUME Typed, Verify
  PROVE  /\ At("verify") /\ UNCHANGED <<cacheFile, rows, objects, version, status, todo, history, linked,
                                        byclass, classdata, upgraded, silent>>
         /\ \/ /\ Popped /\ failed' = failed \cup {Top.mod}
               /\ cache' \in {cache, Forgotten(cache, Top.mod)}
            \/ Moved(Put("require")) /\ UNCHANGED <<failed, cache>>
<1>1. /\ At("verify") /\ UNCHANGED <<cacheFile, rows, objects, version, status, todo, history, linked,
                                     byclass, classdata, upgraded, silent>>
  BY DEF Verify, diskVars
<1>2. frames # <<>> /\ Top \in FrameType
  BY <1>1, TopTypes
<1>3. CASE Goto("require") /\ UNCHANGED <<cache, raised, failed>>
  <2>1. frames' = [frames EXCEPT ![Len(frames)] = Put("require")]
    BY <1>3 DEF Goto, Put, Top
  <2>2. Put("require") \in FrameType /\ Put("require").mod = Top.mod
    BY <1>2, FrameFields DEF Place
  <2> QED BY <1>1, <1>3, <2>1, <2>2, MovesTo
<1>4. CASE /\ frames' = Under(frames) /\ failed' = failed \cup {Top.mod}
           /\ cache' \in {cache, Forgotten(cache, Top.mod)}
  BY <1>1, <1>2, <1>4 DEF Popped
<1>5. \/ Goto("require") /\ UNCHANGED <<cache, raised, failed>>
      \/ /\ frames' = Under(frames) /\ failed' = failed \cup {Top.mod}
         /\ cache' \in {cache, Forgotten(cache, Top.mod)}
  BY DEF Verify, Raise, Return
<1> QED BY <1>3, <1>4, <1>5

LEMMA RequireShape ==
  ASSUME Typed, Require
  PROVE  /\ At("require") /\ UNCHANGED <<diskVars, status, cache, todo, linked, byclass, classdata,
                                         failed, upgraded, silent>>
         /\ \/ Moved(Put("check")) /\ history' = history
            \/ \E calls, m : Pushed(calls, m)
<1>1. /\ At("require") /\ UNCHANGED <<diskVars, status, cache, todo, linked, byclass, classdata,
                                      failed, upgraded, silent, raised>>
  BY DEF Require
<1>2. frames # <<>> /\ Top \in FrameType /\ frames \in Seq(FrameType) /\ raised = "none"
      /\ Top.at = "require"
  BY <1>1, TopTypes
<1>3. Put("check") \in FrameType /\ Put("check").mod = Top.mod
  BY <1>2, FrameFields DEF Place
<1> DEFINE waiting == [frames EXCEPT ![Len(frames)] = Put("check")]
<1>4. waiting \in Seq(FrameType)
  BY <1>2, <1>3, SetTop
<1>5. \/ frames' = waiting /\ history' = history
      \/ /\ Requires[Top.mod] \notin history \cup {NoModule}
         /\ Load(waiting, Requires[Top.mod])
  BY DEF Require, Goto, Put, Top
<1>6. CASE frames' = waiting /\ history' = history
  BY <1>1, <1>3, <1>6, MovesTo
<1>7. CASE Requires[Top.mod] \notin history \cup {NoModule} /\ Load(waiting, Requires[Top.mod])
  <2>1. Requires[Top.mod] \in Modules \ history
    BY <1>2, <1>7, ModuleRegistryAssumption DEF FrameType
  <2>2. waiting = [frames EXCEPT ![Len(frames)] = [Top EXCEPT !.at = "check"]]
    BY DEF Put
  <2>3. Pushed(waiting, Requires[Top.mod])
    BY <1>1, <1>2, <1>4, <1>7, <2>1, <2>2 DEF Pushed, Load
  <2> QED BY <1>1, <2>3
<1> QED BY <1>5, <1>6, <1>7

LEMMA NextEntryShape ==
  ASSUME Typed, NextEntry
  PROVE  /\ UNCHANGED <<diskVars, status, cache, linked, byclass, classdata, failed, upgraded, silent>>
         /\ \/ Idle /\ history' = history
            \/ \E calls, m : Pushed(calls, m)
<1>1. /\ status = "loading" /\ raised = "none" /\ frames = <<>> /\ todo # <<>>
      /\ UNCHANGED <<diskVars, status, cache, raised, linked, byname, byclass,
                     classdata, failed, upgraded, starts, faults, silent>>
  BY DEF NextEntry
<1>2. CASE Head(todo) \notin history /\ Load(frames, Head(todo))
  <2>1. Head(todo) \in Modules /\ frames \in Seq(FrameType)
    BY <1>1 DEF Typed, TypeOK
  <2>2. Pushed(frames, Head(todo))
    BY <1>1, <1>2, <2>1 DEF Pushed, Load
  <2> QED BY <1>1, <2>2
<1> QED BY <1>1, <1>2 DEF NextEntry, Idle

LEMMA CheckShape ==
  ASSUME Typed, CheckModuleCache
  PROVE  /\ At("check") /\ linked' = Append(linked, Top.mod)
         /\ UNCHANGED <<diskVars, status, todo, history, byclass, classdata, silent>>
         /\ \/ Popped /\ failed' = failed \cup {Top.mod} /\ UNCHANGED <<cache, upgraded>>
            \/ /\ Moved(Put("upgrade")) /\ cache.modules[Top.mod] > 0
               /\ upgraded' = upgraded \cup {Top.mod} /\ UNCHANGED <<cache, failed>>
            \/ /\ Moved(Settled(cache.modules[Top.mod] = 0))
               /\ cache' = Entered(cache, Top.mod) /\ UNCHANGED <<failed, upgraded>>
<1>1. /\ At("check") /\ linked' = Append(linked, Top.mod)
      /\ UNCHANGED <<diskVars, status, todo, history, byclass, classdata, silent>>
  BY DEF CheckModuleCache
<1>2. frames # <<>> /\ Top \in FrameType /\ Top.mod \in Modules
  BY <1>1, TopTypes
<1> DEFINE old == cache.modules[Top.mod]
<1>3. \/ Raise("init") /\ UNCHANGED <<cache, upgraded>>
      \/ /\ old \in 1..(version[Top.mod] - 1) /\ Goto("upgrade") /\ upgraded' = upgraded \cup {Top.mod}
         /\ UNCHANGED <<cache, raised, failed>>
      \/ Settle("classes", old = 0) /\ UNCHANGED <<raised, failed, upgraded>>
  BY DEF CheckModuleCache, FirstStep
<1>4. CASE Raise("init") /\ UNCHANGED <<cache, upgraded>>
  BY <1>1, <1>2, <1>4 DEF Raise, Return, Popped
<1>5. CASE /\ old \in 1..(version[Top.mod] - 1) /\ Goto("upgrade") /\ upgraded' = upgraded \cup {Top.mod}
           /\ UNCHANGED <<cache, raised, failed>>
  <2>1. frames' = [frames EXCEPT ![Len(frames)] = Put("upgrade")]
    BY <1>5 DEF Goto, Put, Top
  <2>2. Put("upgrade") \in FrameType /\ Put("upgrade").mod = Top.mod
    BY <1>2, FrameFields DEF Place
  <2>3. old > 0
    <3>1. version[Top.mod] \in Nat
      BY <1>2, ModuleRegistryAssumption DEF Typed, TypeOK, Version
    <3> QED BY <1>5, <3>1
  <2> QED BY <1>1, <1>5, <2>1, <2>2, <2>3, MovesTo
<1>6. CASE Settle("classes", old = 0) /\ UNCHANGED <<raised, failed, upgraded>>
  <2>1. frames' = [frames EXCEPT ![Len(frames)] = Settled(old = 0)]
    BY <1>6 DEF Settle, Settled, Top
  <2>2. Settled(old = 0) \in FrameType /\ Settled(old = 0).mod = Top.mod
    BY <1>2, FrameFields
  <2>3. Moved(Settled(old = 0))
    BY <1>1, <1>6, <2>1, <2>2, MovesTo
  <2> QED BY <1>1, <1>6, <2>3 DEF Settle
<1> QED BY <1>3, <1>4, <1>5, <1>6

LEMMA RegisterShape ==
  ASSUME Typed, RegisterClass
  PROVE  LET m == Top.mod
             c == ClassesOf[m][Top.n]
         IN  /\ At("classes") /\ Top.n \in DOMAIN ClassesOf[m] /\ c \in Classes
             /\ UNCHANGED <<version, cacheFile, objects, status, todo, history, linked,
                            classdata, upgraded, silent>>
             /\ \/ /\ Popped /\ failed' = failed \cup {m} /\ cache' = Forgotten(cache, m)
                   /\ UNCHANGED rows
                   /\ byclass' \in {byclass, [byclass EXCEPT ![c] = m]}
                \/ /\ Moved(Counted) /\ byclass[c] = NoModule
                   /\ byclass' = [byclass EXCEPT ![c] = m]
                   /\ rows' = [rows EXCEPT ![c] = [module |-> m, version |-> version[m]]]
                   /\ UNCHANGED <<cache, failed>>
<1> DEFINE m == Top.mod
           c == ClassesOf[m][Top.n]
<1>1. /\ At("classes") /\ Top.n \in DOMAIN ClassesOf[m]
      /\ UNCHANGED <<version, cacheFile, objects, status, todo, history, linked,
                     classdata, upgraded, silent>>
  BY DEF RegisterClass
<1>2. frames # <<>> /\ Top \in FrameType /\ Top.mod \in Modules
  BY <1>1, TopTypes
<1>3. c \in Classes
  BY <1>1, <1>2, ModuleRegistryAssumption
<1>4. \/ /\ Raise("init") /\ cache' = Forgotten(cache, m) /\ UNCHANGED rows
         /\ byclass' \in {byclass, [byclass EXCEPT ![c] = m]}
      \/ /\ frames' = [frames EXCEPT ![Len(frames)].n = @ + 1] /\ byclass[c] = NoModule
         /\ byclass' = [byclass EXCEPT ![c] = m] /\ rows' = [rows EXCEPT ![c] = Content(m, c)]
         /\ UNCHANGED <<cache, raised, failed>>
  BY DEF RegisterClass
<1>5. CASE Raise("init") /\ cache' = Forgotten(cache, m) /\ UNCHANGED rows
           /\ byclass' \in {byclass, [byclass EXCEPT ![c] = m]}
  BY <1>1, <1>2, <1>3, <1>5 DEF Raise, Return, Popped
<1>6. CASE /\ frames' = [frames EXCEPT ![Len(frames)].n = @ + 1] /\ byclass[c] = NoModule
           /\ byclass' = [byclass EXCEPT ![c] = m] /\ rows' = [rows EXCEPT ![c] = Content(m, c)]
           /\ UNCHANGED <<cache, raised, failed>>
  <2>1. frames' = [frames EXCEPT ![Len(frames)] = Counted]
    BY <1>6 DEF Counted, Top
  <2>2. Moved(Counted)
    BY <1>1, <1>2, <1>6, <2>1, FrameFields, MovesTo
  <2> QED BY <1>1, <1>3, <1>6, <2>2 DEF Content
<1> QED BY <1>4, <1>5, <1>6

LEMMA ClassesDoneShape ==
  ASSUME Typed, ClassesDone
  PROVE  /\ At("classes") /\ Top.n \notin DOMAIN ClassesOf[Top.mod]
         /\ UNCHANGED <<diskVars, status, cache, todo, history, linked, byclass, classdata, failed,
                        upgraded, silent>>
         /\ \/ Popped /\ Top.first = FALSE
            \/ Moved(Asked)
<1>1. /\ At("classes") /\ Top.n \notin DOMAIN ClassesOf[Top.mod]
      /\ UNCHANGED <<diskVars, status, cache, todo, history, linked, byclass, classdata, failed,
                     upgraded, silent, raised>>
  BY DEF ClassesDone
<1>2. frames # <<>> /\ Top \in FrameType
  BY <1>1, TopTypes
<1>3. CASE Top.first
  <2>1. frames' = [frames EXCEPT ![Len(frames)] = Asked]
    BY <1>3 DEF ClassesDone, Asked, Top
  <2>2. Moved(Asked)
    BY <1>1, <1>2, <2>1, FrameFields, MovesTo
  <2> QED BY <1>1, <2>2
<1>4. CASE ~Top.first
  <2>1. Top.first = FALSE
    BY <1>2, <1>4 DEF FrameType
  <2> QED BY <1>1, <1>2, <1>4, <2>1 DEF ClassesDone, Return, Popped
<1> QED BY <1>3, <1>4

LEMMA ImportingTypes ==
  ASSUME Typed, Importing
  PROVE  /\ frames # <<>> /\ Top \in FrameType /\ Top.mod \in Modules /\ raised = "none"
         /\ Top.at \in {"import", "upgrade"}
         /\ At("import") <=> Top.at = "import"
         /\ At("upgrade") <=> Top.at = "upgrade"
BY TopTypes DEF Importing, At

LEMMA SettleShape ==
  ASSUME Typed, Importing, Settle("classes", FALSE), raised' = raised
  PROVE  Moved(Settled(FALSE)) /\ cache' = Entered(cache, Top.mod)
<1>1. frames # <<>> /\ Top \in FrameType /\ raised = "none"
  BY ImportingTypes
<1>2. frames' = [frames EXCEPT ![Len(frames)] = Settled(FALSE)]
  BY DEF Settle, Settled, Top
<1> QED BY <1>1, <1>2, FrameFields DEF Moved, Settle

(* The end of an import that does not fail. *)
LEMMA ImportEndsShape ==
  ASSUME Typed, NoConfig \/ ImportDone
  PROVE  /\ Importing
         /\ UNCHANGED <<diskVars, status, todo, history, linked, byclass, classdata, failed, upgraded>>
         /\ \/ Top.n \notin DOMAIN ObjectsOf[Top.mod] /\ silent' = silent
            \/ Top.at = "import" /\ silent' = silent \cup {Top.mod}
            \/ Top.at = "upgrade" /\ silent' = silent
         /\ \/ Top.at = "import" /\ Popped /\ cache' = cache
            \/ /\ Top.at = "upgrade" /\ Moved(Settled(FALSE))
               /\ cache' = Entered(cache, Top.mod)
<1>1. /\ Importing /\ ImportEnds
      /\ UNCHANGED <<diskVars, status, todo, history, linked, byclass, classdata, failed, upgraded,
                     raised>>
  BY DEF NoConfig, ImportDone
<1>2. /\ frames # <<>> /\ Top.at \in {"import", "upgrade"}
  BY <1>1, ImportingTypes
<1>3. \/ Top.n \notin DOMAIN ObjectsOf[Top.mod] /\ silent' = silent
      \/ Top.at = "import" /\ silent' = silent \cup {Top.mod}
      \/ Top.at = "upgrade" /\ silent' = silent
  BY <1>2 DEF NoConfig, ImportDone
<1>4. CASE Top.at = "import"
  BY <1>1, <1>2, <1>3, <1>4 DEF ImportEnds, Return, Popped
<1>5. CASE Top.at = "upgrade"
  BY <1>1, <1>3, <1>5, SettleShape DEF ImportEnds
<1> QED BY <1>2, <1>4, <1>5

LEMMA ImportObjectShape ==
  ASSUME Typed, ImportObject
  PROVE  LET c == ObjectsOf[Top.mod][Top.n]
         IN  /\ Importing /\ Top.n \in DOMAIN ObjectsOf[Top.mod] /\ c \in Classes
             /\ objects' = objects \cup {<<Top.mod, Top.n>>} /\ classdata' = ReadsClass(c)
             /\ UNCHANGED <<version, cacheFile, rows, status, cache, todo, history, linked, byclass,
                            failed, upgraded, silent>>
             /\ Moved(Counted)
<1> DEFINE c == ObjectsOf[Top.mod][Top.n]
<1>1. /\ Importing /\ Top.n \in DOMAIN ObjectsOf[Top.mod]
      /\ objects' = objects \cup {<<Top.mod, Top.n>>} /\ classdata' = ReadsClass(c)
      /\ UNCHANGED <<version, cacheFile, rows, status, cache, todo, history, linked, byclass,
                     failed, upgraded, silent, raised>>
      /\ frames' = [frames EXCEPT ![Len(frames)].n = @ + 1]
  BY DEF ImportObject
<1>2. frames # <<>> /\ Top \in FrameType /\ Top.mod \in Modules /\ raised = "none"
  BY <1>1, ImportingTypes
<1>3. c \in Classes
  BY <1>1, <1>2, ModuleRegistryAssumption
<1>4. frames' = [frames EXCEPT ![Len(frames)] = Counted]
  BY <1>1 DEF Counted, Top
<1>5. Moved(Counted)
  BY <1>1, <1>2, <1>4, FrameFields DEF Moved
<1> QED BY <1>1, <1>3, <1>5

LEMMA ImportFailsShape ==
  ASSUME Typed, ImportFails
  PROVE  LET c == ObjectsOf[Top.mod][Top.n]
         IN  /\ Importing /\ c \in Classes /\ c \in Range(ObjectsOf[Top.mod])
             /\ classdata' = ReadsClass(c)
             /\ UNCHANGED <<diskVars, status, todo, history, linked, byclass, upgraded, silent>>
             /\ \/ /\ Top.at = "import" /\ Popped /\ cache' = Forgotten(cache, Top.mod)
                   /\ failed' = failed \cup {Top.mod}
                \/ /\ Top.at = "upgrade" /\ Moved(Settled(FALSE))
                   /\ cache' = Entered(cache, Top.mod) /\ UNCHANGED failed
<1> DEFINE c == ObjectsOf[Top.mod][Top.n]
<1>1. /\ Importing /\ Top.n \in DOMAIN ObjectsOf[Top.mod] /\ classdata' = ReadsClass(c)
      /\ UNCHANGED <<diskVars, status, todo, history, linked, byclass, upgraded, silent>>
  BY DEF ImportFails
<1>2. frames # <<>> /\ Top \in FrameType /\ Top.mod \in Modules
      /\ (At("import") <=> Top.at = "import") /\ (At("upgrade") <=> Top.at = "upgrade")
  BY <1>1, ImportingTypes
<1>3. c \in Classes /\ c \in Range(ObjectsOf[Top.mod])
  <2>1. ObjectsOf[Top.mod] \in Seq(Classes)
    BY <1>2, ModuleRegistryAssumption
  <2> QED BY <1>1, <2>1 DEF Range
<1>4. \/ At("import") /\ cache' = AfterFailure(cache, Top.mod) /\ Raise("init")
      \/ At("upgrade") /\ Settle("classes", FALSE) /\ UNCHANGED <<raised, failed>>
  BY DEF ImportFails
<1>5. CASE At("import") /\ cache' = AfterFailure(cache, Top.mod) /\ Raise("init")
  BY <1>1, <1>2, <1>3, <1>5 DEF AfterFailure, Raise, Return, Popped
<1>6. CASE At("upgrade") /\ Settle("classes", FALSE) /\ UNCHANGED <<raised, failed>>
  BY <1>1, <1>2, <1>3, <1>6, SettleShape
<1> QED BY <1>4, <1>5, <1>6

LEMMA DisableShape ==
  ASSUME Typed, Disable
  PROVE  /\ Popped /\ raised # "none" /\ failed' = failed \cup {Top.mod}
         /\ UNCHANGED <<diskVars, status, cache, todo, history, linked, byclass, classdata, upgraded,
                        silent>>
BY DEF Disable, Raise, Return, Popped

(* The steps that do not work on a module. *)
LEMMA QuietShape ==
  ASSUME Typed, Begin \/ SkipEntry \/ Finish \/ UNCHANGED vars
  PROVE  /\ UNCHANGED <<version, rows, objects, frames, history, linked, byclass, classdata,
                        failed, upgraded, silent>>
         /\ raised' # "none" => raised # "none"
         /\ status' = "down" => status = "down"
         /\ cache' \in {cache, cacheFile} /\ (frames # <<>> => cache' = cache)
         /\ \/ cacheFile' = cacheFile
            \/ cacheFile' = cache /\ frames = <<>>
<1>1. CASE Begin
  <2>1. cache' = cacheFile
    BY <1>1, DroppedNothing DEF Begin, Typed, TypeOK
  <2> QED BY <1>1, <2>1 DEF Begin, diskVars, Typed, HasEntry
<1>2. CASE SkipEntry
  BY <1>2 DEF SkipEntry, diskVars
<1>3. CASE Finish
  BY <1>3 DEF Finish, AllLoaded, memory
<1>4. CASE UNCHANGED vars
  <2>1. UNCHANGED <<version, cacheFile, rows, objects, status, cache, frames, raised, history, linked,
                    byclass, classdata, failed, upgraded, silent>>
    BY <1>4 DEF vars, diskVars, memory
  <2> QED BY <2>1
<1> QED BY <1>1, <1>2, <1>3, <1>4

LEMMA ExitShape ==
  ASSUME Typed, GiveUp \/ Crash
  PROVE  /\ Exit /\ UNCHANGED <<version, rows, objects, silent>>
         /\ \/ cacheFile' \in {cacheFile, EmptyCache}
            \/ cacheFile' = cache /\ frames = <<>>
BY DEF GiveUp, Crash

LEMMA InstallShape ==
  ASSUME Typed, Install
  PROVE  /\ status = "down"
         /\ UNCHANGED <<cacheFile, rows, objects, frames, raised, status, history, linked, byclass,
                        cache, classdata, failed, upgraded, silent>>
BY DEF Install, memory

-----------------------------------------------------------------------------
(* The calls. *)
LEMMA StackShapes ==
  ASSUME Typed, [Next]_vars
  PROVE  \/ UNCHANGED <<frames, history>> /\ (raised' # "none" => raised # "none")
         \/ Exit
         \/ \E r : Moved(r) /\ history' = history
         \/ Popped /\ history' = history
         \/ \E calls, m : Pushed(calls, m)
<1>1. ASSUME Begin \/ SkipEntry \/ Finish \/ UNCHANGED vars
      PROVE  UNCHANGED <<frames, history>> /\ (raised' # "none" => raised # "none")
  BY <1>1, QuietShape
<1>2. ASSUME Install PROVE UNCHANGED <<frames, history, raised>>
  BY <1>2, InstallShape
<1>3. ASSUME GiveUp \/ Crash PROVE Exit
  BY <1>3, ExitShape
<1>4. ASSUME NextEntry
      PROVE  UNCHANGED <<frames, history, raised>> \/ \E calls, m : Pushed(calls, m)
  BY <1>4, NextEntryShape DEF Idle
<1>5. ASSUME Verify PROVE (\E r : Moved(r) /\ history' = history) \/ (Popped /\ history' = history)
  BY <1>5, VerifyShape
<1>6. ASSUME Require
      PROVE  (\E r : Moved(r) /\ history' = history) \/ \E calls, m : Pushed(calls, m)
  BY <1>6, RequireShape
<1>7. ASSUME CheckModuleCache
      PROVE  (\E r : Moved(r) /\ history' = history) \/ (Popped /\ history' = history)
  BY <1>7, CheckShape
<1>8. ASSUME RegisterClass
      PROVE  (\E r : Moved(r) /\ history' = history) \/ (Popped /\ history' = history)
  BY <1>8, RegisterShape
<1>9. ASSUME ClassesDone
      PROVE  (\E r : Moved(r) /\ history' = history) \/ (Popped /\ history' = history)
  BY <1>9, ClassesDoneShape
<1>10. ASSUME NoConfig \/ ImportDone
       PROVE  (\E r : Moved(r) /\ history' = history) \/ (Popped /\ history' = history)
  BY <1>10, ImportEndsShape
<1>11. ASSUME ImportObject PROVE \E r : Moved(r) /\ history' = history
  BY <1>11, ImportObjectShape
<1>12. ASSUME ImportFails
       PROVE  (\E r : Moved(r) /\ history' = history) \/ (Popped /\ history' = history)
  BY <1>12, ImportFailsShape
<1>13. ASSUME Disable PROVE Popped /\ history' = history
  BY <1>13, DisableShape
<1> QED
  BY <1>1, <1>2, <1>3, <1>4, <1>5, <1>6, <1>7, <1>8, <1>9, <1>10, <1>11, <1>12, <1>13 DEF Next

LEMMA CallsStep ==
  ASSUME Typed, Calls, [Next]_vars
  PROVE  Calls'
<1>1. CASE UNCHANGED <<frames, history>> /\ (raised' # "none" => raised # "none")
  BY <1>1 DEF Calls
<1>2. CASE Exit
  BY <1>2, ExitTypes DEF Calls
<1>3. CASE \E r : Moved(r) /\ history' = history
  BY <1>3, CallsMoved
<1>4. CASE Popped /\ history' = history
  BY <1>4, CallsPopped
<1>5. CASE \E calls, m : Pushed(calls, m)
  BY <1>5, CallsPushed
<1> QED BY <1>1, <1>2, <1>3, <1>4, <1>5, StackShapes

(* The frame of a module is the only one. *)
LEMMA TopIsAlone ==
  ASSUME Typed, Calls, frames # <<>>
  PROVE  /\ Len(frames) \in DOMAIN frames /\ Len(frames) \in Nat \ {0} /\ frames[Len(frames)] = Top
         /\ DOMAIN frames = 1..Len(frames) /\ Top \in FrameType /\ Top.mod \in Modules
         /\ \A i \in DOMAIN frames : frames[i] \in FrameType
         /\ \A i \in DOMAIN frames : i # Len(frames) =>
              frames[i].mod # Top.mod /\ frames[i].at = "check"
<1>1. frames \in Seq(FrameType)
  BY DEF Typed, TypeOK
<1>2. /\ Len(frames) \in DOMAIN frames /\ Len(frames) \in Nat \ {0} /\ frames[Len(frames)] = Top
      /\ DOMAIN frames = 1..Len(frames) /\ Top \in FrameType
  BY <1>1, TopIsFrame DEF Top
<1>3. \A i \in DOMAIN frames : frames[i] \in FrameType
  BY <1>1
<1> QED BY <1>2, <1>3 DEF Calls, FrameType

-----------------------------------------------------------------------------
(* The modules that are linked. *)
LEMMA LinkedGrows ==
  ASSUME Typed, NEW m \in Modules, linked' = Append(linked, m)
  PROVE  /\ Range(linked)' = Range(linked) \cup {m}
         /\ (/\ m \notin Range(linked)
             /\ \A i, j \in DOMAIN linked : linked[i] = linked[j] => i = j) =>
                \A i, j \in DOMAIN linked' : linked'[i] = linked'[j] => i = j
<1>1. /\ DOMAIN linked = 1..Len(linked) /\ Len(linked) \in Nat
      /\ DOMAIN linked' = 1..Len(linked) + 1 /\ linked'[Len(linked) + 1] = m
      /\ \A i \in DOMAIN linked : linked'[i] = linked[i]
  BY DEF Typed, TypeOK
<1>2. DOMAIN linked' = DOMAIN linked \cup {Len(linked) + 1}
  BY <1>1
<1>3. Range(linked)' = Range(linked) \cup {m}
  BY <1>1, <1>2 DEF Range
<1>4. \A i \in DOMAIN linked : linked[i] \in Range(linked)
  BY DEF Range
<1> QED BY <1>1, <1>2, <1>3, <1>4

Before == {"verify", "require", "check"}

LEMMA LinkedMoved ==
  ASSUME Typed, Linked, NEW r, Moved(r), UNCHANGED <<linked, history>>,
         r.at \in Before <=> Top.at \in Before
  PROVE  Linked'
<1>1. \A i \in DOMAIN frames : /\ frames'[i].mod = frames[i].mod
                               /\ frames'[i].at \in Before <=> frames[i].at \in Before
  BY MovedFrames DEF Moved
<1>2. DOMAIN frames' = DOMAIN frames /\ Range(linked)' = Range(linked)
  BY MovedFrames DEF Range
<1>3. \A i \in DOMAIN frames : frames[i].mod \in Range(linked) <=> frames[i].at \notin Before
  BY DEF Linked, Before
<1>4. ASSUME NEW i \in DOMAIN frames'
      PROVE  frames'[i].mod \in Range(linked)' <=> frames'[i].at \notin Before
  <2>1. i \in DOMAIN frames
    BY <1>2
  <2>2. frames'[i].mod = frames[i].mod /\ (frames'[i].at \in Before <=> frames[i].at \in Before)
    BY <1>1, <2>1
  <2>3. frames[i].mod \in Range(linked) <=> frames[i].at \notin Before
    BY <1>3, <2>1
  <2> QED BY <1>2, <2>2, <2>3
<1> QED BY <1>2, <1>4 DEF Linked, Before

LEMMA LinkedPopped ==
  ASSUME Typed, Linked, Popped, UNCHANGED <<linked, history>>
  PROVE  Linked'
<1>1. Range(linked)' = Range(linked)
  BY DEF Range
<1> QED BY <1>1, PoppedFrames DEF Linked

LEMMA LinkedPushed ==
  ASSUME Typed, Calls, Linked, NEW calls, NEW m, Pushed(calls, m), linked' = linked
  PROVE  Linked'
<1>1. Range(linked)' = Range(linked) /\ history' = history \cup {m} /\ m \notin history
  BY DEF Range, Pushed
<1>2. Frame(m).mod = m /\ Frame(m).at = "verify"
  BY FrameIsTyped DEF Pushed
<1>3. ASSUME NEW i \in DOMAIN frames'
      PROVE  frames'[i].mod \in Range(linked)' <=> frames'[i].at \notin Before
  <2>1. CASE i \in DOMAIN calls
    BY <1>1, <2>1, PushedFrames DEF Linked, Before
  <2>2. CASE i \notin DOMAIN calls
    <3>1. frames'[i] = Frame(m)
      BY <1>3, <2>2, PushedFrames
    <3> QED BY <1>1, <1>2, <3>1 DEF Linked, Before
  <2> QED BY <2>1, <2>2
<1> QED BY <1>1, <1>3 DEF Linked, Before

LEMMA LinkedChecked ==
  ASSUME Typed, Calls, Linked, At("check"), linked' = Append(linked, Top.mod), history' = history,
         Popped \/ \E r : Moved(r) /\ r.at \notin Before
  PROVE  Linked'
<1>1. frames # <<>> /\ Top.mod \in Modules /\ Top.at = "check" /\ raised = "none"
  BY TopTypes
<1>2. Top.mod \in history /\ Top.mod \notin Range(linked)
  BY <1>1, TopIsAlone DEF Calls, Linked
<1>3. /\ Range(linked)' = Range(linked) \cup {Top.mod}
      /\ \A i, j \in DOMAIN linked' : linked'[i] = linked'[j] => i = j
  BY <1>1, <1>2, LinkedGrows DEF Linked
<1>4. \A i \in DOMAIN frames : i # Len(frames) =>
         (frames[i].mod \in Range(linked)' <=> frames[i].at \notin Before)
  BY <1>1, <1>3, TopIsAlone DEF Linked, Before
<1>5. \A i \in DOMAIN frames' : frames'[i].mod \in Range(linked)' <=> frames'[i].at \notin Before
  <2>1. CASE Popped
    <3>1. \A i \in DOMAIN frames' : i \in DOMAIN frames /\ i # Len(frames) /\ frames'[i] = frames[i]
      BY <2>1, PoppedFrames
    <3> QED BY <1>4, <3>1
  <2>2. ASSUME NEW r, Moved(r), r.at \notin Before
        PROVE  \A i \in DOMAIN frames' : frames'[i].mod \in Range(linked)' <=> frames'[i].at \notin Before
    <3>1. /\ \A i \in DOMAIN frames' : i \in DOMAIN frames
          /\ \A i \in DOMAIN frames : i # Len(frames) => frames'[i] = frames[i]
          /\ frames'[Len(frames)] = r /\ r.mod = Top.mod
      BY <2>2, MovedFrames DEF Moved
    <3> QED BY <1>3, <1>4, <2>2, <3>1
  <2> QED BY <2>1, <2>2
<1> QED BY <1>2, <1>3, <1>5 DEF Linked, Before

LEMMA LinkedStep ==
  ASSUME Typed, Calls, Linked, [Next]_vars
  PROVE  Linked'
<1>1. ASSUME UNCHANGED <<frames, linked, history>> PROVE Linked'
  BY <1>1 DEF Linked, Range
<1>2. CASE Begin \/ SkipEntry \/ Finish \/ UNCHANGED vars
  BY <1>1, <1>2, QuietShape
<1>3. CASE Install
  BY <1>1, <1>3, InstallShape
<1>4. CASE GiveUp \/ Crash
  BY <1>4, ExitShape, ExitTypes DEF Linked, Range
<1>5. CASE NextEntry
  BY <1>1, <1>5, NextEntryShape, LinkedPushed DEF Idle
<1>6. Top \in FrameType =>
        /\ Put("require").at = "require" /\ Put("check").at = "check" /\ Put("upgrade").at = "upgrade"
        /\ \A b \in BOOLEAN : Settled(b).at = "classes"
        /\ Asked.at = "import" /\ Counted.at = Top.at
  BY FrameFields DEF Place
<1>7. CASE Verify
  <2>1. Top.at = "verify" /\ Top \in FrameType /\ UNCHANGED <<linked, history>>
        /\ (Popped \/ Moved(Put("require")))
    BY <1>7, VerifyShape, TopTypes
  <2> QED BY <1>6, <2>1, LinkedPopped, LinkedMoved DEF Before
<1>8. CASE Require
  <2>1. Top.at = "require" /\ Top \in FrameType /\ linked' = linked
    BY <1>8, RequireShape, TopTypes
  <2>2. (Moved(Put("check")) /\ history' = history) \/ \E calls, m : Pushed(calls, m)
    BY <1>8, RequireShape
  <2> QED BY <1>6, <2>1, <2>2, LinkedPushed, LinkedMoved DEF Before
<1>9. CASE CheckModuleCache
  <2>1. /\ At("check") /\ linked' = Append(linked, Top.mod) /\ history' = history
        /\ Popped \/ Moved(Put("upgrade")) \/ Moved(Settled(cache.modules[Top.mod] = 0))
    BY <1>9, CheckShape
  <2>2. Put("upgrade").at \notin Before /\ Settled(cache.modules[Top.mod] = 0).at \notin Before
    BY <1>6, <2>1, TopTypes DEF Before
  <2> QED BY <2>1, <2>2, LinkedChecked
<1>10. CASE RegisterClass
  <2>1. Top.at = "classes" /\ Top \in FrameType /\ UNCHANGED <<linked, history>>
        /\ (Popped \/ Moved(Counted))
    BY <1>10, RegisterShape, TopTypes
  <2> QED BY <1>6, <2>1, LinkedPopped, LinkedMoved
<1>11. CASE ClassesDone
  <2>1. Top.at = "classes" /\ Top \in FrameType /\ UNCHANGED <<linked, history>>
        /\ (Popped \/ Moved(Asked))
    BY <1>11, ClassesDoneShape, TopTypes
  <2> QED BY <1>6, <2>1, LinkedPopped, LinkedMoved DEF Before
<1>12. CASE NoConfig \/ ImportDone \/ ImportObject \/ ImportFails
  <2>1. Importing /\ UNCHANGED <<linked, history>> /\ (Popped \/ Moved(Settled(FALSE)) \/ Moved(Counted))
    BY <1>12, ImportEndsShape, ImportObjectShape, ImportFailsShape
  <2>2. Top \in FrameType /\ Top.at \in {"import", "upgrade"}
    BY <2>1, ImportingTypes
  <2>3. Settled(FALSE).at \notin Before /\ Top.at \notin Before /\ Counted.at = Top.at
    BY <1>6, <2>2 DEF Before
  <2> QED BY <2>1, <2>3, LinkedPopped, LinkedMoved
<1>13. CASE Disable
  BY <1>13, DisableShape, LinkedPopped
<1> QED
  BY <1>2, <1>3, <1>4, <1>5, <1>7, <1>8, <1>9, <1>10, <1>11, <1>12, <1>13 DEF Next

-----------------------------------------------------------------------------
(* Dictionaries and rows. *)

(* What changes of byclass is that it gets classes, of linked modules. *)
LEMMA ToldMoved ==
  ASSUME Typed, Calls, NEW r, Moved(r), \A i \in DOMAIN frames : Told(frames[i], byclass), Told(r, byclass'),
         \A c \in Classes : byclass[c] # NoModule => byclass'[c] # NoModule
  PROVE  \A i \in DOMAIN frames' : Told(frames'[i], byclass')
<1>1. /\ DOMAIN frames' = DOMAIN frames /\ frames'[Len(frames)] = r
      /\ \A i \in DOMAIN frames : i # Len(frames) => frames'[i] = frames[i]
  BY MovedFrames
<1>2. \A i \in DOMAIN frames : i # Len(frames) => frames[i].at = "check"
  BY TopIsAlone DEF Moved
<1> QED BY <1>1, <1>2 DEF Told

LEMMA ToldPopped ==
  ASSUME Typed, Calls, Popped
  PROVE  \A i \in DOMAIN frames' : Told(frames'[i], byclass')
<1>1. \A i \in DOMAIN frames' : i \in DOMAIN frames /\ i < Len(frames) /\ frames'[i] = frames[i]
  BY PoppedFrames
<1> QED BY <1>1 DEF Calls, Told

LEMMA ToldPushed ==
  ASSUME Typed, Calls, NEW calls, NEW m, Pushed(calls, m)
  PROVE  \A i \in DOMAIN frames' : Told(frames'[i], byclass')
<1>1. \A i \in DOMAIN frames' : frames'[i].at \in {"check", "verify"}
  <2>1. Frame(m).at = "verify"
    BY FrameIsTyped DEF Pushed
  <2> QED BY <2>1, PushedFrames
<1> QED BY <1>1 DEF Told

(* A step that leaves dictionaries and rows alone. *)
LEMMA RegisteredKept ==
  ASSUME Typed, Registered, UNCHANGED <<rows, byclass, version>>,
         linked' = linked \/ \E m \in Modules : linked' = Append(linked, m),
         failed \subseteq failed', status' = "down" => status = "down",
         \A i \in DOMAIN frames' : Told(frames'[i], byclass')
  PROVE  Registered'
<1>1. Range(linked) \subseteq Range(linked)'
  BY LinkedGrows DEF Range
<1>2. Range(byclass)' = Range(byclass)
  BY DEF Range
<1> QED BY <1>1, <1>2 DEF Registered

(* A class gets its module; the module may be given up with it. *)
LEMMA RegisteredOne ==
  ASSUME Typed, Registered, NEW m \in Range(linked), NEW c \in Classes,
         byclass' = [byclass EXCEPT ![c] = m] \/ byclass' = byclass,
         linked' = linked, version' = version, status' = status, status # "down",
         \/ rows' = rows /\ failed' = failed \cup {m}
         \/ /\ rows' = [rows EXCEPT ![c] = [module |-> m, version |-> version[m]]]
            /\ byclass' = [byclass EXCEPT ![c] = m] /\ byclass[c] = NoModule /\ failed' = failed,
         \A i \in DOMAIN frames' : Told(frames'[i], byclass')
  PROVE  Registered'
<1>1. byclass \in [Classes -> Modules \cup {NoModule}] /\ DOMAIN rows = Classes
  BY DEF Typed, TypeOK
<1>2. Range(linked)' = Range(linked)
  BY DEF Range
<1>3. ASSUME NEW d \in Classes PROVE byclass'[d] = m \/ byclass'[d] = byclass[d]
  BY <1>1
<1>4. Range(byclass)' \subseteq Range(linked)' \cup {NoModule}
  <2>1. DOMAIN byclass' = Classes /\ \A d \in Classes : byclass[d] \in Range(linked) \cup {NoModule}
    BY <1>1 DEF Registered, Range
  <2>2. \A d \in Classes : byclass'[d] \in Range(linked) \cup {NoModule}
    BY <1>3, <2>1
  <2>3. ASSUME NEW x \in Range(byclass)' PROVE x \in Range(linked) \cup {NoModule}
    <3>1. PICK d \in DOMAIN byclass' : x = byclass'[d]
      BY DEF Range
    <3> QED BY <2>1, <2>2, <3>1
  <2> QED BY <1>2, <2>3
<1>5. ASSUME NEW d \in Classes, byclass'[d] \notin failed' \cup {NoModule}
      PROVE  rows'[d] = [module |-> byclass'[d], version |-> version[byclass'[d]]]
  <2>1. \A e \in Classes : byclass[e] \notin failed \cup {NoModule} =>
          rows[e] = [module |-> byclass[e], version |-> version[byclass[e]]]
    BY DEF Registered
  <2>2. CASE rows' = rows /\ failed' = failed \cup {m}
    BY <1>3, <1>5, <2>1, <2>2
  <2>3. CASE /\ rows' = [rows EXCEPT ![c] = [module |-> m, version |-> version[m]]]
             /\ byclass' = [byclass EXCEPT ![c] = m] /\ failed' = failed
    <3>1. CASE d = c
      BY <1>1, <2>3, <3>1
    <3>2. CASE d # c
      BY <1>1, <1>5, <2>1, <2>3, <3>2
    <3> QED BY <3>1, <3>2
  <2> QED BY <2>2, <2>3
<1> QED BY <1>4, <1>5 DEF Registered

LEMMA RegisteredStep ==
  ASSUME Typed, Calls, Linked, Registered, [Next]_vars
  PROVE  Registered'
<1> USE DEF diskVars
<1>1. \A i \in DOMAIN frames : Told(frames[i], byclass)
  BY DEF Registered
<1>2. CASE Begin \/ SkipEntry \/ Finish \/ UNCHANGED vars
  <2>1. UNCHANGED <<version, rows, frames, linked, byclass, failed>>
        /\ (status' = "down" => status = "down")
    BY <1>2, QuietShape
  <2> QED BY <1>1, <2>1, RegisteredKept
<1>3. CASE Install
  <2>1. UNCHANGED <<rows, frames, linked, byclass, failed, status>> /\ status = "down"
    BY <1>3, InstallShape
  <2> QED BY <2>1 DEF Registered, Range
<1>4. CASE GiveUp \/ Crash
  <2>1. /\ frames' = <<>> /\ linked' = <<>> /\ \A c \in Classes : byclass'[c] = NoModule
        /\ byclass' \in [Classes -> Modules \cup {NoModule}]
    BY <1>4, ExitShape, ExitTypes
  <2> QED BY <2>1 DEF Registered, Range
<1>5. CASE NextEntry
  <2>1. UNCHANGED <<version, rows, status, linked, byclass, failed>>
        /\ (frames' = frames \/ \E calls, m : Pushed(calls, m))
    BY <1>5, NextEntryShape DEF Idle
  <2> QED BY <1>1, <2>1, ToldPushed, RegisteredKept
<1>6. Top \in FrameType =>
        /\ Put("require").at = "require" /\ Put("check").at = "check" /\ Put("upgrade").at = "upgrade"
  BY FrameFields DEF Place
<1>7. CASE Verify
  <2>1. Top \in FrameType /\ UNCHANGED <<version, rows, status, linked, byclass>> /\ failed \subseteq failed'
        /\ (Popped \/ Moved(Put("require")))
    BY <1>7, VerifyShape, TopTypes
  <2>2. Told(Put("require"), byclass')
    BY <1>6, <2>1 DEF Told
  <2> QED BY <1>1, <2>1, <2>2, ToldPopped, ToldMoved, RegisteredKept
<1>8. CASE Require
  <2>1. Top \in FrameType /\ UNCHANGED <<version, rows, status, linked, byclass, failed>>
        /\ (Moved(Put("check")) \/ \E calls, m : Pushed(calls, m))
    BY <1>8, RequireShape, TopTypes
  <2>2. Told(Put("check"), byclass')
    BY <1>6, <2>1 DEF Told
  <2> QED BY <1>1, <2>1, <2>2, ToldPushed, ToldMoved, RegisteredKept
<1>9. CASE CheckModuleCache
  <2>1. Top \in FrameType /\ Top.mod \in Modules /\ linked' = Append(linked, Top.mod)
        /\ UNCHANGED <<version, rows, status, byclass>> /\ failed \subseteq failed'
        /\ (Popped \/ Moved(Put("upgrade")) \/ Moved(Settled(cache.modules[Top.mod] = 0)))
    BY <1>9, CheckShape, TopTypes
  <2>2. Told(Put("upgrade"), byclass')
    BY <1>6, <2>1 DEF Told
  <2>3. Told(Settled(cache.modules[Top.mod] = 0), byclass')
    <3>1. \A b \in BOOLEAN : /\ Settled(b).at = "classes" /\ Settled(b).n = 1
                             /\ Settled(b).mod = Top.mod
      BY <2>1, FrameFields
    <3>2. ClassesOf[Top.mod] \in Seq(Classes)
      BY <2>1, ModuleRegistryAssumption
    <3>3. \A j \in DOMAIN ClassesOf[Top.mod] : ~(j < 1)
      BY <3>2
    <3> QED BY <3>1, <3>3 DEF Told
  <2> QED BY <1>1, <2>1, <2>2, <2>3, ToldPopped, ToldMoved, RegisteredKept
<1>10. CASE RegisterClass
  <2> DEFINE m == Top.mod
             c == ClassesOf[m][Top.n]
  <2>1. At("classes") /\ Top.n \in DOMAIN ClassesOf[m] /\ c \in Classes
        /\ UNCHANGED <<version, status, linked>>
        /\ \/ /\ Popped /\ failed' = failed \cup {m} /\ UNCHANGED rows
              /\ byclass' \in {byclass, [byclass EXCEPT ![c] = m]}
           \/ /\ Moved(Counted) /\ byclass[c] = NoModule
              /\ byclass' = [byclass EXCEPT ![c] = m]
              /\ rows' = [rows EXCEPT ![c] = [module |-> m, version |-> version[m]]]
              /\ failed' = failed
    BY <1>10, RegisterShape
  <2>2. Top \in FrameType /\ m \in Modules /\ frames # <<>> /\ Top.at = "classes" /\ status = "loading"
    BY <2>1, TopTypes
  <2>3. m \in Range(linked)
    BY <2>2, TopIsAlone DEF Linked
  <2>4. \A i \in DOMAIN frames' : Told(frames'[i], byclass')
    <3>1. CASE Popped
      BY <3>1, ToldPopped
    <3>2. CASE Moved(Counted) /\ byclass' = [byclass EXCEPT ![c] = m]
      <4>1. byclass \in [Classes -> Modules \cup {NoModule}] /\ m # NoModule
        BY <2>2, ModuleRegistryAssumption DEF Typed, TypeOK
      <4>2. \A d \in Classes : byclass[d] # NoModule => byclass'[d] # NoModule
        BY <3>2, <4>1
      <4>3. byclass'[c] # NoModule
        BY <2>1, <3>2, <4>1
      <4>4. Told(Top, byclass)
        BY <1>1, <2>2, TopIsAlone
      <4>5. /\ Counted.at = "classes" /\ Counted.n = Top.n + 1 /\ Counted.mod = m /\ Top.n \in Nat
            /\ ClassesOf[m] \in Seq(Classes)
        BY <2>2, FrameFields, ModuleRegistryAssumption DEF FrameType
      <4>6. ASSUME NEW j \in DOMAIN ClassesOf[m], j < Top.n + 1
            PROVE  byclass'[ClassesOf[m][j]] # NoModule
        <5>1. j < Top.n \/ j = Top.n
          BY <4>5, <4>6
        <5>2. CASE j < Top.n
          <6>1. ClassesOf[m][j] \in Classes
            BY <4>5
          <6> QED BY <2>2, <4>2, <4>4, <5>2, <6>1 DEF Told
        <5> QED BY <4>3, <5>1, <5>2
      <4>7. Told(Counted, byclass')
        BY <4>5, <4>6 DEF Told
      <4> QED BY <1>1, <3>2, <4>2, <4>7, ToldMoved
    <3> QED BY <2>1, <3>1, <3>2
  <2> HIDE DEF m, c
  <2> QED BY <2>1, <2>2, <2>3, <2>4, RegisteredOne
<1>11. CASE ClassesDone
  <2>1. At("classes") /\ Top.n \notin DOMAIN ClassesOf[Top.mod] 
        /\ UNCHANGED <<version, rows, status, linked, byclass, failed>>
        /\ (Popped \/ Moved(Asked))
    BY <1>11, ClassesDoneShape
  <2>2. Top \in FrameType /\ frames # <<>> /\ Top.at = "classes" /\ Top.mod \in Modules
    BY <2>1, TopTypes
  <2>3. Asked.at = "import" /\ Asked.mod = Top.mod /\ Told(Top, byclass)
    BY <1>1, <2>2, FrameFields, TopIsAlone
  <2>4. \A j \in DOMAIN ClassesOf[Top.mod] : j < Top.n
    <3>1. ClassesOf[Top.mod] \in Seq(Classes) /\ Top.n \in Nat \ {0}
      BY <2>2, ModuleRegistryAssumption DEF FrameType
    <3> QED BY <2>1, <3>1
  <2>5. Told(Asked, byclass')
    BY <2>1, <2>2, <2>3, <2>4 DEF Told, Range
  <2> QED BY <1>1, <2>1, <2>5, ToldPopped, ToldMoved, RegisteredKept
<1>12. CASE NoConfig \/ ImportDone \/ ImportObject \/ ImportFails
  <2>1. /\ Importing /\ UNCHANGED <<version, rows, status, linked, byclass>>
        /\ failed \subseteq failed'
        /\ (Popped \/ Moved(Settled(FALSE)) \/ Moved(Counted))
    BY <1>12, ImportEndsShape, ImportObjectShape, ImportFailsShape
  <2>2. Top \in FrameType /\ Top.at \in {"import", "upgrade"} /\ Top.mod \in Modules /\ frames # <<>>
    BY <2>1, ImportingTypes
  <2>3. Told(Settled(FALSE), byclass')
    <3>1. Settled(FALSE).at = "classes" /\ Settled(FALSE).n = 1 /\ Settled(FALSE).mod = Top.mod
      BY <2>2, FrameFields
    <3>2. ClassesOf[Top.mod] \in Seq(Classes)
      BY <2>2, ModuleRegistryAssumption
    <3>3. \A j \in DOMAIN ClassesOf[Top.mod] : ~(j < 1)
      BY <3>2
    <3> QED BY <3>1, <3>3 DEF Told
  <2>4. Told(Counted, byclass')
    <3>1. Counted.at = Top.at /\ Counted.mod = Top.mod /\ Told(Top, byclass)
      BY <1>1, <2>2, FrameFields, TopIsAlone
    <3> QED BY <2>1, <2>2, <3>1 DEF Told
  <2> QED BY <1>1, <2>1, <2>3, <2>4, ToldPopped, ToldMoved, RegisteredKept
<1>13. CASE Disable
  <2>1. Popped /\ UNCHANGED <<version, rows, status, linked, byclass>> /\ failed \subseteq failed'
    BY <1>13, DisableShape
  <2> QED BY <2>1, ToldPopped, RegisteredKept
<1> QED
  BY <1>2, <1>3, <1>4, <1>5, <1>7, <1>8, <1>9, <1>10, <1>11, <1>12, <1>13 DEF Next

-----------------------------------------------------------------------------
(* What the modules in the cache gave. *)
LEMMA GaveMore ==
  ASSUME NEW m, NEW there, NEW mute, NEW more, NEW muter, Gave(m, there, mute),
         there \subseteq more, mute \subseteq muter
  PROVE  Gave(m, more, muter)
BY DEF Gave

(* The end of an import: the objects up to the last.                         *)
LEMMA AllGiven ==
  ASSUME NEW f \in FrameType, f.at = "import", f.n \notin DOMAIN ObjectsOf[f.mod],
         NEW there, NEW mute, Given(f, there, mute)
  PROVE  Gave(f.mod, there, mute)
<1>1. ObjectsOf[f.mod] \in Seq(Classes) /\ f.n \in Nat \ {0}
  BY ModuleRegistryAssumption DEF FrameType
<1>2. \A j \in DOMAIN ObjectsOf[f.mod] : j \in 1..f.n - 1
  BY <1>1
<1>3. \A j \in DOMAIN ObjectsOf[f.mod] : <<f.mod, j>> \in there
  BY <1>2 DEF Given
<1> QED BY <1>3 DEF Gave, Imports

LEMMA GivenMoved ==
  ASSUME Typed, Calls, NEW r, Moved(r), Given(r, objects', silent')
  PROVE  \A i \in DOMAIN frames' : Given(frames'[i], objects', silent')
<1>1. /\ DOMAIN frames' = DOMAIN frames /\ frames'[Len(frames)] = r
      /\ \A i \in DOMAIN frames : i # Len(frames) => frames'[i] = frames[i]
  BY MovedFrames
<1>2. \A i \in DOMAIN frames : i # Len(frames) => frames[i].at = "check"
  BY TopIsAlone DEF Moved
<1> QED BY <1>1, <1>2 DEF Given

LEMMA GivenPopped ==
  ASSUME Typed, Calls, Popped
  PROVE  \A i \in DOMAIN frames' : Given(frames'[i], objects', silent')
<1>1. \A i \in DOMAIN frames' : i \in DOMAIN frames /\ i < Len(frames) /\ frames'[i] = frames[i]
  BY PoppedFrames
<1> QED BY <1>1 DEF Calls, Given

LEMMA GivenPushed ==
  ASSUME Typed, Calls, NEW calls, NEW m, Pushed(calls, m)
  PROVE  \A i \in DOMAIN frames' : Given(frames'[i], objects', silent')
<1>1. \A i \in DOMAIN frames' : frames'[i].at \in {"check", "verify"}
  <2>1. Frame(m).at = "verify"
    BY FrameIsTyped DEF Pushed
  <2> QED BY <2>1, PushedFrames
<1> QED BY <1>1 DEF Given

(* Only the innermost call can be about to ask.                              *)
LEMMA PendingIsTop ==
  ASSUME Typed, Calls, frames # <<>>, NEW m
  PROVE  Pending(m) <=> m = Top.mod /\ Asks(Top)
<1>1. \A i \in DOMAIN frames : Asks(frames[i]) => i = Len(frames)
  BY TopIsAlone DEF Asks
<1> QED BY <1>1, TopIsAlone DEF Pending, Awaits

LEMMA NothingPending ==
  ASSUME Typed, Calls, frames = <<>>, NEW m
  PROVE  ~Pending(m)
BY DEF Pending, Awaits

LEMMA MovedAsks ==
  ASSUME Typed, NEW r, Moved(r), Asks(r)
  PROVE  Awaits(Top.mod, frames')
<1>1. Len(frames) \in DOMAIN frames' /\ frames'[Len(frames)] = r /\ r.mod = Top.mod
  BY MovedFrames DEF Moved
<1> QED BY <1>1 DEF Awaits

(* A step of the innermost call, or of none: the cache and the disk.          *)
LEMMA ImportedBy ==
  ASSUME Typed, Calls, Imported,
         cacheFile' = cacheFile, objects \subseteq objects', silent \subseteq silent',
         cache \in Table,
         frames = <<>> => cache' = cache,
         frames # <<>> => \A m \in Modules \ {Top.mod} : cache'.modules[m] = cache.modules[m],
         frames # <<>> /\ cache'.modules[Top.mod] > 0 =>
           Gave(Top.mod, objects', silent') \/ Awaits(Top.mod, frames'),
         \A i \in DOMAIN frames' : Given(frames'[i], objects', silent')
  PROVE  Imported'
<1>1. ASSUME NEW m \in Modules, Has(m) PROVE Has(m)'
  BY <1>1, GaveMore DEF Has
<1>2. ASSUME NEW m \in Modules, cache'.modules[m] > 0
      PROVE  Has(m)' \/ Pending(m)'
  <2>1. CASE frames = <<>>
    BY <1>1, <1>2, <2>1, NothingPending DEF Imported
  <2>2. CASE frames # <<>> /\ m # Top.mod
    <3>1. cache.modules[m] > 0 /\ ~Pending(m)
      BY <1>2, <2>2, PendingIsTop
    <3> QED BY <1>1, <3>1 DEF Imported
  <2>3. CASE frames # <<>> /\ m = Top.mod
    BY <1>2, <2>3 DEF Has, Pending
  <2> QED BY <2>1, <2>2, <2>3
<1>3. ASSUME NEW m \in Modules, cacheFile'.modules[m] > 0 PROVE Has(m)'
  BY <1>1, <1>3 DEF Imported
<1> QED BY <1>2, <1>3 DEF Imported

LEMMA ImportedStep ==
  ASSUME Typed, Calls, Imported, [Next]_vars
  PROVE  Imported'
<1> USE DEF diskVars
<1>t. /\ cache \in Table /\ cacheFile \in Table /\ version \in [Modules -> Version]
      /\ EmptyCache \in Table /\ \A m \in Modules : EmptyCache.modules[m] = 0
  BY EmptyCacheType DEF Typed, TypeOK
<1>1. \A i \in DOMAIN frames : Given(frames[i], objects, silent)
  BY DEF Imported
<1>2. CASE Begin \/ SkipEntry \/ Finish \/ UNCHANGED vars
  <2>1. UNCHANGED <<objects, frames, silent>> /\ cache' \in {cache, cacheFile}
        /\ (frames # <<>> => cache' = cache)
        /\ (cacheFile' = cacheFile \/ (cacheFile' = cache /\ frames = <<>>))
    BY <1>2, QuietShape
  <2>2. \A m \in Modules : (Has(m)' <=> Has(m)) /\ (Pending(m)' <=> Pending(m))
    BY <2>1 DEF Has, Pending
  <2> QED BY <1>1, <2>1, <2>2, NothingPending DEF Imported
<1>3. CASE Install
  <2>1. UNCHANGED <<cacheFile, cache, objects, frames, silent>>
    BY <1>3, InstallShape
  <2> QED BY <2>1 DEF Imported, Has, Pending
<1>4. CASE GiveUp \/ Crash
  <2>1. /\ frames' = <<>> /\ UNCHANGED <<objects, silent>> /\ \A m \in Modules : cache'.modules[m] = 0
        /\ cacheFile' \in {cacheFile, EmptyCache} \/ (cacheFile' = cache /\ frames = <<>>)
    BY <1>4, ExitShape, ExitTypes
  <2>2. \A m \in Modules : Has(m)' <=> Has(m)
    BY <2>1 DEF Has
  <2>3. \A m \in Modules : ~(0 > 0)
    OBVIOUS
  <2> QED BY <1>t, <2>1, <2>2, <2>3, NothingPending DEF Imported
<1>5. CASE NextEntry
  <2>1. frames = <<>> /\ UNCHANGED <<cacheFile, objects, silent, cache>>
    BY <1>5 DEF NextEntry
  <2>2. frames' = frames \/ \E calls, m : Pushed(calls, m)
    BY <1>5, NextEntryShape DEF Idle
  <2>3. \A i \in DOMAIN frames' : Given(frames'[i], objects', silent')
    BY <1>1, <2>1, <2>2, GivenPushed
  <2> QED BY <1>t, <2>1, <2>3, ImportedBy
<1>6. Top \in FrameType =>
        /\ Put("require").at = "require" /\ Put("check").at = "check" /\ Put("upgrade").at = "upgrade"
        /\ Put("upgrade").mod = Top.mod
  BY FrameFields DEF Place
(* What is known of the innermost call. *)
<1>7. ASSUME frames # <<>>
      PROVE  /\ Top \in FrameType /\ Top.mod \in Modules /\ Given(Top, objects, silent)
             /\ cache.modules[Top.mod] > 0 => Has(Top.mod) \/ Asks(Top)
  <2>1. Top \in FrameType /\ Top.mod \in Modules /\ Given(Top, objects, silent)
    BY <1>1, <1>7, TopIsAlone
  <2> QED BY <1>7, <2>1, PendingIsTop DEF Imported
<1>o. ASSUME NEW m \in Modules, frames # <<>>, m = Top.mod,
              cache' \in {cache, Entered(cache, m), Forgotten(cache, m)}
       PROVE  \A k \in Modules \ {m} : cache'.modules[k] = cache.modules[k]
  <2>1. \A k \in Modules \ {m} : Entered(cache, m).modules[k] = cache.modules[k]
    BY <1>t, CacheTypes
  <2>2. \A k \in Modules \ {m} : Forgotten(cache, m).modules[k] = cache.modules[k]
    BY <1>t, CacheTypes
  <2> QED BY <1>o, <2>1, <2>2
<1>8. CASE Verify
  <2>1. Top.at = "verify" /\ Top \in FrameType /\ Top.mod \in Modules /\ frames # <<>>
        /\ UNCHANGED <<cacheFile, objects, silent>> /\ cache' \in {cache, Forgotten(cache, Top.mod)}
        /\ (Popped \/ Moved(Put("require")))
    BY <1>8, VerifyShape, TopTypes
  <2>2. Given(Put("require"), objects', silent') /\ ~Asks(Top)
    BY <1>6, <2>1 DEF Given, Asks
  <2>3. \A i \in DOMAIN frames' : Given(frames'[i], objects', silent')
    BY <2>1, <2>2, GivenMoved, GivenPopped
  <2>4. cache'.modules[Top.mod] > 0 => Gave(Top.mod, objects', silent')
    BY <1>7, <1>t, <2>1, <2>2, CacheTypes DEF Has
  <2>5. \A m \in Modules \ {Top.mod} : cache'.modules[m] = cache.modules[m]
    BY <1>o, <2>1
  <2> QED BY <1>t, <2>1, <2>3, <2>4, <2>5, ImportedBy
<1>9. CASE Require
  <2>1. Top.at = "require" /\ Top \in FrameType /\ frames # <<>>
        /\ UNCHANGED <<cacheFile, objects, silent, cache>>
        /\ (Moved(Put("check")) \/ \E calls, m : Pushed(calls, m))
    BY <1>9, RequireShape, TopTypes
  <2>2. Given(Put("check"), objects', silent') /\ ~Asks(Top)
    BY <1>6, <2>1 DEF Given, Asks
  <2>3. \A i \in DOMAIN frames' : Given(frames'[i], objects', silent')
    BY <2>1, <2>2, GivenMoved, GivenPushed
  <2>4. cache'.modules[Top.mod] > 0 => Gave(Top.mod, objects', silent')
    BY <1>7, <2>1, <2>2 DEF Has
  <2> QED BY <1>t, <2>1, <2>3, <2>4, ImportedBy
<1>10. CASE CheckModuleCache
  <2> DEFINE first == cache.modules[Top.mod] = 0
  <2>1. Top.at = "check" /\ Top \in FrameType /\ frames # <<>> /\ Top.mod \in Modules
        /\ UNCHANGED <<cacheFile, objects, silent>>
        /\ \/ Popped /\ cache' = cache
           \/ Moved(Put("upgrade")) /\ cache.modules[Top.mod] > 0 /\ cache' = cache
           \/ Moved(Settled(first)) /\ cache' = Entered(cache, Top.mod)
    BY <1>10, CheckShape, TopTypes
  <2>2. ~Asks(Top) /\ first \in BOOLEAN
    BY <2>1 DEF Asks
  <2>3. cache.modules[Top.mod] > 0 => Has(Top.mod)
    BY <1>7, <2>1, <2>2
  <2>4. /\ Settled(first).at = "classes" /\ Settled(first).first = first
        /\ Given(Settled(first), objects', silent')
    <3>1. Settled(first).at = "classes" /\ Settled(first).first = first
      BY <2>1, <2>2, FrameFields
    <3> QED BY <3>1 DEF Given
  <2>5. \A i \in DOMAIN frames' : Given(frames'[i], objects', silent')
    <3>1. cache.modules[Top.mod] > 0 => Given(Put("upgrade"), objects', silent')
      BY <1>6, <2>1, <2>3 DEF Given, Has
    <3> QED BY <2>1, <2>4, <3>1, GivenMoved, GivenPopped
  <2>6. cache'.modules[Top.mod] > 0 => Gave(Top.mod, objects', silent') \/ Awaits(Top.mod, frames')
    <3>1. CASE cache' = cache
      BY <2>1, <2>3, <3>1 DEF Has
    <3>2. CASE Moved(Settled(first)) /\ cache' = Entered(cache, Top.mod)
      <4>1. CASE first
        <5>1. Asks(Settled(first))
          BY <2>4, <4>1 DEF Asks
        <5> QED BY <3>2, <5>1, MovedAsks
      <4>2. CASE ~first
        <5>1. cache.modules[Top.mod] > 0
          BY <1>t, <2>1, <4>2 DEF Table, Version
        <5> QED BY <2>1, <2>3, <5>1 DEF Has
      <4> QED BY <4>1, <4>2
    <3> QED BY <2>1, <3>1, <3>2
  <2>7. \A m \in Modules \ {Top.mod} : cache'.modules[m] = cache.modules[m]
    BY <1>o, <2>1
  <2> QED BY <1>t, <2>1, <2>5, <2>6, <2>7, ImportedBy
<1>11. CASE RegisterClass
  <2>1. Top.at = "classes" /\ Top \in FrameType /\ frames # <<>> /\ Top.mod \in Modules
        /\ UNCHANGED <<cacheFile, objects, silent>>
        /\ \/ Popped /\ cache' = Forgotten(cache, Top.mod)
           \/ Moved(Counted) /\ cache' = cache
    BY <1>11, RegisterShape, TopTypes
  <2>2. Counted.at = "classes" /\ Counted.first = Top.first
    BY <2>1, FrameFields
  <2>3. Given(Counted, objects', silent') /\ (Asks(Top) => Asks(Counted))
    BY <2>1, <2>2 DEF Given, Asks
  <2>4. \A i \in DOMAIN frames' : Given(frames'[i], objects', silent')
    BY <2>1, <2>3, GivenMoved, GivenPopped
  <2>5. cache'.modules[Top.mod] > 0 => Gave(Top.mod, objects', silent') \/ Awaits(Top.mod, frames')
    <3>1. CASE cache' = Forgotten(cache, Top.mod)
      <4>1. cache'.modules[Top.mod] = 0
        BY <1>t, <2>1, <3>1, CacheTypes
      <4> QED BY <4>1
    <3>2. CASE Moved(Counted) /\ cache' = cache
      BY <1>7, <2>1, <2>3, <3>2, MovedAsks DEF Has
    <3> QED BY <2>1, <3>1, <3>2
  <2>6. \A m \in Modules \ {Top.mod} : cache'.modules[m] = cache.modules[m]
    BY <1>o, <2>1
  <2> QED BY <1>t, <2>1, <2>4, <2>5, <2>6, ImportedBy
<1>12. CASE ClassesDone
  <2>1. Top.at = "classes" /\ Top \in FrameType /\ frames # <<>> /\ Top.mod \in Modules
        /\ UNCHANGED <<cacheFile, objects, silent, cache>>
        /\ ((Popped /\ Top.first = FALSE) \/ Moved(Asked))
    BY <1>12, ClassesDoneShape, TopTypes
  <2>2. Asked.at = "import" /\ Asked.first = Top.first /\ Asked.n = 1
    BY <2>1, FrameFields
  <2>3. Given(Asked, objects', silent') /\ (Asks(Top) => Asks(Asked))
    BY <2>1, <2>2 DEF Given, Asks
  <2>4. \A i \in DOMAIN frames' : Given(frames'[i], objects', silent')
    BY <2>1, <2>3, GivenMoved, GivenPopped
  <2>5. cache'.modules[Top.mod] > 0 => Gave(Top.mod, objects', silent') \/ Awaits(Top.mod, frames')
    <3>1. CASE Popped /\ Top.first = FALSE
      BY <1>7, <2>1, <3>1 DEF Has, Asks
    <3>2. CASE Moved(Asked)
      BY <1>7, <2>1, <2>3, <3>2, MovedAsks DEF Has
    <3> QED BY <2>1, <3>1, <3>2
  <2> QED BY <1>t, <2>1, <2>4, <2>5, ImportedBy
(* An import that goes on with the classes of its module.                    *)
<1>13. Top \in FrameType => Given(Settled(FALSE), objects', silent')
  BY FrameFields DEF Given
<1>15. CASE NoConfig \/ ImportDone
  <2>1. /\ Importing /\ UNCHANGED <<cacheFile, objects>>
        /\ \/ Top.n \notin DOMAIN ObjectsOf[Top.mod] /\ silent' = silent
           \/ Top.at = "import" /\ silent' = silent \cup {Top.mod}
           \/ Top.at = "upgrade" /\ silent' = silent
        /\ \/ Top.at = "import" /\ Popped /\ cache' = cache
           \/ Top.at = "upgrade" /\ Moved(Settled(FALSE)) /\ cache' = Entered(cache, Top.mod)
    BY <1>15, ImportEndsShape
  <2>2. Top \in FrameType /\ frames # <<>> /\ Top.mod \in Modules /\ silent \subseteq silent'
        /\ Top.at \in {"import", "upgrade"}
    BY <2>1, ImportingTypes
  <2>3. \A i \in DOMAIN frames' : Given(frames'[i], objects', silent')
    BY <1>13, <2>1, <2>2, GivenMoved, GivenPopped
  <2>4. Given(Top, objects, silent)
    BY <1>7, <2>2
  <2>5. Gave(Top.mod, objects', silent')
    <3>1. CASE Top.at = "upgrade"
      BY <2>1, <2>2, <2>4, <3>1, GaveMore DEF Given
    <3>2. CASE Top.at = "import" /\ silent' = silent \cup {Top.mod}
      BY <3>2 DEF Gave
    <3>3. CASE Top.at = "import" /\ Top.n \notin DOMAIN ObjectsOf[Top.mod]
      <4>1. Gave(Top.mod, objects, silent)
        BY <2>2, <2>4, <3>3, AllGiven
      <4> QED BY <2>1, <2>2, <4>1, GaveMore
    <3> QED BY <2>1, <3>1, <3>2, <3>3
  <2>6. \A k \in Modules \ {Top.mod} : cache'.modules[k] = cache.modules[k]
    BY <1>o, <2>1, <2>2
  <2> QED BY <1>t, <2>1, <2>2, <2>3, <2>5, <2>6, ImportedBy
<1>16. CASE ImportObject
  <2>1. /\ Importing /\ objects' = objects \cup {<<Top.mod, Top.n>>} /\ Moved(Counted)
        /\ UNCHANGED <<cacheFile, silent, cache>>
    BY <1>16, ImportObjectShape
  <2>2. Top \in FrameType /\ frames # <<>> /\ Top.mod \in Modules /\ Top.at \in {"import", "upgrade"}
    BY <2>1, ImportingTypes
  <2>3. /\ Counted.at = Top.at /\ Counted.first = Top.first /\ Counted.n = Top.n + 1
        /\ Counted.mod = Top.mod /\ Top.n \in Nat \ {0}
    BY <2>2, FrameFields DEF FrameType
  <2>4. Given(Top, objects, silent)
    BY <1>7, <2>2
  <2>5. Given(Counted, objects', silent')
    <3>1. CASE Top.at = "import"
      <4>1. \A j \in 1..Top.n + 1 - 1 : j \in 1..Top.n - 1 \/ j = Top.n
        BY <2>3
      <4>2. \A j \in 1..Top.n + 1 - 1 : <<Top.mod, j>> \in objects'
        BY <2>1, <2>4, <3>1, <4>1 DEF Given
      <4> QED BY <2>3, <3>1, <4>2 DEF Given
    <3>2. CASE Top.at = "upgrade"
      <4>1. Gave(Top.mod, objects', silent')
        BY <2>1, <2>4, <3>2, GaveMore DEF Given
      <4> QED BY <2>3, <3>2, <4>1 DEF Given
    <3> QED BY <2>2, <3>1, <3>2
  <2>6. \A i \in DOMAIN frames' : Given(frames'[i], objects', silent')
    BY <2>1, <2>5, GivenMoved
  <2>7. Asks(Top) => Asks(Counted)
    BY <2>3 DEF Asks
  <2>8. cache'.modules[Top.mod] > 0 => Gave(Top.mod, objects', silent') \/ Awaits(Top.mod, frames')
    BY <1>7, <2>1, <2>2, <2>7, MovedAsks, GaveMore DEF Has
  <2> QED BY <1>t, <2>1, <2>2, <2>6, <2>8, ImportedBy
<1>17. CASE ImportFails
  <2>1. /\ Importing /\ UNCHANGED <<cacheFile, objects, silent>>
        /\ \/ Top.at = "import" /\ Popped /\ cache' = Forgotten(cache, Top.mod)
           \/ Top.at = "upgrade" /\ Moved(Settled(FALSE)) /\ cache' = Entered(cache, Top.mod)
    BY <1>17, ImportFailsShape
  <2>2. Top \in FrameType /\ frames # <<>> /\ Top.mod \in Modules
    BY <2>1, ImportingTypes
  <2>3. \A i \in DOMAIN frames' : Given(frames'[i], objects', silent')
    BY <1>13, <2>1, <2>2, GivenMoved, GivenPopped
  <2>4. cache'.modules[Top.mod] > 0 => Gave(Top.mod, objects', silent')
    <3>1. CASE cache' = Forgotten(cache, Top.mod)
      <4>1. cache'.modules[Top.mod] = 0
        BY <1>t, <2>2, <3>1, CacheTypes
      <4> QED BY <4>1
    <3>2. CASE Top.at = "upgrade"
      BY <1>7, <2>1, <2>2, <3>2 DEF Given
    <3> QED BY <2>1, <3>1, <3>2
  <2>5. \A k \in Modules \ {Top.mod} : cache'.modules[k] = cache.modules[k]
    BY <1>o, <2>1, <2>2
  <2> QED BY <1>t, <2>1, <2>2, <2>3, <2>4, <2>5, ImportedBy
<1>18. CASE Disable
  <2>1. Popped /\ raised # "none" /\ UNCHANGED <<cacheFile, objects, silent, cache>> /\ frames # <<>>
    BY <1>18, DisableShape DEF Popped
  <2>2. ~Asks(Top)
    <3>1. Top.at = "check"
      BY <2>1, TopIsAlone DEF Calls
    <3> QED BY <3>1 DEF Asks
  <2>3. \A i \in DOMAIN frames' : Given(frames'[i], objects', silent')
    BY <2>1, GivenPopped
  <2>4. cache'.modules[Top.mod] > 0 => Gave(Top.mod, objects', silent')
    BY <1>7, <2>1, <2>2 DEF Has
  <2> QED BY <1>t, <2>1, <2>3, <2>4, ImportedBy
<1> QED
  BY <1>2, <1>3, <1>4, <1>5, <1>8, <1>9, <1>10, <1>11, <1>12, <1>15, <1>16, <1>17, <1>18 DEF Next

-----------------------------------------------------------------------------
(* The class data that go out of date. *)

(* Class data that are read late, or early for a reason.                     *)
LEMMA FreshBy ==
  ASSUME Typed, Fresh,
         linked' = linked \/ \E m \in Modules : linked' = Append(linked, m),
         upgraded \subseteq upgraded',
         \A i \in DOMAIN frames' : frames'[i].at = "upgrade" => frames'[i].mod \in upgraded',
         \A c \in Classes : byclass[c] # NoModule => byclass'[c] # NoModule,
         \A c \in Classes : rows'[c] = rows[c] \/ byclass[c] = NoModule,
         \A c \in Classes :
           \/ classdata'[c] = classdata[c]
           \/ /\ classdata'[c] = rows[c].version /\ rows' = rows
              /\ byclass[c] = NoModule => Early(c)
  PROVE  Fresh'
<1>1. Range(linked) \subseteq Range(linked)'
  BY LinkedGrows DEF Range
<1>2. ASSUME NEW c \in Classes, Early(c) PROVE Early(c)'
  BY <1>1, <1>2 DEF Early
<1>3. \A c \in Classes : classdata[c] # 0 /\ byclass[c] = NoModule => Early(c)
  BY DEF Fresh
<1>4. \A c \in Classes : classdata[c] \notin {0, rows[c].version} => Early(c)
  BY DEF Fresh, StaleOnlyAfterUpgrade, Early
<1>5. ASSUME NEW c \in Classes, classdata'[c] # 0, byclass'[c] = NoModule
      PROVE  Early(c)'
  <2>1. byclass[c] = NoModule
    BY <1>5
  <2>2. Early(c)
    BY <1>3, <1>5, <2>1
  <2> QED BY <1>2, <2>2
<1>6. ASSUME NEW c \in Classes, classdata'[c] \notin {0, rows'[c].version}
      PROVE  Early(c)'
  <2>1. classdata'[c] = classdata[c]
    BY <1>6
  <2>2. CASE rows'[c] = rows[c]
    BY <1>2, <1>4, <1>6, <2>1, <2>2
  <2>3. CASE byclass[c] = NoModule
    BY <1>2, <1>3, <1>6, <2>1, <2>3
  <2> QED BY <2>2, <2>3
<1>7. StaleOnlyAfterUpgrade'
  BY <1>6 DEF StaleOnlyAfterUpgrade, Early
<1> QED BY <1>5, <1>7 DEF Fresh

LEMMA UpgradeMoved ==
  ASSUME Typed, Fresh, NEW r, Moved(r), upgraded \subseteq upgraded',
         r.at = "upgrade" => Top.at = "upgrade" \/ Top.mod \in upgraded'
  PROVE  \A i \in DOMAIN frames' : frames'[i].at = "upgrade" => frames'[i].mod \in upgraded'
<1>1. /\ DOMAIN frames' = DOMAIN frames /\ frames'[Len(frames)] = r /\ r.mod = Top.mod
      /\ frames[Len(frames)] = Top /\ Len(frames) \in DOMAIN frames
      /\ \A i \in DOMAIN frames : i # Len(frames) => frames'[i] = frames[i]
  <2>1. r.mod = Top.mod
    BY DEF Moved
  <2> QED BY <2>1, MovedFrames
<1> QED BY <1>1 DEF Fresh

LEMMA UpgradePopped ==
  ASSUME Typed, Calls, Popped
  PROVE  \A i \in DOMAIN frames' : frames'[i].at = "upgrade" => frames'[i].mod \in upgraded'
<1>1. \A i \in DOMAIN frames' : i \in DOMAIN frames /\ i < Len(frames) /\ frames'[i] = frames[i]
  BY PoppedFrames
<1> QED BY <1>1 DEF Calls

LEMMA UpgradePushed ==
  ASSUME Typed, Calls, NEW calls, NEW m, Pushed(calls, m)
  PROVE  \A i \in DOMAIN frames' : frames'[i].at = "upgrade" => frames'[i].mod \in upgraded'
<1>1. Frame(m).at = "verify"
  BY FrameIsTyped DEF Pushed
<1> QED BY <1>1, PushedFrames

(* A module whose objects are read is linked; if its classes are not          *)
(* registered, it is upgraded, or the class is another's.                     *)
LEMMA ReadEarly ==
  ASSUME Typed, Calls, Linked, Registered, Fresh, Importing, NEW c \in Classes,
         c \in Range(ObjectsOf[Top.mod]), byclass[c] = NoModule
  PROVE  Early(c)
<1>1. Top \in FrameType /\ frames # <<>> /\ Top.mod \in Modules /\ Top.at \in {"import", "upgrade"}
  BY ImportingTypes
<1>2. Top.mod \in Range(linked)
  BY <1>1, TopIsAlone DEF Linked
<1>3. CASE Top.at = "upgrade"
  <2>1. Top.mod \in upgraded
    BY <1>1, <1>3, TopIsAlone DEF Fresh
  <2> QED BY <1>2, <2>1 DEF Early
<1>4. CASE Top.at = "import"
  <2>1. Told(Top, byclass)
    BY <1>1, TopIsAlone DEF Registered
  <2>2. c \notin Range(ClassesOf[Top.mod])
    BY <1>4, <2>1 DEF Told
  <2> QED BY <1>2, <2>2 DEF Early
<1> QED BY <1>1, <1>3, <1>4

LEMMA FreshStep ==
  ASSUME Typed, Calls, Linked, Registered, Fresh, [Next]_vars
  PROVE  Fresh'
<1> USE DEF diskVars
<1>1. \A i \in DOMAIN frames : frames[i].at = "upgrade" => frames[i].mod \in upgraded
  BY DEF Fresh
<1>2. CASE Begin \/ SkipEntry \/ Finish \/ UNCHANGED vars
  <2>1. UNCHANGED <<rows, frames, linked, byclass, classdata, upgraded>>
    BY <1>2, QuietShape
  <2> QED BY <1>1, <2>1, FreshBy
<1>3. CASE Install
  <2>1. UNCHANGED <<rows, frames, linked, byclass, classdata, upgraded>>
    BY <1>3, InstallShape
  <2> QED BY <1>1, <2>1, FreshBy
<1>4. CASE GiveUp \/ Crash
  <2>1. frames' = <<>> /\ \A c \in Classes : classdata'[c] = 0
    BY <1>4, ExitShape, ExitTypes
  <2> QED BY <2>1 DEF Fresh, StaleOnlyAfterUpgrade
<1>5. CASE NextEntry
  <2>1. UNCHANGED <<rows, linked, byclass, classdata, upgraded>>
        /\ (frames' = frames \/ \E calls, m : Pushed(calls, m))
    BY <1>5, NextEntryShape DEF Idle
  <2> QED BY <1>1, <2>1, UpgradePushed, FreshBy
<1>6. Top \in FrameType =>
        /\ Put("require").at = "require" /\ Put("check").at = "check"
        /\ \A b \in BOOLEAN : Settled(b).at = "classes"
        /\ Asked.at = "import" /\ Counted.at = Top.at
  BY FrameFields DEF Place
<1>7. CASE Verify
  <2>1. Top \in FrameType /\ UNCHANGED <<rows, linked, byclass, classdata, upgraded>>
        /\ (Popped \/ Moved(Put("require")))
    BY <1>7, VerifyShape, TopTypes
  <2> QED BY <1>6, <2>1, UpgradePopped, UpgradeMoved, FreshBy
<1>8. CASE Require
  <2>1. Top \in FrameType /\ UNCHANGED <<rows, linked, byclass, classdata, upgraded>>
        /\ (Moved(Put("check")) \/ \E calls, m : Pushed(calls, m))
    BY <1>8, RequireShape, TopTypes
  <2> QED BY <1>6, <2>1, UpgradePushed, UpgradeMoved, FreshBy
<1>9. CASE CheckModuleCache
  <2>1. Top \in FrameType /\ Top.mod \in Modules /\ linked' = Append(linked, Top.mod)
        /\ UNCHANGED <<rows, byclass, classdata>> /\ upgraded \subseteq upgraded'
        /\ \/ Popped
           \/ Moved(Put("upgrade")) /\ upgraded' = upgraded \cup {Top.mod}
           \/ Moved(Settled(cache.modules[Top.mod] = 0))
    BY <1>9, CheckShape, TopTypes
  <2>2. Settled(cache.modules[Top.mod] = 0).at = "classes"
    BY <1>6, <2>1
  <2>3. \A i \in DOMAIN frames' : frames'[i].at = "upgrade" => frames'[i].mod \in upgraded'
    BY <2>1, <2>2, UpgradePopped, UpgradeMoved
  <2> QED BY <2>1, <2>3, FreshBy
<1>10. CASE RegisterClass
  <2> DEFINE m == Top.mod
             c == ClassesOf[m][Top.n]
  <2>1. /\ At("classes") /\ c \in Classes /\ UNCHANGED <<linked, classdata, upgraded>>
        /\ \/ /\ Popped /\ UNCHANGED rows
              /\ byclass' \in {byclass, [byclass EXCEPT ![c] = m]}
           \/ /\ Moved(Counted) /\ byclass[c] = NoModule
              /\ byclass' = [byclass EXCEPT ![c] = m]
              /\ rows' = [rows EXCEPT ![c] = [module |-> m, version |-> version[m]]]
    BY <1>10, RegisterShape
  <2>2. Top \in FrameType /\ m \in Modules /\ Top.at = "classes" /\ m # NoModule
    BY <2>1, TopTypes, ModuleRegistryAssumption
  <2>3. byclass \in [Classes -> Modules \cup {NoModule}] /\ DOMAIN rows = Classes
    BY DEF Typed, TypeOK
  <2>4. \A i \in DOMAIN frames' : frames'[i].at = "upgrade" => frames'[i].mod \in upgraded'
    BY <1>6, <2>1, <2>2, UpgradePopped, UpgradeMoved
  <2> HIDE DEF m, c
  <2>5. \A d \in Classes : byclass[d] # NoModule => byclass'[d] # NoModule
    BY <2>1, <2>2, <2>3
  <2>6. \A d \in Classes : rows'[d] = rows[d] \/ byclass[d] = NoModule
    BY <2>1, <2>3
  <2> QED BY <2>1, <2>4, <2>5, <2>6, FreshBy
<1>11. CASE ClassesDone
  <2>1. Top \in FrameType /\ UNCHANGED <<rows, linked, byclass, classdata, upgraded>>
        /\ (Popped \/ Moved(Asked))
    BY <1>11, ClassesDoneShape, TopTypes
  <2> QED BY <1>6, <2>1, UpgradePopped, UpgradeMoved, FreshBy
<1>12. ASSUME Importing, Popped \/ Moved(Settled(FALSE)) \/ Moved(Counted), upgraded' = upgraded
       PROVE  \A i \in DOMAIN frames' : frames'[i].at = "upgrade" => frames'[i].mod \in upgraded'
  BY <1>6, <1>12, ImportingTypes, UpgradePopped, UpgradeMoved
<1>13. CASE NoConfig \/ ImportDone
  <2>1. /\ Importing /\ UNCHANGED <<rows, linked, byclass, classdata, upgraded>>
        /\ (Popped \/ Moved(Settled(FALSE)))
    BY <1>13, ImportEndsShape
  <2> QED BY <1>12, <2>1, FreshBy
<1>14. CASE ImportObject \/ ImportFails
  <2> DEFINE c == ObjectsOf[Top.mod][Top.n]
  <2>1. /\ Importing /\ Top.n \in DOMAIN ObjectsOf[Top.mod] /\ c \in Classes
        /\ classdata' = ReadsClass(c) /\ UNCHANGED <<rows, linked, byclass, upgraded>>
        /\ (Popped \/ Moved(Settled(FALSE)) \/ Moved(Counted))
    <3>1. CASE ImportObject
      BY <3>1, ImportObjectShape
    <3>2. CASE ImportFails
      BY <3>2, ImportFailsShape DEF ImportFails
    <3> QED BY <1>14, <3>1, <3>2
  <2>2. c \in Range(ObjectsOf[Top.mod])
    BY <2>1 DEF Range
  <2>3. byclass[c] = NoModule => Early(c)
    BY <2>1, <2>2, ReadEarly
  <2> HIDE DEF c
  <2>4. classdata \in [Classes -> Version]
    BY DEF Typed, TypeOK
  <2>5. ASSUME NEW d \in Classes
        PROVE  \/ classdata'[d] = classdata[d]
               \/ /\ classdata'[d] = rows[d].version /\ rows' = rows
                  /\ byclass[d] = NoModule => Early(d)
    <3>1. CASE classdata[c] = 0 /\ d = c
      BY <2>1, <2>3, <2>4, <3>1 DEF ReadsClass
    <3>2. CASE classdata[c] # 0 \/ d # c
      BY <2>1, <2>4, <3>2 DEF ReadsClass
    <3> QED BY <3>1, <3>2
  <2> QED BY <1>12, <2>1, <2>5, FreshBy
<1>15. CASE Disable
  <2>1. Popped /\ UNCHANGED <<rows, linked, byclass, classdata, upgraded>>
    BY <1>15, DisableShape
  <2> QED BY <2>1, UpgradePopped, FreshBy
<1> QED
  BY <1>2, <1>3, <1>4, <1>5, <1>7, <1>8, <1>9, <1>10, <1>11, <1>13, <1>14, <1>15 DEF Next

-----------------------------------------------------------------------------
IInv == Typed /\ Calls /\ Linked /\ Registered /\ Imported /\ Fresh

LEMMA IInvInit ==
  ASSUME Init
  PROVE  IInv
<1>1. /\ frames = <<>> /\ linked = <<>> /\ raised = "none" /\ history = {}
      /\ \A c \in Classes : byclass[c] = NoModule /\ classdata[c] = 0
      /\ byclass \in [Classes -> Modules \cup {NoModule}]
      /\ \A m \in Modules : cache.modules[m] = 0 /\ cacheFile.modules[m] = 0
  BY EmptyCacheType DEF Init
<1>2. Calls /\ Linked
  BY <1>1 DEF Calls, Linked, Range
<1>3. Registered
  BY <1>1 DEF Registered, Range
<1>4. Imported
  BY <1>1 DEF Imported
<1>5. Fresh
  BY <1>1 DEF Fresh, StaleOnlyAfterUpgrade
<1> QED BY <1>2, <1>3, <1>4, <1>5, TypedInit DEF IInv

LEMMA IInvStep ==
  ASSUME IInv, [Next]_vars
  PROVE  IInv'
BY TypedStep, CallsStep, LinkedStep, RegisteredStep, ImportedStep, FreshStep DEF IInv

LEMMA AlwaysIInv == Spec => []IInv
BY IInvInit, IInvStep, PTL DEF Spec

-----------------------------------------------------------------------------
(* Every variable keeps its type: ModuleDB::init and what it calls never put   *)
(* anything else in the cache, the dictionaries or the class rows.           *)
THEOREM RegistryHasTypes == Spec => []TypeOK
<1>1. IInv => TypeOK
  BY DEF IInv, Typed
<1> QED BY <1>1, AlwaysIInv, PTL

(* loadModule works on a module once in a process, whatever requires what.    *)
THEOREM ModulesLoadOnce == Spec => []LoadedOnce
<1>1. IInv => LoadedOnce
  BY DEF IInv, Calls, Linked, LoadedOnce
<1> QED BY <1>1, AlwaysIInv, PTL

(* Once init is over, the class rows are those of the modules that byclass    *)
(* has, whatever failed, stopped or was upgraded before.                     *)
THEOREM RegisteredClassesInStep == Spec => []ClassesInStep
<1>1. IInv => ClassesInStep
  BY DEF IInv, Registered, ClassesInStep
<1> QED BY <1>1, AlwaysIInv, PTL

(* A module that module.cache has was asked for its objects, and the objects  *)
(* it gave are there.                                                        *)
THEOREM CachedModulesAreImported == Spec => []CachedMeansImported
<1>1. IInv => CachedMeansImported
  BY DEF IInv, Imported, CachedMeansImported, Has, Gave
<1> QED BY <1>1, AlwaysIInv, PTL

(* getClassData keeps the data of an older class only of a class it was asked  *)
(* for before the class was registered.                                      *)
THEOREM ClassDataGoStaleForAReason == Spec => []StaleOnlyAfterUpgrade
<1>1. IInv => StaleOnlyAfterUpgrade
  BY DEF IInv, Fresh
<1> QED BY <1>1, AlwaysIInv, PTL

=============================================================================
