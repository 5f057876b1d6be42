---------------------------- MODULE ModuleRegistry ----------------------------
(***************************************************************************)
(* The loading of the modules: ModuleDB::init and what it calls, from one    *)
(* start of opencore to the next (moduledb.cpp, module.cpp, and of           *)
(* dbmanager.cpp registerClass and the cache of class data).                 *)
(*                                                                         *)
(* On disk stay the installed modules, module.cache, the class rows and the  *)
(* objects that getconfig gave.  The rest is memory of one process, which    *)
(* may end at any step.  loadModule calls itself for a required module: the   *)
(* calls in progress are the sequence frames, an exception on its way to its *)
(* handler is raised.  A version of 0 stands for no entry, row or module.    *)
(***************************************************************************)
EXTENDS Naturals, Sequences, FiniteSets, Functions

CONSTANTS
  Modules, Classes, NoModule,
  UserModule,             \* User.module
  Directory,              \* the order in which fs.ls gives the modules
  Requires,               \* the module that a module.xml requires, or NoModule
  ClassesOf,              \* its classes, in order
  ObjectsOf,              \* the classes of the objects its getconfig gives
  Reloads,                \* the lists --reinitialize-module-config may be given
  MaxVersion,             \* bound on the versions of a module
  MaxStarts, MaxFaults    \* bounds on the starts, and on what modules refuse

ASSUME ModuleRegistryAssumption ==
  /\ NoModule \notin Modules /\ UserModule \in Modules
  /\ "modules" \notin Modules         \* their names end with ".module"
  /\ Directory \in Seq(Modules)
  /\ Requires \in [Modules -> Modules \cup {NoModule}]
  /\ ClassesOf \in [Modules -> Seq(Classes)]
  /\ ObjectsOf \in [Modules -> Seq(Classes)]
  /\ Reloads \subseteq SUBSET Modules
  /\ MaxVersion \in Nat \ {0} /\ MaxStarts \in Nat /\ MaxFaults \in Nat

VARIABLES
  version,                \* installed versions
  cacheFile,              \* module.cache
  rows,                   \* the class rows: whose uuid, which version's content
  objects,                \* imported objects, <<module, index>>
  status,                 \* "down", "loading" or "up"
  cache,                  \* ModuleDB::init's cache
  todo,                   \* the entries of the directory it still has to load
  history,                \* loadModule's static history
  frames, raised,
  linked, byname, byclass,\* the list of modules and the dictionaries
  classdata,              \* the version that getClassData keeps of a class
  starts, faults,
  (* History, of this process except for silent; read by the properties only: *)
  failed, upgraded,       \* modules that raised; that were newer than the cache
  silent                  \* modules whose first getconfig failed

diskVars == <<version, cacheFile, rows, objects>>
memory == <<cache, todo, history, frames, raised, linked, byname, byclass,
            classdata, failed, upgraded>>
vars == <<diskVars, status, memory, starts, faults, silent>>

Version == 0..MaxVersion
NoRow == [module |-> NoModule, version |-> 0]
EmptyCache == [modules |-> [m \in Modules |-> 0]]
Imports(m) == {<<m, i>> : i \in DOMAIN ObjectsOf[m]}

Place == {"verify", "require", "check", "upgrade", "classes", "import"}
Frame(m) == [mod |-> m, at |-> "verify", n |-> 1, first |-> FALSE]
Top == frames[Len(frames)]
Under(s) == SubSeq(s, 1, Len(s) - 1)

-----------------------------------------------------------------------------
Init ==
  /\ version = [m \in Modules |-> 1]
  /\ cacheFile = EmptyCache /\ rows = [c \in Classes |-> NoRow] /\ objects = {}
  /\ status = "down" /\ cache = EmptyCache /\ todo = <<>> /\ history = {}
  /\ frames = <<>> /\ raised = "none"
  /\ linked = <<>> /\ byname = {} /\ byclass = [c \in Classes |-> NoModule]
  /\ classdata = [c \in Classes |-> 0]
  /\ starts = 0 /\ faults = 0
  /\ failed = {} /\ upgraded = {} /\ silent = {}

(* The process ends; what it had in memory is gone.                          *)
Exit ==
  /\ status' = "down" /\ cache' = EmptyCache /\ todo' = <<>> /\ history' = {}
  /\ frames' = <<>> /\ raised' = "none"
  /\ linked' = <<>> /\ byname' = {} /\ byclass' = [c \in Classes |-> NoModule]
  /\ classdata' = [c \in Classes |-> 0]
  /\ failed' = {} /\ upgraded' = {}

(* A module may refuse, time and again, up to the bound.                     *)
Fault == faults < MaxFaults /\ faults' = faults + 1
NoFault == faults' = faults

-----------------------------------------------------------------------------
(* init: read the cache, drop the modules to reload, list the directory.  The  *)
(* names of modules are looked for at the root of the cache's tree, which    *)
(* has the one entry "modules".                                              *)
(* (DroppedAll is a variant: a list of modules empties the tree.)             *)
DroppedAll(tree, names) == [k \in IF names = {} THEN DOMAIN tree ELSE {} |-> tree[k]]
Dropped(tree, names) == [k \in DOMAIN tree \ names |-> tree[k]]

Begin ==
  /\ status = "down" /\ starts < MaxStarts
  /\ status' = "loading" /\ starts' = starts + 1
  /\ \E mods \in Reloads : cache' = Dropped(cacheFile, mods)
  /\ todo' = Directory
  /\ UNCHANGED <<diskVars, history, frames, raised, linked, byname, byclass,
                 classdata, failed, upgraded, faults, silent>>

(* The next entry of the directory, if it is there and was not loaded as a    *)
(* requirement.                                                              *)
(* (LoadAgain is a variant: the history is not kept.)                         *)
LoadAgain(calls, m) == history' = history /\ frames' = Append(calls, Frame(m))
Load(calls, m) == history' = history \cup {m} /\ frames' = Append(calls, Frame(m))

NextEntry ==
  /\ status = "loading" /\ raised = "none" /\ frames = <<>> /\ todo # <<>>
  /\ \/ /\ Head(todo) \in history \/ version[Head(todo)] = 0
        /\ todo' = Tail(todo) /\ UNCHANGED <<history, frames>>
     \/ /\ Head(todo) \notin history /\ version[Head(todo)] > 0
        /\ Load(frames, Head(todo)) /\ UNCHANGED todo
  /\ UNCHANGED <<diskVars, status, cache, raised, linked, byname, byclass,
                 classdata, failed, upgraded, starts, faults, silent>>

-----------------------------------------------------------------------------
(* The innermost call of loadModule is at this place.                        *)
At(place) == status = "loading" /\ raised = "none" /\ frames # <<>> /\ Top.at = place
Goto(place) == frames' = [frames EXCEPT ![Len(frames)].at = place]
Return == frames' = Under(frames)

Entered(tree, m) == [tree EXCEPT !.modules[m] = version[m]]
Forgotten(tree, m) == [tree EXCEPT !.modules[m] = 0]

Raise(exception) ==
  /\ raised' = exception /\ Return
  /\ failed' = failed \cup {Top.mod}

(* The module's directory is gone; module.xml is broken, a critical failure;  *)
(* or the module's verify script refuses.                                    *)
Verify ==
  /\ At("verify")
  /\ \/ /\ version[Top.mod] = 0
        /\ cache' = Forgotten(cache, Top.mod) /\ Raise("init") /\ NoFault
     \/ /\ version[Top.mod] > 0 /\ Fault
        /\ \E e \in {"init", "critical"} : Raise(e)
        /\ UNCHANGED cache
     \/ /\ version[Top.mod] > 0 /\ NoFault
        /\ Goto("require") /\ UNCHANGED <<cache, raised, failed>>
  /\ UNCHANGED <<diskVars, status, todo, history, linked, byname, byclass,
                 classdata, upgraded, starts, silent>>

(* loadDependencies.  loadModule returns at once for a module in the history. *)
Require ==
  /\ At("require")
  /\ LET r == Requires[Top.mod]
     IN  \/ /\ r \in history \cup {NoModule}
            /\ Goto("check") /\ UNCHANGED history
         \/ /\ r \notin history \cup {NoModule}
            /\ Load([frames EXCEPT ![Len(frames)].at = "check"], r)
  /\ UNCHANGED <<diskVars, status, cache, todo, raised, linked, byname, byclass,
                 classdata, failed, upgraded, starts, faults, silent>>

(* The module is linked, then compared with the cache: a module of an older   *)
(* version is not loaded, one of a newer version must be able to deal with    *)
(* the objects there are and is asked for its configuration.                 *)
Settle(place, first) ==
  /\ cache' = Entered(cache, Top.mod) /\ byname' = byname \cup {Top.mod}
  /\ frames' = [frames EXCEPT ![Len(frames)] =
                  [@ EXCEPT !.at = place, !.n = 1, !.first = first]]

Refuses(old, new) == old > new

(* (ImportFirst is a variant: a new module is asked for its configuration as   *)
(* early as an upgraded one.)                                                *)
ImportFirst(old) == IF old = 0 THEN "upgrade" ELSE "classes"
FirstStep(old) == "classes"

CheckModuleCache ==
  /\ At("check")
  /\ linked' = Append(linked, Top.mod)
  /\ LET old == cache.modules[Top.mod]
         new == version[Top.mod]
     IN  \/ /\ Refuses(old, new) /\ NoFault
            /\ Raise("init") /\ UNCHANGED <<cache, byname, upgraded>>
         \/ /\ old \in 1..(new - 1) /\ Fault
            /\ Raise("init") /\ UNCHANGED <<cache, byname, upgraded>>
         \/ /\ old \in 1..(new - 1) /\ NoFault
            /\ Goto("upgrade") /\ upgraded' = upgraded \cup {Top.mod}
            /\ UNCHANGED <<cache, byname, raised, failed>>
         \/ /\ ~Refuses(old, new) /\ old \notin 1..(new - 1) /\ NoFault
            /\ Settle(FirstStep(old), old = 0)
            /\ UNCHANGED <<raised, failed, upgraded>>
  /\ UNCHANGED <<diskVars, status, todo, history, byclass, classdata,
                 starts, silent>>

-----------------------------------------------------------------------------
(* registerClasses: one class after the other.  The dictionaries have the     *)
(* class before the database is asked, which refuses a class whose row has    *)
(* another uuid; they keep what they have when the module is given up.       *)
TakesRow(m, c) == rows[c].module \in {NoModule, m}
(* (OldContent is a variant: a known class is left as it is.)                 *)
OldContent(m, c) == IF rows[c] = NoRow THEN [module |-> m, version |-> version[m]]
                                       ELSE rows[c]
Content(m, c) == [module |-> m, version |-> version[m]]

RegisterClass ==
  /\ At("classes") /\ Top.n \in DOMAIN ClassesOf[Top.mod]
  /\ LET m == Top.mod
         c == ClassesOf[m][Top.n]
     IN  \/ /\ byclass[c] # NoModule
            /\ cache' = Forgotten(cache, m) /\ Raise("init")
            /\ UNCHANGED <<byclass, rows>>
         \/ /\ byclass[c] = NoModule /\ ~TakesRow(m, c)
            /\ byclass' = [byclass EXCEPT ![c] = m]
            /\ cache' = Forgotten(cache, m) /\ Raise("init")
            /\ UNCHANGED rows
         \/ /\ byclass[c] = NoModule /\ TakesRow(m, c)
            /\ byclass' = [byclass EXCEPT ![c] = m]
            /\ rows' = [rows EXCEPT ![c] = Content(m, c)]
            /\ frames' = [frames EXCEPT ![Len(frames)].n = @ + 1]
            /\ UNCHANGED <<cache, raised, failed>>
  /\ UNCHANGED <<version, cacheFile, objects, status, todo, history, linked, byname,
                 classdata, upgraded, starts, faults, silent>>

ClassesDone ==
  /\ At("classes") /\ Top.n \notin DOMAIN ClassesOf[Top.mod]
  /\ IF Top.first
     THEN frames' = [frames EXCEPT ![Len(frames)] = [@ EXCEPT !.at = "import", !.n = 1]]
     ELSE Return
  /\ UNCHANGED <<diskVars, status, cache, todo, history, raised, linked, byname,
                 byclass, classdata, failed, upgraded, starts, faults, silent>>

-----------------------------------------------------------------------------
(* handleGetConfig, of a new module and of an upgraded one.  For an upgrade   *)
(* its failure is caught in checkModuleCache, which goes on with the module.  *)
Importing == At("import") \/ At("upgrade")
ImportEnds == IF Top.at = "import" THEN Return /\ UNCHANGED <<cache, byname>>
                                   ELSE Settle("classes", FALSE)

(* The module cannot say what is there: an empty configuration.              *)
NoConfig ==
  /\ Importing /\ Top.n = 1 /\ Fault
  /\ ObjectsOf[Top.mod] # <<>>
  /\ silent' = IF Top.at = "import" THEN silent \cup {Top.mod} ELSE silent
  /\ ImportEnds
  /\ UNCHANGED <<diskVars, status, todo, history, raised, linked, byclass,
                 classdata, failed, upgraded, starts>>

(* createObject for one object: getClassData keeps what it reads of the       *)
(* class; a class without a row, or a name that is taken, is refused.        *)
ReadsClass(c) == IF classdata[c] = 0 THEN [classdata EXCEPT ![c] = rows[c].version]
                                     ELSE classdata

ImportObject ==
  /\ Importing /\ Top.n \in DOMAIN ObjectsOf[Top.mod]
  /\ LET c == ObjectsOf[Top.mod][Top.n]
     IN  /\ rows[c] # NoRow /\ <<Top.mod, Top.n>> \notin objects
         /\ objects' = objects \cup {<<Top.mod, Top.n>>}
         /\ classdata' = ReadsClass(c)
  /\ frames' = [frames EXCEPT ![Len(frames)].n = @ + 1]
  /\ UNCHANGED <<version, cacheFile, rows, status, cache, todo, history, raised,
                 linked, byname, byclass, failed, upgraded, starts, faults,
                 silent>>

(* (KeptInCache is a variant: the failure leaves the entry in the cache.)     *)
KeptInCache(tree, m) == tree
AfterFailure(tree, m) == Forgotten(tree, m)

ImportFails ==
  /\ Importing /\ Top.n \in DOMAIN ObjectsOf[Top.mod]
  /\ LET c == ObjectsOf[Top.mod][Top.n]
     IN  /\ rows[c] = NoRow \/ <<Top.mod, Top.n>> \in objects
         /\ classdata' = ReadsClass(c)
  /\ \/ /\ At("import")
        /\ cache' = AfterFailure(cache, Top.mod) /\ Raise("init")
        /\ UNCHANGED byname
     \/ /\ At("upgrade")
        /\ Settle("classes", FALSE) /\ UNCHANGED <<raised, failed>>
  /\ UNCHANGED <<diskVars, status, todo, history, linked, byclass, upgraded,
                 starts, faults, silent>>

ImportDone ==
  /\ Importing /\ Top.n \notin DOMAIN ObjectsOf[Top.mod]
  /\ ImportEnds
  /\ UNCHANGED <<diskVars, status, todo, history, raised, linked, byclass,
                 classdata, failed, upgraded, starts, faults, silent>>

-----------------------------------------------------------------------------
(* An exception on its way up.  loadDependencies makes an init exception of    *)
(* any exception of a required module.                                       *)
Disable ==
  /\ raised # "none" /\ frames # <<>>
  /\ Raise("init")
  /\ UNCHANGED <<diskVars, status, cache, todo, history, linked, byname, byclass,
                 classdata, upgraded, starts, faults, silent>>

(* init goes on with the next entry, but not without User.module ...          *)
SkipEntry ==
  /\ raised = "init" /\ frames = <<>> /\ Head(todo) # UserModule
  /\ raised' = "none" /\ todo' = Tail(todo)
  /\ UNCHANGED <<diskVars, status, cache, history, frames, linked, byname, byclass,
                 classdata, failed, upgraded, starts, faults, silent>>

(* ... nor after a critical failure; both save the cache.                    *)
GiveUp ==
  /\ raised # "none" /\ frames = <<>>
  /\ raised = "critical" \/ Head(todo) = UserModule
  /\ cacheFile' = cache /\ Exit
  /\ UNCHANGED <<version, rows, objects, starts, faults, silent>>

AllLoaded == status = "loading" /\ raised = "none" /\ frames = <<>> /\ todo = <<>>

Finish ==
  /\ AllLoaded
  /\ cacheFile' = cache /\ status' = "up"
  /\ UNCHANGED <<version, rows, objects, memory, starts, faults, silent>>

(* The process ends, or dies while it writes the cache.                      *)
Crash ==
  /\ status # "down"
  /\ Exit
  /\ \/ UNCHANGED cacheFile
     \/ AllLoaded /\ cacheFile' = EmptyCache
  /\ UNCHANGED <<version, rows, objects, starts, faults, silent>>

(* Between two runs modules are upgraded, downgraded, removed and put back.  *)
Install ==
  /\ status = "down"
  /\ \E m \in Modules, v \in Version : version' = [version EXCEPT ![m] = v]
  /\ UNCHANGED <<cacheFile, rows, objects, status, memory, starts, faults, silent>>

Next ==
  \/ Begin \/ NextEntry \/ Verify \/ Require \/ CheckModuleCache
  \/ RegisterClass \/ ClassesDone
  \/ NoConfig \/ ImportObject \/ ImportFails \/ ImportDone
  \/ Disable \/ SkipEntry \/ GiveUp \/ Finish \/ Crash \/ Install

Spec == Init /\ [][Next]_vars

-----------------------------------------------------------------------------
Table == [modules : [Modules -> Version]]
FrameType == [mod : Modules, at : Place, n : Nat \ {0}, first : BOOLEAN]

TypeOK ==
  /\ version \in [Modules -> Version] /\ cacheFile \in Table
  /\ rows \in [Classes -> [module : Modules \cup {NoModule}, version : Version]]
  /\ objects \subseteq UNION {Imports(m) : m \in Modules}
  /\ status \in {"down", "loading", "up"} /\ cache \in Table
  /\ todo \in Seq(Modules) /\ history \subseteq Modules
  /\ frames \in Seq(FrameType)
  /\ raised \in {"none", "init", "critical"}
  /\ linked \in Seq(Modules) /\ byname \subseteq Modules
  /\ byclass \in [Classes -> Modules \cup {NoModule}]
  /\ classdata \in [Classes -> Version]
  /\ starts \in 0..MaxStarts /\ faults \in 0..MaxFaults
  /\ failed \subseteq Modules
  /\ upgraded \subseteq Modules /\ silent \subseteq Modules

(* Whatever requires what, in a circle too, loadModule works on a module once  *)
(* in a process: no call is inside another for the same module, and none      *)
(* starts after the module was linked.                                       *)
LoadedOnce ==
  /\ \A i, j \in DOMAIN linked : linked[i] = linked[j] => i = j
  /\ \A i, j \in DOMAIN frames : frames[i].mod = frames[j].mod => i = j
  /\ \A i \in DOMAIN frames :
       frames[i].at \in {"verify", "require", "check"} => frames[i].mod \notin Range(linked)

(* Once opencore is up, the dictionaries and the database agree about every   *)
(* class of a module that loaded: the row has its uuid and the content of    *)
(* the version that is installed, through upgrades, crashes and classes that *)
(* two modules define.  byclass never holds a module that init deleted.      *)
ClassesInStep ==
  /\ Range(byclass) \subseteq Range(linked) \cup {NoModule}
  /\ status = "up" => \A c \in Classes :
       byclass[c] \notin failed \cup {NoModule} => rows[c] = [module |-> byclass[c], version |-> version[byclass[c]]]

(* The import of a module's first configuration is not a transaction, and it   *)
(* is module.cache that says it was done.  A module in the file has all its   *)
(* objects, wherever a start failed or died; one whose getconfig itself        *)
(* failed has none, and is not asked again.                                  *)
CachedMeansImported ==
  \A m \in Modules : cacheFile.modules[m] > 0 =>
    Imports(m) \subseteq objects \/ m \in silent

(* getClassData never looks at a row twice.  The class data it keeps go out   *)
(* of date only through a module that gave an object of the class before the   *)
(* class was registered: an upgraded module, whose configuration is imported    *)
(* first, or one that the class is not of.                                   *)
StaleOnlyAfterUpgrade ==
  \A c \in Classes : classdata[c] \notin {0, rows[c].version} =>
    \E m \in Range(linked) : c \in Range(ObjectsOf[m])
                             /\ (m \in upgraded \/ c \notin Range(ClassesOf[m]))
=============================================================================
