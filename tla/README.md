# opencore: TLA+ models, checks and proofs

opencore is the daemon of OpenPanel. Clients (the GUI, the CLI) send it RPC
requests over HTTP; it keeps sessions, a database of objects (users, domains,
mailboxes, ...) and their owners, and lets *modules*, executables of their own,
configure the real services. This directory models its core: how sessions live
and die under the requests that use them, how requests keep the database and the
modules in step, what becomes of the fields of an object, how modules are
loaded and called and call back, and how the daemon starts, ends and comes back.

Paths are those of the repository (`src/` is its root).

## 1. The system

| component | source | state | operations | hard behaviour |
|---|---|---|---|---|
| **SessionDB** | `session.cpp` 26-442 | doubly linked list and hash tree of `CoreSession`s, `lck` | `create`, `get`, `release`, `remove`, `exists`, `list`, `expire`, `saveToDisk`, `loadFromDisk` | the tree is rebuilt at each removal; `expire` gives its lock back to remove, in the middle of its walk; `inuse` changes under a shared lock |
| **RPC layer** | `rpc.cpp`, `rpcrequesthandler.cpp` | none of its own: a bare pointer to a session for each request | `bind`, `call`, the commands, HTTP handlers for files, images, items | many workers at once on one session; exceptions; logout of a session in use |
| **CoreSession** | `session.cpp` 447-2110 | `inuse`, `heartbeat`, `spinlock`, its own `DBManager` with the user's id | `createObject`, `updateObject`, `deleteObject`, `chown`, `callMethod`, lists | a request is several statements and module calls, and each may fail; other sessions run in between |
| **DBManager** | `dbmanager.cpp`, `sqlite/SCHEMA` | the tables `objects`, `powermirror`, `classquota`, `specialquota`; caches of classes | queries, `createObject`, `updateObject`, `deleteObject`, `chown`, quotas, reports, `registerClass` | check and write are different statements; `REPLACE`; permissions come from a table that is filled in once |
| **ModuleDB** | `moduledb.cpp` | classes by name, modules by class, `module.cache` | `init`, `loadModule`, `registerClasses`, `createObject`..., `callMethod` | the module cache; the first configuration of a module; a failure half-way |
| **CoreModule, API** | `module.cpp`, `api.cpp` | `serlock` per module | `action`, `API::execute` (stdio) | one call at a time per module, but modules may call back (`wantsrpc`) |
| **internal classes** | `internalclass.cpp` | uuid and metaid maps | quotas, session list, error log, ... as objects | maps without a lock |
| **AlertHandler** | `alerts.cpp` | queue of alerts, saved at the end | `alert`, `run` | retries, redelivery after a restart |
| **daemon** | `main.cpp`, `opencorerpc.cpp`, `SessionExpireThread` in `session.cpp` | error ring, configuration, threads | startup, shutdown, the sweep each minute | the order of startup and shutdown, the handshake with threads |
| tools, APIs for modules, debug, techsupport, schemas, packaging | `coreclient.cpp`, `coreval.cpp`, `mkmodulexml.cpp`, `api/`, `debug.cpp`, `techsupport.cpp`, `rsrc/`, `debian/`, ... | none that lasts | | |

How they interact: an HTTP worker reads a request, `RPCHandler` gets the session
from `SessionDB` (a claim: `inuse++`), takes the session's `spinlock` for
reading or writing, and calls `CoreSession`, which calls its `DBManager` and then
`ModuleDB`, `CoreModule::action`, `API::execute` and the module. Then lock and claim
are given back. Beside the workers run the expire thread and the alert thread.
All sessions share one database handle (a lock per statement or transaction).

What makes each correct:

* SessionDB: list and tree always hold exactly the live sessions, in order, with no
  link to a deleted one; a lookup finds a session iff it is there.
* session use: no session is deleted while its `inuse` is being changed;
  `inuse` is the number of its users, and not below zero; the sweep takes idle sessions only, ends, and
  idle sessions go; every request is answered.
* objects: what is deleted stays deleted; powers follow the owners; an object has
  its parent and its parent's owner; quotas are kept; modules have configured what
  the database says, unless something named happened.
* fields: what was stored passes the checks of an update again; a password is crypted
  once and is the object's own; what an update does not touch stays.
* modules: each is loaded once; the cache, the dictionaries and the rows of classes agree; a module
  that the cache knows has had its first configuration imported.
* module calls: a script's session lives as long as the call, unless it is logged out, and has the rights of the user
  behind it; the process does not die of a missing session; requests end, whatever scripts ask for in between.
* startup and shutdown: sessions that ended do not come back; alerts are neither lost nor
  sent twice without a reason; the daemon ends.

The hazards are listed line by line in `PROJECT.json`, each with the
properties that cover it or the reason why none does.

## 2. Modules

| module | what it is | runs |
|---|---|---|
| `SessionRegistry` | abstract: a set of live sessions, walked in the order of their creation | |
| `SessionDB` | the list and tree; implements `SessionRegistry` | `session_list_and_tree` |
| `SessionDBProofs` | proofs about list, tree and refinement | |
| `SessionUse` | workers, claims, locks, logout and the sweep, over `SessionRegistry` | `session_use`, `session_live`, `call_loses_its_session` |
| `SessionUseProofs` | proofs about claims | |
| `ObjectStore` | tables, queries and statements of `DBManager` | |
| `ObjectRequests` | the requests of `CoreSession` as sequences of these statements and module calls | `object_ownership`, `object_requests` |
| `ObjectProofs` | proofs about objects, their owners, quotas and modules | |
| `Records` | the fields of an object: `normalize`, `handleCrypts`, what a client is shown, fill-in of an update | `records` |
| `RecordsProofs` | proofs about fields | |
| `Prototypes` | `copyprototype`, insert by insert, with other sessions in between | `prototypes` |
| `SpecialQuota` | quotas on tags: `setSpecialQuota` and `QuotaClass::updateObject` | `special_quota` |
| `ModuleRegistry` | `ModuleDB::init` and what it calls, over starts, crashes and upgrades | `module_loading` |
| `ModuleRegistryProofs` | proofs about loading | |
| `ModuleCalls` | `CoreModule::action`, sessions and requests of scripts, `saveToDisk` | `module_calls` |
| `ModuleCallsProofs` | proofs about calls | |
| `Daemon` | `main`, the expire and alert threads, `session.xml` and the file of alerts | `daemon` |
| `DaemonProofs` | proofs about alerts and restarts | |
| `Induction` | induction and recursion over the numbers, for the proof modules | |
| `MC...` | instances for TLC | |

How they meet: `SessionUse` instantiates the abstract `SessionRegistry`, which `SessionDB` implements.
`ObjectRequests` extends `ObjectStore`. What is one step in one module is taken apart in another: a
request of `Records` is the job of `ObjectRequests`; a call of a module there is
`Enter` ... `Close` of `ModuleCalls`; `Snapshot` of `Daemon` is `SaveStart` ... `SaveEnd` of `ModuleCalls`;
`InitModules` of `Daemon` is a `Begin` ... `Finish` or `GiveUp` of `ModuleRegistry`; a sweep of
`Daemon` is the walk of `SessionUse`.

### SessionRegistry, SessionDB

`SessionDB` has the pointers as variables (`first`, `last`, `prev`, `next`, `lower`,
`higher`) and one action for each critical section that changes them: `Create`
(`demand` with `link`) and `Remove` (list surgery, then the tree rebuilt by linking every
session that is left). A session is the serial number of its uuid; its hash is any
member of `Key`, so collisions happen. Equal keys go to the higher side, as in the code,
and a removal in the middle, at either end and of the last session are all there.
`Listed` is the sequence that `list()` returns; mapped onto the registry, every
step of `SessionDB` is a step of `SessionRegistry` (`ImplementsRegistry`).

### SessionUse

Here the registry is abstract, and the threads are not. A worker's place (`pc`) is where in
a request it is: creating and logging in, between load and store of `inuse++`
(`claim`), in a command (`plain` takes no lock, `wantread`/`reading` and
`wantwrite`/`writing` take `spinlock`, `file` is the module file handler, `remove` a
logout), and giving back (`release`, where `inuse` is tested, then `lower`, before it is loaded once more, and `unclaim`,
between load and store of `inuse--`). The
expire thread goes `wait`, `enter`, `scan`, `remove`.

* `inuse++` is a load and a store, since `get` and `release` run under the
  *shared* mode of `lck`: two workers may lose an update, and two releases may both find `inuse > 0`
  and leave -1 (`session.cpp:168`). Sessions where that happened are in `raced`. `inuse` is an integer here, between bounds.
* `breaksection` is a macro of the Grace library, which is not in the repository. It
  is modelled as: give back the section's lock, then execute the statement. So in
  `expire` the rest of the walk runs without `lck`, and `remove` takes it again.
* A worker or a sweep whose session was deleted follows a dangling pointer. That is
  undefined; the model takes the outcomes in which the process lives and no other
  session is changed: `Dangle` ends the request without effect, `SweepDangle` ends the walk or
  comes back to a later session.
* An exception (`Throw`) ends in the `catch` of `RPCRequestHandler::run`: the claim and the
  session's lock stay taken (`leaks`, `stuck`).
* A client can name a session whose id it has (`known`): the answer to a good login gives it, and so do
  the listings of sessions, which name all that live. `bind` releases the session before it answers, `getLanguages` has one that
  nobody gets to know.

The sessions that a module call makes for its script and `saveToDisk` are in `ModuleCalls`.

### ObjectStore, ObjectRequests

`ObjectStore` has the tables: `obj` (with `last`, the autoincrement), `power`
(powermirror) and `limit` (classquota), the queries that decide (`HasPower`, `Limit`,
`Usage`, `MayCreate`, `MayChown`, ...) and one operator for each statement that writes.
`ObjectRequests` gives each session at most one request at a time (`mlockw`), a *job* that
goes through the steps of the code:

* create: `Create` (all checks), `Insert` (transaction), `Give` (the parameter
  `owner`), `Fetch` (of the object and the parents that its class requires), `Call`, `Report`;
* update: `Update` (read), `Replace` (write), `Fetch`, `Call`, `Report`;
* delete: `Delete` (list of the tree), and for each object of it `Check`, `Replace`, `Fetch`,
  `Call`, `Report`;
* chown: `Chown` (checks), `ChownWrite`; `SetQuota` is one step.

Conventions:

* Row ids and uuids name the same thing: a uuid belongs to one id, and
  `AUTOINCREMENT` never hands one out again.
* The reads before a write are one step and the write another, so other sessions
  come between check and write, between write and module call, and between call and report.
* A refused request leaves nothing and is no step. Its refusal is the guard.
* The tree of a delete is the recursion of `_listObjectTree`, with what it lists twice: `Below` gives what is
  below each object to a depth, level by level, and `Children` one level of it. In a
  cycle the recursion does not end (the list of `Below` ends in `NULL`); then `Delete` is not taken (the
  request hangs). Such cycles happen: see section 5.
* A module is what it has configured per object (`conf`). Its answer is any of `Answer`; only
  "ok" means that it did what it was told. Module code is outside the repository.
* New owners and the holders of quotas are users: their parameters are called
  `useruuid`. `CoreSession::chown` looks them up as users first.
* Content is a number; 0 is the empty string, which marks a row as deleted.
* `fetchObject` fails where an object or one above it has no row (`Fetchable`). A create or an update ends
  there, with its row written and no word to the module.
* `drift`, `behind` and `moved` are history: objects that may be in a module and not in the database or the other way round,
  objects whose module may have an older content, and objects whose owner is not the one they were made by. They occur in
  properties only.
* Parent realms, cascades, metaclasses, dynamic and internal classes (but for setting quotas) are
  left out; fields are in `Records`, prototypes in `Prototypes`, special quotas in `SpecialQuota`.

### Records

One class of two fields, any of 109 definitions: types, enabled or not, crypted by the module, by
opencore or in a way it does not know, required, with a default, a regexp. A value is one of
seven texts and the number of times it was crypted. `createObject` and `updateObject` are what
`CoreSession` makes of the parameters: fill-in of what is left out or not enabled (`FillIn`), the checks
and conversions of `CoreClass::normalize` (`Accepts`, `Converted`, `Missing`, `CanDefault`), and
`handleCrypts` (`ToCrypt`, `CanCrypt`, `Crypted`), which takes an empty password from the object that
`findObject` finds (`Found`). Clients send any form, or what `getObject` or `listObjects` has shown them.
The row and module steps of a request are `ObjectRequests`; here it is one step. Private fields are no
kind of their own: `filter()` asks the class for `privateformodule`, which `CoreClass::getregistration` never writes.

### Prototypes, SpecialQuota

`Prototypes` takes `copyprototype` apart: a read, an insert and a list of the children for each object
of the tree, in the order of the recursion, with errors that end all of it and leave what was inserted.
Others make and delete objects meanwhile; a copy that they touched (`raced`) promises nothing.

`SpecialQuota` has the table, in the order of its row ids, as `REPLACE` and `GROUP BY` see it. The
climb over the owners is one step, as one session at a time sets quotas. Amounts are not negative;
the usage of a tag
(`setSpecialQuotaUsage`) is a number beside it that no check reads, and left out.

### ModuleRegistry

The calls of `loadModule` in progress are a stack (`frames`), since a required module is loaded from
inside; an exception on its way up is `raised`. What survives a process is `version` (what is installed),
`cacheFile`, the class `rows` and the imported `objects`; the rest is memory. The process may die at any
step, also while it writes the cache (then the file is empty). Between processes modules are upgraded,
downgraded, removed and put back. A module may refuse (`Fault`: verify, `updateOK`, getconfig) a bounded
number of times.

### ModuleCalls

A worker's request locks its session, enters its module (`serlock`), and where the module has
`wantsrpc` opens a session for the script, copies the user's credentials, and closes it after the
script's end. While it runs, the script may send requests of its own with that session, which a
worker of the second server takes (`Callback`). Users are served by either server, as their sessions were made by `bind` on one or the
other (`Clients`), so they compete with scripts for its workers. `ModuleDB`'s eight methods differ in the lock that their
caller has and in whether they pass the id of the session (`Wrapper`). `saveToDisk` holds `lck` shared while it locks one
session after the other; who opens or removes a session waits for it. A script's answer is any of four outputs.

* A logout removes whatever session it names (`rpc.cpp:88-92`): a user's, or that of a module's call, whose id its script
  has and an administrator can list. It is two steps, as it waits for `lck`. The script's next request is then
  answered "Unknown session" (`Unknown`), and `Close` works with a freed pointer (`Pointed`): the process dies, nothing happens, or the memory is by
  then that of another module's session, which is removed instead, or gets the credentials (`mixed`).
* The pointer of the request's session is `NULL` when it is not found, and the process dies of it (`Die`).
* An exception out of a request leaves its session locked (`Throw`, `stuck`); a script that waits for the request gets an
  answer all the same.
* `Left` and `Hopeless` are the workers that wait for good: what each waits for is a session left locked, or held by others of them. It is
  the greatest such set, found by taking away who does not wait, once for each worker.

### Daemon

`phase` is the line that `main` is at. Sessions come and go as long as the RPC servers are open, which
is to the very end, and also while a start fails because the second server has no certificate (`refused`).
`shutdown()` of a thread is an event and then a `wait()` on a condition of the Grace library, which is not
in the repository: when the broadcast came before the `wait()`, the model leaves open whether it returns
(`hung`). Events of a thread are first in, first out. A delivery of an alert may fail, succeed, or
succeed and be reported as failed. There is always a routing: the validator of the configuration asks for one
(`rsrc/com.openpanel.svc.opencore.validator.xml:90-102`).

## 3. Runs

Names in brackets are the bounds. Each run takes less than four minutes with two workers.

| run | checks | bounds and why they are enough |
|---|---|---|
| `session_list_and_tree` | `TypeOK`, `ListIsLive`, `FindIsMembership`, `ImplementsRegistry` | 6 sessions ever (`MaxSessions`), a few hash values: trees of depth 3 and more with collisions, all removal cases, in every order |
| `session_use` | `TypeOK`, `SharedIsProtected`, `ClaimAccounting`, `DropsOnlyIdle` | 2 workers with all commands but those under `mlockr` (what tells them from those under `mlockw` is not in these properties), 2 sessions, one lost claim per session (`MaxLeaks`), `inuse` from -1 (`MaxDebt`) to 2 (`MaxInuse`), any age is due (`IdleLimit` 0): two workers race on one counter, above zero and below, while the sweep is between two sessions. 6.2 million states |
| `session_live` | `RequestsEnd`, `IdleSessionsGo` | 2 workers compete as readers and writers for the locks of 2 sessions, which the sweep walks and removes: it loses the session it stands on or the next. No exception is thrown (`MaxLeaks` 0; after one the session stays locked, which `RequestsEnd` excepts) and two commands, because liveness over all five takes too long |
| `call_loses_its_session` | violation of `CallHasSession` | one session, 2 workers with calls under `mlockw` and logouts: after a good login, the client's logout deletes the session under a call that it has on another connection |
| `object_ownership` | `MirrorFollowsOwners`, `PowerIsAncestry`, `ParentsExist`, `OwnersFollowParents`, `QuotaKept` | one session, 4 objects (`MaxObjects`): chains of three users above an object, trees of three levels, chown of each, one quota (`MaxLimits`) of one domain on any user |
| `object_requests` | `TypeOK`, `InStep`, `DeletedStaysGone` | two sessions at once on 3 objects with 2 contents (`MaxContent`), all answers of modules, immediate requests, crashes: an object and its parent in the hands of two requests, a parent that goes between insert and fetch |
| `records` | `TypeOK`, `StaysUpdatable`, `PasswordIsOwn`, `UpdateKeeps` | 2 objects ever (`MaxRows`) of 109 classes with 2 fields, crypted over at most twice (`MaxTimes` 1): every pair of kinds of field before and after a crypted one, a sibling to take a password from |
| `prototypes` | `CopiesAreWhole` | a prototype of 4 objects in 3 levels, 2 sessions that copy it with 2 names, 10 rows (`MaxRows`), one change by somebody else (`MaxEdits`): two whole copies side by side, clashes in the middle |
| `special_quota` | violation of `AllowanceKept` | an owner gives two users more than he has |
| `module_loading` | `TypeOK`, `LoadedOnce`, `ClassesInStep`, `CachedMeansImported`, `StaleOnlyAfterUpgrade` | 3 modules, two of which require each other and two of which share a class; 2 versions (`MaxVersion`), 3 starts (`MaxStarts`), 1 refusal (`MaxFaults`): a failed start, a change of what is installed and a retry |
| `module_calls` | `TypeOK`, `SessionFollowsCall`, `ActsForUser`, `DiesForAReason`, `RequestsEnd`, `SaveEnds` | 2 users, a worker for one of them, one that only gets logouts, and one of the second server for scripts and both users (`Clients`); 2 modules with `wantsrpc` and 1 without, which encrypts passwords; one request per script (`MaxAsks`), one session left locked at a time (`MaxStuck`), logouts of one module's session (`Leaving`): calls two deep, a logout and a save under them, and a script that waits for the worker its own call holds |
| `daemon` | `TypeOK`, `LogoutIsFinal`, `AlertsKept`, `TwiceForAReason`, `ShutdownEnds`, `AlertsGoOut` | 3 lives (`MaxStarts`), 1 session (`MaxSessions`), 2 alerts (`MaxAlerts`): a session that ends between snapshot and file, an alert that is saved, loaded and left behind |

`object_ownership` has one session because that is where the code
keeps these properties: check and write are separate statements, and two
sessions break quotas and parents. Powers need it too: a user may be deleted between the check and the insert of
something that another session makes for him. `ParentsExist` and `OwnersFollowParents` also need modules that postpone nothing
(`Answer` is "ok" here): a postponed delete leaves its row and goes on to the row of the
parent. No document of the repository promises more. For the
same reason `InStep` excepts what is in `drift`, and says which events put
an object there. The other exceptions are history variables too, named in the comments of the properties
(`raced`, `uncounted`, `behind`, `skipped`, `given`, `silent`, `upgraded`, `cut`, `mixed`, `late`, `unsaved`, `doubted`,
`orphaned`, `lost`); no action reads them.

A `VIEW` leaves out what no property reads as an invariant and no action
depends on: in `object_requests` the module's state and the content of a drifted object, the module's content of one that is behind, and `moved`; in `session_live` `raced` and `uncounted`; in `records`
`sent`, which is about the last step only; in `prototypes` the finished job of an idle session. Symmetry
is over sessions, workers and the names other than the first user's, and only in runs without
liveness properties.

Deadlock is checked in `object_ownership`, `object_requests`, `module_loading` and `special_quota`. It is switched off elsewhere:
the number of sessions, rows, starts or copies is bounded, so that in the end there may be nothing left to do;
in the session runs every worker may wait for a session that an exception left locked, and in
`module_calls` the process may have died of a missing session, or all its workers be `Hopeless`.

**Fairness.** Threads are scheduled by the system and lock
waiters are served. No fairness for what clients do, for crashes or for exceptions.

* `SessionUse`: a worker that can take its next step again and again takes it: strong
  fairness for the steps of each worker, and for those of the sweep, which the thread's timer
  starts each minute. `ReadersPause` is an assumption about clients: requests do
  not overlap so that *some* worker shares a lock at every moment; the code's
  readers/writer lock gives writers no precedence that we could rely on.
* `ModuleCalls`: strong fairness for the steps of each worker, with those of its script and of who serves the script's
  requests, and for the saving thread. `ScriptEnds` is among them: `API::execute` waits for a script without a timeout, so a
  script that never ends holds its module for ever, which no code of opencore can help. `RequestsEnd` says who else waits for good, and why
  (`Reason`): a session was left locked, the end of the daemon holds `lck` and waits, or every worker of the second server waits, for what the scripts'
  callers hold. It assumes that listings, which share locks, do not overlap for ever (`Unshared`), as `ReadersPause` does. The instance
  has no circle of modules that ask for each other; with one, requests wait for one another for ever.
* `Daemon`: weak fairness for `main` and the two threads; strong fairness for a delivery that is
  tried again and again.
* No liveness for objects (a module may take for ever), and none for the loading of modules, where `init` waits
  for scripts in the same way.

## 4. Proofs

All are checked by TLAPS for every value of the constants that the modules'
assumptions allow: any number of sessions, workers, objects, classes, modules, fields, starts. Every invariant and action
property of section 3 but `CopiesAreWhole` has its theorem; `theorems` in `PROJECT.json` says which.

* **`SessionDBProofs`**: `ListTypeCorrect`, `ListCorrect` (`ListIsLive`), `LinksAreLive` (`TypeOK`), `FindCorrect`
  (`FindIsMembership`), `RegistryRefined` (`ImplementsRegistry`).
  * `ListInv`: the list is exactly the live sessions, in the order they were made, from either end. Said through
    neighbours, not through a walk, it is inductive.
  * `TreeInv` adds the tree over the live sessions. A newer session is always below an older one, and every live session
    is reached by the walk for its own key. `link` is proved to keep this for one session more; `remove`, which
    builds the tree anew along the list, keeps it by induction over that loop.
  * The refinement: the walk of `list()` is the live sessions in order, and appending or removing one does to it what
    `SessionRegistry` says.
* **`SessionUseProofs`**: `UseTypeCorrect` (`TypeOK`), `SharedSectionsAreSafe` (`SharedIsProtected`), `InuseCountsClaims`
  (`ClaimAccounting`), `SweepChoosesIdle` (`DropsOnlyIdle`). That `inuse` is not negative is no matter of types: it follows from the accounting, where
  that holds. The inductive invariant is
  `UseInv`: the accounting survives a
  store only if nobody else is between load and store and what was
  loaded is still the value (`UpdatersAgree`), and only if the
  session is still there (`SharedIsProtected`). It is exactly what fails for sessions in `raced`.
* **`ObjectProofs`**, for any number of sessions:
  * `ObjectsTypeCorrect` (`TypeOK`). It includes that no row, power, job or user
    refers to an id beyond `last`, which the others need: what is inserted next is
    referred to by nothing.
  * `MirrorIsTrue` (`MirrorFollowsOwners`). Needs that a `REPLACE` under way of an
    object that was never moved writes the owner it has (`ReplacesFollow`), since it may write an
    owner read long ago.
  * `ModulesInStep` (`InStep`) and `DeletedObjectsStayGone` (`DeletedStaysGone`). `Steady` says how far each job has got with the row and the
    module of its object (`Progress`), and that no other job works on that object unless it is in `drift` (`Alone`). That names are unique
    is the database's doing, and a lemma here.
* **`ObjectProofs`**, with one session (`OneSession`), as in the run; with two, TLC and the code say otherwise (section 3). What it
  gives is `Solo`: what a request read is still true when it writes, and an owner is an older object than what
  he owns, unless it was moved.
  * `PowersAreAncestry` (`PowerIsAncestry`): by induction over the climb to the first user.
  * `QuotaIsKept` (`QuotaKept`), an action property: what the check found of usage and limits is still so when the
    row is inserted (`Counted`), and the row adds at most one to the usage of the user who makes it.
  * `ChildrenHaveParents` and `ChildrenFollowParents` (`ParentsExist`, `OwnersFollowParents`), if no module
    postpones. `Kin`: each child fits its parent, and what a deletion has still to do lists every object after all
    that is below it, so that wherever it breaks off no child is left alone. That the recursion of
    `_listObjectTree` makes such a list is proved by induction over its levels and over the ids of each.
* **`RecordsProofs`**: `FieldsHaveTypes`, `PasswordsAreTheirOwn`, `ObjectsStayUpdatable`, `UpdatesKeepTheRest`, for classes of any number of
  fields. `RInv`: what is stored went through the checks and conversions of its field's definition
  (`Stored`), and a crypted text was given to its object (`Owned`); the rest is what each step of a request does to a single field.
* **`ModuleRegistryProofs`**: `RegistryHasTypes`, `ModulesLoadOnce`, `RegisteredClassesInStep`, `CachedModulesAreImported`,
  `ClassDataGoStaleForAReason`. `IInv` says what the place of a frame on the stack of `loadModule` implies of
  its module: that it is in the history and on the stack once (`Calls`), whether it is in the list (`Linked`), its
  classes are in the dictionaries and rows (`Registered`), its objects imported before the cache has it (`Imported`), and whether the class
  data it read are of this version (`Fresh`).
* **`ModuleCallsProofs`**: `CallsHaveTypes`, `ModuleSessionsFollowCalls`, `ScriptsActForTheirUser`, `ProcessDiesForAReason`.
  `CallInv` ties a worker's place to its call and a script's request to the one script that waits for it
  (`Callbacks`), and a session that went before its call to who removed it (`cut`). That a script has the rights of the
  user at the bottom of the chain of callers is an induction over that chain (`Nested`).
* **`DaemonProofs`**: `DaemonTypeCorrect`, `NoAlertDisappears`, `NoAlertTwiceWithoutReason`, `EndedSessionsStayEnded`. `AlertInv`: an
  alert is in one place (events, queue, file), or has a reason not to be. `SaveInv` follows what ended from the snapshot to the file to the next start.

`Induction` has what all inductions over data rest on. The library's induction rules take an operator as a parameter, which the
provers cannot use; its facts speak of *sets* of numbers instead. A set of numbers has a least one (`Least`, from the
library's `WFMin`), hence a set with 0 that has n + 1 with n has them all (`EveryNumber`), hence a function defined by recursion exists and has
its equations (`Recursion`, `Repetition`, `NumberedRepetition`). The models write their recursions as functions for that reason.

Three properties were found too strong by their proofs, after TLC had agreed on the small instance, and were corrected from the
code: class data also go stale through a module that gives objects of a class that is another module's
(`StaleOnlyAfterUpgrade`); a field with a default that its own checks refuse stops updates as well (`Stuck`); and a number that is to be
crypted becomes a crypted 0 that nobody gave (`PasswordIsOwn`, `NotKept`).

Only model-checked: liveness (`RequestsEnd`, `IdleSessionsGo`, `SaveEnds`, `ShutdownEnds`, `AlertsGoOut`), which is out of
the prover's reach, and `CopiesAreWhole`, whose proof is still to be written (section 6). The two findings are traces of TLC.

## 5. Findings

Two runs show what the code does against what it or its headers say; see `findings` in
`PROJECT.json`: a call that loses its session to a logout, and special quotas that are not added up.

### Found while modelling

The properties above say what holds; these are the places where the code made them weaker than one would
first write them. Each is in the models, as a guard or as an exception with a name.

* *Sessions.* `expire` leaves its exclusive section before it removes, and does not look again
  (`session.cpp:420`): a session that is used and released in between goes all the same, although `session.h:73-80` promises
  it more time. `release` reads `inuse` for its test and once more to lower it, under the shared mode of `lck` (`session.cpp:168`):
  two at once may leave -1, and `expire`, which asks for 0 (`session.cpp:417`), then passes over the session for ever if nobody uses it again, while the next request counts as none. A module file request never gives its claim back, and `expire` passes over
  claimed sessions for ever (`session.cpp:417`, against `session.h:93-97`).
* *Owners.* `chown` asks for power over object and new owner, but not whether the new owner is the object
  itself or below it (`dbmanager.cpp:2187`): the loop of `getUserQuota` and the recursion of
  `_listObjectTree` then never end.
* *Fields.* A crypted field that an update leaves out is filled in with its crypted text and crypted again
  (`session.cpp:1044`). A field with a pre-crypted text ends the loop over the crypted fields
  (`session.cpp:886`), so those after it are stored as they came. An object with an automatic index below a parent may get
  the password of a sibling when it is made with an empty one (`session.cpp:932`). An optional enum that was never given
  is refused by every later update, as an empty text is no member (`module.cpp:181`). A field marked private for its module goes
  to all modules that get its object: `filter()` looks for `privateformodule` in the registration of the class
  (`dbmanager.cpp:1579`), where `getregistration` never puts it (`module.cpp:493-529`). A password that is not crypted, sent back as it
  was shown, is emptied.
* *Modules and database.* Where the fetch of a parent fails after an object was inserted, `createObject` returns with an error and
  leaves the row, which its module never heard of (`session.cpp:776-786`).
* *Prototypes.* The copies are not counted in quotas and get no rows in `powermirror`; a class that is
  below itself in a prototype of its own is outside the instance, as its copy would never end.
* *Loading.* `--reinitialize-module-config` removes entries from the root of the cache's tree, where
  there are none (`moduledb.cpp:101-104`), so the list has no effect. A failure of `User.module` is
  meant to end the start (`moduledb.cpp:125-127`), but not when it failed as the requirement of a module before it: it is
  in the history then, and skipped. `handleGetConfig` goes on with an object that exists if the error code is
  `ERR_DBMANAGER_EXISTS` (`moduledb.cpp:510-523`), which `dbmanager.cpp` never sets: such a module fails instead.
* *Calls.* `makeCrypt`, `callMethod`, `setSpecialPhysicalQuota` and the listings pass no `sessionid`, and `action`
  uses the session it looks up with it without a check (`module.cpp:703-704`): with a module that has `wantsrpc` the process
  dies (`DiesForAReason`). A logout that names a module's session frees what `action` releases and removes at its end
  (`module.cpp:705`, `712-713`). `saveToDisk` waits for each session's lock while it holds the list (`session.cpp:46-51`); a request that has
  such a lock and has still to open or remove a script's session waits for the list, and a session that an exception left locked
  is waited for in any case. The second server serves users and the requests of scripts with one pool of workers
  (`unixsocket/maxthreads`): when callers of modules hold them all, no script gets an answer, and none of them ends.
* *Shutdown.* Sessions that come or go between the snapshot and the end of the process are in the file, or not,
  as they were before (`late`); alerts after the last event of the thread are lost; the file of alerts
  stays after it was loaded, so that a crash sends its alerts again (`orphaned`).

## 6. Plan

Done: all modules of section 2, and the proofs of section 4. Left:

1. The proof of `CopiesAreWhole`: that the copies made so far are an image of the part of the prototype that the recursion
   has passed, and what is still on the stack is the rest.
2. The session of a deleted user: two users with sessions in `ObjectRequests`, if the state space allows it.

## Not modelled

* I/O without a state of its own: the other HTTP handlers, debug storage, the technical support report, the tools, the
  transports of `API`, the debugging console, schemas and packages.
* Libraries linked into modules (`src/api/`): one request in, one answer out; and authd, which is not in this repository.
* In `DBManager`: the escaping of SQL, the field whitelist and `checkfieldlist` (formats), the usage of special
  quotas (a number that no check reads), domain suffixes (strings).
* In `CoreModule::action`: that a script may be given another session's id, when the memory of its own was freed and used again before
  the id is read from it (`module.cpp:708`).
* In `CoreSession`: cascades, metaclasses and the uuids of dynamic objects. They repeat module calls and listings that the
  models have, without a state that requests share, but for the map of dynamic uuids under its own lock.
* In `ModuleDB`: `synchronizeClass`, which nobody calls, and dictionaries that are only read (languages, quotas, metaclasses).
* In `main.cpp`: the ring of errors, the regexp database, and a configuration that is changed while the daemon runs.
