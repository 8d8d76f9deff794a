# gView in TLA+

gView GIS is a desktop and web GIS with a map server.  This directory models the
concurrent core of the server, `src/gView.Server`, with the parts of
`gView.Framework` and `gView.Facilities` it stands on: how requests are admitted,
how maps get into memory and out of it, how several server instances keep each
other up to date, how the settings of a service are read and saved, and how the
dialogs of the manage page in the browser change them.  Beside the server it models
the offline replication of feature classes (`src/gView.Framework.Offline`), the
other place where several programs work on the same data.  The modules are checked
with TLC on small instances; their main invariants are proved with TLAPS for
instances of every size.

Paths below are relative to `src/` of the repository.

## The system and its parts

An HTTP request for a map enters through a controller or an interpreter (WMS, WFS,
GeoServices REST, ArcXML), is given a slot by the **task queue**, asks the **server
instance** for the map, which comes out of **memory** or is loaded from the
`.mxl` file under a **keyed mutex**, and is drawn.  Operators publish, reload and
remove services through the **deployment manager** and start, stop and refresh them
on the **manage pages**; the **message queue** tells the other instances.  Whether
a service runs and who may use it is in its **settings** file.

| component | state | operations | hard because | correct if |
|---|---|---|---|---|
| task queue (`AppCode/TaskQueue.cs`, `ConcurrentCounter`, `TaskQueueDequeueService`) | counter of used slots, queue of semaphores, pace of the service | `AwaitRequest`, `Dequeue`, host stop | the lock covers admission and `Dequeue`, not `ReleaseTask`; who waits polls for ever | slots are counted exactly, the limit holds, nobody waiting is forgotten, each is served |
| keyed mutex (`FuzzyMutexAsync`) | a dictionary of keys | `LockAsync`, `Dispose` | an entry has no owner, waiters poll with random delays and time out | one owner per key, no key left behind, calls return |
| maps in memory (`MapServerInstance`, `ServerMapDocument`, `MapServiceDeploymentManager`) | bag of maps, catalog of services, `.mxl` files, refresh marks | `Map`, `FindMap`, `LoadMap`, `AddMap`, `RemoveMap`, `ReloadMap`, preload, start, stop, refresh | only `FindMap` takes the mutex; the bag is replaced by a copy in two steps; a publish saves, removes and loads while requests load | requests are answered with a map, loads take turns, memory agrees with disk when all is quiet, every operation returns |
| cluster messages (`MessageQueueNetService`, `MessageQueueNetMessageHandler`, `ReloadMapMessageHandler`, `RemoveMapMessageHandler`) | a queue per instance on a server of its own | fire, handle, expire | handlers act on shared files when the message arrives, not when it was sent; failures are logged and forgotten | instances agree, what was published stays |
| service settings (`AppCode/MapService.cs`, `ManageController`) | `.settings` file, a copy with two times per instance | `GetSettingsAsync`, `SaveSettingsAsync` | a copy is saved as a whole; it is looked at again by age and by file time | no saved change is undone, answers follow the file |
| server manage page (`wwwroot/js/manage.js`, `ManageController`) | a dialog per tab with the loaded document, the text in its editor, posts under way | open, edit, select, OK, close, answers; on the server change and save | whole documents are posted over what others changed; memory changes long before the file is written; answers come late, twice or never | a save changes what its administrator changed; memory is what the files say; a dialog is closed by the answer to its own post, or with its page |
| services catalog (`MapServiceManager`) | bag of services and folders | `TryAddService`, `AddMapService`, `ReloadServices` | look and add are under two different locks or none | one service per name |
| offline replication (`gView.Framework.Offline`) | sessions, differences, locks and conflicts in two databases | checkout, `Process` (check-in, reconcile with post), edits on either side, solve conflict | two databases, no common transaction, locks that are read and set in two steps, clean-up in `finally` | one call at a time, no object stays locked, no difference is lost on the way |
| map rendering (`MapRenderService`) | bitmaps and cancel trackers of a map view | `Rerender`, cancel | debouncing with the keyed mutex | the last change is drawn |
| network tracing (`gView.Framework.Network`) | graph tables | Dijkstra, tracers | graph algorithms with turns and one-way edges | shortest, connected |
| token cache of the GeoServices client (`RequestTokenCache`) | tokens by server and user | `RefreshTokenAsync` | many callers find the token expired at once | a renewed token replaces the old one |

Left aside: access control and logins, the protocol interpreters, tile caches and
their tools, feature databases, symbology, geometry and projections, graphics
engines, the Blazor user interface, command-line tools, vendored code.  They are
sequential, I/O, floating-point or presentation; `PROJECT.json` lists each with the
reason.

Who meets whom: every map request holds a slot of the task queue while it runs,
so `TaskQueue` bounds the threads of `MapCache`; `FindMap` holds the keyed mutex,
which `MapCache` uses through its abstract specification `KeyedLock`; publish,
reload and removal of `MapCache` appear in `Cluster` with their loads, but without the
mutex and the bag's copy, followed by a message; the `stopped` services of `MapCache` are what `ServiceSettings` says of the
field `status`; the documents of `ManageDialogs` are a part of those settings and the
metadata of a map.  `Replication` stands alone: it runs in the desktop program and in
command-line tools, on databases the server reads.

## The modules

| module | models | states |
|---|---|---|
| `BoundedExecutor` | what the task queue promises: at most `Limit` requests execute, each starts and ends once, and does so while the host is open | status per request |
| `TaskQueue` | the code of the task queue, as an implementation of `BoundedExecutor` | counter, queue, flags, control state per request and of the service |
| `KeyedLock` | what a lock per key promises | owners per key |
| `FuzzyMutex` | the code of the keyed mutex, as an implementation of `KeyedLock` | dictionary, poll loop per caller |
| `MapCache` | one instance: map requests and everybody who changes the maps; `INSTANCE KeyedLock` | bag, catalog, files, marks, mutex, control state per thread |
| `Cluster` | several instances on one services folder | file, map and queue per instance, operation per instance |
| `ServiceSettings` | several instances on one settings file | file with its time, copy with its times, control state per thread |
| `AtomicEdits` | what the manage dialogs promise: a document changes by edits of single keys, each at once or not at all | documents, edits under way |
| `ManageDialogs` | the dialogs in the browser and the handlers of their posts, as an implementation of `AtomicEdits` | documents in memory and on disk, a dialog per tab, posts |
| `Replication` | a parent and a child database per checkout, edits of both, `Process` | features, sessions, differences, locks and conflicts per database, control state per call |
| `MCManageDialogs`, `MCReplication` | the instances of these two for TLC: initial values, symmetry, state constraint | |
| `TaskQueueProofs`, `FuzzyMutexProofs`, `MapCacheProofs`, `ClusterProofs`, `ServiceSettingsProofs`, `ManageDialogsProofs`, `ReplicationProofs`, `ReplicationCarryProofs` | theorems and proofs about them | |

### TaskQueue

`AwaitRequest(r)` is one thread per request: `FindsFull` or `FindsFree` reads the
counter under `lock (_runningTasks)`; `Claim` increments it and leaves the lock;
`Enqueue` appends the semaphore; `IsReadyToRumble` is the poll that finds
`IsDequeued`; `MethodReturns`, `MethodThrows` and `ReleaseTask` are the rest of
`try`, `catch` and `finally`.  The hosted service is `DequeueBegin`, `DequeueNext`
(one iteration), `DequeueEnd`, and `Tally`, which is outside the lock.  The lock is
not a variable: it is held exactly in the control states `claim` and `loop`.
`ReleaseTask` needs no lock, so it is enabled between any two of these steps.  The
constructor's `maxQueueLength` is never used by the code, so there is no bound on
the queue in the model either.

### FuzzyMutex

`TryAdd`, `Blocked` and `TimesOut` are the three outcomes of one round of the poll
loop, `Delay` the random wait, counted in rounds: whichever of the waiting callers
comes first is a nondeterministic choice.  `Dispose` removes the key whoever owns it.

### MapCache

A thread carries out one operation on one service; the label it is at says which
method it is in.  Every access to shared state is a step of its own, among them
the parts of `ServerMapDocument.RemoveMap` (`RemoveMap` finds the first map of the
name, `CopyBag` copies the bag without it, `AssignBag` assigns the copy), those of the
unregistration, and `AddMap`.  What is in a map is the number of the file version it
came from.

A `.mxl` is open for a while.  A publish truncates it (`Truncate`) and has written it
some steps later (`SaveConfig`); a load opens it (`OpenFile`) and reads it (`ReadStream`).
Where the platform locks open files the one who comes later fails (`ReadFails`,
`SaveFails`, `DeleteFails` with `InUse`), where it does not a reader meets half a file
and two writers may leave one nobody can read (`Partial`): the model has both.  The code
treats all of it as a map that cannot be loaded, or logs it and goes on.
`Failures` says which further failures may occur: a load, a save or a delete that fails
of itself, a map with warnings, a timeout of the mutex.  `SetServiceStatus` is `Begin`,
`SetRunning`, `AlreadyRunning`, `SetStopped`.  Maps keep the thread that loaded them, so
that two maps of one version differ.  The history variable `met` notes the loads that
met a file being written or spoiled.

### Cluster

On each instance an operator's call, the message handler and the map request that has
the mutex work at the same time; each takes its file and its map in steps of its own
(`ReloadMap` takes the old map out, `ReadFile`, `AddMap`), so a request may add what it
read before a reload.  Messages are handled one after another, as the client library's
timer does.  Only a removal from memory is one step, its parts are in `MapCache`.
What is added to `MapCache` is the order of operations and messages among
instances.  `queue` counts the messages of each kind an instance has still to handle:
with one service two messages of a kind are alike, and any of them may be taken next.
`EnqueueFails`, `Expire` and `Restart` (a restarted process has a new queue name) are
the losses, `SaveFails`, `DeleteFails` and `LoadFails` what the log swallows; `Failures`
switches them.  A publish whose map has warnings throws them
before its message is sent (`Warns`), an instance may stop before it sends one; the
history variable `untold` says which instances have thereby not been told of the last
change, `raced` on which a load overlapped another load or a removal, `wanted` what the
operators alone would have left on disk.  `HandleRemove` leads to the deletion of the
file because the handler calls the deployment manager's `RemoveMap`, which deletes it.

### ServiceSettings

`ReloadServiceSettings` is `ReturnEarly`, `NoFile`, or `FileIsNewer`, `ReadAllText`,
`AssignSettings`, `AssignWriteTime`, `AssignReloadTime` (between these two the settings of
the folder are read), each where another thread or instance can come
between; the file's time is taken before the file is read, as the code does through
`FileInfo`.  A manage call changes one of two fields of the copy and saves the copy
(`Change`, `SaveSettings`, `Written`).  A file that is being written cannot be read
or written by another: .NET opens it with a lock, so the call fails (`ReadFails`,
`SaveFails`).  The clock counts ticks, `MaxAge` of them are the 10 s of the code, and
only moves between calls.

### ManageDialogs

A dialog is opened empty and asks for its document (`OpenDialog`, `ShowRules`,
`ShowMetadata`); `form` is the table of rules or the array `metadata` of the code,
`editor` the text that is not in the array yet.  `SelectProvider` and OK bring it there.
The dialog for rules is removed when OK is pressed, that for metadata when the answer
arrives, and with it every `.gview5-modal-blocker` of the page (`Removed`).
A post is handled by a thread of its own: `TakeUp` (which removes all rules), a `Change`
per row or provider, `Serialize`, `Written`, with everything else in between, other posts
and rereads of the file among it.  `StartReread` and `FinishReread` are the reload of the
settings and of a map; a post in hand goes on with the object that was replaced then
(`apart`, `former`).  Rules are saved from whatever is in memory (`SaveSettingsAsync`),
metadata from the providers of the form (`Serialized`).  `SaveFails` ends a post after
memory has changed, for metadata after any of the providers has.  `Refuse` and the
"error" answer of a post that was carried out are the failures of the network, after
which an administrator may press OK again.  `Reload` is `location.reload()` after an
answer that the session has expired: it takes along whatever dialog the page shows.
`typed` and `touched` are history: what the
administrator saw, and for which keys he changed it.

### Replication

`Begin` is `CheckinConst.Init`, which reads the states and locks of the session;
`CheckOthers` are the checks before and after `LockSession` sets the hard locks, parent
first; then `IncReplicationState`, `Sleep`, `Thin`, `LockObjects`, the soft locks and the
check-in, one row at a time: `ReadDifferences`, a step for what becomes of the row
(`InsertFeature`, `ChangeFeature`, `CopyFeature` and then `WriteConflict` over another
connection, `Leave`, `PassOver`), `RemoveRow`.  The two sides are thinned one after the other.
Post is the same with the databases exchanged.  `Fail` takes a call to its `finally`
from anywhere, `Crash` ends it without.  Where the code ignores that a statement has
failed (`LockReplicationSession`, `IncReplicationState`, `RemoveReplicationLocks` return
false, as do `InsertRow` for the locks of the other side and for a conflict, and the three
`DeleteRows` after a row), there is a choice in which it changes nothing, or not all.  An edit is `BeginEdit`, which reads
the sessions and tests the locks, and `CommitEdit`, which writes; calls and other edits
run between them, those of the same feature too, and `Sleep` is all that waits for it.

A feature is the list of values of its rows, as an object may be inserted twice; a value
is the time of the edit it comes from.  `conflicts` are never solved here.  `excuses` is
history: it notes what the code cannot help or does not handle (a call that overlaps
another on its own session, an edit slower than the wait, two editors at one feature, an
edit begun between a copy and its conflict, an unnoticed failure, a crash,
a row that was carried and not removed, states that have become uneven, a feature that
was inserted again after its deletion, a deletion carried over a later update), and each
property says which of them it excludes.  The first five are excused by nearly all and
together called `Usual`.

## What is checked

| run | specification and bounds | properties |
|---|---|---|
| `taskqueue` | 4 requests, 2 slots, pace in 2 steps | `TypeOK`, `SlotsCounted`, `WithinLimit`, `NoRequestLost`, `EveryRequestServed`, `ImplementsExecutor` |
| `fuzzymutex` | 3 callers, 2 keys, timeout after 1 delay | `TypeOK`, `MutualExclusion`, `DirectoryExact`, `BlockedIsKnown`, `LockAsyncReturns`, `ImplementsLock` |
| `mapcache_all` | 2 threads, 2 services, all operations, all failures | `TypeOK`, `LoadsExclusive`, `OperationsReturn` |
| `mapcache_deploy` | 3 threads, 2 services, requests with publish, reload and refresh | `AlwaysAMap`, `FreshWithoutOverlap` |
| `cluster` | 2 instances with 3 workers each, 2 operations, all failures | `TypeOK`, `SafeAfterRemoval`, `CatchesUp` |
| `settings` | 2 instances, 2 threads, 2 manage calls, 1 tick | `TypeOK`, `NoChangeUndone`, `CalmAnswers` |
| `managedialogs` | 2 tabs, 2 documents of 2 keys and 2 values, 2 posts under way, 5 acts | `TypeOK`, `SurvivesRestart`, `SavesAreEdits`, `AnswersCloseTheirOwn` |
| `replication` | 2 sessions with a call each, 3 objects, 1 edit with 2 calls or 2 edits with 1 call | `TypeOK`, `OneAtATime`, `NoLockLeft`, `DifferencesKnown`, `CarriedUndisturbed`, `NothingDiscarded` |

and four runs in which TLC finds that the code does not do what a document or
comment of the repository says:

| run | found |
|---|---|
| `cluster_republish` | a removal message that is handled late deletes the files of a service that has been published again (`PublishedStays`) |
| `settings_throttle` | the throttle is the wrong way round: after 10 s an instance never reads the settings again (`AnswersAreRecent`) |
| `replication_passedover` | a difference whose feature is gone is passed over and its row is never removed: a delete in the child that is newer than an update in the parent leads there (`NeverPassedOver`) |
| `replication_lastkept` | a deletion from a child overrules a later update of the parent and becomes a difference for another child, with its old date: thinning takes it for the first of the two and drops it (`LastKept`) |

Not a run of its own, but a choice in `MapCache` (`SaveFails`): where files are locked, a
publish whose `.mxl` is just being read cannot write it, logs that and reports success.

Some properties say how far the faults reach: `FreshWithoutOverlap`,
`SafeAfterRemoval`, `NoChangeUndone` and `CalmAnswers` have the form `[]Calm => P`: in a
run without the overlaps that do harm, the code keeps its promise in every other
interleaving.  Those of `ManageDialogs` and `Replication` name the faults they make an
exception for, and hold under all the others; the exceptions are not idle, without any of
those in `Usual` TLC finds `CarriedUndisturbed`, `NothingDiscarded` or `DifferencesKnown`
violated.  Two calls on one session are such an
exception in every property of `Replication`: both may read the session unlocked before
either locks it, the finally of a refused one removes the locks of the other, and TLC
finds that, with two calls on one session, the same object is inserted twice in the
parent.  The runs give each session one call.

### Bounds

Four requests on two slots are the least in which two execute, one is queued and a
newcomer overtakes it while a slot is given back.  Three callers of the mutex are
an owner and two waiters, one of which times out.  In `mapcache_deploy` three threads on
two services are needed: a removal for one service overwrites a map of the other, and a
map a removal has taken out comes back with the stale copy of another.  With two
threads, `mapcache_all` has room for all the operations and failures.  Two instances
with three workers each are a sender and a receiver on which a request, a handler and an
operator meet; two operations are a publish and what it overlaps.
Two manage calls on two instances are the least that can undo each other.  A tick of
`settings` is any time of more than 10 s (`MaxAge` 0), and one lets a copy become old
once; in `settings_throttle` `MaxAge` is 1 and there are two.  In `managedialogs` five
acts open and post two dialogs and change one, or open, change and post one twice; the constraint `FewExcuses` follows
behaviours with at most one kind of excuse, as two add nothing to what one excuses.
In `replication` `MaxWork` counts an edit twice: two calls and one edit, or one call and
two edits, are enough for two differences of one object, also of two editors at once, for
a conflict, for a call that finds what another has left, and for an object of one session
in the way of another.  `replication_lastkept` needs two edits and two calls, on one object
of sessions in which the child wins.
Sessions that handle conflicts by `NONE` are among them: there an editor may change a copy
while it is carried, which is why `CarriedUndisturbed` excepts them.
The constraint `Small` does not follow a behaviour after an unnoticed failure, an overlap,
a slow edit or a resurrection, which excuse most of the properties, counts every other excuse
as one of the work, and gives a session without all rights one edit.  `MaxOps`, `MaxChanges`,
`MaxActs` and `MaxTime` bound what operators do and the clock; `Timeout` and `MaxAge` are
the code's own.

Deadlock is checked in `fuzzymutex`, whose callers come back for ever.  In the
other runs the operations are used up (a thread of `MapCache` or a request of
`TaskQueue` ends in `done`, operators reach `MaxOps`, administrators `MaxActs`,
callers `MaxRuns`, the clock `MaxTime`), so the
system stops rightly; that nothing is stuck before is what the liveness properties
say.

### Fairness

`TaskQueue`: a started thread goes on and a map request ends (weak fairness).  The
lock is taken with strong fairness: its holders keep it for a few instructions and
the service sleeps at least 10 ms between two rounds, so no one finds it taken for
ever.  Nothing is assumed of the host, it may stop or not.  `FuzzyMutex`: only the
poll loop is driven on; an owner need never dispose.  `MapCache`: started operations
go on, and a caller waiting for the mutex is not assumed to time out, so that an
operation can only return if the mutex is given back.  `Cluster`: operations and the
message handlers of every instance go on, as the message queue client polls; no
request, restart or failure is assumed to happen.  `ServiceSettings`, `ManageDialogs`
and `Replication` have no liveness property: administrators may leave, and a call that
finds a lock fails instead of waiting.

## What is proved

| theorem | statement |
|---|---|
| `TaskQueueProofs` `Typing`, `CounterIsExact`, `LimitKept`, `NobodyForgotten` | `Spec => []` of `TypeOK`, `SlotsCounted`, `WithinLimit`, `NoRequestLost` |
| `TaskQueueProofs` `QueueImplementsExecutor` | initial states and steps of the queue are those of the executor or stutter |
| `FuzzyMutexProofs` `Typing`, `Exclusion`, `NoKeyLeftBehind`, `BlockedRemembers` | `Spec => []` of `TypeOK`, `MutualExclusion`, `DirectoryExact`, `BlockedIsKnown` |
| `FuzzyMutexProofs` `MutexImplementsLock` | initial states and steps of the mutex are those of `KeyedLock` or stutter |
| `MapCacheProofs` `Typing`, `OneLoaderPerService` | `Spec => []TypeOK`, `Spec => []LoadsExclusive` for all operations and failures |
| `MapCacheProofs` `RequestsAnswered` | `Spec => []AlwaysAMap` where nothing is removed or stopped and no load fails of itself; publishes may meet requests and one another |
| `MapCacheProofs` `OnlyOverlapsStale` | `Spec => FreshWithoutOverlap` for all operations but preloading |
| `ClusterProofs` `Typing`, `OnlyOverlapsHurt`, `Convergence` | `Spec => []TypeOK`; `Spec => SafeAfterRemoval` whatever fails; `Spec => [](OnlyExcusedStale /\ PublishedStays)` without removals, overlaps or not |
| `ServiceSettingsProofs` `Typing`, `NothingUndone`, `AnswersFromDisk` | `Spec => []TypeOK`, `Spec => NoChangeUndone`, `Spec => CalmAnswers` |
| `ManageDialogsProofs` `Typing`, `RestartIsHarmless`, `AnswersAreOwn` | `Spec => []TypeOK`, `Spec => []SurvivesRestart`, `Spec => AnswersCloseTheirOwn` |
| `ManageDialogsProofs` `Refinement` | `Spec => SavesAreEdits`: the dialogs implement `AtomicEdits` where they do not overlap |
| `ReplicationProofs` `Typing`, `Exclusion` | `Spec => []TypeOK`, `Spec => []OneAtATime`, whatever fails or crashes |
| `ReplicationCarryProofs` `LocksRemoved` | `Spec => []NoLockLeft` |
| `ReplicationCarryProofs` `NobodyDisturbs`, `ReleaseKeeps` | `Spec => CarriedUndisturbed`, `Spec => NothingDiscarded`, with their exceptions |
| `ReplicationCarryProofs` `NothingForgotten` | `Spec => []DifferencesKnown`, with its exceptions |

Assumptions are those of the modules: at least one slot, a pace whose minimum is
below its maximum, at least one service, operations and failures among those named,
natural numbers as bounds, metadata that has a text for every provider, a session per
call that is none of the names of the parent, conflict handlings and rights of the code's
enumerations.

*TaskQueue.*  `SlotsCounted` is not inductive: a `ReleaseTask` is only right if its
request owns a slot, and a `DequeueNext` only if the semaphore it takes belongs to a
request that is waiting.  The inductive invariant joins the counter, the limit and
the queue's contents with mutual exclusion of the lock.

*FuzzyMutex.*  `DirectoryExact` and `MutualExclusion` need each other: `Dispose`
removes the key without asking who owns it. `BlockedIsKnown` follows step by step: a call that tries again after
a delay had been blocked before it, and time elapses in delays only; it says who is told
that he was blocked, not when that was.

*MapCache.*  Exclusion of the loads follows from: whoever is between `recheck` and
`unlock` on behalf of a request owns the mutex of its service, and an owner is there.
`AlwaysAMap` needs that no step of a request can carry version 0 on, which holds as long
as no file is removed; that the bag is overwritten with stale copies does not matter
because a request answers with the map in its hand.  `FreshWithoutOverlap` needs that there
is one map of a service in the bag while busy threads come one after another, that who loads
found none, and that a map differs from its file only while its removal is under way
(`FreshInv`).  Preloading does not look whether a map is there and leaves a second one, of
which a later removal takes out only one; so it is assumed away.

*Cluster.*  The invariant says of a stale instance that it was not told, or that a reload
is on its way to it, in its queue, in a sender that has not sent yet, or as its own next
step.  Of a removed file it says that who still has the map will be told or was not, and
that nothing is on disk for as long as a removal is open; without the latter a late
handler would delete a new file.

*ServiceSettings.*  While calls come one after another, a copy whose time is that of
the file is the file, except the one a manage call is changing; each label of a call
has its own statement of what buffer and copy contain (`StepByStep`).

*ManageDialogs.*  A post is an edit if the keys its administrator did not touch have the
values the document has when the post is handled.  While dialogs of a document do not
overlap, that is so for the one dialog or post there is: `form`, and `editor` for the
selected provider, are what was typed, and elsewhere what the document holds.

*Replication.*  `OneAtATime` needs the order of the two locks and checks: a call at work
holds a lock of its session in the parent (`LocksHold`), and got to work by seeing none of
another session while it held its own; that its lock is still there follows because only
calls on the same session remove it, and without overlap there is one (`SessionsApart`).
`NoLockLeft` holds because the states of the two sides are equal between calls (`Even`) and
an object lock belongs to a call that has still to remove it (`LocksOwned`).

`CarriedUndisturbed` and `NothingDiscarded` rest on one invariant, `CarryInv`, that follows a
call through its steps.  An edit counts as old or new by the state it read.  While the hard
locks are there (`Hard`) nobody begins to change an object, so when the state is raised an
object has old differences and edits or new ones but not both (`Apart`); after the pause all
edits are new ones (`Drained`); after thinning an object has one row on each side (`Unique`),
so that one object lock for it is enough when the locks become soft (`Locked`).  `Todo` says
that what is left to do is what there is to carry; that nothing is passed over in the
check-in needs the feature to be there, which the last difference of a child tells (`Alive`,
`Dated`).  Copies of objects in conflict come after the locks: the conflict protects them,
but not where conflicts are handled by `NONE`.

`DifferencesKnown` adds `Agreed` to this invariant, for what its longer list of exceptions
leaves (`Known`).  A database has one feature of an object at most (`Single`), so a row that
is written makes the sides equal, and the other sessions get a row of their own.  Rows end in
two ways.  Thinning leaves a row of every object but one inserted and deleted meanwhile,
which neither side has (`Dead`, `BornHere`, `BornThere`), and the insertion of one that only
the child has (`Vanished`, `OldestInChild`).  And before a row is removed the sides agree, or
another row says that they do not (`Settled`): if a verdict left the row or made a copy of it,
the row it clashes with is still in the parent (`Clashing`), since nothing the child changed
is changed anew in the parent while a call works (`Beside`).  That the row can be carried
needs the last one in a child to tell whether the feature is there (`Alive`), and a deletion
in the parent to be the last of its object by number and by date (`DeletedLast`): whoever
edits the parent writes a later date (`DatedThere`) of a feature that is there
(`AliveThere`), and a check-in that carries an older deletion is the exception `backdated`.
`Vanished` is also why a
check-in never inserts again what nobody inserted in the child (`InsertsInserted`).

Only model-checked: the liveness properties, which need `ENABLED`, and with them the
liveness part of the two refinements.

## Not modelled

Of the modelled parts: registration and renewal of a message queue, which belong to
the client library; metadata, defaults and validation of a published map, whose outcome
is a choice; metadata that is stored in the map file itself, which wins over that of the
dialog when the map is loaded; the folder tree of the catalog and folder settings, which repeat what
a service does; log output; the content of maps and settings.  Requests cancelled by
their client do not leave the queue in the code, so there is no such action.

Of the manage page: the lists of services and users, the error log, the dialogs of
folders, which repeat those of services, and the layout.  Of replication: `Checkout`,
which copies a feature class before anyone else knows of it, `SolveConflict` and the
conflict dialogs, children of children, and what differs between the databases.
The order of replication rows by `DIFF_DATUM` is modelled, clocks of two machines that
disagree are not.

`max-queue-length` has no effect in the code, and a newcomer may overtake who waits in
the queue; no document promises otherwise than the first's name, so no property speaks
of them.

The JavaScript libraries in `wwwroot` and in the Razor packages (Monaco, Leaflet, proj4,
jQuery, Bootstrap, bootbox) are third-party code shipped with the program, most of it
minified: they are nearly all of the repository's JavaScript, have no state of the
system and are not modelled.

## Plan

Done, in this order: `FuzzyMutex` with `KeyedLock`, `TaskQueue` with
`BoundedExecutor`, `MapCache`, `Cluster`, `ServiceSettings`, `ManageDialogs` with
`AtomicEdits`, `Replication`, each with its proofs.  The order follows a request through
the server, from one instance to several, and out to the browser and to other programs.

Next:

1. `Replication`: `SolveConflict` and children of children; an abstract specification, two
   sets of features that a reconcile makes equal up to conflicts.
2. `Catalog`: the folder tree with its two locks; composed with `MapCache` in the
   place of its set of services.
3. `Rerender`: the debounce of map views on `KeyedLock`; the last change is drawn.
4. `TokenCache`: renewal by many callers.
5. `ShortestPath`: Dijkstra over the graph table as a recursive function, against all
   paths of small graphs.
6. Proofs: what a cluster's instances may still answer with while messages are under way.
