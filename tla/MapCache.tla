------------------------------ MODULE MapCache -------------------------------
(***************************************************************************)
(* The maps a gView.Server instance keeps in memory, and everybody who     *)
(* changes them: map requests (MapServerInstance.Map, FindMap), publishing,*)
(* removing and reloading (MapServiceDeploymentManager), preloading        *)
(* (PreloadServicesHostedService) and the manage pages (ManageController). *)
(* They share the bag of maps of ServerMapDocument, the services catalog   *)
(* and the .mxl files; only FindMap takes the keyed mutex.                 *)
(*                                                                         *)
(* A thread carries out one operation on one service.  What a map contains *)
(* is the number of the .mxl version it was loaded from.                   *)
(*                                                                         *)
(* Files are open for a while.  Where the platform locks them, who comes   *)
(* later fails; where it does not, a reader meets half a file and two      *)
(* writers may leave one that nobody can read.  Both are in the model.     *)
(***************************************************************************)
EXTENDS Integers, FiniteSets

CONSTANTS Threads, Services,
          Ops,            \* the operations threads may start
          Failures        \* what may go wrong, a subset of AllFailures

AllOps == {"map", "publish", "reload", "remove", "preload", "refresh", "start", "stop"}
AllFailures == {"load", "save", "delete", "warnings", "timeout"}

ASSUME ServicesAssumption == Services # {}
ASSUME OpsAssumption == Ops \subseteq AllOps /\ Failures \subseteq AllFailures

VARIABLES file,       \* version of each service's .mxl, or NoFile, or Partial
          saves,      \* versions written so far
          bag,        \* ServerMapDocument._maps
          catalog,    \* the services of MapServiceManager.MapServices
          stopped,    \* services whose settings say Stopped
          due,        \* services with RefreshService > _lastServiceRefresh
          mutex,      \* FuzzyMutexAsync, keyed by service
          pc, op, svc,    \* where a thread is, its operation and service
          snap,       \* in RemoveMap the map it found, then the bag to assign
          left,       \* the services it is about to assign
          got,        \* the version it reads or has read
          answer,     \* what it returned
          met         \* history: threads whose load met a file being saved

server == <<file, saves, bag, catalog, stopped, due, mutex>>
thread == <<pc, op, svc, snap, left, got, answer, met>>
vars == <<server, thread>>

NoFile == 0
Partial == -1

(* An answer is the version of the map that was returned, or ...           *)
Null == 0
Error == -1
Pending == -2

(* A map object: loaded by one thread, once.                               *)
Map(s, v, t) == [service |-> s, version |-> v, by |-> t]
MapsOf(s) == {m \in bag : m.service = s}

Init == /\ file = [s \in Services |-> 1]
        /\ saves = [s \in Services |-> 1]
        /\ bag = {}
        /\ catalog = Services
        /\ stopped = {}
        /\ due = Services
        /\ mutex = [s \in Services |-> {}]
        /\ pc = [t \in Threads |-> "idle"]
        /\ op = [t \in Threads |-> "none"]
        /\ svc = [t \in Threads |-> CHOOSE s \in Services : TRUE]   \* until Begin
        /\ snap = [t \in Threads |-> {}]
        /\ left = [t \in Threads |-> {}]
        /\ got = [t \in Threads |-> 0]
        /\ answer = [t \in Threads |-> Pending]
        /\ met = {}

Lock == INSTANCE KeyedLock WITH Clients <- Threads, Keys <- Services, owners <- mutex

------------------------------------------------------------------------------
At(t, label) == pc[t] = label

Goto(t, label) == /\ pc' = [pc EXCEPT ![t] = label]
                  /\ UNCHANGED <<op, svc, snap, left, got, answer, met>>

Return(t, value) == /\ pc' = [pc EXCEPT ![t] = "done"]
                    /\ answer' = [answer EXCEPT ![t] = value]
                    /\ UNCHANGED <<op, svc, snap, left, got, met>>

(* The first step of an operation.                                         *)
FirstStep(o) == CASE o = "map"     -> "service"
                  [] o = "publish" -> "register"
                  [] o = "remove"  -> "unregister"
                  [] o = "preload" -> "load"
                  [] o = "start"   -> "status"
                  [] o = "stop"    -> "status"
                  [] OTHER         -> "remove"       \* reload, refresh

(* The manage pages only know the services of the catalog.                 *)
Begin(t, o, s) ==
  /\ At(t, "idle")
  /\ op' = [op EXCEPT ![t] = o]
  /\ svc' = [svc EXCEPT ![t] = s]
  /\ IF o \in {"refresh", "start", "stop"} /\ s \notin catalog
     THEN /\ pc' = [pc EXCEPT ![t] = "done"]
          /\ answer' = [answer EXCEPT ![t] = Error]
     ELSE /\ pc' = [pc EXCEPT ![t] = FirstStep(o)]
          /\ UNCHANGED answer
  /\ UNCHANGED <<server, snap, left, got, met>>

------------------------------------------------------------------------------
(* MapServerInstance.Map: look the service up, or find its file.           *)
KnownService(t) == /\ At(t, "service")
                   /\ svc[t] \in catalog \/ file[svc[t]] # NoFile
                   /\ catalog' = catalog \cup {svc[t]}
                   /\ due' = IF svc[t] \in catalog THEN due ELSE due \cup {svc[t]}
                   /\ IF svc[t] \in stopped THEN Return(t, Error) ELSE Goto(t, "required")
                   /\ UNCHANGED <<file, saves, bag, stopped, mutex>>

UnknownService(t) == /\ At(t, "service")
                     /\ svc[t] \notin catalog
                     /\ file[svc[t]] = NoFile
                     /\ Return(t, Error)
                     /\ UNCHANGED server

RefreshRequired(t) ==
  /\ At(t, "required")
  /\ Goto(t, IF svc[t] \in due /\ svc[t] \notin stopped THEN "remove" ELSE "find")
  /\ UNCHANGED server

(* FindMap: any map of that name will do; a ConcurrentBag has no order.    *)
Find(t) == /\ At(t, "find")
           /\ IF MapsOf(svc[t]) = {}
              THEN Goto(t, "lock")
              ELSE \E m \in MapsOf(svc[t]) : Return(t, m.version)
           /\ UNCHANGED server

(* Mistakes to mutate with: going on without the mutex, ...                *)
LockNothing(t) == /\ At(t, "lock")
                  /\ Goto(t, "recheck")
                  /\ UNCHANGED server

LockAsync(t) == /\ At(t, "lock")
                /\ Lock!Acquire(t, svc[t])
                /\ Goto(t, "recheck")
                /\ UNCHANGED <<file, saves, bag, catalog, stopped, due>>

LockTimeout(t) == /\ At(t, "lock")
                  /\ "timeout" \in Failures
                  /\ mutex[svc[t]] # {}
                  /\ Return(t, Error)
                  /\ UNCHANGED server

(* "try again, already loaded?"                                            *)
TryAgain(t) == /\ At(t, "recheck")
               /\ IF MapsOf(svc[t]) = {}
                  THEN Goto(t, "load")
                  ELSE \E m \in MapsOf(svc[t]) :
                         /\ pc' = [pc EXCEPT ![t] = "unlock"]
                         /\ got' = [got EXCEPT ![t] = m.version]
                         /\ UNCHANGED <<op, svc, snap, left, answer, met>>
               /\ UNCHANGED server

(* ... answering with what is in memory now instead of the map at hand, ... *)
DisposeAndFind(t) == /\ At(t, "unlock")
                     /\ Lock!Release(t, svc[t])
                     /\ IF MapsOf(svc[t]) = {}
                        THEN Return(t, Null)
                        ELSE \E m \in MapsOf(svc[t]) : Return(t, m.version)
                     /\ UNCHANGED <<file, saves, bag, catalog, stopped, due>>

Dispose(t) == /\ At(t, "unlock")
              /\ Lock!Release(t, svc[t])
              /\ Return(t, got[t])
              /\ UNCHANGED <<file, saves, bag, catalog, stopped, due>>

------------------------------------------------------------------------------
(* ... forgetting the mutex after a load, ...                              *)
LoadedUndisposed(t) == "loaded"

(* MapServiceDeploymentManager.LoadMap, for whoever calls it.              *)
Loaded(t) == IF t \in mutex[svc[t]] THEN "unlock" ELSE "loaded"

OpenFile(t) == /\ At(t, "load")
               /\ file[svc[t]] # NoFile
               /\ pc' = [pc EXCEPT ![t] = "read"]
               /\ got' = [got EXCEPT ![t] = file[svc[t]]]
               /\ UNCHANGED <<server, op, svc, snap, left, answer, met>>

(* ... going on with a stream that could not be read, ...                  *)
ReadAnyStream(t) == /\ At(t, "read")
                    /\ got' = [got EXCEPT ![t] = file[svc[t]]]
                    /\ pc' = [pc EXCEPT ![t] = "add"]
                    /\ UNCHANGED <<server, op, svc, snap, left, answer, met>>

(* What was there when it was opened, or what is there now.                *)
ReadStream(t) == /\ At(t, "read")
                 /\ \E v \in {got[t], file[svc[t]]} :
                      /\ v \notin {NoFile, Partial}
                      /\ got' = [got EXCEPT ![t] = v]
                 /\ pc' = [pc EXCEPT ![t] = "add"]
                 /\ UNCHANGED <<server, op, svc, snap, left, answer, met>>

(* A save or a removal was or is under way: ReadStream is false.           *)
FileInUse(t) == got[t] = Partial \/ file[svc[t]] # got[t]

ReadFails(t) == /\ At(t, "read")
                /\ FileInUse(t) \/ "load" \in Failures
                /\ pc' = [pc EXCEPT ![t] = Loaded(t)]
                /\ got' = [got EXCEPT ![t] = Null]
                /\ met' = IF FileInUse(t) THEN met \cup {t} ELSE met
                /\ UNCHANGED <<server, op, svc, snap, left, answer>>

(* No file, a critical error in the map or an exception: LoadMap is null.  *)
LoadFails(t) == /\ At(t, "load")
                /\ file[svc[t]] = NoFile \/ "load" \in Failures
                /\ Goto(t, Loaded(t))
                /\ UNCHANGED server

AddMap(t) == /\ At(t, "add")
             /\ bag' = bag \cup {Map(svc[t], got[t], t)}
             /\ Goto(t, "touch")
             /\ UNCHANGED <<file, saves, catalog, stopped, due, mutex>>

ServiceRefreshed(t) == /\ At(t, "touch")
                       /\ due' = due \ (catalog \cap {svc[t]})
                       /\ Goto(t, Loaded(t))
                       /\ UNCHANGED <<file, saves, bag, catalog, stopped, mutex>>

(* A load outside the mutex is the end of its operation.  An AddMap whose  *)
(* map has warnings throws them, after it has saved and reloaded.          *)
Finish(t) == /\ At(t, "loaded")
             /\ \/ Return(t, got[t])
                \/ op[t] = "publish" /\ "warnings" \in Failures /\ Return(t, Error)
             /\ UNCHANGED server

------------------------------------------------------------------------------
(* ServerMapDocument.RemoveMap(name) finds the first map of that name,     *)
(* copies the bag without it, and assigns the copy.                        *)
AfterRemove(o) == CASE o = "map"    -> "find"
                    [] o = "remove" -> "delete"
                    [] o = "stop"   -> "removed"
                    [] o = "refresh" -> "status"
                    [] OTHER        -> "load"        \* publish, reload

RemoveMap(t) == /\ At(t, "remove")
                /\ IF MapsOf(svc[t]) = {}
                   THEN Goto(t, AfterRemove(op[t]))
                   ELSE \E m \in MapsOf(svc[t]) :
                          /\ snap' = [snap EXCEPT ![t] = {m}]
                          /\ pc' = [pc EXCEPT ![t] = "copy"]
                          /\ UNCHANGED <<op, svc, left, got, answer, met>>
                /\ UNCHANGED server

(* The bag still held the map a moment ago, or holds it no more.           *)
CopyBag(t) == /\ At(t, "copy")
              /\ \/ /\ snap' = [snap EXCEPT ![t] = bag \ snap[t]]
                    /\ pc' = [pc EXCEPT ![t] = "assign"]
                 \/ /\ snap[t] \cap bag = {}
                    /\ snap' = [snap EXCEPT ![t] = {}]
                    /\ pc' = [pc EXCEPT ![t] = AfterRemove(op[t])]
              /\ UNCHANGED <<server, op, svc, left, got, answer, met>>

AssignBag(t) == /\ At(t, "assign")
                /\ bag' = snap[t]
                /\ snap' = [snap EXCEPT ![t] = {}]
                /\ pc' = [pc EXCEPT ![t] = AfterRemove(op[t])]
                /\ UNCHANGED <<file, saves, catalog, stopped, due, mutex>>
                /\ UNCHANGED <<op, svc, left, got, answer, met>>

------------------------------------------------------------------------------
(* AddMap: the map is validated before anything is changed, ...            *)
Reject(t) == /\ At(t, "register")
             /\ Return(t, Error)
             /\ UNCHANGED server

AddMapService(t) == /\ At(t, "register")
                    /\ catalog' = catalog \cup {svc[t]}
                    /\ due' = IF svc[t] \in catalog THEN due ELSE due \cup {svc[t]}
                    /\ Goto(t, "save")
                    /\ UNCHANGED <<file, saves, bag, stopped, mutex>>

(* The file is open by another reader or writer.                           *)
InUse(t) == \E u \in Threads \ {t} : pc[u] \in {"read", "write"} /\ svc[u] = svc[t]

(* SaveConfig: WriteStream truncates the file first.                       *)
Truncate(t) == /\ At(t, "save")
               /\ file' = [file EXCEPT ![svc[t]] = Partial]
               /\ Goto(t, "write")
               /\ UNCHANGED <<saves, bag, catalog, stopped, due, mutex>>

(* What is in the file when a writer closes it: nothing if it was deleted  *)
(* meanwhile, and nobody knows what if another one wrote it, too.          *)
Written(t) == IF file[svc[t]] = NoFile THEN {NoFile}
              ELSE {saves[svc[t]] + 1} \cup
                     (IF file[svc[t]] # Partial \/ \E u \in Threads \ {t} : At(u, "write") /\ svc[u] = svc[t]
                      THEN {Partial} ELSE {})

(* ... and a publish that reloads without removing the old map.            *)
SaveAndLoad(t) == /\ At(t, "write")
                  /\ saves' = [saves EXCEPT ![svc[t]] = @ + 1]
                  /\ \E v \in Written(t) : file' = [file EXCEPT ![svc[t]] = v]
                  /\ Goto(t, "load")
                  /\ UNCHANGED <<bag, catalog, stopped, due, mutex>>

SaveConfig(t) == /\ At(t, "write")
                 /\ saves' = [saves EXCEPT ![svc[t]] = @ + 1]
                 /\ \E v \in Written(t) : file' = [file EXCEPT ![svc[t]] = v]
                 /\ Goto(t, "remove")
                 /\ UNCHANGED <<bag, catalog, stopped, due, mutex>>

(* ... but SaveConfig logs its exceptions and goes on.                     *)
SaveFails(t) == /\ \/ At(t, "save") /\ (InUse(t) \/ "save" \in Failures)
                   \/ At(t, "write") /\ "save" \in Failures
                /\ Goto(t, "remove")
                /\ UNCHANGED server

------------------------------------------------------------------------------
(* RemoveMap of the deployment manager, around the one of the document.    *)
(* The bag of services is replaced by a copy, too.                         *)
Unregister(t) ==
  /\ At(t, "unregister")
  /\ left' = [left EXCEPT ![t] = catalog \ {svc[t]}]
  /\ pc' = [pc EXCEPT ![t] = IF svc[t] \in catalog THEN "unregistered" ELSE "remove"]
  /\ UNCHANGED <<server, op, svc, snap, got, answer, met>>

AssignServices(t) == /\ At(t, "unregistered")
                     /\ catalog' = left[t]
                     /\ Goto(t, "remove")
                     /\ UNCHANGED <<file, saves, bag, stopped, due, mutex>>

RemoveConfig(t) == /\ At(t, "delete")
                   /\ file' = [file EXCEPT ![svc[t]] = NoFile]
                   /\ Goto(t, "rescan")
                   /\ UNCHANGED <<saves, bag, catalog, stopped, due, mutex>>

(* RemoveConfig logs its exceptions, too, and nobody reads its false.      *)
DeleteFails(t) == /\ At(t, "delete")
                  /\ InUse(t) \/ "delete" \in Failures
                  /\ Goto(t, "rescan")
                  /\ UNCHANGED server

(* ReloadServices registers every .mxl that AddServices finds in the folder. *)
Found == {s \in Services : file[s] # NoFile}

ReloadServices(t) == /\ At(t, "rescan")
                     /\ catalog' = catalog \cup Found
                     /\ due' = due \cup (Found \ catalog)
                     /\ Return(t, Null)
                     /\ UNCHANGED <<file, saves, bag, stopped, mutex>>

------------------------------------------------------------------------------
(* ManageController.SetServiceStatus.  Start and refresh go on as a map    *)
(* request; the service is running by then.                                *)
GoOnAsRequest(t) == /\ due' = due \cup {svc[t]}
                    /\ stopped' = stopped \ {svc[t]}
                    /\ op' = [op EXCEPT ![t] = "map"]
                    /\ pc' = [pc EXCEPT ![t] = "service"]
                    /\ UNCHANGED <<file, saves, bag, catalog, mutex>>
                    /\ UNCHANGED <<svc, snap, left, got, answer, met>>

SetRunning(t) == /\ At(t, "status")
                 /\ \/ op[t] = "refresh"
                    \/ op[t] = "start" /\ (svc[t] \in stopped \/ MapsOf(svc[t]) = {})
                 /\ GoOnAsRequest(t)

AlreadyRunning(t) == /\ At(t, "status")
                     /\ op[t] = "start"
                     /\ svc[t] \notin stopped
                     /\ MapsOf(svc[t]) # {}
                     /\ Return(t, Null)
                     /\ UNCHANGED server

SetStopped(t) == /\ At(t, "status")
                 /\ op[t] = "stop"
                 /\ stopped' = stopped \cup {svc[t]}
                 /\ Goto(t, "remove")
                 /\ UNCHANGED <<file, saves, bag, catalog, due, mutex>>

Stopped(t) == /\ At(t, "removed")
              /\ Return(t, Null)
              /\ UNCHANGED server

------------------------------------------------------------------------------
Request(t) == \/ KnownService(t) \/ UnknownService(t) \/ RefreshRequired(t)
              \/ Find(t) \/ LockAsync(t) \/ TryAgain(t) \/ Dispose(t)

Load(t) == \/ OpenFile(t) \/ ReadStream(t) \/ ReadFails(t) \/ LoadFails(t)
           \/ AddMap(t) \/ ServiceRefreshed(t) \/ Finish(t)

Remove(t) == RemoveMap(t) \/ CopyBag(t) \/ AssignBag(t)

Deploy(t) == \/ Reject(t) \/ AddMapService(t) \/ Truncate(t) \/ SaveConfig(t) \/ SaveFails(t)
             \/ Unregister(t) \/ AssignServices(t) \/ RemoveConfig(t) \/ DeleteFails(t)
             \/ ReloadServices(t)

Manage(t) == SetRunning(t) \/ AlreadyRunning(t) \/ SetStopped(t) \/ Stopped(t)

Step(t) == Request(t) \/ Load(t) \/ Remove(t) \/ Deploy(t) \/ Manage(t)

Next == \E t \in Threads :
          Step(t) \/ LockTimeout(t) \/ \E o \in Ops, s \in Services : Begin(t, o, s)

Spec == Init /\ [][Next]_vars

(* A started operation goes on; threads need not start, and a request for  *)
(* the mutex need not time out.                                            *)
LiveSpec == Spec /\ \A t \in Threads : WF_vars(Step(t))

------------------------------------------------------------------------------
(* Every variable stays in its range: in particular, no map in memory was  *)
(* loaded from a file that is not there or half written.                   *)
Labels == {"idle", "service", "required", "find", "lock", "recheck", "unlock",
           "load", "read", "add", "touch", "loaded", "remove", "copy", "assign",
           "register", "save", "write", "unregister", "unregistered", "delete",
           "rescan", "status", "removed", "done"}

Versions == Nat \ {0}
Maps == [service : Services, version : Versions, by : Threads]

TypeOK == /\ file \in [Services -> Nat \cup {Partial}]
          /\ saves \in [Services -> Versions]
          /\ bag \subseteq Maps
          /\ catalog \subseteq Services
          /\ stopped \subseteq Services
          /\ due \subseteq Services
          /\ mutex \in [Services -> SUBSET Threads]
          /\ pc \in [Threads -> Labels]
          /\ op \in [Threads -> AllOps \cup {"none"}]
          /\ svc \in [Threads -> Services]
          /\ snap \in [Threads -> SUBSET Maps]
          /\ left \in [Threads -> SUBSET Services]
          /\ got \in [Threads -> Nat \cup {Partial}]
          /\ answer \in [Threads -> Nat \cup {Error, Pending}]
          /\ met \subseteq Threads

(* Requests for a service that is there, running and loadable get a map,   *)
(* however it is removed, reloaded and replaced in memory meanwhile; only  *)
(* a request whose own load met the file while a publish was writing it,   *)
(* or what two publishes at once have left of it, is answered with none.   *)
AlwaysAMap == \A t \in Threads :
  At(t, "done") /\ op[t] = "map" /\ t \notin met => answer[t] > 0

(* The loads of FindMap for one service never overlap.                     *)
Loading(t) == pc[t] \in {"recheck", "load", "read", "add", "touch", "unlock"} /\ op[t] = "map"
LoadsExclusive == \A t, u \in Threads :
  Loading(t) /\ Loading(u) /\ svc[t] = svc[u] => t = u

(* Nobody is at work, so what is in memory is what will be served.         *)
Quiet == \A t \in Threads : pc[t] \in {"idle", "done"}
Fresh == \A m \in bag : m.version = file[m.service]

(* Two threads inside LoadMap, RemoveMap or SaveConfig of one service, or  *)
(* a removal of any service between copying and assigning the bag while    *)
(* another thread adds a map or assigns a bag of its own.                  *)
Busy(t) == pc[t] \in {"save", "write", "remove", "copy", "assign", "delete",
                      "load", "read", "add", "touch"}
Overlap == \E t, u \in Threads :
  /\ t # u
  /\ \/ Busy(t) /\ Busy(u) /\ svc[t] = svc[u]
     \/ At(t, "assign") /\ pc[u] \in {"assign", "add"}

(* It is the overlap alone that makes it stale: as long as no load, save   *)
(* or removal of a service overlaps another of it, memory and disk agree   *)
(* whenever all is quiet, however those of other services interleave.      *)
FreshWithoutOverlap == [](~Overlap) => [](Quiet => Fresh)

(* Every started operation returns, and not only because waiting for the   *)
(* mutex may time out: the mutex is always given back.                     *)
OperationsReturn == \A t \in Threads : ~At(t, "idle") ~> At(t, "done")
==============================================================================
