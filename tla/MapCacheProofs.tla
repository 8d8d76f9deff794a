---------------------------- MODULE MapCacheProofs ---------------------------
(***************************************************************************)
(* Theorems about the map cache, for any threads, services, operations and *)
(* failures.                                                               *)
(***************************************************************************)
EXTENDS MapCache, TLAPS

(* The operations each label belongs to, as far as the proofs need it.     *)
OpAt(t) == /\ pc[t] \in {"service", "required", "find", "lock", "recheck", "unlock"} => op[t] = "map"
           /\ pc[t] \in {"status", "loaded", "register", "save", "write", "unregister",
                         "unregistered", "delete", "rescan", "removed"} => op[t] # "map"
           /\ pc[t] \in {"unregister", "unregistered", "delete", "rescan"} => op[t] = "remove"
           /\ pc[t] = "removed" => op[t] = "stop"
           /\ pc[t] \in {"register", "save", "write"} => op[t] = "publish"
           /\ pc[t] = "status" => op[t] \in {"refresh", "start", "stop"}
           /\ pc[t] \in {"remove", "copy", "assign"} => op[t] \notin {"none", "start", "preload"}

(* What is added to memory was read from a file that was there and whole.  *)
GotAt(t) == /\ pc[t] = "add" => got[t] \in Versions
            /\ pc[t] # "read" => got[t] \in Nat

ThreadInv == \A t \in Threads : OpAt(t) /\ GotAt(t)

(* The mutex of a service is held by the one thread that is between        *)
(* LockAsync and Dispose for it.                                           *)
MutexInv == /\ \A s \in Services : \A t \in mutex[s] : Loading(t) /\ svc[t] = s
            /\ \A t \in Threads : Loading(t) => t \in mutex[svc[t]]
            /\ \A s \in Services : \A t, u \in mutex[s] : t = u

IInv == TypeOK /\ ThreadInv /\ MutexInv

LEMMA InvInit == Init => IInv
<1> SUFFICES ASSUME Init PROVE IInv
  OBVIOUS
<1>1. TypeOK
  BY ServicesAssumption DEF Init, TypeOK, Labels, Pending, Error, Versions
<1>2. ThreadInv
  BY DEF Init, ThreadInv, OpAt, GotAt
<1>3. MutexInv
  BY DEF Init, MutexInv, Loading
<1> QED
  BY <1>1, <1>2, <1>3 DEF IInv

StepOf(t) == Step(t) \/ LockTimeout(t) \/ \E o \in Ops, s \in Services : Begin(t, o, s)

------------------------------------------------------------------------------
(* Types.  Versions only come from files, from maps in memory and from     *)
(* copies of the two.                                                      *)
LEMMA TypeStep ==
  ASSUME TypeOK, ThreadInv, NEW t \in Threads, StepOf(t)
  PROVE  TypeOK'
<1> USE DEF TypeOK, At, Goto, Return, server, Labels, Error, Pending, Null, NoFile, Partial, Versions
<1>1. CASE \E o \in Ops, s \in Services : Begin(t, o, s)
  BY <1>1, OpsAssumption DEF Begin, FirstStep, AllOps
<1>2. CASE Request(t) \/ LockTimeout(t)
  <2>1. CASE KnownService(t) \/ UnknownService(t) \/ RefreshRequired(t) \/ LockTimeout(t)
    BY <2>1 DEF KnownService, UnknownService, RefreshRequired, LockTimeout
  <2>2. CASE Find(t)
    BY <2>2 DEF Find, MapsOf, Maps
  <2>3. CASE LockAsync(t)
    BY <2>3 DEF LockAsync, Lock!Acquire
  <2>4. CASE TryAgain(t)
    BY <2>4 DEF TryAgain, MapsOf, Maps
  <2>5. CASE Dispose(t)
    BY <2>5 DEF Dispose, Lock!Release, ThreadInv, GotAt
  <2> QED
    BY <1>2, <2>1, <2>2, <2>3, <2>4, <2>5 DEF Request
<1>3. CASE Load(t)
  <2>1. CASE OpenFile(t) \/ ReadStream(t)
    BY <2>1 DEF OpenFile, ReadStream
  <2>2. CASE ReadFails(t) \/ LoadFails(t) \/ ServiceRefreshed(t) \/ Finish(t)
    BY <2>2 DEF ReadFails, LoadFails, ServiceRefreshed, Finish, Loaded, ThreadInv, GotAt
  <2>3. CASE AddMap(t)
    <3>1. Map(svc[t], got[t], t) \in Maps
      BY <2>3 DEF AddMap, ThreadInv, GotAt, Map, Maps
    <3> QED
      BY <2>3, <3>1 DEF AddMap
  <2> QED
    BY <1>3, <2>1, <2>2, <2>3 DEF Load
<1>4. CASE Remove(t)
  <2>1. CASE RemoveMap(t)
    BY <2>1 DEF RemoveMap, MapsOf, AfterRemove
  <2>2. CASE CopyBag(t) \/ AssignBag(t)
    BY <2>2 DEF CopyBag, AssignBag, AfterRemove
  <2> QED
    BY <1>4, <2>1, <2>2 DEF Remove
<1>5. CASE Deploy(t)
  <2>1. CASE Truncate(t) \/ SaveConfig(t)
    BY <2>1 DEF Truncate, SaveConfig, Written
  <2>2. CASE Reject(t) \/ AddMapService(t) \/ SaveFails(t) \/ Unregister(t) \/ AssignServices(t)
             \/ RemoveConfig(t) \/ DeleteFails(t) \/ ReloadServices(t)
    BY <2>2 DEF Reject, AddMapService, SaveFails, Unregister, AssignServices,
                RemoveConfig, DeleteFails, ReloadServices, Found
  <2> QED
    BY <1>5, <2>1, <2>2 DEF Deploy
<1>6. CASE Manage(t)
  BY <1>6 DEF Manage, SetRunning, GoOnAsRequest, AlreadyRunning, SetStopped, Stopped, AllOps
<1> QED
  BY <1>1, <1>2, <1>3, <1>4, <1>5, <1>6 DEF StepOf, Step

------------------------------------------------------------------------------
(* Where each operation can be.  A step of one thread moves no other.      *)
LEMMA OthersStay ==
  ASSUME TypeOK, NEW t \in Threads, StepOf(t), NEW u \in Threads, u # t
  PROVE  pc'[u] = pc[u] /\ op'[u] = op[u] /\ svc'[u] = svc[u] /\ got'[u] = got[u]
<1> USE DEF TypeOK, Goto, Return, server
<1>1. CASE \E o \in Ops, s \in Services : Begin(t, o, s)
  BY <1>1 DEF Begin
<1>2. CASE Request(t) \/ LockTimeout(t)
  BY <1>2 DEF Request, KnownService, UnknownService, RefreshRequired, Find, LockAsync,
              LockTimeout, TryAgain, Dispose
<1>3. CASE Load(t) \/ Remove(t)
  BY <1>3 DEF Load, OpenFile, ReadStream, ReadFails, LoadFails, AddMap, ServiceRefreshed, Finish, Remove, RemoveMap, CopyBag, AssignBag
<1>4. CASE Deploy(t)
  BY <1>4 DEF Deploy, Reject, AddMapService, Truncate, SaveConfig, SaveFails,
              Unregister, AssignServices, RemoveConfig, DeleteFails, ReloadServices
<1>5. CASE Manage(t)
  BY <1>5 DEF Manage, SetRunning, GoOnAsRequest, AlreadyRunning, SetStopped, Stopped
<1> QED
  BY <1>1, <1>2, <1>3, <1>4, <1>5 DEF StepOf, Step

LEMMA ThreadStep ==
  ASSUME IInv, NEW t \in Threads, StepOf(t)
  PROVE  ThreadInv'
<1> USE DEF IInv, TypeOK, At, Goto, Return, server, ThreadInv, OpAt, GotAt
<1>1. OpAt(t)' /\ GotAt(t)'
  <2>1. CASE \E o \in Ops, s \in Services : Begin(t, o, s)
    BY <2>1, OpsAssumption DEF Begin, FirstStep, AllOps
  <2>2. CASE Request(t) \/ LockTimeout(t)
    BY <2>2 DEF Request, KnownService, UnknownService, RefreshRequired, Find, LockAsync,
                LockTimeout, TryAgain, Dispose, MapsOf, Maps, Versions
  <2>3. CASE Load(t)
    <3>1. CASE OpenFile(t) \/ ReadStream(t)
      BY <3>1 DEF OpenFile, ReadStream, Versions, NoFile, Partial
    <3>2. CASE ReadFails(t)
      BY <3>2 DEF ReadFails, Loaded, MutexInv, Loading, Null
    <3>3. CASE LoadFails(t) \/ AddMap(t) \/ ServiceRefreshed(t) \/ Finish(t)
      BY <3>3 DEF LoadFails, AddMap, ServiceRefreshed, Finish, Loaded, MutexInv, Loading
    <3> QED
      BY <2>3, <3>1, <3>2, <3>3 DEF Load
  <2>4. CASE Remove(t)
    BY <2>4 DEF Remove, RemoveMap, CopyBag, AssignBag, AfterRemove, AllOps
  <2>5. CASE Deploy(t)
    BY <2>5 DEF Deploy, Reject, AddMapService, Truncate, SaveConfig, SaveFails,
              Unregister, AssignServices, RemoveConfig, DeleteFails, ReloadServices
  <2>6. CASE Manage(t)
    BY <2>6 DEF Manage, SetRunning, GoOnAsRequest, AlreadyRunning, SetStopped, Stopped
  <2> QED
    BY <2>1, <2>2, <2>3, <2>4, <2>5, <2>6 DEF StepOf, Step
<1>2. ASSUME NEW u \in Threads, u # t PROVE OpAt(u)' /\ GotAt(u)'
  BY <1>2, OthersStay
<1> QED
  BY <1>1, <1>2

------------------------------------------------------------------------------
(* The mutex.  Only LockAsync and Dispose touch it; every other step keeps *)
(* its thread inside, or outside, of the section they delimit.             *)
LEMMA MutexStep ==
  ASSUME IInv, NEW t \in Threads, StepOf(t)
  PROVE  MutexInv'
<1> USE DEF IInv, TypeOK, At, Goto, Return, Loading, MutexInv
<1>1. CASE LockAsync(t)
  <2>1. mutex[svc[t]] = {} /\ mutex' = [mutex EXCEPT ![svc[t]] = {t}]
    BY <1>1 DEF LockAsync, Lock!Acquire
  <2>2. op[t] = "map" /\ ~Loading(t) /\ Loading(t)' /\ svc' = svc
    BY <1>1 DEF LockAsync, ThreadInv, OpAt
  <2>3. \A u \in Threads \ {t} : Loading(u)' <=> Loading(u)
    BY <1>1 DEF LockAsync
  <2> QED
    BY <2>1, <2>2, <2>3
<1>2. CASE Dispose(t)
  <2>1. mutex[svc[t]] = {t} /\ mutex' = [mutex EXCEPT ![svc[t]] = {}]
    <3>1. t \in mutex[svc[t]] /\ mutex' = [mutex EXCEPT ![svc[t]] = @ \ {t}]
      BY <1>2 DEF Dispose, Lock!Release
    <3>2. mutex[svc[t]] = {t}
      BY <3>1
    <3>3. mutex[svc[t]] \ {t} = {}
      BY <3>2
    <3> QED
      BY <3>1, <3>2, <3>3
  <2>2. ~Loading(t)' /\ svc' = svc
    BY <1>2 DEF Dispose
  <2>3. \A u \in Threads \ {t} : Loading(u)' <=> Loading(u)
    BY <1>2 DEF Dispose
  <2> QED
    BY <2>1, <2>2, <2>3
<1>3. ASSUME mutex' = mutex, Loading(t)' <=> Loading(t), Loading(t) => svc'[t] = svc[t]
      PROVE  MutexInv'
  <2>1. \A u \in Threads : (Loading(u)' <=> Loading(u)) /\ (Loading(u) => svc'[u] = svc[u])
    BY <1>3, OthersStay
  <2>2. MutexInv /\ mutex' = mutex /\ mutex \in [Services -> SUBSET Threads] /\ svc \in [Threads -> Services]
    BY <1>3
  <2> QED
    BY <2>1, <2>2
<1>4. CASE \E o \in Ops, s \in Services : Begin(t, o, s)
  BY <1>3, <1>4, OpsAssumption DEF Begin, FirstStep, AllOps, server
<1>5. CASE \/ KnownService(t) \/ UnknownService(t) \/ RefreshRequired(t)
           \/ Find(t) \/ LockTimeout(t) \/ TryAgain(t)
  BY <1>3, <1>5 DEF KnownService, UnknownService, RefreshRequired, Find, LockTimeout,
                    TryAgain, server, ThreadInv, OpAt
<1>6. CASE Load(t)
  BY <1>3, <1>6 DEF Load, OpenFile, ReadStream, ReadFails, LoadFails, AddMap, ServiceRefreshed, Finish, Loaded, server
<1>7. CASE Remove(t)
  BY <1>3, <1>7 DEF Remove, RemoveMap, CopyBag, AssignBag, AfterRemove, server
<1>8. CASE Deploy(t)
  BY <1>3, <1>8 DEF Deploy, Reject, AddMapService, Truncate, SaveConfig, SaveFails, Unregister,
                    AssignServices, RemoveConfig, DeleteFails, ReloadServices, server
<1>9. CASE Manage(t)
  BY <1>3, <1>9 DEF Manage, SetRunning, GoOnAsRequest, AlreadyRunning, SetStopped, Stopped, server
<1> QED
  BY <1>1, <1>2, <1>4, <1>5, <1>6, <1>7, <1>8, <1>9 DEF StepOf, Step, Request

LEMMA InvStep == IInv /\ [Next]_vars => IInv'
<1> SUFFICES ASSUME IInv, [Next]_vars PROVE IInv'
  OBVIOUS
<1>1. ASSUME NEW t \in Threads, StepOf(t) PROVE IInv'
  BY <1>1, TypeStep, ThreadStep, MutexStep DEF IInv
<1>2. CASE UNCHANGED vars
  BY <1>2 DEF vars, server, thread, IInv, TypeOK, ThreadInv, OpAt, GotAt, MutexInv, Loading
<1> QED
  BY <1>1, <1>2 DEF Next, StepOf

LEMMA Inductive == Spec => []IInv
BY InvInit, InvStep, PTL DEF Spec

(* The map cache's variables stay in their ranges: no map in memory was    *)
(* loaded from a file that is not there.                                   *)
THEOREM Typing == Spec => []TypeOK
<1>1. IInv => TypeOK
  BY DEF IInv
<1> QED
  BY <1>1, Inductive, PTL

(* FindMap never loads a service twice at the same time.                   *)
THEOREM OneLoaderPerService == Spec => []LoadsExclusive
<1>1. IInv => LoadsExclusive
  BY DEF IInv, MutexInv, LoadsExclusive, TypeOK
<1> QED
  BY <1>1, Inductive, PTL
------------------------------------------------------------------------------
(* When nothing fails from outside and nobody stops or removes a service,  *)
(* requests are answered with a map, but for those that meet a save.       *)
Gentle == Failures = {} /\ Ops \cap {"remove", "stop"} = {}

AnswerInv == /\ \A s \in Services : file[s] # NoFile
             /\ stopped = {}
             /\ \A t \in Threads : op[t] \in Ops \cup {"none", "map"}
             /\ \A t \in Threads : pc[t] \in {"unlock", "add", "touch"} /\ op[t] = "map"
                                  => t \in met \/ got[t] # Null
             /\ AlwaysAMap

LEMMA AnswerStep ==
  ASSUME Gentle, IInv, AnswerInv, NEW t \in Threads, StepOf(t)
  PROVE  AnswerInv'
<1> USE DEF Gentle, IInv, TypeOK, AnswerInv, AlwaysAMap, At, Goto, Return, server, ThreadInv, OpAt, GotAt,
            Versions, NoFile, Partial, Null
<1>1. CASE \E o \in Ops, s \in Services : Begin(t, o, s)
  BY <1>1, OpsAssumption DEF Begin, FirstStep, AllOps
<1>2. CASE Request(t) \/ LockTimeout(t)
  <2>1. CASE KnownService(t) \/ UnknownService(t) \/ RefreshRequired(t) \/ LockTimeout(t)
    BY <2>1 DEF KnownService, UnknownService, RefreshRequired, LockTimeout
  <2>2. CASE Find(t)
    BY <2>2 DEF Find, MapsOf, Maps
  <2>3. CASE LockAsync(t) \/ Dispose(t)
    BY <2>3 DEF LockAsync, Dispose
  <2>4. CASE TryAgain(t)
    BY <2>4 DEF TryAgain, MapsOf, Maps
  <2> QED
    BY <1>2, <2>1, <2>2, <2>3, <2>4 DEF Request
<1>3. CASE Load(t)
  <2>1. CASE OpenFile(t) \/ ReadStream(t)
    BY <2>1 DEF OpenFile, ReadStream
  <2>2. CASE ReadFails(t)
    BY <2>2 DEF ReadFails, Loaded
  <2>3. CASE LoadFails(t) \/ AddMap(t) \/ ServiceRefreshed(t) \/ Finish(t)
    BY <2>3 DEF LoadFails, AddMap, ServiceRefreshed, Finish, Loaded
  <2> QED
    BY <1>3, <2>1, <2>2, <2>3 DEF Load
<1>4. CASE Remove(t)
  BY <1>4 DEF Remove, RemoveMap, CopyBag, AssignBag, AfterRemove
<1>5. CASE Deploy(t)
  <2>1. CASE Truncate(t) \/ SaveConfig(t)
    BY <2>1 DEF Truncate, SaveConfig, Written
  <2>2. CASE Reject(t) \/ AddMapService(t) \/ SaveFails(t)
    BY <2>2 DEF Reject, AddMapService, SaveFails
  <2>3. CASE \/ Unregister(t) \/ AssignServices(t) \/ RemoveConfig(t)
             \/ DeleteFails(t) \/ ReloadServices(t)
    BY <2>3 DEF Unregister, AssignServices, RemoveConfig, DeleteFails, ReloadServices
  <2> QED
    BY <1>5, <2>1, <2>2, <2>3 DEF Deploy
<1>6. CASE Manage(t)
  BY <1>6 DEF Manage, SetRunning, GoOnAsRequest, AlreadyRunning, SetStopped, Stopped
<1> QED
  BY <1>1, <1>2, <1>3, <1>4, <1>5, <1>6 DEF StepOf, Step

(* However services are published, reloaded, refreshed and preloaded       *)
(* around it, a map request is answered with a map, if nothing fails from  *)
(* outside and no service is stopped or removed, and if its own load has   *)
(* not met the file while, or as, another thread wrote it.                 *)
THEOREM RequestsAnswered == ASSUME Gentle PROVE Spec => []AlwaysAMap
<1>1. Init => AnswerInv
  BY DEF Init, AnswerInv, AlwaysAMap, At, NoFile
<1>2. IInv /\ AnswerInv /\ [Next]_vars => AnswerInv'
  <2> SUFFICES ASSUME IInv, AnswerInv, [Next]_vars PROVE AnswerInv'
    OBVIOUS
  <2>1. ASSUME NEW t \in Threads, StepOf(t) PROVE AnswerInv'
    BY <2>1, AnswerStep
  <2>2. CASE UNCHANGED vars
    BY <2>2 DEF vars, server, thread, AnswerInv, AlwaysAMap, At
  <2> QED
    BY <2>1, <2>2 DEF Next, StepOf
<1>3. AnswerInv => AlwaysAMap
  BY DEF AnswerInv
<1> QED
  BY <1>1, <1>2, <1>3, Inductive, PTL DEF Spec

------------------------------------------------------------------------------
(* Staleness.  As long as those who load, save and remove a service come   *)
(* one after another there is at most one map of it, and it may differ     *)
(* from the file only while somebody is on the way to take it out.         *)
Removing(t) == pc[t] \in {"write", "remove", "copy", "assign"}

FreshOrRemoved ==
  \A m \in bag : \/ m.version = file[m.service]
                 \/ \E t \in Threads : Removing(t) /\ svc[t] = m.service
OneMap == \A m, n \in bag : m.service = n.service => m = n

(* Who loads, or deletes the file, found no map or has taken it out.       *)
AloneAt(t) ==
  /\ pc[t] \in {"load", "read", "add", "delete"} => MapsOf(svc[t]) = {}
  /\ pc[t] = "copy" => snap[t] = MapsOf(svc[t])
  /\ pc[t] = "assign" => snap[t] = {m \in bag : m.service # svc[t]}
  /\ pc[t] \in {"read", "add"} => got[t] = file[svc[t]]

FreshInv == FreshOrRemoved /\ OneMap /\ \A t \in Threads : AloneAt(t)

(* These steps change the files and the maps, and no other.                *)
Touches(t) == AddMap(t) \/ AssignBag(t) \/ Truncate(t) \/ SaveConfig(t) \/ RemoveConfig(t)

LEMMA TouchedOnlyThere ==
  ASSUME TypeOK, NEW t \in Threads, StepOf(t), ~Touches(t)
  PROVE  file' = file /\ bag' = bag
<1> USE DEF Touches, server, Goto, Return
<1>1. CASE \E o \in Ops, s \in Services : Begin(t, o, s)
  BY <1>1 DEF Begin
<1>2. CASE Request(t) \/ LockTimeout(t)
  BY <1>2 DEF Request, KnownService, UnknownService, RefreshRequired, Find, LockAsync,
              LockTimeout, TryAgain, Dispose
<1>3. CASE Load(t) \/ Remove(t)
  BY <1>3 DEF Load, OpenFile, ReadStream, ReadFails, LoadFails, ServiceRefreshed, Finish,
              Remove, RemoveMap, CopyBag
<1>4. CASE Deploy(t)
  BY <1>4 DEF Deploy, Reject, AddMapService, SaveFails, Unregister, AssignServices,
              DeleteFails, ReloadServices
<1>5. CASE Manage(t)
  BY <1>5 DEF Manage, SetRunning, GoOnAsRequest, AlreadyRunning, SetStopped, Stopped
<1> QED
  BY <1>1, <1>2, <1>3, <1>4, <1>5 DEF StepOf, Step

LEMMA SnapsStay ==
  ASSUME TypeOK, NEW t \in Threads, StepOf(t), NEW u \in Threads, u # t
  PROVE  snap'[u] = snap[u]
<1> USE DEF TypeOK, Goto, Return, server
<1>1. CASE \E o \in Ops, s \in Services : Begin(t, o, s)
  BY <1>1 DEF Begin
<1>2. CASE Request(t) \/ LockTimeout(t)
  BY <1>2 DEF Request, KnownService, UnknownService, RefreshRequired, Find, LockAsync,
              LockTimeout, TryAgain, Dispose
<1>3. CASE Load(t) \/ Remove(t)
  BY <1>3 DEF Load, OpenFile, ReadStream, ReadFails, LoadFails, AddMap, ServiceRefreshed, Finish,
              Remove, RemoveMap, CopyBag, AssignBag
<1>4. CASE Deploy(t)
  BY <1>4 DEF Deploy, Reject, AddMapService, Truncate, SaveConfig, SaveFails,
              Unregister, AssignServices, RemoveConfig, DeleteFails, ReloadServices
<1>5. CASE Manage(t)
  BY <1>5 DEF Manage, SetRunning, GoOnAsRequest, AlreadyRunning, SetStopped, Stopped
<1> QED
  BY <1>1, <1>2, <1>3, <1>4, <1>5 DEF StepOf, Step

(* A save or a removal of the file changes nothing for the other services. *)
LEMMA FileStep ==
  ASSUME IInv, FreshInv, ~Overlap, ~Overlap', NEW t \in Threads, StepOf(t),
         bag' = bag, svc' = svc, snap' = snap, got' = got,
         \A s \in Services \ {svc[t]} : file'[s] = file[s],
         Busy(t), Removing(t)' \/ MapsOf(svc[t]) = {},
         pc'[t] \in {"write", "remove", "rescan"}
  PROVE  FreshInv'
<1> USE DEF IInv, TypeOK
<1>1. \A u \in Threads \ {t} : pc'[u] = pc[u] /\ (Busy(u) => svc[u] # svc[t])
  BY OthersStay DEF Overlap, Busy
<1>2. FreshOrRemoved'
  <2> SUFFICES ASSUME NEW m \in bag
               PROVE  \/ m.version = file'[m.service]
                      \/ \E u \in Threads : Removing(u)' /\ svc[u] = m.service
    BY DEF FreshOrRemoved, Removing
  <2>1. m.service \in Services
    BY DEF Maps
  <2>2. CASE m.service = svc[t]
    BY <2>2 DEF MapsOf
  <2>3. CASE m.service # svc[t]
    <3>1. file'[m.service] = file[m.service]
      BY <2>1, <2>3
    <3>2. \A u \in Threads : Removing(u) /\ svc[u] = m.service => Removing(u)'
      BY <1>1, <2>3 DEF Removing
    <3> QED
      BY <3>1, <3>2 DEF FreshInv, FreshOrRemoved
  <2> QED
    BY <2>2, <2>3
<1>3. \A u \in Threads \ {t} : AloneAt(u)'
  BY <1>1 DEF FreshInv, AloneAt, MapsOf, Busy
<1>4. AloneAt(t)'
  BY DEF AloneAt
<1> QED
  BY <1>2, <1>3, <1>4 DEF FreshInv, OneMap

(* Nobody but preloading loads without a look at the maps in memory.       *)
LEMMA FreshStep ==
  ASSUME "preload" \notin Ops, IInv, FreshInv, ~Overlap, ~Overlap', NEW t \in Threads, StepOf(t)
  PROVE  FreshInv'
<1> USE DEF IInv, TypeOK, At, Goto, Return, server
<1>1. Busy(t) => \A u \in Threads \ {t} : Busy(u) => svc[u] # svc[t]
  BY DEF Overlap
<1>2. \A u \in Threads \ {t} : /\ pc'[u] = pc[u] /\ svc'[u] = svc[u]
                              /\ snap'[u] = snap[u] /\ got'[u] = got[u]
  BY OthersStay, SnapsStay
<1>3. CASE AddMap(t)
  <2>1. /\ pc[t] = "add" /\ pc'[t] = "touch" /\ svc' = svc /\ file' = file
        /\ bag' = bag \cup {Map(svc[t], got[t], t)}
    BY <1>3 DEF AddMap
  <2>2. MapsOf(svc[t]) = {} /\ got[t] = file[svc[t]]
    BY <2>1 DEF FreshInv, AloneAt
  <2>3. OneMap'
    BY <2>1, <2>2 DEF FreshInv, OneMap, MapsOf, Map
  <2>4. \A u \in Threads : Removing(u) => Removing(u)'
    BY <1>2, <2>1 DEF Removing
  <2>5. FreshOrRemoved'
    BY <2>1, <2>2, <2>4 DEF FreshInv, FreshOrRemoved, Map
  <2>6. ASSUME NEW u \in Threads \ {t} PROVE AloneAt(u)'
    <3>1. pc[u] # "assign"
      BY <2>1 DEF Overlap
    <3>2. svc[u] # svc[t] => MapsOf(svc[u])' = MapsOf(svc[u])
      BY <1>2, <2>1 DEF MapsOf, Map
    <3> QED
      BY <1>1, <1>2, <2>1, <3>1, <3>2 DEF FreshInv, AloneAt, Busy
  <2>7. AloneAt(t)'
    BY <2>1 DEF AloneAt
  <2> QED
    BY <2>3, <2>5, <2>6, <2>7 DEF FreshInv
<1>4. CASE AssignBag(t)
  <2>1. /\ pc[t] = "assign" /\ pc'[t] \in {"find", "delete", "removed", "status", "load"}
        /\ svc' = svc /\ file' = file /\ bag' = snap[t] /\ got' = got
    BY <1>4 DEF AssignBag, AfterRemove
  <2>2. bag' = {m \in bag : m.service # svc[t]}
    BY <2>1 DEF FreshInv, AloneAt
  <2>3. \A u \in Threads \ {t} : Busy(u) => svc[u] # svc[t]
    BY <1>1, <2>1 DEF Busy
  <2>4. OneMap'
    BY <2>2 DEF FreshInv, OneMap
  <2>5. FreshOrRemoved'
    BY <1>2, <2>1, <2>2 DEF FreshInv, FreshOrRemoved, Removing
  <2>6. ASSUME NEW u \in Threads \ {t} PROVE AloneAt(u)'
    <3>1. pc[u] # "assign"
      BY <2>1 DEF Overlap
    <3>2. svc[u] # svc[t] => MapsOf(svc[u])' = MapsOf(svc[u])
      BY <1>2, <2>2 DEF MapsOf
    <3> QED
      BY <1>2, <2>1, <2>3, <3>1, <3>2 DEF FreshInv, AloneAt, Busy
  <2>7. AloneAt(t)'
    BY <2>1, <2>2 DEF AloneAt, MapsOf
  <2> QED
    BY <2>4, <2>5, <2>6, <2>7 DEF FreshInv
<1>5. CASE Truncate(t) \/ SaveConfig(t)
  <2>1. pc[t] \in {"save", "write"} /\ pc'[t] \in {"write", "remove"}
    BY <1>5 DEF Truncate, SaveConfig
  <2>2. /\ bag' = bag /\ svc' = svc /\ snap' = snap /\ got' = got
        /\ \A s \in Services \ {svc[t]} : file'[s] = file[s]
    BY <1>5 DEF Truncate, SaveConfig
  <2> QED
    BY <2>1, <2>2, FileStep DEF Busy, Removing
<1>6. CASE RemoveConfig(t)
  <2>1. /\ pc[t] = "delete" /\ pc'[t] = "rescan"
        /\ bag' = bag /\ svc' = svc /\ snap' = snap /\ got' = got
        /\ \A s \in Services \ {svc[t]} : file'[s] = file[s]
    BY <1>6 DEF RemoveConfig
  <2>2. MapsOf(svc[t]) = {}
    BY <2>1 DEF FreshInv, AloneAt
  <2> QED
    BY <2>1, <2>2, FileStep DEF Busy
<1>7. CASE ~Touches(t)
  <2>1. file' = file /\ bag' = bag
    BY <1>7, TouchedOnlyThere
  <2>2. OneMap'
    BY <2>1 DEF FreshInv, OneMap
  <2>3. \A s \in Services : MapsOf(s)' = MapsOf(s)
    BY <2>1 DEF MapsOf
  <2>4. \A u \in Threads \ {t} : AloneAt(u)'
    BY <1>2, <2>1, <2>3 DEF FreshInv, AloneAt
  <2>5. AloneAt(t)' /\ (Removing(t) => MapsOf(svc[t]) = {} \/ (Removing(t)' /\ svc'[t] = svc[t]))
    <3>1. CASE \E o \in Ops, s \in Services : Begin(t, o, s)
      BY <3>1, OpsAssumption DEF Begin, FirstStep, AllOps, AloneAt, Removing
    <3>2. CASE Request(t) \/ LockTimeout(t)
      BY <2>1, <3>2 DEF Request, KnownService, UnknownService, RefreshRequired, Find, LockAsync,
                  LockTimeout, TryAgain, Dispose, AloneAt, Removing, MapsOf
    <3>3. CASE Load(t)
      <4>1. CASE OpenFile(t)
        BY <2>1, <2>3, <4>1 DEF OpenFile, AloneAt, Removing, FreshInv
      <4>2. CASE ReadStream(t)
        BY <2>1, <2>3, <4>2 DEF ReadStream, AloneAt, Removing, FreshInv
      <4>3. CASE ReadFails(t) \/ LoadFails(t) \/ ServiceRefreshed(t) \/ Finish(t)
        BY <4>3 DEF ReadFails, LoadFails, ServiceRefreshed, Finish, Loaded, AloneAt, Removing
      <4> QED
        BY <1>7, <3>3, <4>1, <4>2, <4>3 DEF Load, Touches
    <3>4. CASE RemoveMap(t)
      BY <2>1, <2>3, <3>4 DEF RemoveMap, AfterRemove, AloneAt, Removing, FreshInv, OneMap, MapsOf
    <3>5. CASE CopyBag(t)
      <4>1. pc[t] = "copy" /\ snap[t] = MapsOf(svc[t]) /\ svc' = svc /\ got' = got
        BY <3>5 DEF CopyBag, FreshInv, AloneAt
      <4>2. CASE snap[t] \cap bag = {} /\ pc' = [pc EXCEPT ![t] = AfterRemove(op[t])]
        <5>1. MapsOf(svc[t]) = {}
          BY <4>1, <4>2 DEF MapsOf
        <5> QED
          BY <2>3, <4>1, <4>2, <5>1 DEF AfterRemove, AloneAt
      <4>3. CASE pc' = [pc EXCEPT ![t] = "assign"] /\ snap' = [snap EXCEPT ![t] = bag \ snap[t]]
        BY <2>1, <4>1, <4>3 DEF AloneAt, Removing, MapsOf
      <4> QED
        BY <3>5, <4>2, <4>3 DEF CopyBag
    <3>6. CASE Deploy(t)
      BY <1>7, <2>1, <2>3, <3>6 DEF Deploy, Reject, AddMapService, SaveFails, Unregister,
                  AssignServices, DeleteFails, ReloadServices, Touches, AloneAt, Removing
    <3>7. CASE Manage(t)
      BY <3>7 DEF Manage, SetRunning, GoOnAsRequest, AlreadyRunning, SetStopped, Stopped,
                  AloneAt, Removing
    <3> QED
      BY <1>7, <3>1, <3>2, <3>3, <3>4, <3>5, <3>6, <3>7 DEF StepOf, Step, Remove, Touches
  <2>6. FreshOrRemoved'
    BY <1>2, <2>1, <2>5 DEF FreshInv, FreshOrRemoved, Removing, MapsOf
  <2> QED
    BY <2>2, <2>4, <2>5, <2>6 DEF FreshInv
<1> QED
  BY <1>3, <1>4, <1>5, <1>6, <1>7 DEF Touches

(* Once all is quiet memory and disk agree, for any number of threads and  *)
(* services and whatever fails, if no load, save or removal of a service   *)
(* has overlapped another of it; only preloading, which does not ask       *)
(* whether the map is there, leaves a second copy that one removal does    *)
(* not take out.                                                           *)
THEOREM OnlyOverlapsStale == ASSUME "preload" \notin Ops PROVE Spec => FreshWithoutOverlap
<1>1. Init => FreshInv
  BY DEF Init, FreshInv, FreshOrRemoved, OneMap, AloneAt
<1>2. IInv /\ FreshInv /\ ~Overlap /\ (~Overlap)' /\ [Next]_vars => FreshInv'
  <2> SUFFICES ASSUME IInv, FreshInv, ~Overlap, ~Overlap', [Next]_vars PROVE FreshInv'
    OBVIOUS
  <2>1. ASSUME NEW t \in Threads, StepOf(t) PROVE FreshInv'
    BY <2>1, FreshStep
  <2>2. CASE UNCHANGED vars
    BY <2>2 DEF vars, server, thread, FreshInv, FreshOrRemoved, OneMap, AloneAt, Removing, MapsOf
  <2> QED
    BY <2>1, <2>2 DEF Next, StepOf
<1>3. FreshInv => (Quiet => Fresh)
  BY DEF FreshInv, FreshOrRemoved, Removing, Quiet, Fresh
<1> QED
  BY <1>1, <1>2, <1>3, Inductive, PTL DEF Spec, FreshWithoutOverlap
==============================================================================
