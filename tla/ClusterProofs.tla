---------------------------- MODULE ClusterProofs -----------------------------
(* What Cluster promises for any instances and any number of operations.   *)
EXTENDS Cluster, TLAPS

(* The bag of maps: nothing, one map more, one map less.                   *)
LEMMA EmptyHasNothing == IsABag(EmptyBag) /\ BagToSet(EmptyBag) = {}
BY DEF IsABag, EmptyBag, SetToBag, BagToSet

LEMMA OneHasOne ==
  ASSUME NEW v PROVE IsABag(SetToBag({v})) /\ BagToSet(SetToBag({v})) = {v}
BY DEF IsABag, SetToBag, BagToSet

LEMMA OneMore ==
  ASSUME NEW B, NEW v, IsABag(B)
  PROVE  IsABag(B (+) SetToBag({v})) /\ BagToSet(B (+) SetToBag({v})) = BagToSet(B) \cup {v}
BY DEF IsABag, SetToBag, BagToSet, (+)

LEMMA OneLess ==
  ASSUME NEW B, NEW v, IsABag(B), v \in BagToSet(B)
  PROVE  IsABag(B (-) SetToBag({v})) /\ BagToSet(B (-) SetToBag({v})) \subseteq BagToSet(B)
BY DEF IsABag, SetToBag, BagToSet, (-)

LEMMA FirstOne == ASSUME NEW v PROVE EmptyBag (+) SetToBag({v}) = SetToBag({v})
BY DEF EmptyBag, SetToBag, (+)

LEMMA LastOne == ASSUME NEW v PROVE SetToBag({v}) (-) SetToBag({v}) = EmptyBag
BY DEF EmptyBag, SetToBag, (-)

------------------------------------------------------------------------------
(* The variables of Cluster stay in their ranges.                          *)
LEMMA InitTypes == Init => TypeOK
<1> SUFFICES ASSUME Init PROVE TypeOK
    OBVIOUS
<1>1. \A n \in Nodes : IsABag(mem[n]) /\ BagToSet(mem[n]) \subseteq Nat
  <2> SUFFICES ASSUME NEW n \in Nodes PROVE IsABag(mem[n]) /\ BagToSet(mem[n]) \subseteq Nat
      OBVIOUS
  <2>1. mem[n] = EmptyBag \/ mem[n] = SetToBag({1})
        BY DEF Init
  <2>2. IsABag(SetToBag({1})) /\ BagToSet(SetToBag({1})) = {1}
        BY OneHasOne
  <2> QED BY <2>1, <2>2, EmptyHasNothing
<1>2. DOMAIN mem = Nodes
      BY DEF Init
<1>3. /\ queue \in [Nodes -> [Messages -> Nat]] /\ pc \in [Nodes -> [Workers -> Labels]]
      /\ got \in [Nodes -> [Workers -> Nat]]
      BY DEF Init, Labels, NoMessages, AllIdle, NothingRead, NoFile
<1>4. /\ file \in Nat \cup {Partial} /\ saves \in Nat \ {0} /\ wanted \in Nat \cup {Partial}
      /\ op \in [Nodes -> Ops \cup {"none"}] /\ started \in Nat
      /\ untold \subseteq Nodes /\ raced \subseteq Nodes
      BY DEF Init
<1> QED BY <1>1, <1>2, <1>3, <1>4 DEF TypeOK

(* A step of one worker and what it does to memory.                        *)
MemOK(n) == IsABag(mem[n]) /\ BagToSet(mem[n]) \subseteq Nat

LEMMA GotoTypes ==
  ASSUME TypeOK, NEW n \in Nodes, NEW w \in Workers, NEW l \in Labels, Goto(n, w, l)
  PROVE  pc' \in [Nodes -> [Workers -> Labels]] /\ raced' \subseteq Nodes
BY DEF TypeOK, Goto

LEMMA RemovalTypes ==
  ASSUME TypeOK, NEW n \in Nodes, RemoveFromMemory(n)
  PROVE  DOMAIN mem' = Nodes /\ \A k \in Nodes : MemOK(k)'
<1>1. CASE UNCHANGED mem
      BY <1>1 DEF TypeOK, MemOK
<1>2. CASE \E v \in BagToSet(mem[n]) : mem' = [mem EXCEPT ![n] = @ (-) SetToBag({v})]
  <2>1. PICK v \in BagToSet(mem[n]) : mem' = [mem EXCEPT ![n] = mem[n] (-) SetToBag({v})]
        BY <1>2
  <2>2. IsABag(mem[n] (-) SetToBag({v})) /\ BagToSet(mem[n] (-) SetToBag({v})) \subseteq BagToSet(mem[n])
        BY OneLess DEF TypeOK
  <2>3. DOMAIN mem' = Nodes /\ mem'[n] = mem[n] (-) SetToBag({v}) /\ \A k \in Nodes \ {n} : mem'[k] = mem[k]
        BY <2>1 DEF TypeOK
  <2> QED BY <2>2, <2>3 DEF TypeOK, MemOK
<1> QED BY <1>1, <1>2 DEF RemoveFromMemory

LEMMA NextTypes == TypeOK /\ [Next]_vars => TypeOK'
<1> SUFFICES ASSUME TypeOK, [Next]_vars PROVE TypeOK'
    OBVIOUS
<1>m. DOMAIN mem = Nodes /\ \A k \in Nodes : MemOK(k)
      BY DEF TypeOK, MemOK
<1>a. ASSUME DOMAIN mem' = Nodes, \A k \in Nodes : MemOK(k)',
             file' \in Nat \cup {Partial}, saves' \in Nat \ {0}, wanted' \in Nat \cup {Partial},
             queue' \in [Nodes -> [Messages -> Nat]], pc' \in [Nodes -> [Workers -> Labels]],
             got' \in [Nodes -> [Workers -> Nat]], op' \in [Nodes -> Ops \cup {"none"}],
             started' \in Nat, untold' \subseteq Nodes, raced' \subseteq Nodes
      PROVE  TypeOK'
      BY <1>a DEF TypeOK, MemOK
<1>b. mem' = mem => DOMAIN mem' = Nodes /\ \A k \in Nodes : MemOK(k)'
      BY <1>m DEF MemOK
<1> DEFINE Rest == /\ file' \in Nat \cup {Partial} /\ saves' \in Nat \ {0} /\ wanted' \in Nat \cup {Partial}
                   /\ queue' \in [Nodes -> [Messages -> Nat]]
                   /\ got' \in [Nodes -> [Workers -> Nat]] /\ op' \in [Nodes -> Ops \cup {"none"}]
                   /\ started' \in Nat /\ untold' \subseteq Nodes
           Moved == pc' \in [Nodes -> [Workers -> Labels]] /\ raced' \subseteq Nodes
           Kept == DOMAIN mem' = Nodes /\ \A k \in Nodes : MemOK(k)'
<1>c. Rest /\ Moved /\ Kept => TypeOK'
      BY <1>a
<1>g. ASSUME NEW n \in Nodes, NEW w \in Workers, NEW l \in Labels, Goto(n, w, l) PROVE Moved
      BY <1>g, GotoTypes
<1> HIDE DEF Kept, Moved
<1>1. ASSUME NEW n \in Nodes, NEW o \in Ops, Begin(n, o) PROVE TypeOK'
  <2>1. FirstStep(o) \in Labels
        BY OpsAssumption DEF FirstStep, AllOps, Labels, Busy
  <2>2. Moved
        BY <1>1, <2>1, <1>g DEF Begin, Workers
  <2>3. Kept
        BY <1>1, <1>b DEF Begin, Kept
  <2>4. Rest
        BY <1>1 DEF Begin, TypeOK, disk
  <2> QED BY <1>c, <2>2, <2>3, <2>4
<1>2. ASSUME NEW n \in Nodes,
             Truncate(n) \/ SaveConfig(n) \/ SaveFails(n) \/ Warns(n) \/ FireMessage(n) \/ EnqueueFails(n)
      PROVE  TypeOK'
  <2>1. Moved
        BY <1>2, <1>g DEF Truncate, SaveConfig, SaveFails, Warns, FireMessage, EnqueueFails, Workers, Labels, Busy
  <2>2. Kept
        BY <1>2, <1>b DEF Truncate, SaveConfig, SaveFails, Warns, FireMessage, EnqueueFails, Kept, disk
  <2>3. Rest
    <3>1. CASE Truncate(n)
          BY <3>1 DEF Truncate, TypeOK, Partial
    <3>2. CASE SaveConfig(n)
          BY <3>2 DEF SaveConfig, TypeOK, Partial, NoFile
    <3>3. CASE SaveFails(n) \/ Warns(n) \/ EnqueueFails(n)
          BY <3>3 DEF SaveFails, Warns, EnqueueFails, NobodyHears, TypeOK, disk
    <3>4. CASE FireMessage(n)
      <4>1. \A m \in Messages, to \in SUBSET Nodes : Post(n, m, to) => queue' \in [Nodes -> [Messages -> Nat]]
            BY DEF Post, TypeOK
      <4>2. queue' \in [Nodes -> [Messages -> Nat]]
            BY <3>4, <4>1 DEF FireMessage, Messages
      <4> QED BY <3>4, <4>2 DEF FireMessage, TypeOK, disk
    <3> QED BY <1>2, <3>1, <3>2, <3>3, <3>4
  <2> QED BY <1>c, <2>1, <2>2, <2>3
<1>3. ASSUME NEW n \in Nodes, NEW w \in Workers, Call(n, w) PROVE TypeOK'
  <2>1. Moved
        BY <1>3, <1>g DEF Call, Load, ReloadMap, RemoveMap, RemoveConfig, DeleteFails, ReadFile, LoadFails, AddMap,
                          Removed, Labels, Busy
  <2>2. Kept
    <3>1. CASE ReloadMap(n, w) \/ RemoveMap(n, w)
          BY <3>1, RemovalTypes DEF ReloadMap, RemoveMap, Kept
    <3>2. CASE AddMap(n, w)
      <4>1. got[n][w] \in Nat
            BY DEF TypeOK
      <4>2. /\ IsABag(mem[n] (+) SetToBag({got[n][w]}))
            /\ BagToSet(mem[n] (+) SetToBag({got[n][w]})) = BagToSet(mem[n]) \cup {got[n][w]}
            BY OneMore DEF TypeOK
      <4>3. /\ DOMAIN mem' = Nodes /\ mem'[n] = mem[n] (+) SetToBag({got[n][w]})
            /\ \A k \in Nodes \ {n} : mem'[k] = mem[k]
            BY <3>2, <1>m DEF AddMap
      <4> QED BY <1>m, <4>1, <4>2, <4>3 DEF Kept, MemOK
    <3>3. CASE RemoveConfig(n, w) \/ DeleteFails(n, w) \/ ReadFile(n, w) \/ LoadFails(n, w)
          BY <3>3, <1>b DEF RemoveConfig, DeleteFails, ReadFile, LoadFails, Removed, Kept
    <3> QED BY <1>3, <3>1, <3>2, <3>3 DEF Call, Load
  <2>3. Rest
    <3> USE DEF TypeOK, disk, NoFile, Partial, UpToDate, NobodyHears, Removed
    <3>1. CASE ReloadMap(n, w) \/ RemoveMap(n, w)
          BY <3>1 DEF ReloadMap, RemoveMap
    <3>2. CASE RemoveConfig(n, w) \/ DeleteFails(n, w)
          BY <3>2 DEF RemoveConfig, DeleteFails
    <3>3. CASE ReadFile(n, w)
          BY <3>3 DEF ReadFile
    <3>4. CASE LoadFails(n, w) \/ AddMap(n, w)
          BY <3>4 DEF LoadFails, AddMap
    <3> QED BY <1>3, <3>1, <3>2, <3>3, <3>4 DEF Call, Load
  <2> QED BY <1>c, <2>1, <2>2, <2>3
<1>4. ASSUME NEW n \in Nodes, HandleReload(n) \/ HandleRemove(n) \/ Expire(n) \/ Request(n) PROVE TypeOK'
  <2>1. Moved
        BY <1>4, <1>g DEF HandleReload, HandleRemove, Expire, Request, Workers, Labels, Busy, TypeOK, Moved
  <2>2. Kept
        BY <1>4, <1>b DEF HandleReload, HandleRemove, Expire, Request, Kept, disk
  <2>3. Rest
        BY <1>4 DEF HandleReload, HandleRemove, Expire, Request, Take, Messages, TypeOK, disk
  <2> QED BY <1>c, <2>1, <2>2, <2>3
<1>5. ASSUME NEW n \in Nodes, Restart(n) PROVE TypeOK'
  <2>1. Kept
        BY <1>5, <1>m, EmptyHasNothing DEF Restart, Kept, MemOK
  <2>2. Moved /\ Rest
        BY <1>5 DEF Restart, TypeOK, AllIdle, NothingRead, NoMessages, Labels, Busy, Messages, Workers, NoFile, disk, Moved
  <2> QED BY <1>c, <2>1, <2>2
<1>6. CASE UNCHANGED vars
      BY <1>6 DEF vars, disk, TypeOK
<1> QED BY <1>1, <1>2, <1>3, <1>4, <1>5, <1>6 DEF Next, Operation, Handler, Server, Call, Workers

(* No message is handled that was not sent, no worker leaves its steps and *)
(* no half-written file gets into memory.                                  *)
THEOREM Typing == Spec => []TypeOK
BY InitTypes, NextTypes, PTL DEF Spec

------------------------------------------------------------------------------
(* Only operators save and send, only a publish saves.                     *)
Placed(n) == /\ pc[n]["handler"] \in Busy \cup {"idle"}
             /\ pc[n]["request"] \in {"idle", "load", "add"}
             /\ pc[n]["operator"] \in {"save", "write"} => op[n] = "publish"

(* Where nothing has raced one worker at a time is busy with the map, and  *)
(* who loads it, or deletes its file, has found or made the memory empty.  *)
Alone(n) == /\ \A u, w \in Workers : pc[n][u] \in Busy /\ pc[n][w] \in Busy => u = w
            /\ mem[n] = EmptyBag \/ \E v \in Nat : mem[n] = SetToBag({v})
            /\ \A w \in Workers : pc[n][w] \in {"load", "add", "delete"} => mem[n] = EmptyBag

(* An instance has an old map, or is about to add it.                      *)
Old(n) == \/ Stale(n)
          \/ \E w \in Workers : pc[n][w] = "add" /\ got[n][w] # file

(* Then it will hear of the removal or of the new file, or sees to it.     *)
ToldOfRemoval(n) == \/ queue[n]["RemoveMap"] > 0
                    \/ pc[n]["handler"] = "remove"
                    \/ \E p \in Nodes \ {n} : pc[p]["operator"] = "removed"

ToldOfReload(n) ==
  \/ queue[n]["ReloadMap"] > 0
  \/ pc[n]["handler"] = "reload"
  \/ pc[n]["operator"] \in {"write", "reload"}
  \/ \E p \in Nodes \ {n} : pc[p]["operator"] \in {"write", "reload", "load", "add", "reloaded"}

Told(n) == Old(n) => IF file = NoFile THEN ToldOfRemoval(n) ELSE ToldOfReload(n)

(* While a removal is open nobody wants the file.                          *)
RemovalHolds == \A n \in Nodes : \/ queue[n]["RemoveMap"] > 0
                                 \/ pc[n]["operator"] = "removed"
                                 \/ pc[n]["handler"] \in {"remove", "delete"}
                               => wanted = NoFile

(* What is wanted is there, and while it is written the file stays.        *)
Wanted == /\ wanted # NoFile => file = wanted
          /\ \A n \in Nodes : pc[n]["operator"] = "write" => wanted # NoFile

IInv == /\ TypeOK
        /\ RemovalHolds
        /\ Wanted
        /\ \A n \in Nodes : Placed(n)
        /\ \A n \in Nodes \ raced : Alone(n)
        /\ \A n \in Nodes : ~Excused(n) => Told(n)

LEMMA InitInductive == Init => IInv
<1> SUFFICES ASSUME Init PROVE IInv
    OBVIOUS
<1>1. TypeOK
      BY InitTypes
<1>2. RemovalHolds /\ Wanted /\ \A n \in Nodes : Placed(n)
      BY DEF Init, RemovalHolds, Wanted, Placed, NoMessages, Messages, AllIdle, Workers, Busy
<1>3. ASSUME NEW n \in Nodes PROVE Alone(n) /\ ~Old(n)
  <2>1. mem[n] = EmptyBag \/ mem[n] = SetToBag({1})
        BY <1>3 DEF Init
  <2>2. BagToSet(mem[n]) \subseteq {1}
        BY <2>1, EmptyHasNothing, OneHasOne
  <2>3. \A w \in Workers : pc[n][w] = "idle"
        BY DEF Init, AllIdle
  <2> QED BY <2>1, <2>2, <2>3 DEF Init, Alone, Old, Stale, Busy
<1> QED BY <1>1, <1>2, <1>3 DEF IInv, Told

------------------------------------------------------------------------------
(* Steps move the workers of one instance.                                 *)
StepOf(n) == (\E o \in Ops : Begin(n, o)) \/ Operation(n) \/ Handler(n) \/ Server(n)

Saves(n) == \/ Truncate(n) \/ SaveConfig(n) \/ SaveFails(n) \/ Warns(n)
            \/ FireMessage(n) \/ EnqueueFails(n)
Takes(n) == HandleReload(n) \/ HandleRemove(n) \/ Expire(n) \/ Request(n)
Loads(n, w) == ReadFile(n, w) \/ LoadFails(n, w) \/ AddMap(n, w)
Removes(n, w) == ReloadMap(n, w) \/ RemoveMap(n, w) \/ RemoveConfig(n, w) \/ DeleteFails(n, w)

LEMMA Steps ==
  ASSUME NEW n \in Nodes, StepOf(n)
  PROVE  \/ \E o \in Ops : Begin(n, o)
         \/ Saves(n) \/ Takes(n) \/ Restart(n)
         \/ \E w \in Workers : Loads(n, w)
         \/ \E w \in {"operator", "handler"} : Removes(n, w)
BY DEF StepOf, Saves, Takes, Loads, Removes, Operation, Handler, Server, Call, Load, Workers

LEMMA Moves ==
  ASSUME TypeOK, NEW n \in Nodes, NEW w \in Workers, NEW l, Goto(n, w, l)
  PROVE  /\ pc'[n][w] = l
         /\ \A u \in Workers \ {w} : pc'[n][u] = pc[n][u]
         /\ \A k \in Nodes \ {n} : pc'[k] = pc[k]
         /\ raced \subseteq raced'
BY DEF TypeOK, Goto

(* What a step of n leaves of the others.                                  *)
LEMMA OthersStay ==
  ASSUME TypeOK, NEW n \in Nodes, StepOf(n), NEW k \in Nodes \ {n}
  PROVE  /\ pc'[k] = pc[k] /\ got'[k] = got[k] /\ mem'[k] = mem[k] /\ op'[k] = op[k]
         /\ k \notin raced' => k \notin raced
         /\ k \in raced' => k \in raced
<1> USE DEF TypeOK, Goto, disk
<1>1. CASE \E o \in Ops : Begin(n, o)
      BY <1>1 DEF Begin
<1>2. CASE Saves(n)
      BY <1>2 DEF Saves, Truncate, SaveConfig, SaveFails, Warns, FireMessage, EnqueueFails
<1>3. CASE Takes(n)
      BY <1>3 DEF Takes, HandleReload, HandleRemove, Expire, Request
<1>4. CASE Restart(n)
      BY <1>4 DEF Restart
<1>5. ASSUME NEW w \in Workers, Loads(n, w)
      PROVE  /\ pc'[k] = pc[k] /\ got'[k] = got[k] /\ mem'[k] = mem[k] /\ op'[k] = op[k]
             /\ k \notin raced' => k \notin raced
             /\ k \in raced' => k \in raced
      BY <1>5 DEF Loads, ReadFile, LoadFails, AddMap
<1>6. ASSUME NEW w \in Workers, Removes(n, w)
      PROVE  /\ pc'[k] = pc[k] /\ got'[k] = got[k] /\ mem'[k] = mem[k] /\ op'[k] = op[k]
             /\ k \notin raced' => k \notin raced
             /\ k \in raced' => k \in raced
      BY <1>6 DEF Removes, ReloadMap, RemoveMap, RemoveConfig, DeleteFails, Removed, RemoveFromMemory
<1> QED BY <1>1, <1>2, <1>3, <1>4, <1>5, <1>6, Steps DEF Workers

LEMMA PlacedStep ==
  ASSUME IInv, NEW n \in Nodes, StepOf(n)
  PROVE  \A k \in Nodes : Placed(k)'
<1>1. \A k \in Nodes \ {n} : Placed(k)'
      BY OthersStay DEF IInv, Placed
<1>2. Placed(n)'
  <2> USE DEF IInv, TypeOK, Placed, Goto, At, disk, Busy, Workers
  <2>1. CASE \E o \in Ops : Begin(n, o)
        BY <2>1, OpsAssumption DEF Begin, FirstStep, AllOps
  <2>2. CASE Saves(n)
        BY <2>2 DEF Saves, Truncate, SaveConfig, SaveFails, Warns, FireMessage, EnqueueFails
  <2>3. CASE Takes(n)
        BY <2>3 DEF Takes, HandleReload, HandleRemove, Expire, Request
  <2>4. CASE Restart(n)
        BY <2>4 DEF Restart, AllIdle
  <2>5. ASSUME NEW w \in Workers, Loads(n, w) PROVE Placed(n)'
    <3>1. op' = op
          BY <2>5 DEF Loads, ReadFile, LoadFails, AddMap
    <3>2. CASE ReadFile(n, w) \/ LoadFails(n, w)
      <4>1. Goto(n, w, IF ReadFile(n, w) THEN "add" ELSE "idle")
            BY <3>2 DEF ReadFile, LoadFails
      <4> QED BY <3>1, <4>1, Moves
    <3>3. CASE AddMap(n, w)
      <4>1. Goto(n, w, IF w = "operator" THEN "reloaded" ELSE "idle")
            BY <3>3 DEF AddMap
      <4> QED BY <3>1, <4>1, Moves
    <3> QED BY <2>5, <3>2, <3>3 DEF Loads
  <2>6. ASSUME NEW w \in {"operator", "handler"}, Removes(n, w) PROVE Placed(n)'
        BY <2>6 DEF Removes, ReloadMap, RemoveMap, RemoveConfig, DeleteFails, Removed
  <2> QED BY <2>1, <2>2, <2>3, <2>4, <2>5, <2>6, Steps
<1> QED BY <1>1, <1>2

------------------------------------------------------------------------------
(* From a calm state: who wants the file gone is not overtaken by a save.  *)
LEMMA WantedStep ==
  ASSUME IInv, Calm, NEW n \in Nodes, StepOf(n)
  PROVE  RemovalHolds' /\ Wanted'
<1> USE DEF IInv
<1>k. ASSUME NEW w \in Workers, NEW l \in Labels, Goto(n, w, l), file' = file, wanted' = wanted,
             w = "operator" => l \notin {"removed", "write"},
             w = "handler" /\ l \in {"remove", "delete"}
               => queue[n]["RemoveMap"] > 0 \/ pc[n]["handler"] = "remove",
             \A k \in Nodes : queue'[k]["RemoveMap"] > 0
               => queue[k]["RemoveMap"] > 0 \/ pc[n]["operator"] = "removed"
      PROVE  RemovalHolds' /\ Wanted'
  <2>1. Workers = {"operator", "handler", "request"}
        BY DEF Workers
  <2>2. RemovalHolds'
        BY <1>k, <2>1, Moves DEF RemovalHolds
  <2>3. Wanted'
        BY <1>k, <2>1, Moves DEF Wanted
  <2> QED BY <2>2, <2>3
<1> USE DEF At, disk
<1>l. Labels = {"idle", "save", "write", "reloaded", "removed", "reload", "load", "add", "remove", "delete"}
      BY DEF Labels, Busy
<1>1. CASE \E o \in Ops : Begin(n, o)
  <2>1. PICK o \in Ops : Begin(n, o)
        BY <1>1
  <2>2. FirstStep(o) \in {"save", "reload", "remove"}
        BY OpsAssumption DEF FirstStep, AllOps
  <2> QED BY <1>k, <1>l, <2>1, <2>2 DEF Begin, Workers
<1>2. CASE Saves(n)
  <2>1. CASE Truncate(n) \/ SaveConfig(n)
    <3>1. op[n] = "publish" /\ pc[n]["operator"] \in {"save", "write"}
          BY <2>1 DEF Truncate, SaveConfig, Placed
    <3>2. ~RemovalOpen
          BY <3>1 DEF Calm, PublishOpen, Publishing
    <3>3. /\ \E l \in {"write", "reload"} : Goto(n, "operator", l)
          /\ queue' = queue
          BY <2>1 DEF Truncate, SaveConfig
    <3>4. RemovalHolds'
      <4> SUFFICES ASSUME NEW k \in Nodes
                   PROVE  ~(\/ queue'[k]["RemoveMap"] > 0
                            \/ pc'[k]["operator"] = "removed"
                            \/ pc'[k]["handler"] \in {"remove", "delete"})
          BY DEF RemovalHolds
      <4>1. ~(\/ queue[k]["RemoveMap"] > 0
              \/ pc[k]["operator"] \in {"remove", "delete", "removed"}
              \/ pc[k]["handler"] \in {"remove", "delete"})
            BY <3>2 DEF RemovalOpen
      <4> QED BY <3>3, <4>1, Moves DEF Workers
    <3>5. CASE Truncate(n)
          BY <3>4, <3>5 DEF Truncate, Wanted, NoFile, Partial
    <3>6. CASE SaveConfig(n)
      <4>1. wanted # NoFile /\ file = wanted
            BY <3>6 DEF SaveConfig, Wanted
      <4>2. wanted' # NoFile /\ file' = wanted'
            BY <3>6, <4>1 DEF SaveConfig, TypeOK, NoFile, Partial
      <4> QED BY <3>4, <4>2 DEF Wanted
    <3> QED BY <2>1, <3>5, <3>6
  <2>2. CASE SaveFails(n) \/ Warns(n) \/ EnqueueFails(n)
    <3>1. /\ \E l \in {"reload", "idle"} : Goto(n, "operator", l)
          /\ UNCHANGED <<file, wanted, queue>>
          BY <2>2 DEF SaveFails, Warns, EnqueueFails
    <3> QED BY <1>k, <1>l, <3>1 DEF Workers
  <2>3. CASE FireMessage(n)
    <3>1. Goto(n, "operator", "idle") /\ UNCHANGED <<file, wanted>>
          BY <2>3 DEF FireMessage
    <3>2. \A k \in Nodes : queue'[k]["RemoveMap"] > 0 =>
                queue[k]["RemoveMap"] > 0 \/ pc[n]["operator"] = "removed"
      <4> SUFFICES ASSUME NEW k \in Nodes, pc[n]["operator"] # "removed"
                   PROVE  queue'[k]["RemoveMap"] = queue[k]["RemoveMap"]
          OBVIOUS
      <4>1. Post(n, "ReloadMap", Nodes \ {n})
            BY <2>3 DEF FireMessage
      <4>2. queue[k] \in [Messages -> Nat] /\ (queue'[k] = queue[k] \/ queue'[k] = [queue[k] EXCEPT !["ReloadMap"] = @ + 1])
            BY <4>1 DEF TypeOK, Post
      <4> QED BY <4>2 DEF Messages
    <3> QED BY <1>k, <1>l, <3>1, <3>2 DEF Workers
  <2> QED BY <1>2, <2>1, <2>2, <2>3 DEF Saves
<1>3. CASE Takes(n)
  <2>1. \A k \in Nodes : queue'[k]["RemoveMap"] > 0 => queue[k]["RemoveMap"] > 0
    <3>1. queue' = queue \/ \E m \in Messages : Take(n, m)
          BY <1>3 DEF Takes, HandleReload, HandleRemove, Expire, Request, Messages
    <3>2. ASSUME NEW m \in Messages, Take(n, m), NEW k \in Nodes, queue'[k]["RemoveMap"] > 0
          PROVE  queue[k]["RemoveMap"] > 0
          BY <3>2 DEF Take, TypeOK, Messages
    <3> QED BY <3>1, <3>2
  <2>2. UNCHANGED <<file, wanted>>
        BY <1>3 DEF Takes, HandleReload, HandleRemove, Expire, Request
  <2>3. CASE HandleReload(n)
        BY <1>k, <1>l, <2>1, <2>2, <2>3 DEF HandleReload, Workers
  <2>4. CASE HandleRemove(n)
        BY <1>k, <1>l, <2>1, <2>2, <2>4 DEF HandleRemove, Take, Workers
  <2>5. CASE Request(n)
        BY <1>k, <1>l, <2>1, <2>2, <2>5 DEF Request, Workers
  <2>6. CASE Expire(n)
        BY <2>1, <2>2, <2>6 DEF Expire, RemovalHolds, Wanted
  <2> QED BY <1>3, <2>3, <2>4, <2>5, <2>6 DEF Takes
<1>4. CASE Restart(n)
      BY <1>4 DEF Restart, AllIdle, NoMessages, RemovalHolds, Wanted, TypeOK, Workers, Messages
<1>5. ASSUME NEW w \in Workers, Loads(n, w) PROVE RemovalHolds' /\ Wanted'
  <2>1. /\ \E l \in {"add", "idle", "reloaded"} : Goto(n, w, l)
        /\ UNCHANGED <<file, wanted, queue>>
        BY <1>5 DEF Loads, ReadFile, LoadFails, AddMap
  <2> QED BY <1>k, <1>l, <2>1
<1>6. ASSUME NEW w \in {"operator", "handler"}, Removes(n, w) PROVE RemovalHolds' /\ Wanted'
  <2>0. w \in Workers
        BY DEF Workers
  <2>1. CASE ReloadMap(n, w) \/ RemoveMap(n, w)
    <3>1. /\ Goto(n, w, IF ReloadMap(n, w) THEN "load" ELSE "delete")
          /\ UNCHANGED <<file, wanted, queue>>
          /\ RemoveMap(n, w) => pc[n][w] = "remove"
          BY <2>1 DEF ReloadMap, RemoveMap
    <3>2. CASE Goto(n, w, "load")
          BY <1>k, <1>l, <2>0, <3>1, <3>2
    <3>3. CASE RemoveMap(n, w) /\ Goto(n, w, "delete")
          BY <1>k, <1>l, <2>0, <3>1, <3>3
    <3> QED BY <2>1, <3>1, <3>2, <3>3
  <2>2. CASE RemoveConfig(n, w) \/ DeleteFails(n, w)
    <3>1. pc[n][w] = "delete" /\ RemovalOpen
          BY <1>6, <2>2 DEF RemoveConfig, DeleteFails, RemovalOpen
    <3>2. \A k \in Nodes : pc[k]["operator"] # "write"
          BY <3>1 DEF Calm, PublishOpen, Publishing, Placed
    <3>3. wanted' = NoFile
          BY <1>6, <2>2, <3>1 DEF RemoveConfig, DeleteFails, Removed, RemovalHolds
    <3>4. /\ \E l \in {"removed", "idle"} : Goto(n, w, l)
          /\ queue' = queue
          BY <2>2 DEF RemoveConfig, DeleteFails, Removed
    <3>5. \A k \in Nodes : pc'[k]["operator"] # "write"
          BY <2>0, <3>2, <3>4, Moves DEF Workers
    <3> QED BY <3>3, <3>5 DEF RemovalHolds, Wanted
  <2> QED BY <1>6, <2>1, <2>2 DEF Removes
<1> QED BY <1>1, <1>2, <1>3, <1>4, <1>5, <1>6, Steps

------------------------------------------------------------------------------
(* Where nothing races workers take turns.                                 *)
LEMMA TakeTurns ==
  ASSUME IInv, NEW n \in Nodes, NEW w \in Workers, NEW l \in Labels, Goto(n, w, l), n \notin raced'
  PROVE  /\ n \notin raced
         /\ \A u, v \in Workers : pc'[n][u] \in Busy /\ pc'[n][v] \in Busy => u = v
         /\ pc'[n][w] = l /\ \A u \in Workers \ {w} : pc'[n][u] = pc[n][u]
BY DEF IInv, TypeOK, Alone, Goto, Races

LEMMA AloneStep ==
  ASSUME IInv, NEW n \in Nodes, StepOf(n)
  PROVE  \A k \in Nodes \ raced' : Alone(k)'
<1>1. \A k \in Nodes \ {n} : k \notin raced' => Alone(k)'
      BY OthersStay DEF IInv, Alone
<1>2. ASSUME n \notin raced' PROVE Alone(n)'
  <2> USE DEF TypeOK, Alone, disk
  <2>0. TypeOK /\ Placed(n)
        BY DEF IInv
  <2>a. ASSUME NEW w \in Workers, NEW l \in Labels, Goto(n, w, l), mem' = mem,
               l \in {"load", "add", "delete"} => pc[n][w] = "load" \/ mem[n] = EmptyBag
        PROVE  Alone(n)'
    <3>1. /\ n \notin raced /\ pc'[n][w] = l /\ mem'[n] = mem[n]
          /\ \A u, v \in Workers : pc'[n][u] \in Busy /\ pc'[n][v] \in Busy => u = v
          /\ \A u \in Workers \ {w} : pc'[n][u] = pc[n][u]
          BY <1>2, <2>a, TakeTurns
    <3>2. Alone(n)
          BY <3>1 DEF IInv
    <3> QED BY <2>a, <3>1, <3>2
  <2>1. CASE \E o \in Ops : Begin(n, o)
    <3>1. PICK o \in Ops : Begin(n, o)
          BY <2>1
    <3>2. FirstStep(o) \in Labels \ {"load", "add", "delete"}
          BY OpsAssumption DEF FirstStep, AllOps, Labels, Busy
    <3> QED BY <2>a, <3>1, <3>2 DEF Begin, Workers
  <2>2. CASE Saves(n)
        BY <2>2, <2>a DEF Saves, Truncate, SaveConfig, SaveFails, Warns, FireMessage, EnqueueFails, Workers, Labels, Busy
  <2>3. CASE Takes(n)
    <3>1. CASE Expire(n)
          BY <1>2, <3>1 DEF Expire, IInv
    <3>2. CASE ~Expire(n)
          BY <2>3, <2>a, <3>2 DEF Takes, HandleReload, HandleRemove, Request, Workers, Labels, Busy
    <3> QED BY <3>1, <3>2
  <2>4. CASE Restart(n)
        BY <2>4, <2>0 DEF Restart, AllIdle, Busy
  <2>5. ASSUME NEW w \in Workers, Loads(n, w) PROVE Alone(n)'
    <3>1. CASE ReadFile(n, w) \/ LoadFails(n, w)
          BY <2>a, <3>1 DEF ReadFile, LoadFails, Labels, Busy, At
    <3>2. CASE AddMap(n, w)
      <4>1. pc[n][w] = "add" /\ Goto(n, w, IF w = "operator" THEN "reloaded" ELSE "idle")
            BY <3>2 DEF AddMap, At
      <4>2. n \notin raced /\ pc'[n][w] \notin Busy /\ \A u \in Workers \ {w} : pc'[n][u] = pc[n][u]
            BY <1>2, <4>1, TakeTurns DEF Labels, Busy
      <4>3. \A u \in Workers : pc'[n][u] \notin Busy
            BY <4>1, <4>2 DEF IInv, Busy
      <4>4. mem[n] = EmptyBag /\ mem'[n] = mem[n] (+) SetToBag({got[n][w]}) /\ got[n][w] \in Nat
            BY <2>0, <3>2, <4>1, <4>2 DEF AddMap, IInv
      <4>5. mem'[n] = SetToBag({got[n][w]})
            BY <4>4, FirstOne
      <4> QED BY <4>3, <4>4, <4>5 DEF Busy
    <3> QED BY <2>5, <3>1, <3>2 DEF Loads
  <2>6. ASSUME NEW w \in {"operator", "handler"}, Removes(n, w) PROVE Alone(n)'
    <3>1. CASE ReloadMap(n, w) \/ RemoveMap(n, w)
      <4>1. Goto(n, w, IF At(n, w, "reload") THEN "load" ELSE "delete") /\ RemoveFromMemory(n)
            BY <3>1 DEF ReloadMap, RemoveMap, At
      <4>2. n \notin raced
            BY <1>2, <2>6, <4>1, TakeTurns DEF Labels, Busy, Workers
      <4>3. mem'[n] = EmptyBag
        <5>1. CASE mem[n] = EmptyBag
              BY <4>1, <5>1 DEF RemoveFromMemory
        <5>2. ASSUME NEW v \in Nat, mem[n] = SetToBag({v}), mem[n] # EmptyBag PROVE mem'[n] = EmptyBag
          <6>1. PICK x \in BagToSet(mem[n]) : mem' = [mem EXCEPT ![n] = mem[n] (-) SetToBag({x})]
                BY <4>1, <5>2 DEF RemoveFromMemory
          <6>2. x = v
                BY <5>2, <6>1, OneHasOne
          <6> QED BY <2>0, <5>2, <6>1, <6>2, LastOne
        <5> QED BY <4>2, <5>1, <5>2 DEF IInv
      <4>4. \A u, v \in Workers : pc'[n][u] \in Busy /\ pc'[n][v] \in Busy => u = v
            BY <1>2, <2>6, <4>1, TakeTurns DEF Labels, Busy, Workers
      <4> QED BY <4>3, <4>4
    <3>2. CASE RemoveConfig(n, w) \/ DeleteFails(n, w)
          BY <2>6, <2>a, <3>2 DEF RemoveConfig, DeleteFails, Removed, Labels, Busy, Workers
    <3> QED BY <2>6, <3>1, <3>2 DEF Removes
  <2> QED BY <2>1, <2>2, <2>3, <2>4, <2>5, <2>6, Steps
<1> QED BY <1>1, <1>2

------------------------------------------------------------------------------
(* Who has an old map keeps being told.                                    *)
LEMMA SameFile ==
  ASSUME NEW k \in Nodes, file' = file, ~Excused(k) => Told(k),
         Old(k)' => Old(k), ~Excused(k)' => ~Excused(k),
         file = NoFile => (ToldOfRemoval(k) => ToldOfRemoval(k)'),
         file # NoFile => (ToldOfReload(k) => ToldOfReload(k)')
  PROVE  ~Excused(k)' => Told(k)'
BY DEF Told

LEMMA SameOld ==
  ASSUME NEW k \in Nodes, file' = file, pc'[k] = pc[k], got'[k] = got[k], mem'[k] = mem[k]
  PROVE  Old(k)' <=> Old(k)
BY DEF Old, Stale

(* For the others only what the operator of an instance does matters.      *)
LEMMA OthersTold ==
  ASSUME IInv, NEW n \in Nodes, StepOf(n), NEW k \in Nodes \ {n},
         file' = file, untold' \cap {k} = untold \cap {k},
         \A m \in Messages : queue[k][m] > 0 => queue'[k][m] > 0,
         pc[n]["operator"] = "removed" /\ file = NoFile
           => pc'[n]["operator"] = "removed" \/ queue'[k]["RemoveMap"] > 0,
         pc[n]["operator"] \in {"write", "reload", "load", "add", "reloaded"} /\ file # NoFile
           => \/ pc'[n]["operator"] \in {"write", "reload", "load", "add", "reloaded"}
              \/ queue'[k]["ReloadMap"] > 0
  PROVE  ~Excused(k)' => Told(k)'
<1>1. /\ pc'[k] = pc[k] /\ got'[k] = got[k] /\ mem'[k] = mem[k]
      /\ k \in raced' <=> k \in raced
      BY OthersStay DEF IInv
<1>2. Old(k)' <=> Old(k)
      BY <1>1, SameOld
<1>3. ~Excused(k)' => ~Excused(k)
      BY <1>1 DEF Excused
<1>4. \A p \in Nodes \ {n} : pc'[p] = pc[p]
      BY OthersStay DEF IInv
<1>5. file = NoFile => (ToldOfRemoval(k) => ToldOfRemoval(k)')
      BY <1>1, <1>4 DEF ToldOfRemoval, Messages
<1>6. file # NoFile => (ToldOfReload(k) => ToldOfReload(k)')
      BY <1>1, <1>4 DEF ToldOfReload, Messages
<1> QED BY <1>2, <1>3, <1>5, <1>6, SameFile DEF IInv

(* For the instance itself what its handler and its operator do.           *)
LEMMA SelfTold ==
  ASSUME IInv, NEW n \in Nodes, StepOf(n),
         file' = file, Old(n)' => Old(n), ~Excused(n)' => ~Excused(n),
         file = NoFile /\ (queue[n]["RemoveMap"] > 0 \/ pc[n]["handler"] = "remove")
           => queue'[n]["RemoveMap"] > 0 \/ pc'[n]["handler"] = "remove",
         file # NoFile /\ (\/ queue[n]["ReloadMap"] > 0 \/ pc[n]["handler"] = "reload"
                          \/ pc[n]["operator"] \in {"write", "reload"})
           => \/ queue'[n]["ReloadMap"] > 0 \/ pc'[n]["handler"] = "reload"
              \/ pc'[n]["operator"] \in {"write", "reload"}
  PROVE  ~Excused(n)' => Told(n)'
<1>1. \A p \in Nodes \ {n} : pc'[p] = pc[p]
      BY OthersStay DEF IInv
<1>2. file = NoFile => (ToldOfRemoval(n) => ToldOfRemoval(n)')
      BY <1>1 DEF ToldOfRemoval
<1>3. file # NoFile => (ToldOfReload(n) => ToldOfReload(n)')
      BY <1>1 DEF ToldOfReload
<1> QED BY <1>2, <1>3, SameFile DEF IInv

(* Who has just emptied its memory, or deletes the file with an empty one. *)
LEMMA NothingOld ==
  ASSUME NEW n \in Nodes, NEW w \in Workers, mem'[n] = EmptyBag,
         pc'[n][w] # "add", \A u \in Workers \ {w} : pc'[n][u] \notin Busy
  PROVE  ~Old(n)'
BY EmptyHasNothing DEF Old, Stale, Busy

LEMMA ToldStep ==
  ASSUME IInv, Calm, NEW n \in Nodes, StepOf(n)
  PROVE  \A k \in Nodes : ~Excused(k)' => Told(k)'
<1> DEFINE Goal == \A k \in Nodes : ~Excused(k)' => Told(k)'
           Kept(k) == ~Excused(k)' => Told(k)'
<1> SUFFICES Goal
    OBVIOUS
<1> USE DEF At, disk
<1>t. TypeOK
      BY DEF IInv
<1>l. Labels = {"idle", "save", "write", "reloaded", "removed", "reload", "load", "add", "remove", "delete"}
      BY DEF Labels, Busy
<1>w. Workers = {"operator", "handler", "request"}
      BY DEF Workers
<1>o. ASSUME NEW w \in Workers, NEW l \in Labels \ {"add"}, Goto(n, w, l),
             file' = file, mem' = mem, got' = got
      PROVE  Old(n)' => Old(n)
      BY <1>t, <1>o, Moves DEF Old, Stale
<1>e. ASSUME NEW w \in Workers, NEW l, Goto(n, w, l), untold \subseteq untold'
      PROVE  ~Excused(n)' => ~Excused(n)
      BY <1>t, <1>e, Moves DEF Excused
<1>k. (\A k \in Nodes \ {n} : Kept(k)) /\ Kept(n) => Goal
      OBVIOUS
<1> HIDE DEF Goal, Kept
<1>1. CASE \E o \in Ops : Begin(n, o)
  <2>1. PICK o \in Ops : Begin(n, o)
        BY <1>1
  <2>2. FirstStep(o) \in Labels \ {"add"}
        BY <1>l, OpsAssumption DEF FirstStep, AllOps
  <2>3. /\ pc[n]["operator"] = "idle" /\ Goto(n, "operator", FirstStep(o))
        /\ UNCHANGED <<file, mem, got, queue, untold>>
        BY <2>1 DEF Begin
  <2>4. \A k \in Nodes \ {n} : Kept(k)
        BY <2>3, OthersTold DEF Kept
  <2>5. (Old(n)' => Old(n)) /\ (~Excused(n)' => ~Excused(n))
        BY <1>w, <2>2, <2>3, <1>o, <1>e
  <2>6. Kept(n)
        BY <1>t, <1>w, <2>3, <2>5, Moves, SelfTold DEF Kept
  <2> QED BY <1>k, <2>4, <2>6 DEF Goal
<1>2. CASE Truncate(n) \/ SaveConfig(n)
  <2>1. file' # NoFile
    <3>1. CASE Truncate(n)
          BY <3>1 DEF Truncate, NoFile, Partial
    <3>2. CASE SaveConfig(n)
      <4>1. file # NoFile
            BY <3>2 DEF SaveConfig, IInv, Wanted
      <4> QED BY <1>t, <3>2, <4>1 DEF SaveConfig, TypeOK, NoFile, Partial
    <3> QED BY <1>2, <3>1, <3>2
  <2>2. pc'[n]["operator"] \in {"write", "reload"}
        BY <1>t, <1>2, <1>w, Moves DEF Truncate, SaveConfig
  <2>3. \A k \in Nodes : ToldOfReload(k)'
        BY <2>2 DEF ToldOfReload
  <2> QED BY <2>1, <2>3 DEF Told, Goal
<1>3. CASE SaveFails(n)
  <2>1. /\ pc[n]["operator"] \in {"save", "write"} /\ Goto(n, "operator", "reload")
        /\ UNCHANGED <<file, mem, got, queue, untold>>
        BY <1>3 DEF SaveFails
  <2>2. pc'[n]["operator"] = "reload" /\ pc'[n]["handler"] = pc[n]["handler"]
        BY <1>t, <1>w, <2>1, Moves
  <2>3. \A k \in Nodes \ {n} : Kept(k)
        BY <2>1, <2>2, OthersTold DEF Kept
  <2>4. (Old(n)' => Old(n)) /\ (~Excused(n)' => ~Excused(n))
        BY <1>l, <1>w, <2>1, <1>o, <1>e
  <2>5. Kept(n)
        BY <2>1, <2>2, <2>4, SelfTold DEF Kept
  <2> QED BY <1>k, <2>3, <2>5
<1>4. CASE Warns(n) \/ EnqueueFails(n)
  <2>1. /\ pc[n]["operator"] \in {"reloaded", "removed"} /\ Goto(n, "operator", "idle")
        /\ UNCHANGED <<file, mem, got, queue>> /\ NobodyHears(n)
        BY <1>4 DEF Warns, EnqueueFails
  <2>2. pc'[n]["handler"] = pc[n]["handler"]
        BY <1>t, <1>w, <2>1, Moves
  <2>3. \A k \in Nodes \ {n} : Kept(k)
        BY <2>1 DEF Kept, NobodyHears, Excused
  <2>4. (Old(n)' => Old(n)) /\ (~Excused(n)' => ~Excused(n))
        BY <1>l, <1>w, <2>1, <1>o, <1>e DEF NobodyHears
  <2>5. Kept(n)
        BY <2>1, <2>2, <2>4, SelfTold DEF Kept
  <2> QED BY <1>k, <2>3, <2>5
<1>5. CASE FireMessage(n)
  <2>1. /\ pc[n]["operator"] \in {"reloaded", "removed"} /\ Goto(n, "operator", "idle")
        /\ UNCHANGED <<file, mem, got, untold>>
        /\ \E m \in Messages : Post(n, m, Nodes \ {n}) /\ m = (IF pc[n]["operator"] = "removed" THEN "RemoveMap" ELSE "ReloadMap")
        BY <1>5 DEF FireMessage, Messages
  <2>2. PICK m \in Messages : Post(n, m, Nodes \ {n}) /\ m = (IF pc[n]["operator"] = "removed" THEN "RemoveMap" ELSE "ReloadMap")
        BY <2>1
  <2>3. ASSUME NEW k \in Nodes \ {n}
        PROVE  queue'[k][m] > 0 /\ \A x \in Messages : queue[k][x] > 0 => queue'[k][x] > 0
        BY <1>t, <2>2 DEF Post, TypeOK
  <2>4. queue'[n] = queue[n]
        BY <2>2 DEF Post
  <2>5. pc'[n]["handler"] = pc[n]["handler"]
        BY <1>t, <1>w, <2>1, Moves
  <2>6. \A k \in Nodes \ {n} : Kept(k)
        BY <2>1, <2>2, <2>3, OthersTold DEF Kept
  <2>7. (Old(n)' => Old(n)) /\ (~Excused(n)' => ~Excused(n))
        BY <1>l, <1>w, <2>1, <1>o, <1>e
  <2>8. Kept(n)
        BY <2>1, <2>4, <2>5, <2>7, SelfTold DEF Kept
  <2> QED BY <1>k, <2>6, <2>8
<1>6. CASE HandleReload(n) \/ HandleRemove(n)
  <2>1. PICK l \in {"reload", "remove"}, m \in Messages :
             /\ Take(n, m) /\ Goto(n, "handler", l)
             /\ l = "reload" <=> m = "ReloadMap"
        BY <1>6 DEF HandleReload, HandleRemove, Messages
  <2>2. UNCHANGED <<file, mem, got, untold>> /\ pc[n]["handler"] = "idle"
        BY <1>6 DEF HandleReload, HandleRemove
  <2>3. pc'[n]["handler"] = l /\ pc'[n]["operator"] = pc[n]["operator"]
        BY <1>t, <1>w, <2>1, Moves
  <2>4. /\ \A k \in Nodes \ {n} : queue'[k] = queue[k]
        /\ \A x \in Messages \ {m} : queue'[n][x] = queue[n][x]
        BY <1>t, <2>1 DEF Take, TypeOK
  <2>5. \A k \in Nodes \ {n} : Kept(k)
        BY <2>2, <2>3, <2>4, OthersTold DEF Kept
  <2>6. (Old(n)' => Old(n)) /\ (~Excused(n)' => ~Excused(n))
        BY <1>l, <1>w, <2>1, <2>2, <1>o, <1>e
  <2>7. Kept(n)
        BY <2>1, <2>2, <2>3, <2>4, <2>6, SelfTold DEF Kept, Messages
  <2> QED BY <1>k, <2>5, <2>7
<1>7. CASE Request(n)
  <2>1. Goto(n, "request", "load") /\ UNCHANGED <<file, mem, got, untold, queue>>
        BY <1>7 DEF Request
  <2>2. pc'[n]["handler"] = pc[n]["handler"] /\ pc'[n]["operator"] = pc[n]["operator"]
        BY <1>t, <1>w, <2>1, Moves
  <2>3. \A k \in Nodes \ {n} : Kept(k)
        BY <2>1, <2>2, OthersTold DEF Kept
  <2>4. (Old(n)' => Old(n)) /\ (~Excused(n)' => ~Excused(n))
        BY <1>l, <1>w, <2>1, <1>o, <1>e
  <2>5. Kept(n)
        BY <2>1, <2>2, <2>4, SelfTold DEF Kept
  <2> QED BY <1>k, <2>3, <2>5
<1>8. CASE Expire(n)
  <2>1. PICK m \in Messages : Take(n, m)
        BY <1>8 DEF Expire
  <2>2. \A k \in Nodes \ {n} : queue'[k] = queue[k]
        BY <1>t, <2>1 DEF Take, TypeOK
  <2>3. /\ UNCHANGED <<file, pc>>
        /\ \A k \in Nodes \ {n} : untold' \cap {k} = untold \cap {k}
        BY <1>8 DEF Expire
  <2>4. \A k \in Nodes \ {n} : Kept(k)
        BY <2>2, <2>3, OthersTold DEF Kept
  <2>5. Kept(n)
        BY <1>8 DEF Expire, Kept, Excused
  <2> QED BY <1>k, <2>4, <2>5
<1>9. CASE Restart(n)
  <2>1. mem'[n] = EmptyBag /\ \A w \in Workers : pc'[n][w] = "idle"
        BY <1>t, <1>9 DEF Restart, TypeOK, AllIdle
  <2>2. Kept(n)
        BY <1>w, <2>1, NothingOld DEF Kept, Told, Busy
  <2>3. ASSUME NEW k \in Nodes \ {n} PROVE Kept(k)
    <3>1. CASE pc[n]["operator"] \in ToTell
          BY <1>9, <3>1 DEF Restart, Kept, Excused
    <3>2. CASE pc[n]["operator"] \notin ToTell
      <4>1. untold' = untold \ {n} /\ file' = file /\ queue'[k] = queue[k]
            BY <1>t, <1>9, <3>2 DEF Restart, TypeOK
      <4>2. untold' \cap {k} = untold \cap {k}
            BY <4>1
      <4> QED BY <3>2, <4>1, <4>2, OthersTold DEF Kept, ToTell
    <3> QED BY <3>1, <3>2
  <2> QED BY <1>k, <2>2, <2>3
<1>10. ASSUME NEW w \in Workers, Loads(n, w) PROVE Goal
  <2>1. /\ UNCHANGED <<file, queue>> /\ pc[n][w] \in {"load", "add"}
        /\ \E l \in {"add", "idle", "reloaded"} : Goto(n, w, l)
        /\ untold \subseteq untold'
        BY <1>10 DEF Loads, ReadFile, LoadFails, AddMap, NobodyHears
  <2>2. \A u \in Workers \ {w} : pc'[n][u] = pc[n][u]
        BY <1>t, <2>1, Moves
  <2>3. ~Excused(n)' => ~Excused(n)
        BY <2>1, <1>e
  <2>4. Old(n)' => Old(n)
    <3>1. CASE ReadFile(n, w)
      <4>1. /\ mem' = mem /\ got'[n][w] = file /\ \A u \in Workers \ {w} : got'[n][u] = got[n][u]
            BY <1>t, <3>1 DEF ReadFile, TypeOK
      <4> QED BY <2>1, <2>2, <4>1 DEF Old, Stale
    <3>2. CASE LoadFails(n, w)
          BY <1>l, <2>1, <1>o, <3>2 DEF LoadFails
    <3>3. CASE AddMap(n, w)
      <4>1. /\ mem'[n] = mem[n] (+) SetToBag({got[n][w]}) /\ IsABag(mem[n])
            /\ \A u \in Workers \ {w} : got'[n][u] = got[n][u]
            /\ pc[n][w] = "add" /\ pc'[n][w] # "add"
            BY <1>t, <1>w, <3>3, Moves DEF AddMap, TypeOK
      <4>2. BagToSet(mem'[n]) = BagToSet(mem[n]) \cup {got[n][w]}
            BY <4>1, OneMore
      <4> QED BY <2>1, <2>2, <4>1, <4>2 DEF Old, Stale
    <3> QED BY <1>10, <3>1, <3>2, <3>3 DEF Loads
  <2>5. Kept(n)
        BY <1>w, <2>1, <2>2, <2>3, <2>4, SelfTold DEF Kept
  <2>6. ASSUME NEW k \in Nodes \ {n} PROVE Kept(k)
    <3>1. CASE w = "operator" /\ LoadFails(n, w) /\ file # NoFile
          BY <3>1 DEF LoadFails, NobodyHears, Kept, Excused
    <3>2. CASE ~(w = "operator" /\ LoadFails(n, w) /\ file # NoFile)
      <4>1. untold' = untold
            BY <1>10, <3>2 DEF Loads, ReadFile, LoadFails, AddMap
      <4>2. CASE w # "operator"
            BY <1>w, <2>1, <2>2, <4>1, <4>2, OthersTold DEF Kept
      <4>3. CASE w = "operator"
        <5>1. file # NoFile => ReadFile(n, w) \/ AddMap(n, w)
              BY <1>10, <3>2, <4>3 DEF Loads
        <5>2. file # NoFile => Goto(n, w, "add") \/ Goto(n, w, "reloaded")
              BY <4>3, <5>1 DEF ReadFile, AddMap
        <5>3. file # NoFile => pc'[n][w] \in {"add", "reloaded"}
              BY <1>t, <5>2, Moves
        <5> QED BY <2>1, <4>1, <4>3, <5>3, OthersTold DEF Kept
      <4> QED BY <4>2, <4>3
    <3> QED BY <3>1, <3>2
  <2> QED BY <1>k, <2>5, <2>6
<1>11. ASSUME NEW w \in {"operator", "handler"}, Removes(n, w) PROVE Goal
  <2>0. w \in Workers
        BY <1>w
  <2>1. /\ queue' = queue /\ \A k \in Nodes \ {n} : k \in untold => k \in untold'
        /\ \E l \in {"load", "delete", "removed", "idle"} : Goto(n, w, l)
        BY <1>11 DEF Removes, ReloadMap, RemoveMap, RemoveConfig, DeleteFails, Removed, UpToDate, NobodyHears
  <2>2. /\ \A u \in Workers \ {w} : pc'[n][u] = pc[n][u]
        /\ pc'[n][w] \in {"load", "delete", "removed", "idle"} /\ raced \subseteq raced'
        BY <1>t, <2>0, <2>1, Moves
  <2>3. Kept(n)
    <3>1. SUFFICES ASSUME n \notin raced' PROVE ~Old(n)'
          BY DEF Kept, Excused, Told
    <3>2. n \notin raced /\ Alone(n) /\ Alone(n)'
          BY <2>2, <3>1, AloneStep DEF IInv
    <3>3. pc[n][w] \in Busy
          BY <1>11 DEF Removes, ReloadMap, RemoveMap, RemoveConfig, DeleteFails, Busy
    <3>4. \A u \in Workers \ {w} : pc'[n][u] \notin Busy
          BY <2>0, <2>2, <3>2, <3>3 DEF Alone
    <3>5. mem'[n] = EmptyBag
      <4>1. CASE ReloadMap(n, w) \/ RemoveMap(n, w)
        <5>1. Goto(n, w, "load") \/ Goto(n, w, "delete")
              BY <4>1 DEF ReloadMap, RemoveMap
        <5>2. pc'[n][w] \in {"load", "delete"}
              BY <1>t, <2>0, <5>1, Moves
        <5> QED BY <2>0, <3>2, <5>2 DEF Alone
      <4>2. CASE RemoveConfig(n, w) \/ DeleteFails(n, w)
            BY <2>0, <3>2, <4>2 DEF Alone, RemoveConfig, DeleteFails, Removed
      <4> QED BY <1>11, <4>1, <4>2 DEF Removes
    <3> QED BY <2>0, <2>2, <3>4, <3>5, NothingOld
  <2>4. ASSUME NEW k \in Nodes \ {n} PROVE Kept(k)
    <3>1. CASE ReloadMap(n, w) \/ RemoveMap(n, w)
      <4>1. /\ file' = file /\ untold' \cap {k} = untold \cap {k}
            /\ Goto(n, w, IF pc[n][w] = "reload" THEN "load" ELSE "delete")
            /\ pc[n][w] \in {"reload", "remove"}
            BY <3>1 DEF ReloadMap, RemoveMap, UpToDate
      <4>2. pc'[n][w] = IF pc[n][w] = "reload" THEN "load" ELSE "delete"
            BY <1>t, <2>0, <4>1, Moves
      <4> QED BY <1>w, <2>1, <2>2, <4>1, <4>2, OthersTold DEF Kept
    <3>2. CASE RemoveConfig(n, w) /\ w = "operator"
      <4>1. file' = NoFile /\ Goto(n, "operator", "removed")
            BY <3>2 DEF RemoveConfig, Removed
      <4>2. pc'[n]["operator"] = "removed"
            BY <1>t, <1>w, <4>1, Moves
      <4>3. ToldOfRemoval(k)'
            BY <4>2 DEF ToldOfRemoval
      <4> QED BY <4>1, <4>3 DEF Kept, Told
    <3>3. CASE RemoveConfig(n, w) /\ w = "handler"
      <4>1. CASE file # NoFile
            BY <3>3, <4>1 DEF RemoveConfig, NobodyHears, Kept, Excused
      <4>2. CASE file = NoFile
        <5>1. file' = file /\ untold' = untold
              BY <3>3, <4>2 DEF RemoveConfig
        <5>2. pc'[n]["operator"] = pc[n]["operator"]
              BY <1>w, <2>2, <3>3
        <5> QED BY <2>1, <5>1, <5>2, OthersTold DEF Kept
      <4> QED BY <4>1, <4>2
    <3>4. CASE DeleteFails(n, w)
      <4>1. file' = file /\ untold' = untold /\ pc[n][w] = "delete"
            BY <3>4 DEF DeleteFails
      <4> QED BY <1>w, <2>1, <2>2, <4>1, OthersTold DEF Kept
    <3> QED BY <1>11, <3>1, <3>2, <3>3, <3>4 DEF Removes
  <2> QED BY <1>k, <2>3, <2>4
<1> QED BY <1>1, <1>2, <1>3, <1>4, <1>5, <1>6, <1>7, <1>8, <1>9, <1>10, <1>11, Steps DEF Goal, Saves, Takes

------------------------------------------------------------------------------
LEMMA NextInductive == IInv /\ Calm /\ [Next]_vars => IInv'
<1> SUFFICES ASSUME IInv, Calm, [Next]_vars PROVE IInv'
    OBVIOUS
<1>1. TypeOK'
      BY NextTypes DEF IInv
<1>2. ASSUME NEW n \in Nodes, StepOf(n) PROVE IInv'
      BY <1>1, <1>2, WantedStep, PlacedStep, AloneStep, ToldStep DEF IInv
<1>3. CASE UNCHANGED vars
  <2> USE <1>3 DEF vars, disk
  <2>1. RemovalHolds' /\ Wanted' /\ \A n \in Nodes : Placed(n)'
        BY DEF IInv, RemovalHolds, Wanted, Placed
  <2>2. \A n \in Nodes \ raced' : Alone(n)'
        BY DEF IInv, Alone
  <2>3. \A n \in Nodes : ~Excused(n)' => Told(n)'
        BY DEF IInv, Excused, Told, Old, Stale, ToldOfRemoval, ToldOfReload
  <2> QED BY <1>1, <2>1, <2>2, <2>3 DEF IInv
<1> QED BY <1>2, <1>3 DEF Next, StepOf

(* When all is quiet nobody is left who still has to be told.              *)
LEMMA WhenSettled == IInv => OnlyExcusedStale /\ PublishedStays
<1> SUFFICES ASSUME IInv, Settled PROVE OnlyExcusedStale /\ PublishedStays
    BY DEF OnlyExcusedStale, PublishedStays
<1>1. \A n \in Nodes : /\ \A m \in Messages : queue[n][m] = 0
                       /\ \A w \in Workers : pc[n][w] = "idle"
      BY DEF Settled, NoMessages, AllIdle
<1>2. \A n \in Nodes : ~ToldOfRemoval(n) /\ ~ToldOfReload(n)
      BY <1>1 DEF ToldOfRemoval, ToldOfReload, Messages, Workers
<1>3. OnlyExcusedStale
      BY <1>2 DEF IInv, OnlyExcusedStale, Told, Old
<1>4. PublishedStays
      BY DEF IInv, Wanted, PublishedStays
<1> QED BY <1>3, <1>4

(* On any number of instances and whatever fails - a save, a delete, a     *)
(* load, a message, an instance - a publish is lost, or an instance keeps  *)
(* an old map, only if a publish overlaps a removal, if the instance was   *)
(* not told, or if its own loads and removals overlapped.                  *)
THEOREM OnlyOverlapsHurt == Spec => SafeAfterRemoval
<1>1. Spec /\ []Calm => []IInv
  <2>1. Init => IInv
        BY InitInductive
  <2>2. IInv /\ Calm /\ [Next]_vars => IInv'
        BY NextInductive
  <2> QED BY <2>1, <2>2, PTL DEF Spec
<1>2. IInv => OnlyExcusedStale /\ PublishedStays
      BY WhenSettled
<1> QED BY <1>1, <1>2, PTL DEF SafeAfterRemoval

------------------------------------------------------------------------------
(* If no operator removes anything no publish can overlap a removal.       *)
NoRemoval == \A n \in Nodes : /\ queue[n]["RemoveMap"] = 0
                              /\ pc[n]["operator"] \notin {"remove", "delete", "removed"}
                              /\ pc[n]["handler"] \notin {"remove", "delete"}

LEMMA NeverRemoved ==
  ASSUME "remove" \notin Ops
  PROVE  Spec => []Calm
<1>1. Init => NoRemoval
      BY DEF Init, NoRemoval, NoMessages, Messages, AllIdle, Workers
<1>2. TypeOK /\ NoRemoval /\ [Next]_vars => NoRemoval'
  <2> SUFFICES ASSUME TypeOK, NoRemoval, [Next]_vars PROVE NoRemoval'
      OBVIOUS
  <2> USE DEF At, disk
  <2>k. ASSUME NEW n \in Nodes, NEW w \in Workers, NEW l, Goto(n, w, l),
               l \notin {"remove", "delete", "removed"},
               \A k \in Nodes : queue'[k]["RemoveMap"] = queue[k]["RemoveMap"]
        PROVE  NoRemoval'
        BY <2>k, Moves DEF NoRemoval, Workers
  <2>1. ASSUME NEW n \in Nodes, StepOf(n) PROVE NoRemoval'
    <3>1. CASE \E o \in Ops : Begin(n, o)
      <4>1. PICK o \in Ops : Begin(n, o)
            BY <3>1
      <4>2. FirstStep(o) \in {"save", "reload"}
            BY OpsAssumption DEF FirstStep, AllOps
      <4> QED BY <2>k, <4>1, <4>2 DEF Begin, Workers
    <3>2. CASE Truncate(n) \/ SaveConfig(n) \/ SaveFails(n) \/ Warns(n) \/ EnqueueFails(n)
          BY <2>k, <3>2 DEF Truncate, SaveConfig, SaveFails, Warns, EnqueueFails, Workers
    <3>3. CASE FireMessage(n)
      <4>1. Post(n, "ReloadMap", Nodes \ {n}) /\ Goto(n, "operator", "idle")
            BY <3>3 DEF FireMessage, NoRemoval
      <4>2. \A k \in Nodes : queue'[k]["RemoveMap"] = queue[k]["RemoveMap"]
            BY <4>1 DEF Post, TypeOK, Messages
      <4> QED BY <2>k, <4>1, <4>2 DEF Workers
    <3>4. CASE HandleReload(n)
          BY <2>k, <3>4 DEF HandleReload, Take, TypeOK, Messages, Workers
    <3>5. CASE HandleRemove(n)
          BY <3>5 DEF HandleRemove, Take, NoRemoval
    <3>6. CASE Request(n)
          BY <2>k, <3>6 DEF Request, Workers
    <3>7. CASE Expire(n)
      <4>1. PICK m \in Messages : Take(n, m)
            BY <3>7 DEF Expire
      <4>2. m = "ReloadMap"
            BY <4>1 DEF Take, NoRemoval, Messages
      <4>3. \A k \in Nodes : queue'[k]["RemoveMap"] = queue[k]["RemoveMap"]
            BY <4>1, <4>2 DEF Take, TypeOK, Messages
      <4> QED BY <3>7, <4>3 DEF Expire, NoRemoval
    <3>8. CASE Restart(n)
          BY <3>8 DEF Restart, NoRemoval, TypeOK, AllIdle, NoMessages, Messages, Workers
    <3>9. ASSUME NEW w \in Workers, Loads(n, w) PROVE NoRemoval'
          BY <2>k, <3>9 DEF Loads, ReadFile, LoadFails, AddMap
    <3>10. ASSUME NEW w \in {"operator", "handler"}, Removes(n, w) PROVE NoRemoval'
      <4>1. ReloadMap(n, w)
            BY <3>10 DEF Removes, RemoveMap, RemoveConfig, DeleteFails, NoRemoval
      <4> QED BY <2>k, <4>1 DEF ReloadMap, Workers
    <3> QED BY <2>1, <3>1, <3>2, <3>3, <3>4, <3>5, <3>6, <3>7, <3>8, <3>9, <3>10, Steps DEF Saves, Takes
  <2>2. CASE UNCHANGED vars
        BY <2>2 DEF vars, NoRemoval
  <2> QED BY <2>1, <2>2 DEF Next, StepOf
<1>3. TypeOK /\ NoRemoval => Calm
      BY DEF Calm, RemovalOpen, NoRemoval, TypeOK, Messages
<1>4. Spec => []TypeOK
      BY Typing
<1> QED BY <1>1, <1>2, <1>3, <1>4, PTL DEF Spec

(* Where services are only published and reloaded what was published last  *)
(* is on disk, and an instance that has been told of every change has it   *)
(* or nothing, unless its own loads overlapped - whatever fails.           *)
THEOREM Convergence ==
  ASSUME "remove" \notin Ops
  PROVE  Spec => [](OnlyExcusedStale /\ PublishedStays)
<1>1. Spec => []Calm
      BY NeverRemoved
<1>2. Spec => SafeAfterRemoval
      BY OnlyOverlapsHurt
<1> QED BY <1>1, <1>2, PTL DEF SafeAfterRemoval
==============================================================================
