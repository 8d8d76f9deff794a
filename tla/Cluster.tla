------------------------------- MODULE Cluster --------------------------------
(***************************************************************************)
(* Several gView.Server instances on one services folder.  An operator     *)
(* publishes, reloads or removes a service on one instance; the instance   *)
(* tells the others through IMessageQueueService, and their message        *)
(* handlers reload or remove the map too.  One service.                    *)
(*                                                                         *)
(* On each instance work at the same time: an operator's call, the handler *)
(* of messages (they are handled one after another) and the one request    *)
(* that has the mutex of FindMap.  A removal from memory is one step here, *)
(* its parts and the mutex are the subject of MapCache; so are readers     *)
(* that keep a writer out, which is one of the reasons for "save" to fail. *)
(***************************************************************************)
EXTENDS Integers, Bags

CONSTANTS Nodes,
          Ops,        \* what operators do, a subset of AllOps
          Failures,   \* what may go wrong, a subset of AllFailures
          MaxOps      \* bound on the operations that are started

AllOps == {"publish", "reload", "remove"}
AllFailures == {"save", "delete", "load", "warnings", "unsent", "expired", "crash"}

ASSUME OpsAssumption == Ops \subseteq AllOps /\ Failures \subseteq AllFailures
ASSUME BoundAssumption == MaxOps \in Nat

VARIABLES file,      \* version of the .mxl in the shared folder, or NoFile, or Partial
          saves,     \* versions written so far
          wanted,    \* the file as the operators alone would have left it
          mem,       \* the bag of versions each instance has in memory
          queue,     \* messages each instance has still to handle
          pc,        \* where the workers of each instance are
          got,       \* the version they have read
          op,        \* what the operator's call on an instance is
          started,   \* operations started so far
          untold,    \* history: the instances a change was not made known to
          raced      \* history: those where a load overlapped another or a removal

disk == <<file, saves, wanted>>
vars == <<disk, mem, queue, pc, got, op, started, untold, raced>>

NoFile == 0
Partial == -1

Workers == {"operator", "handler", "request"}
Messages == {"ReloadMap", "RemoveMap"}
NoMessages == [m \in Messages |-> 0]
AllIdle == [w \in Workers |-> "idle"]
NothingRead == [w \in Workers |-> NoFile]

Init == /\ file = 1
        /\ saves = 1
        /\ wanted = 1
        /\ mem \in [Nodes -> {EmptyBag, SetToBag({1})}]
        /\ queue = [n \in Nodes |-> NoMessages]
        /\ pc = [n \in Nodes |-> AllIdle]
        /\ got = [n \in Nodes |-> NothingRead]
        /\ op = [n \in Nodes |-> "none"]
        /\ started = 0
        /\ untold = {}
        /\ raced = {}

------------------------------------------------------------------------------
At(n, w, label) == pc[n][w] = label

(* The history variables only: nothing in the code knows of them.          *)
Busy == {"reload", "load", "add", "remove", "delete"}
Races(n, w, label) == label \in Busy /\ \E u \in Workers \ {w} : pc[n][u] \in Busy

NobodyHears(n) == untold' = untold \cup (Nodes \ {n})
UpToDate(n) == untold' = untold \ {n}

Goto(n, w, label) == /\ pc' = [pc EXCEPT ![n][w] = label]
                     /\ raced' = IF Races(n, w, label) THEN raced \cup {n} ELSE raced

FirstStep(o) == IF o = "publish" THEN "save" ELSE o

Begin(n, o) == /\ At(n, "operator", "idle")
               /\ started < MaxOps
               /\ started' = started + 1
               /\ op' = [op EXCEPT ![n] = o]
               /\ Goto(n, "operator", FirstStep(o))
               /\ UNCHANGED <<disk, mem, queue, got, untold>>

------------------------------------------------------------------------------
(* AddMap writes the .mxl, or logs that it could not.                      *)
Truncate(n) == /\ At(n, "operator", "save")
               /\ file' = Partial
               /\ wanted' = Partial
               /\ Goto(n, "operator", "write")
               /\ UNCHANGED <<saves, mem, queue, got, op, started, untold>>

OtherWriter(n) == \E p \in Nodes \ {n} : At(p, "operator", "write")

(* What two writers have left nobody knows, what was deleted is gone.      *)
SaveConfig(n) == /\ At(n, "operator", "write")
                 /\ saves' = saves + 1
                 /\ \E v \in {saves', Partial} :
                      /\ v = Partial => file # Partial \/ OtherWriter(n)
                      /\ file' = IF file = NoFile THEN NoFile ELSE v
                      /\ wanted' = IF wanted = NoFile THEN NoFile ELSE v
                 /\ Goto(n, "operator", "reload")
                 /\ UNCHANGED <<mem, queue, got, op, started, untold>>

SaveFails(n) == /\ \/ At(n, "operator", "save") /\ ("save" \in Failures \/ OtherWriter(n))
                   \/ At(n, "operator", "write") /\ "save" \in Failures
                /\ Goto(n, "operator", "reload")
                /\ UNCHANGED <<disk, mem, queue, got, op, started, untold>>

------------------------------------------------------------------------------
(* RemoveMap of the document takes out one map of that name.               *)
RemoveFromMemory(n) ==
  IF mem[n] = EmptyBag
  THEN UNCHANGED mem
  ELSE \E v \in BagToSet(mem[n]) : mem' = [mem EXCEPT ![n] = @ (-) SetToBag({v})]

(* ReloadMap: out of memory, and LoadMap.  Mistakes to mutate with:        *)
(* reloading only what is not in memory, ...                               *)
ReloadIfMissing(n, w) == /\ At(n, w, "reload")
                         /\ UpToDate(n)
                         /\ Goto(n, w, IF mem[n] = EmptyBag THEN "load" ELSE "idle")
                         /\ UNCHANGED <<disk, mem, queue, got, op, started>>

ReloadMap(n, w) == /\ At(n, w, "reload")
                   /\ RemoveFromMemory(n)
                   /\ UpToDate(n)
                   /\ Goto(n, w, "load")
                   /\ UNCHANGED <<disk, queue, got, op, started>>

ReadFile(n, w) == /\ At(n, w, "load")
                  /\ file \notin {NoFile, Partial}
                  /\ got' = [got EXCEPT ![n][w] = file]
                  /\ Goto(n, w, "add")
                  /\ UNCHANGED <<disk, mem, queue, op, started, untold>>

(* An operator whose reload failed tells nobody, of a save neither.        *)
LoadFails(n, w) == /\ At(n, w, "load")
                   /\ file \in {NoFile, Partial} \/ "load" \in Failures
                   /\ IF w = "operator" /\ file # NoFile THEN NobodyHears(n) ELSE UNCHANGED untold
                   /\ Goto(n, w, "idle")
                   /\ UNCHANGED <<disk, mem, queue, got, op, started>>

AddMap(n, w) == /\ At(n, w, "add")
                /\ mem' = [mem EXCEPT ![n] = @ (+) SetToBag({got[n][w]})]
                /\ got' = [got EXCEPT ![n][w] = NoFile]
                /\ Goto(n, w, IF w = "operator" THEN "reloaded" ELSE "idle")
                /\ UNCHANGED <<disk, queue, op, started, untold>>

(* A published map with warnings throws them before the message is sent.   *)
Warns(n) == /\ At(n, "operator", "reloaded")
            /\ op[n] = "publish"
            /\ "warnings" \in Failures
            /\ NobodyHears(n)
            /\ Goto(n, "operator", "idle")
            /\ UNCHANGED <<disk, mem, queue, got, op, started>>

------------------------------------------------------------------------------
(* RemoveMap of the deployment manager: ... leaving it in memory, ...      *)
DeleteOnly(n, w) == /\ At(n, w, "remove")
                    /\ UpToDate(n)
                    /\ Goto(n, w, "delete")
                    /\ UNCHANGED <<disk, mem, queue, got, op, started>>

RemoveMap(n, w) == /\ At(n, w, "remove")
                   /\ RemoveFromMemory(n)
                   /\ UpToDate(n)
                   /\ Goto(n, w, "delete")
                   /\ UNCHANGED <<disk, queue, got, op, started>>

Removed(n, w) == /\ wanted' = IF w = "operator" THEN NoFile ELSE wanted
                 /\ Goto(n, w, IF w = "operator" THEN "removed" ELSE "idle")
                 /\ UNCHANGED <<saves, mem, queue, got, op, started>>

(* The others do not hear of a file that a handler has found and deleted.  *)
RemoveConfig(n, w) == /\ At(n, w, "delete")
                      /\ file' = NoFile
                      /\ IF w = "handler" /\ file # NoFile THEN NobodyHears(n) ELSE UNCHANGED untold
                      /\ Removed(n, w)

(* RemoveConfig logs its exceptions, and nobody reads its false.           *)
DeleteFails(n, w) == /\ At(n, w, "delete")
                     /\ "delete" \in Failures \/ \E p \in Nodes : At(p, "operator", "write")
                     /\ Removed(n, w)
                     /\ UNCHANGED <<file, untold>>

------------------------------------------------------------------------------
Post(n, m, to) == queue' = [k \in Nodes |-> IF k \in to THEN [queue[k] EXCEPT ![m] = @ + 1]
                                                        ELSE queue[k]]

(* FireReloadMapMessage, FireRemoveMapMessage: into every queue but one's  *)
(* own.                                                                    *)
FireMessage(n) == /\ \/ At(n, "operator", "reloaded") /\ Post(n, "ReloadMap", Nodes \ {n})
                     \/ At(n, "operator", "removed") /\ Post(n, "RemoveMap", Nodes \ {n})
                  /\ Goto(n, "operator", "idle")
                  /\ UNCHANGED <<disk, mem, got, op, started, untold>>

(* EnqueueAsync logs its exceptions and returns false, which nobody reads. *)
EnqueueFails(n) == /\ pc[n]["operator"] \in {"reloaded", "removed"}
                   /\ "unsent" \in Failures
                   /\ NobodyHears(n)
                   /\ Goto(n, "operator", "idle")
                   /\ UNCHANGED <<disk, mem, queue, got, op, started>>

(* ... or taking a message no one has sent.                                *)
TakeAny(n, m) == queue' = [queue EXCEPT ![n][m] = @ - 1]

Take(n, m) == /\ queue[n][m] > 0
              /\ queue' = [queue EXCEPT ![n][m] = @ - 1]

(* Items live for ItemLifetimeSeconds.                                     *)
Expire(n) == /\ "expired" \in Failures
             /\ \E m \in Messages : Take(n, m)
             /\ untold' = untold \cup {n}
             /\ UNCHANGED <<disk, mem, pc, got, op, started, raced>>

(* ReloadMapMessageHandler and RemoveMapMessageHandler call what operators *)
(* call; the latter deletes the files, too.                                *)
HandleReload(n) == /\ At(n, "handler", "idle")
                   /\ Take(n, "ReloadMap")
                   /\ Goto(n, "handler", "reload")
                   /\ UNCHANGED <<disk, mem, got, op, started, untold>>

HandleRemove(n) == /\ At(n, "handler", "idle")
                   /\ Take(n, "RemoveMap")
                   /\ Goto(n, "handler", "remove")
                   /\ UNCHANGED <<disk, mem, got, op, started, untold>>

------------------------------------------------------------------------------
(* A map request loads what is not in memory.                              *)
Request(n) == /\ At(n, "request", "idle")
              /\ mem[n] = EmptyBag
              /\ Goto(n, "request", "load")
              /\ UNCHANGED <<disk, mem, queue, got, op, started, untold>>

(* A new process has an empty memory and a queue with a name of its own;   *)
(* who has changed the file and not yet told of it never will.             *)
ToTell == {"write", "reload", "load", "add", "reloaded", "removed"}

Restart(n) == /\ At(n, "operator", "idle") \/ "crash" \in Failures
              /\ mem' = [mem EXCEPT ![n] = EmptyBag]
              /\ queue' = [queue EXCEPT ![n] = NoMessages]
              /\ pc' = [pc EXCEPT ![n] = AllIdle]
              /\ got' = [got EXCEPT ![n] = NothingRead]
              /\ untold' = (IF pc[n]["operator"] \in ToTell THEN untold \cup Nodes ELSE untold) \ {n}
              /\ raced' = raced \ {n}
              /\ UNCHANGED <<disk, op, started>>

Load(n, w) == ReadFile(n, w) \/ LoadFails(n, w) \/ AddMap(n, w)
Call(n, w) == \/ ReloadMap(n, w) \/ RemoveMap(n, w) \/ RemoveConfig(n, w) \/ DeleteFails(n, w)
              \/ Load(n, w)

Operation(n) == \/ Truncate(n) \/ SaveConfig(n) \/ SaveFails(n) \/ Warns(n)
                \/ FireMessage(n) \/ EnqueueFails(n) \/ Call(n, "operator")
Handler(n) == HandleReload(n) \/ HandleRemove(n) \/ Call(n, "handler")
Server(n) == Expire(n) \/ Request(n) \/ Load(n, "request") \/ Restart(n)

Next == \E n \in Nodes : \/ \E o \in Ops : Begin(n, o)
                         \/ Operation(n) \/ Handler(n) \/ Server(n)

Spec == Init /\ [][Next]_vars

(* Operations go on, and every instance keeps polling its queue.           *)
LiveSpec == Spec /\ \A n \in Nodes : WF_vars(Operation(n)) /\ WF_vars(Handler(n))

------------------------------------------------------------------------------
(* Every variable stays in its range; in particular no message is handled  *)
(* that was not sent, and no half-written file gets into memory.           *)
Labels == Busy \cup {"idle", "save", "write", "reloaded", "removed"}

TypeOK == /\ file \in Nat \cup {Partial}
          /\ saves \in Nat \ {0}
          /\ wanted \in Nat \cup {Partial}
          /\ \A n \in Nodes : IsABag(mem[n]) /\ BagToSet(mem[n]) \subseteq Nat
          /\ DOMAIN mem = Nodes
          /\ queue \in [Nodes -> [Messages -> Nat]]
          /\ pc \in [Nodes -> [Workers -> Labels]]
          /\ got \in [Nodes -> [Workers -> Nat]]
          /\ op \in [Nodes -> Ops \cup {"none"}]
          /\ started \in Nat
          /\ untold \subseteq Nodes
          /\ raced \subseteq Nodes

Settled == \A n \in Nodes : pc[n] = AllIdle /\ queue[n] = NoMessages

(* An instance has a map that is not the one on disk.                      *)
Stale(n) == \E v \in BagToSet(mem[n]) : v # file
Excused(n) == n \in untold \cup raced

(* "writes .mxl to ServicesPath": what an operator published last is still *)
(* on disk when all messages are handled.                                  *)
PublishedStays == Settled => wanted = NoFile \/ file = wanted

(* A publish is under way while some instance has still to hear of, or to  *)
(* send, or to carry out, a removal.                                       *)
RemovalOpen == \E n \in Nodes : \/ queue[n]["RemoveMap"] > 0
                                \/ pc[n]["operator"] \in {"remove", "delete", "removed"}
                                \/ pc[n]["handler"] \in {"remove", "delete"}
Publishing == {"save", "write", "reload", "load", "add", "reloaded"}
PublishOpen == \E n \in Nodes : op[n] = "publish" /\ pc[n]["operator"] \in Publishing

Calm == ~(RemovalOpen /\ PublishOpen)

(* A message that is not sent, or not kept, or a load at the same time on  *)
(* the same instance is the only other way.                                *)
OnlyExcusedStale == Settled => \A n \in Nodes : Stale(n) => Excused(n)

(* It is this overlap alone that loses a published map: a publish that     *)
(* waits until every instance has heard of a removal is kept, whatever     *)
(* fails; and an instance that is told of every change, by a message that  *)
(* is sent and not expired, or that restarts, has no old map, if its loads *)
(* and removals of the service came one after another.                     *)
SafeAfterRemoval == []Calm => [](OnlyExcusedStale /\ PublishedStays)

(* Then an instance does not stay stale either: handlers and reloads catch *)
(* up with whatever was published or removed, with the same exceptions.    *)
CatchesUp == []Calm => \A n \in Nodes : Stale(n) ~> (~Stale(n) \/ Excused(n))
==============================================================================
