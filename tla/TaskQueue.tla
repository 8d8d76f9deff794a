------------------------------ MODULE TaskQueue ------------------------------
(***************************************************************************)
(* The task queue of gView.Server (AppCode/TaskQueue.cs) with the counter  *)
(* it is built on (ConcurrentCounter.cs) and the hosted service that       *)
(* drains it (TaskQueueDequeueService.cs).  Every OGC, GeoServices and     *)
(* interpreter request of the server runs inside AwaitRequest.             *)
(*                                                                         *)
(* A request is one call of AwaitRequest and runs on a thread of its own.  *)
(* lock(_runningTasks) is held exactly at the control states "claim" of a  *)
(* request and "loop" of the dequeue service.  ReleaseTask does not take   *)
(* it, so a slot can be given back between any two steps of the others.    *)
(***************************************************************************)
EXTENDS Integers, Sequences, FiniteSets

CONSTANTS Requests,          \* the calls of AwaitRequest
          MaxRunningTasks,   \* _maxRunningTasks
          MinIdle, MaxIdle   \* 10 and 100 ms in the code, in steps of 10 ms

ASSUME LimitAssumption == MaxRunningTasks \in Nat \ {0}
ASSUME IdleAssumption == MinIdle \in Nat /\ MaxIdle \in Nat /\ MinIdle < MaxIdle

VARIABLES running,         \* _runningTasks.count
          queue,           \* _queueSemaphores, one semaphore per request
          dequeued,        \* the requests whose semaphore has IsDequeued
          pc,              \* where each request is in AwaitRequest
          dpc,             \* where the dequeue service is
          dequeueCount,    \* iterations its for loop has left
          queuedTasks,     \* CurrentQueuedTasks
          idle,            \* _idleDuration
          host             \* "stopping" once stoppingToken is cancelled

requestVars == <<queue, dequeued, pc>>
serviceVars == <<dpc, dequeueCount, queuedTasks, idle>>
vars == <<running, requestVars, serviceVars, host>>

RequestStates == {"outside", "enter", "claim", "enqueue", "poll",
                  "method", "release", "done"}

Init == /\ running = 0
        /\ queue = << >>
        /\ dequeued = {}
        /\ pc = [r \in Requests |-> "outside"]
        /\ dpc = "wait"
        /\ dequeueCount = 0
        /\ queuedTasks = 0
        /\ idle = MaxIdle
        /\ host = "up"

LockFree == dpc # "loop" /\ \A r \in Requests : pc[r] # "claim"

(* ConcurrentCounter: either call is atomic by a lock of its own.          *)
Increment == running' = running + 1
Decrement == running' = running - 1

Goto(r, from, to) == pc[r] = from /\ pc' = [pc EXCEPT ![r] = to]

------------------------------------------------------------------------------
(* AwaitRequest, one thread per request.                                   *)

AwaitRequest(r) == /\ Goto(r, "outside", "enter")
                   /\ UNCHANGED <<running, queue, dequeued, serviceVars, host>>

(* Mistakes to mutate with: admission that does not take the lock ...      *)
FindsFreeUnlocked(r) == /\ running < MaxRunningTasks
                        /\ Goto(r, "enter", "claim")
                        /\ UNCHANGED <<running, queue, dequeued, serviceVars, host>>

(* ... or that compares with > where the code has >=.                      *)
FindsFreeAtLimit(r) == /\ LockFree
                       /\ running <= MaxRunningTasks
                       /\ Goto(r, "enter", "claim")
                       /\ UNCHANGED <<running, queue, dequeued, serviceVars, host>>

(* ContinueWithoutQueueing reads the counter under the lock and either     *)
(* leaves with false, or keeps the lock until it has incremented.          *)
FindsFull(r) == /\ LockFree
                /\ running >= MaxRunningTasks
                /\ Goto(r, "enter", "enqueue")
                /\ UNCHANGED <<running, queue, dequeued, serviceVars, host>>

FindsFree(r) == /\ LockFree
                /\ running < MaxRunningTasks
                /\ Goto(r, "enter", "claim")
                /\ UNCHANGED <<running, queue, dequeued, serviceVars, host>>

Claim(r) == /\ Goto(r, "claim", "method")
            /\ Increment
            /\ UNCHANGED <<queue, dequeued, serviceVars, host>>

Enqueue(r) == /\ Goto(r, "enqueue", "poll")
              /\ queue' = Append(queue, r)
              /\ dequeued' = dequeued \ {r}
              /\ UNCHANGED <<running, serviceVars, host>>

(* The loop around Task.Delay(10); a poll that finds false changes nothing. *)
IsReadyToRumble(r) == /\ r \in dequeued
                      /\ Goto(r, "poll", "method")
                      /\ UNCHANGED <<running, queue, dequeued, serviceVars, host>>

(* A mistake to mutate with: a catch that leaves past the finally.         *)
ThrowsPastFinally(r) == /\ Goto(r, "method", "done")
                        /\ UNCHANGED <<running, queue, dequeued, serviceVars, host>>

(* Returning true, or false from the catch: both go through the finally.   *)
MethodReturns(r) == /\ Goto(r, "method", "release")
                    /\ UNCHANGED <<running, queue, dequeued, serviceVars, host>>

MethodThrows(r) == /\ Goto(r, "method", "release")
                   /\ UNCHANGED <<running, queue, dequeued, serviceVars, host>>

ReleaseTask(r) == /\ Goto(r, "release", "done")
                  /\ Decrement
                  /\ UNCHANGED <<queue, dequeued, serviceVars, host>>

------------------------------------------------------------------------------
(* The dequeue service: Task.Delay, then Dequeue.                          *)

(* Mistakes to mutate with: dropping the semaphore that was dequeued, ...  *)
DequeueNextUnflagged == /\ dpc = "loop"
                        /\ dequeueCount > 0
                        /\ dequeueCount' = dequeueCount - 1
                        /\ IF queue # << >>
                           THEN queue' = Tail(queue) /\ Increment
                           ELSE UNCHANGED <<running, queue>>
                        /\ UNCHANGED <<dequeued, pc, dpc, queuedTasks, idle, host>>

(* ... a service that ends when there was nothing to do, ...               *)
DequeueEndForGood == /\ dpc = "loop"
                     /\ dequeueCount <= 0
                     /\ dpc' = IF queue = << >> THEN "stopped" ELSE "tally"
                     /\ UNCHANGED <<running, requestVars, dequeueCount, queuedTasks, idle, host>>

(* ... and a pace that is not cut off at MinIdle and MaxIdle.              *)
TallyUnclamped == /\ dpc = "tally"
                  /\ dpc' = "wait"
                  /\ queuedTasks' = Len(queue)
                  /\ idle' = IF queue # << >> THEN idle - 10 ELSE idle + 10
                  /\ UNCHANGED <<running, requestVars, dequeueCount, host>>

DequeueBegin == /\ dpc = "wait"
                /\ host = "up"
                /\ LockFree
                /\ dpc' = "loop"
                /\ dequeueCount' = MaxRunningTasks - running
                /\ UNCHANGED <<running, requestVars, queuedTasks, idle, host>>

(* One iteration.  TryDequeue, Increment and IsDequeued = true are one step: *)
(* under the lock only Enqueue and ReleaseTask run beside them, and those  *)
(* commute with each of the three.                                         *)
DequeueNext == /\ dpc = "loop"
               /\ dequeueCount > 0
               /\ dequeueCount' = dequeueCount - 1
               /\ IF queue # << >>
                  THEN /\ queue' = Tail(queue)
                       /\ Increment
                       /\ dequeued' = dequeued \cup {Head(queue)}
                  ELSE UNCHANGED <<running, queue, dequeued>>
               /\ UNCHANGED <<pc, dpc, queuedTasks, idle, host>>

DequeueEnd == /\ dpc = "loop"
              /\ dequeueCount <= 0
              /\ dpc' = "tally"
              /\ UNCHANGED <<running, requestVars, dequeueCount, queuedTasks, idle, host>>

(* Out of the lock: count what is left and adapt the pace.                 *)
Tally == /\ dpc = "tally"
         /\ dpc' = "wait"
         /\ queuedTasks' = Len(queue)
         /\ idle' = IF queue # << >>
                    THEN IF idle - 10 > MinIdle THEN idle - 10 ELSE MinIdle
                    ELSE IF idle + 10 < MaxIdle THEN idle + 10 ELSE MaxIdle
         /\ UNCHANGED <<running, requestVars, dequeueCount, host>>

ServiceStops == /\ host = "stopping"
                /\ dpc = "wait"
                /\ dpc' = "stopped"
                /\ UNCHANGED <<running, requestVars, dequeueCount, queuedTasks, idle, host>>

(* The host cancels stoppingToken.                                         *)
StopHost == /\ host = "up"
            /\ host' = "stopping"
            /\ UNCHANGED <<running, requestVars, serviceVars>>

------------------------------------------------------------------------------
RequestStep(r) == \/ AwaitRequest(r)  \/ FindsFull(r)       \/ FindsFree(r)
                  \/ Claim(r)         \/ Enqueue(r)         \/ IsReadyToRumble(r)
                  \/ MethodReturns(r) \/ MethodThrows(r)    \/ ReleaseTask(r)

ServiceStep == DequeueBegin \/ DequeueNext \/ DequeueEnd \/ Tally \/ ServiceStops

Next == StopHost \/ ServiceStep \/ \E r \in Requests : RequestStep(r)

Spec == Init /\ [][Next]_vars

(* A started thread goes on and a map request comes to an end.  The lock   *)
(* is taken with strong fairness: its holders keep it for a few steps, the *)
(* service sleeps at least MinIdle between two rounds.                     *)
Fairness == /\ \A r \in Requests :
                 /\ SF_vars(FindsFull(r) \/ FindsFree(r))
                 /\ WF_vars(Claim(r) \/ Enqueue(r) \/ IsReadyToRumble(r))
                 /\ WF_vars(MethodReturns(r) \/ MethodThrows(r))
                 /\ WF_vars(ReleaseTask(r))
            /\ SF_vars(DequeueBegin)
            /\ WF_vars(DequeueNext \/ DequeueEnd \/ Tally \/ ServiceStops)

LiveSpec == Spec /\ Fairness

------------------------------------------------------------------------------
(* Every variable stays in its range; the counter is a signed int.         *)
TypeOK == /\ running \in Int
          /\ queue \in Seq(Requests)
          /\ dequeued \subseteq Requests
          /\ pc \in [Requests -> RequestStates]
          /\ dpc \in {"wait", "loop", "tally", "stopped"}
          /\ dequeueCount \in Int
          /\ queuedTasks \in Nat
          /\ idle \in MinIdle..MaxIdle
          /\ host \in {"up", "stopping"}

(* The requests that own a slot: executing, on their way out, or granted   *)
(* one by Dequeue and not yet awake.                                       *)
Granted == {r \in Requests : pc[r] = "poll" /\ r \in dequeued}
Holders == {r \in Requests : pc[r] \in {"method", "release"}} \cup Granted

(* The slots that are promised but not yet counted.                        *)
Pending == {r \in Requests : pc[r] = "claim"}

(* The counter that admission and Dequeue decide on is the number of       *)
(* requests that own a slot, in spite of ReleaseTask not taking the lock.  *)
SlotsCounted == IsFiniteSet(Holders) /\ running = Cardinality(Holders)

(* max-parallel-tasks is never exceeded, not even by the slots that the    *)
(* dequeue loop has still to hand out or that a newcomer is about to take. *)
WithinLimit == /\ running <= MaxRunningTasks
               /\ Pending # {} => running < MaxRunningTasks
               /\ dpc = "loop" => running + dequeueCount <= MaxRunningTasks

(* A request that waits without a slot is in the queue, once; the queue    *)
(* holds no other.  Otherwise a poll loop would spin for ever, or a slot   *)
(* would go to a request that is gone.                                     *)
NoRequestLost ==
  /\ \A r \in Requests : (pc[r] = "poll" /\ r \notin dequeued)
                            => \E i \in DOMAIN queue : queue[i] = r
  /\ \A i \in DOMAIN queue : pc[queue[i]] = "poll" /\ queue[i] \notin dequeued
  /\ \A i, j \in DOMAIN queue : queue[i] = queue[j] => i = j

(* As long as the host is not told to stop, a request that called          *)
(* AwaitRequest gets its slot and leaves it again.                         *)
EveryRequestServed ==
  \A r \in Requests : pc[r] = "enter" ~> (pc[r] = "done" \/ host = "stopping")

------------------------------------------------------------------------------
(* The queue implements a bounded executor.                                *)
Status(r) == CASE pc[r] = "outside" -> "new"
               [] pc[r] = "done"    -> "finished"
               [] r \in Holders     -> "executing"
               [] OTHER             -> "waiting"

Executor == INSTANCE BoundedExecutor
              WITH Limit  <- MaxRunningTasks,
                   status <- [r \in Requests |-> Status(r)],
                   open   <- host = "up"

(* Every behaviour of the queue is one of the executor, its liveness       *)
(* included: the slots of AwaitRequest and Dequeue never overlap, and a    *)
(* granted request starts and ends exactly once.                           *)
ImplementsExecutor == Executor!Spec
==============================================================================
