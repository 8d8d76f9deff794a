--------------------------- MODULE TaskQueueProofs ---------------------------
(***************************************************************************)
(* Theorems about the task queue, for any set of requests and any limit.   *)
(***************************************************************************)
EXTENDS TaskQueue, FiniteSetTheorems, SequenceTheorems, TLAPS

(* lock(_runningTasks) has one holder.  Without it two newcomers could     *)
(* both take the last slot, or one of them a slot Dequeue hands out.       *)
LockInv == /\ \A r, s \in Pending : r = s
           /\ dpc = "loop" => Pending = {}

IInv == TypeOK /\ LockInv /\ SlotsCounted /\ WithinLimit /\ NoRequestLost

------------------------------------------------------------------------------
(* Every step keeps the variables in their ranges.                         *)
LEMMA TypeStep == TypeOK /\ [Next]_vars => TypeOK'
<1> SUFFICES ASSUME TypeOK, [Next]_vars PROVE TypeOK'
  OBVIOUS
<1> USE IdleAssumption, LimitAssumption DEF TypeOK, serviceVars, requestVars, RequestStates, Increment, Decrement
<1>1. ASSUME NEW r \in Requests, RequestStep(r) PROVE TypeOK'
  <2>1. CASE Enqueue(r)
    BY <2>1 DEF Enqueue, Goto
  <2>2. CASE Claim(r) \/ ReleaseTask(r)
    BY <2>2 DEF Claim, ReleaseTask, Goto
  <2>3. CASE \/ AwaitRequest(r) \/ FindsFull(r) \/ FindsFree(r)
             \/ IsReadyToRumble(r) \/ MethodReturns(r) \/ MethodThrows(r)
    BY <2>3 DEF AwaitRequest, FindsFull, FindsFree, IsReadyToRumble,
                MethodReturns, MethodThrows, Goto
  <2> QED
    BY <1>1, <2>1, <2>2, <2>3 DEF RequestStep
<1>2. CASE DequeueNext
  BY <1>2 DEF DequeueNext
<1>3. CASE Tally
  BY <1>3 DEF Tally
<1>4. CASE StopHost \/ DequeueBegin \/ DequeueEnd \/ ServiceStops
  BY <1>4 DEF StopHost, DequeueBegin, DequeueEnd, ServiceStops
<1>5. CASE UNCHANGED vars
  BY <1>5 DEF vars
<1> QED
  BY <1>1, <1>2, <1>3, <1>4, <1>5 DEF Next, ServiceStep

(* The variables of the task queue stay in their ranges.                   *)
THEOREM Typing == Spec => []TypeOK
<1>1. Init => TypeOK
  BY IdleAssumption DEF Init, TypeOK, RequestStates
<1> QED
  BY <1>1, TypeStep, PTL DEF Spec

------------------------------------------------------------------------------
(* One request changes its mind about owning a slot: the count follows.    *)
LEMMA OneMoreHolder ==
  ASSUME SlotsCounted, NEW r, r \notin Holders,
         Holders' = Holders \cup {r}, running' = running + 1
  PROVE  SlotsCounted'
BY FS_AddElement, FS_CardinalityType DEF SlotsCounted

LEMMA OneHolderLess ==
  ASSUME SlotsCounted, NEW r, r \in Holders,
         Holders' = Holders \ {r}, running' = running - 1
  PROVE  SlotsCounted'
BY FS_RemoveElement, FS_CardinalityType DEF SlotsCounted

------------------------------------------------------------------------------
(* The inductive invariant holds at the start.                             *)
LEMMA InvInit == Init => IInv
<1> SUFFICES ASSUME Init PROVE IInv
  OBVIOUS
<1>1. TypeOK
  BY IdleAssumption DEF Init, TypeOK, RequestStates
<1>2. Pending = {} /\ Holders = {}
  BY DEF Init, Pending, Holders, Granted
<1>3. SlotsCounted
  BY <1>2, FS_EmptySet DEF SlotsCounted, Init
<1>4. LockInv /\ WithinLimit /\ NoRequestLost
  BY <1>2, LimitAssumption DEF Init, LockInv, WithinLimit, NoRequestLost
<1> QED
  BY <1>1, <1>3, <1>4 DEF IInv

(* A step of one request preserves it.                                     *)
LEMMA InvRequest ==
  ASSUME IInv, NEW r \in Requests, RequestStep(r)
  PROVE  LockInv' /\ SlotsCounted' /\ WithinLimit' /\ NoRequestLost'
<1> USE DEF IInv, TypeOK, Goto, serviceVars, Increment, Decrement
<1>1. CASE AwaitRequest(r) \/ FindsFull(r)
  <2>1. Holders' = Holders /\ Pending' = Pending
    BY <1>1 DEF AwaitRequest, FindsFull, Holders, Granted, Pending
  <2> QED
    BY <1>1, <2>1 DEF AwaitRequest, FindsFull, SlotsCounted, LockInv, WithinLimit, NoRequestLost
<1>2. CASE FindsFree(r)
  <2>1. Holders' = Holders /\ Pending = {} /\ Pending' = {r} /\ dpc # "loop"
    BY <1>2 DEF FindsFree, LockFree, Holders, Granted, Pending
  <2> QED
    BY <1>2, <2>1 DEF FindsFree, SlotsCounted, LockInv, WithinLimit, NoRequestLost
<1>3. CASE Claim(r)
  <2>1. r \in Pending /\ Pending = {r} /\ Pending' = {} /\ dpc # "loop"
    BY <1>3 DEF Claim, Pending, LockInv
  <2>2. r \notin Holders /\ Holders' = Holders \cup {r}
    BY <1>3 DEF Claim, Holders, Granted
  <2>3. SlotsCounted'
    BY <1>3, <2>2, OneMoreHolder DEF Claim
  <2> QED
    BY <1>3, <2>1, <2>3, LimitAssumption DEF Claim, LockInv, WithinLimit, NoRequestLost
<1>4. CASE Enqueue(r)
  <2>1. Holders' = Holders /\ Pending' = Pending
    BY <1>4 DEF Enqueue, Holders, Granted, Pending
  <2>2. NoRequestLost'
    <3>1. /\ Len(queue') = Len(queue) + 1
          /\ \A i \in 1..Len(queue) : queue'[i] = queue[i]
          /\ queue'[Len(queue) + 1] = r
      BY <1>4 DEF Enqueue
    <3>2. \A i \in DOMAIN queue : queue[i] # r
      BY <1>4 DEF Enqueue, NoRequestLost
    <3>3. DOMAIN queue = 1..Len(queue) /\ DOMAIN queue' = 1..(Len(queue)+1) /\ Len(queue) \in Nat
      BY <1>4, <3>1 DEF Enqueue
    <3> QED
      BY <1>4, <3>1, <3>2, <3>3 DEF Enqueue, NoRequestLost
  <2> QED
    BY <1>4, <2>1, <2>2 DEF Enqueue, SlotsCounted, LockInv, WithinLimit
<1>5. CASE IsReadyToRumble(r) \/ MethodReturns(r) \/ MethodThrows(r)
  <2>1. Holders' = Holders /\ Pending' = Pending
    BY <1>5 DEF IsReadyToRumble, MethodReturns, MethodThrows, Holders, Granted, Pending
  <2> QED
    BY <1>5, <2>1 DEF IsReadyToRumble, MethodReturns, MethodThrows,
                      SlotsCounted, LockInv, WithinLimit, NoRequestLost
<1>6. CASE ReleaseTask(r)
  <2>1. r \in Holders /\ Holders' = Holders \ {r} /\ Pending' = Pending
    BY <1>6 DEF ReleaseTask, Holders, Granted, Pending
  <2>2. SlotsCounted'
    BY <1>6, <2>1, OneHolderLess DEF ReleaseTask
  <2> QED
    BY <1>6, <2>1, <2>2, LimitAssumption DEF ReleaseTask, LockInv, WithinLimit, NoRequestLost
<1> QED
  BY <1>1, <1>2, <1>3, <1>4, <1>5, <1>6 DEF RequestStep

(* One iteration of the dequeue loop preserves it: the head of the queue   *)
(* waits and owns nothing yet, so granting it adds exactly one holder.     *)
LEMMA InvDequeueNext ==
  ASSUME IInv, DequeueNext
  PROVE  LockInv' /\ SlotsCounted' /\ WithinLimit' /\ NoRequestLost'
<1> USE DEF IInv, TypeOK, DequeueNext, Increment
<1>1. CASE queue = << >>
  <2>1. Holders' = Holders /\ Pending' = Pending
    BY <1>1 DEF Holders, Granted, Pending
  <2> QED
    BY <1>1, <2>1, LimitAssumption DEF SlotsCounted, LockInv, WithinLimit, NoRequestLost
<1>2. CASE queue # << >>
  <2> DEFINE h == Head(queue)
  <2>1. /\ Len(queue) \in Nat \ {0}
        /\ DOMAIN queue = 1..Len(queue)
        /\ h = queue[1]
        /\ h \in Requests
    BY <1>2
  <2>2. pc[h] = "poll" /\ h \notin dequeued
    BY <2>1 DEF NoRequestLost
  <2>3. h \notin Holders /\ Holders' = Holders \cup {h} /\ Pending' = Pending
    BY <1>2, <2>1, <2>2 DEF Holders, Granted, Pending
  <2>4. SlotsCounted'
    BY <1>2, <2>3, OneMoreHolder
  <2>5. /\ DOMAIN queue' = 1..(Len(queue) - 1)
        /\ \A i \in 1..(Len(queue) - 1) : queue'[i] = queue[i + 1]
    <3>1. queue' = Tail(queue) /\ queue \in Seq(Requests) /\ queue # << >>
      BY <1>2
    <3> HIDE DEF IInv, TypeOK, DequeueNext
    <3>2. Len(queue') = Len(queue) - 1 /\ queue' \in Seq(Requests)
      BY <3>1, HeadTailProperties
    <3>3. \A i \in 1..Len(queue') : queue'[i] = queue[i + 1]
      BY <3>1, HeadTailProperties
    <3> QED
      BY <3>2, <3>3, <2>1
  <2>6. NoRequestLost'
    <3>1. ASSUME NEW q \in Requests, pc'[q] = "poll", q \notin dequeued'
          PROVE  \E i \in DOMAIN queue' : queue'[i] = q
      <4>1. q # h /\ q \notin dequeued /\ pc[q] = "poll"
        BY <1>2, <3>1
      <4>2. PICK i \in DOMAIN queue : queue[i] = q
        BY <4>1 DEF NoRequestLost
      <4>3. i - 1 \in DOMAIN queue' /\ queue'[i - 1] = q
        BY <4>1, <4>2, <2>1, <2>5
      <4> QED
        BY <4>3
    <3>2. ASSUME NEW i \in DOMAIN queue'
          PROVE  pc'[queue'[i]] = "poll" /\ queue'[i] \notin dequeued'
      <4>1. i + 1 \in DOMAIN queue /\ queue'[i] = queue[i + 1] /\ i + 1 # 1
        BY <3>2, <2>1, <2>5
      <4>2. queue[i + 1] # h
        BY <4>1, <2>1 DEF NoRequestLost
      <4> QED
        BY <1>2, <4>1, <4>2 DEF NoRequestLost
    <3>3. ASSUME NEW i \in DOMAIN queue', NEW j \in DOMAIN queue', queue'[i] = queue'[j]
          PROVE  i = j
      BY <3>3, <2>1, <2>5 DEF NoRequestLost
    <3> QED
      BY <3>1, <3>2, <3>3 DEF NoRequestLost
  <2> QED
    BY <1>2, <2>3, <2>4, <2>6, LimitAssumption DEF LockInv, WithinLimit
<1> QED
  BY <1>1, <1>2

(* Every step preserves the inductive invariant.                           *)
LEMMA InvStep == IInv /\ [Next]_vars => IInv'
<1> SUFFICES ASSUME IInv, [Next]_vars PROVE IInv'
  OBVIOUS
<1>1. TypeOK'
  BY TypeStep DEF IInv
<1>2. ASSUME NEW r \in Requests, RequestStep(r)
      PROVE  LockInv' /\ SlotsCounted' /\ WithinLimit' /\ NoRequestLost'
  BY <1>2, InvRequest
<1>3. CASE DequeueNext
  BY <1>1, <1>3, InvDequeueNext DEF IInv
<1>4. CASE DequeueBegin
  <2>1. Holders' = Holders /\ Pending' = Pending /\ Pending = {}
    BY <1>4 DEF DequeueBegin, LockFree, Holders, Granted, Pending, requestVars
  <2> QED
    BY <1>1, <1>4, <2>1, LimitAssumption
    DEF IInv, TypeOK, DequeueBegin, requestVars, SlotsCounted, LockInv, WithinLimit, NoRequestLost
<1>5. CASE StopHost \/ DequeueEnd \/ Tally \/ ServiceStops \/ UNCHANGED vars
  <2>1. /\ Holders' = Holders /\ Pending' = Pending
        /\ UNCHANGED <<running, queue, dequeued, pc, dequeueCount>>
        /\ dpc' = "loop" => dpc = "loop"
    BY <1>5 DEF StopHost, DequeueEnd, Tally, ServiceStops, vars, requestVars,
                serviceVars, Holders, Granted, Pending
  <2> QED
    BY <1>1, <2>1 DEF IInv, SlotsCounted, LockInv, WithinLimit, NoRequestLost
<1> QED
  BY <1>1, <1>2, <1>3, <1>4, <1>5 DEF Next, ServiceStep, IInv

LEMMA Inductive == Spec => []IInv
BY InvInit, InvStep, PTL DEF Spec

(* The counter on which admission decides equals the number of requests    *)
(* that own a slot, however ReleaseTask interleaves with the lock.         *)
THEOREM CounterIsExact == Spec => []SlotsCounted
<1>1. IInv => SlotsCounted
  BY DEF IInv
<1> QED
  BY <1>1, Inductive, PTL

(* max-parallel-tasks bounds the slots in use and those about to be used.  *)
THEOREM LimitKept == Spec => []WithinLimit
<1>1. IInv => WithinLimit
  BY DEF IInv
<1> QED
  BY <1>1, Inductive, PTL

(* A waiting request is in the queue exactly once until it is granted.     *)
THEOREM NobodyForgotten == Spec => []NoRequestLost
<1>1. IInv => NoRequestLost
  BY DEF IInv
<1> QED
  BY <1>1, Inductive, PTL
------------------------------------------------------------------------------
(* Refinement.  First what each request looks like to the executor.        *)
statusMap == [r \in Requests |-> Status(r)]

LEMMA StatusOfHolders ==
  ASSUME TypeOK
  PROVE  Executor!Executing = Holders
BY DEF TypeOK, Executor!Executing, Status, Holders, Granted, RequestStates

(* A step that moves one request and leaves the grants alone changes that  *)
(* request's status only.                                                  *)
LEMMA OneStatus ==
  ASSUME NEW r \in Requests, TypeOK, pc' = [pc EXCEPT ![r] = pc'[r]],
         \A q \in Requests \ {r} : q \in dequeued' <=> q \in dequeued
  PROVE  statusMap' = [statusMap EXCEPT ![r] = Status(r)']
BY DEF TypeOK, statusMap, Status, Holders, Granted

LEMMA RequestRefines ==
  ASSUME IInv, NEW r \in Requests, RequestStep(r)
  PROVE  [Executor!Next]_(Executor!execVars)
<1> USE DEF Goto, serviceVars
<1>1. TypeOK /\ IsFiniteSet(Holders) /\ running = Cardinality(Holders)
  BY DEF IInv, SlotsCounted
<1>2. pc' = [pc EXCEPT ![r] = pc'[r]]
  BY <1>1 DEF TypeOK, RequestStep, AwaitRequest, FindsFull, FindsFree, Claim, Enqueue,
     IsReadyToRumble, MethodReturns, MethodThrows, ReleaseTask
<1>3. \A q \in Requests \ {r} : q \in dequeued' <=> q \in dequeued
  BY DEF RequestStep, AwaitRequest, FindsFull, FindsFree, Claim, Enqueue,
     IsReadyToRumble, MethodReturns, MethodThrows, ReleaseTask
<1>4. statusMap' = [statusMap EXCEPT ![r] = Status(r)'] /\ statusMap[r] = Status(r)
  BY <1>1, <1>2, <1>3, OneStatus DEF statusMap
<1>5. host' = host
  BY DEF RequestStep, AwaitRequest, FindsFull, FindsFree, Claim, Enqueue,
     IsReadyToRumble, MethodReturns, MethodThrows, ReleaseTask
<1>6. CASE AwaitRequest(r)
  <2>1. Status(r) = "new" /\ Status(r)' = "waiting"
    BY <1>1, <1>6 DEF AwaitRequest, Status, Holders, Granted, TypeOK
  <2>2. Executor!Submit(r)
    BY <1>4, <1>5, <2>1 DEF Executor!Submit, statusMap
  <2> QED
    BY <2>2 DEF Executor!Next
<1>7. CASE Claim(r)
  <2>1. Status(r) = "waiting" /\ Status(r)' = "executing"
    BY <1>1, <1>7 DEF Claim, Status, Holders, Granted, TypeOK
  <2>2. r \in Pending
    BY <1>7 DEF Claim, Pending
  <2>3. Cardinality(Executor!Executing) < MaxRunningTasks
    BY <1>1, <2>2, StatusOfHolders DEF IInv, WithinLimit
  <2>4. Executor!Start(r)
    BY <1>4, <1>5, <2>1, <2>3 DEF Executor!Start, Executor!Executing, statusMap, Executor!Cardinality, Cardinality
  <2> QED
    BY <2>4 DEF Executor!Next
<1>8. CASE ReleaseTask(r)
  <2>1. Status(r) = "executing" /\ Status(r)' = "finished"
    BY <1>1, <1>8 DEF ReleaseTask, Status, Holders, Granted, TypeOK
  <2>2. Executor!Finish(r)
    BY <1>4, <1>5, <2>1 DEF Executor!Finish, statusMap
  <2> QED
    BY <2>2 DEF Executor!Next
<1>9. CASE \/ FindsFull(r) \/ FindsFree(r) \/ Enqueue(r)
           \/ IsReadyToRumble(r) \/ MethodReturns(r) \/ MethodThrows(r)
  <2>1. Status(r)' = Status(r)
    BY <1>1, <1>9 DEF FindsFull, FindsFree, Enqueue, IsReadyToRumble,
       MethodReturns, MethodThrows, Status, Holders, Granted, TypeOK
  <2>2. statusMap' = statusMap
    BY <1>4, <2>1 DEF statusMap
  <2> QED
    BY <1>5, <2>2 DEF Executor!execVars, statusMap
<1> QED
  BY <1>6, <1>7, <1>8, <1>9 DEF RequestStep

LEMMA DequeueRefines ==
  ASSUME IInv, DequeueNext
  PROVE  [Executor!Next]_(Executor!execVars)
<1> USE DEF DequeueNext
<1>1. TypeOK /\ IsFiniteSet(Holders) /\ running = Cardinality(Holders)
  BY DEF IInv, SlotsCounted
<1>2. CASE queue = << >>
  <2>1. statusMap' = statusMap
    BY <1>2 DEF statusMap, Status, Holders, Granted
  <2> QED
    BY <2>1 DEF Executor!execVars, statusMap
<1>3. CASE queue # << >>
  <2>0. PICK h \in Requests : h = Head(queue)
    BY <1>1, <1>3 DEF TypeOK
  <2>1. h \in Requests /\ pc[h] = "poll" /\ h \notin dequeued
    <3>1. 1 \in DOMAIN queue /\ h = queue[1] /\ h \in Requests
      BY <1>1, <1>3, <2>0 DEF TypeOK
    <3> QED
      BY <3>1 DEF IInv, NoRequestLost
  <2>2. Status(h) = "waiting" /\ Status(h)' = "executing"
    BY <1>3, <2>0, <2>1 DEF Status, Holders, Granted
  <2>3. statusMap' = [statusMap EXCEPT ![h] = "executing"] /\ statusMap[h] = "waiting"
    <3>1. pc' = [pc EXCEPT ![h] = pc'[h]]
      BY <1>1, <2>1 DEF TypeOK
    <3>2. \A q \in Requests \ {h} : q \in dequeued' <=> q \in dequeued
      BY <1>3, <2>0
    <3> QED
      BY <1>1, <2>1, <2>2, <3>1, <3>2, OneStatus DEF statusMap
  <2>4. Cardinality(Executor!Executing) < MaxRunningTasks
    <3>1. running + dequeueCount <= MaxRunningTasks /\ dequeueCount > 0
      BY DEF IInv, WithinLimit
    <3> QED
      BY <1>1, <3>1, StatusOfHolders, LimitAssumption DEF TypeOK
  <2>5. Executor!Start(h)
    BY <2>3, <2>4 DEF Executor!Start, Executor!Executing, statusMap, Executor!Cardinality, Cardinality
  <2> QED
    BY <2>1, <2>5 DEF Executor!Next
<1> QED
  BY <1>2, <1>3

(* The task queue implements a bounded executor: a request is started once *)
(* at most, only while fewer than max-parallel-tasks requests execute, and *)
(* it is finished once at most, after it was started.                      *)
THEOREM QueueImplementsExecutor == Spec => Executor!Safety
<1>1. Init => Executor!Init
  BY DEF Init, Executor!Init, Status, Holders, Granted
<1>2. IInv /\ [Next]_vars => [Executor!Next]_(Executor!execVars)
  <2> SUFFICES ASSUME IInv, [Next]_vars PROVE [Executor!Next]_(Executor!execVars)
    OBVIOUS
  <2>1. CASE StopHost
    <3>1. Executor!Close
      BY <2>1 DEF StopHost, Executor!Close, Status, Holders, Granted, requestVars
    <3> QED
      BY <3>1 DEF Executor!Next
  <2>2. CASE DequeueBegin \/ DequeueEnd \/ Tally \/ ServiceStops \/ UNCHANGED vars
    <3>1. UNCHANGED <<pc, dequeued, host>>
      BY <2>2 DEF DequeueBegin, DequeueEnd, Tally, ServiceStops, vars, requestVars
    <3> QED
      BY <3>1 DEF Executor!execVars, Status, Holders, Granted
  <2> QED
    BY <2>1, <2>2, RequestRefines, DequeueRefines DEF Next, ServiceStep
<1> QED
  BY <1>1, <1>2, Inductive, PTL DEF Spec, Executor!Safety
==============================================================================
