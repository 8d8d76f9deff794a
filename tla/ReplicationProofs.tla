--------------------------- MODULE ReplicationProofs ---------------------------
(* What Replication promises for any number of sessions, of calls on each  *)
(* and of objects.                                                         *)
EXTENDS Replication, FiniteSetTheorems, WellFoundedInduction, TLAPS

(* What the argument needs to know of the types.                           *)
ControlTypes ==
  /\ session \in [Sides -> [Sessions -> Session]]
  /\ pc \in [Procs -> PCs]

Excused == {"overlap", "unnoticed"}

(* From the check of the others to the end of the work the session is      *)
(* there, and from the first hard lock on it is locked.                    *)
Holding == {"lockChild", "recheck"} \cup Working

Holds(p) ==
  LET own == session["parent"][SessionOf[p]] IN
  /\ pc[p] \in {"checkOthers", "lockParent"} \cup Holding => own.open
  /\ pc[p] \in Holding => own.lock # "Unlock"

LocksHold == Without(Excused) => \A p \in Procs : Holds(p)

(* Calls on one session at the same time overlap.                          *)
SessionsApart ==
  Without(Excused) =>
    \A p, q \in Procs : p # q /\ ~At(p, "idle") /\ ~At(q, "idle") => SessionOf[p] # SessionOf[q]

IInv == ControlTypes /\ SessionsApart /\ LocksHold /\ OneAtATime

Step(p) == Prepare(p) \/ CheckIn(p) \/ Complete(p) \/ Fail(p) \/ Crash(p)

(* A step moves one call and changes no session but its own.               *)
Alone(p) ==
  /\ \E where \in PCs : pc' = [pc EXCEPT ![p] = where]
  /\ session' \in [Sides -> [Sessions -> Session]]
  /\ \A side \in Sides, s \in Sessions \ {SessionOf[p]} : session'[side][s] = session[side][s]
  /\ excuses \subseteq excuses'

(* The steps that change no session.                                       *)
Quiet(p) ==
  \/ \E type \in Types : Begin(p, type)
  \/ CheckOthers(p) \/ Sleep(p) \/ Thin(p) \/ LockObjects(p)
  \/ CheckIn(p)
  \/ InsertCheckoutLocks(p) \/ RemoveLocks(p)
  \/ Fail(p) \/ Crash(p)

------------------------------------------------------------------------------
LEMMA QuietSteps ==
  ASSUME ControlTypes, NEW p \in Procs, Quiet(p)
  PROVE  /\ session' = session /\ excuses \subseteq excuses'
         /\ \E where \in PCs : pc' = [pc EXCEPT ![p] = where]
<1> USE DEF PCs, Working, Cleaning, Goto, ControlTypes, env, vars, data
<1>1. ASSUME NEW type \in Types, Begin(p, type)
      PROVE  /\ session' = session /\ excuses \subseteq excuses'
             /\ \E where \in PCs : pc' = [pc EXCEPT ![p] = where]
      BY <1>1 DEF Begin
<1>2. CASE CheckOthers(p)  BY <1>2 DEF CheckOthers
<1>3. CASE Sleep(p)        BY <1>3 DEF Sleep
<1>4. CASE Thin(p)         BY <1>4 DEF Thin
<1>5. CASE LockObjects(p)  BY <1>5 DEF LockObjects, Added
<1>6. CASE CheckIn(p)
  <2>1. CASE ReadDifferences(p)  BY <2>1 DEF ReadDifferences
  <2>2. CASE PassOver(p)
    <3>1. pc' = pc /\ session' = session /\ excuses' = excuses
          BY <2>2 DEF PassOver
    <3> QED BY <3>1, pc = [pc EXCEPT ![p] = pc[p]], pc[p] \in PCs
  <2>3. CASE Leave(p)            BY <2>3 DEF Leave, Applied, AddConflict
  <2>4. CASE InsertFeature(p)    BY <2>4 DEF InsertFeature
  <2>5. CASE CopyFeature(p)      BY <2>5 DEF CopyFeature, Copied
  <2>6. CASE ChangeFeature(p)    BY <2>6 DEF ChangeFeature, Applied
  <2>7. CASE RemoveRow(p)        BY <2>7 DEF RemoveRow
  <2>8. CASE EndCheckIn(p)       BY <2>8 DEF EndCheckIn
  <2>9. CASE WriteConflict(p)    BY <2>9 DEF WriteConflict, AddConflict
  <2> QED BY <1>6, <2>1, <2>2, <2>3, <2>4, <2>5, <2>6, <2>7, <2>8, <2>9 DEF CheckIn
<1>7. CASE InsertCheckoutLocks(p)  BY <1>7 DEF InsertCheckoutLocks
<1>8. CASE RemoveLocks(p)          BY <1>8 DEF RemoveLocks, RemoveReplicationLocks
<1>9. CASE Fail(p)                 BY <1>9 DEF Fail
<1>10. CASE Crash(p)               BY <1>10 DEF Crash
<1> QED BY <1>1, <1>2, <1>3, <1>4, <1>5, <1>6, <1>7, <1>8, <1>9, <1>10 DEF Quiet

(* The only steps that change a session: p's own.                          *)
SetsOwn(p, side) ==
  /\ \/ session' = session
     \/ \E row \in Session : session' = [session EXCEPT ![side][SessionOf[p]] = row]
  /\ excuses \subseteq excuses'
  /\ \E where \in PCs : pc' = [pc EXCEPT ![p] = where]

LEMMA LoudSteps ==
  ASSUME ControlTypes, NEW p \in Procs, Step(p)
  PROVE  Quiet(p) \/ \E side \in Sides : SetsOwn(p, side)
<1> DEFINE s == SessionOf[p]
<1>0. /\ s \in Sessions
      /\ \A side \in Sides : session[side][s] \in Session
      BY SessionAssumption DEF ControlTypes
<1>1. ASSUME NEW side \in Sides, NEW lock \in LockStates, LockReplicationSession(p, side, lock)
      PROVE  /\ \/ session' = session
                \/ \E row \in Session : session' = [session EXCEPT ![side][s] = row]
             /\ excuses \subseteq excuses'
  <2>1. [session[side][s] EXCEPT !.lock = lock] \in Session
        BY <1>0 DEF Session
  <2> QED BY <1>1, <2>1 DEF LockReplicationSession, SetSession
<1> USE DEF Goto, PCs, Working, Cleaning, Sides, LockStates
<1>2. CASE LockSession(p)
      BY <1>2, <1>1 DEF LockSession, SetsOwn
<1>3. CASE IncReplicationState(p)
  <2>1. \A side \in Sides :
          [session[side][s] EXCEPT !.state = session[side][s].state + 1] \in Session
        BY <1>0 DEF Session
  <2> QED BY <1>3, <2>1 DEF IncReplicationState, SetSession, SetsOwn
<1>4. Closed \in Session
      BY DEF Closed, Session
<1>5. CASE ReleaseChild(p)   BY <1>5, <1>4 DEF ReleaseChild, SetsOwn
<1>6. CASE ReleaseParent(p)  BY <1>6, <1>4 DEF ReleaseParent, SetsOwn
<1>7. CASE UnlockChild(p)    BY <1>7, <1>1 DEF UnlockChild, SetsOwn
<1>8. CASE UnlockParent(p)   BY <1>8, <1>1 DEF UnlockParent, SetsOwn
<1> QED BY <1>2, <1>3, <1>5, <1>6, <1>7, <1>8 DEF Step, Prepare, Complete, Quiet

LEMMA StepsAlone == ASSUME ControlTypes, NEW p \in Procs, Step(p) PROVE Alone(p)
<1>0. SessionOf[p] \in Sessions
      BY SessionAssumption
<1>1. CASE Quiet(p)
      BY <1>1, QuietSteps DEF Alone, ControlTypes
<1>2. ASSUME NEW side \in Sides, SetsOwn(p, side) PROVE Alone(p)
  <2>1. CASE session' = session
        BY <1>2, <2>1 DEF SetsOwn, Alone, ControlTypes
  <2>2. ASSUME NEW row \in Session, session' = [session EXCEPT ![side][SessionOf[p]] = row]
        PROVE  Alone(p)
    <3>1. [session[side] EXCEPT ![SessionOf[p]] = row] \in [Sessions -> Session]
          BY <1>0 DEF ControlTypes
    <3>2. session' \in [Sides -> [Sessions -> Session]]
          BY <2>2, <3>1 DEF ControlTypes
    <3>3. \A any \in Sides, s \in Sessions \ {SessionOf[p]} : session'[any][s] = session[any][s]
          BY <1>0, <2>2 DEF ControlTypes
    <3> QED BY <1>2, <3>2, <3>3 DEF SetsOwn, Alone
  <2> QED BY <1>2, <2>1, <2>2 DEF SetsOwn
<1> QED BY <1>1, <1>2, LoudSteps

------------------------------------------------------------------------------
(* Edits leave the sessions and the calls alone.                           *)
LEMMA EditsQuiet ==
  ASSUME Edit \/ UNCHANGED vars
  PROVE  /\ session' = session /\ pc' = pc /\ call' = call
         /\ excuses \subseteq excuses' /\ excuses' \subseteq excuses \cup {"crossed", "unprotected"}
BY DEF Edit, BeginEdit, CommitEdit, If, vars, env, data

LEMMA Steps ==
  ASSUME [Next]_vars
  PROVE  Edit \/ UNCHANGED vars \/ \E p \in Procs : Step(p)
BY DEF Next, Step

LEMMA TypesKept == ControlTypes /\ [Next]_vars => ControlTypes'
<1> SUFFICES ASSUME ControlTypes, [Next]_vars PROVE ControlTypes'
    OBVIOUS
<1>1. CASE Edit \/ UNCHANGED vars
      BY <1>1, EditsQuiet DEF ControlTypes
<1>2. ASSUME NEW p \in Procs, Step(p) PROVE ControlTypes'
      BY <1>2, StepsAlone DEF Alone, ControlTypes
<1> QED BY <1>1, <1>2, Steps

LEMMA Idlers ==
  ASSUME NEW p \in Procs, Step(p), At(p, "idle")
  PROVE  \E type \in Types : Begin(p, type)
<1>1. ~ (\/ CheckOthers(p) \/ LockSession(p) \/ IncReplicationState(p) \/ Sleep(p) \/ Thin(p)
         \/ LockObjects(p) \/ Complete(p) \/ Fail(p) \/ Crash(p))
      BY DEF At, CheckOthers, LockSession, IncReplicationState, Sleep, Thin, LockObjects, Complete,
             ReleaseChild, ReleaseParent, InsertCheckoutLocks, RemoveLocks, UnlockChild,
             UnlockParent, Fail, Crash
<1>2. ~CheckIn(p)
      BY DEF At, CheckIn, ReadDifferences, PassOver, Leave, InsertFeature, CopyFeature,
             Copied, WriteConflict, ChangeFeature, RemoveRow, EndCheckIn, IsWriting, IsApplying
<1> QED BY <1>1, <1>2 DEF Step, Prepare

LEMMA BeginsAlone ==
  ASSUME ControlTypes, NEW p \in Procs, Step(p), At(p, "idle"), Without(Excused)'
  PROVE  /\ \A q \in Procs \ {p} : SessionOf[q] = SessionOf[p] => At(q, "idle")
         /\ IsOpen("parent", SessionOf[p])
         /\ session' = session
         /\ pc'[p] \in {"checkOthers", "removeChildLocks"}
<1>1. PICK type \in Types : Begin(p, type)
      BY Idlers
<1> QED BY <1>1 DEF Begin, If, Without, Excused, Goto, ControlTypes

(* Out of idle there is no way but Begin, and into the work none but the   *)
(* second look at the others.                                              *)
LEMMA IdleIsLeft == ASSUME ControlTypes, NEW p \in Procs, Step(p), At(p, "idle") PROVE ~At(p, "idle")'
<1>1. \E type \in Types : Begin(p, type)
      BY Idlers
<1> QED BY <1>1 DEF Begin, At, Goto, ControlTypes

LEMMA Starts ==
  ASSUME ControlTypes, NEW p \in Procs, Step(p), pc[p] \notin Working, pc'[p] \in Working
  PROVE  At(p, "recheck") /\ OthersUnlocked(p)
<1> USE DEF Working, Goto, At, ControlTypes
<1>1. ~(\/ LockSession(p) \/ IncReplicationState(p) \/ Sleep(p) \/ Thin(p) \/ LockObjects(p))
      BY DEF LockSession, IncReplicationState, Sleep, Thin, LockObjects
<1>2. ~CheckIn(p)
      BY DEF CheckIn, ReadDifferences, PassOver, Leave, InsertFeature, CopyFeature,
             Copied, WriteConflict, ChangeFeature, RemoveRow, EndCheckIn, IsWriting, IsApplying
<1>3. ~Complete(p) /\ ~Fail(p) /\ ~Crash(p)
      BY DEF Complete, ReleaseChild, ReleaseParent, InsertCheckoutLocks, RemoveLocks, UnlockChild,
             UnlockParent, Fail, Crash
<1>4. ASSUME NEW type \in Types PROVE ~Begin(p, type)
      BY DEF Begin
<1>5. CheckOthers(p)
      BY <1>1, <1>2, <1>3, <1>4 DEF Step, Prepare
<1> QED BY <1>5 DEF CheckOthers

------------------------------------------------------------------------------
LEMMA ApartKept == ControlTypes /\ SessionsApart /\ [Next]_vars => SessionsApart'
<1> SUFFICES ASSUME ControlTypes, SessionsApart, [Next]_vars, Without(Excused)',
                    NEW q \in Procs, NEW r \in Procs, q # r, ~At(q, "idle")', ~At(r, "idle")'
             PROVE  SessionOf[q] # SessionOf[r]
    BY DEF SessionsApart
<1>1. CASE Edit \/ UNCHANGED vars
      BY <1>1, EditsQuiet DEF SessionsApart, Without, At
<1>2. ASSUME NEW p \in Procs, Step(p) PROVE SessionOf[q] # SessionOf[r]
  <2>1. /\ Without(Excused)
        /\ \A o \in Procs \ {p} : pc'[o] = pc[o]
        BY <1>2, StepsAlone DEF Alone, Without, ControlTypes
  <2>2. CASE At(p, "idle") /\ ~At(p, "idle")'
    <3>1. \A o \in Procs \ {p} : SessionOf[o] = SessionOf[p] => pc[o] = "idle"
          BY <1>2, <2>2, BeginsAlone DEF At
    <3> QED BY <2>1, <3>1 DEF At, SessionsApart
  <2>3. CASE ~At(p, "idle") \/ At(p, "idle")'
        BY <2>1, <2>3 DEF SessionsApart, At
  <2> QED BY <2>2, <2>3
<1> QED BY <1>1, <1>2, Steps

(* What the step of a call means for its own lock.                         *)
Early == {"checkOthers", "lockParent"} \cup Holding

LEMMA QuietPaths ==
  ASSUME ControlTypes, NEW p \in Procs, Quiet(p), ~At(p, "idle")
  PROVE  /\ pc'[p] \in Early => pc[p] \in Early
         /\ pc'[p] \in Holding => pc[p] \in Holding
<1> USE DEF Early, Holding, Working, Cleaning, Goto, At, ControlTypes
<1>1. ASSUME NEW type \in Types, Begin(p, type) PROVE FALSE
      BY <1>1 DEF Begin
<1>2. CASE CheckOthers(p)  BY <1>2 DEF CheckOthers
<1>3. CASE Sleep(p)        BY <1>3 DEF Sleep
<1>4. CASE Thin(p)         BY <1>4 DEF Thin
<1>5. CASE LockObjects(p)  BY <1>5 DEF LockObjects
<1>6. CASE CheckIn(p)
  <2>1. pc[p] \in {"readDifferences", "apply", "conflict", "remove"}
        BY <1>6 DEF CheckIn, ReadDifferences, PassOver, Leave, InsertFeature, CopyFeature,
                    Copied, WriteConflict, ChangeFeature, RemoveRow, EndCheckIn, IsWriting, IsApplying
  <2> QED BY <2>1
<1>7. CASE InsertCheckoutLocks(p)  BY <1>7 DEF InsertCheckoutLocks
<1>8. CASE RemoveLocks(p)          BY <1>8 DEF RemoveLocks
<1>9. CASE Fail(p)                 BY <1>9 DEF Fail
<1>10. CASE Crash(p)               BY <1>10 DEF Crash
<1> QED BY <1>1, <1>2, <1>3, <1>4, <1>5, <1>6, <1>7, <1>8, <1>9, <1>10 DEF Quiet

LEMMA OwnLockKept ==
  ASSUME ControlTypes, NEW p \in Procs, Step(p), Holds(p), Without(Excused)'
  PROVE  Holds(p)'
<1> DEFINE s == SessionOf[p]
<1>0. /\ s \in Sessions
      /\ session["parent"][s] \in Session
      BY SessionAssumption DEF ControlTypes, Sides
<1>1. CASE Quiet(p)
  <2>1. CASE At(p, "idle")
    <3>1. CASE At(p, "idle")'
          BY <3>1 DEF At, Holds, Holding, Working
    <3>2. CASE ~At(p, "idle")'
          BY <2>1, <3>2, BeginsAlone DEF Holds, Holding, Working, IsOpen
    <3> QED BY <3>1, <3>2
  <2>2. CASE ~At(p, "idle")
    <3>1. session' = session
          BY <1>1, QuietSteps
    <3> QED BY <1>1, <2>2, <3>1, QuietPaths DEF Holds, Early
  <2> QED BY <2>1, <2>2
<1>2. CASE ~Quiet(p)
  <2>1. \/ LockSession(p) \/ IncReplicationState(p) \/ ReleaseChild(p) \/ ReleaseParent(p)
        \/ UnlockChild(p) \/ UnlockParent(p)
        BY <1>2 DEF Step, Prepare, Complete, Quiet
  <2>2. CASE ReleaseParent(p) \/ UnlockChild(p) \/ UnlockParent(p)
    <3>1. pc'[p] \notin {"checkOthers", "lockParent"} \cup Holding
          BY <2>2 DEF ReleaseParent, UnlockChild, UnlockParent, Goto, Holding, Working, ControlTypes
    <3> QED BY <3>1 DEF Holds
  <2>3. CASE LockSession(p)
    <3> USE DEF Holds, Holding, Working, Goto, At, ControlTypes, Sides, IsOpen, SetSession,
                LockReplicationSession, Without, Excused, Session
    <3>1. CASE At(p, "lockParent")
      <4>1. /\ pc' = [pc EXCEPT ![p] = "lockChild"]
            /\ LockReplicationSession(p, "parent", "Hardlock")
            BY <2>3, <3>1 DEF LockSession
      <4>2. session["parent"][s].open  BY <3>1
      <4>3. session' = [session EXCEPT !["parent"][s] = [session["parent"][s] EXCEPT !.lock = "Hardlock"]]
            BY <4>1, <4>2
      <4>4. session'["parent"][s] = [session["parent"][s] EXCEPT !.lock = "Hardlock"]
            BY <1>0, <4>3
      <4> QED BY <1>0, <4>1, <4>2, <4>4
    <3>2. CASE At(p, "lockChild")     BY <1>0, <2>3, <3>2 DEF LockSession
    <3>3. CASE At(p, "softenParent")  BY <1>0, <2>3, <3>3 DEF LockSession
    <3>4. CASE At(p, "softenChild")   BY <1>0, <2>3, <3>4 DEF LockSession
    <3> QED BY <2>3, <3>1, <3>2, <3>3, <3>4 DEF LockSession
  <2>4. CASE IncReplicationState(p)
        BY <1>0, <2>4 DEF IncReplicationState, SetSession, Holds, Holding, Working, Goto, At,
                          ControlTypes, Sides, Session
  <2>5. CASE ReleaseChild(p)
        BY <1>0, <2>5 DEF ReleaseChild, Holds, Holding, Working, Goto, At, ControlTypes, Sides
  <2> QED BY <2>1, <2>2, <2>3, <2>4, <2>5
<1> QED BY <1>1, <1>2

LEMMA LocksKept ==
  ControlTypes /\ SessionsApart /\ LocksHold /\ [Next]_vars => LocksHold'
<1> SUFFICES ASSUME ControlTypes, SessionsApart, LocksHold, [Next]_vars, Without(Excused)',
                    NEW q \in Procs
             PROVE  Holds(q)'
    BY DEF LocksHold
<1>1. CASE Edit \/ UNCHANGED vars
      BY <1>1, EditsQuiet DEF LocksHold, Without, Holds
<1>2. ASSUME NEW p \in Procs, Step(p) PROVE Holds(q)'
  <2>1. /\ Without(Excused) /\ Holds(q)
        /\ q # p => pc'[q] = pc[q]
        BY <1>2, StepsAlone DEF Alone, Without, ControlTypes, LocksHold
  <2>2. CASE q = p
        BY <1>2, <2>1, <2>2, OwnLockKept
  <2>3. CASE q # p /\ SessionOf[q] # SessionOf[p]
    <3>1. session'["parent"][SessionOf[q]] = session["parent"][SessionOf[q]]
          BY <1>2, <2>3, StepsAlone, SessionAssumption DEF Alone, Sides
    <3> QED BY <2>1, <2>3, <3>1 DEF Holds
  <2>4. CASE q # p /\ SessionOf[q] = SessionOf[p]
    <3>1. At(q, "idle")
      <4>1. CASE At(p, "idle") /\ ~At(p, "idle")'
            BY <1>2, <2>4, <4>1, BeginsAlone
      <4>2. CASE At(p, "idle") /\ At(p, "idle")'
            BY <1>2, <4>2, IdleIsLeft
      <4>3. CASE ~At(p, "idle")
            BY <2>1, <2>4, <4>3 DEF SessionsApart
      <4> QED BY <4>1, <4>2, <4>3
    <3> QED BY <2>1, <2>4, <3>1 DEF Holds, Holding, Working, At
  <2> QED BY <2>2, <2>3, <2>4
<1> QED BY <1>1, <1>2, Steps

(* A call starts to work only after it has found the others unlocked.      *)
LEMMA WorkersKept ==
  ControlTypes /\ SessionsApart /\ LocksHold /\ OneAtATime /\ [Next]_vars => OneAtATime'
<1> SUFFICES ASSUME ControlTypes, SessionsApart, LocksHold, OneAtATime, [Next]_vars,
                    Without(Excused)', NEW q \in Procs, NEW r \in Procs,
                    pc'[q] \in Working, pc'[r] \in Working, q # r
             PROVE  FALSE
    BY DEF OneAtATime, Excused
<1>1. CASE Edit \/ UNCHANGED vars
      BY <1>1, EditsQuiet DEF OneAtATime, Without, Excused
<1>2. ASSUME NEW p \in Procs, Step(p) PROVE FALSE
  <2>1. /\ Without(Excused)
        /\ \A o \in Procs \ {p} : pc'[o] = pc[o]
        BY <1>2, StepsAlone DEF Alone, Without, ControlTypes
  <2>2. ASSUME NEW o \in Procs, o # p, pc[o] \in Working, pc'[p] \in Working PROVE FALSE
    <3>1. pc[p] \notin Working
          BY <2>1, <2>2 DEF OneAtATime, Excused
    <3>2. At(p, "recheck") /\ OthersUnlocked(p)
          BY <1>2, <2>2, <3>1, Starts
    <3>3. SessionOf[o] # SessionOf[p]
          BY <2>1, <2>2, <3>2 DEF SessionsApart, At, Working
    <3>4. IsOpen("parent", SessionOf[o]) /\ session["parent"][SessionOf[o]].lock # "Unlock"
          BY <2>1, <2>2 DEF LocksHold, Holds, Holding, IsOpen
    <3> QED BY <3>2, <3>3, <3>4, SessionAssumption DEF OthersUnlocked, Watching, SideOf
  <2>3. CASE q = p  BY <2>1, <2>2, <2>3
  <2>4. CASE r = p  BY <2>1, <2>2, <2>4
  <2>5. CASE q # p /\ r # p
        BY <2>1, <2>5 DEF OneAtATime, Excused
  <2> QED BY <2>3, <2>4, <2>5
<1> QED BY <1>1, <1>2, Steps

------------------------------------------------------------------------------
(* Two calls never work on the parent at the same time, unless a lock      *)
(* silently failed or two calls on one session overlapped (Replication.cs  *)
(* 1942-1953).                                                             *)
THEOREM Exclusion == Spec => []OneAtATime
<1>1. Init => IInv
      BY DEF Init, IInv, ControlTypes, Session, LockStates, PCs, SessionsApart, LocksHold, Holds,
             Holding, Working, OneAtATime, At
<1>2. IInv /\ [Next]_vars => IInv'
      BY TypesKept, ApartKept, LocksKept, WorkersKept DEF IInv
<1>3. IInv => OneAtATime
      BY DEF IInv
<1> QED BY <1>1, <1>2, <1>3, PTL DEF Spec

------------------------------------------------------------------------------
(* The tables.  A row gets the next number, so the numbers of a table need *)
(* a largest one, and a call that carries takes the least.                 *)
LEMMA LeastOf == ASSUME NEW T \in SUBSET Nat, T # {} PROVE \E x \in T : \A y \in T : x <= y
<1>1. PICK t \in T : TRUE
      OBVIOUS
<1> DEFINE S == 0..t
           R == StrictSubsetOrdering(S)
           F == {0..x : x \in {y \in T : y <= t}}
<1>2. IsFiniteSet(S)
      BY FS_Interval
<1>3. IsWellFoundedOn(R, SUBSET S)
      BY <1>2, FS_StrictSubsetOrderingWellFounded, FS_FiniteSubsetsOfFinite
<1>4. F \subseteq SUBSET S /\ F # {}
      OBVIOUS
<1>5. PICK A \in F : \A B \in F : <<B, A>> \notin R
  <2> HIDE DEF R, F
  <2> QED BY <1>3, <1>4, WFMin
<1>6. PICK x \in T : x <= t /\ A = 0..x
      OBVIOUS
<1>7. ASSUME NEW y \in T, y < x PROVE FALSE
  <2>1. 0..y \in F /\ 0..y \in SUBSET S
        BY <1>6, <1>7
  <2>2. 0..y \subseteq A /\ 0..y # A
        BY <1>6, <1>7
  <2>3. <<0..y, A>> \in R
        BY <2>1, <2>2, <1>4 DEF StrictSubsetOrdering
  <2> QED BY <1>5, <2>1, <2>3
<1> QED BY <1>6, <1>7

LEMMA GreatestOf ==
  ASSUME NEW T \in SUBSET Nat, T # {}, NEW b \in Nat, \A x \in T : x <= b
  PROVE  MaxOf(T) \in T /\ \A x \in T : x <= MaxOf(T)
<1> DEFINE Bounds == {c \in Nat : \A x \in T : x <= c}
<1>1. PICK c \in Bounds : \A y \in Bounds : c <= y
      BY LeastOf
<1>2. c \in T
  <2>1. SUFFICES ASSUME c \notin T PROVE FALSE
        OBVIOUS
  <2>2. \A x \in T : x < c
        BY <2>1
  <2>3. PICK x \in T : TRUE
        OBVIOUS
  <2>4. c - 1 \in Nat /\ \A y \in T : y <= c - 1
        BY <2>2, <2>3
  <2> QED BY <1>1, <2>4
<1> QED BY <1>1, <1>2 DEF MaxOf

(* A table, with the largest number of its rows.                           *)
Table(T) == T \subseteq Difference /\ \E b \in Nat : \A r \in T : r.n <= b
Tables == rows \in [Sides -> [Sessions -> SUBSET Difference]] /\ \A side \in Sides, s \in Sessions : Table(rows[side][s])

LEMMA SidesOfDbs ==
  ASSUME NEW d \in Dbs
  PROVE  /\ SideOf(d) \in Sides
         /\ \A side \in Sides, s \in Sessions : Db(side, s) \in Dbs /\ SideOf(Db(side, s)) = side
BY SessionAssumption DEF SideOf, Sides, Dbs, Db

(* What WriteDifferencesToTable does to the tables: a new row with a       *)
(* number of its own in those of the sessions, nothing in the others.      *)
NextN(T) == 1 + MaxOf({0} \cup {r.n : r \in T})
Row(T, id, statement, state, date) ==
  [n |-> NextN(T), id |-> id, statement |-> statement, state |-> state, date |-> date]

LEMMA NextNumber == ASSUME NEW T, Table(T) PROVE NextN(T) \in Nat /\ \A r \in T : r.n < NextN(T)
<1> DEFINE N == {0} \cup {r.n : r \in T}
<1>1. PICK b \in Nat : \A r \in T : r.n <= b
      BY DEF Table
<1>2. N \subseteq Nat /\ \A x \in N : x <= b
      BY <1>1 DEF Table, Difference
<1>3. MaxOf(N) \in N /\ \A x \in N : x <= MaxOf(N)
  <2> HIDE DEF N
  <2>1. N # {}
        BY DEF N
  <2> QED BY <1>2, <2>1, GreatestOf
<1>4. \A r \in T : r.n \in N
      OBVIOUS
<1> QED BY <1>2, <1>3, <1>4 DEF NextN, Table, Difference

LEMMA RecordedRows ==
  ASSUME Tables, NEW d \in Dbs, NEW states, DOMAIN states \subseteq Sessions,
         \A s \in DOMAIN states : states[s] \in Nat,
         NEW id \in Ids, NEW statement \in Statements, NEW date \in Nat
  PROVE  /\ Recorded(d, states, id, statement, date) \in [Sides -> [Sessions -> SUBSET Difference]]
         /\ \A side \in Sides, s \in Sessions :
              LET new == Recorded(d, states, id, statement, date)[side][s] IN
              /\ Table(new)
              /\ IF side = SideOf(d) /\ s \in DOMAIN states
                 THEN new = rows[side][s] \cup {Row(rows[side][s], id, statement, states[s], date)}
                 ELSE new = rows[side][s]
<1> DEFINE old == rows[SideOf(d)]
           with(s) == old[s] \cup {Row(old[s], id, statement, states[s], date)}
           table == [s \in Sessions |-> IF s \notin DOMAIN states THEN old[s] ELSE with(s)]
<1>1. Recorded(d, states, id, statement, date) = [rows EXCEPT ![SideOf(d)] = table]
      BY DEF Recorded, Row, NextN
<1>2. SideOf(d) \in Sides
      BY SidesOfDbs
<1>3. ASSUME NEW s \in Sessions, s \in DOMAIN states PROVE Table(with(s))
  <2> DEFINE r == Row(old[s], id, statement, states[s], date)
  <2>1. Table(old[s])
        BY <1>2 DEF Tables
  <2>2. r \in Difference /\ r.n = NextN(old[s])
        BY <1>3, <2>1, NextNumber DEF Row, Difference
  <2>3. with(s) \subseteq Difference
        BY <2>1, <2>2 DEF Table
  <2>4. \A q \in with(s) : q.n <= NextN(old[s])
        BY <2>1, <2>2, NextNumber DEF Table, Difference
  <2> QED BY <2>1, <2>3, <2>4, NextNumber DEF Table
<1>4. \A s \in Sessions : Table(table[s])
      BY <1>2, <1>3 DEF Tables
<1>5. table \in [Sessions -> SUBSET Difference]
      BY <1>4 DEF Table
<1> HIDE DEF table
<1>6. ASSUME NEW side \in Sides, NEW s \in Sessions
      PROVE  LET new == [rows EXCEPT ![SideOf(d)] = table][side][s] IN
             /\ Table(new)
             /\ side # SideOf(d) => new = rows[side][s]
             /\ side = SideOf(d) => new = table[s]
      BY <1>2, <1>4 DEF Tables
<1>7. \A s \in Sessions : table[s] = IF s \notin DOMAIN states THEN old[s] ELSE with(s)
      BY DEF table
<1>8. [rows EXCEPT ![SideOf(d)] = table] \in [Sides -> [Sessions -> SUBSET Difference]]
      BY <1>2, <1>5 DEF Tables
<1> QED BY <1>1, <1>6, <1>7, <1>8

LEMMA CurrentRow ==
  ASSUME NEW p \in Procs, call \in [Procs -> Call], call[p].todo # {}
  PROVE  /\ Current(p) \in call[p].todo /\ Current(p) \in Difference
         /\ \A q \in call[p].todo : Current(p).n <= q.n
<1> DEFINE N == {r.n : r \in call[p].todo}
<1>1. call[p].todo \subseteq Difference
      BY DEF Call
<1>2. N \subseteq Nat /\ N # {}
      BY <1>1 DEF Difference
<1>3. PICK x \in N : \A y \in N : x <= y
  <2> HIDE DEF N
  <2> QED BY <1>2, LeastOf
<1>4. \E r \in call[p].todo : \A q \in call[p].todo : r.n <= q.n
      BY <1>3
<1> QED BY <1>1, <1>4 DEF Current

------------------------------------------------------------------------------
(* What each step of a call leaves alone.                                  *)
Writes(p) == InsertFeature(p) \/ CopyFeature(p) \/ ChangeFeature(p)
ChangesRows(p) == Writes(p) \/ Thin(p) \/ RemoveRow(p) \/ ReleaseChild(p) \/ ReleaseParent(p)
ChangesLocks(p) ==
  LockObjects(p) \/ RemoveRow(p) \/ ReleaseChild(p) \/ InsertCheckoutLocks(p) \/ RemoveLocks(p)
ChangesConflicts(p) == Leave(p) \/ WriteConflict(p)
Ends(p) == UnlockParent(p) \/ Fail(p) \/ Crash(p)
ChangesCall(p) ==
  \/ \E type \in Types : Begin(p, type)
  \/ ReadDifferences(p) \/ PassOver(p) \/ CopyFeature(p) \/ WriteConflict(p) \/ RemoveRow(p)
  \/ EndCheckIn(p) \/ Ends(p)

Frame(p) ==
  /\ edits' = edits /\ terms' = terms /\ time' = time /\ runs' \in {runs, runs + 1}
  /\ features' = features \/ Writes(p)
  /\ rows' = rows \/ ChangesRows(p)
  /\ locks' = locks \/ ChangesLocks(p)
  /\ conflicts' = conflicts \/ ChangesConflicts(p)
  /\ lastId' = lastId \/ CopyFeature(p)
  /\ call' = call \/ ChangesCall(p)

LEMMA Frames == ASSUME NEW p \in Procs, Step(p) PROVE Frame(p)
<1> USE DEF Frame, Writes, ChangesRows, ChangesLocks, ChangesConflicts, Ends, ChangesCall, data, env
<1>1. CASE Prepare(p)
  <2>1. ASSUME NEW type \in Types, Begin(p, type) PROVE Frame(p)
        BY <2>1 DEF Begin
  <2>2. CASE CheckOthers(p)           BY <2>2 DEF CheckOthers
  <2>3. CASE LockSession(p)           BY <2>3 DEF LockSession
  <2>4. CASE IncReplicationState(p)   BY <2>4 DEF IncReplicationState
  <2>5. CASE Sleep(p)                 BY <2>5 DEF Sleep
  <2>6. CASE Thin(p)                  BY <2>6 DEF Thin
  <2>7. CASE LockObjects(p)           BY <2>7 DEF LockObjects
  <2> QED BY <1>1, <2>1, <2>2, <2>3, <2>4, <2>5, <2>6, <2>7 DEF Prepare
<1>2. CASE CheckIn(p)
  <2>1. CASE ReadDifferences(p)  BY <2>1 DEF ReadDifferences
  <2>2. CASE PassOver(p)         BY <2>2 DEF PassOver
  <2>3. CASE Leave(p)            BY <2>3 DEF Leave, Applied
  <2>4. CASE InsertFeature(p)    BY <2>4 DEF InsertFeature
  <2>5. CASE CopyFeature(p)      BY <2>5 DEF CopyFeature, Copied
  <2>6. CASE ChangeFeature(p)    BY <2>6 DEF ChangeFeature, Applied
  <2>7. CASE RemoveRow(p)        BY <2>7 DEF RemoveRow
  <2>8. CASE EndCheckIn(p)       BY <2>8 DEF EndCheckIn
  <2>9. CASE WriteConflict(p)    BY <2>9 DEF WriteConflict
  <2> QED BY <1>2, <2>1, <2>2, <2>3, <2>4, <2>5, <2>6, <2>7, <2>8, <2>9 DEF CheckIn
<1>3. CASE Complete(p)
  <2>1. CASE ReleaseChild(p)         BY <2>1 DEF ReleaseChild
  <2>2. CASE ReleaseParent(p)        BY <2>2 DEF ReleaseParent
  <2>3. CASE InsertCheckoutLocks(p)  BY <2>3 DEF InsertCheckoutLocks
  <2>4. CASE RemoveLocks(p)          BY <2>4 DEF RemoveLocks
  <2>5. CASE UnlockChild(p)          BY <2>5 DEF UnlockChild
  <2>6. CASE UnlockParent(p)         BY <2>6 DEF UnlockParent
  <2> QED BY <1>3, <2>1, <2>2, <2>3, <2>4, <2>5, <2>6 DEF Complete
<1>4. CASE Fail(p)   BY <1>4 DEF Fail
<1>5. CASE Crash(p)  BY <1>5 DEF Crash
<1> QED BY <1>1, <1>2, <1>3, <1>4, <1>5 DEF Step

(* A call that runs has read the states, one that removes a row has one to *)
(* remove, and one that has copied a feature knows the copy.               *)
Reading(p) ==
  /\ ~At(p, "idle") => call[p].parentState \in Nat /\ call[p].childState \in Nat
  /\ pc[p] \in {"conflict", "remove"} => call[p].todo # {}
  /\ At(p, "conflict") => call[p].copy \in Ids

TypeInv == TypeOK /\ Tables /\ \A p \in Procs : Reading(p)

LEMMA ControlTyped == TypeOK => ControlTypes
BY DEF TypeOK, ControlTypes

(* Where a call reads from and writes to.                                  *)
LEMMA Places ==
  ASSUME NEW p \in Procs
  PROVE  /\ FromDb(p) \in Dbs /\ ToDb(p) \in Dbs /\ SessionOf[p] \in Sessions /\ SessionOf[p] \in Dbs
         /\ From(p) \in Sides /\ To(p) \in Sides
         /\ SideOf(FromDb(p)) = From(p) /\ SideOf(ToDb(p)) = To(p)
<1>1. SessionOf[p] \in Sessions /\ From(p) \in Sides /\ To(p) \in Sides
      BY SessionAssumption DEF From, To, Sides
<1> QED BY <1>1, SidesOfDbs DEF FromDb, ToDb, Dbs

LEMMA Applying ==
  ASSUME TypeInv, NEW p \in Procs,
         Writes(p) \/ Leave(p) \/ WriteConflict(p) \/ RemoveRow(p) \/ PassOver(p)
  PROVE  /\ call[p].todo # {} /\ Current(p) \in call[p].todo
         /\ Current(p) \in Difference
         /\ call[p].parentState \in Nat /\ call[p].childState \in Nat
         /\ At(p, IF RemoveRow(p) THEN "remove" ELSE IF WriteConflict(p) THEN "conflict" ELSE "apply")
         /\ Writes(p) => Source(p) # <<>> \/ Current(p).statement = "DELETE"
<1>0. call[p].todo # {} /\ ~At(p, "idle") =>
        /\ Current(p) \in call[p].todo /\ Current(p) \in Difference
        /\ call[p].parentState \in Nat /\ call[p].childState \in Nat
      BY CurrentRow DEF TypeInv, TypeOK, Reading
<1>1. CASE RemoveRow(p) \/ WriteConflict(p)
  <2>1. At(p, IF RemoveRow(p) THEN "remove" ELSE "conflict") /\ (RemoveRow(p) \/ WriteConflict(p))
        BY <1>1 DEF RemoveRow, WriteConflict
  <2>2. call[p].todo # {} /\ ~At(p, "idle") /\ ~At(p, "apply")
        BY <2>1 DEF TypeInv, Reading, At
  <2>3. ~Writes(p)
        BY <2>2 DEF Writes, InsertFeature, CopyFeature, Copied, ChangeFeature, IsWriting, IsApplying
  <2> QED BY <1>0, <2>1, <2>2, <2>3
<1>2. CASE ~RemoveRow(p) /\ ~WriteConflict(p)
  <2>1. /\ At(p, "apply") /\ call[p].todo # {}
        /\ Writes(p) => Source(p) # <<>> \/ Current(p).statement = "DELETE"
        BY <1>2 DEF Writes, Leave, PassOver, InsertFeature, CopyFeature, Copied, ChangeFeature,
                    IsWriting, IsApplying
  <2> QED BY <1>0, <1>2, <2>1 DEF At
<1> QED BY <1>1, <1>2

LEMMA ValuesTyped == ASSUME TypeInv, NEW p \in Procs, Step(p) PROVE features' \in [Dbs -> [Ids -> Seq(Nat)]]
<1>0. features \in [Dbs -> [Ids -> Seq(Nat)]]
      BY DEF TypeInv, TypeOK
<1>1. ASSUME NEW id \in Ids, NEW v \in Seq(Nat), Put(ToDb(p), id, v)
      PROVE  features' \in [Dbs -> [Ids -> Seq(Nat)]]
      BY <1>0, <1>1, Places DEF Put
<1>2. CASE Writes(p)
  <2>1. /\ Current(p).id \in Ids /\ Source(p) \in Seq(Nat) /\ Target(p) \in Seq(Nat)
        /\ Source(p) # <<>> \/ Current(p).statement = "DELETE"
    <3>1. Current(p).id \in Ids /\ (Source(p) # <<>> \/ Current(p).statement = "DELETE")
          BY <1>2, Applying DEF Difference
    <3> QED BY <1>0, <3>1, Places DEF Source, Target
  <2>2. ASSUME Source(p) # <<>>
        PROVE  /\ Append(Target(p), Head(Source(p))) \in Seq(Nat)
               /\ <<Head(Source(p))>> \in Seq(Nat)
               /\ Target(p) # <<>> => <<Head(Source(p))>> \o Tail(Target(p)) \in Seq(Nat)
    <3>1. Head(Source(p)) \in Nat
          BY <2>1, <2>2
    <3>2. Append(Target(p), Head(Source(p))) \in Seq(Nat)
          BY <2>1, <3>1
    <3>3. <<Head(Source(p))>> \in Seq(Nat)
          BY <3>1
    <3>4. Target(p) # <<>> => Tail(Target(p)) \in Seq(Nat)
          BY <2>1
    <3> QED BY <3>2, <3>3, <3>4
  <2>3. CASE InsertFeature(p)
        BY <1>1, <2>1, <2>2, <2>3 DEF InsertFeature
  <2>4. CASE CopyFeature(p)
    <3>1. lastId' \in Ids
          BY <2>4, BoundAssumption DEF CopyFeature, Copied, TypeInv, TypeOK, Ids
    <3> QED BY <1>1, <2>2, <2>4, <3>1 DEF CopyFeature, Copied
  <2>5. CASE ChangeFeature(p)
    <3>1. Target(p) # <<>>
          BY <2>5 DEF ChangeFeature
    <3>2. Tail(Target(p)) \in Seq(Nat)
          BY <2>1, <3>1
    <3> QED BY <1>1, <2>1, <2>2, <2>5, <3>1, <3>2 DEF ChangeFeature
  <2> QED BY <1>2, <2>3, <2>4, <2>5 DEF Writes
<1> QED BY <1>0, <1>2, Frames DEF Frame

(* A table only loses rows where nothing is recorded.                      *)
LEMMA LostRows ==
  ASSUME TypeInv, NEW p \in Procs, Thin(p) \/ RemoveRow(p) \/ ReleaseChild(p) \/ ReleaseParent(p)
  PROVE  /\ rows' \in [Sides -> [Sessions -> SUBSET Difference]]
         /\ \A side \in Sides, s \in Sessions : rows'[side][s] \subseteq rows[side][s]
         /\ \A side \in Sides, s \in Sessions \ {SessionOf[p]} : rows'[side][s] = rows[side][s]
<1>0. /\ rows \in [Sides -> [Sessions -> SUBSET Difference]]
      /\ SessionOf[p] \in Sessions /\ From(p) \in Sides
      BY Places DEF TypeInv, TypeOK
<1>1. ASSUME NEW side \in Sides, NEW T \in SUBSET rows[side][SessionOf[p]],
             rows' = [rows EXCEPT ![side][SessionOf[p]] = T]
      PROVE  /\ rows' \in [Sides -> [Sessions -> SUBSET Difference]]
             /\ \A any \in Sides, s \in Sessions : rows'[any][s] \subseteq rows[any][s]
             /\ \A any \in Sides, s \in Sessions \ {SessionOf[p]} : rows'[any][s] = rows[any][s]
  <2>1. [rows[side] EXCEPT ![SessionOf[p]] = T] \in [Sessions -> SUBSET Difference]
        BY <1>0
  <2> QED BY <1>0, <1>1, <2>1
<1>2. CASE Thin(p)
  <2>1. PICK side \in Sides : ThinSide(p, side)
        BY <1>2 DEF Thin, Sides
  <2>2. Thinned(rows[side][SessionOf[p]], StateOf(p, side)) \subseteq rows[side][SessionOf[p]]
        BY DEF Thinned
  <2> QED BY <1>1, <2>1, <2>2 DEF ThinSide
<1>3. CASE RemoveRow(p)
  <2>1. \E T \in SUBSET rows[From(p)][SessionOf[p]] : rows' = [rows EXCEPT ![From(p)][SessionOf[p]] = T]
        BY <1>3 DEF RemoveRow
  <2> QED BY <1>0, <1>1, <2>1
<1>4. CASE ReleaseChild(p)
      BY <1>0, <1>1, <1>4 DEF ReleaseChild, Sides
<1>5. CASE ReleaseParent(p)
      BY <1>0, <1>1, <1>5 DEF ReleaseParent, Sides
<1> QED BY <1>2, <1>3, <1>4, <1>5

(* The rows that are written tell the other sessions and, of a copy, the    *)
(* session itself.                                                         *)
ToldOf(p, states, id, statement) ==
  /\ rows' = Recorded(ToDb(p), states, id, statement, Current(p).date)
  /\ DOMAIN states = IF CopyFeature(p) THEN Watching(ToDb(p)) ELSE Others(p)
  /\ \A s \in DOMAIN states :
       states[s] = IF s = SessionOf[p] THEN StateOf(p, To(p)) ELSE session[To(p)][s].state
  /\ id = IF CopyFeature(p) THEN lastId' ELSE Current(p).id
  /\ features' = [features EXCEPT ![ToDb(p)][id] = features'[ToDb(p)][id]]

LEMMA WrittenRows ==
  ASSUME TypeInv, NEW p \in Procs, Writes(p)
  PROVE  /\ Current(p).date \in Nat
         /\ \E states : \E id \in Ids, statement \in Statements :
              /\ DOMAIN states \subseteq Sessions
              /\ \A s \in DOMAIN states : states[s] \in Nat
              /\ ToldOf(p, states, id, statement)
<1>0. /\ Watching(ToDb(p)) \subseteq Sessions /\ To(p) \in Sides
      /\ \A s \in Sessions : session[To(p)][s].state \in Nat
      BY Places DEF Watching, TypeInv, TypeOK, Session
<1>1. /\ Current(p).id \in Ids /\ Current(p).date \in Nat
      /\ StateOf(p, To(p)) \in Nat
      BY Applying DEF Difference, StateOf
<1>2. /\ features \in [Dbs -> [Ids -> Seq(Nat)]] /\ features' \in [Dbs -> [Ids -> Seq(Nat)]]
      /\ ToDb(p) \in Dbs
      BY ValuesTyped, Places DEF TypeInv, TypeOK, Step, CheckIn, Writes
<1>3. ASSUME NEW id \in Ids, NEW v, Put(ToDb(p), id, v)
      PROVE  features' = [features EXCEPT ![ToDb(p)][id] = features'[ToDb(p)][id]]
      BY <1>2, <1>3 DEF Put
<1>4. ASSUME NEW statement \in Statements, rows' = Told(p, statement), ~CopyFeature(p),
             NEW v, Put(ToDb(p), Current(p).id, v)
      PROVE  \E states : \E id \in Ids, any \in Statements :
               /\ DOMAIN states \subseteq Sessions
               /\ \A s \in DOMAIN states : states[s] \in Nat
               /\ ToldOf(p, states, id, any)
  <2> DEFINE states == [s \in Others(p) |-> session[To(p)][s].state]
  <2>1. rows' = Recorded(ToDb(p), states, Current(p).id, statement, Current(p).date)
        BY <1>4 DEF Told
  <2>2. /\ DOMAIN states = Others(p) /\ Others(p) \subseteq Sessions
        /\ \A s \in Others(p) : s # SessionOf[p] /\ states[s] = session[To(p)][s].state
        BY <1>0 DEF Others
  <2>3. features' = [features EXCEPT ![ToDb(p)][Current(p).id] = features'[ToDb(p)][Current(p).id]]
        BY <1>1, <1>3, <1>4
  <2> HIDE DEF states
  <2>4. ToldOf(p, states, Current(p).id, statement)
        BY <1>4, <2>1, <2>2, <2>3 DEF ToldOf
  <2>5. \A s \in DOMAIN states : states[s] \in Nat
        BY <1>0, <2>2
  <2> QED BY <1>1, <1>4, <2>2, <2>4, <2>5
<1>5. CASE InsertFeature(p) \/ ChangeFeature(p)
  <2>1. ~CopyFeature(p)
    <3>1. CASE InsertFeature(p)
          BY <3>1 DEF InsertFeature, CopyFeature, Copied, IsWriting, IsApplying
    <3>2. CASE ChangeFeature(p)
          BY <3>2 DEF ChangeFeature, CopyFeature, Copied
    <3> QED BY <1>5, <3>1, <3>2
  <2>2. \E statement \in Statements : \E v : rows' = Told(p, statement) /\ Put(ToDb(p), Current(p).id, v)
        BY <1>5 DEF InsertFeature, ChangeFeature, Statements
  <2> QED BY <1>1, <1>4, <2>1, <2>2
<1>6. CASE CopyFeature(p)
  <2> DEFINE states == [s \in Watching(ToDb(p)) |->
                          IF s = SessionOf[p] THEN StateOf(p, To(p)) ELSE session[To(p)][s].state]
  <2>1. /\ rows' = Recorded(ToDb(p), states, lastId', "INSERT", Current(p).date)
        /\ \E v : Put(ToDb(p), lastId', v)
        BY <1>6 DEF CopyFeature, Copied
  <2>2. lastId' \in Ids
        BY <1>6, BoundAssumption DEF CopyFeature, Copied, TypeInv, TypeOK, Ids
  <2>3. /\ DOMAIN states = Watching(ToDb(p))
        /\ \A s \in Watching(ToDb(p)) :
             states[s] = IF s = SessionOf[p] THEN StateOf(p, To(p)) ELSE session[To(p)][s].state
        OBVIOUS
  <2>4. features' = [features EXCEPT ![ToDb(p)][lastId'] = features'[ToDb(p)][lastId']]
        BY <1>3, <2>1, <2>2
  <2> HIDE DEF states
  <2>5. ToldOf(p, states, lastId', "INSERT")
        BY <1>6, <2>1, <2>3, <2>4 DEF ToldOf
  <2>6. \A s \in DOMAIN states : states[s] \in Nat
        BY <1>0, <1>1, <2>3
  <2> QED BY <1>0, <1>1, <2>2, <2>3, <2>5, <2>6 DEF Statements
<1> QED BY <1>1, <1>5, <1>6 DEF Writes

LEMMA TablesKept == ASSUME TypeInv, NEW p \in Procs, Step(p) PROVE Tables'
<1>1. Tables
      BY DEF TypeInv
<1>2. CASE Thin(p) \/ RemoveRow(p) \/ ReleaseChild(p) \/ ReleaseParent(p)
      BY <1>1, <1>2, LostRows DEF Tables, Table
<1>3. CASE Writes(p)
  <2>1. PICK states : \E id \in Ids, statement \in Statements :
          /\ DOMAIN states \subseteq Sessions
          /\ \A s \in DOMAIN states : states[s] \in Nat
          /\ rows' = Recorded(ToDb(p), states, id, statement, Current(p).date)
        BY <1>3, WrittenRows DEF ToldOf
  <2>2. PICK id \in Ids, statement \in Statements :
          /\ DOMAIN states \subseteq Sessions
          /\ \A s \in DOMAIN states : states[s] \in Nat
          /\ rows' = Recorded(ToDb(p), states, id, statement, Current(p).date)
        BY <2>1
  <2>3. Current(p).date \in Nat /\ ToDb(p) \in Dbs
        BY <1>3, WrittenRows, Places
  <2>4. \A side \in Sides, s \in Sessions : Table(rows'[side][s])
        BY <1>1, <2>2, <2>3, RecordedRows
  <2>5. rows' \in [Sides -> [Sessions -> SUBSET Difference]]
        BY <1>1, <2>2, <2>3, RecordedRows
  <2> QED BY <2>4, <2>5 DEF Tables, Table
<1> QED BY <1>1, <1>2, <1>3, Frames DEF Frame, ChangesRows, Tables

LEMMA LocksTyped == ASSUME TypeInv, NEW p \in Procs, Step(p) PROVE locks' \in [Dbs -> SUBSET ObjectLock]
<1> DEFINE s == SessionOf[p]
<1>0. /\ locks \in [Dbs -> SUBSET ObjectLock]
      /\ s \in Sessions /\ s \in Dbs /\ "parent" \in Dbs /\ FromDb(p) \in Dbs /\ ToDb(p) \in Dbs
      BY Places DEF TypeInv, TypeOK, Dbs
<1>1. ASSUME NEW d \in Dbs, NEW L \in SUBSET ObjectLock, locks' = [locks EXCEPT ![d] = L]
      PROVE  locks' \in [Dbs -> SUBSET ObjectLock]
      BY <1>0, <1>1
<1>2. /\ \A side \in Sides : rows[side][s] \subseteq Difference
      /\ call[p].childState \in Int /\ call[p].parentState \in Int
      BY <1>0 DEF TypeInv, TypeOK, Call
<1>3. ASSUME NEW id \in Ids, NEW lock \in {-1, 0, 1}, NEW by \in Sessions \cup {"none"}, NEW state \in Int
      PROVE  Lock(id, lock, by, state) \in ObjectLock
      BY DEF Lock, ObjectLock
<1>4. CASE LockObjects(p)
  <2>1. ASSUME NEW side \in Sides, NEW upTo
        PROVE  /\ {Lock(r.id, 0, s, r.state) : r \in UpTo(rows[side][s], upTo)} \subseteq ObjectLock
               /\ {Lock(r.id, 1, s, call[p].childState) : r \in UpTo(rows[side][s], upTo)}
                     \subseteq ObjectLock
    <3>1. ASSUME NEW r \in UpTo(rows[side][s], upTo) PROVE r.id \in Ids /\ r.state \in Nat
          BY <1>2 DEF UpTo, Difference
    <3> QED BY <1>0, <1>2, <1>3, <3>1
  <2>2. /\ locks[s] \subseteq ObjectLock /\ locks["parent"] \subseteq ObjectLock
        BY <1>0
  <2>3. ASSUME NEW d \in Dbs, NEW own \in SUBSET ObjectLock, NEW theirs \in SUBSET ObjectLock,
               Added(d, own, theirs)
        PROVE  locks' \in [Dbs -> SUBSET ObjectLock]
        BY <1>0, <1>1, <2>3 DEF Added
  <2>4. CASE At(p, "lockChildObjects") /\ ~At(p, "lockParentObjects")
        BY <1>0, <1>4, <2>1, <2>3, <2>4 DEF LockObjects, Sides
  <2>5. CASE ~At(p, "lockChildObjects")
        BY <1>0, <1>4, <2>1, <2>3, <2>5 DEF LockObjects, Sides
  <2> QED BY <2>4, <2>5 DEF At
<1>5. CASE RemoveRow(p)
  <2>1. \E L \in SUBSET locks[FromDb(p)], M \in SUBSET locks[ToDb(p)] :
          locks' = [[locks EXCEPT ![FromDb(p)] = L] EXCEPT ![ToDb(p)] = M]
        BY <1>5 DEF RemoveRow
  <2>2. PICK L \in SUBSET locks[FromDb(p)], M \in SUBSET locks[ToDb(p)] :
          locks' = [[locks EXCEPT ![FromDb(p)] = L] EXCEPT ![ToDb(p)] = M]
        BY <2>1
  <2> DEFINE rest == [locks EXCEPT ![FromDb(p)] = L]
  <2>3. rest \in [Dbs -> SUBSET ObjectLock]
        BY <1>0
  <2>4. locks' = [rest EXCEPT ![ToDb(p)] = M]
        BY <2>2
  <2> HIDE DEF rest
  <2> QED BY <1>0, <2>3, <2>4
<1>6. CASE ReleaseChild(p)
      BY <1>0, <1>1, <1>6 DEF ReleaseChild
<1>7. CASE InsertCheckoutLocks(p)
  <2>1. UNION {{c.id, c.copy} : c \in conflicts["parent"]} \subseteq Ids
        BY <1>0 DEF TypeInv, TypeOK
  <2>2. \A i \in Ids : Lock(i, -1, "none", -1) \in ObjectLock
        BY DEF Lock, ObjectLock
  <2>3. {Lock(i, -1, "none", -1) : i \in UNION {{c.id, c.copy} : c \in conflicts["parent"]}}
          \subseteq ObjectLock
        BY <2>1, <2>2
  <2> QED BY <1>0, <1>1, <1>7, <2>3 DEF InsertCheckoutLocks
<1>8. CASE RemoveLocks(p)
  <2>1. ASSUME NEW side \in Sides, RemoveReplicationLocks(p, side)
        PROVE  locks' \in [Dbs -> SUBSET ObjectLock]
    <3>1. Db(side, s) \in Dbs
          BY <1>0, SidesOfDbs
    <3> QED BY <1>0, <1>1, <2>1, <3>1 DEF RemoveReplicationLocks
  <2> QED BY <1>8, <2>1 DEF RemoveLocks, Sides
<1> QED BY <1>0, <1>4, <1>5, <1>6, <1>7, <1>8, Frames DEF Frame, ChangesLocks

LEMMA ConflictsTyped ==
  ASSUME TypeInv, NEW p \in Procs, Step(p)
  PROVE  /\ conflicts' \in [Dbs -> SUBSET [id : Ids, copy : Ids]]
         /\ lastId' \in 0..MaxObjects /\ lastId <= lastId'
         /\ \A d \in Dbs : conflicts[d] \subseteq conflicts'[d]
<1>0. /\ conflicts \in [Dbs -> SUBSET [id : Ids, copy : Ids]] /\ ToDb(p) \in Dbs
      /\ lastId \in 0..MaxObjects
      BY Places DEF TypeInv, TypeOK
<1>1. ASSUME NEW new \in SUBSET [id : Ids, copy : Ids],
             conflicts' = [conflicts EXCEPT ![ToDb(p)] = conflicts[ToDb(p)] \cup new]
      PROVE  /\ conflicts' \in [Dbs -> SUBSET [id : Ids, copy : Ids]]
             /\ \A d \in Dbs : conflicts[d] \subseteq conflicts'[d]
      BY <1>0, <1>1
<1>2. ASSUME NEW id \in Ids, Current(p).id \in Ids, AddConflict(p, id)
      PROVE  /\ conflicts' \in [Dbs -> SUBSET [id : Ids, copy : Ids]]
             /\ \A d \in Dbs : conflicts[d] \subseteq conflicts'[d]
  <2>1. {[id |-> Current(p).id, copy |-> id]} \in SUBSET [id : Ids, copy : Ids]
        BY <1>2
  <2> QED BY <1>0, <1>1, <1>2, <2>1 DEF AddConflict
<1>3. CASE Leave(p)
  <2>1. Current(p).id \in Ids
        BY <1>3, Applying DEF Difference
  <2> QED BY <1>0, <1>2, <1>3, <2>1 DEF Leave
<1>4. CASE WriteConflict(p)
  <2>1. Current(p).id \in Ids /\ call[p].copy \in Ids
        BY <1>4, Applying DEF Difference, TypeInv, Reading, WriteConflict
  <2> QED BY <1>0, <1>2, <1>4, <2>1 DEF WriteConflict
<1>5. CASE CopyFeature(p)
      BY <1>0, <1>5, BoundAssumption DEF CopyFeature, Copied
<1> QED BY <1>0, <1>3, <1>4, <1>5, Frames DEF Frame, ChangesConflicts

(* Where each step starts and where it leads.                              *)
Goes(p, from, to) == pc[p] = from /\ pc'[p] = to

Move(p) ==
  \/ \E type \in Types : Begin(p, type) /\ \E to \in {"checkOthers", "removeChildLocks"} : Goes(p, "idle", to)
  \/ CheckOthers(p) /\ (Goes(p, "checkOthers", "lockParent") \/ Goes(p, "recheck", "incParent"))
  \/ LockSession(p) /\ \/ Goes(p, "lockParent", "lockChild") \/ Goes(p, "lockChild", "recheck")
                       \/ Goes(p, "softenParent", "softenChild")
                       \/ Goes(p, "softenChild", "readDifferences")
  \/ IncReplicationState(p) /\ (Goes(p, "incParent", "incChild") \/ Goes(p, "incChild", "sleep"))
  \/ Sleep(p) /\ Goes(p, "sleep", "thinChild")
  \/ Thin(p) /\ (Goes(p, "thinChild", "thinParent") \/ Goes(p, "thinParent", "lockChildObjects"))
  \/ LockObjects(p) /\ \/ Goes(p, "lockChildObjects", "lockParentObjects")
                       \/ Goes(p, "lockParentObjects", "softenParent")
  \/ ReadDifferences(p) /\ Goes(p, "readDifferences", "apply")
  \/ PassOver(p) /\ Goes(p, "apply", "apply")
  \/ Leave(p) /\ Goes(p, "apply", "remove")
  \/ Writes(p) /\ (Goes(p, "apply", "remove") \/ (CopyFeature(p) /\ Goes(p, "apply", "conflict")))
  \/ WriteConflict(p) /\ Goes(p, "conflict", "remove")
  \/ RemoveRow(p) /\ Goes(p, "remove", "apply")
  \/ EndCheckIn(p) /\ \E to \in {"releaseChild", "readDifferences", "insertLocks"} : Goes(p, "apply", to)
  \/ ReleaseChild(p) /\ Goes(p, "releaseChild", "releaseParent")
  \/ ReleaseParent(p) /\ Goes(p, "releaseParent", "removeChildLocks")
  \/ InsertCheckoutLocks(p) /\ Goes(p, "insertLocks", "removeChildLocks")
  \/ RemoveLocks(p) /\ \/ Goes(p, "removeChildLocks", "removeParentLocks")
                       \/ Goes(p, "removeParentLocks", "unlockChild")
  \/ UnlockChild(p) /\ Goes(p, "unlockChild", "unlockParent")
  \/ UnlockParent(p) /\ Goes(p, "unlockParent", "idle")
  \/ Fail(p) /\ pc[p] \notin Cleaning \cup {"idle"} /\ pc'[p] = "removeChildLocks"
  \/ Crash(p) /\ pc[p] # "idle" /\ pc'[p] = "idle"

LEMMA Moves == ASSUME ControlTypes, NEW p \in Procs, Step(p) PROVE Move(p)
<1>0. p \in DOMAIN pc
      BY DEF ControlTypes
<1> USE <1>0 DEF Goes, At, Goto
<1>1. CASE Prepare(p)
  <2>1. ASSUME NEW type \in Types, Begin(p, type)
        PROVE  \E to \in {"checkOthers", "removeChildLocks"} : Goes(p, "idle", to)
        BY <2>1 DEF Begin
  <2>2. CASE CheckOthers(p)          BY <2>2 DEF CheckOthers, Move
  <2>3. CASE LockSession(p)          BY <2>3 DEF LockSession, Move
  <2>4. CASE IncReplicationState(p)  BY <2>4 DEF IncReplicationState, Move
  <2>5. CASE Sleep(p)                BY <2>5 DEF Sleep, Move
  <2>6. CASE Thin(p)                 BY <2>6 DEF Thin, Move
  <2>7. CASE LockObjects(p)          BY <2>7 DEF LockObjects, Move
  <2> QED BY <1>1, <2>1, <2>2, <2>3, <2>4, <2>5, <2>6, <2>7 DEF Prepare, Move
<1>2. CASE CheckIn(p)
  <2>1. CASE ReadDifferences(p)  BY <2>1 DEF ReadDifferences, Move
  <2>2. CASE PassOver(p)         BY <2>2 DEF PassOver, IsApplying, Move
  <2>3. CASE Leave(p)            BY <2>3 DEF Leave, Applied, Move
  <2>4. CASE InsertFeature(p)    BY <2>4 DEF InsertFeature, IsWriting, IsApplying, Writes, Move
  <2>5. CASE CopyFeature(p)      BY <2>5 DEF CopyFeature, Copied, IsWriting, IsApplying, Writes, Move
  <2>6. CASE ChangeFeature(p)    BY <2>6 DEF ChangeFeature, Applied, IsWriting, IsApplying, Writes, Move
  <2>7. CASE RemoveRow(p)        BY <2>7 DEF RemoveRow, Move
  <2>8. CASE EndCheckIn(p)
    <3>1. \E to \in {"releaseChild", "readDifferences", "insertLocks"} : Goes(p, "apply", to)
          BY <2>8 DEF EndCheckIn
    <3> QED BY <2>8, <3>1 DEF Move
  <2>9. CASE WriteConflict(p)    BY <2>9 DEF WriteConflict, Move
  <2> QED BY <1>2, <2>1, <2>2, <2>3, <2>4, <2>5, <2>6, <2>7, <2>8, <2>9 DEF CheckIn
<1>3. CASE Complete(p)
  <2>1. CASE ReleaseChild(p)         BY <2>1 DEF ReleaseChild, Move
  <2>2. CASE ReleaseParent(p)        BY <2>2 DEF ReleaseParent, Move
  <2>3. CASE InsertCheckoutLocks(p)  BY <2>3 DEF InsertCheckoutLocks, Move
  <2>4. CASE RemoveLocks(p)          BY <2>4 DEF RemoveLocks, Move
  <2>5. CASE UnlockChild(p)          BY <2>5 DEF UnlockChild, Move
  <2>6. CASE UnlockParent(p)         BY <2>6 DEF UnlockParent, Move
  <2> QED BY <1>3, <2>1, <2>2, <2>3, <2>4, <2>5, <2>6 DEF Complete
<1>4. CASE Fail(p)   BY <1>4 DEF Fail, Move
<1>5. CASE Crash(p)  BY <1>5 DEF Crash, Move
<1> QED BY <1>1, <1>2, <1>3, <1>4, <1>5 DEF Step

(* A call is changed in one field at a time.                               *)
WithTodo(c, T) == [c EXCEPT !.todo = T]
WithOther(c, T) == [c EXCEPT !.other = T]
WithDir(c, dir) == [c EXCEPT !.dir = dir]
WithCopy(c, id) == [c EXCEPT !.copy = id]
SameStates(c, e) == c.type = e.type /\ c.parentState = e.parentState /\ c.childState = e.childState

LEMMA CallWithTodo ==
  ASSUME NEW c \in Call, NEW T \in SUBSET Difference
  PROVE  /\ WithTodo(c, T) \in Call /\ SameStates(WithTodo(c, T), c)
         /\ WithTodo(c, T).dir = c.dir /\ WithTodo(c, T).other = c.other /\ WithTodo(c, T).todo = T
         /\ WithTodo(c, T).copy = c.copy
BY DEF Call, WithTodo, SameStates

LEMMA CallWithOther ==
  ASSUME NEW c \in Call, NEW T \in SUBSET Difference
  PROVE  /\ WithOther(c, T) \in Call /\ SameStates(WithOther(c, T), c)
         /\ WithOther(c, T).dir = c.dir /\ WithOther(c, T).todo = c.todo /\ WithOther(c, T).other = T
BY DEF Call, WithOther, SameStates

LEMMA CallWithDir ==
  ASSUME NEW c \in Call, NEW dir \in {"checkin", "post"}
  PROVE  /\ WithDir(c, dir) \in Call /\ SameStates(WithDir(c, dir), c)
         /\ WithDir(c, dir).dir = dir /\ WithDir(c, dir).todo = c.todo /\ WithDir(c, dir).other = c.other
BY DEF Call, WithDir, SameStates

LEMMA CallWithCopy ==
  ASSUME NEW c \in Call, NEW id \in 0..MaxObjects
  PROVE  /\ WithCopy(c, id) \in Call /\ SameStates(WithCopy(c, id), c)
         /\ WithCopy(c, id).dir = c.dir /\ WithCopy(c, id).todo = c.todo
         /\ WithCopy(c, id).other = c.other /\ WithCopy(c, id).copy = id
BY DEF Call, WithCopy, SameStates

(* What of a call changes while it runs.                                   *)
LEMMA CallsKept ==
  ASSUME TypeInv, NEW p \in Procs, Step(p)
  PROVE  /\ call' \in [Procs -> Call]
         /\ \A q \in Procs \ {p} : call'[q] = call[q]
         /\ \/ call'[p] = NoCall /\ At(p, "idle")'
            \/ At(p, "idle") /\ call'[p].type \in Types /\ call'[p].dir = "checkin"
                 /\ call'[p].parentState = session["parent"][SessionOf[p]].state
                 /\ call'[p].childState = session["child"][SessionOf[p]].state
                 /\ call'[p].todo = {} /\ call'[p].other = {}
            \/ ~At(p, "idle") /\ SameStates(call'[p], call[p])
                 /\ (call'[p].dir # call[p].dir => call[p].dir = "checkin" /\ EndCheckIn(p))
<1>0. /\ call \in [Procs -> Call] /\ call[p] \in Call
      /\ SessionOf[p] \in Sessions /\ From(p) \in Sides /\ To(p) \in Sides
      /\ rows \in [Sides -> [Sessions -> SUBSET Difference]]
      BY Places DEF TypeInv, TypeOK
<1>1. ASSUME NEW c \in Call, call' = [call EXCEPT ![p] = c]
      PROVE  call' \in [Procs -> Call] /\ call'[p] = c /\ \A q \in Procs \ {p} : call'[q] = call[q]
      BY <1>0, <1>1
<1>2. ASSUME NEW type \in Types, Begin(p, type)
      PROVE  /\ call' \in [Procs -> Call] /\ \A q \in Procs \ {p} : call'[q] = call[q]
             /\ At(p, "idle") /\ call'[p].type \in Types /\ call'[p].dir = "checkin"
             /\ call'[p].parentState = session["parent"][SessionOf[p]].state
             /\ call'[p].childState = session["child"][SessionOf[p]].state
             /\ call'[p].todo = {} /\ call'[p].other = {}
  <2> DEFINE x == session["parent"][SessionOf[p]].state
             y == session["child"][SessionOf[p]].state
  <2>1. x \in Nat /\ y \in Nat
        BY <1>0 DEF TypeInv, TypeOK, Session, Sides
  <2> DEFINE b == [NoCall EXCEPT !.type = type, !.parentState = x, !.childState = y]
             c == [type |-> type, dir |-> "checkin", parentState |-> x, childState |-> y,
                   todo |-> {}, other |-> {}, copy |-> 0]
  <2>2. call' = [call EXCEPT ![p] = b] /\ At(p, "idle")
        BY <1>2, Zenon DEF Begin
  <2>3. b = c
    <3> HIDE DEF x, y
    <3> SUFFICES ASSUME NEW e, e = b PROVE e = c
        OBVIOUS
    <3> QED BY DEF NoCall
  <2>4. c \in Call
    <3> HIDE DEF x, y
    <3> QED BY <2>1, BoundAssumption DEF Call
  <2>5. /\ c.type \in Types /\ c.dir = "checkin" /\ c.parentState = x /\ c.childState = y
        /\ c.todo = {} /\ c.other = {}
        OBVIOUS
  <2> HIDE DEF b, c
  <2> QED BY <1>1, <2>2, <2>3, <2>4, <2>5
<1>3. CASE call' = call /\ ~At(p, "idle")
      BY <1>0, <1>3 DEF SameStates
<1>4. ASSUME NEW c \in Call, call' = [call EXCEPT ![p] = c], ~At(p, "idle"), SameStates(c, call[p]),
             c.dir = call[p].dir \/ (call[p].dir = "checkin" /\ EndCheckIn(p))
      PROVE  /\ call' \in [Procs -> Call] /\ \A q \in Procs \ {p} : call'[q] = call[q]
             /\ ~At(p, "idle") /\ SameStates(call'[p], call[p])
             /\ call'[p].dir # call[p].dir => call[p].dir = "checkin" /\ EndCheckIn(p)
      BY <1>1, <1>4
<1>5. CASE ReadDifferences(p)
  <2> DEFINE T == UpTo(rows[From(p)][SessionOf[p]], StateOf(p, From(p)))
             O == UpTo(rows[To(p)][SessionOf[p]], StateOf(p, To(p)))
             c == WithOther(WithTodo(call[p], T), O)
  <2>1. T \in SUBSET Difference /\ O \in SUBSET Difference
        BY <1>0 DEF UpTo
  <2>2. ~At(p, "idle") /\ call' = [call EXCEPT ![p] = c]
        BY <1>5 DEF ReadDifferences, At, WithOther, WithTodo
  <2> HIDE DEF T, O
  <2>3. c \in Call /\ SameStates(c, call[p]) /\ c.dir = call[p].dir
        BY <1>0, <2>1, CallWithTodo, CallWithOther DEF SameStates
  <2> HIDE DEF c
  <2> QED BY <1>4, <2>2, <2>3
<1>6. CASE PassOver(p) \/ RemoveRow(p)
  <2> DEFINE T == call[p].todo \ {Current(p)}
             c == WithTodo(call[p], T)
  <2>1. T \in SUBSET Difference
        BY <1>0 DEF Call
  <2>2. ~At(p, "idle") /\ call' = [call EXCEPT ![p] = c]
        BY <1>6 DEF PassOver, RemoveRow, IsApplying, At, WithTodo
  <2> HIDE DEF T
  <2>3. c \in Call /\ SameStates(c, call[p]) /\ c.dir = call[p].dir
        BY <1>0, <2>1, CallWithTodo
  <2> HIDE DEF c
  <2> QED BY <1>4, <2>2, <2>3
<1>7. CASE EndCheckIn(p)
  <2> DEFINE c == WithOther(call[p], {})
             e == WithDir(c, "post")
  <2>1. ~At(p, "idle")
        BY <1>7 DEF EndCheckIn, At
  <2>2. \/ call' = [call EXCEPT ![p] = c]
        \/ call' = [call EXCEPT ![p] = e] /\ call[p].dir = "checkin"
        BY <1>7 DEF EndCheckIn, WithOther, WithDir
  <2>3. c \in Call /\ SameStates(c, call[p]) /\ c.dir = call[p].dir
        BY <1>0, CallWithOther
  <2>4. e \in Call /\ SameStates(e, call[p])
        BY <2>3, CallWithDir DEF SameStates
  <2> HIDE DEF c, e
  <2> QED BY <1>4, <1>7, <2>1, <2>2, <2>3, <2>4
<1>8. CASE Fail(p)
  <2> DEFINE c == WithCopy(WithOther(WithTodo(call[p], {}), {}), 0)
  <2>1. ~At(p, "idle") /\ call' = [call EXCEPT ![p] = c]
        BY <1>8 DEF Fail, At, WithOther, WithTodo, WithCopy
  <2>2. c \in Call /\ SameStates(c, call[p]) /\ c.dir = call[p].dir
        BY <1>0, BoundAssumption, CallWithTodo, CallWithOther, CallWithCopy DEF SameStates
  <2> HIDE DEF c
  <2> QED BY <1>4, <2>1, <2>2
<1>9. CASE UnlockParent(p) \/ Crash(p)
  <2>1. NoCall \in Call
        BY BoundAssumption DEF NoCall, Call, Types
  <2>2. call' = [call EXCEPT ![p] = NoCall] /\ At(p, "idle")'
        BY <1>9, ControlTyped DEF UnlockParent, Crash, Goto, At, TypeInv, ControlTypes
  <2> QED BY <1>1, <2>1, <2>2
<1>10. CASE CopyFeature(p) \/ WriteConflict(p)
  <2>1. ~At(p, "idle")
        BY <1>10 DEF CopyFeature, Copied, WriteConflict, IsWriting, IsApplying, At
  <2>2. call' = call \/ \E id \in 0..MaxObjects : call' = [call EXCEPT ![p] = WithCopy(call[p], id)]
    <3>1. lastId + 1 \in 0..MaxObjects \/ ~CopyFeature(p)
          BY BoundAssumption DEF CopyFeature, Copied, TypeInv, TypeOK
    <3> QED BY <1>10, <3>1, BoundAssumption DEF CopyFeature, Copied, WriteConflict, WithCopy
  <2>3. ASSUME NEW id \in 0..MaxObjects, call' = [call EXCEPT ![p] = WithCopy(call[p], id)]
        PROVE  /\ call' \in [Procs -> Call] /\ \A q \in Procs \ {p} : call'[q] = call[q]
               /\ SameStates(call'[p], call[p]) /\ call'[p].dir = call[p].dir
    <3> DEFINE c == WithCopy(call[p], id)
    <3>1. c \in Call /\ SameStates(c, call[p]) /\ c.dir = call[p].dir
          BY <1>0, CallWithCopy
    <3>2. call' = [call EXCEPT ![p] = c]
          BY <2>3
    <3> HIDE DEF c
    <3> QED BY <1>1, <3>1, <3>2
  <2> QED BY <1>3, <2>1, <2>2, <2>3
<1>11. (\E type \in Types : Begin(p, type)) \/ ~At(p, "idle")
      BY Idlers
<1> QED BY <1>2, <1>3, <1>5, <1>6, <1>7, <1>8, <1>9, <1>10, <1>11, Frames DEF Frame, ChangesCall, Ends

LEMMA ReadingKept ==
  ASSUME TypeInv, NEW p \in Procs, Step(p), NEW q \in Procs
  PROVE  Reading(q)'
<1>0. ControlTypes /\ Move(p)
      BY ControlTyped, Moves DEF TypeInv
<1>1. CASE q # p
  <2>1. pc'[q] = pc[q] /\ call'[q] = call[q]
        BY <1>0, <1>1, StepsAlone, CallsKept DEF Alone, ControlTypes
  <2> QED BY <2>1 DEF TypeInv, Reading, At
<1>2. CASE q = p
  <2>1. ~At(p, "idle")' => call'[p].parentState \in Nat /\ call'[p].childState \in Nat
    <3>0. \/ At(p, "idle")'
          \/ /\ At(p, "idle")
             /\ call'[p].parentState = session["parent"][SessionOf[p]].state
             /\ call'[p].childState = session["child"][SessionOf[p]].state
          \/ ~At(p, "idle") /\ SameStates(call'[p], call[p])
          BY CallsKept
    <3>1. CASE At(p, "idle")
      <4>1. /\ session["parent"][SessionOf[p]].state \in Nat
            /\ session["child"][SessionOf[p]].state \in Nat
            BY <1>0, Places DEF ControlTypes, Session, Sides
      <4> QED BY <3>0, <3>1, <4>1
    <3>2. CASE ~At(p, "idle")
      <4>1. call[p].parentState \in Nat /\ call[p].childState \in Nat
            BY <3>2 DEF TypeInv, Reading
      <4> QED BY <3>0, <3>2, <4>1 DEF SameStates
    <3> QED BY <3>1, <3>2
  <2>2. ASSUME pc'[p] \in {"conflict", "remove"}
        PROVE  call'[p].todo # {} /\ (pc'[p] = "conflict" => call'[p].copy \in Ids)
    <3>1. /\ Writes(p) \/ Leave(p) \/ WriteConflict(p)
          /\ pc'[p] = "conflict" => CopyFeature(p)
          BY <1>0, <2>2 DEF Move, Goes, At, Cleaning
    <3>2. call[p].todo # {} /\ call[p] \in Call /\ p \in DOMAIN call
          BY <3>1, Applying DEF TypeInv, TypeOK
    <3>3. CASE WriteConflict(p)
      <4>1. call'[p] = WithCopy(call[p], 0) /\ pc'[p] = "remove"
            BY <1>0, <3>2, <3>3 DEF WriteConflict, Goto, ControlTypes, WithCopy
      <4>2. call'[p].todo = call[p].todo
            BY <3>2, <4>1, CallWithCopy, BoundAssumption
      <4> QED BY <3>2, <4>1, <4>2
    <3>4. CASE CopyFeature(p)
      <4>1. lastId' \in Ids /\ lastId' = lastId + 1
            BY <3>4, BoundAssumption DEF CopyFeature, Copied, TypeInv, TypeOK, Ids
      <4>2. \/ call'[p] = WithCopy(call[p], lastId')
            \/ call' = call /\ pc'[p] = "remove"
            BY <1>0, <3>2, <3>4 DEF CopyFeature, Copied, Goto, ControlTypes, WithCopy
      <4>3. lastId' \in 0..MaxObjects
            BY <4>1, BoundAssumption DEF Ids
      <4>4. WithCopy(call[p], lastId').todo = call[p].todo /\ WithCopy(call[p], lastId').copy = lastId'
            BY <3>2, <4>3, CallWithCopy
      <4> QED BY <3>2, <4>1, <4>2, <4>4
    <3>5. CASE ~WriteConflict(p) /\ ~CopyFeature(p)
      <4>1. call' = call
            BY <3>1, <3>5 DEF Writes, InsertFeature, ChangeFeature, Leave, Applied
      <4> QED BY <3>1, <3>2, <3>5, <4>1
    <3> QED BY <3>3, <3>4, <3>5
  <2> QED BY <1>2, <2>1, <2>2 DEF Reading, At
<1> QED BY <1>1, <1>2

LEMMA EditsTyped ==
  ASSUME TypeInv, Edit
  PROVE  /\ features' \in [Dbs -> [Ids -> Seq(Nat)]] /\ Tables'
         /\ \A e \in edits' : DOMAIN e.states \subseteq Sessions /\ e \in Transaction(DOMAIN e.states)
         /\ UNCHANGED <<session, locks, conflicts, pc, call, terms, runs>>
         /\ time' \in Nat /\ lastId' \in 0..MaxObjects
<1>0. /\ features \in [Dbs -> [Ids -> Seq(Nat)]] /\ Tables
      /\ \A e \in edits : DOMAIN e.states \subseteq Sessions /\ e \in Transaction(DOMAIN e.states)
      /\ time \in Nat /\ lastId \in 0..MaxObjects /\ MaxObjects \in Nat
      BY BoundAssumption DEF TypeInv, TypeOK
<1>1. ASSUME NEW d \in Dbs, NEW statement \in Statements, NEW id \in Ids, BeginEdit(d, statement, id)
      PROVE  /\ UNCHANGED <<features, rows, session, locks, conflicts, pc, call, terms, runs>>
             /\ \A e \in edits' : DOMAIN e.states \subseteq Sessions /\ e \in Transaction(DOMAIN e.states)
             /\ time' \in Nat /\ lastId' \in 0..MaxObjects
  <2> DEFINE states == [s \in Watching(d) |-> session[SideOf(d)][s].state]
             new == [db |-> d, statement |-> statement, id |-> id, date |-> time', states |-> states]
  <2>1. edits' = edits \cup {new} /\ time' = time + 1 /\ lastId' \in 0..MaxObjects
        BY <1>0, <1>1 DEF BeginEdit, Ids
  <2>2. \A s \in Watching(d) : s \in Sessions /\ session[SideOf(d)][s].state \in Nat
        BY SidesOfDbs DEF Watching, TypeInv, TypeOK, Session
  <2>3. states \in [Watching(d) -> Nat]
        BY <2>2
  <2>4. DOMAIN new.states = Watching(d) /\ new \in Transaction(Watching(d))
        BY <1>0, <2>1, <2>3 DEF Transaction
  <2> HIDE DEF new
  <2>5. \A e \in edits' : DOMAIN e.states \subseteq Sessions /\ e \in Transaction(DOMAIN e.states)
        BY <1>0, <2>1, <2>2, <2>4
  <2> QED BY <1>0, <1>1, <2>1, <2>5 DEF BeginEdit
<1>2. ASSUME NEW e \in edits, CommitEdit(e)
      PROVE  /\ features' \in [Dbs -> [Ids -> Seq(Nat)]] /\ Tables'
             /\ UNCHANGED <<session, locks, conflicts, pc, call, terms, runs, time, lastId>>
             /\ edits' \subseteq edits
  <2>1. /\ e.db \in Dbs /\ e.statement \in Statements /\ e.id \in Ids /\ e.date \in Nat
        /\ DOMAIN e.states \subseteq Sessions
        /\ \A s \in DOMAIN e.states : e.states[s] \in Nat
        BY <1>0 DEF Transaction
  <2>2. Tables'
    <3>1. rows' = Recorded(e.db, e.states, e.id, e.statement, e.date)
          BY <1>2 DEF CommitEdit
    <3>2. /\ \A side \in Sides, s \in Sessions : Table(rows'[side][s])
          /\ rows' \in [Sides -> [Sessions -> SUBSET Difference]]
          BY <1>0, <2>1, <3>1, RecordedRows
    <3> QED BY <3>2 DEF Tables, Table
  <2>3. features' \in [Dbs -> [Ids -> Seq(Nat)]]
    <3> DEFINE old == features[e.db][e.id]
               new == IF e.statement = "INSERT" THEN Append(old, e.date)
                      ELSE IF old = <<>> THEN old
                      ELSE (IF e.statement = "UPDATE" THEN <<e.date>> ELSE <<>>) \o Tail(old)
    <3>1. features' = [features EXCEPT ![e.db][e.id] = new]
          BY <1>2 DEF CommitEdit, Put
    <3>2. new \in Seq(Nat)
      <4>1. old \in Seq(Nat)
            BY <1>0, <2>1
      <4>2. Append(old, e.date) \in Seq(Nat) /\ <<e.date>> \in Seq(Nat) /\ <<>> \in Seq(Nat)
            BY <2>1, <4>1
      <4>3. old # <<>> => Tail(old) \in Seq(Nat)
            BY <4>1
      <4> HIDE DEF old
      <4> QED BY <4>1, <4>2, <4>3
    <3> HIDE DEF new
    <3>3. [features[e.db] EXCEPT ![e.id] = new] \in [Ids -> Seq(Nat)]
          BY <1>0, <2>1, <3>2
    <3> QED BY <1>0, <2>1, <3>1, <3>3
  <2> QED BY <1>2, <2>2, <2>3 DEF CommitEdit
<1> QED BY <1>0, <1>1, <1>2 DEF Edit, Tables

LEMMA TypeInvKept == TypeInv /\ [Next]_vars => TypeInv'
<1> SUFFICES ASSUME TypeInv, [Next]_vars PROVE TypeInv'
    OBVIOUS
<1>0. ControlTypes' /\ ControlTypes
      BY ControlTyped, TypesKept DEF TypeInv
<1>1. CASE UNCHANGED vars
      BY <1>1 DEF vars, data, env, TypeInv, TypeOK, Tables, Reading, At
<1>2. CASE Edit
  <2>1. /\ features' \in [Dbs -> [Ids -> Seq(Nat)]] /\ Tables'
        /\ \A e \in edits' : DOMAIN e.states \subseteq Sessions /\ e \in Transaction(DOMAIN e.states)
        /\ UNCHANGED <<session, locks, conflicts, pc, call, terms, runs>>
        /\ time' \in Nat /\ lastId' \in 0..MaxObjects
        BY <1>2, EditsTyped
  <2> QED BY <2>1 DEF TypeInv, TypeOK, Tables, Reading, At
<1>3. ASSUME NEW p \in Procs, Step(p) PROVE TypeInv'
  <2>1. /\ features' \in [Dbs -> [Ids -> Seq(Nat)]] /\ Tables'
        /\ locks' \in [Dbs -> SUBSET ObjectLock]
        /\ conflicts' \in [Dbs -> SUBSET [id : Ids, copy : Ids]]
        /\ call' \in [Procs -> Call] /\ lastId' \in 0..MaxObjects
        /\ \A q \in Procs : Reading(q)'
        BY <1>3, ValuesTyped, TablesKept, LocksTyped, ConflictsTyped, CallsKept, ReadingKept
  <2>2. edits' = edits /\ terms' = terms /\ time' = time
        BY <1>3, Frames DEF Frame
  <2>3. runs' \in Nat
        BY <1>3, Frames DEF Frame, TypeInv, TypeOK
  <2> QED BY <1>0, <2>1, <2>2, <2>3 DEF TypeInv, TypeOK, Tables, ControlTypes
<1> QED BY <1>1, <1>2, <1>3, Steps

LEMMA TypeInvInit == Init => TypeInv
<1> SUFFICES ASSUME Init PROVE TypeInv
    OBVIOUS
<1>1. /\ session \in [Sides -> [Sessions -> Session]] /\ pc \in [Procs -> PCs]
      /\ locks \in [Dbs -> SUBSET ObjectLock] /\ conflicts \in [Dbs -> SUBSET [id : Ids, copy : Ids]]
      BY DEF Init, Session, LockStates, PCs
<1>2. call \in [Procs -> Call] /\ \A p \in Procs : Reading(p)
      BY BoundAssumption DEF Init, NoCall, Call, Types, Reading, At
<1>3. features \in [Dbs -> [Ids -> Seq(Nat)]]
      BY DEF Init
<1>4. /\ rows \in [Sides -> [Sessions -> SUBSET Difference]]
      /\ \A side \in Sides, s \in Sessions : rows[side][s] = {}
      BY DEF Init
<1>5. Tables
      BY <1>4 DEF Tables, Table
<1>6. edits = {} /\ terms \in Terms /\ time \in Nat /\ runs \in Nat /\ lastId \in 0..MaxObjects
      BY BoundAssumption DEF Init
<1> QED BY <1>1, <1>2, <1>3, <1>4, <1>5, <1>6 DEF TypeInv, TypeOK

(* The tables hold what is expected in them, whatever is edited, carried    *)
(* over or broken off: no difference is written without a state, no number *)
(* of a row is missing (FeatureClassDiffLocks, Replication.cs:2692).       *)
THEOREM Typing == Spec => []TypeOK
<1>1. Init => TypeInv
      BY TypeInvInit
<1>2. TypeInv /\ [Next]_vars => TypeInv'
      BY TypeInvKept
<1>3. TypeInv => TypeOK
      BY DEF TypeInv
<1> QED BY <1>1, <1>2, <1>3, PTL DEF Spec
===============================================================================
