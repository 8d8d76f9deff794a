------------------------- MODULE ReplicationCarryProofs -------------------------
(***************************************************************************)
(* What a call carries: nobody edits it meanwhile, a release throws nothing *)
(* of it away, the locks of a call are gone when it is over, and where a   *)
(* child still differs from its parent a difference says so.               *)
(***************************************************************************)
EXTENDS ReplicationProofs

------------------------------------------------------------------------------
(* The states a call has read are those of its session, until it raises    *)
(* them.                                                                   *)
Counting == {"checkOthers", "lockParent", "lockChild", "recheck", "incParent"}
Carrying == {"thinChild", "thinParent", "lockChildObjects", "lockParentObjects", "softenParent",
             "softenChild", "readDifferences", "apply", "conflict", "remove"}
Thinning == {"thinChild", "thinParent"}
Done == {"conflict", "remove"}
Middle == {"readDifferences", "apply"} \cup Done
Late == Carrying \cup {"releaseChild"}

Counted(p) ==
  LET parent == session["parent"][SessionOf[p]]
      child == session["child"][SessionOf[p]]
  IN
  /\ pc[p] \in Counting => parent.state = call[p].parentState
  /\ pc[p] \in Counting \cup {"incChild"} => child.open /\ child.state = call[p].childState
  /\ pc[p] \in {"incChild", "sleep"} \cup Late => parent.state = call[p].parentState + 1
  /\ pc[p] \in {"sleep"} \cup Late => child.open /\ child.state = call[p].childState + 1
  /\ pc[p] \in Counting \cup {"incChild", "sleep"} \cup Late =>
       call[p].childState <= call[p].parentState

(* The parent is raised first, so a call broken off leaves it ahead.       *)
Ahead == \A s \in Sessions : IsOpen("parent", s) /\ IsOpen("child", s) =>
           session["child"][s].state <= session["parent"][s].state

(* Hard locks last as long as the objects are not locked themselves.       *)
HardInParent == {"lockChild", "recheck", "incParent", "incChild", "sleep", "thinChild", "thinParent",
                 "lockChildObjects", "lockParentObjects", "softenParent"}
HardInChild == (HardInParent \ {"lockChild"}) \cup {"softenChild"}
Hard(p) ==
  /\ pc[p] \in HardInParent => session["parent"][SessionOf[p]].lock = "Hardlock"
  /\ pc[p] \in HardInChild => session["child"][SessionOf[p]].lock = "Hardlock"

(* The rows a call is to carry.  Of those that are posted the one at hand   *)
(* is carried already when it is removed.                                  *)
ChildRows(p) == UpTo(rows["child"][SessionOf[p]], call[p].childState)
ParentRows(p) == UpTo(rows["parent"][SessionOf[p]], call[p].parentState)
AtHand(p) == IF At(p, "remove") /\ call[p].dir = "post" THEN {Current(p)} ELSE {}
ParentCarried(p) == IF call[p].type = "Reconcile" THEN ParentRows(p) \ AtHand(p) ELSE {}

(* An edit concerns a call if it writes differences for its session: old   *)
(* ones, which it carries, or new ones, for the next.                      *)
Concerns(e, p) == e.db \in {"parent", SessionOf[p]}
IsNew(e, p) == e.states[SessionOf[p]] > StateOf(p, SideOf(e.db))

(* No object is both carried and changed anew.                             *)
IsOldId(p, i) ==
  \/ \E r \in ChildRows(p) \cup ParentCarried(p) : r.id = i
  \/ \E e \in edits : e.id = i /\ Concerns(e, p) /\ ~IsNew(e, p)
IsNewId(p, i) ==
  \/ \E r \in rows["child"][SessionOf[p]] : r.id = i /\ r.state > call[p].childState
  \/ \E e \in edits : /\ e.id = i /\ Concerns(e, p) /\ IsNew(e, p)
                      /\ e.db = "parent" => terms.handling # "NONE"
Apart(p) ==
  pc[p] \in {"incParent", "incChild", "sleep"} \cup Carrying =>
    \A i \in Ids : ~(IsOldId(p, i) /\ IsNewId(p, i))

(* After the wait every edit is a new one.                                 *)
Drained(p) == pc[p] \in Late => \A e \in edits : Concerns(e, p) => IsNew(e, p)

(* After thinning there is one difference of an object on either side.     *)
Unique(p) ==
  /\ pc[p] \in Carrying \ {"thinChild"} => \A r, q \in ChildRows(p) : r.id = q.id => r = q
  /\ pc[p] \in Carrying \ Thinning => \A r, q \in ParentRows(p) : r.id = q.id => r = q

(* Then the objects are locked, but for the copies of objects in conflict, *)
(* which the child does not have yet and the conflict protects as soon as  *)
(* it is written.                                                          *)
IsCopy(p, id) ==
  /\ features[SessionOf[p]][id] = <<>>
  /\ terms.handling # "NONE" => \/ \E c \in conflicts["parent"] : id = c.copy
                                \/ At(p, "conflict") /\ id = call[p].copy
Locked(p) ==
  LET s == SessionOf[p] IN
  /\ pc[p] \in Carrying \ (Thinning \cup {"lockChildObjects"}) =>
       /\ \A r \in ChildRows(p) : Lock(r.id, 0, s, r.state) \in locks[s]
       /\ \A r \in ParentCarried(p) : Lock(r.id, 1, s, call[p].childState) \in locks[s] \/ IsCopy(p, r.id)
  /\ pc[p] \in Carrying \ (Thinning \cup {"lockChildObjects", "lockParentObjects"}) =>
       /\ \A r \in ChildRows(p) : Lock(r.id, 1, s, call[p].childState) \in locks["parent"]
       /\ \A r \in ParentCarried(p) : Lock(r.id, 0, s, r.state) \in locks["parent"] \/ IsCopy(p, r.id)

(* What is left to do is what there is to carry.                           *)
Todo(p) ==
  /\ pc[p] \in {"apply"} \cup Done =>
       IF call[p].dir = "checkin" THEN call[p].todo = ChildRows(p)
       ELSE call[p].todo \subseteq ParentRows(p) /\ call[p].other = {}
  /\ At(p, "conflict") => call[p].dir = "checkin"
  /\ pc[p] \in Middle /\ call[p].dir = "post" =>
       ChildRows(p) = {} /\ call[p].type = "Reconcile"
  /\ pc[p] \in Counting \cup {"incChild", "sleep"} \cup (Late \ Middle) =>
       call[p].dir = "checkin"
  /\ At(p, "releaseChild") => ChildRows(p) = {}

CallInv(p) ==
  Counted(p) /\ Hard(p) /\ Apart(p) /\ Drained(p) /\ Unique(p) /\ Locked(p) /\ Todo(p)

(* Ids and dates are given in order.                                       *)
Low ==
  /\ \A side \in Sides, s \in Sessions : \A r \in rows[side][s] : r.id <= lastId /\ r.date <= time
  /\ \A e \in edits : e.id <= lastId /\ e.date <= time
  /\ \A p \in Procs : \A r \in call[p].todo : r.id <= lastId /\ r.date <= time
  /\ \A d \in Dbs, i \in Ids : i > lastId => features[d][i] = <<>>

(* The edit of a child is for its session.                                 *)
Edits == \A e \in edits : e.db # "parent" => DOMAIN e.states = {e.db}

Numbered ==
  /\ \A side \in Sides, s \in Sessions : IsFiniteSet(rows[side][s])
  /\ \A side \in Sides, s \in Sessions : \A r, q \in rows[side][s] : r.n = q.n => r = q

(* Edits know the sessions that are open.                                  *)
Seen == \A e \in edits : Watching(e.db) \subseteq DOMAIN e.states

(* No difference is of a state to come.                                    *)
Stated ==
  /\ \A s \in Sessions : IsOpen("child", s) =>
       \A r \in rows["child"][s] : r.state <= session["child"][s].state
  /\ \A e \in edits : \A s \in DOMAIN e.states :
       IsOpen(SideOf(e.db), s) => e.states[s] <= session[SideOf(e.db)][s].state

(* In a child the last difference of an object says whether it is there.    *)
Alive ==
  \A s \in Sessions : \A r \in rows["child"][s] :
    r.statement # "DELETE" /\ (\A q \in rows["child"][s] : q.id = r.id => q.n <= r.n)
      => features[s][r.id] # <<>>
Dated ==
  \A s \in Sessions :
    /\ \A r, q \in rows["child"][s] : r.id = q.id /\ r.n < q.n => r.date <= q.date
    /\ \A e \in edits : e.db = s => \A r \in rows["child"][s] : r.id = e.id => r.date <= e.date
EditAlive ==
  \A e \in edits : e.db # "parent" /\ e.statement # "INSERT" => features[e.db][e.id] # <<>>

(* One editor at a feature at a time.                                      *)
Straight == \A e, f \in edits : e.db = f.db /\ e.id = f.id => e = f

DataInv == Low /\ Edits /\ Numbered
Carried == /\ Ahead /\ Seen /\ Stated /\ Alive /\ Dated /\ EditAlive /\ Straight
           /\ \A p \in Procs : CallInv(p)
CarryInv == Usual => Carried

(* The locks of objects belong to a call that will remove them.            *)
Stages(d) == Working \cup {"removeChildLocks"} \cup IF d = "parent" THEN {"removeParentLocks"} ELSE {}
Orderly == Without({"overlap", "unnoticed", "crash", "uneven"})
Even ==
  \A s \in Sessions : IsOpen("parent", s) /\ IsOpen("child", s) =>
    session["parent"][s].state = session["child"][s].state
      + IF \E p \in Procs : SessionOf[p] = s /\ At(p, "incChild") THEN 1 ELSE 0
LocksOwned ==
  /\ \A d \in Dbs : \A l \in locks[d] : l.session \in Sessions =>
       /\ d \in {"parent", l.session} /\ l.lock >= 0
       /\ \E p \in Procs : /\ SessionOf[p] = l.session /\ pc[p] \in Stages(d)
                           /\ 0 <= l.state /\ l.state <= call[p].childState
  /\ \A p \in Procs : ~At(p, "idle") => call[p].parentState = call[p].childState
LockInv == Orderly => Even /\ LocksOwned

------------------------------------------------------------------------------
(* What a step does to the session of its call: it closes a side, raises it *)
(* by one, or only turns its lock.                                         *)
Raises(p, side) ==
  /\ IncReplicationState(p)
  /\ pc[p] = IF side = "parent" THEN "incParent" ELSE "incChild"

LEMMA OwnSession ==
  ASSUME TypeInv, NEW p \in Procs, Step(p), Without({"unnoticed"})', NEW side \in Sides
  PROVE  LET old == session[side][SessionOf[p]]
             new == session'[side][SessionOf[p]]
         IN
         /\ new.open => old.open
         /\ new.open /\ Raises(p, side) => new.state = old.state + 1
         /\ new.open /\ ~Raises(p, side) => new.state = old.state
         /\ old.open /\ ~new.open => (IF side = "parent" THEN ReleaseParent(p) ELSE ReleaseChild(p))
<1> DEFINE s == SessionOf[p]
<1>0. /\ ControlTypes /\ s \in Sessions
      /\ session \in [Sides -> [Sessions -> Session]]
      BY ControlTyped, Places DEF TypeInv, TypeOK
<1> USE DEF Sides, Without
<1>1. CASE Quiet(p)
  <2>1. session' = session
        BY <1>0, <1>1, QuietSteps
  <2>2. ~Raises(p, side)
    <3>1. SUFFICES ASSUME IncReplicationState(p) PROVE FALSE
          BY DEF Raises
    <3>2. pc'[p] \in {"incChild", "sleep"} /\ pc[p] \in {"incParent", "incChild"}
          BY <1>0, <3>1 DEF IncReplicationState, Goto, At, ControlTypes
    <3>3. pc[p] # pc'[p] /\ (pc[p] = "incParent" => pc'[p] = "incChild")
                         /\ (pc[p] = "incChild" => pc'[p] = "sleep")
          BY <1>0, <3>1 DEF IncReplicationState, Goto, At, ControlTypes
    <3> USE DEF Goto, At, ControlTypes
    <3>4. ~(\/ CheckOthers(p) \/ Sleep(p) \/ Thin(p) \/ LockObjects(p) \/ InsertCheckoutLocks(p)
            \/ RemoveLocks(p) \/ Fail(p) \/ Crash(p))
          BY <1>0, <3>2, <3>3 DEF CheckOthers, Sleep, Thin, LockObjects, InsertCheckoutLocks, RemoveLocks, Fail, Crash
    <3>5. ~CheckIn(p)
          BY <3>2 DEF CheckIn, ReadDifferences, PassOver, Leave, InsertFeature, CopyFeature, Copied,
                      WriteConflict, ChangeFeature, RemoveRow, EndCheckIn, IsWriting, IsApplying
    <3>6. \A type \in Types : ~Begin(p, type)
          BY <3>2 DEF Begin
    <3> QED BY <1>1, <3>4, <3>5, <3>6 DEF Quiet
  <2> QED BY <2>1, <2>2
<1>2. CASE LockSession(p) \/ UnlockChild(p) \/ UnlockParent(p)
  <2>1. \E any \in Sides, lock \in LockStates : LockReplicationSession(p, any, lock)
        BY <1>2 DEF LockSession, UnlockChild, UnlockParent, LockStates
  <2>2. /\ session'[side][s].open = session[side][s].open
        /\ session'[side][s].state = session[side][s].state
    <3>1. PICK any \in Sides, lock \in LockStates : LockReplicationSession(p, any, lock)
          BY <2>1
    <3>2. session' = session \/ session' = [session EXCEPT ![any][s] = [session[any][s] EXCEPT !.lock = lock]]
          BY <3>1 DEF LockReplicationSession, SetSession
    <3>3. CASE session' = [session EXCEPT ![any][s] = [session[any][s] EXCEPT !.lock = lock]]
      <4>1. CASE any = side
        <5>1. session'[side][s] = [session[side][s] EXCEPT !.lock = lock]
              BY <1>0, <3>3, <4>1
        <5>2. session[side][s] \in Session
              BY <1>0
        <5> QED BY <5>1, <5>2 DEF Session
      <4>2. CASE any # side
            BY <1>0, <3>3, <4>2
      <4> QED BY <4>1, <4>2
    <3> QED BY <3>2, <3>3
  <2>3. ~Raises(p, side)
        BY <1>2 DEF Raises, IncReplicationState, LockSession, UnlockChild, UnlockParent, At
  <2> QED BY <2>2, <2>3
<1>3. CASE IncReplicationState(p)
  <2>1. PICK any \in Sides : Raises(p, any) /\
          SetSession(any, s, [session[any][s] EXCEPT !.state = session[any][s].state + 1])
        BY <1>3 DEF IncReplicationState, Raises, At
  <2>2. session[any][s] \in Session /\ session[side][s] \in Session
        BY <1>0
  <2>3. CASE ~IsOpen(any, s)
    <3>1. session' = session
          BY <2>1, <2>3 DEF SetSession
    <3> QED BY <2>1, <2>2, <2>3, <3>1 DEF IsOpen, Raises, Session
  <2>4. CASE IsOpen(any, s)
    <3>1. session' = [session EXCEPT ![any][s] = [session[any][s] EXCEPT !.state = session[any][s].state + 1]]
          BY <2>1, <2>4 DEF SetSession
    <3>2. CASE any = side
      <4>1. session'[side][s] = [session[side][s] EXCEPT !.state = session[side][s].state + 1]
            BY <1>0, <3>1, <3>2
      <4> QED BY <2>1, <2>2, <3>2, <4>1 DEF Session
    <3>3. CASE any # side
      <4>1. session'[side][s] = session[side][s]
            BY <1>0, <3>1, <3>3
      <4> QED BY <2>1, <3>3, <4>1 DEF Raises
    <3> QED BY <3>2, <3>3
  <2> QED BY <2>3, <2>4
<1>4. CASE ReleaseChild(p)
  <2>1. ~Raises(p, side)
        BY <1>4 DEF Raises, ReleaseChild, At
  <2>2. session' = [session EXCEPT !["child"][s] = Closed]
        BY <1>4 DEF ReleaseChild
  <2> QED BY <1>0, <1>4, <2>1, <2>2 DEF Closed
<1>5. CASE ReleaseParent(p)
  <2>1. ~Raises(p, side)
        BY <1>5 DEF Raises, ReleaseParent, At
  <2>2. session' = [session EXCEPT !["parent"][s] = Closed]
        BY <1>5 DEF ReleaseParent
  <2> QED BY <1>0, <1>5, <2>1, <2>2 DEF Closed
<1> QED BY <1>1, <1>2, <1>3, <1>4, <1>5 DEF Step, Prepare, Complete, Quiet

(* What a step does to the locks of objects.                               *)
NewLock(p, d, l) ==
  /\ LockObjects(p) /\ d \in {"parent", SessionOf[p]}
  /\ l.session = SessionOf[p] /\ l.lock \in {0, 1}
  /\ \/ l.state = call[p].childState
     \/ \E side \in Sides : d = Db(side, SessionOf[p]) /\ l.state \in Nat /\ l.state <= StateOf(p, side)

LEMMA LockEffects ==
  ASSUME TypeInv, NEW p \in Procs, Step(p), NEW d \in Dbs, NEW l \in locks'[d]
  PROVE  \/ l \in locks[d]
         \/ InsertCheckoutLocks(p) /\ l.session = "none"
         \/ NewLock(p, d, l)
<1> DEFINE s == SessionOf[p]
<1>0. /\ s \in Sessions /\ s \in Dbs /\ "parent" \in Dbs /\ FromDb(p) \in Dbs /\ ToDb(p) \in Dbs
      /\ s # "parent" /\ locks \in [Dbs -> SUBSET ObjectLock]
      BY Places, SessionAssumption DEF Dbs, TypeInv, TypeOK
<1>1. CASE LockObjects(p)
  <2>1. ASSUME NEW side \in Sides, l \in {Lock(r.id, 0, s, r.state) : r \in UpTo(rows[side][s], StateOf(p, side))},
               d = Db(side, s)
        PROVE  NewLock(p, d, l)
    <3>1. PICK r \in rows[side][s] : r.state <= StateOf(p, side) /\ l = Lock(r.id, 0, s, r.state)
          BY <2>1 DEF UpTo
    <3>2. r.state \in Nat
          BY <1>0 DEF TypeInv, TypeOK, Difference
    <3>3. l.session = s /\ l.lock = 0 /\ l.state = r.state
          BY <3>1 DEF Lock
    <3> QED BY <1>1, <2>1, <3>1, <3>2, <3>3 DEF NewLock, Db
  <2>2. ASSUME NEW T, l \in {Lock(r.id, 1, s, call[p].childState) : r \in T}, d \in {"parent", s}
        PROVE  NewLock(p, d, l)
    <3>1. PICK r \in T : l = Lock(r.id, 1, s, call[p].childState)
          BY <2>2
    <3>2. l.session = s /\ l.lock = 1 /\ l.state = call[p].childState
          BY <3>1 DEF Lock
    <3> QED BY <1>1, <2>2, <3>2 DEF NewLock
  <2>3. CASE At(p, "lockChildObjects")
    <3> DEFINE own == {Lock(r.id, 0, s, r.state) : r \in UpTo(rows["child"][s], StateOf(p, "child"))}
               theirs == {Lock(r.id, 1, s, call[p].childState) :
                            r \in UpTo(rows["parent"][s], call[p].parentState)}
    <3>1. PICK got \in SUBSET theirs : locks' = [locks EXCEPT ![s] = locks[s] \cup own \cup got]
          BY <1>1, <2>3 DEF LockObjects, Added, At
    <3>2. CASE d = s
      <4>1. l \in locks[d] \/ l \in own \/ l \in theirs
            BY <1>0, <3>1, <3>2
      <4> QED BY <1>0, <2>1, <2>2, <3>2, <4>1 DEF Sides, Db
    <3>3. CASE d # s
          BY <1>0, <3>1, <3>3
    <3> QED BY <3>2, <3>3
  <2>4. CASE At(p, "lockParentObjects")
    <3> DEFINE own == {Lock(r.id, 0, s, r.state) : r \in UpTo(rows["parent"][s], StateOf(p, "parent"))}
               theirs == {Lock(r.id, 1, s, call[p].childState) :
                            r \in UpTo(rows["child"][s], call[p].parentState)}
               mine == IF call[p].type = "Reconcile" THEN own ELSE {}
    <3>1. PICK got \in SUBSET theirs :
            locks' = [locks EXCEPT !["parent"] = locks["parent"] \cup mine \cup got]
          BY <1>1, <2>4 DEF LockObjects, Added, At
    <3>2. CASE d = "parent"
      <4>1. l \in locks[d] \/ l \in own \/ l \in theirs
            BY <1>0, <3>1, <3>2
      <4> QED BY <1>0, <2>1, <2>2, <3>2, <4>1 DEF Sides, Db
    <3>3. CASE d # "parent"
          BY <1>0, <3>1, <3>3
    <3> QED BY <3>2, <3>3
  <2> QED BY <1>1, <2>3, <2>4 DEF LockObjects
<1>2. CASE RemoveRow(p)
  <2>1. \E L \in SUBSET locks[FromDb(p)], M \in SUBSET locks[ToDb(p)] :
          locks' = [[locks EXCEPT ![FromDb(p)] = L] EXCEPT ![ToDb(p)] = M]
        BY <1>2 DEF RemoveRow
  <2>3. PICK L \in SUBSET locks[FromDb(p)], M \in SUBSET locks[ToDb(p)] :
          locks' = [[locks EXCEPT ![FromDb(p)] = L] EXCEPT ![ToDb(p)] = M]
        BY <2>1
  <2> DEFINE rest == [locks EXCEPT ![FromDb(p)] = L]
  <2>2. rest \in [Dbs -> SUBSET ObjectLock] /\ rest[d] \subseteq locks[d]
        BY <1>0
  <2>4. locks' = [rest EXCEPT ![ToDb(p)] = M]
        BY <2>3
  <2> HIDE DEF rest
  <2> QED BY <1>0, <2>2, <2>4
<1>3. CASE ReleaseChild(p)
      BY <1>0, <1>3 DEF ReleaseChild
<1>4. CASE InsertCheckoutLocks(p)
  <2>1. CASE d = s
    <3>1. PICK i : l = Lock(i, -1, "none", -1)
          BY <1>0, <1>4, <2>1 DEF InsertCheckoutLocks
    <3> QED BY <1>4, <3>1 DEF Lock
  <2>2. CASE d # s
        BY <1>0, <1>4, <2>2 DEF InsertCheckoutLocks
  <2> QED BY <2>1, <2>2
<1>5. CASE RemoveLocks(p)
  <2>1. ASSUME NEW side \in Sides, RemoveReplicationLocks(p, side) PROVE l \in locks[d]
    <3>1. Db(side, s) \in Dbs
          BY <1>0, SidesOfDbs
    <3> QED BY <1>0, <2>1, <3>1 DEF RemoveReplicationLocks
  <2> QED BY <1>5, <2>1 DEF RemoveLocks, Sides
<1> QED BY <1>1, <1>2, <1>3, <1>4, <1>5, Frames DEF Frame, ChangesLocks

(* The states of the two sides stay the same where nothing is broken off    *)
(* between their increments.                                               *)
LEMMA EvenKept ==
  ASSUME TypeInv, SessionsApart, Orderly, Even, NEW p \in Procs, Step(p), Orderly'
  PROVE  Even'
<1> DEFINE own == SessionOf[p]
<1>0. /\ ControlTypes /\ Move(p) /\ own \in Sessions /\ Without({"unnoticed"})' /\ Without(Excused)
      /\ \A q \in Procs \ {p} : pc'[q] = pc[q]
      BY ControlTyped, Moves, Places, StepsAlone DEF TypeInv, Orderly, Without, Excused, Alone, ControlTypes
<1> SUFFICES ASSUME NEW s \in Sessions, IsOpen("parent", s)', IsOpen("child", s)'
             PROVE  session'["parent"][s].state = session'["child"][s].state
                      + IF \E q \in Procs : SessionOf[q] = s /\ At(q, "incChild")' THEN 1 ELSE 0
    BY DEF Even
<1>1. CASE s # own
  <2>1. \A side \in Sides : session'[side][s] = session[side][s]
        BY <1>0, <1>1, StepsAlone DEF Alone
  <2>2. \A q \in Procs : SessionOf[q] = s => (At(q, "incChild")' <=> At(q, "incChild"))
        BY <1>0, <1>1 DEF At
  <2>3. IsOpen("parent", s) /\ IsOpen("child", s)
        BY <2>1 DEF IsOpen, Sides
  <2> QED BY <2>1, <2>2, <2>3 DEF Even, Sides
<1>2. CASE s = own
  <2>1. \A q \in Procs \ {p} : ~At(p, "idle") /\ SessionOf[q] = own => At(q, "idle") /\ At(q, "idle")'
        BY <1>0 DEF SessionsApart, At
  <2>2. IsOpen("parent", s) /\ IsOpen("child", s)
        BY <1>2, <1>0, OwnSession DEF IsOpen, Sides
  <2>3. /\ session["parent"][s].state \in Nat /\ session["child"][s].state \in Nat
        BY <1>0 DEF ControlTypes, Session, Sides
  <2>4. CASE Raises(p, "parent")
    <3>1. At(p, "incParent") /\ At(p, "incChild")'
          BY <1>0, <2>4 DEF Raises, IncReplicationState, At, Goto, ControlTypes
    <3>2. ~\E q \in Procs : SessionOf[q] = s /\ At(q, "incChild")
          BY <1>2, <2>1, <3>1 DEF At
    <3>3. ~Raises(p, "child")
          BY <2>4 DEF Raises
    <3>4. /\ session'["parent"][s].state = session["parent"][s].state + 1
          /\ session'["child"][s].state = session["child"][s].state
          BY <1>0, <1>2, <2>4, <3>3, OwnSession DEF IsOpen, Sides
    <3> QED BY <1>2, <2>2, <2>3, <3>1, <3>2, <3>4 DEF Even
  <2>5. CASE Raises(p, "child")
    <3>1. At(p, "incChild") /\ At(p, "sleep")'
          BY <1>0, <2>5 DEF Raises, IncReplicationState, At, Goto, ControlTypes
    <3>2. ~\E q \in Procs : SessionOf[q] = s /\ At(q, "incChild")'
          BY <1>2, <2>1, <3>1 DEF At
    <3>3. ~Raises(p, "parent")
          BY <2>5 DEF Raises
    <3>4. /\ session'["parent"][s].state = session["parent"][s].state
          /\ session'["child"][s].state = session["child"][s].state + 1
          BY <1>0, <1>2, <2>5, <3>3, OwnSession DEF IsOpen, Sides
    <3> QED BY <1>2, <2>2, <2>3, <3>1, <3>2, <3>4 DEF Even
  <2>6. CASE ~Raises(p, "parent") /\ ~Raises(p, "child")
    <3>1. /\ session'["parent"][s].state = session["parent"][s].state
          /\ session'["child"][s].state = session["child"][s].state
          BY <1>0, <1>2, <2>6, OwnSession DEF IsOpen, Sides
    <3>2. ~At(p, "incChild") /\ ~At(p, "incChild")'
      <4>1. At(p, "incChild") \/ At(p, "incChild")' => IncReplicationState(p) \/ Fail(p) \/ Crash(p)
            BY <1>0 DEF Move, Goes, At
      <4>2. ~IncReplicationState(p)
            BY <2>6 DEF Raises, IncReplicationState, At
      <4>3. ASSUME At(p, "incChild"), Fail(p) \/ Crash(p) PROVE FALSE
        <5>1. "uneven" \in excuses'
              BY <4>3 DEF Fail, Crash, Broken, If
        <5> QED BY <5>1 DEF Orderly, Without
      <4>4. ASSUME At(p, "incChild")', Fail(p) \/ Crash(p) PROVE FALSE
            BY <1>0, <4>4 DEF Fail, Crash, At, Goto, ControlTypes
      <4> QED BY <4>1, <4>2, <4>3, <4>4
    <3>3. \A q \in Procs : At(q, "incChild")' <=> At(q, "incChild")
          BY <1>0, <3>2 DEF At
    <3> QED BY <2>2, <3>1, <3>3 DEF Even
  <2> QED BY <2>4, <2>5, <2>6
<1> QED BY <1>1, <1>2

LEMMA StatesEven ==
  ASSUME TypeInv, SessionsApart, Orderly, Even, LocksOwned, NEW p \in Procs, Step(p), Orderly',
         NEW q \in Procs, ~At(q, "idle")'
  PROVE  call'[q].parentState = call'[q].childState
<1>0. ControlTypes /\ \A o \in Procs \ {p} : pc'[o] = pc[o] /\ call'[o] = call[o]
      BY ControlTyped, StepsAlone, CallsKept DEF TypeInv, Alone, ControlTypes
<1>1. CASE q # p
      BY <1>0, <1>1 DEF LocksOwned, At
<1>2. CASE q = p /\ At(p, "idle")
  <2> DEFINE s == SessionOf[p]
  <2>1. PICK type \in Types : Begin(p, type)
        BY <1>2, Idlers
  <2>2. IsOpen("parent", s) /\ IsOpen("child", s) /\ s \in Sessions
        BY <2>1, Places DEF Begin
  <2>3. Without(Excused)'
        BY DEF Orderly, Without, Excused
  <2>4. ~\E o \in Procs : SessionOf[o] = s /\ At(o, "incChild")
        BY <1>0, <1>2, <2>3, BeginsAlone DEF At
  <2>5. /\ session["parent"][s].state \in Nat /\ session["child"][s].state \in Nat
        BY <1>0, <2>2 DEF ControlTypes, Session, Sides
  <2>6. session["parent"][s].state = session["child"][s].state
        BY <2>2, <2>4, <2>5 DEF Even
  <2> QED BY <1>2, <2>6, CallsKept
<1>3. CASE q = p /\ ~At(p, "idle")
  <2>1. call[p].parentState = call[p].childState
        BY <1>3 DEF LocksOwned
  <2>2. SameStates(call'[p], call[p])
        BY <1>3, CallsKept
  <2> QED BY <1>3, <2>1, <2>2 DEF SameStates
<1> QED BY <1>1, <1>2, <1>3

(* When a call leaves the stages in which it has locks in a database it has *)
(* removed them: the state it compares them with is that of either side.   *)
LEMMA LocksGone ==
  ASSUME TypeInv, SessionsApart, Orderly, Even, LocksOwned, NEW p \in Procs, Step(p), Orderly',
         NEW d \in Dbs, NEW l \in locks[d], l.session = SessionOf[p], pc[p] \in Stages(d),
         pc'[p] \notin Stages(d)
  PROVE  l \notin locks'[d]
<1> DEFINE s == SessionOf[p]
<1>0. /\ ControlTypes /\ Move(p) /\ s \in Sessions /\ s # "parent"
      /\ locks \in [Dbs -> SUBSET ObjectLock]
      /\ \A q \in Procs : SessionOf[q] = s /\ ~At(q, "idle") => q = p
  <2>1. ~At(p, "idle")
        BY DEF Stages, Working, At
  <2> QED BY <2>1, ControlTyped, Moves, Places, SessionAssumption
             DEF TypeInv, TypeOK, SessionsApart, Orderly, Without, Excused
<1>1. /\ d \in {"parent", s} /\ l.lock >= 0
      /\ l.state >= 0 /\ l.state <= call[p].childState
  <2>1. l.session \in Sessions
        BY <1>0
  <2>2. PICK q \in Procs : /\ SessionOf[q] = l.session /\ pc[q] \in Stages(d)
                           /\ 0 <= l.state /\ l.state <= call[q].childState
        BY <2>1 DEF LocksOwned
  <2>3. q = p
        BY <1>0, <2>2 DEF Stages, Working, At
  <2>4. l.state \in Int
        BY <1>0 DEF ObjectLock
  <2> QED BY <2>1, <2>2, <2>3, <2>4 DEF LocksOwned
<1>2. CleanedUpTo(p, "child") = call[p].childState /\ CleanedUpTo(p, "parent") = call[p].childState
  <2>1. call[p].parentState = call[p].childState
        BY DEF LocksOwned, Stages, Working, At
  <2> QED BY <2>1 DEF CleanedUpTo, StateOf
<1>3. ASSUME NEW side \in Sides, RemoveReplicationLocks(p, side), d = Db(side, s)
      PROVE  l \notin locks'[d]
  <2>1. locks' = [locks EXCEPT ![d] = locks[d] \ {k \in locks[d] : /\ k.session = s /\ k.lock >= 0
                                                    /\ k.state >= 0 /\ k.state <= CleanedUpTo(p, side)}]
        BY <1>3 DEF RemoveReplicationLocks, Orderly, Without
  <2> QED BY <1>0, <1>1, <1>2, <2>1 DEF Sides, Db
<1>a. ~Crash(p)
      BY DEF Crash, Orderly, Without
<1>4. CASE pc[p] = "removeChildLocks" /\ d # "parent"
  <2>1. RemoveReplicationLocks(p, "child")
        BY <1>0, <1>a, <1>4 DEF Move, Goes, RemoveLocks, At, Cleaning
  <2> QED BY <1>1, <1>3, <1>4, <2>1 DEF Sides, Db
<1>5. CASE pc[p] = "removeParentLocks"
  <2>1. RemoveReplicationLocks(p, "parent") /\ d = "parent"
        BY <1>0, <1>a, <1>5 DEF Move, Goes, RemoveLocks, At, Cleaning, Stages, Working
  <2> QED BY <1>1, <1>3, <1>5, <2>1 DEF Sides, Db
<1>6. CASE pc[p] \in Working \/ (pc[p] = "removeChildLocks" /\ d = "parent")
      BY <1>0, <1>a, <1>6 DEF Move, Goes, Cleaning, Stages, Working
<1> QED BY <1>4, <1>5, <1>6 DEF Stages

LEMMA LockInvKept == TypeInv /\ SessionsApart /\ LockInv /\ [Next]_vars => LockInv'
<1> SUFFICES ASSUME TypeInv, SessionsApart, LockInv, [Next]_vars, Orderly' PROVE Even' /\ LocksOwned'
    BY DEF LockInv
<1>1. CASE Edit \/ UNCHANGED vars
  <2>1. /\ session' = session /\ pc' = pc /\ excuses \subseteq excuses'
        /\ locks' = locks /\ call' = call
        BY <1>1, EditsQuiet DEF Edit, BeginEdit, CommitEdit, vars
  <2>2. Even /\ LocksOwned
        BY <2>1 DEF LockInv, Orderly, Without
  <2> QED BY <2>1, <2>2 DEF Even, LocksOwned, IsOpen, At
<1>2. ASSUME NEW p \in Procs, Step(p) PROVE Even' /\ LocksOwned'
  <2>0. /\ ControlTypes /\ Move(p) /\ SessionOf[p] \in Sessions
        /\ \A q \in Procs \ {p} : pc'[q] = pc[q] /\ call'[q] = call[q]
        BY <1>2, ControlTyped, Moves, Places, StepsAlone, CallsKept DEF TypeInv, Alone, ControlTypes
  <2>1. Orderly /\ Even /\ LocksOwned
    <3>1. excuses \subseteq excuses'
          BY <1>2, <2>0, StepsAlone DEF Alone
    <3> QED BY <3>1 DEF LockInv, Orderly, Without
  <2>2. Even'
        BY <1>2, <2>1, EvenKept
  <2>3. \A q \in Procs : ~At(q, "idle")' => call'[q].parentState = call'[q].childState
        BY <1>2, <2>1, StatesEven
  <2>4. ASSUME NEW d \in Dbs, NEW l \in locks'[d], l.session \in Sessions
        PROVE  /\ d \in {"parent", l.session} /\ l.lock >= 0
               /\ \E q \in Procs : /\ SessionOf[q] = l.session /\ pc'[q] \in Stages(d)
                                   /\ 0 <= l.state /\ l.state <= call'[q].childState
    <3>1. CASE l \in locks[d]
      <4>1. PICK q \in Procs : /\ SessionOf[q] = l.session /\ pc[q] \in Stages(d)
                               /\ 0 <= l.state /\ l.state <= call[q].childState
            BY <2>1, <2>4, <3>1 DEF LocksOwned
      <4>2. d \in {"parent", l.session} /\ l.lock >= 0
            BY <2>1, <2>4, <3>1 DEF LocksOwned
      <4>3. CASE q # p
            BY <2>0, <4>1, <4>2, <4>3
      <4>4. CASE q = p
        <5>1. pc'[p] \in Stages(d)
              BY <1>2, <2>1, <2>4, <3>1, <4>1, <4>4, LocksGone
        <5>2. ~At(p, "idle") /\ ~At(p, "idle")'
              BY <4>1, <4>4, <5>1 DEF Stages, Working, At
        <5>3. SameStates(call'[p], call[p])
              BY <1>2, <5>2, CallsKept
        <5> QED BY <4>1, <4>2, <4>4, <5>1, <5>3 DEF SameStates
      <4> QED BY <4>3, <4>4
    <3>2. CASE l \notin locks[d]
      <4>1. NewLock(p, d, l)
        <5>1. l.session # "none"
              BY <2>4, SessionAssumption
        <5> QED BY <1>2, <3>2, <5>1, LockEffects
      <4>2. /\ pc'[p] \in Stages(d) /\ ~At(p, "idle")
            /\ call' = call
            BY <2>0, <4>1 DEF NewLock, LockObjects, At, Goto, ControlTypes, Stages, Working
      <4>3. /\ call[p].parentState = call[p].childState /\ call[p].childState \in Nat
            BY <2>1, <4>2 DEF LocksOwned, TypeInv, Reading
      <4>4. 0 <= l.state /\ l.state <= call[p].childState
            BY <4>1, <4>3 DEF NewLock, StateOf
      <4> QED BY <4>1, <4>2, <4>4 DEF NewLock
    <3> QED BY <3>1, <3>2
  <2> QED BY <2>2, <2>3, <2>4 DEF LocksOwned, At
<1> QED BY <1>1, <1>2, Steps

(* No object stays locked when the calls of its session are over: finally   *)
(* removes every lock (Replication.cs:2142), although it compares those of *)
(* the parent with the state of the child (2092), unless the states of the *)
(* two sides have become different, a removal failed silently, a process   *)
(* died or two calls of a session were made at once.                       *)
THEOREM LocksRemoved == Spec => []NoLockLeft
<1> DEFINE Inv == TypeInv /\ SessionsApart /\ LockInv
<1>1. Init => Inv
  <2> SUFFICES ASSUME Init PROVE Inv
      OBVIOUS
  <2>1. TypeInv
        BY TypeInvInit
  <2>2. SessionsApart /\ LockInv
        BY DEF Init, SessionsApart, LockInv, Even, LocksOwned, At, IsOpen, Sides
  <2> QED BY <2>1, <2>2
<1>2. Inv /\ [Next]_vars => Inv'
      BY TypeInvKept, ApartKept, LockInvKept, ControlTyped DEF TypeInv
<1>3. Inv => NoLockLeft
  <2> SUFFICES ASSUME Inv, Orderly, NEW s \in Sessions, \A p \in Procs : SessionOf[p] = s => At(p, "idle"),
                      NEW d \in Dbs, NEW l \in locks[d], l.session = s
               PROVE  FALSE
      BY DEF NoLockLeft, Orderly
  <2>1. PICK p \in Procs : SessionOf[p] = s /\ pc[p] \in Stages(d)
        BY DEF LockInv, LocksOwned
  <2> QED BY <2>1 DEF Stages, Working, At
<1> QED BY <1>1, <1>2, <1>3, PTL DEF Spec

------------------------------------------------------------------------------
(* The row that a write adds to a table.                                    *)
Written(p, side, s, r) ==
  /\ Writes(p) /\ side = To(p) /\ s \in Watching(ToDb(p))
  /\ s = SessionOf[p] => CopyFeature(p)
  /\ r \in Difference /\ r.n = NextN(rows[side][s]) /\ r.date = Current(p).date
  /\ r.id = IF CopyFeature(p) THEN lastId' ELSE Current(p).id
  /\ r.state = IF s = SessionOf[p] THEN StateOf(p, side) ELSE session[side][s].state

Loses(p) == Thin(p) \/ RemoveRow(p) \/ ReleaseChild(p) \/ ReleaseParent(p)

LEMMA NewRow ==
  ASSUME NEW T, Table(T), NEW id \in Ids, NEW statement \in Statements, NEW state \in Nat, NEW date \in Nat
  PROVE  LET r == Row(T, id, statement, state, date) IN
         /\ r \in Difference /\ r.n = NextN(T) /\ r.id = id /\ r.statement = statement
         /\ r.state = state /\ r.date = date
BY NextNumber DEF Row, Difference

LEMMA StepRows ==
  ASSUME TypeInv, NEW p \in Procs, Step(p), NEW side \in Sides, NEW s \in Sessions
  PROVE  \/ rows'[side][s] = rows[side][s]
         \/ Loses(p) /\ s = SessionOf[p] /\ rows'[side][s] \subseteq rows[side][s]
         \/ \E r \in Difference : Written(p, side, s, r) /\ rows'[side][s] = rows[side][s] \cup {r}
<1>1. CASE Loses(p)
      BY <1>1, LostRows DEF Loses
<1>2. CASE Writes(p)
  <2>0. Tables /\ ToDb(p) \in Dbs /\ SideOf(ToDb(p)) = To(p) /\ Current(p).date \in Nat
        BY <1>2, Places, WrittenRows DEF TypeInv
  <2>1. PICK states : \E id \in Ids, statement \in Statements :
          /\ DOMAIN states \subseteq Sessions
          /\ \A x \in DOMAIN states : states[x] \in Nat
          /\ ToldOf(p, states, id, statement)
        BY <1>2, WrittenRows
  <2>2. PICK id \in Ids, statement \in Statements :
          /\ DOMAIN states \subseteq Sessions
          /\ \A x \in DOMAIN states : states[x] \in Nat
          /\ ToldOf(p, states, id, statement)
        BY <2>1
  <2>3. CASE ~(side = To(p) /\ s \in DOMAIN states)
        BY <2>0, <2>2, <2>3, RecordedRows DEF ToldOf
  <2>4. CASE side = To(p) /\ s \in DOMAIN states
    <3> DEFINE r == Row(rows[side][s], id, statement, states[s], Current(p).date)
    <3>1. rows'[side][s] = rows[side][s] \cup {r}
          BY <2>0, <2>2, <2>4, RecordedRows DEF ToldOf
    <3>2. Table(rows[side][s]) /\ states[s] \in Nat
          BY <2>0, <2>2, <2>4 DEF Tables
    <3>3. /\ r \in Difference /\ r.n = NextN(rows[side][s]) /\ r.id = id
          /\ r.state = states[s] /\ r.date = Current(p).date
          BY <2>0, <3>2, NewRow
    <3> HIDE DEF r
    <3>4. /\ s \in Watching(ToDb(p))
          /\ s = SessionOf[p] => CopyFeature(p)
          /\ id = IF CopyFeature(p) THEN lastId' ELSE Current(p).id
          /\ states[s] = IF s = SessionOf[p] THEN StateOf(p, side) ELSE session[side][s].state
          BY <2>2, <2>4 DEF ToldOf, Others
    <3> QED BY <1>2, <2>4, <3>1, <3>3, <3>4 DEF Written
  <2> QED BY <2>3, <2>4
<1> QED BY <1>1, <1>2, Frames DEF Frame, ChangesRows, Loses

(* What an editor's commit adds to the tables.                              *)
LEMMA CommitRows ==
  ASSUME TypeInv, NEW e \in edits, CommitEdit(e), NEW side \in Sides, NEW s \in Sessions
  PROVE  \/ rows'[side][s] = rows[side][s] /\ ~(side = SideOf(e.db) /\ s \in DOMAIN e.states)
         \/ /\ side = SideOf(e.db) /\ s \in DOMAIN e.states
            /\ \E r \in Difference :
                 /\ rows'[side][s] = rows[side][s] \cup {r} /\ r.n = NextN(rows[side][s])
                 /\ r.id = e.id /\ r.statement = e.statement /\ r.state = e.states[s] /\ r.date = e.date
<1>1. /\ e.db \in Dbs /\ e.id \in Ids /\ e.statement \in Statements /\ e.date \in Nat
      /\ DOMAIN e.states \subseteq Sessions /\ \A x \in DOMAIN e.states : e.states[x] \in Nat
      BY DEF TypeInv, TypeOK, Transaction
<1>2. Tables /\ Table(rows[side][s])
      BY DEF TypeInv, Tables
<1>3. rows' = Recorded(e.db, e.states, e.id, e.statement, e.date)
      BY DEF CommitEdit
<1>4. CASE ~(side = SideOf(e.db) /\ s \in DOMAIN e.states)
      BY <1>1, <1>2, <1>3, <1>4, RecordedRows
<1>5. CASE side = SideOf(e.db) /\ s \in DOMAIN e.states
  <2> DEFINE r == Row(rows[side][s], e.id, e.statement, e.states[s], e.date)
  <2>1. rows'[side][s] = rows[side][s] \cup {r}
        BY <1>1, <1>2, <1>3, <1>5, RecordedRows
  <2>2. /\ r \in Difference /\ r.n = NextN(rows[side][s]) /\ r.id = e.id /\ r.statement = e.statement
        /\ r.state = e.states[s] /\ r.date = e.date
        BY <1>1, <1>2, <1>5, NewRow
  <2> QED BY <1>5, <2>1, <2>2
<1> QED BY <1>4, <1>5

(* What of the features a write and a commit change.                        *)
LEMMA StepValues ==
  ASSUME TypeInv, NEW p \in Procs, Step(p), NEW d \in Dbs, NEW i \in Ids
  PROVE  \/ features'[d][i] = features[d][i]
         \/ /\ Writes(p) /\ d = ToDb(p)
            /\ i = IF CopyFeature(p) THEN lastId' ELSE Current(p).id
<1>1. CASE Writes(p)
  <2>1. \E states : \E id \in Ids, statement \in Statements : ToldOf(p, states, id, statement)
        BY <1>1, WrittenRows
  <2>2. features \in [Dbs -> [Ids -> Seq(Nat)]] /\ ToDb(p) \in Dbs
        BY Places DEF TypeInv, TypeOK
  <2> QED BY <1>1, <2>1, <2>2 DEF ToldOf
<1> QED BY <1>1, Frames DEF Frame

LEMMA CommitValues ==
  ASSUME TypeInv, NEW e \in edits, CommitEdit(e), NEW d \in Dbs, NEW i \in Ids
  PROVE  /\ ~(d = e.db /\ i = e.id) => features'[d][i] = features[d][i]
         /\ (d = e.db /\ i = e.id) => features'[d][i] =
              (IF e.statement = "INSERT" THEN Append(features[d][i], e.date)
               ELSE IF features[d][i] = <<>> THEN <<>>
               ELSE (IF e.statement = "UPDATE" THEN <<e.date>> ELSE <<>>) \o Tail(features[d][i]))
<1>1. e.db \in Dbs /\ e.id \in Ids /\ features \in [Dbs -> [Ids -> Seq(Nat)]]
      BY DEF TypeInv, TypeOK, Transaction
<1> QED BY <1>1 DEF CommitEdit, Put

(* A copy is noted down until its conflict is written.                      *)
LEMMA CopiesKept ==
  ASSUME TypeInv, NEW p \in Procs, CopyFeature(p) \/ WriteConflict(p)
  PROVE  /\ SameStates(call'[p], call[p]) /\ call'[p].dir = call[p].dir
         /\ call'[p].todo = call[p].todo /\ call'[p].other = call[p].other
         /\ CopyFeature(p) /\ At(p, "conflict")' => call'[p].copy = lastId'
<1>0. call \in [Procs -> Call] /\ call[p] \in Call /\ ControlTypes
      BY ControlTyped DEF TypeInv, TypeOK
<1>1. PICK id \in 0..MaxObjects :
        /\ call' = call \/ call' = [call EXCEPT ![p] = WithCopy(call[p], id)]
        /\ CopyFeature(p) /\ At(p, "conflict")' =>
             id = lastId' /\ call' = [call EXCEPT ![p] = WithCopy(call[p], id)]
  <2>1. CASE CopyFeature(p)
    <3>1. lastId' \in 0..MaxObjects
          BY <2>1, BoundAssumption DEF CopyFeature, Copied, TypeInv, TypeOK
    <3>2. call' = [call EXCEPT ![p] = WithCopy(call[p], lastId')] \/ (call' = call /\ pc'[p] = "remove")
          BY <1>0, <2>1 DEF CopyFeature, Copied, WithCopy, Goto, ControlTypes
    <3> QED BY <3>1, <3>2 DEF At
  <2>2. CASE WriteConflict(p)
    <3>1. call' = [call EXCEPT ![p] = WithCopy(call[p], 0)] /\ 0 \in 0..MaxObjects
          BY <2>2, BoundAssumption DEF WriteConflict, WithCopy
    <3>2. pc'[p] = "remove"
          BY <1>0, <2>2 DEF WriteConflict, Goto, ControlTypes
    <3> QED BY <3>1, <3>2 DEF At
  <2> QED BY <2>1, <2>2
<1> DEFINE c == WithCopy(call[p], id)
<1>2. /\ SameStates(c, call[p]) /\ c.dir = call[p].dir /\ c.todo = call[p].todo
      /\ c.other = call[p].other /\ c.copy = id
      BY <1>0, CallWithCopy
<1> HIDE DEF c
<1>3. CASE call' = call
  <2>1. CopyFeature(p) /\ At(p, "conflict")' => c = call[p]
        BY <1>0, <1>1, <1>3 DEF c
  <2> QED BY <1>1, <1>2, <1>3, <2>1 DEF SameStates
<1>4. CASE call' = [call EXCEPT ![p] = c]
      BY <1>0, <1>1, <1>2, <1>4
<1> QED BY <1>1, <1>3, <1>4 DEF c

(* What happens to the rows a call has read.                                *)
LEMMA StepTodo ==
  ASSUME TypeInv, NEW p \in Procs, Step(p)
  PROVE  \/ call'[p].todo = call[p].todo /\ ~(ReadDifferences(p) \/ PassOver(p) \/ RemoveRow(p))
         \/ call'[p].todo = {} /\ ~(ReadDifferences(p) \/ PassOver(p) \/ RemoveRow(p))
         \/ ReadDifferences(p) /\ call'[p].todo = UpTo(rows[From(p)][SessionOf[p]], StateOf(p, From(p)))
         \/ (PassOver(p) \/ RemoveRow(p)) /\ call'[p].todo = call[p].todo \ {Current(p)}
<1>0. call \in [Procs -> Call] /\ call[p] \in Call
      BY DEF TypeInv, TypeOK
<1>1. CASE ReadDifferences(p)
  <2> DEFINE T == UpTo(rows[From(p)][SessionOf[p]], StateOf(p, From(p)))
             O == UpTo(rows[To(p)][SessionOf[p]], StateOf(p, To(p)))
             c == WithOther(WithTodo(call[p], T), O)
  <2>1. call' = [call EXCEPT ![p] = c]
        BY <1>1 DEF ReadDifferences, WithOther, WithTodo
  <2> HIDE DEF T, O
  <2>2. c.todo = T
        BY <1>0 DEF WithOther, WithTodo, Call
  <2> HIDE DEF c
  <2>3. call'[p].todo = T
        BY <1>0, <2>1, <2>2
  <2> QED BY <1>1, <2>3 DEF T
<1>2. CASE PassOver(p) \/ RemoveRow(p)
  <2> DEFINE c == WithTodo(call[p], call[p].todo \ {Current(p)})
  <2>1. call' = [call EXCEPT ![p] = c]
        BY <1>2 DEF PassOver, RemoveRow, WithTodo
  <2>2. c.todo = call[p].todo \ {Current(p)}
        BY <1>0 DEF WithTodo, Call
  <2> HIDE DEF c
  <2> QED BY <1>0, <1>2, <2>1, <2>2
<1>3. CASE ~(ReadDifferences(p) \/ PassOver(p) \/ RemoveRow(p))
  <2>1. CASE \E type \in Types : Begin(p, type)
    <3>1. At(p, "idle") /\ ~At(p, "idle")'
          BY <2>1, ControlTyped, IdleIsLeft DEF Begin, TypeInv
    <3>2. call'[p].todo = {}
          BY <3>1, CallsKept
    <3> QED BY <1>3, <3>2
  <2>2. CASE EndCheckIn(p)
    <3> DEFINE c == WithOther(call[p], {})
               e == WithDir(c, "post")
    <3>1. call' = [call EXCEPT ![p] = c] \/ call' = [call EXCEPT ![p] = e]
          BY <2>2 DEF EndCheckIn, WithOther, WithDir
    <3>2. c.todo = call[p].todo /\ e.todo = call[p].todo
          BY <1>0 DEF WithOther, WithDir, Call
    <3> HIDE DEF c, e
    <3> QED BY <1>0, <1>3, <3>1, <3>2
  <2>3. CASE Fail(p)
    <3> DEFINE c == WithCopy(WithOther(WithTodo(call[p], {}), {}), 0)
    <3>1. call' = [call EXCEPT ![p] = c]
          BY <2>3 DEF Fail, WithOther, WithTodo, WithCopy
    <3>2. c.todo = {}
          BY <1>0 DEF WithOther, WithTodo, WithCopy, Call
    <3> HIDE DEF c
    <3> QED BY <1>0, <1>3, <3>1, <3>2
  <2>4. CASE UnlockParent(p) \/ Crash(p)
    <3>1. call' = [call EXCEPT ![p] = NoCall]
          BY <2>4 DEF UnlockParent, Crash
    <3> QED BY <1>0, <1>3, <3>1 DEF NoCall
  <2>5. CASE CopyFeature(p) \/ WriteConflict(p)
        BY <1>3, <2>5, CopiesKept
  <2> QED BY <1>3, <2>1, <2>2, <2>3, <2>4, <2>5, Frames DEF Frame, ChangesCall, Ends
<1> QED BY <1>1, <1>2, <1>3

------------------------------------------------------------------------------
LEMMA LowKept == ASSUME TypeInv, Low, [Next]_vars PROVE Low'
<1>0. /\ lastId \in Nat /\ time \in Nat /\ Tables
      /\ features \in [Dbs -> [Ids -> Seq(Nat)]]
      /\ \A p \in Procs : call[p].todo \subseteq Difference
      BY BoundAssumption DEF TypeInv, TypeOK, Call
<1>1. CASE UNCHANGED vars
      BY <1>1 DEF Low, vars, data, env
<1>2. ASSUME NEW d \in Dbs, NEW statement \in Statements, NEW id \in Ids, BeginEdit(d, statement, id)
      PROVE  Low'
  <2>1. /\ UNCHANGED <<features, rows, call>> /\ lastId' \in Nat /\ lastId <= lastId' /\ time' = time + 1
        BY <1>0, <1>2 DEF BeginEdit
  <2>2. /\ \A e \in edits' \ edits : e.id <= lastId' /\ e.date <= time'
    <3>1. SUFFICES ASSUME NEW e \in edits' \ edits PROVE e.id <= lastId' /\ e.date <= time'
          OBVIOUS
    <3>2. e.id = id /\ e.date = time'
          BY <1>2, <3>1 DEF BeginEdit
    <3>3. id <= lastId'
      <4>1. CASE statement = "INSERT"
            BY <1>0, <1>2, <4>1 DEF BeginEdit
      <4>2. CASE statement # "INSERT"
            BY <1>0, <1>2, <2>1, <4>2 DEF BeginEdit, Low, Ids
      <4> QED BY <4>1, <4>2
    <3> QED BY <1>0, <2>1, <3>2, <3>3
  <2>3. \A e \in edits : e.id \in Nat /\ e.date \in Nat
        BY BoundAssumption DEF TypeInv, TypeOK, Transaction, Ids
  <2>4. \A e \in edits' : e.id <= lastId' /\ e.date <= time'
        BY <1>0, <2>1, <2>2, <2>3 DEF Low
  <2>5. \A side \in Sides, s \in Sessions : \A r \in rows[side][s] : r.id \in Nat /\ r.date \in Nat
        BY <1>0 DEF Tables, Table, Difference, Ids
  <2>6. \A p \in Procs : \A r \in call[p].todo : r.id \in Nat /\ r.date \in Nat
        BY <1>0 DEF Difference, Ids
  <2>7. \A any \in Dbs, i \in Ids : i > lastId' => features'[any][i] = <<>>
        BY <1>0, <2>1 DEF Low, Ids
  <2>8. \A side \in Sides, s \in Sessions : \A r \in rows'[side][s] : r.id <= lastId' /\ r.date <= time'
        BY <1>0, <2>1, <2>5 DEF Low
  <2>9. \A p \in Procs : \A r \in call'[p].todo : r.id <= lastId' /\ r.date <= time'
        BY <1>0, <2>1, <2>6 DEF Low
  <2> QED BY <2>4, <2>7, <2>8, <2>9 DEF Low
<1>3. ASSUME NEW e \in edits, CommitEdit(e) PROVE Low'
  <2>1. edits' \subseteq edits /\ lastId' = lastId /\ time' = time /\ call' = call
        BY <1>3 DEF CommitEdit
  <2>2. e.id <= lastId /\ e.date <= time /\ e.id \in Ids
        BY DEF Low, TypeInv, TypeOK, Transaction
  <2>3. \A side \in Sides, s \in Sessions : \A r \in rows'[side][s] : r.id <= lastId /\ r.date <= time
        BY <1>3, <2>2, CommitRows DEF Low
  <2>4. ASSUME NEW d \in Dbs, NEW i \in Ids, i > lastId PROVE features'[d][i] = <<>>
    <3>1. i # e.id
          BY <1>0, <2>2, <2>4 DEF Ids
    <3>2. features'[d][i] = features[d][i]
          BY <1>3, <3>1, CommitValues
    <3> QED BY <2>4, <3>2 DEF Low
  <2> QED BY <2>1, <2>3, <2>4 DEF Low
<1>4. ASSUME NEW p \in Procs, Step(p) PROVE Low'
  <2>1. edits' = edits /\ time' = time /\ lastId' \in Nat /\ lastId <= lastId'
        BY <1>4, Frames, ConflictsTyped, BoundAssumption DEF Frame
  <2>2. ASSUME Writes(p)
        PROVE  /\ Current(p).date <= time
               /\ (IF CopyFeature(p) THEN lastId' ELSE Current(p).id) <= lastId'
               /\ (IF CopyFeature(p) THEN lastId' ELSE Current(p).id) \in Nat
    <3>1. Current(p) \in call[p].todo /\ Current(p) \in Difference
          BY <2>2, Applying
    <3> QED BY <1>0, <2>1, <3>1 DEF Low, Difference, Ids
  <2>3. ASSUME NEW side \in Sides, NEW s \in Sessions, NEW r \in rows'[side][s]
        PROVE  r.id <= lastId' /\ r.date <= time
    <3>1. CASE r \in rows[side][s]
          BY <1>0, <2>1, <3>1 DEF Low, Tables, Table, Difference, Ids
    <3>2. CASE r \notin rows[side][s]
      <4>1. Written(p, side, s, r)
            BY <1>4, <3>2, StepRows
      <4> QED BY <2>2, <4>1 DEF Written
    <3> QED BY <3>1, <3>2
  <2>4. ASSUME NEW q \in Procs, NEW r \in call'[q].todo PROVE r.id <= lastId' /\ r.date <= time
    <3>1. r \in call[q].todo \/ \E side \in Sides : r \in rows[side][SessionOf[q]]
          BY <1>4, StepTodo, CallsKept, Places DEF UpTo
    <3>2. /\ r.id <= lastId /\ r.date <= time /\ r.id \in Nat
          BY <1>0, <3>1, Places DEF Low, Tables, Table, Difference, Ids
    <3> QED BY <1>0, <2>1, <3>2
  <2>5. ASSUME NEW d \in Dbs, NEW i \in Ids, i > lastId' PROVE features'[d][i] = <<>>
    <3>1. i > lastId
          BY <1>0, <2>1, <2>5 DEF Ids
    <3>2. features'[d][i] = features[d][i]
          BY <1>4, <2>1, <2>2, <2>5, StepValues DEF Ids
    <3> QED BY <3>1, <3>2 DEF Low
  <2>6. \A e \in edits : e.id <= lastId'
        BY <1>0, <2>1, BoundAssumption DEF Low, TypeInv, TypeOK, Transaction, Ids
  <2> QED BY <2>1, <2>3, <2>4, <2>5, <2>6 DEF Low
<1> QED BY <1>1, <1>2, <1>3, <1>4, Steps DEF Edit

LEMMA WatchingChild ==
  ASSUME NEW s \in Sessions, IsOpen("child", s)
  PROVE  Watching(s) = {s}
BY SessionAssumption DEF Watching, SideOf

LEMMA EditsKept == ASSUME TypeInv, Edits, [Next]_vars PROVE Edits'
<1>1. ASSUME NEW d \in Dbs, NEW statement \in Statements, NEW id \in Ids, BeginEdit(d, statement, id)
      PROVE  Edits'
  <2> DEFINE states == [s \in Watching(d) |-> session[SideOf(d)][s].state]
             new == [db |-> d, statement |-> statement, id |-> id, date |-> time', states |-> states]
  <2>1. edits' = edits \cup {new}
        BY <1>1 DEF BeginEdit
  <2>2. new.db = d /\ DOMAIN new.states = Watching(d)
        OBVIOUS
  <2>3. d # "parent" => Watching(d) = {d}
        BY <1>1, WatchingChild DEF BeginEdit, Dbs
  <2> HIDE DEF new
  <2> QED BY <2>1, <2>2, <2>3 DEF Edits
<1>2. ASSUME NEW e \in edits, CommitEdit(e) PROVE Edits'
      BY <1>2 DEF CommitEdit, Edits
<1>3. ASSUME NEW p \in Procs, Step(p) PROVE Edits'
      BY <1>3, Frames DEF Frame, Edits
<1> QED BY <1>1, <1>2, <1>3, Steps DEF Edit, vars, env, Edits

LEMMA NumberedKept == ASSUME TypeInv, Numbered, [Next]_vars PROVE Numbered'
<1>0. \A side \in Sides, s \in Sessions : Table(rows[side][s])
      BY DEF TypeInv, Tables
<1>1. SUFFICES ASSUME NEW side \in Sides, NEW s \in Sessions
               PROVE  /\ IsFiniteSet(rows'[side][s])
                      /\ \A r, q \in rows'[side][s] : r.n = q.n => r = q
      BY DEF Numbered
<1>2. IsFiniteSet(rows[side][s]) /\ \A r, q \in rows[side][s] : r.n = q.n => r = q
      BY DEF Numbered
<1>3. CASE rows'[side][s] \subseteq rows[side][s]
      BY <1>2, <1>3, FS_Subset
<1>4. ASSUME NEW r \in Difference, rows'[side][s] = rows[side][s] \cup {r}, r.n = NextN(rows[side][s])
      PROVE  /\ IsFiniteSet(rows'[side][s])
             /\ \A x, q \in rows'[side][s] : x.n = q.n => x = q
  <2>1. \A q \in rows[side][s] : q.n # r.n
    <3>1. \A q \in rows[side][s] : q.n < NextN(rows[side][s]) /\ q.n \in Nat
          BY <1>0, NextNumber DEF Table, Difference
    <3> QED BY <1>4, <3>1
  <2> QED BY <1>2, <1>4, <2>1, FS_AddElement
<1>5. ASSUME NEW e \in edits, CommitEdit(e)
      PROVE  rows'[side][s] \subseteq rows[side][s]
             \/ \E r \in Difference : rows'[side][s] = rows[side][s] \cup {r} /\ r.n = NextN(rows[side][s])
      BY <1>5, CommitRows
<1>6. ASSUME NEW p \in Procs, Step(p)
      PROVE  rows'[side][s] \subseteq rows[side][s]
             \/ \E r \in Difference : rows'[side][s] = rows[side][s] \cup {r} /\ r.n = NextN(rows[side][s])
      BY <1>6, StepRows DEF Written
<1>7. ASSUME \E d \in Dbs, statement \in Statements, id \in Ids : BeginEdit(d, statement, id)
      PROVE  rows' = rows
      BY <1>7 DEF BeginEdit
<1> QED BY <1>3, <1>4, <1>5, <1>6, <1>7, Steps DEF Edit, vars, data

LEMMA DataInvKept == ASSUME TypeInv, DataInv, [Next]_vars PROVE DataInv'
BY LowKept, EditsKept, NumberedKept DEF DataInv

------------------------------------------------------------------------------
(* Where nothing is excused, all of it holds at once.                       *)
Calm == TypeInv /\ SessionsApart /\ LocksHold /\ OneAtATime /\ DataInv /\ Usual /\ Carried

LEMMA CalmBefore ==
  ASSUME TypeInv, [Next]_vars, Usual'
  PROVE  Usual
<1>1. ASSUME NEW p \in Procs, Step(p) PROVE excuses \subseteq excuses'
      BY <1>1, ControlTyped, StepsAlone DEF TypeInv, Alone
<1> QED BY <1>1, EditsQuiet, Steps DEF Usual, Without

(* The session of a call at work is there, and no other call works.         *)
LEMMA AtWork ==
  ASSUME Calm, NEW p \in Procs, pc[p] \in {"checkOthers", "lockParent"} \cup Holding
  PROVE  /\ IsOpen("parent", SessionOf[p])
         /\ pc[p] \in Working => \A q \in Procs \ {p} : pc[q] \notin Working
<1>1. Without(Excused) /\ Without({"overlap", "unnoticed"})
      BY DEF Calm, Usual, Without, Excused
<1> QED BY <1>1 DEF Calm, LocksHold, Holds, IsOpen, OneAtATime

LEMMA OthersElsewhere ==
  ASSUME Calm, Usual', NEW o \in Procs, Step(o), NEW p \in Procs \ {o}, ~At(p, "idle")
  PROVE  /\ SessionOf[o] # SessionOf[p]
         /\ pc'[p] = pc[p] /\ call'[p] = call[p]
         /\ \A side \in Sides : session'[side][SessionOf[p]] = session[side][SessionOf[p]]
<1>1. ControlTypes /\ SessionOf[p] \in Sessions /\ Without(Excused)' /\ Without(Excused)
      BY ControlTyped, Places DEF Calm, TypeInv, Usual, Without, Excused
<1>2. SessionOf[o] # SessionOf[p]
  <2>1. CASE At(o, "idle")
        BY <1>1, <2>1, BeginsAlone
  <2>2. CASE ~At(o, "idle")
        BY <1>1, <2>2 DEF Calm, SessionsApart
  <2> QED BY <2>1, <2>2
<1>3. pc'[p] = pc[p] /\ call'[p] = call[p]
      BY <1>1, StepsAlone, CallsKept DEF Alone, ControlTypes, Calm
<1>4. \A side \in Sides : session'[side][SessionOf[p]] = session[side][SessionOf[p]]
      BY <1>1, <1>2, StepsAlone DEF Alone
<1> QED BY <1>2, <1>3, <1>4

(* The steps of a call that does not work leave the data alone, and of the  *)
(* locks remove their own.                                                  *)
LEMMA Idling ==
  ASSUME Calm, Usual', NEW o \in Procs, Step(o), pc[o] \notin Working
  PROVE  /\ features' = features /\ rows' = rows /\ conflicts' = conflicts /\ lastId' = lastId
         /\ \A d \in Dbs : \A l \in locks[d] : l.session # SessionOf[o] => l \in locks'[d]
<1>1. Move(o) /\ Frame(o) /\ SessionOf[o] \in Sessions /\ locks \in [Dbs -> SUBSET ObjectLock]
      BY ControlTyped, Moves, Frames, Places DEF Calm, TypeInv, TypeOK
<1>2. /\ ~Writes(o) /\ ~ChangesRows(o) /\ ~ChangesConflicts(o) /\ ~CopyFeature(o)
      /\ ~LockObjects(o) /\ ~RemoveRow(o) /\ ~ReleaseChild(o) /\ ~InsertCheckoutLocks(o)
  <2> USE DEF Working, At
  <2>1. ~Writes(o)
        BY DEF Writes, InsertFeature, CopyFeature, Copied, ChangeFeature, IsWriting, IsApplying
  <2>2. ~Thin(o) /\ ~RemoveRow(o) /\ ~ReleaseChild(o) /\ ~ReleaseParent(o) /\ ~Leave(o) /\ ~WriteConflict(o)
        BY DEF Thin, RemoveRow, ReleaseChild, ReleaseParent, Leave, WriteConflict
  <2>3. ~LockObjects(o) /\ ~InsertCheckoutLocks(o)
        BY DEF LockObjects, InsertCheckoutLocks
  <2> QED BY <2>1, <2>2, <2>3 DEF ChangesRows, ChangesConflicts, Writes
<1>3. \A d \in Dbs : \A l \in locks[d] : l.session # SessionOf[o] => l \in locks'[d]
  <2>1. CASE locks' = locks
        BY <2>1
  <2>2. CASE RemoveLocks(o)
    <3>1. ASSUME NEW side \in Sides, RemoveReplicationLocks(o, side),
                 NEW d \in Dbs, NEW l \in locks[d], l.session # SessionOf[o]
          PROVE  l \in locks'[d]
      <4>1. Db(side, SessionOf[o]) \in Dbs
            BY <1>1, SidesOfDbs
      <4> QED BY <1>1, <3>1, <4>1 DEF RemoveReplicationLocks
    <3> QED BY <2>2, <3>1 DEF RemoveLocks, Sides
  <2> QED BY <1>1, <1>2, <2>1, <2>2 DEF Frame, ChangesLocks
<1> QED BY <1>1, <1>2, <1>3 DEF Frame

(* What a call is to carry depends on its states and the rows of its session. *)
LEMMA CarriedRows ==
  ASSUME NEW p \in Procs, SameStates(call'[p], call[p])
  PROVE  /\ rows'["child"][SessionOf[p]] = rows["child"][SessionOf[p]] => ChildRows(p)' = ChildRows(p)
         /\ rows'["parent"][SessionOf[p]] = rows["parent"][SessionOf[p]] => ParentRows(p)' = ParentRows(p)
BY DEF SameStates, ChildRows, ParentRows, UpTo

LEMMA SameCurrent ==
  ASSUME NEW p \in Procs, pc'[p] = pc[p], call'[p] = call[p]
  PROVE  Current(p)' = Current(p) /\ AtHand(p)' = AtHand(p)
<1>1. Current(p)' = Current(p)
      BY DEF Current
<1> QED BY <1>1 DEF AtHand, At

LEMMA BystanderKept ==
  ASSUME Calm, Usual', NEW o \in Procs, Step(o), NEW p \in Procs \ {o}
  PROVE  CallInv(p)'
<1>0. CallInv(p)
      BY DEF Calm, Carried
<1>1. CASE At(p, "idle")
  <2>1. pc'[p] = "idle"
        BY <1>1, ControlTyped, StepsAlone DEF At, Alone, ControlTypes, Calm, TypeInv
  <2> QED BY <2>1 DEF CallInv, Counted, Hard, Apart, Drained, Unique, Locked, Todo, At, Counting, Middle, Done,
                      Carrying, Late, HardInParent, HardInChild
<1>2. CASE ~At(p, "idle")
  <2>0. /\ SessionOf[o] # SessionOf[p] /\ pc'[p] = pc[p] /\ call'[p] = call[p]
        /\ session'["parent"][SessionOf[p]] = session["parent"][SessionOf[p]]
        /\ session'["child"][SessionOf[p]] = session["child"][SessionOf[p]]
        BY <1>2, OthersElsewhere DEF Sides
  <2>1. Counted(p)' /\ Hard(p)'
        BY <1>0, <2>0 DEF CallInv, Counted, Hard
  <2>2. CASE pc[p] \notin Working
        BY <1>0, <2>0, <2>1, <2>2 DEF CallInv, Apart, Drained, Unique, Locked, Todo, At, Counting, Middle, Done,
                      Carrying, Late, Working
  <2>3. CASE pc[p] \in Working
    <3>1. /\ features' = features /\ rows' = rows /\ conflicts' = conflicts /\ edits' = edits
          /\ terms' = terms
          /\ \A d \in Dbs : \A l \in locks[d] : l.session = SessionOf[p] => l \in locks'[d]
      <4>1. pc[o] \notin Working
            BY <2>3, AtWork DEF Holding
      <4> QED BY <2>0, <4>1, Idling, Frames DEF Frame
    <3>2. /\ ChildRows(p)' = ChildRows(p) /\ ParentRows(p)' = ParentRows(p)
          /\ ParentCarried(p)' = ParentCarried(p)
          BY <2>0, <3>1, CarriedRows, SameCurrent DEF ParentCarried, SameStates
    <3>3. \A i \in Ids : (IsOldId(p, i)' => IsOldId(p, i)) /\ (IsNewId(p, i)' => IsNewId(p, i))
          BY <2>0, <3>1, <3>2 DEF IsOldId, IsNewId, Concerns, IsNew, StateOf
    <3>4. Apart(p)'
          BY <1>0, <2>0, <3>3 DEF CallInv, Apart
    <3>5. Drained(p)'
          BY <1>0, <2>0, <3>1 DEF CallInv, Drained, Concerns, IsNew, StateOf
    <3>6. Unique(p)' /\ Todo(p)'
          BY <1>0, <2>0, <3>2 DEF CallInv, Unique, Todo, At
    <3>7. Locked(p)'
      <4>1. \A i \in Ids : IsCopy(p, i) => IsCopy(p, i)'
            BY <2>0, <3>1 DEF IsCopy, At
      <4>2. \A id, lock, state : Lock(id, lock, SessionOf[p], state).session = SessionOf[p]
            BY DEF Lock
      <4>3. SessionOf[p] \in Dbs /\ "parent" \in Dbs
            BY Places DEF Dbs
      <4>4. \A r \in ParentCarried(p) : r.id \in Ids
            BY Places DEF ParentCarried, ParentRows, UpTo, Calm, TypeInv, TypeOK, Sides, Difference
      <4> QED BY <1>0, <2>0, <3>1, <3>2, <4>1, <4>2, <4>3, <4>4 DEF CallInv, Locked
    <3> QED BY <2>1, <3>4, <3>5, <3>6, <3>7 DEF CallInv
  <2> QED BY <2>2, <2>3
<1> QED BY <1>1, <1>2

------------------------------------------------------------------------------
(* An edit that begins while a call carries is a new one, and of an object  *)
(* that is not carried.                                                     *)
Attentive == {"incParent", "incChild", "sleep"} \cup Carrying

LEMMA Watched ==
  ASSUME Calm, NEW p \in Procs, pc[p] \in Attentive \cup Late, NEW d \in {"parent", SessionOf[p]}
  PROVE  /\ SessionOf[p] \in Watching(d) /\ SideOf(d) \in Sides
         /\ d = "parent" <=> SideOf(d) = "parent"
         /\ pc[p] \in Late =>
              session[SideOf(d)][SessionOf[p]].state = StateOf(p, SideOf(d)) + 1
         /\ StateOf(p, SideOf(d)) \in Nat
<1>1. /\ SessionOf[p] \in Sessions /\ SessionOf[p] # "parent" /\ SessionOf[p] # "none"
      /\ d \in Dbs
      BY Places, SessionAssumption DEF Dbs
<1>2. IsOpen("parent", SessionOf[p])
      BY AtWork DEF Holding, Working, Attentive, Late, Carrying
<1>3. IsOpen("child", SessionOf[p]) /\ Counted(p)
      BY DEF Calm, Carried, CallInv, Counted, Attentive, Late, Carrying, Counting, IsOpen
<1>4. /\ call[p].parentState \in Nat /\ call[p].childState \in Nat
      BY DEF Calm, TypeInv, Reading, At, Attentive, Late, Carrying
<1> QED BY <1>1, <1>2, <1>3, <1>4, SidesOfDbs DEF Watching, SideOf, Counted, StateOf

LEMMA BeginKept ==
  ASSUME Calm, Usual', NEW d \in Dbs, NEW statement \in Statements, NEW id \in Ids, BeginEdit(d, statement, id),
         NEW p \in Procs
  PROVE  CallInv(p)'
<1> DEFINE s == SessionOf[p]
           states == [x \in Watching(d) |-> session[SideOf(d)][x].state]
           new == [db |-> d, statement |-> statement, id |-> id, date |-> time', states |-> states]
<1>0. /\ edits' = edits \cup {new}
      /\ features' = features /\ rows' = rows /\ conflicts' = conflicts /\ session' = session
      /\ locks' = locks /\ pc' = pc /\ call' = call /\ terms' = terms
      BY DEF BeginEdit
<1>1. /\ new.db = d /\ new.id = id
      /\ \A x \in Watching(d) : new.states[x] = session[SideOf(d)][x].state
      OBVIOUS
<1> HIDE DEF new
<1>2. /\ CallInv(p) /\ s \in Sessions /\ s \in Dbs /\ s # "parent"
      /\ ChildRows(p)' = ChildRows(p) /\ ParentRows(p)' = ParentRows(p)
      /\ ParentCarried(p)' = ParentCarried(p)
      BY <1>0, CarriedRows, SameCurrent, Places, SessionAssumption
         DEF Calm, Carried, ParentCarried, SameStates
<1>3. Counted(p)' /\ Hard(p)' /\ Unique(p)' /\ Todo(p)'
      BY <1>0, <1>2 DEF CallInv, Counted, Hard, Unique, Todo, At
<1>4. Locked(p)'
      BY <1>0, <1>2 DEF CallInv, Locked, IsCopy, At
<1>5. ASSUME pc[p] \in Late, Concerns(new, p) PROVE IsNew(new, p)
  <2>1. d \in {"parent", s}
        BY <1>1, <1>5 DEF Concerns
  <2> QED BY <1>1, <1>5, <2>1, Watched DEF IsNew
<1>6. Drained(p)'
      BY <1>0, <1>2, <1>5 DEF CallInv, Drained, Concerns, IsNew, StateOf
<1>7. ASSUME pc[p] \in Attentive, NEW i \in Ids, IsOldId(p, i)', IsNewId(p, i)' PROVE FALSE
  <2>1. /\ IsOldId(p, i) \/ (i = id /\ Concerns(new, p) /\ ~IsNew(new, p))
        /\ IsNewId(p, i) \/ /\ i = id /\ Concerns(new, p) /\ IsNew(new, p)
                            /\ d = "parent" => terms.handling # "NONE"
        BY <1>0, <1>1, <1>2, <1>7 DEF IsOldId, IsNewId, Concerns, IsNew, StateOf
  <2>2. ~(IsOldId(p, i) /\ IsNewId(p, i))
        BY <1>2, <1>7 DEF CallInv, Apart, Attentive
  <2>3. i = id /\ Concerns(new, p) /\ d \in {"parent", s}
        BY <1>1, <2>1, <2>2 DEF Concerns
  <2>4. CASE statement = "INSERT"
    <3>1. i = lastId + 1 /\ lastId \in Nat
          BY <2>3, <2>4 DEF BeginEdit, Calm, TypeInv, TypeOK
    <3>2. \A side \in Sides : \A r \in rows[side][s] : r.id # i
          BY <1>2, <3>1, BoundAssumption DEF Calm, DataInv, Low, TypeInv, TypeOK, Difference, Ids
    <3>3. \A e \in edits : e.id # i
          BY <3>1, BoundAssumption DEF Calm, DataInv, Low, TypeInv, TypeOK, Transaction, Ids
    <3>4. ~IsOldId(p, i) /\ ~IsNewId(p, i)
          BY <3>2, <3>3 DEF IsOldId, IsNewId, ParentCarried, ParentRows, ChildRows, UpTo, Sides
    <3> QED BY <2>1, <3>4
  <2>5. CASE statement # "INSERT"
    <3>0. s \in Watching(d)
          BY <1>7, <2>3, Watched
    <3>1. /\ session[SideOf(d)][s].lock # "Hardlock" /\ features[d][id] # <<>>
          /\ \A l \in locks[d] : l.id # id
          /\ \A c \in conflicts[d] : id # c.copy
          BY <2>5, <3>0 DEF BeginEdit, MayChange, IsFree
    <3>2. /\ pc[p] \in Carrying \ (Thinning \cup {"lockChildObjects", "lockParentObjects"})
          BY <1>2, <1>7, <2>3, <3>1 DEF CallInv, Hard, HardInParent, HardInChild, Attentive, Carrying, Thinning, SideOf
    <3>3. IsNew(new, p)
          BY <1>5, <2>3, <3>2 DEF Late
    <3>4. \A e \in edits : Concerns(e, p) => IsNew(e, p)
          BY <1>2, <3>2 DEF CallInv, Drained, Late
    <3>5. PICK r \in ChildRows(p) \cup ParentCarried(p) : r.id = id
          BY <2>1, <2>3, <3>3, <3>4 DEF IsOldId
    <3>6. d = "parent" => terms.handling # "NONE"
          BY <2>1, <2>2, <2>3, <3>3
    <3>7. \A lock, state : Lock(id, lock, s, state).id = id
          BY DEF Lock
    <3>8. ~IsCopy(p, id)
      <4>1. ~(At(p, "conflict") /\ ToDb(p) = d /\ call[p].copy = id)
            BY DEF BeginEdit, If, Usual, Without
      <4>2. At(p, "conflict") => ToDb(p) = "parent"
            BY <1>2 DEF CallInv, Todo, ToDb, To, Db
      <4> QED BY <2>3, <3>1, <3>6, <4>1, <4>2 DEF IsCopy
    <3> QED BY <1>2, <2>3, <3>1, <3>2, <3>5, <3>7, <3>8 DEF CallInv, Locked
  <2> QED BY <2>4, <2>5
<1>8. Apart(p)'
      BY <1>0, <1>7 DEF Apart, Attentive
<1> QED BY <1>3, <1>4, <1>6, <1>8 DEF CallInv

(* An edit that is written leaves what is carried as it is.                 *)
LEMMA CommitKept ==
  ASSUME Calm, NEW e \in edits, CommitEdit(e), NEW p \in Procs
  PROVE  CallInv(p)'
<1> DEFINE s == SessionOf[p]
<1>0. /\ edits' = edits \ {e}
      /\ conflicts' = conflicts /\ session' = session
      /\ locks' = locks /\ pc' = pc /\ call' = call /\ terms' = terms
      BY DEF CommitEdit
<1>1. /\ CallInv(p) /\ s \in Sessions /\ s \in Dbs /\ s # "parent" /\ TypeInv /\ Tables
      /\ e.db \in Dbs /\ e.id \in Ids
      /\ e.db # "parent" => DOMAIN e.states = {e.db}
      /\ SideOf(e.db) = IF e.db = "parent" THEN "parent" ELSE "child"
      BY Places, SessionAssumption
         DEF Calm, Carried, TypeInv, TypeOK, Transaction, DataInv, Edits, SideOf
<1>2. Counted(p)' /\ Hard(p)'
      BY <1>0, <1>1 DEF CallInv, Counted, Hard
(* The rows it adds to those of the session. *)
<1>3. ASSUME NEW side \in Sides, NEW r \in rows'[side][s], r \notin rows[side][s]
      PROVE  Concerns(e, p) /\ SideOf(e.db) = side /\ r.id = e.id /\ r.state = e.states[s]
  <2>1. /\ side = SideOf(e.db) /\ s \in DOMAIN e.states
        /\ r.id = e.id /\ r.state = e.states[s]
        BY <1>1, <1>3, CommitRows
  <2> QED BY <1>1, <2>1 DEF Concerns, Sides
<1>4. \A side \in Sides : rows[side][s] \subseteq rows'[side][s]
      BY <1>1, CommitRows
<1>5. \A side \in Sides : \A r \in rows'[side][s] : r.state \in Nat
  <2>1. TypeInv'
        BY <1>1, TypeInvKept DEF Next, Edit
  <2> QED BY <1>1, <2>1 DEF TypeInv, TypeOK, Difference
<1>6. ASSUME pc[p] \in Attentive \cup Late
      PROVE  call[p].childState \in Nat /\ call[p].parentState \in Nat
      BY <1>1, <1>6 DEF TypeInv, Reading, At, Attentive, Late, Carrying
<1>7. Drained(p)'
      BY <1>0, <1>1 DEF CallInv, Drained, Concerns, IsNew, StateOf
<1>8. ASSUME pc[p] \in Late
      PROVE  /\ ChildRows(p)' = ChildRows(p) /\ ParentRows(p)' = ParentRows(p)
             /\ ParentCarried(p)' = ParentCarried(p)
  <2>1. Concerns(e, p) => IsNew(e, p)
        BY <1>1, <1>8 DEF CallInv, Drained
  <2>2. \A r \in rows'["child"][s] : r \notin rows["child"][s] => ~(r.state <= call[p].childState)
        BY <1>3, <1>5, <1>6, <1>8, <2>1 DEF IsNew, StateOf, Sides
  <2>3. \A r \in rows'["parent"][s] : r \notin rows["parent"][s] => ~(r.state <= call[p].parentState)
        BY <1>3, <1>5, <1>6, <1>8, <2>1 DEF IsNew, StateOf, Sides
  <2>4. ChildRows(p)' = ChildRows(p)
        BY <1>0, <1>4, <2>2 DEF ChildRows, UpTo, Sides
  <2>5. ParentRows(p)' = ParentRows(p)
        BY <1>0, <1>4, <2>3 DEF ParentRows, UpTo, Sides
  <2> QED BY <1>0, <2>4, <2>5, SameCurrent DEF ParentCarried
<1>9. ASSUME pc[p] \in Attentive, NEW i \in Ids, IsOldId(p, i)' PROVE IsOldId(p, i)
  <2>1. CASE \E f \in edits' : f.id = i /\ Concerns(f, p)' /\ ~IsNew(f, p)'
        BY <1>0, <2>1 DEF IsOldId, Concerns, IsNew, StateOf
  <2>2. CASE \E r \in ChildRows(p)' : r.id = i
    <3>1. PICK r \in rows'["child"][s] : r.id = i /\ r.state <= call[p].childState
          BY <1>0, <2>2 DEF ChildRows, UpTo
    <3>2. CASE r \in rows["child"][s]
          BY <3>1, <3>2 DEF IsOldId, ChildRows, UpTo
    <3>3. CASE r \notin rows["child"][s]
      <4>1. e.id = i /\ Concerns(e, p) /\ ~IsNew(e, p)
            BY <1>3, <1>5, <1>6, <1>9, <3>1, <3>3 DEF IsNew, StateOf, Sides
      <4> QED BY <4>1 DEF IsOldId
    <3> QED BY <3>2, <3>3
  <2>3. CASE \E r \in ParentCarried(p)' : r.id = i
    <3>1. PICK r \in rows'["parent"][s] : /\ r.id = i /\ r.state <= call[p].parentState
                                          /\ call[p].type = "Reconcile" /\ r \notin AtHand(p)
          BY <1>0, <2>3, SameCurrent DEF ParentCarried, ParentRows, UpTo
    <3>2. CASE r \in rows["parent"][s]
          BY <3>1, <3>2 DEF IsOldId, ParentCarried, ParentRows, UpTo
    <3>3. CASE r \notin rows["parent"][s]
      <4>1. e.id = i /\ Concerns(e, p) /\ ~IsNew(e, p)
            BY <1>3, <1>5, <1>6, <1>9, <3>1, <3>3 DEF IsNew, StateOf, Sides
      <4> QED BY <4>1 DEF IsOldId
    <3> QED BY <3>2, <3>3
  <2> QED BY <1>9, <2>1, <2>2, <2>3 DEF IsOldId
<1>10. ASSUME pc[p] \in Attentive, NEW i \in Ids, IsNewId(p, i)' PROVE IsNewId(p, i)
  <2>1. CASE \E f \in edits' : /\ f.id = i /\ Concerns(f, p)' /\ IsNew(f, p)'
                               /\ f.db = "parent" => terms'.handling # "NONE"
        BY <1>0, <2>1 DEF IsNewId, Concerns, IsNew, StateOf
  <2>2. CASE \E r \in rows'["child"][s] : r.id = i /\ r.state > call'[p].childState
    <3>1. PICK r \in rows'["child"][s] : r.id = i /\ r.state > call[p].childState
          BY <1>0, <2>2
    <3>2. CASE r \in rows["child"][s]
          BY <3>1, <3>2 DEF IsNewId
    <3>3. CASE r \notin rows["child"][s]
      <4>1. e.id = i /\ Concerns(e, p) /\ IsNew(e, p) /\ e.db # "parent"
            BY <1>1, <1>3, <3>1, <3>3 DEF IsNew, StateOf, Sides
      <4> QED BY <4>1 DEF IsNewId
    <3> QED BY <3>2, <3>3
  <2> QED BY <1>10, <2>1, <2>2 DEF IsNewId
<1>11. Apart(p)'
      BY <1>0, <1>1, <1>9, <1>10 DEF CallInv, Apart, Attentive
<1>12. Unique(p)'
      BY <1>0, <1>1, <1>8 DEF CallInv, Unique, Late
<1>13. Todo(p)'
      BY <1>0, <1>1, <1>8 DEF CallInv, Todo, At, Late, Carrying, Middle, Done
<1>14. Locked(p)'
  <2>1. ASSUME pc[p] \in Carrying, NEW r \in ParentCarried(p), IsCopy(p, r.id) PROVE IsCopy(p, r.id)'
    <3>1. r.id \in Ids
          BY <1>1 DEF ParentCarried, ParentRows, UpTo, TypeInv, TypeOK, Sides, Difference
    <3>2. IsOldId(p, r.id)
          BY <2>1 DEF IsOldId
    <3>3. ~IsNewId(p, r.id)
          BY <1>1, <2>1, <3>1, <3>2 DEF CallInv, Apart
    <3>4. Concerns(e, p) => IsNew(e, p)
          BY <1>1, <2>1 DEF CallInv, Drained, Late
    <3>5. ~(e.db = s /\ e.id = r.id)
          BY <1>1, <3>3, <3>4 DEF IsNewId, Concerns
    <3>6. features'[s][r.id] = features[s][r.id]
          BY <1>1, <3>1, <3>5, CommitValues
    <3> QED BY <1>0, <2>1, <3>6 DEF IsCopy, At
  <2> QED BY <1>0, <1>1, <1>8, <2>1 DEF CallInv, Locked, Late, Carrying
<1> QED BY <1>2, <1>7, <1>11, <1>12, <1>13, <1>14 DEF CallInv

------------------------------------------------------------------------------
(* The call's own steps: its states and locks.                              *)
Stating == Counting \cup {"incChild", "sleep"} \cup Late

LEMMA OwnPath ==
  ASSUME ControlTypes, NEW p \in Procs, Step(p), ~At(p, "idle"), pc'[p] \in Stating
  PROVE  /\ pc[p] \in Stating /\ ~ReleaseChild(p) /\ ~ReleaseParent(p)
         /\ \/ Raises(p, "parent") /\ Goes(p, "incParent", "incChild")
            \/ Raises(p, "child") /\ Goes(p, "incChild", "sleep")
            \/ /\ ~Raises(p, "parent") /\ ~Raises(p, "child")
               /\ pc[p] \in Counting => pc'[p] \in Counting
               /\ pc[p] = "incChild" => pc'[p] = "incChild"
               /\ pc[p] \in {"sleep"} \cup Late => pc'[p] \in {"sleep"} \cup Late
<1>0. Move(p)
      BY Moves
<1>1. ~ReleaseChild(p) /\ ~ReleaseParent(p)
  <2>1. ReleaseChild(p) => pc'[p] = "releaseParent"
        BY DEF ReleaseChild, Goto, ControlTypes
  <2>2. ReleaseParent(p) => pc'[p] = "removeChildLocks"
        BY DEF ReleaseParent, Goto, ControlTypes
  <2> QED BY <2>1, <2>2 DEF Stating, Counting, Late, Carrying
<1>2. CASE IncReplicationState(p)
  <2>1. \/ Goes(p, "incParent", "incChild") \/ Goes(p, "incChild", "sleep")
        BY <1>2 DEF IncReplicationState, Goes, At, Goto, ControlTypes
  <2> QED BY <1>1, <1>2, <2>1 DEF Raises, Goes, Stating, Counting
<1>3. CASE ~IncReplicationState(p)
  <2>1. ~Raises(p, "parent") /\ ~Raises(p, "child")
        BY <1>3 DEF Raises
  <2> USE DEF Stating, Counting, Late, Carrying, Goes, At
  <2>2. ~(Fail(p) \/ Crash(p))
        BY DEF Fail, Crash, Goto, ControlTypes
  <2>3. pc[p] \in Stating
        BY <1>0, <1>1, <1>3, <2>2 DEF Move
  <2>4. pc[p] \in Counting => pc'[p] \in Counting
        BY <1>0, <1>1, <1>3, <2>2 DEF Move
  <2>5. pc[p] # "incChild"
        BY <1>0, <1>1, <1>3, <2>2 DEF Move
  <2>6. pc[p] \in {"sleep"} \cup Late => pc'[p] \in {"sleep"} \cup Late
        BY <1>0, <1>1, <1>3, <2>2 DEF Move
  <2> QED BY <1>1, <2>1, <2>3, <2>4, <2>5, <2>6
<1> QED BY <1>2, <1>3

LEMMA OwnCounted == ASSUME Calm, Usual', NEW p \in Procs, Step(p) PROVE Counted(p)'
<1> DEFINE s == SessionOf[p]
<1>0. /\ ControlTypes /\ s \in Sessions /\ Without({"unnoticed"})' /\ Without(Excused)' /\ Counted(p)
      /\ TypeInv
      BY ControlTyped, Places DEF Calm, TypeInv, Usual, Without, Excused, Carried, CallInv
<1>1. /\ session["parent"][s].state \in Nat /\ session["child"][s].state \in Nat
      BY <1>0 DEF ControlTypes, Session, Sides
<1>2. CASE At(p, "idle")
  <2>1. PICK type \in Types : Begin(p, type)
        BY <1>2, Idlers
  <2>2. /\ session' = session /\ pc'[p] \in {"checkOthers", "removeChildLocks"}
        /\ IsOpen("parent", s) /\ IsOpen("child", s)
        BY <1>0, <1>2, <2>1, BeginsAlone DEF Begin
  <2>3. /\ call'[p].parentState = session["parent"][s].state
        /\ call'[p].childState = session["child"][s].state
        BY <1>0, <1>2, <2>2, CallsKept DEF At
  <2>4. session["child"][s].state <= session["parent"][s].state
        BY <1>0, <2>2 DEF Calm, Carried, Ahead
  <2> QED BY <2>2, <2>3, <2>4 DEF Counted, Counting, Late, Carrying, IsOpen
<1>3. CASE ~At(p, "idle") /\ pc'[p] \notin Stating
      BY <1>3 DEF Counted, Stating
<1>4. CASE ~At(p, "idle") /\ pc'[p] \in Stating
  <2>1. /\ pc[p] \in Stating /\ ~ReleaseChild(p) /\ ~ReleaseParent(p)
        BY <1>0, <1>4, OwnPath
  <2>2. SameStates(call'[p], call[p])
    <3>1. ~At(p, "idle")'
          BY <1>4 DEF At, Stating, Counting, Late, Carrying
    <3> QED BY <1>0, <1>4, <3>1, CallsKept
  <2>3. session["parent"][s].open /\ session["child"][s].open
    <3>1. pc[p] \in {"checkOthers", "lockParent"} \cup Holding
          BY <2>1 DEF Stating, Counting, Late, Carrying, Holding, Working
    <3> QED BY <1>0, <2>1, <3>1, AtWork DEF Counted, Stating, IsOpen
  <2>4. session'["parent"][s].open /\ session'["child"][s].open
        BY <1>0, <2>1, <2>3, OwnSession DEF Sides
  <2>5. /\ Raises(p, "parent") => session'["parent"][s].state = session["parent"][s].state + 1
        /\ ~Raises(p, "parent") => session'["parent"][s].state = session["parent"][s].state
        /\ Raises(p, "child") => session'["child"][s].state = session["child"][s].state + 1
        /\ ~Raises(p, "child") => session'["child"][s].state = session["child"][s].state
        BY <1>0, <2>4, OwnSession DEF Sides
  <2> HIDE DEF s
  <2>6. CASE Raises(p, "parent") /\ Goes(p, "incParent", "incChild")
    <3>1. ~Raises(p, "child")
          BY <2>6 DEF Raises
    <3> QED BY <1>0, <1>1, <2>2, <2>4, <2>5, <2>6, <3>1 DEF Counted, Counting, Late, Carrying, Goes, SameStates, s
  <2>7. CASE Raises(p, "child") /\ Goes(p, "incChild", "sleep")
    <3>1. ~Raises(p, "parent")
          BY <2>7 DEF Raises
    <3> QED BY <1>0, <1>1, <2>2, <2>4, <2>5, <2>7, <3>1 DEF Counted, Counting, Late, Carrying, Goes, SameStates, s
  <2>8. CASE /\ ~Raises(p, "parent") /\ ~Raises(p, "child")
             /\ pc[p] \in Counting => pc'[p] \in Counting
             /\ pc[p] = "incChild" => pc'[p] = "incChild"
             /\ pc[p] \in {"sleep"} \cup Late => pc'[p] \in {"sleep"} \cup Late
    <3> USE <2>1, <2>2, <2>4, <2>5, <2>8 DEF SameStates, s
    <3>1. CASE pc[p] \in Counting
          BY <1>0, <3>1 DEF Counted, Counting, Late, Carrying
    <3>2. CASE pc[p] = "incChild"
          BY <1>0, <3>2 DEF Counted, Counting, Late, Carrying
    <3>3. CASE pc[p] \in {"sleep"} \cup Late
          BY <1>0, <3>3 DEF Counted, Counting, Late, Carrying
    <3> QED BY <3>1, <3>2, <3>3 DEF Stating
  <2> QED BY <1>0, <1>4, <2>6, <2>7, <2>8, OwnPath
<1> QED BY <1>2, <1>3, <1>4

LEMMA OwnHard == ASSUME Calm, Usual', NEW p \in Procs, Step(p) PROVE Hard(p)'
<1> DEFINE s == SessionOf[p]
<1>0. /\ ControlTypes /\ s \in Sessions /\ Move(p) /\ "unnoticed" \notin excuses' /\ Hard(p) /\ Counted(p)
      /\ session \in [Sides -> [Sessions -> Session]]
      BY ControlTyped, Places, Moves DEF Calm, TypeInv, TypeOK, Usual, Without, Carried, CallInv
<1>1. ASSUME NEW side \in Sides, NEW row, SetSession(side, s, row), IsOpen(side, s)
      PROVE  /\ session'[side][s] = row
             /\ \A any \in Sides \ {side} : session'[any][s] = session[any][s]
      BY <1>0, <1>1 DEF SetSession
<1> USE DEF HardInParent, HardInChild, Goes, Sides
<1>2. CASE LockSession(p) /\ pc'[p] \in HardInParent \cup HardInChild
  <2>1. IsOpen("parent", s) /\ IsOpen("child", s)
    <3>1. pc[p] \in {"lockParent", "lockChild", "softenParent", "softenChild"}
          BY <1>2 DEF LockSession, At
    <3> QED BY <1>0, <3>1, AtWork DEF Holding, Working, Counted, Counting, Late, Carrying, IsOpen
  <2>2. CASE At(p, "lockParent")
    <3>1. SetSession("parent", s, [session["parent"][s] EXCEPT !.lock = "Hardlock"]) /\ pc'[p] = "lockChild"
          BY <1>0, <1>2, <2>2 DEF LockSession, LockReplicationSession, At, Goto, ControlTypes
    <3>2. session["parent"][s] \in Session
          BY <1>0
    <3>3. session'["parent"][s].lock = "Hardlock"
          BY <1>1, <2>1, <3>1, <3>2 DEF Session
    <3> QED BY <3>1, <3>3 DEF Hard
  <2>3. CASE At(p, "lockChild")
    <3>1. SetSession("child", s, [session["child"][s] EXCEPT !.lock = "Hardlock"]) /\ pc'[p] = "recheck"
          BY <1>0, <1>2, <2>3 DEF LockSession, LockReplicationSession, At, Goto, ControlTypes
    <3>2. session["child"][s] \in Session
          BY <1>0
    <3>3. session'["child"][s].lock = "Hardlock" /\ session'["parent"][s] = session["parent"][s]
          BY <1>1, <2>1, <3>1, <3>2 DEF Session
    <3> QED BY <1>0, <2>3, <3>1, <3>3 DEF Hard, At
  <2>4. CASE At(p, "softenParent")
    <3>1. SetSession("parent", s, [session["parent"][s] EXCEPT !.lock = "Softlock"]) /\ pc'[p] = "softenChild"
          BY <1>0, <1>2, <2>4 DEF LockSession, LockReplicationSession, At, Goto, ControlTypes
    <3>2. session'["child"][s] = session["child"][s]
          BY <1>1, <2>1, <3>1
    <3> QED BY <1>0, <2>4, <3>1, <3>2 DEF Hard, At
  <2>5. CASE At(p, "softenChild")
    <3>1. pc'[p] = "readDifferences"
          BY <1>0, <1>2, <2>5 DEF LockSession, At, Goto, ControlTypes
    <3> QED BY <3>1 DEF Hard
  <2> QED BY <1>2, <2>2, <2>3, <2>4, <2>5 DEF LockSession
<1>3. CASE IncReplicationState(p)
  <2>1. PICK side \in Sides : /\ SetSession(side, s, [session[side][s] EXCEPT !.state = session[side][s].state + 1])
                              /\ pc[p] \in {"incParent", "incChild"}
        BY <1>3 DEF IncReplicationState, At
  <2>2. session[side][s] \in Session
        BY <1>0
  <2>3. session'[side][s].lock = session[side][s].lock
    <3>1. CASE IsOpen(side, s)
          BY <1>1, <2>1, <2>2, <3>1 DEF Session
    <3>2. CASE ~IsOpen(side, s)
          BY <2>1, <3>2 DEF SetSession
    <3> QED BY <3>1, <3>2
  <2>4. \A any \in Sides \ {side} : session'[any][s] = session[any][s]
        BY <1>0, <2>1 DEF SetSession
  <2>5. \A any \in Sides : session'[any][s].lock = session[any][s].lock
        BY <2>3, <2>4
  <2>6. pc[p] \in HardInParent /\ pc[p] \in HardInChild
        BY <2>1
  <2> QED BY <1>0, <2>5, <2>6 DEF Hard
<1>4. CASE Quiet(p)
  <2>1. session' = session
        BY <1>0, <1>4, QuietSteps
  <2>2. ~LockSession(p) => /\ pc'[p] \in HardInParent => pc[p] \in HardInParent
                           /\ pc'[p] \in HardInChild => pc[p] \in HardInChild
        BY <1>0 DEF Move
  <2>3. CASE LockSession(p)
        BY <1>2, <2>3 DEF Hard
  <2> QED BY <1>0, <2>1, <2>2, <2>3 DEF Hard
<1>5. CASE ReleaseChild(p) \/ ReleaseParent(p) \/ UnlockChild(p) \/ UnlockParent(p)
  <2>1. pc'[p] \notin HardInParent \cup HardInChild
        BY <1>0, <1>5 DEF ReleaseChild, ReleaseParent, UnlockChild, UnlockParent, Goto, ControlTypes
  <2> QED BY <2>1 DEF Hard
<1>6. CASE LockSession(p) /\ pc'[p] \notin HardInParent \cup HardInChild
      BY <1>6 DEF Hard
<1> QED BY <1>2, <1>3, <1>4, <1>5, <1>6 DEF Step, Prepare, Complete, Quiet

------------------------------------------------------------------------------
(* Before the states are raised there is nothing new.                       *)
LEMMA NothingNew ==
  ASSUME Calm, NEW p \in Procs, At(p, "recheck"), NEW i \in Ids
  PROVE  ~IsNewId(p, i)
<1> DEFINE s == SessionOf[p]
<1>0. /\ s \in Sessions /\ s # "parent" /\ TypeInv /\ Stated /\ Seen /\ Edits /\ Counted(p)
      BY Places, SessionAssumption DEF Calm, Carried, CallInv, DataInv
<1>1. IsOpen("parent", s) /\ IsOpen("child", s)
      BY <1>0, AtWork DEF Holding, At, Counted, Counting, IsOpen
<1>2. /\ session["parent"][s].state = call[p].parentState
      /\ session["child"][s].state = call[p].childState
      /\ call[p].parentState \in Nat /\ call[p].childState \in Nat
      BY <1>0 DEF Counted, Counting, At, TypeInv, Reading
<1>3. \A r \in rows["child"][s] : r.state <= call[p].childState /\ r.state \in Nat
      BY <1>0, <1>1, <1>2 DEF Stated, TypeInv, TypeOK, Sides, Difference
<1>4. ASSUME NEW e \in edits, Concerns(e, p) PROVE ~IsNew(e, p)
  <2>1. s \in DOMAIN e.states /\ IsOpen(SideOf(e.db), s)
        BY <1>0, <1>1, <1>4 DEF Concerns, Seen, Edits, Watching, SideOf
  <2>2. e.states[s] <= session[SideOf(e.db)][s].state /\ e.states[s] \in Nat
        BY <1>0, <2>1 DEF Stated, TypeInv, TypeOK, Transaction
  <2>3. session[SideOf(e.db)][s].state = StateOf(p, SideOf(e.db)) /\ StateOf(p, SideOf(e.db)) \in Nat
        BY <1>2 DEF SideOf, StateOf
  <2> QED BY <2>2, <2>3 DEF IsNew
<1> QED BY <1>2, <1>3, <1>4 DEF IsNewId

(* What is posted is never a copy, as the child has no differences left.    *)
LEMMA PostTakes ==
  ASSUME Calm, NEW p \in Procs, At(p, "apply"), call[p].dir = "post"
  PROVE  Clashes(p) = {} /\ Verdict(p) = "take" /\ ~CopyFeature(p)
<1>1. call[p].other = {}
      BY DEF Calm, Carried, CallInv, Todo, At
<1>2. Verdict(p) = "take"
      BY <1>1 DEF Clashes, Verdict
<1> QED BY <1>1, <1>2 DEF Clashes, CopyFeature, Copied, IsWriting, IsApplying

LEMMA Directions ==
  ASSUME Calm, NEW p \in Procs
  PROVE  /\ call[p].dir = "checkin" =>
              From(p) = "child" /\ To(p) = "parent" /\ FromDb(p) = SessionOf[p] /\ ToDb(p) = "parent"
         /\ call[p].dir # "checkin" => call[p].dir = "post" /\
              From(p) = "parent" /\ To(p) = "child" /\ FromDb(p) = "parent" /\ ToDb(p) = SessionOf[p]
BY DEF Calm, TypeInv, TypeOK, Call, From, To, FromDb, ToDb, Db

(* Where nothing fails unnoticed the statements do what they should.        *)
LEMMA Locking ==
  ASSUME Usual', NEW p \in Procs, LockObjects(p)
  PROVE  LET s == SessionOf[p]
             own(side) == {Lock(r.id, 0, s, r.state) : r \in UpTo(rows[side][s], StateOf(p, side))}
             theirs(side) == {Lock(r.id, 1, s, call[p].childState) :
                                r \in UpTo(rows[side][s], call[p].parentState)}
         IN
         \/ At(p, "lockChildObjects") /\ locks' = [locks EXCEPT ![s] = locks[s] \cup own("child") \cup theirs("parent")]
         \/ At(p, "lockParentObjects") /\ locks' = [locks EXCEPT !["parent"] =
              locks["parent"] \cup (IF call[p].type = "Reconcile" THEN own("parent") ELSE {}) \cup theirs("child")]
<1>1. ASSUME NEW d, NEW own, NEW theirs, Added(d, own, theirs)
      PROVE  locks' = [locks EXCEPT ![d] = locks[d] \cup own \cup theirs]
      BY <1>1 DEF Added, If, Usual, Without
<1> QED BY <1>1 DEF LockObjects

LEMMA Removal ==
  ASSUME Usual', NEW p \in Procs, RemoveRow(p)
  PROVE  LET s == SessionOf[p]
             r == Current(p)
             rest == [locks EXCEPT ![FromDb(p)] = locks[FromDb(p)] \ {Lock(r.id, 0, s, r.state)}]
         IN
         /\ rows' = [rows EXCEPT ![From(p)][s] = rows[From(p)][s] \ {r}]
         /\ locks' = [rest EXCEPT ![ToDb(p)] = locks[ToDb(p)] \ {Lock(r.id, 1, s, StateOf(p, To(p)))}]
BY DEF RemoveRow, If, Usual, Without

LEMMA ConflictWritten ==
  ASSUME Usual', NEW p \in Procs, NEW copy, AddConflict(p, copy)
  PROVE  conflicts' = [conflicts EXCEPT ![ToDb(p)] =
                         conflicts[ToDb(p)] \cup {[id |-> Current(p).id, copy |-> copy]}]
BY DEF AddConflict, Usual, Without

LEMMA OwnRows ==
  ASSUME Calm, NEW p \in Procs, Step(p)
  PROVE  /\ \/ rows'["child"][SessionOf[p]] = rows["child"][SessionOf[p]]
            \/ Loses(p) /\ rows'["child"][SessionOf[p]] \subseteq rows["child"][SessionOf[p]]
         /\ \/ rows'["parent"][SessionOf[p]] = rows["parent"][SessionOf[p]]
            \/ Loses(p) /\ rows'["parent"][SessionOf[p]] \subseteq rows["parent"][SessionOf[p]]
            \/ /\ CopyFeature(p) /\ call[p].dir = "checkin"
               /\ \E r \in Difference :
                    /\ rows'["parent"][SessionOf[p]] = rows["parent"][SessionOf[p]] \cup {r}
                    /\ r.id = lastId' /\ r.state = call[p].parentState
<1>0. TypeInv /\ SessionOf[p] \in Sessions
      BY Places DEF Calm
<1>1. CopyFeature(p) => call[p].dir = "checkin" /\ To(p) = "parent"
  <2>1. CopyFeature(p) => At(p, "apply")
        BY DEF CopyFeature, Copied, IsWriting, IsApplying
  <2> QED BY <2>1, PostTakes, Directions
<1>2. \A r \in Difference : ~Written(p, "child", SessionOf[p], r)
      BY <1>1 DEF Written
<1>3. ASSUME NEW r \in Difference, Written(p, "parent", SessionOf[p], r)
      PROVE  CopyFeature(p) /\ r.id = lastId' /\ r.state = call[p].parentState
      BY <1>3 DEF Written, StateOf
<1> QED BY <1>0, <1>1, <1>2, <1>3, StepRows DEF Sides

LEMMA OwnAttention ==
  ASSUME Calm, NEW p \in Procs, Step(p), pc'[p] \in Attentive \cup Late
  PROVE  \/ /\ pc[p] \in Attentive \cup Late /\ SameStates(call'[p], call[p])
            /\ ~ReleaseChild(p) /\ ~ReleaseParent(p)
            /\ pc'[p] \in Late => pc[p] \in Late \/ Sleep(p)
            /\ At(p, "remove") => RemoveRow(p)
         \/ At(p, "recheck") /\ CheckOthers(p) /\ pc'[p] \notin Late
<1>0. /\ ControlTypes /\ Move(p) /\ TypeInv
      BY ControlTyped, Moves DEF Calm, TypeInv
<1> USE DEF Attentive, Late, Carrying, Goes, At
<1>1. ~Fail(p) /\ ~Crash(p)
      BY <1>0 DEF Fail, Crash, Goto, ControlTypes
<1>2. ~ReleaseChild(p) /\ ~ReleaseParent(p)
      BY <1>0 DEF ReleaseChild, ReleaseParent, Goto, ControlTypes
<1>3. CASE CheckOthers(p)
      BY <1>0, <1>3 DEF CheckOthers, Goto, ControlTypes
<1>4. CASE ~CheckOthers(p)
  <2>1. pc[p] \in Attentive \cup Late
        BY <1>0, <1>1, <1>2, <1>4 DEF Move
  <2>2. SameStates(call'[p], call[p])
        BY <1>0, <2>1, CallsKept
  <2>3. pc'[p] \in Late => pc[p] \in Late \/ Sleep(p)
        BY <1>0, <1>1, <1>2, <1>4 DEF Move
  <2>4. At(p, "remove") => RemoveRow(p)
        BY <1>0, <1>1, <1>2, <1>4 DEF Move
  <2> QED BY <1>2, <2>1, <2>2, <2>3, <2>4
<1> QED BY <1>3, <1>4

(* A call's own step makes no new changes, and what it carries is less, but  *)
(* for a copy.                                                             *)
LEMMA OwnCarried ==
  ASSUME Calm, Usual', NEW p \in Procs, Step(p), pc'[p] \in Attentive \cup Late, pc[p] \in Attentive \cup Late
  PROVE  /\ SameStates(call'[p], call[p])
         /\ ChildRows(p)' \subseteq ChildRows(p)
         /\ \A r \in ParentRows(p)' : r \in ParentRows(p) \/ (CopyFeature(p) /\ r.id = lastId')
         /\ \A r \in ParentCarried(p)' : r \in ParentCarried(p) \/ (CopyFeature(p) /\ r.id = lastId')
         /\ \A i \in Ids : IsNewId(p, i)' => IsNewId(p, i)
         /\ \A i \in Ids : IsOldId(p, i)' => IsOldId(p, i) \/ (CopyFeature(p) /\ i = lastId')
<1> DEFINE s == SessionOf[p]
<1>0. /\ SameStates(call'[p], call[p]) /\ (At(p, "remove") => RemoveRow(p))
      /\ edits' = edits /\ terms' = terms /\ s \in Sessions
      BY OwnAttention, Frames, Places DEF Frame, Attentive, Late, Carrying, At
<1>1. rows'["child"][s] \subseteq rows["child"][s]
      BY OwnRows
<1>2. \A r \in rows'["parent"][s] : r \in rows["parent"][s] \/ (CopyFeature(p) /\ r.id = lastId')
      BY OwnRows
<1>3. ChildRows(p)' \subseteq ChildRows(p)
      BY <1>0, <1>1 DEF ChildRows, UpTo, SameStates
<1>4. \A r \in ParentRows(p)' : r \in ParentRows(p) \/ (CopyFeature(p) /\ r.id = lastId')
      BY <1>0, <1>2 DEF ParentRows, UpTo, SameStates
<1>5. \A r \in ParentCarried(p)' : r \in ParentCarried(p) \/ (CopyFeature(p) /\ r.id = lastId')
  <2>1. SUFFICES ASSUME NEW r \in ParentCarried(p)', ~(CopyFeature(p) /\ r.id = lastId')
                 PROVE  r \in ParentCarried(p)
        OBVIOUS
  <2>2. r \in ParentRows(p)' /\ call'[p].type = "Reconcile"
        BY <2>1 DEF ParentCarried
  <2>3. r \in ParentRows(p) /\ call[p].type = "Reconcile"
        BY <1>0, <1>4, <2>1, <2>2 DEF SameStates
  <2>4. r \notin AtHand(p)
    <3>1. SUFFICES ASSUME At(p, "remove"), call[p].dir = "post" PROVE r # Current(p)
          BY DEF AtHand
    <3>2. RemoveRow(p) /\ From(p) = "parent"
          BY <1>0, <3>1, Directions
    <3>3. rows' = [rows EXCEPT !["parent"][s] = rows["parent"][s] \ {Current(p)}]
          BY <3>2, Removal
    <3>4. rows'["parent"][s] = rows["parent"][s] \ {Current(p)}
          BY <1>0, <3>3 DEF Calm, TypeInv, TypeOK, Sides
    <3>5. r \in rows'["parent"][s]
          BY <2>2 DEF ParentRows, UpTo
    <3> QED BY <3>4, <3>5
  <2> QED BY <2>3, <2>4 DEF ParentCarried
<1>6. \A i \in Ids : IsNewId(p, i)' => IsNewId(p, i)
      BY <1>0, <1>1 DEF IsNewId, Concerns, IsNew, StateOf, SameStates
<1>7. \A i \in Ids : IsOldId(p, i)' => IsOldId(p, i) \/ (CopyFeature(p) /\ i = lastId')
      BY <1>0, <1>3, <1>5 DEF IsOldId, Concerns, IsNew, StateOf, SameStates
<1> QED BY <1>0, <1>3, <1>4, <1>5, <1>6, <1>7

LEMMA FreshIds ==
  ASSUME Calm, NEW p \in Procs, CopyFeature(p)
  PROVE  /\ lastId' \in Ids
         /\ ~IsNewId(p, lastId') /\ ~IsOldId(p, lastId')
         /\ \A r \in ParentRows(p) : r.id # lastId'
         /\ \A d \in Dbs : features[d][lastId'] = <<>>
<1>1. lastId' = lastId + 1 /\ lastId < MaxObjects /\ lastId \in Nat /\ lastId' \in Ids
      BY BoundAssumption DEF CopyFeature, Copied, Calm, TypeInv, TypeOK, Ids
<1>2. \A side \in Sides : \A r \in rows[side][SessionOf[p]] : r.id # lastId'
      BY <1>1, BoundAssumption, Places DEF Calm, DataInv, Low, TypeInv, TypeOK, Difference, Ids
<1>3. \A e \in edits : e.id # lastId'
      BY <1>1, BoundAssumption DEF Calm, DataInv, Low, TypeInv, TypeOK, Transaction, Ids
<1>4. ~IsNewId(p, lastId') /\ ~IsOldId(p, lastId')
      BY <1>2, <1>3 DEF IsNewId, IsOldId, ParentCarried, ParentRows, ChildRows, UpTo, Sides
<1>5. \A d \in Dbs : features[d][lastId'] = <<>>
      BY <1>1 DEF Calm, DataInv, Low, Ids
<1> QED BY <1>1, <1>2, <1>4, <1>5 DEF ParentRows, UpTo, Sides

LEMMA OwnApart == ASSUME Calm, Usual', NEW p \in Procs, Step(p) PROVE Apart(p)'
<1>1. SUFFICES ASSUME pc'[p] \in Attentive, NEW i \in Ids, IsOldId(p, i)', IsNewId(p, i)' PROVE FALSE
      BY DEF Apart, Attentive
<1>2. CASE pc[p] \in Attentive \cup Late
  <2>1. IsNewId(p, i) /\ (IsOldId(p, i) \/ (CopyFeature(p) /\ i = lastId'))
        BY <1>1, <1>2, OwnCarried
  <2>2. pc[p] \in Attentive
    <3>1. SUFFICES ASSUME At(p, "releaseChild") PROVE FALSE
          BY <1>2 DEF Late, Attentive, At
    <3>2. Move(p)
          BY ControlTyped, Moves DEF Calm, TypeInv
    <3> QED BY <1>1, <3>1, <3>2 DEF Move, Goes, At, Attentive, Carrying
  <2>3. ~IsOldId(p, i)
        BY <2>1, <2>2 DEF Calm, Carried, CallInv, Apart, Attentive
  <2> QED BY <2>1, <2>3, FreshIds
<1>3. CASE pc[p] \notin Attentive \cup Late
  <2>1. At(p, "recheck") /\ CheckOthers(p)
        BY <1>1, <1>3, OwnAttention
  <2>2. IsNewId(p, i)
        BY <1>1, <2>1 DEF CheckOthers, IsNewId, Concerns, IsNew, StateOf, data, env
  <2> QED BY <2>1, <2>2, NothingNew
<1> QED BY <1>2, <1>3

LEMMA OwnDrained == ASSUME Calm, Usual', NEW p \in Procs, Step(p) PROVE Drained(p)'
<1>1. SUFFICES ASSUME pc'[p] \in Late, NEW e \in edits', Concerns(e, p)' PROVE IsNew(e, p)'
      BY DEF Drained
<1>2. /\ e \in edits /\ Concerns(e, p) /\ SameStates(call'[p], call[p])
      /\ pc[p] \in Attentive \cup Late /\ (pc[p] \in Late \/ Sleep(p))
      BY <1>1, Frames, OwnAttention DEF Frame, Concerns, Attentive, Late
<1>3. IsNew(e, p)
  <2>1. CASE pc[p] \in Late
        BY <1>2, <2>1 DEF Calm, Carried, CallInv, Drained
  <2>2. CASE Sleep(p)
    <3>1. ~(\E f \in edits : SessionOf[p] \in DOMAIN f.states
                              /\ f.states[SessionOf[p]] <= StateOf(p, SideOf(f.db)))
          BY <2>2 DEF Sleep, If, Usual, Without
    <3>2. SessionOf[p] \in DOMAIN e.states
          BY <1>2, Watched DEF Concerns, Calm, Carried, Seen
    <3>3. e.states[SessionOf[p]] \in Nat
          BY <1>2, <3>2 DEF Calm, TypeInv, TypeOK, Transaction
    <3>4. StateOf(p, SideOf(e.db)) \in Nat
          BY <1>2, Watched DEF Concerns
    <3> QED BY <1>2, <3>1, <3>2, <3>3, <3>4 DEF IsNew
  <2> QED BY <1>2, <2>1, <2>2
<1> QED BY <1>2, <1>3 DEF IsNew, StateOf, SameStates

------------------------------------------------------------------------------
(* Of the rows of an object up to a state thinning leaves one at most.      *)
LEMMA ThinnedOnce ==
  ASSUME NEW T \in SUBSET Difference, IsFiniteSet(T), NEW state \in Nat,
         NEW r \in Thinned(T, state), NEW q \in Thinned(T, state),
         r.id = q.id, r.state <= state, q.state <= state
  PROVE  r = q
<1> DEFINE same == {x \in T : x.id = r.id}
           first == CHOOSE x \in same : \A o \in same \ {x} : Before(x, o)
           last == CHOOSE x \in same : \A o \in same \ {x} : Before(o, x)
           kept == IF first.statement = "INSERT" /\ last.statement = "UPDATE" THEN {first}
                   ELSE IF first.statement = "INSERT" /\ last.statement = "DELETE" THEN {}
                   ELSE {last}
<1>1. r \in T /\ q \in T /\ same = {x \in T : x.id = q.id} /\ r.state \in Nat /\ q.state \in Nat
      BY DEF Thinned, Difference
<1>2. r.state > state \/ Cardinality(UpTo(same, state)) = 1 \/ r \in kept
      BY DEF Thinned
<1>3. q.state > state \/ Cardinality(UpTo(same, state)) = 1 \/ q \in kept
      BY <1>1 DEF Thinned
<1>4. CASE Cardinality(UpTo(same, state)) = 1
  <2>1. IsFiniteSet(UpTo(same, state))
        BY FS_Subset DEF UpTo
  <2>2. r \in UpTo(same, state) /\ q \in UpTo(same, state)
        BY <1>1 DEF UpTo
  <2> HIDE DEF same
  <2> QED BY <1>4, <2>1, <2>2, FS_Singleton
<1>5. CASE r \in kept /\ q \in kept
  <2>1. kept = {first} \/ kept = {} \/ kept = {last}
        OBVIOUS
  <2> HIDE DEF kept, first, last
  <2> QED BY <1>5, <2>1
<1> HIDE DEF same, kept
<1> QED BY <1>1, <1>2, <1>3, <1>4, <1>5

LEMMA ThinnedSide ==
  ASSUME TypeInv, Numbered, NEW p \in Procs, NEW side \in Sides, ~At(p, "idle"), ThinSide(p, side),
         SameStates(call'[p], call[p])
  PROVE  \A r, q \in UpTo(rows'[side][SessionOf[p]], StateOf(p, side)) : r.id = q.id => r = q
<1> DEFINE s == SessionOf[p]
<1>1. /\ rows \in [Sides -> [Sessions -> SUBSET Difference]] /\ s \in Sessions
      /\ IsFiniteSet(rows[side][s]) /\ rows[side][s] \in SUBSET Difference
      /\ StateOf(p, side) \in Nat
      BY Places DEF TypeInv, TypeOK, Numbered, Reading, StateOf
<1>2. rows'[side][s] = Thinned(rows[side][s], StateOf(p, side))
      BY <1>1 DEF ThinSide
<1> QED BY <1>1, <1>2, ThinnedOnce DEF UpTo

LEMMA OwnUnique == ASSUME Calm, Usual', NEW p \in Procs, Step(p) PROVE Unique(p)'
<1> DEFINE s == SessionOf[p]
<1>0. Unique(p) /\ TypeInv /\ Numbered /\ s \in Sessions
      BY Places DEF Calm, Carried, CallInv, DataInv
<1>1. ASSUME pc'[p] \in Carrying \ {"thinChild"}
      PROVE  /\ pc[p] \in Attentive \cup Late /\ SameStates(call'[p], call[p])
             /\ pc[p] \in Carrying \ {"thinChild"} \/ (At(p, "thinChild") /\ ThinSide(p, "child"))
             /\ pc'[p] \notin Thinning =>
                  pc[p] \in Carrying \ Thinning \/ (At(p, "thinParent") /\ ThinSide(p, "parent"))
  <2>1. Move(p) /\ pc[p] \in Attentive \cup Late /\ SameStates(call'[p], call[p])
        BY <1>1, OwnAttention, ControlTyped, Moves DEF Calm, TypeInv, Late, Attentive, Carrying
  <2>2. ~Fail(p) /\ ~Crash(p)
        BY <1>1, ControlTyped DEF Fail, Crash, Goto, ControlTypes, Carrying, Calm, TypeInv
  <2>3. pc[p] \in Carrying \ {"thinChild"} \/ (Thin(p) /\ At(p, "thinChild"))
        BY <1>1, <2>1, <2>2 DEF Move, Goes, At, Carrying, Attentive, Late
  <2>4. pc'[p] \notin Thinning => pc[p] \in Carrying \ Thinning \/ (Thin(p) /\ At(p, "thinParent"))
        BY <1>1, <2>1, <2>2 DEF Move, Goes, At, Carrying, Attentive, Late, Thinning
  <2>5. Thin(p) /\ At(p, "thinChild") => ThinSide(p, "child")
        BY DEF Thin, At
  <2>6. Thin(p) /\ At(p, "thinParent") => ThinSide(p, "parent")
        BY DEF Thin, At
  <2> QED BY <2>1, <2>3, <2>4, <2>5, <2>6
<1>2. ASSUME pc'[p] \in Carrying \ {"thinChild"}, NEW r \in ChildRows(p)', NEW q \in ChildRows(p)', r.id = q.id
      PROVE  r = q
  <2>1. CASE pc[p] \in Carrying \ {"thinChild"}
        BY <1>0, <1>1, <1>2, <2>1, OwnCarried DEF Unique, Late
  <2>2. CASE At(p, "thinChild") /\ ThinSide(p, "child")
    <3>1. ~At(p, "idle") /\ r \in UpTo(rows'["child"][s], StateOf(p, "child"))
          /\ q \in UpTo(rows'["child"][s], StateOf(p, "child"))
          BY <1>1, <1>2, <2>2 DEF At, ChildRows, StateOf, SameStates
    <3> QED BY <1>0, <1>1, <1>2, <2>2, <3>1, ThinnedSide DEF Sides
  <2> QED BY <1>1, <1>2, <2>1, <2>2
<1>3. ASSUME pc'[p] \in Carrying \ Thinning, NEW r \in ParentRows(p)', NEW q \in ParentRows(p)', r.id = q.id
      PROVE  r = q
  <2>0. pc'[p] \in Carrying \ {"thinChild"} /\ pc'[p] \notin Thinning
        BY <1>3 DEF Thinning
  <2>1. CASE pc[p] \in Carrying \ Thinning
    <3>1. /\ r \in ParentRows(p) \/ (CopyFeature(p) /\ r.id = lastId')
          /\ q \in ParentRows(p) \/ (CopyFeature(p) /\ q.id = lastId')
          BY <1>1, <1>3, <2>0, OwnCarried DEF Late
    <3>2. CASE r \in ParentRows(p) /\ q \in ParentRows(p)
          BY <1>0, <1>3, <2>1, <3>2 DEF Unique
    <3>3. CASE ~(r \in ParentRows(p) /\ q \in ParentRows(p))
      <4>1. CopyFeature(p) /\ r.id = lastId' /\ q.id = lastId'
            BY <1>3, <3>1, <3>3
      <4>2. r \notin ParentRows(p) /\ q \notin ParentRows(p)
            BY <4>1, FreshIds
      <4>3. /\ r \in rows'["parent"][s] /\ q \in rows'["parent"][s]
            /\ r \notin rows["parent"][s] /\ q \notin rows["parent"][s]
            BY <1>1, <1>3, <2>0, <4>2 DEF ParentRows, UpTo, SameStates
      <4> QED BY <4>3, OwnRows
    <3> QED BY <3>2, <3>3
  <2>2. CASE At(p, "thinParent") /\ ThinSide(p, "parent")
    <3>1. ~At(p, "idle") /\ r \in UpTo(rows'["parent"][s], StateOf(p, "parent"))
          /\ q \in UpTo(rows'["parent"][s], StateOf(p, "parent"))
          BY <1>1, <1>3, <2>0, <2>2 DEF At, ParentRows, StateOf, SameStates
    <3> QED BY <1>0, <1>1, <1>3, <2>0, <2>2, <3>1, ThinnedSide DEF Sides
  <2> QED BY <1>1, <2>0, <2>1, <2>2
<1> QED BY <1>2, <1>3 DEF Unique

(* The row at hand of a check-in is the only one of its object.             *)
LEMMA SoleRow ==
  ASSUME Calm, NEW p \in Procs, pc[p] \in Carrying \ {"thinChild"}, NEW r \in ChildRows(p),
         NEW q \in rows["child"][SessionOf[p]], q.id = r.id
  PROVE  q = r
<1>1. TypeInv /\ Apart(p) /\ Unique(p) /\ SessionOf[p] \in Sessions
      BY Places DEF Calm, Carried, CallInv
<1>2. r.id \in Ids /\ q.state \in Nat /\ call[p].childState \in Nat
      BY <1>1 DEF ChildRows, UpTo, TypeInv, TypeOK, Difference, Sides, Reading, At, Carrying
<1>3. IsOldId(p, r.id)
      BY DEF IsOldId
<1>4. ~IsNewId(p, r.id)
      BY <1>1, <1>2, <1>3 DEF Apart
<1>5. q.state <= call[p].childState
      BY <1>2, <1>4 DEF IsNewId
<1> QED BY <1>1, <1>5 DEF Unique, ChildRows, UpTo

LEMMA NothingPassedOver ==
  ASSUME Calm, NEW p \in Procs, PassOver(p)
  PROVE  call[p].dir = "post"
<1>1. SUFFICES ASSUME call[p].dir = "checkin" PROVE FALSE
      BY Directions
<1>2. /\ At(p, "apply") /\ Current(p) \in call[p].todo /\ Current(p).statement # "DELETE"
      /\ Source(p) = <<>>
  <2>1. TypeInv /\ Current(p).statement # "DELETE" /\ Source(p) = <<>> /\ At(p, "apply")
        BY DEF PassOver, IsApplying, Calm
  <2> QED BY <2>1, Applying
<1>3. call[p].todo = ChildRows(p)
      BY <1>1, <1>2 DEF Calm, Carried, CallInv, Todo, At
<1>4. Current(p) \in ChildRows(p) /\ Current(p) \in rows["child"][SessionOf[p]]
      BY <1>2, <1>3 DEF ChildRows, UpTo
<1>5. \A q \in rows["child"][SessionOf[p]] : q.id = Current(p).id => q = Current(p)
      BY <1>2, <1>4, SoleRow DEF At, Carrying
<1>6. Current(p).n \in Nat /\ SessionOf[p] \in Sessions
      BY <1>4, Places DEF Calm, TypeInv, TypeOK, Sides, Difference
<1>7. features[SessionOf[p]][Current(p).id] # <<>>
      BY <1>2, <1>4, <1>5, <1>6 DEF Calm, Carried, Alive
<1> QED BY <1>1, <1>2, <1>7, Directions DEF Source

------------------------------------------------------------------------------
(* What a step does to the direction and the rows of the other side.        *)
LEMMA StepOther ==
  ASSUME TypeInv, NEW p \in Procs, Step(p)
  PROVE  /\ ReadDifferences(p) => /\ call'[p].dir = call[p].dir
                                  /\ call'[p].other = UpTo(rows[To(p)][SessionOf[p]], StateOf(p, To(p)))
         /\ PassOver(p) \/ RemoveRow(p) => call'[p].dir = call[p].dir /\ call'[p].other = call[p].other
         /\ Leave(p) \/ (Writes(p) /\ ~CopyFeature(p)) => call' = call
         /\ Leave(p) \/ Writes(p) \/ WriteConflict(p) =>
              /\ call'[p].dir = call[p].dir /\ call'[p].todo = call[p].todo /\ call'[p].other = call[p].other
         /\ EndCheckIn(p) => \/ /\ call[p].type = "CheckinAndRelease" /\ call'[p].dir = call[p].dir
                                /\ At(p, "releaseChild")'
                             \/ /\ call[p].type = "Reconcile" /\ call[p].dir = "checkin"
                                /\ At(p, "readDifferences")'
                             \/ At(p, "insertLocks")'
<1>0. call \in [Procs -> Call] /\ call[p] \in Call /\ pc \in [Procs -> PCs]
      BY DEF TypeInv, TypeOK
<1>1. CASE ReadDifferences(p)
  <2> DEFINE T == UpTo(rows[From(p)][SessionOf[p]], StateOf(p, From(p)))
             O == UpTo(rows[To(p)][SessionOf[p]], StateOf(p, To(p)))
             c == WithOther(WithTodo(call[p], T), O)
  <2>1. call' = [call EXCEPT ![p] = c]
        BY <1>1 DEF ReadDifferences, WithOther, WithTodo
  <2> HIDE DEF T
  <2>2. c.other = O /\ c.dir = call[p].dir
    <3> HIDE DEF O
    <3> QED BY <1>0 DEF WithOther, WithTodo, Call
  <2> HIDE DEF c
  <2>3. call'[p].other = O /\ call'[p].dir = call[p].dir
        BY <1>0, <2>1, <2>2
  <2> HIDE DEF O
  <2>4. At(p, "readDifferences") /\ At(p, "apply")'
        BY <1>0, <1>1 DEF ReadDifferences, At, Goto
  <2>5. ~(PassOver(p) \/ RemoveRow(p) \/ Leave(p) \/ Writes(p) \/ WriteConflict(p) \/ EndCheckIn(p))
        BY <2>4 DEF PassOver, RemoveRow, Leave, Writes, EndCheckIn, InsertFeature, CopyFeature, Copied,
                    WriteConflict, ChangeFeature, IsWriting, IsApplying, At
  <2> QED BY <2>3, <2>5 DEF O
<1>2. ASSUME PassOver(p) \/ RemoveRow(p)
      PROVE  call'[p].dir = call[p].dir /\ call'[p].other = call[p].other
  <2> DEFINE c == WithTodo(call[p], call[p].todo \ {Current(p)})
  <2>1. call' = [call EXCEPT ![p] = c]
        BY <1>2 DEF PassOver, RemoveRow, WithTodo
  <2>2. c.dir = call[p].dir /\ c.other = call[p].other
        BY <1>0 DEF WithTodo, Call
  <2> HIDE DEF c
  <2> QED BY <1>0, <2>1, <2>2
<1>3. ASSUME Leave(p) \/ (Writes(p) /\ ~CopyFeature(p)) PROVE call' = call
      BY <1>3 DEF Leave, Writes, InsertFeature, ChangeFeature, Applied
<1>5. ASSUME CopyFeature(p) \/ WriteConflict(p)
      PROVE  call'[p].dir = call[p].dir /\ call'[p].todo = call[p].todo /\ call'[p].other = call[p].other
      BY <1>5, CopiesKept
<1>4. ASSUME EndCheckIn(p)
      PROVE  \/ /\ call[p].type = "CheckinAndRelease" /\ call'[p].dir = call[p].dir
                /\ At(p, "releaseChild")'
             \/ /\ call[p].type = "Reconcile" /\ call[p].dir = "checkin"
                /\ At(p, "readDifferences")'
             \/ At(p, "insertLocks")'
  <2> DEFINE c == WithOther(call[p], {})
  <2>1. CASE call[p].type = "CheckinAndRelease" /\ Goto(p, "releaseChild") /\ call' = [call EXCEPT ![p] = c]
    <3>1. c.dir = call[p].dir
          BY <1>0 DEF WithOther, Call
    <3> HIDE DEF c
    <3> QED BY <1>0, <2>1, <3>1 DEF At, Goto
  <2>2. CASE call[p].type = "Reconcile" /\ call[p].dir = "checkin" /\ Goto(p, "readDifferences")
        BY <1>0, <2>2 DEF At, Goto
  <2>3. CASE Goto(p, "insertLocks")
        BY <1>0, <2>3 DEF At, Goto
  <2> QED BY <1>4, <2>1, <2>2, <2>3 DEF EndCheckIn, WithOther
<1> QED BY <1>1, <1>2, <1>3, <1>4, <1>5

(* A row that has been carried is gone, and only that.                      *)
LEMMA RemovedRow ==
  ASSUME Calm, Usual', NEW p \in Procs, RemoveRow(p)
  PROVE  /\ rows'[From(p)][SessionOf[p]] = rows[From(p)][SessionOf[p]] \ {Current(p)}
         /\ rows'[To(p)][SessionOf[p]] = rows[To(p)][SessionOf[p]]
<1>1. From(p) \in Sides /\ To(p) \in Sides /\ From(p) # To(p) /\ SessionOf[p] \in Sessions
      BY Places DEF From, To
<1>2. rows' = [rows EXCEPT ![From(p)][SessionOf[p]] = rows[From(p)][SessionOf[p]] \ {Current(p)}]
      BY Removal
<1> QED BY <1>1, <1>2 DEF Calm, TypeInv, TypeOK

LEMMA NoLoss ==
  ASSUME Calm, NEW p \in Procs, Step(p), ~Loses(p)
  PROVE  /\ rows'["child"][SessionOf[p]] = rows["child"][SessionOf[p]]
         /\ rows["parent"][SessionOf[p]] \subseteq rows'["parent"][SessionOf[p]]
         /\ ~CopyFeature(p) => rows'["parent"][SessionOf[p]] = rows["parent"][SessionOf[p]]
BY OwnRows

LEMMA Losers ==
  ASSUME NEW p \in Procs, pc[p] \notin Thinning \cup {"remove", "releaseChild", "releaseParent"}
  PROVE  ~Loses(p)
BY DEF Loses, Thin, RemoveRow, ReleaseChild, ReleaseParent, At, Thinning

LEMMA OwnTodo == ASSUME Calm, Usual', NEW p \in Procs, Step(p) PROVE Todo(p)'
<1> DEFINE s == SessionOf[p]
           Elsewhere == Counting \cup {"incChild", "sleep"} \cup (Late \ Middle)
<1>0. /\ TypeInv /\ ControlTypes /\ Move(p) /\ Todo(p)
      BY ControlTyped, Moves DEF Calm, TypeInv, Carried, CallInv
<1> USE DEF At, Middle, Done, Thinning
<1>1. ASSUME pc'[p] \in Middle
      PROVE  pc[p] \in {"softenChild"} \cup Middle /\ SameStates(call'[p], call[p])
             /\ ~Fail(p) /\ ~Crash(p)
  <2>1. ~Fail(p) /\ ~Crash(p)
        BY <1>0, <1>1 DEF Fail, Crash, Goto, ControlTypes
  <2>2. pc[p] \in {"softenChild"} \cup Middle
        BY <1>0, <1>1, <2>1 DEF Move, Goes
  <2> QED BY <1>0, <1>1, <2>1, <2>2, CallsKept
<1>2. ASSUME pc'[p] \in {"apply"} \cup Done
      PROVE  /\ call'[p].dir = call[p].dir /\ pc[p] \in Middle
             /\ \/ ReadDifferences(p) \/ PassOver(p) \/ RemoveRow(p)
                \/ Leave(p) \/ Writes(p) \/ WriteConflict(p)
  <2>1. \/ ReadDifferences(p) \/ PassOver(p) \/ RemoveRow(p)
        \/ Leave(p) \/ Writes(p) \/ WriteConflict(p)
        BY <1>0, <1>1, <1>2 DEF Move, Goes
  <2>2. call'[p].dir = call[p].dir
        BY <1>0, <2>1, StepOther
  <2>3. pc[p] \in Middle
        BY <1>0, <1>1, <1>2 DEF Move, Goes
  <2> QED BY <2>1, <2>2, <2>3
<1>3. ASSUME pc'[p] \in {"apply"} \cup Done, call[p].dir = "checkin" PROVE call'[p].todo = ChildRows(p)'
  <2>0. SameStates(call'[p], call[p]) /\ From(p) = "child"
        BY <1>1, <1>3, Directions
  <2>1. CASE ReadDifferences(p)
    <3>1. call'[p].todo = ChildRows(p)
          BY <1>0, <2>0, <2>1, StepTodo DEF ChildRows, StateOf, PassOver, RemoveRow, ReadDifferences, IsApplying
    <3>2. ~Loses(p)
          BY <2>1, Losers DEF ReadDifferences
    <3> QED BY <2>0, <3>1, <3>2, NoLoss, CarriedRows
  <2>2. CASE PassOver(p)
        BY <1>3, <2>2, NothingPassedOver
  <2>3. CASE RemoveRow(p)
    <3>1. call'[p].todo = call[p].todo \ {Current(p)}
          BY <1>0, <2>3, StepTodo DEF ReadDifferences, RemoveRow
    <3>2. call[p].todo = ChildRows(p)
          BY <1>0, <1>3, <2>3 DEF Todo, RemoveRow
    <3>3. ChildRows(p)' = ChildRows(p) \ {Current(p)}
          BY <2>0, <2>3, RemovedRow DEF ChildRows, UpTo, SameStates
    <3> QED BY <3>1, <3>2, <3>3
  <2>4. CASE Leave(p) \/ Writes(p) \/ WriteConflict(p)
    <3>1. /\ call'[p].todo = call[p].todo /\ call'[p].other = call[p].other
          /\ At(p, "apply") \/ At(p, "conflict")
          BY <1>0, <2>4, StepOther
             DEF Leave, Writes, InsertFeature, CopyFeature, Copied, WriteConflict, ChangeFeature, IsWriting, IsApplying
    <3>2. ~Loses(p)
          BY <3>1, Losers
    <3> QED BY <1>0, <1>3, <2>0, <3>1, <3>2, NoLoss, CarriedRows DEF Todo
  <2> QED BY <1>2, <1>3, <2>1, <2>2, <2>3, <2>4
<1>4. ASSUME pc'[p] \in {"apply"} \cup Done, call[p].dir = "post"
      PROVE  call'[p].todo \subseteq ParentRows(p)' /\ call'[p].other = {}
  <2>0. SameStates(call'[p], call[p]) /\ From(p) = "parent" /\ To(p) = "child"
        BY <1>1, <1>4, Directions
  <2>1. CASE ReadDifferences(p)
    <3>1. call'[p].todo = ParentRows(p)
          BY <1>0, <2>0, <2>1, StepTodo DEF ParentRows, StateOf, PassOver, RemoveRow, ReadDifferences, IsApplying
    <3>2. ~Loses(p) /\ ~CopyFeature(p)
          BY <2>1, Losers DEF ReadDifferences, CopyFeature, Copied, IsWriting, IsApplying
    <3>3. call'[p].other = ChildRows(p) /\ ChildRows(p) = {}
          BY <1>0, <1>4, <2>0, <2>1, StepOther DEF ChildRows, StateOf, Todo, ReadDifferences
    <3> QED BY <2>0, <3>1, <3>2, <3>3, NoLoss, CarriedRows
  <2>2. CASE PassOver(p)
    <3>1. /\ call'[p].todo \subseteq call[p].todo /\ call'[p].other = call[p].other /\ At(p, "apply")
          BY <1>0, <2>2, StepTodo, StepOther DEF PassOver, IsApplying, ReadDifferences, RemoveRow
    <3>2. ~Loses(p) /\ ~CopyFeature(p)
          BY <1>4, <3>1, Losers, PostTakes
    <3> QED BY <1>0, <1>4, <2>0, <3>1, <3>2, NoLoss, CarriedRows DEF Todo
  <2>3. CASE RemoveRow(p)
    <3>1. /\ call'[p].todo = call[p].todo \ {Current(p)} /\ call'[p].other = call[p].other /\ At(p, "remove")
          BY <1>0, <2>3, StepTodo, StepOther DEF ReadDifferences, RemoveRow
    <3>2. ParentRows(p)' = ParentRows(p) \ {Current(p)}
          BY <2>0, <2>3, RemovedRow DEF ParentRows, UpTo, SameStates
    <3> QED BY <1>0, <1>4, <3>1, <3>2 DEF Todo
  <2>4. CASE Leave(p) \/ Writes(p) \/ WriteConflict(p)
    <3>1. /\ call'[p].todo = call[p].todo /\ call'[p].other = call[p].other
          /\ At(p, "apply") \/ At(p, "conflict")
          BY <1>0, <2>4, StepOther
             DEF Leave, Writes, InsertFeature, CopyFeature, Copied, WriteConflict, ChangeFeature, IsWriting, IsApplying
    <3>2. ~Loses(p) /\ ~CopyFeature(p)
          BY <1>4, <3>1, Losers, PostTakes DEF CopyFeature, Copied, IsWriting, IsApplying
    <3> QED BY <1>0, <1>4, <2>0, <3>1, <3>2, NoLoss, CarriedRows DEF Todo
  <2> QED BY <1>2, <1>4, <2>1, <2>2, <2>3, <2>4
<1>5. ASSUME pc'[p] \in Middle, call'[p].dir = "post"
      PROVE  ChildRows(p)' = {} /\ call'[p].type = "Reconcile"
  <2>1. SameStates(call'[p], call[p]) /\ pc[p] \in {"softenChild"} \cup Middle
        BY <1>1, <1>5
  <2>2. CASE call[p].dir = "post"
    <3>1. pc[p] \in Middle
          BY <1>0, <2>1, <2>2 DEF Todo, Late, Carrying
    <3>2. ChildRows(p) = {} /\ call[p].type = "Reconcile"
          BY <1>0, <2>2, <3>1 DEF Todo
    <3>3. ChildRows(p)' \subseteq ChildRows(p)
          BY <1>5, <2>1, OwnCarried DEF Late, Carrying
    <3> QED BY <2>1, <3>2, <3>3 DEF SameStates
  <2>3. CASE call[p].dir # "post"
    <3>1. EndCheckIn(p) /\ call[p].dir = "checkin"
          BY <1>0, <1>5, <2>1, <2>3, CallsKept
    <3>2. call[p].todo = {} /\ At(p, "apply")
          BY <3>1 DEF EndCheckIn
    <3>3. ChildRows(p) = {}
          BY <1>0, <3>1, <3>2 DEF Todo
    <3>4. ~Loses(p)
          BY <3>2, Losers
    <3>5. call[p].type = "Reconcile"
          BY <1>0, <1>5, <3>1, StepOther
    <3> QED BY <2>1, <3>3, <3>4, <3>5, NoLoss, CarriedRows DEF SameStates
  <2> QED BY <2>2, <2>3
<1>6. ASSUME pc'[p] \in Elsewhere
      PROVE  call'[p].dir = "checkin" /\ (At(p, "releaseChild")' => ChildRows(p)' = {})
  <2>1. CASE At(p, "idle")
    <3>1. pc'[p] \in {"checkOthers", "removeChildLocks"}
          BY <1>0, <2>1, <1>6 DEF Move, Goes, Cleaning, Fail, Elsewhere, Counting, Late, Carrying
    <3> QED BY <1>0, <2>1, <3>1, CallsKept DEF NoCall
  <2>2. CASE ~At(p, "idle") /\ ~EndCheckIn(p)
    <3>1. pc[p] \in Elsewhere /\ pc'[p] # "releaseChild"
          BY <1>0, <1>6, <2>2 DEF Move, Goes, Cleaning, Fail, Crash, Elsewhere, Counting, Late, Carrying
    <3>2. call[p].dir = "checkin"
          BY <1>0, <3>1 DEF Todo, Elsewhere
    <3>3. call'[p].dir = call[p].dir
          BY <1>0, <1>6, <2>2, CallsKept DEF Elsewhere, Counting, Late, Carrying
    <3> QED BY <3>1, <3>2, <3>3
  <2>3. CASE EndCheckIn(p)
    <3>1. /\ call[p].type = "CheckinAndRelease" /\ call'[p].dir = call[p].dir
          /\ At(p, "apply") /\ call[p].todo = {}
          BY <1>0, <1>6, <2>3, StepOther DEF EndCheckIn, Elsewhere, Counting, Late, Carrying
    <3>2. call[p].dir = "checkin"
          BY <1>0, <3>1, Directions DEF Todo
    <3>3. ChildRows(p) = {}
          BY <1>0, <3>1, <3>2 DEF Todo
    <3>4. SameStates(call'[p], call[p])
          BY <1>0, <1>6, <3>1, CallsKept DEF Elsewhere, Counting, Late, Carrying
    <3>5. ~Loses(p)
          BY <3>1, Losers
    <3> QED BY <3>1, <3>2, <3>3, <3>4, <3>5, NoLoss, CarriedRows
  <2> QED BY <2>1, <2>2, <2>3
<1>7. call'[p].dir = call[p].dir => call'[p].dir = "checkin" \/ call[p].dir = "post"
      BY Directions
<1>8. pc'[p] \in {"apply"} \cup Done =>
        IF call'[p].dir = "checkin" THEN call'[p].todo = ChildRows(p)'
        ELSE call'[p].todo \subseteq ParentRows(p)' /\ call'[p].other = {}
      BY <1>2, <1>3, <1>4, <1>7
<1>9. At(p, "releaseChild")' => pc'[p] \in Elsewhere
      BY DEF Late
<1>10. ASSUME pc'[p] = "conflict" PROVE call'[p].dir = "checkin"
  <2>1. CopyFeature(p) /\ pc[p] = "apply"
        BY <1>0, <1>1, <1>10 DEF Move, Goes
  <2>2. call'[p].dir = call[p].dir
        BY <1>2, <1>10
  <2> QED BY <2>1, <2>2, PostTakes, Directions
<1> QED BY <1>5, <1>6, <1>8, <1>9, <1>10 DEF Todo

------------------------------------------------------------------------------
(* While a call carries it takes locks away only with the row at hand.      *)
LEMMA LocksStay ==
  ASSUME Calm, Usual', NEW p \in Procs, Step(p), pc'[p] \in Carrying,
         NEW d \in Dbs, NEW l \in locks[d], l \notin locks'[d]
  PROVE  /\ RemoveRow(p) /\ l.id = Current(p).id
         /\ (d = FromDb(p) /\ l.lock = 0) \/ (d = ToDb(p) /\ l.lock = 1)
<1> DEFINE s == SessionOf[p]
<1>0. /\ Frame(p) /\ locks \in [Dbs -> SUBSET ObjectLock] /\ ControlTypes
      /\ s \in Dbs /\ "parent" \in Dbs /\ FromDb(p) \in Dbs /\ ToDb(p) \in Dbs
      BY Frames, Places, ControlTyped DEF Calm, TypeInv, TypeOK, Dbs
<1>1. ~ReleaseChild(p) /\ ~InsertCheckoutLocks(p) /\ ~RemoveLocks(p)
      BY <1>0 DEF ReleaseChild, InsertCheckoutLocks, RemoveLocks, Goto, Carrying, ControlTypes
<1>2. ~LockObjects(p)
  <2>1. ASSUME NEW any \in Dbs, NEW more, locks' = [locks EXCEPT ![any] = locks[any] \cup more] PROVE FALSE
        BY <1>0, <2>1
  <2>2. ASSUME NEW any \in Dbs, NEW more, NEW yet, locks' = [locks EXCEPT ![any] = locks[any] \cup more \cup yet]
        PROVE  FALSE
    <3>1. locks[any] \cup more \cup yet = locks[any] \cup (more \cup yet)
          OBVIOUS
    <3> QED BY <2>1, <2>2, <3>1
  <2> QED BY <1>0, <2>2 DEF LockObjects, Added
<1>3. RemoveRow(p)
      BY <1>0, <1>1, <1>2 DEF Frame, ChangesLocks
<1>4. \/ d = FromDb(p) /\ l = Lock(Current(p).id, 0, s, Current(p).state)
      \/ d = ToDb(p) /\ l = Lock(Current(p).id, 1, s, StateOf(p, To(p)))
  <2> DEFINE less == locks[FromDb(p)] \ {Lock(Current(p).id, 0, s, Current(p).state)}
             rest == [locks EXCEPT ![FromDb(p)] = less]
             fewer == locks[ToDb(p)] \ {Lock(Current(p).id, 1, s, StateOf(p, To(p)))}
  <2>1. locks' = [rest EXCEPT ![ToDb(p)] = fewer]
        BY <1>3, Removal
  <2>2. d # FromDb(p) => rest[d] = locks[d]
        BY <1>0
  <2>3. d = FromDb(p) => rest[d] = less
        BY <1>0
  <2>4. DOMAIN rest = Dbs
        BY <1>0
  <2>5. IF d = ToDb(p) THEN locks'[d] = fewer ELSE locks'[d] = rest[d]
    <3> HIDE DEF rest, fewer
    <3> QED BY <1>0, <2>1, <2>4
  <2>6. CASE d = ToDb(p)
        BY <2>5, <2>6
  <2>7. CASE d # ToDb(p)
        BY <2>2, <2>3, <2>5, <2>7
  <2> QED BY <2>6, <2>7
<1> QED BY <1>3, <1>4 DEF Lock

(* The rows still to be carried are of other objects than the one removed.  *)
LEMMA OtherObjects ==
  ASSUME Calm, Usual', NEW p \in Procs, Step(p), RemoveRow(p)
  PROVE  /\ \A r \in ChildRows(p)' : call[p].dir = "checkin" /\ r.id # Current(p).id
         /\ \A r \in ParentCarried(p)' : call[p].dir = "post" => r.id # Current(p).id
<1>0. /\ TypeInv /\ ControlTypes /\ Unique(p) /\ Todo(p) /\ At(p, "remove") /\ pc'[p] = "apply"
      /\ Current(p) \in call[p].todo
      BY ControlTyped, Applying
         DEF Calm, TypeInv, Carried, CallInv, RemoveRow, Goto, ControlTypes, At
<1>1. /\ SameStates(call'[p], call[p]) /\ ChildRows(p)' \subseteq ChildRows(p)
      /\ \A r \in ParentRows(p)' : r \in ParentRows(p)
  <2>1. ~CopyFeature(p)
        BY <1>0 DEF CopyFeature, Copied, IsWriting, IsApplying, At
  <2>2. pc[p] \in Attentive \cup Late /\ pc'[p] \in Attentive \cup Late
        BY <1>0 DEF At, Attentive, Carrying, Late
  <2>3. /\ SameStates(call'[p], call[p]) /\ ChildRows(p)' \subseteq ChildRows(p)
        /\ \A r \in ParentRows(p)' : r \in ParentRows(p) \/ (CopyFeature(p) /\ r.id = lastId')
        BY <2>2, OwnCarried
  <2> QED BY <2>1, <2>3
<1>2. ASSUME NEW r \in ChildRows(p)' PROVE call[p].dir = "checkin" /\ r.id # Current(p).id
  <2>1. call[p].dir = "checkin"
        BY <1>0, <1>1, <1>2, Directions DEF Todo, At, Done, Middle
  <2>2. Current(p) \in ChildRows(p)
        BY <1>0, <2>1 DEF Todo, At, Done
  <2>3. r # Current(p)
        BY <1>2, <2>1, RemovedRow, Directions DEF ChildRows, UpTo
  <2> QED BY <1>0, <1>1, <1>2, <2>1, <2>2, <2>3 DEF Unique, At, Carrying, Thinning
<1>3. ASSUME NEW r \in ParentCarried(p)', call[p].dir = "post" PROVE r.id # Current(p).id
  <2>1. Current(p) \in ParentRows(p)
        BY <1>0, <1>3 DEF Todo, At, Done
  <2>2. r \in ParentRows(p)' /\ r \in ParentRows(p)
        BY <1>1, <1>3 DEF ParentCarried
  <2>3. r # Current(p)
        BY <1>3, <2>2, RemovedRow, Directions DEF ParentRows, UpTo
  <2> QED BY <1>0, <2>1, <2>2, <2>3 DEF Unique, At, Carrying, Thinning
<1> QED BY <1>2, <1>3

(* A copy stays what it is until it is posted itself.                       *)
LEMMA CopyStays ==
  ASSUME Calm, Usual', NEW p \in Procs, Step(p), pc[p] \in Carrying, pc'[p] \in Carrying,
         NEW r \in ParentCarried(p)', r \in ParentCarried(p), IsCopy(p, r.id), Unique(p)
  PROVE  IsCopy(p, r.id)' /\ r.id \in Ids
<1> DEFINE s == SessionOf[p]
<1>0. /\ TypeInv /\ s \in Dbs /\ s # "parent" /\ s \in Sessions /\ terms' = terms
      /\ conflicts["parent"] \subseteq conflicts'["parent"] /\ "parent" \in Dbs
      /\ conflicts \in [Dbs -> SUBSET [id : Ids, copy : Ids]] /\ Todo(p)
      BY Places, SessionAssumption, Frames, ConflictsTyped DEF Calm, TypeInv, TypeOK, Dbs, Frame, Carried, CallInv
<1>1. r.id \in Ids /\ r \in ParentRows(p)
      BY <1>0 DEF ParentCarried, ParentRows, UpTo, TypeInv, TypeOK, Sides, Difference
<1>2. features'[s][r.id] = features[s][r.id]
  <2>1. SUFFICES ASSUME Writes(p), s = ToDb(p), r.id = IF CopyFeature(p) THEN lastId' ELSE Current(p).id
                 PROVE  FALSE
        BY <1>0, <1>1, StepValues
  <2>2. /\ At(p, "apply") /\ Current(p) \in call[p].todo /\ ~WriteConflict(p) /\ ~RemoveRow(p)
    <3>1. Writes(p) => At(p, "apply")
          BY DEF Writes, InsertFeature, CopyFeature, Copied, ChangeFeature, IsWriting, IsApplying
    <3> QED BY <1>0, <2>1, <3>1, Applying DEF WriteConflict, RemoveRow, At
  <2>3. call[p].dir = "post"
        BY <1>0, <2>1, Directions
  <2>4. r.id = Current(p).id /\ ~CopyFeature(p) /\ call' = call
        BY <1>0, <2>1, <2>2, <2>3, PostTakes, StepOther
  <2>5. Current(p) \in ParentRows(p)
        BY <1>0, <2>2, <2>3 DEF Todo, At
  <2>6. r = Current(p)
        BY <1>1, <2>2, <2>4, <2>5 DEF Unique, At, Carrying, Thinning
  <2>7. At(p, "remove")'
        BY <2>1, <2>4, ControlTyped
           DEF Writes, InsertFeature, ChangeFeature, Applied, Goto, At, Calm, TypeInv, ControlTypes
  <2>8. Current(p)' = Current(p)
        BY <2>4 DEF Current
  <2>9. r \notin AtHand(p)'
        BY DEF ParentCarried
  <2> QED BY <2>3, <2>4, <2>6, <2>7, <2>8, <2>9 DEF AtHand
<1>3. ASSUME At(p, "conflict") PROVE \E c \in conflicts'["parent"] : call[p].copy = c.copy
  <2>1. WriteConflict(p)
        BY <1>0, <1>3, ControlTyped, Moves
           DEF Move, Goes, At, Carrying, Fail, Crash, Goto, ControlTypes, TypeInv
  <2>2. ToDb(p) = "parent"
        BY <1>0, <1>3, Directions DEF Todo
  <2>3. AddConflict(p, call[p].copy)
        BY <2>1 DEF WriteConflict
  <2>4. [id |-> Current(p).id, copy |-> call[p].copy] \in conflicts'["parent"]
        BY <1>0, <2>2, <2>3, ConflictWritten
  <2> QED BY <2>4
<1> QED BY <1>0, <1>1, <1>2, <1>3 DEF IsCopy

LEMMA CopyMade ==
  ASSUME Calm, NEW p \in Procs, Step(p), CopyFeature(p), NEW id, id = lastId'
  PROVE  IsCopy(p, id)'
<1> DEFINE s == SessionOf[p]
<1>0. /\ TypeInv /\ ControlTypes /\ s \in Dbs /\ s # "parent" /\ At(p, "apply") /\ terms' = terms
      BY Places, SessionAssumption, Frames, ControlTyped
         DEF Calm, TypeInv, TypeOK, Dbs, Frame, CopyFeature, Copied, IsWriting, IsApplying
<1>1. ToDb(p) = "parent"
      BY <1>0, Directions, PostTakes
<1>2. features'[s][id] = <<>>
      BY <1>0, <1>1, FreshIds, StepValues
<1>3. terms.handling \in {"NONE", "NORMAL"}
      BY <1>0, TermsAssumption DEF CopyFeature, Copied, Verdict, TypeInv, TypeOK, Handlings
<1>4. terms.handling = "NORMAL" => At(p, "conflict")' /\ id = call'[p].copy
  <2>1. terms.handling = "NORMAL" => pc'[p] = "conflict"
        BY <1>0 DEF CopyFeature, Copied, Goto, ControlTypes
  <2> QED BY <1>0, <2>1, CopiesKept DEF At
<1> QED BY <1>0, <1>2, <1>3, <1>4 DEF IsCopy

LEMMA OwnLocked == ASSUME Calm, Usual', NEW p \in Procs, Step(p) PROVE Locked(p)'
<1> DEFINE s == SessionOf[p]
           InChild == Carrying \ (Thinning \cup {"lockChildObjects"})
           InParent == InChild \ {"lockParentObjects"}
<1>0. /\ TypeInv /\ ControlTypes /\ Locked(p) /\ Counted(p) /\ Unique(p)
      /\ s \in Dbs /\ s \in Sessions /\ s # "parent" /\ "parent" \in Dbs
      /\ locks \in [Dbs -> SUBSET ObjectLock]
      BY ControlTyped, Places, SessionAssumption DEF Calm, TypeInv, TypeOK, Dbs, Carried, CallInv
<1>1. SUFFICES ASSUME pc'[p] \in InChild
               PROVE  /\ \A r \in ChildRows(p)' : Lock(r.id, 0, s, r.state) \in locks'[s]
                      /\ \A r \in ParentCarried(p)' :
                           Lock(r.id, 1, s, call'[p].childState) \in locks'[s] \/ IsCopy(p, r.id)'
                      /\ pc'[p] \in InParent =>
                           /\ \A r \in ChildRows(p)' : Lock(r.id, 1, s, call'[p].childState) \in locks'["parent"]
                           /\ \A r \in ParentCarried(p)' :
                                Lock(r.id, 0, s, r.state) \in locks'["parent"] \/ IsCopy(p, r.id)'
  <2> HIDE DEF s
  <2> QED BY DEF Locked, s
<1>2. /\ pc[p] \in Carrying \ Thinning /\ call'[p].childState = call[p].childState
      /\ ~LockObjects(p) => pc[p] \in InChild /\ (pc'[p] \in InParent => pc[p] \in InParent)
      /\ At(p, "lockChildObjects") => pc'[p] = "lockParentObjects"
      /\ LockObjects(p) => call' = call /\ rows' = rows
  <2>1. Move(p) /\ ~Fail(p) /\ ~Crash(p)
        BY <1>0, <1>1, Moves DEF Fail, Crash, Goto, ControlTypes, Carrying
  <2>2. /\ pc[p] \in Carrying \ Thinning
        /\ ~LockObjects(p) => pc[p] \in InChild /\ (pc'[p] \in InParent => pc[p] \in InParent)
        /\ At(p, "lockChildObjects") => pc'[p] = "lockParentObjects"
        BY <1>1, <2>1 DEF Move, Goes, At, Carrying, Thinning
  <2>3. SameStates(call'[p], call[p])
        BY <1>0, <1>1, <2>2, CallsKept DEF At, Carrying
  <2> QED BY <2>2, <2>3 DEF SameStates, LockObjects, data, env
<1>3. /\ ChildRows(p)' \subseteq ChildRows(p)
      /\ \A r \in ParentCarried(p)' : r \in ParentCarried(p) \/ (CopyFeature(p) /\ r.id = lastId')
      BY <1>1, <1>2, OwnCarried DEF Attentive, Late, Carrying, Thinning
(* Locks of the stages before are still there. *)
<1>4. ASSUME NEW d \in {s, "parent"}, NEW r \in ChildRows(p)', NEW lock \in {0, 1}, NEW state,
             Lock(r.id, lock, s, state) \in locks[d]
      PROVE  Lock(r.id, lock, s, state) \in locks'[d]
  <2>1. SUFFICES ASSUME Lock(r.id, lock, s, state) \notin locks'[d] PROVE FALSE
        OBVIOUS
  <2>2. RemoveRow(p) /\ r.id = Current(p).id
        BY <1>0, <1>1, <1>4, <2>1, LocksStay DEF Lock
  <2> QED BY <2>2, OtherObjects
<1>5. ASSUME NEW d \in {s, "parent"}, NEW r \in ParentCarried(p)', NEW lock \in {0, 1}, NEW state,
             lock = IF d = s THEN 1 ELSE 0,
             Lock(r.id, lock, s, state) \in locks[d]
      PROVE  Lock(r.id, lock, s, state) \in locks'[d]
  <2>1. SUFFICES ASSUME Lock(r.id, lock, s, state) \notin locks'[d] PROVE FALSE
        OBVIOUS
  <2>2. /\ RemoveRow(p) /\ r.id = Current(p).id
        /\ (d = FromDb(p) /\ lock = 0) \/ (d = ToDb(p) /\ lock = 1)
        BY <1>0, <1>1, <1>5, <2>1, LocksStay DEF Lock
  <2>3. call[p].dir = "post"
        BY <1>0, <1>5, <2>2, Directions
  <2> QED BY <2>2, <2>3, OtherObjects
<1>6. ASSUME NEW r \in ParentCarried(p)', CopyFeature(p), r.id = lastId' PROVE IsCopy(p, r.id)'
      BY <1>6, CopyMade
<1>7. ASSUME NEW r \in ParentCarried(p)', r \in ParentCarried(p), IsCopy(p, r.id) PROVE IsCopy(p, r.id)'
      BY <1>0, <1>1, <1>2, <1>7, CopyStays
<1>8. ASSUME pc[p] \in InChild
      PROVE  /\ \A r \in ChildRows(p)' : Lock(r.id, 0, s, r.state) \in locks'[s]
             /\ \A r \in ParentCarried(p)' :
                  Lock(r.id, 1, s, call'[p].childState) \in locks'[s] \/ IsCopy(p, r.id)'
  <2>1. ASSUME NEW r \in ChildRows(p)' PROVE Lock(r.id, 0, s, r.state) \in locks'[s]
        BY <1>0, <1>3, <1>4, <1>8, <2>1 DEF Locked
  <2>2. ASSUME NEW r \in ParentCarried(p)', ~IsCopy(p, r.id)'
        PROVE  Lock(r.id, 1, s, call'[p].childState) \in locks'[s]
    <3>1. r \in ParentCarried(p) /\ ~IsCopy(p, r.id)
          BY <1>3, <1>6, <1>7, <2>2
    <3>2. Lock(r.id, 1, s, call[p].childState) \in locks[s]
          BY <1>0, <1>8, <3>1 DEF Locked
    <3> QED BY <1>2, <1>5, <3>2
  <2> QED BY <2>1, <2>2
<1>9. ASSUME pc[p] \in InParent
      PROVE  /\ \A r \in ChildRows(p)' : Lock(r.id, 1, s, call'[p].childState) \in locks'["parent"]
             /\ \A r \in ParentCarried(p)' :
                  Lock(r.id, 0, s, r.state) \in locks'["parent"] \/ IsCopy(p, r.id)'
  <2>1. ASSUME NEW r \in ChildRows(p)' PROVE Lock(r.id, 1, s, call'[p].childState) \in locks'["parent"]
        BY <1>0, <1>2, <1>3, <1>4, <1>9, <2>1 DEF Locked
  <2>2. ASSUME NEW r \in ParentCarried(p)', ~IsCopy(p, r.id)'
        PROVE  Lock(r.id, 0, s, r.state) \in locks'["parent"]
    <3>1. r \in ParentCarried(p) /\ ~IsCopy(p, r.id)
          BY <1>3, <1>6, <1>7, <2>2
    <3>2. Lock(r.id, 0, s, r.state) \in locks["parent"]
          BY <1>0, <1>9, <3>1 DEF Locked
    <3> QED BY <1>0, <1>5, <3>2
  <2> QED BY <2>1, <2>2
(* The locks are new. *)
<1>10. ASSUME At(p, "lockChildObjects")
       PROVE  /\ \A r \in ChildRows(p)' : Lock(r.id, 0, s, r.state) \in locks'[s]
              /\ \A r \in ParentCarried(p)' : Lock(r.id, 1, s, call'[p].childState) \in locks'[s]
  <2> DEFINE own == {Lock(r.id, 0, s, r.state) : r \in ChildRows(p)}
             theirs == {Lock(r.id, 1, s, call[p].childState) : r \in ParentRows(p)}
  <2>1. LockObjects(p)
        BY <1>2, <1>10 DEF At
  <2>2. locks' = [locks EXCEPT ![s] = locks[s] \cup own \cup theirs]
        BY <1>10, <2>1, Locking DEF At, ChildRows, ParentRows, StateOf
  <2>3. own \subseteq locks'[s] /\ theirs \subseteq locks'[s]
    <3> HIDE DEF own, theirs, s
    <3> QED BY <1>0, <2>2
  <2>4. ~CopyFeature(p)
        BY <1>10 DEF CopyFeature, Copied, IsWriting, IsApplying, At
  <2> QED BY <1>2, <1>3, <2>3, <2>4 DEF ParentCarried
<1>11. ASSUME At(p, "lockParentObjects"), pc'[p] \in InParent
       PROVE  /\ \A r \in ChildRows(p)' : Lock(r.id, 1, s, call'[p].childState) \in locks'["parent"]
              /\ \A r \in ParentCarried(p)' : Lock(r.id, 0, s, r.state) \in locks'["parent"]
  <2> DEFINE own == {Lock(r.id, 0, s, r.state) : r \in ParentRows(p)}
             theirs == {Lock(r.id, 1, s, call[p].childState) : r \in UpTo(rows["child"][s], call[p].parentState)}
  <2>1. LockObjects(p)
        BY <1>2, <1>11 DEF At
  <2>2. locks' = [locks EXCEPT !["parent"] =
                    locks["parent"] \cup (IF call[p].type = "Reconcile" THEN own ELSE {}) \cup theirs]
        BY <1>11, <2>1, Locking DEF At, ParentRows, StateOf
  <2>3. theirs \subseteq locks'["parent"] /\ (call[p].type = "Reconcile" => own \subseteq locks'["parent"])
    <3> HIDE DEF own, theirs, s
    <3> QED BY <1>0, <2>2
  <2>4. ~CopyFeature(p)
        BY <1>11 DEF CopyFeature, Copied, IsWriting, IsApplying, At
  <2>5. ChildRows(p) \subseteq UpTo(rows["child"][s], call[p].parentState)
    <3>1. call[p].childState <= call[p].parentState
          BY <1>0, <1>11 DEF Counted, At, Late, Carrying
    <3>2. /\ call[p].childState \in Nat /\ call[p].parentState \in Nat
          /\ \A r \in rows["child"][s] : r.state \in Nat
          BY <1>0, <1>11 DEF TypeInv, TypeOK, Reading, At, Sides, Difference
    <3> QED BY <3>1, <3>2 DEF ChildRows, UpTo
  <2>6. \A r \in ParentCarried(p)' : r \in ParentRows(p) /\ call[p].type = "Reconcile"
        BY <1>3, <2>4 DEF ParentCarried
  <2> QED BY <1>2, <1>3, <2>3, <2>5, <2>6
<1>12. CASE ~LockObjects(p)
       BY <1>2, <1>8, <1>9, <1>12
<1>13. CASE LockObjects(p)
  <2>1. At(p, "lockChildObjects") \/ (At(p, "lockParentObjects") /\ pc[p] \in InChild)
        BY <1>13 DEF LockObjects, At, Carrying, Thinning
  <2> QED BY <1>2, <1>8, <1>10, <1>11, <2>1 DEF At
<1> QED BY <1>12, <1>13

LEMMA OwnKept == ASSUME Calm, Usual', NEW p \in Procs, Step(p) PROVE CallInv(p)'
BY OwnCounted, OwnHard, OwnApart, OwnDrained, OwnUnique, OwnLocked, OwnTodo DEF CallInv

------------------------------------------------------------------------------
(* The sessions and the tables the calls start from.  A session that is     *)
(* over is never opened again.                                              *)
LEMMA SessionGrows ==
  ASSUME TypeInv, Usual', NEW p \in Procs, Step(p), NEW side \in Sides, NEW s \in Sessions,
         IsOpen(side, s)'
  PROVE  IsOpen(side, s) /\ session[side][s].state <= session'[side][s].state
<1>0. /\ session[side][s].state \in Nat /\ Without({"unnoticed"})' /\ ControlTypes
      BY ControlTyped DEF TypeInv, TypeOK, Session, Usual, Without
<1>1. CASE s = SessionOf[p]
      BY <1>0, <1>1, OwnSession DEF IsOpen
<1>2. CASE s # SessionOf[p]
  <2>1. session'[side][s] = session[side][s]
        BY <1>0, <1>2, StepsAlone DEF Alone
  <2> QED BY <1>0, <2>1 DEF IsOpen
<1> QED BY <1>1, <1>2

LEMMA AheadKept == ASSUME Calm, Usual', NEW p \in Procs, Step(p) PROVE Ahead'
<1>0. /\ TypeInv /\ Ahead /\ ControlTypes /\ Counted(p) /\ Without({"unnoticed"})'
      BY ControlTyped DEF Calm, Carried, CallInv, TypeInv, Usual, Without
<1>1. SUFFICES ASSUME NEW s \in Sessions, IsOpen("parent", s)', IsOpen("child", s)'
               PROVE  session'["child"][s].state <= session'["parent"][s].state
      BY DEF Ahead
<1>2. /\ session["child"][s].state <= session["parent"][s].state
      /\ session["child"][s].state \in Nat /\ session["parent"][s].state \in Nat
      BY <1>0, <1>1, SessionGrows DEF Sides, Ahead, ControlTypes, Session
<1>3. CASE s # SessionOf[p]
      BY <1>0, <1>2, <1>3, StepsAlone DEF Alone, Sides
<1>4. CASE s = SessionOf[p]
  <2>1. /\ ~Raises(p, "child") => session'["child"][s].state = session["child"][s].state
        /\ Raises(p, "child") => session'["child"][s].state = session["child"][s].state + 1
        /\ ~Raises(p, "parent") => session'["parent"][s].state = session["parent"][s].state
        /\ Raises(p, "parent") => session'["parent"][s].state = session["parent"][s].state + 1
        BY <1>0, <1>1, <1>4, OwnSession DEF IsOpen, Sides
  <2>2. CASE Raises(p, "child")
    <3>1. pc[p] = "incChild" /\ ~Raises(p, "parent")
          BY <2>2 DEF Raises
    <3>2. /\ session["parent"][s].state = call[p].parentState + 1
          /\ session["child"][s].state = call[p].childState /\ call[p].childState <= call[p].parentState
          /\ call[p].parentState \in Nat /\ call[p].childState \in Nat
          BY <1>0, <1>4, <3>1 DEF Counted, TypeInv, Reading, At
    <3> QED BY <2>1, <2>2, <3>1, <3>2
  <2> QED BY <1>2, <2>1, <2>2
<1> QED BY <1>3, <1>4

(* What is posted to a child is no difference for it.                       *)
LEMMA ChildRowsKept ==
  ASSUME Calm, NEW p \in Procs, Step(p), NEW s \in Sessions
  PROVE  \/ rows'["child"][s] = rows["child"][s]
         \/ Loses(p) /\ s = SessionOf[p] /\ rows'["child"][s] \subseteq rows["child"][s]
<1>1. CASE s = SessionOf[p]
      BY <1>1, OwnRows
<1>2. CASE s # SessionOf[p]
  <2>1. \A r \in Difference : ~Written(p, "child", s, r)
    <3>1. SUFFICES ASSUME To(p) = "child", s \in Watching(ToDb(p)) PROVE FALSE
          BY DEF Written
    <3>2. ToDb(p) = SessionOf[p] /\ SessionOf[p] # "parent"
          BY <3>1, Directions, Places, SessionAssumption
    <3> QED BY <1>2, <3>1, <3>2 DEF Watching
  <2>2. TypeInv
        BY DEF Calm
  <2> QED BY <1>2, <2>1, <2>2, StepRows DEF Sides
<1> QED BY <1>1, <1>2

LEMMA SeenKept == ASSUME Calm, Usual', [Next]_vars PROVE Seen'
<1>0. TypeInv /\ Seen
      BY DEF Calm, Carried
<1>1. ASSUME NEW d \in Dbs, NEW statement \in Statements, NEW id \in Ids, BeginEdit(d, statement, id)
      PROVE  Seen'
  <2> DEFINE new == [db |-> d, statement |-> statement, id |-> id, date |-> time',
                     states |-> [s \in Watching(d) |-> session[SideOf(d)][s].state]]
  <2>1. edits' = edits \cup {new} /\ session' = session
        BY <1>1 DEF BeginEdit
  <2>2. new.db = d /\ DOMAIN new.states = Watching(d)
        OBVIOUS
  <2> HIDE DEF new
  <2>3. \A any : Watching(any)' = Watching(any)
        BY <2>1 DEF Watching, IsOpen
  <2> QED BY <1>0, <2>1, <2>2, <2>3 DEF Seen
<1>2. CASE UNCHANGED vars \/ \E e \in edits : CommitEdit(e)
  <2>1. session' = session /\ edits' \subseteq edits
        BY <1>2 DEF CommitEdit, vars, env
  <2> QED BY <1>0, <2>1 DEF Seen, Watching, IsOpen
<1>3. ASSUME NEW p \in Procs, Step(p) PROVE Seen'
  <2>1. edits' = edits /\ \A e \in edits : SideOf(e.db) \in Sides
        BY <1>0, <1>3, Frames, SidesOfDbs DEF Frame, TypeInv, TypeOK, Transaction
  <2>2. \A e \in edits : \A s \in Sessions : IsOpen(SideOf(e.db), s)' => IsOpen(SideOf(e.db), s)
        BY <1>0, <1>3, <2>1, SessionGrows
  <2> QED BY <1>0, <2>1, <2>2 DEF Seen, Watching
<1> QED BY <1>1, <1>2, <1>3, Steps DEF Edit

LEMMA StatedKept == ASSUME Calm, Usual', [Next]_vars PROVE Stated'
<1>0. /\ TypeInv /\ Stated /\ Edits
      /\ \A e \in edits : e.db \in Dbs /\ SideOf(e.db) \in Sides /\ DOMAIN e.states \subseteq Sessions
      /\ \A e \in edits : \A s \in DOMAIN e.states : e.states[s] \in Nat
      BY SidesOfDbs DEF Calm, Carried, DataInv, TypeInv, TypeOK, Transaction
<1>1. ASSUME NEW d \in Dbs, NEW statement \in Statements, NEW id \in Ids, BeginEdit(d, statement, id)
      PROVE  Stated'
  <2> DEFINE states == [s \in Watching(d) |-> session[SideOf(d)][s].state]
             new == [db |-> d, statement |-> statement, id |-> id, date |-> time', states |-> states]
  <2>1. edits' = edits \cup {new} /\ session' = session /\ rows' = rows
        BY <1>1 DEF BeginEdit
  <2>2. /\ new.db = d /\ \A s \in DOMAIN new.states : new.states[s] = session[SideOf(d)][s].state
        /\ DOMAIN new.states \subseteq Sessions
        BY DEF Watching
  <2> HIDE DEF new
  <2>3. \A s \in Sessions : session[SideOf(d)][s].state \in Nat
        BY <1>0, SidesOfDbs DEF TypeInv, TypeOK, Session
  <2> QED BY <1>0, <2>1, <2>2, <2>3 DEF Stated, IsOpen
<1>2. ASSUME NEW e \in edits, CommitEdit(e) PROVE Stated'
  <2>1. session' = session /\ edits' \subseteq edits
        BY <1>2 DEF CommitEdit
  <2>2. ASSUME NEW s \in Sessions, IsOpen("child", s), NEW r \in rows'["child"][s]
        PROVE  r.state <= session["child"][s].state
    <3>1. CASE r \in rows["child"][s]
          BY <1>0, <2>2, <3>1 DEF Stated
    <3>2. CASE r \notin rows["child"][s]
      <4>1. SideOf(e.db) = "child" /\ s \in DOMAIN e.states /\ r.state = e.states[s]
            BY <1>0, <1>2, <3>2, CommitRows DEF Sides
      <4> QED BY <1>0, <2>2, <4>1 DEF Stated
    <3> QED BY <3>1, <3>2
  <2> QED BY <1>0, <2>1, <2>2 DEF Stated, IsOpen
<1>3. ASSUME NEW p \in Procs, Step(p) PROVE Stated'
  <2>1. edits' = edits
        BY <1>3, Frames DEF Frame
  <2>2. ASSUME NEW s \in Sessions, IsOpen("child", s)', NEW r \in rows'["child"][s]
        PROVE  r.state <= session'["child"][s].state
    <3>1. r \in rows["child"][s] /\ r.state \in Nat
          BY <1>0, <1>3, ChildRowsKept DEF TypeInv, TypeOK, Sides, Difference
    <3>2. /\ IsOpen("child", s) /\ session["child"][s].state <= session'["child"][s].state
          BY <1>0, <1>3, <2>2, SessionGrows DEF Sides
    <3>3. session["child"][s].state \in Nat /\ session'["child"][s].state \in Nat
          BY <1>0, <1>3, TypeInvKept DEF TypeInv, TypeOK, Sides, Session, Next, Step
    <3> QED BY <1>0, <3>1, <3>2, <3>3 DEF Stated
  <2>3. ASSUME NEW e \in edits, NEW s \in DOMAIN e.states, IsOpen(SideOf(e.db), s)'
        PROVE  e.states[s] <= session'[SideOf(e.db)][s].state
    <3>1. s \in Sessions /\ SideOf(e.db) \in Sides
          BY <1>0
    <3>2. /\ IsOpen(SideOf(e.db), s)
          /\ session[SideOf(e.db)][s].state <= session'[SideOf(e.db)][s].state
          BY <1>0, <1>3, <2>3, <3>1, SessionGrows
    <3>3. session[SideOf(e.db)][s].state \in Nat /\ session'[SideOf(e.db)][s].state \in Nat
          BY <1>0, <1>3, <3>1, TypeInvKept DEF TypeInv, TypeOK, Session, Next, Step
    <3>4. e.states[s] <= session[SideOf(e.db)][s].state /\ e.states[s] \in Nat
          BY <1>0, <3>2 DEF Stated
    <3> QED BY <3>2, <3>3, <3>4
  <2> QED BY <2>1, <2>2, <2>3 DEF Stated
<1>4. CASE UNCHANGED vars
      BY <1>0, <1>4 DEF Stated, IsOpen, vars, data, env
<1> QED BY <1>1, <1>2, <1>3, <1>4, Steps DEF Edit

(* What is posted touches no object that the child has a difference or a    *)
(* pending edit of.                                                         *)
LEMMA ChildUntouched ==
  ASSUME Calm, NEW p \in Procs, Step(p), NEW s \in Sessions, NEW i \in Ids,
         \/ \E r \in rows["child"][s] : r.id = i
         \/ \E e \in edits : e.db = s /\ e.id = i
  PROVE  features'[s][i] = features[s][i]
<1>0. TypeInv /\ s \in Dbs /\ s # "parent" /\ Apart(p) /\ Todo(p) /\ Drained(p)
      BY SessionAssumption DEF Calm, Carried, CallInv, Dbs
<1>1. SUFFICES ASSUME Writes(p), s = ToDb(p), i = IF CopyFeature(p) THEN lastId' ELSE Current(p).id
               PROVE  FALSE
      BY <1>0, StepValues
<1>2. At(p, "apply") /\ Current(p) \in call[p].todo
  <2>1. At(p, "apply")
        BY <1>1 DEF Writes, InsertFeature, CopyFeature, Copied, ChangeFeature, IsWriting, IsApplying
  <2>2. ~RemoveRow(p) /\ ~WriteConflict(p)
        BY <2>1 DEF RemoveRow, WriteConflict, At
  <2> QED BY <1>0, <1>1, <2>1, <2>2, Applying
<1>3. call[p].dir = "post" /\ SessionOf[p] = s
      BY <1>0, <1>1, Directions
<1>4. i = Current(p).id
      BY <1>1, <1>2, <1>3, PostTakes
<1>5. Current(p) \in ParentCarried(p) /\ ChildRows(p) = {}
      BY <1>0, <1>2, <1>3 DEF Todo, Middle, At, ParentCarried, AtHand
<1>6. IsOldId(p, i)
      BY <1>4, <1>5 DEF IsOldId
<1>7. IsNewId(p, i)
  <2>1. CASE \E r \in rows["child"][s] : r.id = i
    <3>1. PICK r \in rows["child"][s] : r.id = i
          BY <2>1
    <3>2. r.state \in Nat /\ call[p].childState \in Nat
          BY <1>0, <1>2 DEF TypeInv, TypeOK, Reading, At, Sides, Difference
    <3>3. r.state > call[p].childState
          BY <1>3, <1>5, <3>2 DEF ChildRows, UpTo
    <3> QED BY <1>3, <3>1, <3>3 DEF IsNewId
  <2>2. CASE \E e \in edits : e.db = s /\ e.id = i
        BY <1>0, <1>2, <1>3, <2>2 DEF IsNewId, Drained, Concerns, At, Late, Carrying
  <2> QED BY <2>1, <2>2
<1> QED BY <1>0, <1>2, <1>6, <1>7 DEF Apart, At, Carrying

LEMMA EditAliveKept == ASSUME Calm, [Next]_vars PROVE EditAlive'
<1>0. /\ TypeInv /\ EditAlive /\ Straight
      /\ \A e \in edits : e.db \in Dbs /\ e.id \in Ids
      BY DEF Calm, Carried, DataInv, TypeInv, TypeOK, Transaction
<1>1. ASSUME NEW d \in Dbs, NEW statement \in Statements, NEW id \in Ids, BeginEdit(d, statement, id)
      PROVE  EditAlive'
  <2> DEFINE new == [db |-> d, statement |-> statement, id |-> id, date |-> time',
                     states |-> [s \in Watching(d) |-> session[SideOf(d)][s].state]]
  <2>1. /\ edits' = edits \cup {new} /\ features' = features
        /\ statement # "INSERT" => features[d][id] # <<>>
        BY <1>1 DEF BeginEdit
  <2>2. new.db = d /\ new.id = id /\ new.statement = statement
        OBVIOUS
  <2> HIDE DEF new
  <2> QED BY <1>0, <2>1, <2>2 DEF EditAlive
<1>2. ASSUME NEW e \in edits, CommitEdit(e) PROVE EditAlive'
  <2>1. edits' = edits \ {e}
        BY <1>2 DEF CommitEdit
  <2>2. \A f \in edits' : ~(f.db = e.db /\ f.id = e.id)
        BY <1>0, <2>1 DEF Straight
  <2>3. \A f \in edits' : features'[f.db][f.id] = features[f.db][f.id]
        BY <1>0, <1>2, <2>1, <2>2, CommitValues
  <2> QED BY <1>0, <2>1, <2>3 DEF EditAlive
<1>3. ASSUME NEW p \in Procs, Step(p) PROVE EditAlive'
  <2>1. edits' = edits
        BY <1>3, Frames DEF Frame
  <2>2. \A e \in edits : e.db # "parent" => features'[e.db][e.id] = features[e.db][e.id]
        BY <1>0, <1>3, ChildUntouched DEF Dbs
  <2> QED BY <1>0, <2>1, <2>2 DEF EditAlive
<1>4. CASE UNCHANGED vars
      BY <1>0, <1>4 DEF EditAlive, vars, data, env
<1> QED BY <1>1, <1>2, <1>3, <1>4, Steps DEF Edit

LEMMA DatedKept == ASSUME Calm, [Next]_vars PROVE Dated'
<1>0. /\ TypeInv /\ Dated /\ Edits /\ Low /\ Straight
      /\ \A e \in edits : e.db \in Dbs /\ e.date \in Nat
      /\ \A s \in Sessions : Table(rows["child"][s]) /\ s # "parent"
      BY SessionAssumption DEF Calm, Carried, DataInv, TypeInv, TypeOK, Transaction, Tables, Sides
<1>1. ASSUME NEW d \in Dbs, NEW statement \in Statements, NEW id \in Ids, BeginEdit(d, statement, id)
      PROVE  Dated'
  <2> DEFINE new == [db |-> d, statement |-> statement, id |-> id, date |-> time',
                     states |-> [s \in Watching(d) |-> session[SideOf(d)][s].state]]
  <2>1. edits' = edits \cup {new} /\ rows' = rows /\ time' = time + 1 /\ time \in Nat
        BY <1>0, <1>1 DEF BeginEdit, TypeInv, TypeOK
  <2>2. new.db = d /\ new.date = time'
        OBVIOUS
  <2> HIDE DEF new
  <2>3. \A s \in Sessions : \A r \in rows["child"][s] : r.date <= time' /\ r.date \in Nat
        BY <1>0, <2>1 DEF Low, Table, Difference, Sides
  <2> QED BY <1>0, <2>1, <2>2, <2>3 DEF Dated
<1>2. ASSUME NEW e \in edits, CommitEdit(e) PROVE Dated'
  <2>1. edits' = edits \ {e}
        BY <1>2 DEF CommitEdit
  <2>2. ASSUME NEW s \in Sessions, e.db # s PROVE rows'["child"][s] = rows["child"][s]
    <3>1. ~("child" = SideOf(e.db) /\ s \in DOMAIN e.states)
          BY <1>0, <2>2 DEF Edits, SideOf
    <3> QED BY <1>0, <1>2, <3>1, CommitRows DEF Sides
  <2>3. ASSUME NEW s \in Sessions, e.db = s
        PROVE  /\ \A r, q \in rows'["child"][s] : r.id = q.id /\ r.n < q.n => r.date <= q.date
               /\ \A f \in edits' : f.db = s => \A r \in rows'["child"][s] : r.id = f.id => r.date <= f.date
    <3>1. "child" = SideOf(e.db) /\ s \in DOMAIN e.states
          BY <1>0, <2>3 DEF Edits, SideOf
    <3>2. PICK new \in Difference : /\ rows'["child"][s] = rows["child"][s] \cup {new}
                                    /\ new.n = NextN(rows["child"][s]) /\ new.date = e.date /\ new.id = e.id
          BY <1>0, <1>2, <3>1, CommitRows DEF Sides
    <3>3. \A r \in rows["child"][s] : r.n < new.n /\ r.n \in Nat /\ new.n \in Nat
          BY <1>0, <3>2, NextNumber DEF Table, Difference
    <3>4. \A r \in rows["child"][s] : r.id = new.id => r.date <= new.date
          BY <1>0, <2>3, <3>2 DEF Dated
    <3>5. new.date <= new.date
          BY DEF Difference
    <3>6. \A f \in edits' : f.db = s => f.id # new.id /\ f \in edits
          BY <1>0, <2>1, <2>3, <3>2 DEF Straight
    <3> QED BY <1>0, <3>2, <3>3, <3>4, <3>5, <3>6 DEF Dated
  <2>4. ASSUME NEW s \in Sessions
        PROVE  /\ \A r, q \in rows'["child"][s] : r.id = q.id /\ r.n < q.n => r.date <= q.date
               /\ \A f \in edits' : f.db = s => \A r \in rows'["child"][s] : r.id = f.id => r.date <= f.date
    <3>1. CASE e.db = s
          BY <2>3, <3>1
    <3>2. CASE e.db # s
          BY <1>0, <2>1, <2>2, <3>2 DEF Dated
    <3> QED BY <3>1, <3>2
  <2> QED BY <2>4 DEF Dated
<1>3. ASSUME NEW p \in Procs, Step(p) PROVE Dated'
  <2>1. edits' = edits /\ \A s \in Sessions : rows'["child"][s] \subseteq rows["child"][s]
        BY <1>3, Frames, ChildRowsKept DEF Frame
  <2> QED BY <1>0, <2>1 DEF Dated
<1>4. CASE UNCHANGED vars
      BY <1>0, <1>4 DEF Dated, vars, data, env
<1> QED BY <1>1, <1>2, <1>3, <1>4, Steps DEF Edit

(* Where thinning keeps a row that is no deletion, the last row of its      *)
(* object was none.                                                         *)
LEMMA ThinnedKeeps ==
  ASSUME NEW T, Table(T), IsFiniteSet(T), NEW state \in Nat,
         \A x, y \in T : x.n = y.n => x = y,
         \A x, y \in T : x.id = y.id /\ x.n < y.n => x.date <= y.date,
         NEW r \in Thinned(T, state), r.statement # "DELETE",
         \A q \in T : q.id = r.id => q.state <= state
  PROVE  \E m \in T : /\ m.id = r.id /\ m.statement # "DELETE"
                      /\ \A q \in T : q.id = r.id => q.n <= m.n
<1> DEFINE same == {x \in T : x.id = r.id}
           first == CHOOSE x \in same : \A o \in same \ {x} : Before(x, o)
           last == CHOOSE x \in same : \A o \in same \ {x} : Before(o, x)
           kept == IF first.statement = "INSERT" /\ last.statement = "UPDATE" THEN {first}
                   ELSE IF first.statement = "INSERT" /\ last.statement = "DELETE" THEN {}
                   ELSE {last}
           numbers == {x.n : x \in same}
<1>1. /\ r \in same /\ r.state <= state /\ r.state \in Nat /\ same \subseteq T
      /\ r.state > state \/ Cardinality(UpTo(same, state)) = 1 \/ r \in kept
      BY DEF Thinned, Table, Difference
<1>2. \A x \in same : x.n \in Nat /\ x.date \in Nat
      BY DEF Table, Difference
<1>3. PICK m \in same : \A q \in same : q.n <= m.n
  <2>1. PICK b \in Nat : \A x \in T : x.n <= b
        BY DEF Table
  <2>2. numbers \subseteq Nat /\ numbers # {} /\ \A x \in numbers : x <= b
    <3>1. r \in same /\ same \subseteq T
          BY <1>1
    <3> HIDE DEF same
    <3> QED BY <1>2, <2>1, <3>1
  <2>3. MaxOf(numbers) \in numbers /\ \A x \in numbers : x <= MaxOf(numbers)
    <3> HIDE DEF numbers
    <3> QED BY <2>2, GreatestOf
  <2> QED BY <2>3
<1>4. m \in T /\ m.id = r.id /\ \A q \in T : q.id = r.id => q.n <= m.n
      BY <1>3
<1>5. CASE Cardinality(UpTo(same, state)) = 1
  <2>1. UpTo(same, state) = same
        BY DEF UpTo
  <2>2. IsFiniteSet(same)
        BY FS_Subset
  <2> HIDE DEF same
  <2>3. m = r
        BY <1>1, <1>3, <1>5, <2>1, <2>2, FS_Singleton
  <2> QED BY <1>4, <2>3
<1>6. CASE r \in kept
  <2>1. \A o \in same \ {m} : Before(o, m)
    <3>1. SUFFICES ASSUME NEW o \in same \ {m} PROVE Before(o, m)
          OBVIOUS
    <3>2. o.n < m.n
          BY <1>2, <1>3, <1>4
    <3>3. o.date <= m.date
          BY <1>1, <3>2
    <3> QED BY <1>2, <3>2, <3>3 DEF Before
  <2>2. last \in same /\ \A o \in same \ {last} : Before(o, last)
    <3> HIDE DEF same
    <3> QED BY <2>1
  <2> HIDE DEF last
  <2>3. last = m
    <3>1. SUFFICES ASSUME last # m PROVE FALSE
          OBVIOUS
    <3>2. Before(m, last) /\ Before(last, m)
          BY <2>1, <2>2, <3>1
    <3> QED BY <1>2, <2>2, <3>2 DEF Before
  <2>4. r = last \/ last.statement = "UPDATE"
        BY <1>6
  <2> QED BY <1>4, <2>3, <2>4
<1> QED BY <1>1, <1>5, <1>6

LEMMA AliveKept == ASSUME Calm, Usual', [Next]_vars PROVE Alive'
<1>0. /\ TypeInv /\ Alive /\ EditAlive /\ Edits
      /\ \A e \in edits : e.db \in Dbs /\ e.id \in Ids /\ e.date \in Nat
      /\ \A s \in Sessions : /\ Table(rows["child"][s]) /\ s # "parent" /\ s \in Dbs
                             /\ \A r \in rows["child"][s] : r.id \in Ids /\ r.n \in Nat /\ r.state \in Nat
      BY SessionAssumption
         DEF Calm, Carried, DataInv, TypeInv, TypeOK, Transaction, Tables, Table, Sides, Dbs, Difference
<1> DEFINE LastOf(r, T) == r \in T /\ r.statement # "DELETE" /\ \A q \in T : q.id = r.id => q.n <= r.n
<1>1. SUFFICES ASSUME NEW s \in Sessions, NEW r \in rows'["child"][s], LastOf(r, rows'["child"][s])
               PROVE  features'[s][r.id] # <<>>
      BY DEF Alive
<1>2. LastOf(r, rows["child"][s]) => features[s][r.id] # <<>>
      BY <1>0 DEF Alive
<1>3. CASE UNCHANGED vars \/ \E d \in Dbs, statement \in Statements, id \in Ids : BeginEdit(d, statement, id)
  <2>1. rows' = rows /\ features' = features
        BY <1>3 DEF BeginEdit, vars, data
  <2> QED BY <1>1, <1>2, <2>1
<1>4. ASSUME NEW e \in edits, CommitEdit(e) PROVE features'[s][r.id] # <<>>
  <2>1. CASE e.db = s
    <3>1. "child" = SideOf(e.db) /\ s \in DOMAIN e.states
          BY <1>0, <2>1 DEF Edits, SideOf
    <3>2. PICK new \in Difference :
            /\ rows'["child"][s] = rows["child"][s] \cup {new}
            /\ new.n = NextN(rows["child"][s]) /\ new.id = e.id /\ new.statement = e.statement
          BY <1>0, <1>4, <3>1, CommitRows DEF Sides
    <3>3. \A q \in rows["child"][s] : q.n < new.n /\ new.n \in Nat
          BY <1>0, <3>2, NextNumber DEF Table, Difference
    <3>4. CASE r = new
      <4>1. features[s][r.id] \in Seq(Nat) /\ r.id = e.id /\ e.statement # "DELETE" /\ e.date \in Nat
            BY <1>0, <1>1, <3>2, <3>4 DEF TypeInv, TypeOK
      <4>2. e.statement # "INSERT" => features[s][r.id] # <<>>
            BY <1>0, <2>1, <4>1 DEF EditAlive
      <4>3. features'[s][r.id] = IF e.statement = "INSERT" THEN Append(features[s][r.id], e.date)
                                 ELSE (IF e.statement = "UPDATE" THEN <<e.date>> ELSE <<>>) \o Tail(features[s][r.id])
            BY <1>0, <1>4, <2>1, <4>1, <4>2, CommitValues
      <4>4. e.statement \in Statements
            BY <1>0 DEF TypeInv, TypeOK, Transaction
      <4>5. CASE e.statement = "INSERT"
        <5>1. Len(Append(features[s][r.id], e.date)) = Len(features[s][r.id]) + 1
              BY <4>1
        <5>2. Len(features[s][r.id]) \in Nat /\ Len(<<>>) = 0
              BY <4>1
        <5>3. features'[s][r.id] = Append(features[s][r.id], e.date)
              BY <4>3, <4>5
        <5> QED BY <5>1, <5>2, <5>3
      <4>6. CASE e.statement = "UPDATE"
        <5>1. Tail(features[s][r.id]) \in Seq(Nat) /\ <<e.date>> \in Seq(Nat)
              BY <4>1, <4>2, <4>6
        <5>2. /\ Len(<<e.date>> \o Tail(features[s][r.id])) = Len(<<e.date>>) + Len(Tail(features[s][r.id]))
              /\ Len(Tail(features[s][r.id])) \in Nat /\ Len(<<e.date>>) = 1 /\ Len(<<>>) = 0
              BY <5>1
        <5> QED BY <4>3, <4>6, <5>2
      <4> QED BY <4>1, <4>4, <4>5, <4>6 DEF Statements
    <3>5. CASE r # new
      <4>1. LastOf(r, rows["child"][s]) /\ r.id # e.id
            BY <1>0, <1>1, <3>2, <3>3, <3>5
      <4>2. r.id \in Ids /\ s \in Dbs /\ TypeInv
            BY <1>0, <4>1
      <4>3. features'[s][r.id] = features[s][r.id]
            BY <1>4, <4>1, <4>2, CommitValues
      <4> QED BY <1>2, <4>1, <4>3
    <3> QED BY <3>4, <3>5
  <2>2. CASE e.db # s
    <3>1. ~("child" = SideOf(e.db) /\ s \in DOMAIN e.states)
          BY <1>0, <2>2 DEF Edits, SideOf
    <3>2. rows'["child"][s] = rows["child"][s]
          BY <1>0, <1>4, <3>1, CommitRows DEF Sides
    <3>3. r.id \in Ids /\ s \in Dbs /\ TypeInv
          BY <1>0, <1>1, <3>2
    <3>4. features'[s][r.id] = features[s][r.id]
          BY <1>4, <2>2, <3>3, CommitValues
    <3> QED BY <1>1, <1>2, <3>2, <3>4
  <2> QED BY <2>1, <2>2
<1>5. ASSUME NEW p \in Procs, Step(p) PROVE features'[s][r.id] # <<>>
  <2>1. r \in rows["child"][s]
        BY <1>5, ChildRowsKept
  <2>2. features'[s][r.id] = features[s][r.id]
        BY <1>0, <1>5, <2>1, ChildUntouched
  <2>3. CASE rows'["child"][s] = rows["child"][s]
        BY <1>1, <1>2, <2>2, <2>3
  <2>4. CASE s = SessionOf[p] /\ ThinSide(p, "child") /\ Thin(p) /\ At(p, "thinChild")
    <3> DEFINE T == rows["child"][s]
    <3>1. rows'["child"][s] = Thinned(T, call[p].childState) /\ call[p].childState \in Nat
      <4>1. rows' = [rows EXCEPT !["child"][s] = Thinned(rows["child"][s], StateOf(p, "child"))]
            BY <2>4 DEF ThinSide
      <4>2. "child" \in Sides /\ rows["child"] \in [Sessions -> SUBSET Difference]
            BY <1>0 DEF TypeInv, TypeOK, Sides
      <4>3. StateOf(p, "child") = call[p].childState
            BY DEF StateOf
      <4>4. call[p].childState \in Nat
            BY <1>0, <2>4 DEF At, TypeInv, Reading
      <4>5. rows \in [Sides -> [Sessions -> SUBSET Difference]]
            BY <1>0 DEF TypeInv, TypeOK
      <4>6. rows'["child"][s] = Thinned(rows["child"][s], StateOf(p, "child"))
            BY <4>1, <4>2, <4>5
      <4> QED BY <4>3, <4>4, <4>6
    <3>2. ~(IsOldId(p, r.id) /\ IsNewId(p, r.id))
          BY <1>0, <2>1, <2>4 DEF Calm, Carried, CallInv, Apart, Thin, At, Carrying
    <3>3. CASE r.state > call[p].childState
      <4>1. \A q \in T : q.id = r.id => q.state > call[p].childState
            BY <1>0, <2>1, <2>4, <3>1, <3>2, <3>3 DEF IsOldId, IsNewId, ChildRows, UpTo
      <4>2. \A q \in T : q.id = r.id => q \in Thinned(T, call[p].childState)
            BY <4>1 DEF Thinned
      <4> QED BY <1>1, <1>2, <2>1, <2>2, <3>1, <4>2
    <3>4. CASE r.state <= call[p].childState
      <4>1. \A q \in T : q.id = r.id => q.state <= call[p].childState
            BY <1>0, <2>1, <2>4, <3>1, <3>2, <3>4 DEF IsOldId, IsNewId, ChildRows, UpTo
      <4>2. /\ IsFiniteSet(T) /\ (\A x, y \in T : x.n = y.n => x = y)
            /\ \A x, y \in T : x.id = y.id /\ x.n < y.n => x.date <= y.date
            BY DEF Calm, DataInv, Numbered, Carried, Dated, Sides
      <4>3. r \in Thinned(T, call[p].childState) /\ r.statement # "DELETE" /\ Table(T)
            BY <1>0, <1>1, <3>1
      <4>4. PICK m \in T : /\ m.id = r.id /\ m.statement # "DELETE"
                           /\ \A q \in T : q.id = r.id => q.n <= m.n
        <5> HIDE DEF T
        <5> QED BY <3>1, <4>1, <4>2, <4>3, ThinnedKeeps
      <4> QED BY <1>0, <2>2, <4>4 DEF Alive
    <3> QED BY <1>0, <2>1, <3>1, <3>3, <3>4
  <2>5. CASE s = SessionOf[p] /\ RemoveRow(p) /\ call[p].dir = "checkin"
    <3>1. rows'["child"][s] = rows["child"][s] \ {Current(p)}
          BY <2>5, RemovedRow, Directions
    <3>2. Current(p) \in ChildRows(p) /\ At(p, "remove")
          BY <1>0, <2>5, Applying DEF Calm, Carried, CallInv, Todo, Done, RemoveRow, At
    <3>3. r.id # Current(p).id
          BY <1>1, <2>1, <2>5, <3>1, <3>2, SoleRow DEF At, Carrying
    <3> QED BY <1>1, <1>2, <2>1, <2>2, <3>1, <3>3
  <2>6. CASE s = SessionOf[p] /\ RemoveRow(p) /\ call[p].dir # "checkin"
        BY <2>3, <2>6, RemovedRow, Directions
  <2>7. CASE s = SessionOf[p] /\ ReleaseChild(p)
    <3>1. rows'["child"][s] = {}
          BY <1>0, <2>7 DEF ReleaseChild, TypeInv, TypeOK, Sides
    <3> QED BY <3>1
  <2>8. CASE s = SessionOf[p] /\ ReleaseParent(p)
    <3>1. rows'["child"][s] = rows["child"][s]
          BY <1>0, <2>8 DEF ReleaseParent, TypeInv, TypeOK, Sides
    <3> QED BY <2>3, <3>1
  <2>9. CASE s = SessionOf[p] /\ Thin(p)
    <3>1. CASE ThinSide(p, "child") /\ At(p, "thinChild")
          BY <2>4, <2>9, <3>1
    <3>2. CASE ThinSide(p, "parent")
      <4>1. rows'["child"][s] = rows["child"][s]
            BY <1>0, <2>9, <3>2 DEF ThinSide, TypeInv, TypeOK, Sides
      <4> QED BY <2>3, <4>1
    <3> QED BY <2>9, <3>1, <3>2 DEF Thin
  <2> QED BY <1>5, <2>3, <2>5, <2>6, <2>7, <2>8, <2>9, ChildRowsKept DEF Loses
<1> QED BY <1>3, <1>4, <1>5, Steps DEF Edit

LEMMA StraightKept == ASSUME Calm, Usual', [Next]_vars PROVE Straight'
<1>0. Straight
      BY DEF Calm, Carried
<1>1. ASSUME NEW d \in Dbs, NEW statement \in Statements, NEW id \in Ids, BeginEdit(d, statement, id)
      PROVE  Straight'
  <2> DEFINE new == [db |-> d, statement |-> statement, id |-> id, date |-> time',
                     states |-> [s \in Watching(d) |-> session[SideOf(d)][s].state]]
  <2>1. edits' = edits \cup {new}
        BY <1>1 DEF BeginEdit
  <2>2. \A e \in edits : ~(e.db = d /\ e.id = id)
        BY <1>1 DEF BeginEdit, Usual, Without, If
  <2>3. new.db = d /\ new.id = id
        OBVIOUS
  <2> HIDE DEF new
  <2> QED BY <1>0, <2>1, <2>2, <2>3 DEF Straight
<1>2. CASE UNCHANGED vars \/ \E e \in edits : CommitEdit(e)
  <2>1. edits' \subseteq edits
        BY <1>2 DEF CommitEdit, vars, env
  <2> QED BY <1>0, <2>1 DEF Straight
<1>3. ASSUME NEW p \in Procs, Step(p) PROVE Straight'
  <2>1. edits' = edits
        BY <1>3, Frames DEF Frame
  <2> QED BY <1>0, <2>1 DEF Straight
<1> QED BY <1>1, <1>2, <1>3, Steps DEF Edit

------------------------------------------------------------------------------
(* The inductive invariant.                                                 *)
WholeInv == TypeInv /\ SessionsApart /\ LocksHold /\ OneAtATime /\ DataInv /\ CarryInv

LEMMA CarriedKept == ASSUME Calm, Usual', [Next]_vars PROVE Carried'
<1>1. Ahead'
  <2>1. CASE Edit \/ UNCHANGED vars
    <3>1. Ahead /\ session' = session
          BY <2>1, EditsQuiet DEF Calm, Carried
    <3> QED BY <3>1 DEF Ahead, IsOpen
  <2> QED BY <2>1, AheadKept, Steps
<1>2. \A p \in Procs : CallInv(p)'
  <2>1. SUFFICES ASSUME NEW p \in Procs PROVE CallInv(p)'
        OBVIOUS
  <2>2. CASE UNCHANGED vars
    <3>1. CallInv(p)
          BY DEF Calm, Carried
    <3> QED BY <2>2, <3>1
          DEF vars, data, env, CallInv, Counted, Hard, Apart, Drained, Unique, Locked, Todo, At, IsOldId,
              IsNewId, IsNew, Concerns, IsCopy, ChildRows, ParentRows, ParentCarried, AtHand, Current,
              StateOf
  <2>3. CASE Edit
        BY <2>3, BeginKept, CommitKept DEF Edit
  <2>4. ASSUME NEW o \in Procs, Step(o) PROVE CallInv(p)'
        BY <2>4, OwnKept, BystanderKept
  <2> QED BY <2>2, <2>3, <2>4, Steps
<1> QED BY <1>1, <1>2, SeenKept, StatedKept, AliveKept, DatedKept, EditAliveKept, StraightKept DEF Carried

LEMMA WholeInvInit == Init => WholeInv
<1> SUFFICES ASSUME Init PROVE WholeInv
    OBVIOUS
<1>1. TypeInv
      BY TypeInvInit
<1>2. SessionsApart /\ LocksHold /\ OneAtATime
      BY DEF Init, SessionsApart, LocksHold, Holds, Holding, Working, OneAtATime, At
<1>3. DataInv
  <2>1. \A side \in Sides, s \in Sessions : rows[side][s] = {}
        BY DEF Init
  <2>2. edits = {} /\ \A p \in Procs : call[p].todo = {}
        BY DEF Init, NoCall
  <2>3. \A d \in Dbs, i \in Ids : i > lastId => features[d][i] = <<>>
        BY BoundAssumption DEF Init, Ids
  <2> QED BY <2>1, <2>2, <2>3, FS_EmptySet DEF DataInv, Low, Edits, Numbered
<1>4. Carried
  <2>1. /\ edits = {} /\ \A s \in Sessions : rows["child"][s] = {}
        /\ \A s \in Sessions : session["child"][s].state = 0 /\ session["parent"][s].state = 0
        BY DEF Init, Sides
  <2>2. Ahead /\ Seen /\ Stated /\ Alive /\ Dated /\ EditAlive /\ Straight
        BY <2>1 DEF Ahead, Seen, Stated, Alive, Dated, EditAlive, Straight
  <2>3. \A p \in Procs : CallInv(p)
        BY DEF Init, CallInv, Counted, Hard, Apart, Drained, Unique, Locked, Todo, At, Counting,
               Carrying, Thinning, Done, Middle, Late, HardInParent, HardInChild
  <2> QED BY <2>2, <2>3 DEF Carried
<1> QED BY <1>1, <1>2, <1>3, <1>4 DEF WholeInv, CarryInv

LEMMA WholeInvKept == WholeInv /\ [Next]_vars => WholeInv'
<1> SUFFICES ASSUME WholeInv, [Next]_vars PROVE WholeInv'
    OBVIOUS
<1>1. ControlTypes
      BY ControlTyped DEF WholeInv, TypeInv
<1>2. TypeInv' /\ SessionsApart' /\ LocksHold' /\ OneAtATime' /\ DataInv'
      BY <1>1, TypeInvKept, ApartKept, LocksKept, WorkersKept, DataInvKept DEF WholeInv
<1>3. ASSUME Usual' PROVE Carried'
  <2>1. Calm
        BY <1>3, CalmBefore DEF WholeInv, CarryInv, Calm
  <2> QED BY <1>3, <2>1, CarriedKept
<1> QED BY <1>2, <1>3 DEF WholeInv, CarryInv

(* Nobody edits an object that a call is about to carry: the hard locks     *)
(* last until the objects are locked themselves (Replication.cs:1974-2105), *)
(* editors wait for the sessions they concern and for the locks of objects, *)
(* and a copy is protected by its conflict (2611).  The call is one of any   *)
(* number, on any number of sessions and of objects.                        *)
THEOREM NobodyDisturbs == Spec => CarriedUndisturbed
<1>1. WholeInv => (Usual /\ terms.handling # "NONE" =>
        \A p \in Procs, e \in edits \ edits' :
          e.db \in {"parent", SessionOf[p]} /\ At(p, "apply") => \A r \in call[p].todo : r.id # e.id)
  <2> SUFFICES ASSUME WholeInv, Usual, terms.handling # "NONE", NEW p \in Procs, NEW e \in edits,
                      e.db \in {"parent", SessionOf[p]}, At(p, "apply"),
                      NEW r \in call[p].todo, r.id = e.id
               PROVE  FALSE
      OBVIOUS
  <2>1. Calm /\ Apart(p) /\ Drained(p) /\ Todo(p) /\ e.id \in Ids
        BY DEF WholeInv, CarryInv, Calm, Carried, CallInv, TypeInv, TypeOK, Transaction
  <2>2. IsOldId(p, e.id)
    <3>1. CASE call[p].dir = "checkin"
          BY <2>1, <3>1 DEF Todo, At, IsOldId
    <3>2. CASE call[p].dir # "checkin"
      <4>1. call[p].dir = "post" /\ r \in ParentRows(p) /\ call[p].type = "Reconcile" /\ AtHand(p) = {}
            BY <2>1, <3>2, Directions DEF Todo, Middle, At, AtHand
      <4> QED BY <4>1 DEF IsOldId, ParentCarried
    <3> QED BY <3>1, <3>2
  <2>3. IsNewId(p, e.id)
        BY <2>1 DEF Drained, At, Late, Carrying, IsNewId, Concerns
  <2> QED BY <2>1, <2>2, <2>3 DEF Apart, At, Carrying
<1> QED BY <1>1, WholeInvInit, WholeInvKept, PTL DEF Spec, CarriedUndisturbed

(* A release throws no difference away that its call was to carry           *)
(* (ReleaseVersion, Replication.cs:2413): a row is only passed over where   *)
(* its feature is gone, and the feature of the last difference of an object *)
(* is there unless it was a deletion.                                       *)
THEOREM ReleaseKeeps == Spec => NothingDiscarded
<1>1. WholeInv => (Usual =>
        \A p \in Procs :
          At(p, "releaseChild") /\ pc'[p] = "releaseParent" =>
            UpTo(rows["child"][SessionOf[p]], call[p].childState) = {})
      BY DEF WholeInv, CarryInv, Carried, CallInv, Todo, ChildRows
<1> QED BY <1>1, WholeInvInit, WholeInvKept, PTL DEF Spec, NothingDiscarded
------------------------------------------------------------------------------
(* Where the sides differ: what DifferencesKnown excuses, besides Usual.    *)
Known == Usual /\ Without({"resurrected", "torn", "backdated"}) /\ terms.rights = Statements

(* A row at hand that is carried already, and only has to be removed.       *)
IsCarried(side, s, r) ==
  \E p \in Procs : SessionOf[p] = s /\ At(p, "remove") /\ From(p) = side /\ Current(p) = r

(* An object has one feature in a database at most.                         *)
IsOne(v) == \E x \in Nat : v = <<x>>
Single == \A d \in Dbs, i \in Ids : features[d][i] = <<>> \/ IsOne(features[d][i])

(* Nobody knows of an object before it is inserted.                         *)
Unborn ==
  \A e \in edits : e.statement = "INSERT" =>
    /\ \A d \in Dbs : features[d][e.id] = <<>>
    /\ \A side \in Sides, s \in Sessions : \A r \in rows[side][s] : r.id # e.id
    /\ \A f \in edits : f.id = e.id => f = e

(* An object inserted in a child is its own until it is carried ...         *)
IsOwn(s, i) ==
  /\ \A d \in Dbs \ {s} : features[d][i] = <<>>
  /\ \A side \in Sides, t \in Sessions : \A q \in rows[side][t] : q.id = i => side = "child" /\ t = s
  /\ \A e \in edits : e.id = i => e.db = s
BornHere ==
  \A s \in Sessions : \A r \in rows["child"][s] :
    r.statement = "INSERT" /\ ~IsCarried("child", s, r) => IsOwn(s, r.id)

(* ... and one inserted in the parent unknown to the child.                 *)
IsUnknown(s, i) ==
  /\ features[s][i] = <<>>
  /\ \A q \in rows["child"][s] : q.id # i
  /\ \A e \in edits : e.id = i => e.db # s
BornThere ==
  \A s \in Sessions : \A r \in rows["parent"][s] :
    r.statement = "INSERT" /\ ~IsCarried("parent", s, r) => IsUnknown(s, r.id)

(* Its insertion is the oldest difference of an object.                     *)
OldestInParent ==
  \A s \in Sessions : \A r \in rows["parent"][s] : r.statement = "INSERT" =>
    /\ \A q \in rows["parent"][s] : q.id = r.id => r.state <= q.state
    /\ \A e \in edits : e.id = r.id /\ e.db = "parent" /\ s \in DOMAIN e.states => r.state <= e.states[s]
OldestInChild ==
  \A s \in Sessions : \A r, q \in rows["child"][s] :
    r.statement = "INSERT" /\ q.id = r.id => r.n <= q.n
ParentStated ==
  \A s \in Sessions : IsOpen("parent", s) =>
    \A r \in rows["parent"][s] : r.state <= session["parent"][s].state

(* What was deleted stays so.                                               *)
Dead ==
  \A side \in Sides, s \in Sessions : \A r \in rows[side][s] :
    r.statement = "DELETE" => features[Db(side, s)][r.id] = <<>>

(* ... so its deletion is the last difference of an object in the parent,   *)
(* and an edit that changes a feature there finds it.                       *)
DeletedLast ==
  \A s \in Sessions : \A r, q \in rows["parent"][s] :
    r.statement = "DELETE" /\ q.id = r.id => q.n <= r.n /\ q.date <= r.date
DatedThere ==
  \A e \in edits : e.db = "parent" =>
    \A s \in Sessions : \A r \in rows["parent"][s] : r.id = e.id => r.date <= e.date
AliveThere ==
  \A e \in edits : e.db = "parent" /\ e.statement # "INSERT" => features["parent"][e.id] # <<>>

(* Of what only the child has, the child or the parent knows why.           *)
BothOpen(s) == IsOpen("parent", s) /\ IsOpen("child", s)
Vanished ==
  \A s \in Sessions, i \in Ids :
    BothOpen(s) /\ features["parent"][i] = <<>> /\ features[s][i] # <<>>
      => \/ \E r \in rows["child"][s] : r.id = i /\ r.statement = "INSERT"
         \/ \E r \in rows["parent"][s] : r.id = i /\ r.statement = "DELETE"

(* What the child changed is not changed anew in the parent.                *)
OldInChild(p, i) ==
  \/ \E r \in ChildRows(p) : r.id = i
  \/ \E e \in edits : e.id = i /\ e.db = SessionOf[p] /\ ~IsNew(e, p)
NewInParent(p, i) ==
  \/ \E r \in rows["parent"][SessionOf[p]] : r.id = i /\ r.state > call[p].parentState
  \/ \E e \in edits : e.id = i /\ e.db = "parent" /\ IsNew(e, p)
Beside(p) ==
  pc[p] \in Attentive => \A i \in Ids : ~(OldInChild(p, i) /\ NewInParent(p, i))

(* A check-in has read all the differences that clash with those it carries. *)
Clashing(p) ==
  pc[p] \in {"apply"} \cup Done /\ call[p].dir = "checkin" =>
    /\ call[p].other \subseteq rows["parent"][SessionOf[p]]
    /\ \A q \in rows["parent"][SessionOf[p]], r \in call[p].todo : q.id = r.id => q \in call[p].other

(* Before a row is removed the sides agree, or another row says they don't. *)
Settled(p) ==
  LET s == SessionOf[p]
      r == Current(p)
  IN
  pc[p] \in Done =>
    \/ features["parent"][r.id] = features[s][r.id]
    \/ \E q \in rows["parent"][s] :
         /\ q.id = r.id /\ (call[p].dir = "post" => q # r)
         /\ features["parent"][r.id] = <<>> => q.statement = "DELETE"
    \/ /\ features["parent"][r.id] # <<>>
       /\ \E q \in rows["child"][s] : q.id = r.id /\ (call[p].dir = "checkin" => q # r)

Differing ==
  \A s \in Sessions, i \in Ids :
    BothOpen(s) /\ features["parent"][i] # features[s][i]
      => \E side \in Sides : \E r \in rows[side][s] : r.id = i

Agreed == /\ Single /\ Unborn /\ BornHere /\ BornThere /\ OldestInParent /\ OldestInChild /\ ParentStated
          /\ Dead /\ DeletedLast /\ DatedThere /\ AliveThere /\ Vanished /\ Differing
          /\ \A p \in Procs : Beside(p) /\ Clashing(p) /\ Settled(p)
Sure == Calm /\ Known /\ Agreed

------------------------------------------------------------------------------
LEMMA OneValue ==
  ASSUME NEW v, IsOne(v)
  PROVE  /\ v # <<>> /\ Tail(v) = <<>> /\ Append(<<>>, Head(v)) = v /\ <<Head(v)>> \o <<>> = v /\ <<Head(v)>> = v
         /\ Head(v) \in Nat
<1>1. PICK x \in Nat : v = <<x>>
      BY DEF IsOne
<1>2. Head(v) = x /\ v \in Seq(Nat) /\ Len(v) = 1
      BY <1>1
<1>3. Tail(v) = <<>>
      BY <1>1
<1>4. Append(<<>>, x) = <<x>>
      OBVIOUS
<1>5. <<x>> \o <<>> = <<x>>
      OBVIOUS
<1>6. v # <<>>
      BY <1>2
<1> QED BY <1>1, <1>2, <1>3, <1>4, <1>5, <1>6

LEMMA KnownBefore ==
  ASSUME TypeInv, [Next]_vars, Known'
  PROVE  Known
<1>1. ASSUME NEW p \in Procs, Step(p) PROVE excuses \subseteq excuses' /\ terms' = terms
      BY <1>1, ControlTyped, StepsAlone, Frames DEF TypeInv, Alone, Frame
<1>2. CASE Edit \/ UNCHANGED vars
  <2>1. excuses \subseteq excuses' /\ terms' = terms
        BY <1>2 DEF Edit, BeginEdit, CommitEdit, vars, env
  <2> QED BY <2>1 DEF Known, Usual, Without
<1> QED BY <1>1, <1>2, Steps DEF Known, Usual, Without

(* The types of what is at hand.                                            *)
LEMMA SureTypes ==
  ASSUME Sure
  PROVE  /\ TypeInv /\ Calm
         /\ \A s \in Sessions : s \in Dbs /\ s # "parent"
         /\ \A side \in Sides, s \in Sessions : \A r \in rows[side][s] :
              /\ r \in Difference /\ r.id \in Ids /\ r.n \in Nat /\ r.state \in Nat /\ r.date \in Nat
              /\ r.statement \in Statements
         /\ \A e \in edits :
              /\ e.db \in Dbs /\ e.id \in Ids /\ e.statement \in Statements /\ e.date \in Nat
              /\ DOMAIN e.states \subseteq Sessions /\ \A s \in DOMAIN e.states : e.states[s] \in Nat
              /\ e.db # "parent" => DOMAIN e.states = {e.db}
              /\ Watching(e.db) \subseteq DOMAIN e.states
              /\ SideOf(e.db) = IF e.db = "parent" THEN "parent" ELSE "child"
<1>1. TypeInv /\ Calm /\ Edits /\ Seen
      BY DEF Sure, Calm, Carried, DataInv
<1>2. \A s \in Sessions : s \in Dbs /\ s # "parent"
      BY SessionAssumption DEF Dbs
<1>3. \A side \in Sides, s \in Sessions : \A r \in rows[side][s] :
              /\ r \in Difference /\ r.id \in Ids /\ r.n \in Nat /\ r.state \in Nat /\ r.date \in Nat
              /\ r.statement \in Statements
      BY <1>1 DEF TypeInv, TypeOK, Difference
<1>4. \A e \in edits :
              /\ e.db \in Dbs /\ e.id \in Ids /\ e.statement \in Statements /\ e.date \in Nat
              /\ DOMAIN e.states \subseteq Sessions /\ \A s \in DOMAIN e.states : e.states[s] \in Nat
      BY <1>1 DEF TypeInv, TypeOK, Transaction
<1> QED BY <1>1, <1>2, <1>3, <1>4 DEF Edits, Seen, SideOf

(* The row at hand is one of the table it is read from.                     *)
LEMMA HandledRow ==
  ASSUME Calm, NEW p \in Procs, pc[p] \in {"apply"} \cup Done, call[p].todo # {}
  PROVE  /\ Current(p) \in rows[From(p)][SessionOf[p]] /\ Current(p) \in Difference
         /\ Current(p).id \in Ids
         /\ call[p].dir = "checkin" => Current(p) \in ChildRows(p) /\ call[p].todo = ChildRows(p)
         /\ call[p].dir # "checkin" =>
              Current(p) \in ParentRows(p) /\ call[p].type = "Reconcile" /\ ChildRows(p) = {}
<1>1. Todo(p) /\ Current(p) \in call[p].todo /\ Current(p) \in Difference
      BY CurrentRow DEF Calm, Carried, CallInv, TypeInv, TypeOK
<1>2. Current(p).id \in Ids
      BY <1>1 DEF Difference
<1>3. CASE call[p].dir = "checkin"
      BY <1>1, <1>2, <1>3, Directions DEF Todo, Done, Middle, ChildRows, UpTo
<1>4. CASE call[p].dir # "checkin"
      BY <1>1, <1>2, <1>4, Directions DEF Todo, Done, Middle, ParentRows, UpTo
<1> QED BY <1>3, <1>4

(* Only its removal ends that a row is carried already.                     *)
LEMMA CarriedStays ==
  ASSUME Calm, Known', NEW o \in Procs, Step(o), NEW side \in Sides, NEW s \in Sessions,
         NEW r, IsCarried(side, s, r), r \in rows'[side][s]
  PROVE  IsCarried(side, s, r)'
<1>1. PICK p \in Procs : SessionOf[p] = s /\ At(p, "remove") /\ From(p) = side /\ Current(p) = r
      BY DEF IsCarried
<1>2. CASE o # p
  <2>1. pc'[p] = pc[p] /\ call'[p] = call[p]
        BY <1>1, <1>2, OthersElsewhere DEF At, Known
  <2> QED BY <1>1, <2>1, SameCurrent DEF IsCarried, At, From
<1>3. CASE o = p
  <2>1. Move(p) /\ TypeInv
        BY <1>3, ControlTyped, Moves DEF Calm, TypeInv
  <2>2. ~Fail(p) /\ ~Crash(p)
    <3>1. "torn" \notin excuses' /\ "torn" \in Broken(p)
          BY <1>1 DEF Known, Without, Broken, If, At
    <3> QED BY <3>1 DEF Fail, Crash
  <2>3. RemoveRow(p)
        BY <1>1, <2>1, <2>2 DEF Move, Goes, At
  <2>4. r \notin rows'[side][s]
        BY <1>1, <2>3, RemovedRow DEF Known
  <2> QED BY <2>4
<1> QED BY <1>2, <1>3

(* What a call is about to carry is not carried yet.                        *)
LEMMA NotCarried ==
  ASSUME Calm, NEW p \in Procs, ~At(p, "idle"), ~At(p, "remove"), NEW side, NEW r
  PROVE  ~IsCarried(side, SessionOf[p], r)
<1>1. SessionsApart /\ Without(Excused)
      BY DEF Calm, Usual, Without, Excused
<1> QED BY <1>1 DEF IsCarried, SessionsApart, At

LEMMA BothAtWork ==
  ASSUME Calm, NEW p \in Procs, pc[p] \in Middle
  PROVE  BothOpen(SessionOf[p])
<1>1. IsOpen("parent", SessionOf[p]) /\ Counted(p)
      BY AtWork DEF Calm, Carried, CallInv, Holding, Working, Middle, Done
<1> QED BY <1>1 DEF BothOpen, IsOpen, Counted, Late, Carrying, Middle, Done

------------------------------------------------------------------------------
(* What a write of a call does: it makes the sides agree on the object, and *)
(* in a check-in the other sessions get the same difference.               *)
LEMMA TargetOfInsert ==
  ASSUME Sure, NEW p \in Procs, At(p, "apply"), call[p].todo # {}, Current(p).statement = "INSERT"
  PROVE  /\ Target(p) = <<>>
         /\ call[p].dir = "checkin" => IsOwn(SessionOf[p], Current(p).id)
         /\ call[p].dir # "checkin" => IsUnknown(SessionOf[p], Current(p).id)
<1> DEFINE s == SessionOf[p]
           r == Current(p)
<1>1. Calm /\ s \in Sessions /\ s # "parent" /\ "parent" \in Dbs
      BY Places, SureTypes DEF Dbs
<1>2. r \in rows[From(p)][s] /\ r.id \in Ids
      BY <1>1, HandledRow DEF At
<1>3. ~IsCarried(From(p), s, r)
      BY <1>1, NotCarried DEF At
<1>4. CASE call[p].dir = "checkin"
  <2>1. IsOwn(s, r.id)
        BY <1>1, <1>2, <1>3, <1>4, Directions DEF Sure, Agreed, BornHere
  <2> QED BY <1>1, <1>4, <2>1, Directions DEF IsOwn, Target
<1>5. CASE call[p].dir # "checkin"
  <2>1. IsUnknown(s, r.id)
        BY <1>1, <1>2, <1>3, <1>5, Directions DEF Sure, Agreed, BornThere
  <2> QED BY <1>1, <1>5, <2>1, Directions DEF IsUnknown, Target
<1> QED BY <1>4, <1>5

(* In a check-in nothing is inserted that was not inserted in the child.    *)
LEMMA InsertsInserted ==
  ASSUME Sure, Known', NEW p \in Procs, InsertFeature(p), call[p].dir = "checkin"
  PROVE  Current(p).statement = "INSERT"
<1> DEFINE s == SessionOf[p]
           r == Current(p)
<1>1. SUFFICES ASSUME r.statement # "INSERT" PROVE FALSE
      OBVIOUS
<1>2. At(p, "apply") /\ call[p].todo # {} /\ Target(p) = <<>> /\ Source(p) # <<>>
      BY <1>1 DEF InsertFeature, IsWriting, IsApplying
<1>3. Clashes(p) = {}
      BY DEF InsertFeature, If, Known, Without
<1>4. Calm /\ s \in Sessions /\ BothOpen(s) /\ r \in ChildRows(p) /\ r.id \in Ids /\ r \in call[p].todo
      BY <1>2, Places, BothAtWork, HandledRow DEF Sure, At, Middle
<1>5. features["parent"][r.id] = <<>> /\ features[s][r.id] # <<>>
      BY <1>2, <1>4, Directions DEF Target, Source
<1>6. \A q \in rows["child"][s] : q.id = r.id => q = r
      BY <1>2, <1>4, SoleRow DEF At, Carrying
<1>7. PICK q \in rows["parent"][s] : q.id = r.id
      BY <1>1, <1>4, <1>5, <1>6 DEF Sure, Agreed, Vanished
<1>8. q \in call[p].other
      BY <1>2, <1>4, <1>7 DEF Sure, Agreed, Clashing, At
<1> QED BY <1>3, <1>7, <1>8 DEF Clashes

LEMMA ToldRows ==
  ASSUME TypeInv, NEW p \in Procs, NEW statement \in Statements, rows' = Told(p, statement),
         Current(p) \in Difference, NEW side \in Sides, NEW t \in Sessions
  PROVE  IF side = To(p) /\ t \in Others(p)
         THEN \E r \in Difference :
                /\ rows'[side][t] = rows[side][t] \cup {r} /\ r.n = NextN(rows[side][t])
                /\ r.id = Current(p).id /\ r.statement = statement /\ r.state = session[side][t].state
         ELSE rows'[side][t] = rows[side][t]
<1> DEFINE states == [x \in Others(p) |-> session[To(p)][x].state]
<1>1. rows' = Recorded(ToDb(p), states, Current(p).id, statement, Current(p).date)
      BY DEF Told
<1>2. DOMAIN states = Others(p) /\ \A x \in Others(p) : states[x] = session[To(p)][x].state
      OBVIOUS
<1>3. /\ Tables /\ Table(rows[side][t]) /\ ToDb(p) \in Dbs /\ SideOf(ToDb(p)) = To(p) /\ To(p) \in Sides
      /\ Current(p).id \in Ids /\ Current(p).date \in Nat
      BY Places DEF TypeInv, Tables, Difference
<1>4. Others(p) \subseteq Sessions /\ \A x \in Others(p) : session[To(p)][x].state \in Nat
      BY <1>3 DEF Others, Watching, TypeInv, TypeOK, Session
<1> HIDE DEF states
<1>5. CASE ~(side = To(p) /\ t \in Others(p))
      BY <1>1, <1>2, <1>3, <1>4, <1>5, RecordedRows
<1>6. CASE side = To(p) /\ t \in Others(p)
  <2> DEFINE r == Row(rows[side][t], Current(p).id, statement, states[t], Current(p).date)
  <2>1. rows'[side][t] = rows[side][t] \cup {r}
    <3>1. Recorded(ToDb(p), states, Current(p).id, statement, Current(p).date)[side][t]
            = rows[side][t] \cup {r}
      <4>1. DOMAIN states \subseteq Sessions /\ \A x \in DOMAIN states : states[x] \in Nat
            BY <1>2, <1>4
      <4>2. side = SideOf(ToDb(p)) /\ t \in DOMAIN states
            BY <1>2, <1>3, <1>6
      <4> QED BY <1>3, <4>1, <4>2, RecordedRows
    <3> QED BY <1>1, <3>1
  <2>2. states[t] \in Nat /\ states[t] = session[side][t].state
        BY <1>2, <1>4, <1>6
  <2>3. /\ r \in Difference /\ r.n = NextN(rows[side][t]) /\ r.id = Current(p).id
        /\ r.statement = statement /\ r.state = states[t]
        BY <1>3, <2>2, NewRow
  <2> HIDE DEF r
  <2> QED BY <1>6, <2>1, <2>2, <2>3
<1> QED BY <1>5, <1>6

(* What is posted is told nobody.                                           *)
LEMMA OthersTold ==
  ASSUME Calm, NEW p \in Procs
  PROVE  /\ call[p].dir # "checkin" => Others(p) = {}
         /\ call[p].dir = "checkin" => Others(p) = Watching("parent") \ {SessionOf[p]}
<1>1. SessionOf[p] \in Sessions /\ SessionOf[p] # "parent"
      BY Places, SessionAssumption
<1> QED BY <1>1, Directions DEF Others, Watching

(* A write that is no copy.                                                 *)
Carries(p) == Writes(p) /\ ~CopyFeature(p)

LEMMA CarryAt ==
  ASSUME Sure, NEW p \in Procs, Writes(p)
  PROVE  /\ At(p, "apply") /\ call[p].todo # {} /\ pc'[p] \in Done
         /\ Carries(p) => call' = call /\ At(p, "remove")'
         /\ call'[p].dir = call[p].dir /\ call'[p].todo = call[p].todo /\ call'[p].other = call[p].other
         /\ Current(p) \in call[p].todo /\ Current(p) \in Difference /\ Current(p).id \in Ids
         /\ Current(p)' = Current(p)
         /\ Current(p) \in rows[From(p)][SessionOf[p]]
         /\ ~IsCarried(From(p), SessionOf[p], Current(p))
<1>0. TypeInv /\ Calm /\ pc \in [Procs -> PCs]
      BY DEF Sure, Calm, TypeInv, TypeOK
<1>1. /\ At(p, "apply") /\ call[p].todo # {} /\ pc'[p] \in Done
      /\ Carries(p) => call' = call /\ At(p, "remove")'
  <2>1. At(p, "apply") /\ call[p].todo # {}
        BY DEF Writes, InsertFeature, CopyFeature, Copied, ChangeFeature, IsWriting, IsApplying
  <2>2. CopyFeature(p) => pc'[p] \in Done
        BY <1>0 DEF CopyFeature, Copied, Goto, Done
  <2>3. InsertFeature(p) \/ ChangeFeature(p) => call' = call /\ pc'[p] = "remove"
        BY <1>0 DEF InsertFeature, ChangeFeature, Applied, Goto
  <2> QED BY <2>1, <2>2, <2>3 DEF Writes, Carries, At, Done
<1>2. Current(p) \in call[p].todo /\ Current(p) \in Difference /\ Current(p).id \in Ids
      BY <1>0, <1>1, CurrentRow DEF TypeInv, TypeOK, Difference
<1>3. call'[p].dir = call[p].dir /\ call'[p].todo = call[p].todo /\ call'[p].other = call[p].other
  <2>1. CASE CopyFeature(p)
        BY <1>0, <2>1, CopiesKept
  <2>2. CASE ~CopyFeature(p)
        BY <1>1, <2>2 DEF Carries
  <2> QED BY <2>1, <2>2
<1>4. Current(p)' = Current(p)
      BY <1>3 DEF Current
<1> QED BY <1>0, <1>1, <1>2, <1>3, <1>4, HandledRow, NotCarried DEF At

LEMMA CarryValues ==
  ASSUME Sure, Known', NEW p \in Procs, Carries(p)
  PROVE  /\ features' = [features EXCEPT ![ToDb(p)][Current(p).id] = Source(p)]
         /\ Current(p).statement = "INSERT" => InsertFeature(p)
<1> DEFINE r == Current(p)
<1>0. /\ At(p, "apply") /\ call[p].todo # {} /\ r.id \in Ids /\ r \in rows[From(p)][SessionOf[p]]
      /\ SessionOf[p] \in Sessions /\ From(p) \in Sides /\ ToDb(p) \in Dbs /\ FromDb(p) \in Dbs
      BY CarryAt, Places DEF Carries
<1>1. /\ Source(p) = <<>> \/ IsOne(Source(p))
      /\ Target(p) = <<>> \/ IsOne(Target(p))
      BY <1>0 DEF Sure, Agreed, Single, Source, Target
<1>2. CASE InsertFeature(p)
  <2>1. Target(p) = <<>> /\ Source(p) # <<>>
        BY <1>0, <1>2, TargetOfInsert DEF InsertFeature, IsWriting, IsApplying
  <2>2. Append(Target(p), Head(Source(p))) = Source(p)
        BY <1>1, <2>1, OneValue
  <2>3. Put(ToDb(p), Current(p).id, Append(Target(p), Head(Source(p))))
        BY <1>2 DEF InsertFeature
  <2> QED BY <1>2, <2>2, <2>3 DEF Put
<1>3. CASE ChangeFeature(p)
  <2>1. Target(p) # <<>> /\ IsOne(Target(p)) /\ Tail(Target(p)) = <<>> /\ r.statement # "INSERT"
        BY <1>1, <1>3, OneValue DEF ChangeFeature
  <2>2. CASE r.statement = "UPDATE"
    <3>1. /\ Source(p) # <<>>
          /\ Put(ToDb(p), Current(p).id, <<Head(Source(p))>> \o Tail(Target(p)))
          BY <1>3, <2>2 DEF ChangeFeature
    <3>2. <<Head(Source(p))>> \o Tail(Target(p)) = Source(p)
          BY <1>1, <2>1, <3>1, OneValue
    <3> QED BY <2>1, <3>1, <3>2 DEF Put
  <2>3. CASE r.statement = "DELETE"
    <3>1. Put(ToDb(p), Current(p).id, Tail(Target(p)))
          BY <1>3, <2>3 DEF ChangeFeature
    <3>2. Source(p) = <<>>
          BY <1>0, <2>3 DEF Sure, Agreed, Dead, Source, FromDb
    <3> QED BY <2>1, <3>1, <3>2 DEF Put
  <2> QED BY <1>3, <2>2, <2>3 DEF ChangeFeature
<1> QED BY <1>2, <1>3 DEF Carries, Writes

LEMMA CarryRows ==
  ASSUME Sure, Known', NEW p \in Procs, Carries(p), NEW side \in Sides, NEW t \in Sessions
  PROVE  IF call[p].dir = "checkin" /\ side = "parent" /\ t \in Watching("parent") \ {SessionOf[p]}
         THEN \E r \in Difference :
                /\ rows'[side][t] = rows[side][t] \cup {r} /\ r.n = NextN(rows[side][t])
                /\ r.id = Current(p).id /\ r.statement = Current(p).statement
                /\ r.state = session[side][t].state
         ELSE rows'[side][t] = rows[side][t]
<1>0. TypeInv /\ Calm /\ Current(p) \in Difference
      BY CarryAt DEF Sure, Calm, Carries
<1>1. CASE call[p].dir # "checkin"
  <2>1. PICK statement \in Statements : rows' = Told(p, statement)
        BY DEF Carries, Writes, InsertFeature, ChangeFeature, Statements
  <2> QED BY <1>0, <1>1, <2>1, ToldRows, OthersTold
<1>2. CASE call[p].dir = "checkin"
  <2>1. rows' = Told(p, Current(p).statement) /\ Current(p).statement \in Statements
    <3>1. CASE InsertFeature(p)
          BY <1>2, <3>1, InsertsInserted DEF InsertFeature, Statements
    <3>2. CASE ChangeFeature(p)
          BY <3>2 DEF ChangeFeature, Statements
    <3> QED BY <3>1, <3>2 DEF Carries, Writes
  <2> QED BY <1>0, <1>2, <2>1, ToldRows, OthersTold, Directions
<1> QED BY <1>1, <1>2

(* A copy is a new object, which nobody knows of.                           *)
NewId(id) ==
  /\ id \in Ids
  /\ \A d \in Dbs : features[d][id] = <<>>
  /\ \A side \in Sides, s \in Sessions : \A r \in rows[side][s] : r.id # id
  /\ \A e \in edits : e.id # id

LEMMA NextId ==
  ASSUME Calm, NEW id, id = lastId + 1, id <= MaxObjects
  PROVE  NewId(id) /\ \A p \in Procs : \A r \in call[p].todo : r.id # id
<1>1. lastId \in Nat /\ id \in Ids /\ Low /\ TypeInv
      BY BoundAssumption DEF Calm, DataInv, TypeInv, TypeOK, Ids
<1>2. \A side \in Sides, s \in Sessions : \A r \in rows[side][s] : r.id # id
      BY <1>1, BoundAssumption DEF Low, TypeInv, TypeOK, Difference, Ids
<1>3. \A e \in edits : e.id # id
      BY <1>1, BoundAssumption DEF Low, TypeInv, TypeOK, Transaction, Ids
<1>4. \A p \in Procs : \A r \in call[p].todo : r.id # id
      BY <1>1, BoundAssumption DEF Low, TypeInv, TypeOK, Call, Difference, Ids
<1>5. \A d \in Dbs : features[d][id] = <<>>
      BY <1>1, BoundAssumption DEF Low, Ids
<1> QED BY <1>1, <1>2, <1>3, <1>4, <1>5 DEF NewId

LEMMA CopyValues ==
  ASSUME Sure, NEW p \in Procs, CopyFeature(p), NEW id, id = lastId'
  PROVE  /\ NewId(id) /\ call[p].dir = "checkin" /\ Clashes(p) # {}
         /\ \E v : IsOne(v) /\ features' = [features EXCEPT !["parent"][id] = v]
<1>0. Calm /\ TypeInv /\ At(p, "apply") /\ SessionOf[p] \in Sessions /\ FromDb(p) \in Dbs
      /\ Current(p).id \in Ids
      BY CarryAt, Places DEF Sure, Calm, Writes
<1>1. NewId(id)
      BY <1>0, NextId, BoundAssumption DEF CopyFeature, Copied, TypeInv, TypeOK
<1>2. call[p].dir = "checkin" /\ ToDb(p) = "parent"
      BY <1>0, PostTakes, Directions
<1>3. Clashes(p) # {}
      BY DEF CopyFeature, Copied, Verdict
<1>4. IsOne(Source(p))
      BY <1>0 DEF CopyFeature, Copied, Sure, Agreed, Single, Source
<1>5. IsOne(<<Head(Source(p))>>)
      BY <1>4, OneValue
<1>6. features' = [features EXCEPT !["parent"][id] = <<Head(Source(p))>>]
      BY <1>2 DEF CopyFeature, Copied, Put
<1> QED BY <1>1, <1>2, <1>3, <1>5, <1>6

LEMMA CopyRows ==
  ASSUME Sure, NEW p \in Procs, CopyFeature(p), NEW id, id = lastId', NEW side \in Sides, NEW t \in Sessions
  PROVE  IF side = "parent" /\ t \in Watching("parent")
         THEN \E r \in Difference :
                /\ rows'[side][t] = rows[side][t] \cup {r} /\ r.n = NextN(rows[side][t])
                /\ r.id = id /\ r.statement = "INSERT"
                /\ r.state = IF t = SessionOf[p] THEN call[p].parentState ELSE session["parent"][t].state
         ELSE rows'[side][t] = rows[side][t]
<1> DEFINE states == [s \in Watching(ToDb(p)) |->
                        IF s = SessionOf[p] THEN StateOf(p, To(p)) ELSE session[To(p)][s].state]
<1>0. /\ Calm /\ TypeInv /\ Tables /\ Table(rows[side][t]) /\ At(p, "apply")
      /\ Current(p).date \in Nat /\ id \in Ids /\ "INSERT" \in Statements
      /\ call[p].dir = "checkin"
      BY CarryAt, CopyValues DEF Sure, Calm, Writes, NewId, TypeInv, Tables, Difference, Statements
<1>1. rows' = Recorded(ToDb(p), states, id, "INSERT", Current(p).date)
      BY DEF CopyFeature, Copied
<1>2. ToDb(p) = "parent" /\ To(p) = "parent" /\ ToDb(p) \in Dbs /\ SideOf(ToDb(p)) = "parent"
      BY <1>0, Directions DEF Dbs, SideOf
<1>3. /\ DOMAIN states = Watching("parent")
      /\ \A x \in Watching("parent") :
           states[x] = IF x = SessionOf[p] THEN call[p].parentState ELSE session["parent"][x].state
      BY <1>2 DEF StateOf
<1>4. /\ Watching("parent") \subseteq Sessions
      /\ \A x \in Sessions : session["parent"][x].state \in Nat
      /\ call[p].parentState \in Nat
      BY <1>0 DEF Watching, TypeInv, TypeOK, Session, Reading, At, Sides
<1> HIDE DEF states
<1>5. DOMAIN states \subseteq Sessions /\ \A x \in DOMAIN states : states[x] \in Nat
      BY <1>3, <1>4
<1>6. CASE ~(side = "parent" /\ t \in Watching("parent"))
  <2>1. Recorded(ToDb(p), states, id, "INSERT", Current(p).date)[side][t] = rows[side][t]
    <3>1. ~(side = SideOf(ToDb(p)) /\ t \in DOMAIN states)
          BY <1>2, <1>3, <1>6
    <3> QED BY <1>0, <1>2, <1>5, <3>1, RecordedRows
  <2> QED BY <1>1, <1>6, <2>1
<1>7. CASE side = "parent" /\ t \in Watching("parent")
  <2> DEFINE r == Row(rows[side][t], id, "INSERT", states[t], Current(p).date)
  <2>1. Recorded(ToDb(p), states, id, "INSERT", Current(p).date)[side][t] = rows[side][t] \cup {r}
    <3>1. side = SideOf(ToDb(p)) /\ t \in DOMAIN states
          BY <1>2, <1>3, <1>7
    <3> QED BY <1>0, <1>2, <1>5, <3>1, RecordedRows
  <2>2. /\ r \in Difference /\ r.n = NextN(rows[side][t]) /\ r.id = id
        /\ r.statement = "INSERT" /\ r.state = states[t]
    <3>1. states[t] \in Nat
          BY <1>3, <1>5, <1>7
    <3> QED BY <1>0, <3>1, NewRow
  <2> HIDE DEF r
  <2> QED BY <1>1, <1>3, <1>7, <2>1, <2>2
<1> QED BY <1>6, <1>7

(* The rows that a step adds to the tables, and the values it changes.      *)
CarriedOver(p, side, t, r) ==
  /\ Carries(p) /\ call[p].dir = "checkin" /\ side = "parent" /\ t \in Watching("parent") \ {SessionOf[p]}
  /\ r.id = Current(p).id /\ r.statement = Current(p).statement /\ r.state = session["parent"][t].state
CopiedOver(p, side, t, r) ==
  /\ CopyFeature(p) /\ side = "parent" /\ t \in Watching("parent")
  /\ r.id = lastId' /\ r.statement = "INSERT"
  /\ r.state = IF t = SessionOf[p] THEN call[p].parentState ELSE session["parent"][t].state

LEMMA StepNews ==
  ASSUME Sure, Known', NEW p \in Procs, Step(p), NEW side \in Sides, NEW t \in Sessions,
         NEW r \in rows'[side][t], r \notin rows[side][t]
  PROVE  (CarriedOver(p, side, t, r) \/ CopiedOver(p, side, t, r))
         /\ \E old \in SUBSET Difference : old = rows[side][t] /\ rows'[side][t] = old \cup {r} /\ r.n = NextN(old)
<1>0. TypeInv /\ Calm /\ rows[side][t] \in SUBSET Difference
      BY DEF Sure, Calm, TypeInv, TypeOK
<1>1. Writes(p)
  <2>1. \E q \in Difference : Written(p, side, t, q)
        BY <1>0, StepRows
  <2> QED BY <2>1 DEF Written
<1>2. CASE CopyFeature(p)
  <2>1. PICK id : id = lastId'
        OBVIOUS
  <2> QED BY <1>0, <1>2, <2>1, CopyRows DEF CopiedOver
<1>3. CASE ~CopyFeature(p)
  <2>1. Carries(p)
        BY <1>1, <1>3 DEF Carries
  <2>2. PICK q \in Difference :
          /\ rows'[side][t] = rows[side][t] \cup {q} /\ q.n = NextN(rows[side][t])
          /\ call[p].dir = "checkin" /\ side = "parent" /\ t \in Watching("parent") \ {SessionOf[p]}
          /\ q.id = Current(p).id /\ q.statement = Current(p).statement
          /\ q.state = session[side][t].state
        BY <2>1, CarryRows
  <2>3. q = r
        BY <2>2
  <2> QED BY <1>0, <2>1, <2>2, <2>3 DEF CarriedOver
<1> QED BY <1>2, <1>3

LEMMA StepChange ==
  ASSUME Sure, Known', NEW p \in Procs, Step(p), NEW d \in Dbs, NEW i \in Ids
  PROVE  \/ features'[d][i] = features[d][i]
         \/ Carries(p) /\ d = ToDb(p) /\ i = Current(p).id /\ features'[d][i] = Source(p)
         \/ CopyFeature(p) /\ d = "parent" /\ i = lastId' /\ IsOne(features'[d][i])
<1>0. TypeInv /\ features \in [Dbs -> [Ids -> Seq(Nat)]] /\ "parent" \in Dbs
      BY DEF Sure, Calm, TypeInv, TypeOK, Dbs
<1>1. CASE ~Writes(p)
      BY <1>0, <1>1, StepValues
<1>2. CASE CopyFeature(p)
  <2>1. PICK id : id = lastId'
        OBVIOUS
  <2>2. PICK v : IsOne(v) /\ features' = [features EXCEPT !["parent"][id] = v]
        BY <1>2, <2>1, CopyValues
  <2> QED BY <1>0, <1>2, <2>1, <2>2
<1>3. CASE Carries(p)
  <2>1. features' = [features EXCEPT ![ToDb(p)][Current(p).id] = Source(p)]
        BY <1>3, CarryValues
  <2> QED BY <1>0, <1>3, <2>1
<1> QED BY <1>1, <1>2, <1>3 DEF Carries

(* The same of an edit.                                                     *)
LEMMA CommitNews ==
  ASSUME Sure, NEW e \in edits, CommitEdit(e), NEW side \in Sides, NEW t \in Sessions
  PROVE  /\ rows[side][t] \subseteq rows'[side][t]
         /\ \A r \in rows'[side][t] : r \notin rows[side][t] =>
              /\ side = SideOf(e.db) /\ t \in DOMAIN e.states
              /\ r.id = e.id /\ r.statement = e.statement /\ r.state = e.states[t] /\ r.date = e.date
              /\ \A q \in rows[side][t] : q.n < r.n
         /\ side = SideOf(e.db) /\ t \in DOMAIN e.states =>
              \E r \in rows'[side][t] : r.id = e.id /\ r.statement = e.statement /\ r \notin rows[side][t]
<1>0. TypeInv /\ Table(rows[side][t])
      BY DEF Sure, Calm, TypeInv, Tables
<1>1. CASE rows'[side][t] = rows[side][t] /\ ~(side = SideOf(e.db) /\ t \in DOMAIN e.states)
      BY <1>1
<1>2. CASE side = SideOf(e.db) /\ t \in DOMAIN e.states
  <2>1. PICK r \in Difference :
          /\ rows'[side][t] = rows[side][t] \cup {r} /\ r.n = NextN(rows[side][t])
          /\ r.id = e.id /\ r.statement = e.statement /\ r.state = e.states[t] /\ r.date = e.date
        BY <1>0, <1>2, CommitRows
  <2>2. \A q \in rows[side][t] : q.n < r.n /\ q.n \in Nat
        BY <1>0, <2>1, NextNumber DEF Table, Difference
  <2>3. r \notin rows[side][t]
        BY <2>2
  <2> QED BY <1>2, <2>1, <2>2, <2>3
<1> QED BY <1>0, <1>1, <1>2, CommitRows

LEMMA CommitChange ==
  ASSUME Sure, NEW e \in edits, CommitEdit(e), NEW d \in Dbs, NEW i \in Ids
  PROVE  /\ ~(d = e.db /\ i = e.id) => features'[d][i] = features[d][i]
         /\ d = e.db /\ i = e.id =>
              /\ features'[d][i] = <<>> \/ IsOne(features'[d][i])
              /\ e.statement = "INSERT" => features[d][i] = <<>>
              /\ e.statement # "INSERT" /\ features[d][i] = <<>> => features'[d][i] = <<>>
              /\ e.statement = "DELETE" => features'[d][i] = <<>>
              /\ e.statement # "DELETE" /\ (e.statement # "INSERT" => features[d][i] # <<>>)
                   => IsOne(features'[d][i])
<1>0. TypeInv /\ e.date \in Nat /\ e.statement \in Statements /\ e.db \in Dbs
      BY SureTypes
<1>1. CASE ~(d = e.db /\ i = e.id)
      BY <1>0, <1>1, CommitValues
<1>2. CASE d = e.db /\ i = e.id
  <2> DEFINE old == features[d][i]
  <2>1. old = <<>> \/ IsOne(old)
        BY DEF Sure, Agreed, Single
  <2>2. features'[d][i] = (IF e.statement = "INSERT" THEN Append(old, e.date)
                           ELSE IF old = <<>> THEN <<>>
                           ELSE (IF e.statement = "UPDATE" THEN <<e.date>> ELSE <<>>) \o Tail(old))
        BY <1>0, <1>2, CommitValues
  <2>3. e.statement = "INSERT" => old = <<>>
        BY <1>2 DEF Sure, Agreed, Unborn
  <2>4. Append(<<>>, e.date) = <<e.date>> /\ <<e.date>> \o <<>> = <<e.date>> /\ <<>> \o <<>> = <<>>
        BY <1>0
  <2>5. old # <<>> => Tail(old) = <<>>
        BY <2>1, OneValue
  <2>6. IsOne(<<e.date>>)
        BY <1>0 DEF IsOne
  <2> HIDE DEF old
  <2>7. CASE e.statement = "INSERT"
        BY <1>2, <2>2, <2>3, <2>4, <2>6, <2>7 DEF old
  <2>8. CASE e.statement # "INSERT" /\ old = <<>>
        BY <1>2, <2>2, <2>8 DEF old
  <2>9. CASE e.statement # "INSERT" /\ old # <<>>
    <3>1. features'[d][i] = (IF e.statement = "UPDATE" THEN <<e.date>> ELSE <<>>) \o <<>>
          BY <2>2, <2>5, <2>9
    <3>2. CASE e.statement = "UPDATE"
          BY <1>2, <2>4, <2>6, <2>9, <3>1, <3>2 DEF old
    <3>3. CASE e.statement = "DELETE"
          BY <1>2, <2>4, <2>9, <3>1, <3>3 DEF old
    <3> QED BY <1>0, <2>9, <3>2, <3>3 DEF Statements
  <2> QED BY <2>7, <2>8, <2>9
<1> QED BY <1>1, <1>2

(* An edit that begins is of an object that is there, or new.               *)
LEMMA BegunEdit ==
  ASSUME Sure, NEW d \in Dbs, NEW statement \in Statements, NEW id \in Ids, BeginEdit(d, statement, id)
  PROVE  /\ features' = features /\ rows' = rows /\ session' = session /\ pc' = pc /\ call' = call
         /\ locks' = locks /\ conflicts' = conflicts
         /\ statement = "INSERT" => NewId(id)
         /\ statement # "INSERT" => features[d][id] # <<>>
         /\ \E new : /\ edits' = edits \cup {new} /\ new.db = d /\ new.id = id /\ new.statement = statement
                     /\ new.date = time + 1
                     /\ DOMAIN new.states = Watching(d)
                     /\ \A s \in Watching(d) : new.states[s] = session[SideOf(d)][s].state
<1> DEFINE new == [db |-> d, statement |-> statement, id |-> id, date |-> time',
                   states |-> [s \in Watching(d) |-> session[SideOf(d)][s].state]]
<1>1. edits' = edits \cup {new}
      BY DEF BeginEdit
<1>2. /\ new.db = d /\ new.id = id /\ new.statement = statement /\ DOMAIN new.states = Watching(d)
      /\ new.date = time' /\ \A s \in Watching(d) : new.states[s] = session[SideOf(d)][s].state
      OBVIOUS
<1> HIDE DEF new
<1>3. statement = "INSERT" => NewId(id)
  <2>1. id <= MaxObjects
        BY BoundAssumption DEF Ids
  <2> QED BY <2>1, NextId DEF BeginEdit, Sure
<1> QED BY <1>1, <1>2, <1>3 DEF BeginEdit

------------------------------------------------------------------------------
(* Each part of it is kept.                                                 *)
Begins == \E d \in Dbs, statement \in Statements, id \in Ids : BeginEdit(d, statement, id)

LEMMA SingleKept == ASSUME Sure, Known', [Next]_vars PROVE Single'
<1>1. SUFFICES ASSUME NEW d \in Dbs, NEW i \in Ids PROVE features'[d][i] = <<>> \/ IsOne(features'[d][i])
      BY DEF Single
<1>2. \A x \in Dbs, y \in Ids : features[x][y] = <<>> \/ IsOne(features[x][y])
      BY DEF Sure, Agreed, Single
<1>3. ASSUME NEW p \in Procs, Step(p) PROVE features'[d][i] = <<>> \/ IsOne(features'[d][i])
  <2>1. Carries(p) => FromDb(p) \in Dbs /\ Current(p).id \in Ids
        BY Places, CarryAt DEF Carries
  <2> QED BY <1>2, <1>3, <2>1, StepChange DEF Source
<1>4. CASE Begins \/ UNCHANGED vars
      BY <1>2, <1>4 DEF Begins, BeginEdit, vars, data
<1> QED BY <1>2, <1>3, <1>4, Steps, CommitChange DEF Edit, Begins

LEMMA UnbornKept == ASSUME Sure, Known', [Next]_vars PROVE Unborn'
<1>0. Unborn /\ Calm /\ \A e \in edits : e.id \in Ids
      BY SureTypes DEF Sure, Agreed
<1>1. ASSUME NEW d \in Dbs, NEW statement \in Statements, NEW id \in Ids, BeginEdit(d, statement, id)
      PROVE  Unborn'
  <2>1. PICK new : edits' = edits \cup {new} /\ new.db = d /\ new.id = id /\ new.statement = statement
        BY <1>1, BegunEdit
  <2>2. features' = features /\ rows' = rows
        BY <1>1, BegunEdit
  <2>3. statement = "INSERT" => NewId(id)
        BY <1>1, BegunEdit
  <2>4. ASSUME statement # "INSERT", NEW e \in edits, e.statement = "INSERT" PROVE e.id # id
        BY <1>0, <1>1, <2>4, BegunEdit DEF Unborn
  <2>5. ASSUME NEW e \in edits, e.statement = "INSERT" PROVE e.id # id
        BY <2>3, <2>4, <2>5 DEF NewId
  <2> QED BY <1>0, <2>1, <2>2, <2>3, <2>5 DEF Unborn, NewId
<1>2. ASSUME NEW c \in edits, CommitEdit(c) PROVE Unborn'
  <2>1. edits' = edits \ {c}
        BY <1>2 DEF CommitEdit
  <2>2. SUFFICES ASSUME NEW e \in edits', e.statement = "INSERT"
                 PROVE  /\ \A d \in Dbs : features'[d][e.id] = <<>>
                        /\ \A side \in Sides, s \in Sessions : \A r \in rows'[side][s] : r.id # e.id
                        /\ \A f \in edits' : f.id = e.id => f = e
        BY DEF Unborn
  <2>3. e \in edits /\ c.id # e.id /\ e.id \in Ids
        BY <1>0, <2>1, <2>2 DEF Unborn
  <2>4. /\ \A d \in Dbs : features[d][e.id] = <<>>
        /\ \A side \in Sides, s \in Sessions : \A r \in rows[side][s] : r.id # e.id
        /\ \A f \in edits : f.id = e.id => f = e
        BY <1>0, <2>2, <2>3 DEF Unborn
  <2>5. \A d \in Dbs : features'[d][e.id] = <<>>
        BY <1>2, <2>3, <2>4, CommitChange
  <2>6. \A side \in Sides, s \in Sessions : \A r \in rows'[side][s] : r.id # e.id
        BY <1>2, <2>3, <2>4, CommitNews
  <2> QED BY <2>1, <2>4, <2>5, <2>6
<1>3. ASSUME NEW p \in Procs, Step(p) PROVE Unborn'
  <2>1. edits' = edits
        BY <1>3, Frames DEF Frame
  <2>2. SUFFICES ASSUME NEW e \in edits, e.statement = "INSERT"
                 PROVE  /\ \A d \in Dbs : features'[d][e.id] = <<>>
                        /\ \A side \in Sides, s \in Sessions : \A r \in rows'[side][s] : r.id # e.id
                        /\ \A f \in edits : f.id = e.id => f = e
        BY <2>1 DEF Unborn
  <2>3. /\ \A d \in Dbs : features[d][e.id] = <<>>
        /\ \A side \in Sides, s \in Sessions : \A r \in rows[side][s] : r.id # e.id
        /\ \A f \in edits : f.id = e.id => f = e
        BY <1>0, <2>2 DEF Unborn
  <2>4. Carries(p) => Current(p).id # e.id
        BY <2>3, CarryAt, Places DEF Carries
  <2>5. CopyFeature(p) => lastId' # e.id
    <3>1. PICK id : id = lastId'
          OBVIOUS
    <3> QED BY <3>1, CopyValues DEF NewId
  <2>6. \A d \in Dbs : features'[d][e.id] = <<>>
        BY <1>0, <1>3, <2>3, <2>4, <2>5, StepChange
  <2>7. ASSUME NEW side \in Sides, NEW s \in Sessions, NEW r \in rows'[side][s] PROVE r.id # e.id
        BY <1>3, <2>3, <2>4, <2>5, <2>7, StepNews DEF CarriedOver, CopiedOver
  <2> QED BY <2>3, <2>6, <2>7
<1>4. CASE UNCHANGED vars
      BY <1>0, <1>4 DEF Unborn, vars, data, env
<1> QED BY <1>1, <1>2, <1>3, <1>4, Steps DEF Edit

LEMMA SameCarried ==
  ASSUME pc' = pc, call' = call, NEW side, NEW s, NEW r
  PROVE  IsCarried(side, s, r)' <=> IsCarried(side, s, r)
BY DEF IsCarried, At, From, Current

(* What is written is carried.                                              *)
LEMMA WrittenCarried ==
  ASSUME Sure, NEW p \in Procs, Carries(p), NEW side, side = From(p), NEW r, r = Current(p)
  PROVE  IsCarried(side, SessionOf[p], r)'
<1>1. At(p, "remove")' /\ call' = call /\ Current(p)' = Current(p)
      BY CarryAt DEF Carries
<1>2. From(p)' = From(p)
      BY <1>1 DEF From
<1> QED BY <1>1, <1>2 DEF IsCarried

LEMMA BornHereKept == ASSUME Sure, Known', [Next]_vars PROVE BornHere'
<1>0. /\ BornHere /\ Unborn /\ Calm
      /\ \A s \in Sessions : s \in Dbs /\ s # "parent"
      /\ \A side \in Sides, s \in Sessions : \A r \in rows[side][s] : r.id \in Ids
      BY SureTypes DEF Sure, Agreed
<1>1. ASSUME NEW d \in Dbs, NEW statement \in Statements, NEW id \in Ids, BeginEdit(d, statement, id)
      PROVE  BornHere'
  <2>0. features' = features /\ rows' = rows /\ pc' = pc /\ call' = call
        BY <1>1, BegunEdit
  <2>1. PICK new : edits' = edits \cup {new} /\ new.db = d /\ new.id = id /\ new.statement = statement
        BY <1>1, BegunEdit
  <2>2. SUFFICES ASSUME NEW s \in Sessions, NEW r \in rows["child"][s], r.statement = "INSERT", IsOwn(s, r.id)
                 PROVE  IsOwn(s, r.id)'
        BY <1>0, <2>0, SameCarried DEF BornHere
  <2>3. id = r.id => d = s
    <3>1. statement = "INSERT" => id # r.id
          BY <1>1, BegunEdit DEF NewId, Sides
    <3>2. statement # "INSERT" => features[d][id] # <<>>
          BY <1>1, BegunEdit
    <3> QED BY <2>2, <3>1, <3>2 DEF IsOwn
  <2> QED BY <2>0, <2>1, <2>2, <2>3 DEF IsOwn
<1>2. ASSUME NEW c \in edits, CommitEdit(c) PROVE BornHere'
  <2>0. edits' = edits \ {c} /\ pc' = pc /\ call' = call /\ SideOf(c.db) = (IF c.db = "parent" THEN "parent" ELSE "child")
        /\ (c.db # "parent" => DOMAIN c.states = {c.db}) /\ DOMAIN c.states \subseteq Sessions
        /\ c.id \in Ids /\ c.db \in Dbs
        BY <1>2, SureTypes DEF CommitEdit
  <2>1. SUFFICES ASSUME NEW s \in Sessions, NEW r \in rows'["child"][s], r.statement = "INSERT",
                        ~IsCarried("child", s, r)
                 PROVE  IsOwn(s, r.id)'
        BY <2>0, SameCarried DEF BornHere
  <2>2. IsOwn(s, r.id) /\ r.id \in Ids /\ (r.id = c.id => c.db = s)
    <3>1. CASE r \in rows["child"][s]
      <4>1. IsOwn(s, r.id) /\ r.id \in Ids
            BY <1>0, <2>1, <3>1 DEF BornHere, Sides
      <4> QED BY <4>1 DEF IsOwn
    <3>2. CASE r \notin rows["child"][s]
      <4>1. "child" = SideOf(c.db) /\ s \in DOMAIN c.states /\ r.id = c.id /\ c.statement = "INSERT"
            BY <1>2, <2>1, <3>2, CommitNews DEF Sides
      <4>2. c.db = s
            BY <2>0, <4>1
      <4> QED BY <1>0, <2>0, <4>1, <4>2 DEF Unborn, IsOwn
    <3> QED BY <3>1, <3>2
  <2>3. \A d \in Dbs \ {s} : features'[d][r.id] = features[d][r.id]
        BY <1>2, <2>2, CommitChange
  <2>4. ASSUME NEW side \in Sides, NEW t \in Sessions, NEW q \in rows'[side][t], q.id = r.id
        PROVE  side = "child" /\ t = s
    <3>1. CASE q \in rows[side][t]
          BY <2>2, <2>4, <3>1 DEF IsOwn
    <3>2. CASE q \notin rows[side][t]
      <4>1. side = SideOf(c.db) /\ t \in DOMAIN c.states /\ q.id = c.id
            BY <1>2, <2>4, <3>2, CommitNews
      <4> QED BY <1>0, <2>0, <2>2, <2>4, <4>1
    <3> QED BY <3>1, <3>2
  <2> QED BY <2>0, <2>2, <2>3, <2>4 DEF IsOwn
<1>3. ASSUME NEW p \in Procs, Step(p) PROVE BornHere'
  <2>1. SUFFICES ASSUME NEW s \in Sessions, NEW r \in rows'["child"][s], r.statement = "INSERT",
                        ~IsCarried("child", s, r)'
                 PROVE  IsOwn(s, r.id)'
        BY DEF BornHere
  <2>2. r \in rows["child"][s] /\ edits' = edits
        BY <1>0, <1>3, ChildRowsKept, Frames DEF Frame
  <2>3. ~IsCarried("child", s, r)
        BY <1>0, <1>3, <2>1, CarriedStays DEF Sides
  <2>4. IsOwn(s, r.id) /\ r.id \in Ids
        BY <1>0, <2>1, <2>2, <2>3 DEF BornHere, Sides
  <2>5. Carries(p) => Current(p).id # r.id
    <3>1. SUFFICES ASSUME Carries(p), Current(p).id = r.id PROVE FALSE
          OBVIOUS
    <3>2. Current(p) \in rows[From(p)][SessionOf[p]] /\ SessionOf[p] \in Sessions /\ From(p) \in Sides
          /\ At(p, "apply") /\ call[p].todo # {}
          BY <3>1, CarryAt, Places DEF Carries
    <3>3. From(p) = "child" /\ SessionOf[p] = s
          BY <2>4, <3>1, <3>2 DEF IsOwn
    <3>4. call[p].dir = "checkin"
          BY <1>0, <3>3, Directions
    <3>5. Current(p) \in ChildRows(p)
          BY <1>0, <3>2, <3>4, HandledRow DEF At
    <3>6. r = Current(p)
          BY <1>0, <2>2, <3>1, <3>2, <3>3, <3>5, SoleRow DEF At, Carrying
    <3> QED BY <2>1, <3>1, <3>3, <3>6, WrittenCarried DEF Carries
  <2>6. CopyFeature(p) => lastId' # r.id
    <3>1. PICK id : id = lastId'
          OBVIOUS
    <3> QED BY <2>2, <3>1, CopyValues DEF NewId, Sides
  <2>7. \A d \in Dbs \ {s} : features'[d][r.id] = <<>>
        BY <1>3, <2>4, <2>5, <2>6, StepChange DEF IsOwn
  <2>8. ASSUME NEW side \in Sides, NEW t \in Sessions, NEW q \in rows'[side][t], q.id = r.id
        PROVE  q \in rows[side][t]
        BY <1>3, <2>5, <2>6, <2>8, StepNews DEF CarriedOver, CopiedOver
  <2> QED BY <2>2, <2>4, <2>7, <2>8 DEF IsOwn
<1>4. CASE UNCHANGED vars
      BY <1>0, <1>4 DEF BornHere, IsOwn, IsCarried, At, From, Current, vars, data, env
<1> QED BY <1>1, <1>2, <1>3, <1>4, Steps DEF Edit

LEMMA BornThereKept == ASSUME Sure, Known', [Next]_vars PROVE BornThere'
<1>0. /\ BornThere /\ BornHere /\ Unborn /\ OldestInParent /\ Calm
      /\ \A s \in Sessions : s \in Dbs /\ s # "parent"
      /\ \A side \in Sides, s \in Sessions : \A r \in rows[side][s] : r.id \in Ids /\ r.state \in Nat
      BY SureTypes DEF Sure, Agreed
<1>1. ASSUME NEW d \in Dbs, NEW statement \in Statements, NEW id \in Ids, BeginEdit(d, statement, id)
      PROVE  BornThere'
  <2>0. features' = features /\ rows' = rows /\ pc' = pc /\ call' = call
        BY <1>1, BegunEdit
  <2>1. PICK new : edits' = edits \cup {new} /\ new.db = d /\ new.id = id /\ new.statement = statement
        BY <1>1, BegunEdit
  <2>2. SUFFICES ASSUME NEW s \in Sessions, NEW r \in rows["parent"][s], r.statement = "INSERT", IsUnknown(s, r.id)
                 PROVE  IsUnknown(s, r.id)'
        BY <1>0, <2>0, SameCarried DEF BornThere
  <2>3. id = r.id => d # s
    <3>1. statement = "INSERT" => id # r.id
          BY <1>1, BegunEdit DEF NewId, Sides
    <3>2. statement # "INSERT" => features[d][id] # <<>>
          BY <1>1, BegunEdit
    <3> QED BY <2>2, <3>1, <3>2 DEF IsUnknown
  <2> QED BY <2>0, <2>1, <2>2, <2>3 DEF IsUnknown
<1>2. ASSUME NEW c \in edits, CommitEdit(c) PROVE BornThere'
  <2>0. edits' = edits \ {c} /\ pc' = pc /\ call' = call /\ SideOf(c.db) = (IF c.db = "parent" THEN "parent" ELSE "child")
        /\ (c.db # "parent" => DOMAIN c.states = {c.db}) /\ DOMAIN c.states \subseteq Sessions
        /\ c.id \in Ids /\ c.db \in Dbs
        BY <1>2, SureTypes DEF CommitEdit
  <2>1. SUFFICES ASSUME NEW s \in Sessions, NEW r \in rows'["parent"][s], r.statement = "INSERT",
                        ~IsCarried("parent", s, r)
                 PROVE  IsUnknown(s, r.id)'
        BY <2>0, SameCarried DEF BornThere
  <2>2. IsUnknown(s, r.id) /\ r.id \in Ids /\ (r.id = c.id => c.db # s)
    <3>1. CASE r \in rows["parent"][s]
      <4>1. IsUnknown(s, r.id) /\ r.id \in Ids
            BY <1>0, <2>1, <3>1 DEF BornThere, Sides
      <4> QED BY <4>1 DEF IsUnknown
    <3>2. CASE r \notin rows["parent"][s]
      <4>1. "parent" = SideOf(c.db) /\ r.id = c.id /\ c.statement = "INSERT"
            BY <1>2, <2>1, <3>2, CommitNews DEF Sides
      <4>2. c.db # s
            BY <1>0, <2>0, <4>1
      <4> QED BY <1>0, <2>0, <4>1, <4>2 DEF Unborn, IsUnknown, Sides
    <3> QED BY <3>1, <3>2
  <2>3. features'[s][r.id] = features[s][r.id]
        BY <1>0, <1>2, <2>2, CommitChange
  <2>4. ASSUME NEW q \in rows'["child"][s], q.id = r.id PROVE FALSE
    <3>1. CASE q \in rows["child"][s]
          BY <2>2, <2>4, <3>1 DEF IsUnknown
    <3>2. CASE q \notin rows["child"][s]
      <4>1. "child" = SideOf(c.db) /\ s \in DOMAIN c.states /\ q.id = c.id
            BY <1>2, <2>4, <3>2, CommitNews DEF Sides
      <4> QED BY <1>0, <2>0, <2>2, <2>4, <4>1
    <3> QED BY <3>1, <3>2
  <2> QED BY <2>0, <2>2, <2>3, <2>4 DEF IsUnknown
<1>3. ASSUME NEW p \in Procs, Step(p) PROVE BornThere'
  <2>1. SUFFICES ASSUME NEW s \in Sessions, NEW r \in rows'["parent"][s], r.statement = "INSERT",
                        ~IsCarried("parent", s, r)'
                 PROVE  IsUnknown(s, r.id)'
        BY DEF BornThere
  <2>2. edits' = edits /\ rows'["child"][s] \subseteq rows["child"][s] /\ s \in Dbs /\ "parent" # s
        BY <1>0, <1>3, ChildRowsKept, Frames DEF Frame
  <2>3. CASE r \in rows["parent"][s]
    <3>1. ~IsCarried("parent", s, r)
          BY <1>0, <1>3, <2>1, <2>3, CarriedStays DEF Sides
    <3>2. IsUnknown(s, r.id) /\ r.id \in Ids
          BY <1>0, <2>1, <2>3, <3>1 DEF BornThere, Sides
    <3>3. features'[s][r.id] = features[s][r.id]
      <4>1. SUFFICES ASSUME Carries(p), s = ToDb(p), r.id = Current(p).id PROVE FALSE
            BY <1>3, <2>2, <3>2, StepChange
      <4>2. /\ At(p, "apply") /\ call[p].todo # {}
            /\ call[p].dir # "checkin" /\ From(p) = "parent" /\ SessionOf[p] = s
            BY <1>0, <2>2, <4>1, CarryAt, Directions DEF Carries
      <4>3. Current(p) \in ParentRows(p) /\ Current(p) \in rows["parent"][s] /\ TypeInv
            BY <1>0, <4>2, HandledRow DEF At, Calm
      <4>4. r.state <= Current(p).state /\ Current(p).state <= call[p].parentState /\ call[p].parentState \in Nat
            BY <1>0, <2>1, <2>3, <4>1, <4>2, <4>3 DEF OldestInParent, ParentRows, UpTo, TypeInv, Reading, At
      <4>5. r \in ParentRows(p)
            BY <1>0, <2>3, <4>2, <4>3, <4>4 DEF ParentRows, UpTo, Sides
      <4>6. r = Current(p)
            BY <1>0, <4>1, <4>2, <4>3, <4>5 DEF Calm, Carried, CallInv, Unique, At, Carrying, Thinning
      <4> QED BY <2>1, <4>1, <4>2, <4>6, WrittenCarried DEF Carries
    <3> QED BY <2>2, <3>2, <3>3 DEF IsUnknown
  <2>4. CASE r \notin rows["parent"][s]
    <3>1. CarriedOver(p, "parent", s, r) \/ CopiedOver(p, "parent", s, r)
          BY <1>3, <2>1, <2>4, StepNews DEF Sides
    <3>2. CASE CarriedOver(p, "parent", s, r)
      <4>1. /\ At(p, "apply") /\ call[p].todo # {} /\ call[p].dir = "checkin" /\ s # SessionOf[p]
            /\ r.id = Current(p).id /\ Current(p).statement = "INSERT" /\ SessionOf[p] \in Sessions
            /\ r.id \in Ids /\ ToDb(p) = "parent"
            BY <1>0, <2>1, <3>2, CarryAt, Places, Directions DEF CarriedOver, Carries
      <4>2. IsOwn(SessionOf[p], r.id)
            BY <4>1, TargetOfInsert
      <4>3. features'[s][r.id] = features[s][r.id]
            BY <1>3, <2>2, <3>2, <4>1, StepChange DEF CarriedOver, Carries
      <4> QED BY <2>2, <4>1, <4>2, <4>3 DEF IsOwn, IsUnknown, Sides
    <3>3. CASE CopiedOver(p, "parent", s, r)
      <4>1. NewId(r.id) /\ CopyFeature(p)
        <5>1. PICK id : id = lastId'
              OBVIOUS
        <5> QED BY <3>3, <5>1, CopyValues DEF CopiedOver
      <4>2. features'[s][r.id] = features[s][r.id]
            BY <1>3, <2>2, <4>1, StepChange DEF Carries, NewId
      <4> QED BY <2>2, <4>1, <4>2 DEF NewId, IsUnknown, Sides
    <3> QED BY <3>1, <3>2, <3>3
  <2> QED BY <2>3, <2>4
<1>4. CASE UNCHANGED vars
      BY <1>0, <1>4 DEF BornThere, IsUnknown, IsCarried, At, From, Current, vars, data, env
<1> QED BY <1>1, <1>2, <1>3, <1>4, Steps DEF Edit

LEMMA OldestInChildKept == ASSUME Sure, Known', [Next]_vars PROVE OldestInChild'
<1>0. /\ OldestInChild /\ Unborn /\ Calm
      /\ \A s \in Sessions : \A r \in rows["child"][s] : r.n \in Nat
      BY SureTypes DEF Sure, Agreed, Sides
<1>1. ASSUME NEW c \in edits, CommitEdit(c) PROVE OldestInChild'
  <2>1. SUFFICES ASSUME NEW s \in Sessions, NEW r \in rows'["child"][s], NEW q \in rows'["child"][s],
                        r.statement = "INSERT", q.id = r.id, r # q
                 PROVE  r.n <= q.n
    <3>1. TypeInv'
          BY <1>0, <1>1, TypeInvKept DEF Calm, Next, Edit
    <3>2. \A s \in Sessions : \A r \in rows'["child"][s] : r.n \in Nat
          BY <3>1 DEF TypeInv, TypeOK, Sides, Difference
    <3> QED BY <3>2 DEF OldestInChild
  <2>2. CASE r \in rows["child"][s] /\ q \in rows["child"][s]
        BY <1>0, <2>1, <2>2 DEF OldestInChild
  <2>3. CASE r \in rows["child"][s] /\ q \notin rows["child"][s]
    <3>1. r.n < q.n
          BY <1>1, <2>1, <2>3, CommitNews DEF Sides
    <3>2. r.n \in Nat /\ q.n \in Nat
      <4>1. TypeInv'
            BY <1>0, <1>1, TypeInvKept DEF Calm, Next, Edit
      <4> QED BY <2>1, <4>1 DEF TypeInv, TypeOK, Sides, Difference
    <3> QED BY <3>1, <3>2
  <2>4. CASE r \notin rows["child"][s]
    <3>1. r.id = c.id /\ c.statement = "INSERT"
          BY <1>1, <2>1, <2>4, CommitNews DEF Sides
    <3>2. q \notin rows["child"][s]
          BY <1>0, <2>1, <3>1 DEF Unborn, Sides
    <3>3. \E x \in Difference : rows'["child"][s] = rows["child"][s] \cup {x}
      <4>1. TypeInv
            BY <1>0 DEF Calm
      <4> QED BY <1>1, <2>1, <2>4, <4>1, CommitRows DEF Sides
    <3> QED BY <2>1, <2>4, <3>2, <3>3
  <2> QED BY <2>2, <2>3, <2>4
<1>2. ASSUME NEW p \in Procs, Step(p) PROVE OldestInChild'
  <2>1. \A s \in Sessions : rows'["child"][s] \subseteq rows["child"][s]
        BY <1>0, <1>2, ChildRowsKept
  <2> QED BY <1>0, <2>1 DEF OldestInChild
<1>3. CASE Begins \/ UNCHANGED vars
  <2>1. rows' = rows
        BY <1>3 DEF Begins, BeginEdit, vars, data
  <2> QED BY <1>0, <2>1 DEF OldestInChild
<1> QED BY <1>1, <1>2, <1>3, Steps DEF Edit, Begins

LEMMA ParentStatedKept == ASSUME Sure, Known', [Next]_vars PROVE ParentStated'
<1>0. /\ ParentStated /\ Calm /\ TypeInv /\ Usual' /\ Stated
      /\ \A side \in Sides, s \in Sessions : \A r \in rows[side][s] : r.state \in Nat
      /\ \A s \in Sessions : session["parent"][s].state \in Nat /\ session'["parent"][s].state \in Nat
  <2>1. TypeInv /\ TypeInv'
        BY TypeInvKept DEF Sure, Calm
  <2>2. \A s \in Sessions : session["parent"][s].state \in Nat /\ session'["parent"][s].state \in Nat
        BY <2>1 DEF TypeInv, TypeOK, Session, Sides
  <2> QED BY <2>1, <2>2, SureTypes DEF Sure, Agreed, Calm, Carried, Known, Usual, Without
<1>1. ASSUME NEW c \in edits, CommitEdit(c) PROVE ParentStated'
  <2>0. session' = session
        BY <1>1 DEF CommitEdit
  <2>1. SUFFICES ASSUME NEW s \in Sessions, IsOpen("parent", s), NEW r \in rows'["parent"][s]
                 PROVE  r.state <= session["parent"][s].state
        BY <2>0 DEF ParentStated, IsOpen
  <2>2. CASE r \in rows["parent"][s]
        BY <1>0, <2>1, <2>2 DEF ParentStated
  <2>3. CASE r \notin rows["parent"][s]
    <3>1. "parent" = SideOf(c.db) /\ s \in DOMAIN c.states /\ r.state = c.states[s]
          BY <1>1, <2>1, <2>3, CommitNews DEF Sides
    <3> QED BY <1>0, <2>1, <3>1 DEF Stated
  <2> QED BY <2>2, <2>3
<1>2. ASSUME NEW p \in Procs, Step(p) PROVE ParentStated'
  <2>1. SUFFICES ASSUME NEW s \in Sessions, IsOpen("parent", s)', NEW r \in rows'["parent"][s]
                 PROVE  r.state <= session'["parent"][s].state
        BY DEF ParentStated
  <2>2. IsOpen("parent", s) /\ session["parent"][s].state <= session'["parent"][s].state
        BY <1>0, <1>2, <2>1, SessionGrows DEF Sides
  <2>3. r.state \in Nat /\ r.state <= session["parent"][s].state
    <3>1. CASE r \in rows["parent"][s]
          BY <1>0, <2>2, <3>1 DEF ParentStated, Sides
    <3>2. CASE r \notin rows["parent"][s]
      <4>1. CarriedOver(p, "parent", s, r) \/ CopiedOver(p, "parent", s, r)
            BY <1>2, <2>1, <3>2, StepNews DEF Sides
      <4>2. At(p, "apply") /\ Counted(p) /\ call[p].parentState \in Nat
            BY <1>0, <4>1, CarryAt DEF CarriedOver, CopiedOver, Carries, Writes, Calm, Carried, CallInv, TypeInv, Reading, At
      <4>3. session["parent"][SessionOf[p]].state = call[p].parentState + 1
            BY <4>2 DEF Counted, At, Late, Carrying
      <4> QED BY <1>0, <4>1, <4>2, <4>3 DEF CarriedOver, CopiedOver
    <3> QED BY <3>1, <3>2
  <2> QED BY <1>0, <2>2, <2>3
<1>3. CASE Begins \/ UNCHANGED vars
  <2>1. rows' = rows /\ session' = session
        BY <1>3 DEF Begins, BeginEdit, vars, data
  <2> QED BY <1>0, <2>1 DEF ParentStated, IsOpen
<1> QED BY <1>1, <1>2, <1>3, Steps DEF Edit, Begins

LEMMA OldestInParentKept == ASSUME Sure, Known', [Next]_vars PROVE OldestInParent'
<1>0. /\ OldestInParent /\ Unborn /\ ParentStated /\ Calm /\ TypeInv
      /\ \A side \in Sides, s \in Sessions : \A r \in rows[side][s] : r.state \in Nat /\ r.id \in Ids
      BY SureTypes DEF Sure, Agreed
<1>1. ASSUME NEW d \in Dbs, NEW statement \in Statements, NEW id \in Ids, BeginEdit(d, statement, id)
      PROVE  OldestInParent'
  <2>1. rows' = rows
        BY <1>1, BegunEdit
  <2>2. PICK new : /\ edits' = edits \cup {new} /\ new.db = d /\ new.id = id
                   /\ DOMAIN new.states = Watching(d)
                   /\ \A s \in Watching(d) : new.states[s] = session[SideOf(d)][s].state
        BY <1>1, BegunEdit
  <2>3. ASSUME NEW s \in Sessions, NEW r \in rows["parent"][s], d = "parent", s \in DOMAIN new.states
        PROVE  r.state <= new.states[s]
        BY <1>0, <2>2, <2>3 DEF ParentStated, Watching, SideOf
  <2> QED BY <1>0, <2>1, <2>2, <2>3 DEF OldestInParent
<1>2. ASSUME NEW c \in edits, CommitEdit(c) PROVE OldestInParent'
  <2>0. edits' = edits \ {c} /\ SideOf(c.db) = IF c.db = "parent" THEN "parent" ELSE "child"
        BY <1>2, SureTypes DEF CommitEdit
  <2>1. SUFFICES ASSUME NEW s \in Sessions, NEW r \in rows'["parent"][s], r.statement = "INSERT"
                 PROVE  /\ \A q \in rows'["parent"][s] : q.id = r.id => r.state <= q.state
                        /\ \A e \in edits' : e.id = r.id /\ e.db = "parent" /\ s \in DOMAIN e.states
                             => r.state <= e.states[s]
        BY DEF OldestInParent
  <2>2. CASE r \in rows["parent"][s]
    <3>1. /\ \A q \in rows["parent"][s] : q.id = r.id => r.state <= q.state
          /\ \A e \in edits : e.id = r.id /\ e.db = "parent" /\ s \in DOMAIN e.states => r.state <= e.states[s]
          BY <1>0, <2>1, <2>2 DEF OldestInParent
    <3>2. ASSUME NEW q \in rows'["parent"][s], q \notin rows["parent"][s], q.id = r.id
          PROVE  r.state <= q.state
      <4>1. "parent" = SideOf(c.db) /\ s \in DOMAIN c.states /\ q.id = c.id /\ q.state = c.states[s]
            BY <1>2, <3>2, CommitNews DEF Sides
      <4> QED BY <2>0, <3>1, <3>2, <4>1
    <3> QED BY <2>0, <3>1, <3>2
  <2>3. CASE r \notin rows["parent"][s]
    <3>1. /\ "parent" = SideOf(c.db) /\ s \in DOMAIN c.states
          /\ r.id = c.id /\ c.statement = "INSERT" /\ r.state = c.states[s] /\ r.state \in Nat
          BY <1>2, <2>1, <2>3, CommitNews, SureTypes DEF Sides
    <3>2. /\ \A q \in rows["parent"][s] : q.id # r.id
          /\ \A e \in edits' : e.id # r.id
          BY <1>0, <2>0, <3>1 DEF Unborn, Sides
    <3>3. ASSUME NEW q \in rows'["parent"][s], q.id = r.id PROVE r.state <= q.state
      <4>1. q.state = c.states[s]
            BY <1>2, <3>2, <3>3, CommitNews DEF Sides
      <4> QED BY <3>1, <4>1
    <3> QED BY <3>2, <3>3
  <2> QED BY <2>2, <2>3
<1>3. ASSUME NEW p \in Procs, Step(p) PROVE OldestInParent'
  <2>0. edits' = edits
        BY <1>3, Frames DEF Frame
  <2>1. SUFFICES ASSUME NEW s \in Sessions, NEW r \in rows'["parent"][s], r.statement = "INSERT"
                 PROVE  /\ \A q \in rows'["parent"][s] : q.id = r.id => r.state <= q.state
                        /\ \A e \in edits : e.id = r.id /\ e.db = "parent" /\ s \in DOMAIN e.states
                             => r.state <= e.states[s]
        BY <2>0 DEF OldestInParent
  <2>2. CASE r \in rows["parent"][s]
    <3>1. /\ \A q \in rows["parent"][s] : q.id = r.id => r.state <= q.state
          /\ \A e \in edits : e.id = r.id /\ e.db = "parent" /\ s \in DOMAIN e.states => r.state <= e.states[s]
          BY <1>0, <2>1, <2>2 DEF OldestInParent
    <3>2. ASSUME NEW q \in rows'["parent"][s], q \notin rows["parent"][s], q.id = r.id
          PROVE  r.state <= q.state
      <4>1. CarriedOver(p, "parent", s, q) \/ CopiedOver(p, "parent", s, q)
            BY <1>3, <3>2, StepNews DEF Sides
      <4>2. ~CopiedOver(p, "parent", s, q)
        <5>1. PICK id : id = lastId'
              OBVIOUS
        <5> QED BY <2>2, <3>2, <5>1, CopyValues DEF CopiedOver, NewId, Sides
      <4> QED BY <1>0, <2>2, <4>1, <4>2 DEF CarriedOver, ParentStated, Watching, SideOf
    <3> QED BY <3>1, <3>2
  <2>3. CASE r \notin rows["parent"][s]
    <3>1. CarriedOver(p, "parent", s, r) \/ CopiedOver(p, "parent", s, r)
          BY <1>3, <2>1, <2>3, StepNews DEF Sides
    <3>2. PICK old \in SUBSET Difference : old = rows["parent"][s] /\ rows'["parent"][s] = old \cup {r}
          BY <1>3, <2>1, <2>3, StepNews DEF Sides
    <3>3. /\ \A q \in rows["parent"][s] : q.id # r.id
          /\ \A e \in edits : ~(e.id = r.id /\ e.db = "parent")
      <4>1. CASE CarriedOver(p, "parent", s, r)
        <5>1. /\ At(p, "apply") /\ call[p].todo # {} /\ call[p].dir = "checkin"
              /\ r.id = Current(p).id /\ Current(p).statement = "INSERT"
              BY <2>1, <4>1, CarryAt DEF CarriedOver, Carries
        <5>2. IsOwn(SessionOf[p], r.id) /\ SessionOf[p] # "parent"
              BY <5>1, TargetOfInsert, Places, SessionAssumption
        <5> QED BY <5>2 DEF IsOwn, Sides
      <4>2. CASE CopiedOver(p, "parent", s, r)
        <5>1. PICK id : id = lastId'
              OBVIOUS
        <5>2. NewId(r.id)
              BY <4>2, <5>1, CopyValues DEF CopiedOver
        <5> QED BY <5>2 DEF NewId, Sides
      <4> QED BY <3>1, <4>1, <4>2
    <3>4. r.state \in Nat
      <4>1. TypeInv'
            BY <1>0, <1>3, TypeInvKept DEF Next, Step
      <4> QED BY <2>1, <4>1 DEF TypeInv, TypeOK, Sides, Difference
    <3> QED BY <3>2, <3>3, <3>4
  <2> QED BY <2>2, <2>3
<1>4. CASE UNCHANGED vars
      BY <1>0, <1>4 DEF OldestInParent, vars, data, env
<1> QED BY <1>1, <1>2, <1>3, <1>4, Steps DEF Edit

------------------------------------------------------------------------------
(* Thinning leaves a row of every object but one that was inserted and      *)
(* deleted meanwhile, and the insertion of one that was not deleted.        *)
LEMMA FirstRow ==
  ASSUME NEW T \in SUBSET Difference, T # {}, \A x, y \in T : x.n = y.n => x = y
  PROVE  \E x \in T : \A o \in T \ {x} : Before(x, o)
<1> DEFINE dates == {x.date : x \in T}
<1>0. \A x \in T : x.n \in Nat /\ x.date \in Nat
      BY DEF Difference
<1>1. PICK d \in dates : \A y \in dates : d <= y
  <2>1. dates \in SUBSET Nat /\ dates # {}
        BY <1>0
  <2> HIDE DEF dates
  <2> QED BY <2>1, LeastOf
<1> DEFINE numbers == {x.n : x \in {y \in T : y.date = d}}
<1>2. PICK n \in numbers : \A y \in numbers : n <= y
  <2>1. numbers \in SUBSET Nat /\ numbers # {}
        BY <1>0, <1>1
  <2> HIDE DEF numbers
  <2> QED BY <2>1, LeastOf
<1>3. PICK x \in T : x.date = d /\ x.n = n
      BY <1>2
<1>4. ASSUME NEW o \in T \ {x} PROVE Before(x, o)
  <2>1. x.date <= o.date /\ x.n # o.n
        BY <1>1, <1>3, <1>4
  <2>2. x.date = o.date => x.n <= o.n
        BY <1>2, <1>3, <1>4
  <2> QED BY <1>0, <1>3, <1>4, <2>1, <2>2 DEF Before
<1> QED BY <1>4

LEMMA LastRow ==
  ASSUME NEW T \in SUBSET Difference, T # {}, \A x, y \in T : x.n = y.n => x = y,
         NEW b \in Nat, \A x \in T : x.date <= b /\ x.n <= b
  PROVE  \E x \in T : \A o \in T \ {x} : Before(o, x)
<1> DEFINE dates == {x.date : x \in T}
<1>0. \A x \in T : x.n \in Nat /\ x.date \in Nat
      BY DEF Difference
<1>1. PICK d \in dates : \A y \in dates : y <= d
  <2>1. dates \in SUBSET Nat /\ dates # {} /\ \A y \in dates : y <= b
        BY <1>0
  <2> HIDE DEF dates
  <2> QED BY <2>1, GreatestOf
<1> DEFINE numbers == {x.n : x \in {y \in T : y.date = d}}
<1>2. PICK n \in numbers : \A y \in numbers : y <= n
  <2>1. numbers \in SUBSET Nat /\ numbers # {} /\ \A y \in numbers : y <= b
        BY <1>0, <1>1
  <2> HIDE DEF numbers
  <2> QED BY <2>1, GreatestOf
<1>3. PICK x \in T : x.date = d /\ x.n = n
      BY <1>2
<1>4. ASSUME NEW o \in T \ {x} PROVE Before(o, x)
  <2>1. o.date <= x.date /\ x.n # o.n
        BY <1>1, <1>3, <1>4
  <2>2. x.date = o.date => o.n <= x.n
        BY <1>2, <1>3, <1>4
  <2> QED BY <1>0, <1>3, <1>4, <2>1, <2>2 DEF Before
<1> QED BY <1>4

LEMMA OneFirst ==
  ASSUME NEW T \in SUBSET Difference, NEW x \in T, NEW y \in T,
         \/ (\A o \in T \ {x} : Before(x, o)) /\ (\A o \in T \ {y} : Before(y, o))
         \/ (\A o \in T \ {x} : Before(o, x)) /\ (\A o \in T \ {y} : Before(o, y))
  PROVE  x = y
<1>1. x.n \in Nat /\ x.date \in Nat /\ y.n \in Nat /\ y.date \in Nat
      BY DEF Difference
<1>2. SUFFICES ASSUME x # y PROVE FALSE
      OBVIOUS
<1>3. Before(x, y) /\ Before(y, x)
      BY <1>2
<1> QED BY <1>1, <1>3 DEF Before

(* What is kept of the differences of an object.                            *)
Kept(same) ==
  LET first == CHOOSE q \in same : \A o \in same \ {q} : Before(q, o)
      last == CHOOSE q \in same : \A o \in same \ {q} : Before(o, q)
  IN IF first.statement = "INSERT" /\ last.statement = "UPDATE" THEN {first}
     ELSE IF first.statement = "INSERT" /\ last.statement = "DELETE" THEN {}
     ELSE {last}

LEMMA KeptStays ==
  ASSUME NEW T, NEW state, NEW q \in T, q \in Kept({x \in T : x.id = q.id})
  PROVE  q \in Thinned(T, state)
BY DEF Thinned, Kept

LEMMA ThinnedSome ==
  ASSUME NEW T, Table(T), \A x, y \in T : x.n = y.n => x = y, NEW b \in Nat, \A x \in T : x.date <= b,
         NEW state \in Nat, NEW r \in T
  PROVE  \/ \E q \in Thinned(T, state) : q.id = r.id
         \/ \E x, y \in T : x.id = r.id /\ y.id = r.id /\ x.statement = "INSERT" /\ y.statement = "DELETE"
<1> DEFINE same == {x \in T : x.id = r.id}
           first == CHOOSE x \in same : \A o \in same \ {x} : Before(x, o)
           last == CHOOSE x \in same : \A o \in same \ {x} : Before(o, x)
           kept == IF first.statement = "INSERT" /\ last.statement = "UPDATE" THEN {first}
                   ELSE IF first.statement = "INSERT" /\ last.statement = "DELETE" THEN {}
                   ELSE {last}
<1>1. r \in same /\ same \in SUBSET Difference /\ same \subseteq T
      BY DEF Table
<1>2. PICK c \in Nat : \A x \in T : x.date <= c /\ x.n <= c
  <2>1. PICK c \in Nat : \A x \in T : x.n <= c
        BY DEF Table
  <2>2. \A x \in T : x.n \in Nat /\ x.date \in Nat
        BY DEF Table, Difference
  <2>3. CASE c <= b
        BY <2>1, <2>2, <2>3
  <2>4. CASE b <= c
        BY <2>1, <2>2, <2>4
  <2> QED BY <2>3, <2>4
<1>3. first \in same
  <2>1. same # {} /\ \A x, y \in same : x.n = y.n => x = y
        BY <1>1
  <2> HIDE DEF same
  <2>2. \E x \in same : \A o \in same \ {x} : Before(x, o)
        BY <1>1, <2>1, FirstRow
  <2> QED BY <2>2
<1>4. last \in same
  <2>1. same # {} /\ (\A x, y \in same : x.n = y.n => x = y) /\ \A x \in same : x.date <= c /\ x.n <= c
        BY <1>1, <1>2
  <2> HIDE DEF same
  <2>2. \E x \in same : \A o \in same \ {x} : Before(o, x)
        BY <1>1, <2>1, LastRow
  <2> QED BY <2>2
<1>5. \A q \in same : {x \in T : x.id = q.id} = same
      OBVIOUS
<1>6. ASSUME NEW q \in kept PROVE q \in Thinned(T, state) /\ q.id = r.id
  <2>1. q \in same
    <3> HIDE DEF first, last
    <3> QED BY <1>3, <1>4, <1>6
  <2>2. q \in T /\ q.id = r.id
        BY <2>1
  <2>3. {x \in T : x.id = q.id} = same
        BY <2>2
  <2>4. q \in Kept(same)
        BY <1>6 DEF Kept
  <2> HIDE DEF same
  <2>5. q \in Kept({x \in T : x.id = q.id})
        BY <2>3, <2>4
  <2> QED BY <2>2, <2>5, KeptStays
<1>7. CASE kept = {}
  <2>1. first.statement = "INSERT" /\ last.statement = "DELETE"
    <3> HIDE DEF first, last
    <3> QED BY <1>7
  <2> HIDE DEF first, last
  <2> QED BY <1>3, <1>4, <2>1
<1> HIDE DEF kept
<1> QED BY <1>6, <1>7

LEMMA ThinnedFirst ==
  ASSUME NEW T, Table(T), \A x, y \in T : x.n = y.n => x = y, NEW b \in Nat, \A x \in T : x.date <= b,
         \A x, y \in T : x.id = y.id /\ x.n < y.n => x.date <= y.date,
         \A x, y \in T : x.statement = "INSERT" /\ y.id = x.id => x.n <= y.n,
         NEW state \in Nat, NEW r \in T, r.statement = "INSERT",
         \A q \in T : q.id = r.id => q.statement # "DELETE"
  PROVE  r \in Thinned(T, state)
<1> DEFINE same == {x \in T : x.id = r.id}
           first == CHOOSE x \in same : \A o \in same \ {x} : Before(x, o)
           last == CHOOSE x \in same : \A o \in same \ {x} : Before(o, x)
           kept == IF first.statement = "INSERT" /\ last.statement = "UPDATE" THEN {first}
                   ELSE IF first.statement = "INSERT" /\ last.statement = "DELETE" THEN {}
                   ELSE {last}
<1>1. r \in same /\ same \in SUBSET Difference /\ same \subseteq T
      BY DEF Table
<1>2. PICK c \in Nat : \A x \in T : x.date <= c /\ x.n <= c
  <2>1. PICK c \in Nat : \A x \in T : x.n <= c
        BY DEF Table
  <2>2. \A x \in T : x.n \in Nat /\ x.date \in Nat
        BY DEF Table, Difference
  <2>3. CASE c <= b
        BY <2>1, <2>2, <2>3
  <2>4. CASE b <= c
        BY <2>1, <2>2, <2>4
  <2> QED BY <2>3, <2>4
<1>3. \A o \in same \ {r} : Before(r, o)
  <2>1. SUFFICES ASSUME NEW o \in same \ {r} PROVE Before(r, o)
        OBVIOUS
  <2>2. r.n \in Nat /\ o.n \in Nat /\ r.date \in Nat /\ o.date \in Nat
        BY DEF Table, Difference
  <2>3. r.n < o.n
        BY <2>2
  <2>4. r.date <= o.date
        BY <2>3
  <2> QED BY <2>2, <2>3, <2>4 DEF Before
<1>4. first = r
  <2> HIDE DEF same
  <2>1. first \in same /\ \A o \in same \ {first} : Before(first, o)
        BY <1>1, <1>3
  <2> HIDE DEF first
  <2> QED BY <1>1, <1>3, <2>1, OneFirst
<1>5. last \in same
  <2>1. same # {} /\ (\A x, y \in same : x.n = y.n => x = y) /\ \A x \in same : x.date <= c /\ x.n <= c
        BY <1>1, <1>2
  <2> HIDE DEF same
  <2>2. \E x \in same : \A o \in same \ {x} : Before(o, x)
        BY <1>1, <2>1, LastRow
  <2> QED BY <2>2
<1>6. r \in kept
  <2> HIDE DEF first, last
  <2>1. last.statement \in {"INSERT", "UPDATE"} /\ last.n \in Nat /\ r.n \in Nat /\ last \in T /\ last.id = r.id
        BY <1>1, <1>5 DEF Table, Difference, Statements
  <2>2. CASE last.statement = "INSERT"
    <3>1. last.n = r.n
          BY <2>1, <2>2
    <3>2. last = r
          BY <2>1, <3>1
    <3> QED BY <2>2, <3>2
  <2>3. CASE last.statement = "UPDATE"
        BY <1>4, <2>3
  <2> QED BY <2>1, <2>2, <2>3
<1> QED BY <1>6 DEF Thinned

(* ... and a deletion that is the last difference of an object stays.       *)
LEMMA ThinnedLast ==
  ASSUME NEW T, Table(T), \A x, y \in T : x.n = y.n => x = y,
         NEW state \in Nat, NEW r \in T, r.statement = "DELETE",
         \A q \in T : q.id = r.id => q.n <= r.n /\ q.date <= r.date /\ q.statement # "INSERT"
  PROVE  r \in Thinned(T, state)
<1> DEFINE same == {x \in T : x.id = r.id}
           first == CHOOSE x \in same : \A o \in same \ {x} : Before(x, o)
           last == CHOOSE x \in same : \A o \in same \ {x} : Before(o, x)
           kept == IF first.statement = "INSERT" /\ last.statement = "UPDATE" THEN {first}
                   ELSE IF first.statement = "INSERT" /\ last.statement = "DELETE" THEN {}
                   ELSE {last}
<1>1. r \in same /\ same \in SUBSET Difference /\ same \subseteq T
      BY DEF Table
<1>2. \A o \in same \ {r} : Before(o, r)
  <2>1. SUFFICES ASSUME NEW o \in same \ {r} PROVE Before(o, r)
        OBVIOUS
  <2>2. r.n \in Nat /\ o.n \in Nat /\ r.date \in Nat /\ o.date \in Nat
        BY DEF Table, Difference
  <2>3. o.n < r.n /\ o.date <= r.date
        BY <2>2
  <2> QED BY <2>2, <2>3 DEF Before
<1>3. last = r
  <2> HIDE DEF same
  <2>1. last \in same /\ \A o \in same \ {last} : Before(o, last)
        BY <1>1, <1>2
  <2> HIDE DEF last
  <2> QED BY <1>1, <1>2, <2>1, OneFirst
<1>4. first \in same
  <2>1. same # {} /\ \A x, y \in same : x.n = y.n => x = y
        BY <1>1
  <2> HIDE DEF same
  <2>2. \E x \in same : \A o \in same \ {x} : Before(x, o)
        BY <1>1, <2>1, FirstRow
  <2> QED BY <2>2
<1>5. r \in kept
  <2> HIDE DEF first, last
  <2>1. first.statement # "INSERT"
        BY <1>4
  <2> QED BY <1>3, <2>1
<1> QED BY <1>5 DEF Thinned

------------------------------------------------------------------------------
LEMMA DeadKept == ASSUME Sure, Known', [Next]_vars PROVE Dead'
<1>0. /\ Dead /\ Unborn /\ Calm
      /\ \A side \in Sides, s \in Sessions : Db(side, s) \in Dbs
      /\ \A side \in Sides, s \in Sessions : \A r \in rows[side][s] : r.id \in Ids
      BY SureTypes, SidesOfDbs DEF Sure, Agreed, Dbs
<1>1. ASSUME NEW c \in edits, CommitEdit(c) PROVE Dead'
  <2>0. /\ SideOf(c.db) = (IF c.db = "parent" THEN "parent" ELSE "child")
        /\ (c.db # "parent" => DOMAIN c.states = {c.db}) /\ DOMAIN c.states \subseteq Sessions
        /\ c.id \in Ids /\ c.db \in Dbs
        BY SureTypes
  <2>1. SUFFICES ASSUME NEW side \in Sides, NEW s \in Sessions, NEW r \in rows'[side][s], r.statement = "DELETE"
                 PROVE  features'[Db(side, s)][r.id] = <<>>
        BY DEF Dead
  <2>2. CASE r \in rows[side][s]
    <3>1. features[Db(side, s)][r.id] = <<>> /\ Db(side, s) \in Dbs /\ r.id \in Ids
          BY <1>0, <2>1, <2>2 DEF Dead
    <3>2. r.id = c.id => c.statement # "INSERT"
          BY <1>0, <2>2 DEF Unborn
    <3> QED BY <1>1, <3>1, <3>2, CommitChange
  <2>3. CASE r \notin rows[side][s]
    <3>1. side = SideOf(c.db) /\ s \in DOMAIN c.states /\ r.id = c.id /\ c.statement = "DELETE"
          BY <1>1, <2>1, <2>3, CommitNews
    <3>2. Db(side, s) = c.db
          BY <2>0, <3>1 DEF Db
    <3> QED BY <1>1, <2>0, <3>1, <3>2, CommitChange
  <2> QED BY <2>2, <2>3
<1>2. ASSUME NEW p \in Procs, Step(p) PROVE Dead'
  <2>1. SUFFICES ASSUME NEW side \in Sides, NEW s \in Sessions, NEW r \in rows'[side][s], r.statement = "DELETE"
                 PROVE  features'[Db(side, s)][r.id] = <<>>
        BY DEF Dead
  <2>2. CASE r \in rows[side][s]
    <3>1. features[Db(side, s)][r.id] = <<>> /\ Db(side, s) \in Dbs /\ r.id \in Ids
          BY <1>0, <2>1, <2>2 DEF Dead
    <3>2. CASE side = "child"
      <4>1. features'[s][r.id] = features[s][r.id]
            BY <1>0, <1>2, <2>2, <3>1, <3>2, ChildUntouched
      <4>2. Db(side, s) = s
            BY <3>2 DEF Db
      <4> QED BY <3>1, <4>1, <4>2
    <3>3. CASE side = "parent"
      <4>1. Db(side, s) = "parent"
            BY <3>3 DEF Db
      <4>2. SUFFICES ASSUME Carries(p), "parent" = ToDb(p), r.id = Current(p).id, Source(p) # <<>> PROVE FALSE
        <5>1. CopyFeature(p) => lastId' # r.id
          <6>1. PICK id : id = lastId'
                OBVIOUS
          <6> QED BY <2>2, <6>1, CopyValues DEF NewId
        <5> QED BY <1>2, <3>1, <4>1, <5>1, StepChange
      <4>3. Target(p) = <<>> /\ InsertFeature(p)
            BY <3>1, <4>1, <4>2 DEF Target, Carries, Writes, ChangeFeature
      <4>4. call[p].dir = "checkin" /\ At(p, "apply") /\ call[p].todo # {}
        <5>1. SessionOf[p] # "parent"
              BY SureTypes, Places
        <5> QED BY <1>0, <4>2, <5>1, CarryAt, Directions DEF Carries
      <4>5. Current(p).statement = "INSERT"
            BY <4>3, <4>4, InsertsInserted
      <4>6. IsOwn(SessionOf[p], r.id)
            BY <4>2, <4>4, <4>5, TargetOfInsert
      <4> QED BY <2>2, <3>3, <4>6 DEF IsOwn
    <3> QED BY <3>2, <3>3 DEF Sides
  <2>3. CASE r \notin rows[side][s]
    <3>1. CarriedOver(p, side, s, r)
          BY <1>2, <2>1, <2>3, StepNews DEF CopiedOver
    <3>2. /\ Carries(p) /\ r.id = Current(p).id /\ Current(p).statement = "DELETE"
          /\ Db(side, s) = "parent" /\ ToDb(p) = "parent" /\ r.id \in Ids
          /\ features \in [Dbs -> [Ids -> Seq(Nat)]] /\ "parent" \in Dbs
          BY <1>0, <2>1, <3>1, Directions, CarryAt DEF CarriedOver, Db, Carries, Dbs, Calm, TypeInv, TypeOK
    <3>3. features' = [features EXCEPT !["parent"][r.id] = Source(p)]
          BY <3>2, CarryValues
    <3>4. Source(p) = <<>>
      <4>1. Current(p) \in rows[From(p)][SessionOf[p]] /\ From(p) \in Sides /\ SessionOf[p] \in Sessions
            BY <3>2, CarryAt, Places DEF Carries
      <4> QED BY <1>0, <3>2, <4>1 DEF Dead, Source, FromDb
    <3> QED BY <3>2, <3>3, <3>4
  <2> QED BY <2>2, <2>3
<1>3. CASE Begins \/ UNCHANGED vars
  <2>1. rows' = rows /\ features' = features
        BY <1>3 DEF Begins, BeginEdit, vars, data
  <2> QED BY <1>0, <2>1 DEF Dead
<1> QED BY <1>1, <1>2, <1>3, Steps DEF Edit, Begins

LEMMA StillOpen ==
  ASSUME Calm, Known', NEW p \in Procs, Step(p), NEW s \in Sessions, BothOpen(s)'
  PROVE  BothOpen(s) /\ ~(s = SessionOf[p] /\ (ReleaseChild(p) \/ ReleaseParent(p)))
<1>1. TypeInv /\ Usual'
      BY DEF Calm, Known, Usual, Without
<1>2. BothOpen(s)
      BY <1>1, SessionGrows DEF BothOpen, Sides
<1>3. session \in [Sides -> [Sessions -> Session]]
      BY <1>1 DEF TypeInv, TypeOK
<1>4. ASSUME s = SessionOf[p], ReleaseChild(p) PROVE FALSE
  <2>1. session' = [session EXCEPT !["child"][s] = Closed]
        BY <1>4 DEF ReleaseChild
  <2> QED BY <1>3, <2>1 DEF BothOpen, IsOpen, Closed, Sides
<1>5. ASSUME s = SessionOf[p], ReleaseParent(p) PROVE FALSE
  <2>1. session' = [session EXCEPT !["parent"][s] = Closed]
        BY <1>5 DEF ReleaseParent
  <2> QED BY <1>3, <2>1 DEF BothOpen, IsOpen, Closed, Sides
<1> QED BY <1>2, <1>4, <1>5

(* Where a step makes the sides differ it leaves a row in the parent.       *)
LEMMA StepDiffers ==
  ASSUME Sure, Known', NEW p \in Procs, Step(p), NEW s \in Sessions, NEW i \in Ids, BothOpen(s),
         features'["parent"][i] # features'[s][i]
  PROVE  \/ features'["parent"][i] = features["parent"][i] /\ features'[s][i] = features[s][i]
         \/ \E r \in rows'["parent"][s] : r.id = i /\ (features'["parent"][i] = <<>> => r.statement = "DELETE")
<1>0. /\ Calm /\ s \in Dbs /\ s # "parent" /\ "parent" \in Dbs /\ s \in Watching("parent")
      /\ SessionOf[p] # "parent"
      BY SureTypes, Places DEF Sure, BothOpen, Watching, SideOf, Dbs
<1>1. CASE CopyFeature(p) /\ i = lastId'
  <2>1. PICK id : id = lastId'
        OBVIOUS
  <2>2. IsOne(features'["parent"][i])
    <3>1. features \in [Dbs -> [Ids -> Seq(Nat)]]
          BY <1>0 DEF Calm, TypeInv, TypeOK
    <3> QED BY <1>0, <1>1, <2>1, <3>1, CopyValues
  <2>3. features'["parent"][i] # <<>>
        BY <2>2, OneValue
  <2> QED BY <1>0, <1>1, <2>1, <2>3, CopyRows DEF Sides
<1>2. CASE Carries(p) /\ i = Current(p).id
  <2>1. CASE call[p].dir = "checkin"
    <3>1. ToDb(p) = "parent" /\ FromDb(p) = SessionOf[p]
          BY <1>0, <2>1, Directions
    <3>2. features'[s][i] = features[s][i]
          BY <1>0, <1>2, <3>1, StepChange DEF Carries
    <3>3. CASE s = SessionOf[p]
      <4>1. features'["parent"][i] = features["parent"][i] \/ features'["parent"][i] = Source(p)
            BY <1>0, <1>2, <3>1, StepChange DEF Carries
      <4> QED BY <1>2, <3>1, <3>2, <3>3, <4>1 DEF Source
    <3>4. CASE s # SessionOf[p]
      <4>1. PICK r \in rows'["parent"][s] : r.id = i /\ r.statement = Current(p).statement
            BY <1>0, <1>2, <2>1, <3>4, CarryRows DEF Sides
      <4>2. Current(p).statement # "DELETE" => features'["parent"][i] # <<>>
        <5>1. features \in [Dbs -> [Ids -> Seq(Nat)]]
              BY <1>0 DEF Calm, TypeInv, TypeOK
        <5>2. features'["parent"][i] = Source(p)
              BY <1>0, <1>2, <3>1, <5>1, CarryValues
        <5> QED BY <1>2, <5>2 DEF Carries, Writes, InsertFeature, ChangeFeature
      <4> QED BY <4>1, <4>2
    <3> QED BY <3>3, <3>4
  <2>2. CASE call[p].dir # "checkin"
    <3>1. ToDb(p) = SessionOf[p] /\ FromDb(p) = "parent"
          BY <1>0, <2>2, Directions
    <3>2. features'["parent"][i] = features["parent"][i]
          BY <1>0, <1>2, <3>1, StepChange DEF Carries
    <3>3. features'[s][i] = features[s][i] \/ features'[s][i] = Source(p)
          BY <1>0, <1>2, <3>1, StepChange DEF Carries
    <3> QED BY <1>2, <3>1, <3>2, <3>3 DEF Source
  <2> QED BY <2>1, <2>2
<1> QED BY <1>0, <1>1, <1>2, StepChange

(* What is removed is known elsewhere, or over.                             *)
LEMMA RemoveLeaves ==
  ASSUME Sure, Known', NEW p \in Procs, RemoveRow(p), NEW side \in Sides,
         NEW r \in rows[side][SessionOf[p]], r \notin rows'[side][SessionOf[p]]
  PROVE  \/ features["parent"][r.id] = features[SessionOf[p]][r.id]
         \/ \E q \in rows'["parent"][SessionOf[p]] :
              q.id = r.id /\ (features["parent"][r.id] = <<>> => q.statement = "DELETE")
         \/ features["parent"][r.id] # <<>> /\ \E q \in rows'["child"][SessionOf[p]] : q.id = r.id
<1>0. Calm /\ Settled(p) /\ At(p, "remove") /\ pc[p] \in Done /\ Usual'
      BY DEF Sure, Agreed, RemoveRow, Done, At, Known
<1>1. /\ rows'[From(p)][SessionOf[p]] = rows[From(p)][SessionOf[p]] \ {Current(p)}
      /\ rows'[To(p)][SessionOf[p]] = rows[To(p)][SessionOf[p]]
      BY <1>0, RemovedRow
<1>2. r = Current(p)
  <2>1. side = From(p) \/ side = To(p)
        BY DEF Sides, From, To
  <2> QED BY <1>1, <2>1
<1>3. CASE call[p].dir = "checkin"
      BY <1>0, <1>1, <1>2, <1>3, Directions DEF Settled
<1>4. CASE call[p].dir # "checkin"
      BY <1>0, <1>1, <1>2, <1>4, Directions DEF Settled
<1> QED BY <1>3, <1>4

(* Thinning is of one side, the other stays as it is.                       *)
LEMMA ThinStep ==
  ASSUME Calm, NEW p \in Procs, Thin(p), NEW side \in Sides
  PROVE  /\ \/ rows'[side][SessionOf[p]] = Thinned(rows[side][SessionOf[p]], StateOf(p, side))
            \/ rows'[side][SessionOf[p]] = rows[side][SessionOf[p]]
         /\ StateOf(p, side) \in Nat /\ features' = features /\ SessionOf[p] \in Sessions
         /\ pc[p] \in Thinning
<1>0. TypeInv /\ SessionOf[p] \in Sessions /\ pc[p] \in Thinning
      BY Places DEF Calm, Thin, At, Thinning
<1>1. PICK any \in Sides : ThinSide(p, any)
      BY DEF Thin, Sides
<1>2. rows \in [Sides -> [Sessions -> SUBSET Difference]]
      BY <1>0 DEF TypeInv, TypeOK
<1>3. rows' = [rows EXCEPT ![any][SessionOf[p]] = Thinned(rows[any][SessionOf[p]], StateOf(p, any))]
      BY <1>1 DEF ThinSide
<1>4. StateOf(p, side) \in Nat
      BY <1>0 DEF TypeInv, Reading, At, StateOf, Thinning
<1> QED BY <1>0, <1>2, <1>3, <1>4 DEF Thin

LEMMA ThinLeaves ==
  ASSUME Sure, NEW p \in Procs, Thin(p), NEW side \in Sides, NEW r \in rows[side][SessionOf[p]]
  PROVE  \/ \E q \in rows'[side][SessionOf[p]] : q.id = r.id
         \/ features["parent"][r.id] = <<>> /\ features[SessionOf[p]][r.id] = <<>>
<1> DEFINE s == SessionOf[p]
           T == rows[side][s]
<1>0. /\ Calm /\ s \in Sessions /\ s # "parent" /\ "parent" \in Dbs
      /\ Db("parent", s) = "parent" /\ Db("child", s) = s
      BY SureTypes, Places DEF Dbs, Db
<1>1. /\ rows'[side][s] = Thinned(T, StateOf(p, side)) \/ rows'[side][s] = T
      /\ StateOf(p, side) \in Nat /\ ~At(p, "idle") /\ ~At(p, "remove")
      BY <1>0, ThinStep DEF Thinning, At
<1>2. Table(T) /\ (\A x, y \in T : x.n = y.n => x = y) /\ time \in Nat /\ \A x \in T : x.date <= time
      BY <1>0 DEF Calm, TypeInv, TypeOK, Tables, DataInv, Numbered, Low
<1>3. ASSUME NEW x \in T, NEW y \in T, x.id = r.id, y.id = r.id, x.statement = "INSERT", y.statement = "DELETE"
      PROVE  features["parent"][r.id] = <<>> /\ features[s][r.id] = <<>>
  <2>1. features[Db(side, s)][r.id] = <<>>
        BY <1>0, <1>3 DEF Sure, Agreed, Dead
  <2>2. ~IsCarried(side, s, x)
        BY <1>0, <1>1, NotCarried
  <2>3. CASE side = "child"
    <3>1. IsOwn(s, r.id)
          BY <1>0, <1>3, <2>2, <2>3 DEF Sure, Agreed, BornHere
    <3> QED BY <1>0, <2>1, <2>3, <3>1 DEF IsOwn
  <2>4. CASE side = "parent"
    <3>1. IsUnknown(s, r.id)
          BY <1>0, <1>3, <2>2, <2>4 DEF Sure, Agreed, BornThere
    <3> QED BY <1>0, <2>1, <2>4, <3>1 DEF IsUnknown
  <2> QED BY <2>3, <2>4 DEF Sides
<1> HIDE DEF T
<1>4. r \in T
      BY DEF T
<1>5. \/ \E q \in Thinned(T, StateOf(p, side)) : q.id = r.id
      \/ \E x, y \in T : x.id = r.id /\ y.id = r.id /\ x.statement = "INSERT" /\ y.statement = "DELETE"
      BY <1>1, <1>2, <1>4, ThinnedSome
<1> QED BY <1>1, <1>3, <1>4, <1>5

(* The rows of a session a step takes away.                                 *)
LEMMA LostOf ==
  ASSUME Sure, Known', NEW p \in Procs, Step(p), NEW side \in Sides, NEW s \in Sessions, BothOpen(s)',
         NEW r \in rows[side][s], r \notin rows'[side][s]
  PROVE  s = SessionOf[p] /\ (Thin(p) \/ RemoveRow(p)) /\ features' = features
<1>1. Calm /\ TypeInv
      BY DEF Sure, Calm
<1>2. Loses(p) /\ s = SessionOf[p]
      BY <1>1, StepRows
<1>3. Thin(p) \/ RemoveRow(p)
      BY <1>1, <1>2, StillOpen DEF Loses
<1> QED BY <1>2, <1>3 DEF Thin, RemoveRow

LEMMA DifferingKept == ASSUME Sure, Known', [Next]_vars PROVE Differing'
<1>0. /\ Differing /\ Calm /\ Seen /\ "parent" \in Dbs /\ "parent" \in Sides /\ "child" \in Sides
      /\ \A s \in Sessions : s \in Dbs /\ s # "parent"
      BY SureTypes DEF Sure, Agreed, Calm, Carried, Dbs, Sides
<1>1. ASSUME NEW c \in edits, CommitEdit(c) PROVE Differing'
  <2>0. /\ session' = session /\ SideOf(c.db) = (IF c.db = "parent" THEN "parent" ELSE "child")
        /\ Watching(c.db) \subseteq DOMAIN c.states
        BY <1>1, SureTypes DEF CommitEdit
  <2>1. SUFFICES ASSUME NEW s \in Sessions, NEW i \in Ids, BothOpen(s), features'["parent"][i] # features'[s][i]
                 PROVE  \E side \in Sides : \E r \in rows'[side][s] : r.id = i
        BY <2>0 DEF Differing, BothOpen, IsOpen
  <2>2. CASE features["parent"][i] # features[s][i]
    <3>1. PICK side \in Sides : \E r \in rows[side][s] : r.id = i
          BY <1>0, <2>1, <2>2 DEF Differing
    <3> QED BY <1>1, <3>1, CommitNews
  <2>3. CASE features["parent"][i] = features[s][i]
    <3>1. i = c.id /\ c.db \in {"parent", s}
          BY <1>0, <1>1, <2>1, <2>3, CommitChange
    <3>2. s \in Watching(c.db)
          BY <1>0, <2>0, <2>1, <3>1 DEF BothOpen, Watching
    <3>3. SideOf(c.db) \in Sides /\ s \in DOMAIN c.states
          BY <2>0, <3>2 DEF Sides
    <3> QED BY <1>1, <3>1, <3>3, CommitNews
  <2> QED BY <2>2, <2>3
<1>2. ASSUME NEW p \in Procs, Step(p) PROVE Differing'
  <2>1. SUFFICES ASSUME NEW s \in Sessions, NEW i \in Ids, BothOpen(s)', features'["parent"][i] # features'[s][i]
                 PROVE  \E side \in Sides : \E r \in rows'[side][s] : r.id = i
        BY DEF Differing
  <2>2. BothOpen(s)
        BY <1>0, <1>2, <2>1, StillOpen
  <2>3. CASE \E r \in rows'["parent"][s] : r.id = i
        BY <2>3 DEF Sides
  <2>4. CASE features["parent"][i] # features[s][i]
    <3>1. PICK side \in Sides : \E r \in rows[side][s] : r.id = i
          BY <1>0, <2>1, <2>2, <2>4 DEF Differing
    <3>2. PICK r \in rows[side][s] : r.id = i
          BY <3>1
    <3>3. CASE r \notin rows'[side][s]
      <4>1. s = SessionOf[p] /\ (Thin(p) \/ RemoveRow(p))
            BY <1>2, <2>1, <3>3, LostOf
      <4>2. CASE Thin(p)
            BY <2>4, <3>2, <4>1, <4>2, ThinLeaves
      <4>3. CASE RemoveRow(p)
        <5>1. (\E q \in rows'["parent"][s] : q.id = r.id) \/ (\E q \in rows'["child"][s] : q.id = r.id)
              BY <2>4, <3>2, <3>3, <4>1, <4>3, RemoveLeaves
        <5> QED BY <1>0, <3>2, <5>1
      <4> QED BY <4>1, <4>2, <4>3
    <3> QED BY <3>2, <3>3
  <2> QED BY <1>2, <2>1, <2>2, <2>3, <2>4, StepDiffers
<1>3. CASE Begins \/ UNCHANGED vars
  <2>1. rows' = rows /\ features' = features /\ session' = session
        BY <1>3 DEF Begins, BeginEdit, vars, data
  <2> QED BY <1>0, <2>1 DEF Differing, BothOpen, IsOpen
<1> QED BY <1>1, <1>2, <1>3, Steps DEF Edit, Begins

LEMMA VanishedKept == ASSUME Sure, Known', [Next]_vars PROVE Vanished'
<1>0. /\ Vanished /\ Dead /\ OldestInChild /\ Calm /\ "parent" \in Dbs /\ "parent" \in Sides /\ "child" \in Sides
      /\ \A s \in Sessions : s \in Dbs /\ s # "parent"
      BY SureTypes DEF Sure, Agreed, Dbs, Sides
<1>1. ASSUME NEW c \in edits, CommitEdit(c) PROVE Vanished'
  <2>0. /\ session' = session /\ SideOf(c.db) = (IF c.db = "parent" THEN "parent" ELSE "child")
        /\ Watching(c.db) \subseteq DOMAIN c.states
        BY <1>1, SureTypes DEF CommitEdit
  <2>1. SUFFICES ASSUME NEW s \in Sessions, NEW i \in Ids, BothOpen(s),
                        features'["parent"][i] = <<>>, features'[s][i] # <<>>
                 PROVE  \/ \E r \in rows'["child"][s] : r.id = i /\ r.statement = "INSERT"
                        \/ \E r \in rows'["parent"][s] : r.id = i /\ r.statement = "DELETE"
        BY <2>0 DEF Vanished, BothOpen, IsOpen
  <2>2. c.db \in {"parent", s} => s \in DOMAIN c.states
        BY <1>0, <2>0, <2>1 DEF BothOpen, Watching
  <2>3. CASE c.db = "parent" /\ c.id = i
    <3>1. c.statement # "INSERT" => features["parent"][i] # <<>>
          BY <2>3 DEF Sure, Agreed, AliveThere
    <3>2. c.statement = "DELETE"
          BY <1>0, <1>1, <2>1, <2>3, <3>1, CommitChange, OneValue
    <3> QED BY <1>0, <1>1, <2>0, <2>2, <2>3, <3>2, CommitNews
  <2>4. CASE c.db = s /\ c.id = i /\ c.statement = "INSERT"
    <3>1. "child" = SideOf(c.db)
          BY <1>0, <2>0, <2>4
    <3> QED BY <1>0, <1>1, <2>2, <2>4, <3>1, CommitNews
  <2>5. CASE ~(c.db = "parent" /\ c.id = i) /\ ~(c.db = s /\ c.id = i /\ c.statement = "INSERT")
    <3>1. features["parent"][i] = <<>>
          BY <1>0, <1>1, <2>1, <2>5, CommitChange
    <3>2. features[s][i] # <<>>
          BY <1>0, <1>1, <2>1, <2>5, CommitChange
    <3>3. /\ rows["child"][s] \subseteq rows'["child"][s]
          /\ rows["parent"][s] \subseteq rows'["parent"][s]
          BY <1>0, <1>1, CommitNews
    <3> QED BY <1>0, <2>1, <3>1, <3>2, <3>3 DEF Vanished
  <2> QED BY <2>3, <2>4, <2>5
<1>2. ASSUME NEW p \in Procs, Step(p) PROVE Vanished'
  <2>1. SUFFICES ASSUME NEW s \in Sessions, NEW i \in Ids, BothOpen(s)',
                        features'["parent"][i] = <<>>, features'[s][i] # <<>>,
                        ~\E r \in rows'["parent"][s] : r.id = i /\ r.statement = "DELETE"
                 PROVE  \E r \in rows'["child"][s] : r.id = i /\ r.statement = "INSERT"
        BY DEF Vanished
  <2>2. BothOpen(s)
        BY <1>0, <1>2, <2>1, StillOpen
  <2>3. features["parent"][i] = <<>> /\ features[s][i] # <<>>
        BY <1>2, <2>1, <2>2, StepDiffers
  <2>4. CASE \E r \in rows["parent"][s] : r.id = i /\ r.statement = "DELETE"
    <3>1. PICK r \in rows["parent"][s] : r.id = i /\ r.statement = "DELETE"
          BY <2>4
    <3>2. r \notin rows'["parent"][s] /\ s = SessionOf[p] /\ (Thin(p) \/ RemoveRow(p))
          BY <1>0, <1>2, <2>1, <3>1, LostOf
    <3>3. CASE Thin(p)
      <4> DEFINE T == rows["parent"][s]
      <4>1. /\ rows'["parent"][s] = Thinned(T, StateOf(p, "parent")) \/ rows'["parent"][s] = T
            /\ StateOf(p, "parent") \in Nat /\ ~At(p, "idle") /\ ~At(p, "remove")
            BY <1>0, <3>2, <3>3, ThinStep DEF Thinning, At
      <4>2. Table(T) /\ (\A x, y \in T : x.n = y.n => x = y)
            BY <1>0 DEF Calm, TypeInv, TypeOK, Tables, DataInv, Numbered
      <4>3. \A q \in T : q.id = r.id => q.n <= r.n /\ q.date <= r.date
            BY <3>1 DEF Sure, Agreed, DeletedLast
      <4>4. \A q \in T : q.id = r.id => q.statement # "INSERT"
        <5>1. SUFFICES ASSUME NEW q \in T, q.id = r.id, q.statement = "INSERT" PROVE FALSE
              OBVIOUS
        <5>2. ~IsCarried("parent", s, q)
              BY <1>0, <3>2, <4>1, NotCarried
        <5>3. IsUnknown(s, i)
              BY <3>1, <5>1, <5>2 DEF Sure, Agreed, BornThere
        <5> QED BY <2>3, <5>3 DEF IsUnknown
      <4>5. r \in T
            OBVIOUS
      <4> HIDE DEF T
      <4>6. r \in Thinned(T, StateOf(p, "parent"))
            BY <3>1, <4>1, <4>2, <4>3, <4>4, <4>5, ThinnedLast
      <4> QED BY <3>2, <4>1, <4>5, <4>6
    <3>4. CASE RemoveRow(p)
          BY <1>0, <2>1, <2>3, <3>1, <3>2, <3>4, RemoveLeaves
    <3> QED BY <3>2, <3>3, <3>4
  <2>5. CASE \E r \in rows["child"][s] : r.id = i /\ r.statement = "INSERT"
    <3>1. PICK r \in rows["child"][s] : r.id = i /\ r.statement = "INSERT"
          BY <2>5
    <3>2. SUFFICES ASSUME r \notin rows'["child"][s] PROVE FALSE
          BY <3>1
    <3>3. s = SessionOf[p] /\ (Thin(p) \/ RemoveRow(p))
          BY <1>0, <1>2, <2>1, <3>2, LostOf
    <3>4. CASE Thin(p)
      <4> DEFINE T == rows["child"][s]
      <4>1. /\ rows'["child"][s] = Thinned(T, StateOf(p, "child")) \/ rows'["child"][s] = T
            /\ StateOf(p, "child") \in Nat
            BY <1>0, <3>3, <3>4, ThinStep
      <4>2. Table(T) /\ (\A x, y \in T : x.n = y.n => x = y) /\ time \in Nat /\ \A x \in T : x.date <= time
            BY <1>0 DEF Calm, TypeInv, TypeOK, Tables, DataInv, Numbered, Low
      <4>3. \A x, y \in T : x.id = y.id /\ x.n < y.n => x.date <= y.date
            BY <1>0 DEF Calm, Carried, Dated
      <4>4. \A x, y \in T : x.statement = "INSERT" /\ y.id = x.id => x.n <= y.n
            BY <1>0 DEF OldestInChild
      <4>5. \A q \in T : q.id = r.id => q.statement # "DELETE"
            BY <1>0, <2>3, <3>1 DEF Dead, Db
      <4>6. r \in T
            OBVIOUS
      <4> HIDE DEF T
      <4>7. r \in Thinned(T, StateOf(p, "child"))
            BY <3>1, <4>1, <4>2, <4>3, <4>4, <4>5, <4>6, ThinnedFirst
      <4> QED BY <3>2, <4>1, <4>6, <4>7
    <3>5. CASE RemoveRow(p)
          BY <1>0, <2>1, <2>3, <3>1, <3>2, <3>3, <3>5, RemoveLeaves
    <3> QED BY <3>3, <3>4, <3>5
  <2> QED BY <1>0, <2>2, <2>3, <2>4, <2>5 DEF Vanished
<1>3. CASE Begins \/ UNCHANGED vars
  <2>1. rows' = rows /\ features' = features /\ session' = session
        BY <1>3 DEF Begins, BeginEdit, vars, data
  <2> QED BY <1>0, <2>1 DEF Vanished, BothOpen, IsOpen
<1> QED BY <1>1, <1>2, <1>3, Steps DEF Edit, Begins

------------------------------------------------------------------------------
LEMMA BesideBegun ==
  ASSUME Sure, NEW d \in Dbs, NEW statement \in Statements, NEW id \in Ids, BeginEdit(d, statement, id),
         NEW p \in Procs, pc[p] \in Attentive
  PROVE  /\ d = "parent" => ~OldInChild(p, id)
         /\ d = SessionOf[p] => \/ ~NewInParent(p, id)
                                \/ session["child"][SessionOf[p]].state > call[p].childState
<1> DEFINE s == SessionOf[p]
<1>0. /\ Calm /\ Hard(p) /\ Locked(p) /\ Drained(p) /\ s \in Sessions /\ s # "parent"
      /\ SideOf("parent") = "parent" /\ SideOf(s) = "child"
      BY Places, SessionAssumption DEF Sure, Calm, Carried, CallInv, SideOf
<1>1. CASE statement = "INSERT"
  <2>1. NewId(id)
        BY <1>1, BegunEdit
  <2> QED BY <1>0, <2>1 DEF NewId, OldInChild, NewInParent, ChildRows, UpTo, Sides
<1>2. CASE statement # "INSERT"
  <2>1. MayChange(d, Watching(d), id, {})
        BY <1>2 DEF BeginEdit
  <2>2. CASE d = "parent"
    <3>1. s \in Watching("parent")
          BY <1>0, Watched
    <3>2. session["parent"][s].lock # "Hardlock" /\ \A l \in locks["parent"] : l.id # id
          BY <1>0, <2>1, <2>2, <3>1 DEF MayChange, IsFree
    <3>3. pc[p] \in {"softenChild"} \cup Middle
          BY <1>0, <3>2 DEF Hard, HardInParent, Attentive, Carrying, Middle, Done
    <3>4. \A r \in ChildRows(p) : Lock(r.id, 1, s, call[p].childState) \in locks["parent"]
          BY <1>0, <3>3 DEF Locked, Carrying, Thinning, Middle, Done
    <3>5. \A r \in ChildRows(p) : r.id # id
          BY <3>2, <3>4 DEF Lock
    <3>6. \A e \in edits : e.db = s => IsNew(e, p)
          BY <1>0, <3>3 DEF Drained, Late, Carrying, Concerns, Middle, Done
    <3> QED BY <1>0, <2>2, <3>5, <3>6 DEF OldInChild
  <2>3. CASE d = s
    <3>1. s \in Watching(s)
          BY <1>0, Watched
    <3>2. session["child"][s].lock # "Hardlock"
          BY <1>0, <2>1, <2>3, <3>1 DEF MayChange
    <3>3. pc[p] \in Late
          BY <1>0, <3>2 DEF Hard, HardInChild, HardInParent, Attentive, Carrying, Late
    <3>4. session["child"][s].state = call[p].childState + 1 /\ call[p].childState \in Nat
      <4>1. StateOf(p, "child") = call[p].childState
            BY DEF StateOf
      <4> QED BY <1>0, <3>3, <4>1, Watched
    <3> QED BY <1>0, <2>3, <3>4
  <2> QED BY <2>2, <2>3
<1> QED BY <1>1, <1>2

LEMMA BesideKept == ASSUME Sure, Known', [Next]_vars, NEW p \in Procs PROVE Beside(p)'
<1> DEFINE s == SessionOf[p]
<1>0. /\ Calm /\ Usual' /\ Beside(p) /\ ParentStated /\ Stated /\ Seen /\ s \in Sessions /\ s # "parent"
      /\ SideOf("parent") = "parent" /\ SideOf(s) = "child"
      /\ StateOf(p, "parent") = call[p].parentState /\ StateOf(p, "child") = call[p].childState
      BY Places, SessionAssumption
         DEF Sure, Calm, Carried, CallInv, SideOf, Agreed, Known, Usual, Without, StateOf
<1>1. ASSUME NEW d \in Dbs, NEW statement \in Statements, NEW id \in Ids, BeginEdit(d, statement, id)
      PROVE  Beside(p)'
  <2>0. rows' = rows /\ pc' = pc /\ call' = call
        BY <1>1, BegunEdit
  <2>1. PICK new : /\ edits' = edits \cup {new} /\ new.db = d /\ new.id = id
                   /\ \A x \in Watching(d) : new.states[x] = session[SideOf(d)][x].state
        BY <1>1, BegunEdit
  <2>2. SUFFICES ASSUME pc[p] \in Attentive, NEW i \in Ids, OldInChild(p, i)', NewInParent(p, i)' PROVE FALSE
        BY <2>0 DEF Beside
  <2>3. OldInChild(p, i) \/ (i = id /\ d = s /\ ~IsNew(new, p))
        BY <2>0, <2>1, <2>2 DEF OldInChild, ChildRows, IsNew, StateOf
  <2>4. NewInParent(p, i) \/ (i = id /\ d = "parent")
        BY <2>0, <2>1, <2>2 DEF NewInParent, IsNew, StateOf
  <2>5. ~(OldInChild(p, i) /\ NewInParent(p, i))
        BY <1>0, <2>2 DEF Beside
  <2>6. d = s => new.states[s] = session["child"][s].state
        BY <1>0, <2>1, <2>2, Watched
  <2> QED BY <1>0, <1>1, <2>1, <2>2, <2>3, <2>4, <2>5, <2>6, BesideBegun DEF IsNew
<1>2. ASSUME NEW c \in edits, CommitEdit(c) PROVE Beside(p)'
  <2>0. /\ edits' = edits \ {c} /\ pc' = pc /\ call' = call
        /\ SideOf(c.db) = (IF c.db = "parent" THEN "parent" ELSE "child")
        /\ (c.db # "parent" => DOMAIN c.states = {c.db})
        BY <1>2, SureTypes DEF CommitEdit
  <2>1. SUFFICES ASSUME pc[p] \in Attentive, NEW i \in Ids, OldInChild(p, i)', NewInParent(p, i)' PROVE FALSE
        BY <2>0 DEF Beside
  <2>2. call[p].parentState \in Nat /\ call[p].childState \in Nat
        BY <1>0, <2>1 DEF Calm, TypeInv, Reading, At, Attentive, Carrying
  <2>3. OldInChild(p, i)
    <3>1. ASSUME NEW r \in ChildRows(p)', r.id = i PROVE OldInChild(p, i)
      <4>1. r \in rows'["child"][s] /\ r.state <= call[p].childState
            BY <2>0, <3>1 DEF ChildRows, UpTo
      <4>2. CASE r \in rows["child"][s]
            BY <3>1, <4>1, <4>2 DEF OldInChild, ChildRows, UpTo
      <4>3. CASE r \notin rows["child"][s]
        <5>1. "child" = SideOf(c.db) /\ s \in DOMAIN c.states /\ r.id = c.id /\ r.state = c.states[s]
              BY <1>0, <1>2, <4>1, <4>3, CommitNews DEF Sides
        <5>2. c.db = s /\ c.states[s] \in Nat
              BY <2>0, <5>1, SureTypes
        <5>3. ~IsNew(c, p)
              BY <1>0, <2>2, <4>1, <5>1, <5>2 DEF IsNew
        <5> QED BY <3>1, <5>1, <5>2, <5>3 DEF OldInChild
      <4> QED BY <4>2, <4>3
    <3>2. ASSUME NEW e \in edits', e.id = i, e.db = s, ~IsNew(e, p)' PROVE OldInChild(p, i)
          BY <2>0, <3>2 DEF OldInChild, IsNew, StateOf
    <3> QED BY <2>1, <3>1, <3>2 DEF OldInChild
  <2>4. NewInParent(p, i)
    <3>1. ASSUME NEW r \in rows'["parent"][s], r.id = i, r.state > call[p].parentState PROVE NewInParent(p, i)
      <4>1. CASE r \in rows["parent"][s]
            BY <3>1, <4>1 DEF NewInParent
      <4>2. CASE r \notin rows["parent"][s]
        <5>1. "parent" = SideOf(c.db) /\ s \in DOMAIN c.states /\ r.id = c.id /\ r.state = c.states[s]
              BY <1>0, <1>2, <3>1, <4>2, CommitNews DEF Sides
        <5>2. IsNew(c, p) /\ c.db = "parent"
              BY <1>0, <2>0, <3>1, <5>1 DEF IsNew
        <5> QED BY <3>1, <5>1, <5>2 DEF NewInParent
      <4> QED BY <4>1, <4>2
    <3>2. ASSUME NEW e \in edits', e.id = i, e.db = "parent", IsNew(e, p)' PROVE NewInParent(p, i)
          BY <2>0, <3>2 DEF NewInParent, IsNew, StateOf
    <3> QED BY <2>0, <2>1, <3>1, <3>2 DEF NewInParent
  <2> QED BY <1>0, <2>1, <2>3, <2>4 DEF Beside
<1>3. ASSUME Step(p) PROVE Beside(p)'
  <2>0. edits' = edits
        BY <1>3, Frames DEF Frame
  <2>1. SUFFICES ASSUME pc'[p] \in Attentive, NEW i \in Ids, OldInChild(p, i)', NewInParent(p, i)' PROVE FALSE
        BY DEF Beside
  <2>2. CASE At(p, "recheck") /\ CheckOthers(p)
    <3>1. rows' = rows /\ call' = call
          BY <2>2 DEF CheckOthers, data
    <3>2. /\ session["parent"][s].state = call[p].parentState /\ IsOpen("parent", s)
          /\ call[p].parentState \in Nat /\ s \in Watching("parent")
          BY <1>0, <2>2, AtWork DEF Calm, Carried, CallInv, Counted, At, Counting, Holding, TypeInv, Reading,
                                    Watching
    <3>3. \A r \in rows["parent"][s] : r.state \in Nat /\ r.state <= call[p].parentState
          BY <1>0, <3>2, SureTypes DEF ParentStated, Sides
    <3>4. \A e \in edits : e.db = "parent" => e.states[s] <= call[p].parentState /\ e.states[s] \in Nat
          BY <1>0, <3>2, SureTypes DEF Stated, Seen
    <3> QED BY <1>0, <2>0, <2>1, <3>1, <3>2, <3>3, <3>4 DEF NewInParent, IsNew, StateOf
  <2>3. CASE pc[p] \in Attentive \cup Late /\ SameStates(call'[p], call[p])
    <3>1. OldInChild(p, i)
      <4>1. ChildRows(p)' \subseteq ChildRows(p)
            BY <1>0, <1>3, <2>1, <2>3, OwnCarried
      <4> QED BY <2>0, <2>1, <2>3, <4>1 DEF OldInChild, IsNew, StateOf, SameStates
    <3>2. NewInParent(p, i)
      <4>1. ASSUME NEW r \in rows'["parent"][s], r.state > call[p].parentState PROVE r \in rows["parent"][s]
        <5>1. call[p].parentState \in Nat
              BY <1>0, <2>3 DEF Calm, TypeInv, Reading, At, Attentive, Late, Carrying
        <5> QED BY <1>0, <1>3, <4>1, <5>1, OwnRows
      <4> QED BY <2>0, <2>1, <2>3, <4>1 DEF NewInParent, IsNew, StateOf, SameStates
    <3>3. pc[p] \in Attentive
      <4>1. SUFFICES ASSUME At(p, "releaseChild") PROVE FALSE
            BY <2>3 DEF Late, Attentive, At
      <4> QED BY <1>0, <3>1, <4>1
              DEF Calm, Carried, CallInv, Todo, Drained, OldInChild, At, Late, Concerns
    <3> QED BY <1>0, <3>1, <3>2, <3>3 DEF Beside
  <2> QED BY <1>0, <1>3, <2>1, <2>2, <2>3, OwnAttention
<1>4. ASSUME NEW o \in Procs \ {p}, Step(o) PROVE Beside(p)'
  <2>0. edits' = edits /\ pc'[p] = pc[p]
        BY <1>0, <1>4, Frames, StepsAlone, ControlTyped DEF Frame, Alone, Calm, TypeInv, TypeOK
  <2>1. SUFFICES ASSUME pc[p] \in Attentive PROVE Beside(p)'
        BY <2>0 DEF Beside
  <2>2. call'[p] = call[p]
        BY <1>0, <1>4, <2>1, OthersElsewhere DEF At, Attentive, Carrying
  <2>3. pc[o] \notin Working
        BY <1>0, <1>4, <2>1, AtWork DEF Attentive, Carrying, Working, Holding
  <2>4. rows' = rows
        BY <1>0, <1>4, <2>3, Idling
  <2> QED BY <1>0, <2>0, <2>2, <2>4 DEF Beside, OldInChild, NewInParent, ChildRows, IsNew, StateOf
<1>5. CASE UNCHANGED vars
      BY <1>0, <1>5 DEF Beside, OldInChild, NewInParent, ChildRows, IsNew, StateOf, vars, data, env
<1> QED BY <1>1, <1>2, <1>3, <1>4, <1>5, Steps DEF Edit

LEMMA ClashingKept == ASSUME Sure, Known', [Next]_vars, NEW p \in Procs PROVE Clashing(p)'
<1> DEFINE s == SessionOf[p]
<1>0. /\ Calm /\ Usual' /\ Clashing(p) /\ Beside(p) /\ Todo(p) /\ Drained(p) /\ s \in Sessions /\ s # "parent"
      /\ SideOf("parent") = "parent"
      BY Places, SessionAssumption
         DEF Sure, Calm, Carried, CallInv, SideOf, Agreed, Known, Usual, Without
<1>1. CASE Begins \/ UNCHANGED vars
  <2>1. rows' = rows /\ pc' = pc /\ call' = call
        BY <1>1 DEF Begins, BeginEdit, vars, data
  <2> QED BY <1>0, <2>1 DEF Clashing
<1>2. ASSUME NEW c \in edits, CommitEdit(c) PROVE Clashing(p)'
  <2>0. /\ pc' = pc /\ call' = call
        /\ SideOf(c.db) = (IF c.db = "parent" THEN "parent" ELSE "child")
        /\ c.id \in Ids
        BY <1>2, SureTypes DEF CommitEdit
  <2>1. SUFFICES ASSUME pc[p] \in {"apply"} \cup Done, call[p].dir = "checkin"
                 PROVE  /\ call[p].other \subseteq rows'["parent"][s]
                        /\ \A q \in rows'["parent"][s], r \in call[p].todo : q.id = r.id => q \in call[p].other
        BY <2>0 DEF Clashing
  <2>2. /\ call[p].other \subseteq rows["parent"][s] /\ call[p].todo = ChildRows(p)
        /\ \A q \in rows["parent"][s], r \in call[p].todo : q.id = r.id => q \in call[p].other
        BY <1>0, <2>1 DEF Clashing, Todo
  <2>3. rows["parent"][s] \subseteq rows'["parent"][s]
        BY <1>0, <1>2, CommitNews DEF Sides
  <2>4. ASSUME NEW q \in rows'["parent"][s], q \notin rows["parent"][s], NEW r \in call[p].todo, q.id = r.id
        PROVE  FALSE
    <3>1. "parent" = SideOf(c.db) /\ q.id = c.id
          BY <1>0, <1>2, <2>4, CommitNews DEF Sides
    <3>2. c.db = "parent"
          BY <2>0, <3>1
    <3>3. IsNew(c, p)
          BY <1>0, <2>1, <3>2 DEF Drained, Late, Carrying, Concerns, Done
    <3>4. NewInParent(p, c.id)
          BY <3>2, <3>3 DEF NewInParent
    <3>5. OldInChild(p, c.id)
          BY <2>2, <2>4, <3>1 DEF OldInChild
    <3> QED BY <1>0, <2>0, <2>1, <3>4, <3>5 DEF Beside, Attentive, Carrying, Done
  <2> QED BY <2>2, <2>3, <2>4
<1>3. ASSUME Step(p) PROVE Clashing(p)'
  <2>1. SUFFICES ASSUME pc'[p] \in {"apply"} \cup Done, call'[p].dir = "checkin"
                 PROVE  /\ call'[p].other \subseteq rows'["parent"][s]
                        /\ \A q \in rows'["parent"][s], r \in call'[p].todo : q.id = r.id => q \in call'[p].other
        BY DEF Clashing
  <2>2. Move(p) /\ TypeInv
        BY <1>0, <1>3, ControlTyped, Moves DEF Calm, TypeInv
  <2>3. CASE ReadDifferences(p)
    <3>1. /\ call'[p].dir = call[p].dir
          /\ call'[p].other = UpTo(rows[To(p)][s], StateOf(p, To(p)))
          BY <1>3, <2>2, <2>3, StepOther
    <3>2. call'[p].todo = UpTo(rows[From(p)][s], StateOf(p, From(p)))
          BY <1>3, <2>2, <2>3, StepTodo DEF ReadDifferences, PassOver, RemoveRow, IsApplying, At
    <3>3. From(p) = "child" /\ To(p) = "parent"
          BY <1>0, <2>1, <3>1, Directions
    <3>4. /\ call'[p].other = UpTo(rows["parent"][s], call[p].parentState)
          /\ call'[p].todo = ChildRows(p)
          BY <3>1, <3>2, <3>3 DEF StateOf, ChildRows
    <3>5. rows' = rows /\ At(p, "readDifferences")
          BY <2>3 DEF ReadDifferences, data
    <3>6. ASSUME NEW q \in rows["parent"][s], NEW r \in ChildRows(p), q.id = r.id
          PROVE  q.state <= call[p].parentState
      <4>1. q.state \in Nat /\ call[p].parentState \in Nat /\ q.id \in Ids
            BY <1>0, <2>2, <3>5, SureTypes DEF TypeInv, Reading, At, Sides
      <4>2. OldInChild(p, q.id)
            BY <3>6 DEF OldInChild
      <4>3. ~NewInParent(p, q.id)
            BY <1>0, <3>5, <4>1, <4>2 DEF Beside, Attentive, Carrying, At
      <4> QED BY <4>1, <4>3 DEF NewInParent
    <3> QED BY <3>4, <3>5, <3>6 DEF UpTo
  <2>4. ASSUME pc[p] \in {"apply"} \cup Done, call[p].dir = "checkin", call'[p].other = call[p].other,
               call'[p].todo \subseteq call[p].todo,
               \A q \in rows'["parent"][s] : q \in rows["parent"][s] \/ \A r \in call[p].todo : q.id # r.id,
               rows["parent"][s] \subseteq rows'["parent"][s]
        PROVE  /\ call'[p].other \subseteq rows'["parent"][s]
               /\ \A q \in rows'["parent"][s], r \in call'[p].todo : q.id = r.id => q \in call'[p].other
        BY <1>0, <2>4 DEF Clashing
  <2>5. CASE Leave(p)
    <3>1. call' = call /\ rows' = rows /\ At(p, "apply")
          BY <2>5 DEF Leave, Applied
    <3> QED BY <2>1, <2>4, <3>1 DEF At
  <2>6. CASE Carries(p)
    <3>1. call' = call /\ At(p, "apply")
          BY <2>6, CarryAt DEF Carries
    <3>2. rows'["parent"][s] = rows["parent"][s]
          BY <1>0, <2>6, CarryRows DEF Sides
    <3> QED BY <2>1, <2>4, <3>1, <3>2 DEF At
  <2>7. CASE CopyFeature(p)
    <3>1. /\ At(p, "apply") /\ call'[p].dir = call[p].dir /\ call'[p].todo = call[p].todo
          /\ call'[p].other = call[p].other
          BY <2>7, CarryAt DEF Writes
    <3>2. PICK id : id = lastId'
          OBVIOUS
    <3>3. \A r \in call[p].todo : r.id # id
      <4>1. id = lastId + 1 /\ id <= MaxObjects
            BY <2>2, <2>7, <3>2, BoundAssumption DEF CopyFeature, Copied, TypeInv, TypeOK
      <4> QED BY <1>0, <4>1, NextId
    <3>4. \A q \in rows'["parent"][s] : q \in rows["parent"][s] \/ q.id = id
          BY <1>0, <2>7, <3>2, CopyRows DEF Sides
    <3>5. rows["parent"][s] \subseteq rows'["parent"][s]
          BY <1>0, <2>7, <3>2, CopyRows DEF Sides
    <3> QED BY <2>1, <2>4, <3>1, <3>3, <3>4, <3>5 DEF At
  <2>8. CASE RemoveRow(p)
    <3>1. At(p, "remove") /\ call'[p].dir = call[p].dir /\ call'[p].other = call[p].other
          BY <1>3, <2>2, <2>8, StepOther DEF RemoveRow
    <3>2. call'[p].todo \subseteq call[p].todo
          BY <1>3, <2>2, <2>8, StepTodo DEF ReadDifferences, RemoveRow, At
    <3>3. To(p) = "parent"
          BY <1>0, <2>1, <3>1, Directions
    <3>4. rows'["parent"][s] = rows["parent"][s]
          BY <1>0, <2>8, <3>3, RemovedRow
    <3> QED BY <2>1, <2>4, <3>1, <3>2, <3>4 DEF At, Done
  <2>9. CASE PassOver(p)
    <3>1. call'[p].dir = "post"
          BY <1>0, <1>3, <2>2, <2>9, StepOther, NothingPassedOver
    <3> QED BY <2>1, <3>1
  <2>10. CASE WriteConflict(p)
    <3>1. /\ At(p, "conflict") /\ rows' = rows
          /\ call'[p].dir = call[p].dir /\ call'[p].todo = call[p].todo /\ call'[p].other = call[p].other
          BY <1>3, <2>2, <2>10, StepOther DEF WriteConflict
    <3> QED BY <2>1, <2>4, <3>1 DEF At, Done
  <2> QED BY <2>1, <2>2, <2>3, <2>5, <2>6, <2>7, <2>8, <2>9, <2>10 DEF Move, Goes, Carries, Done
<1>4. ASSUME NEW o \in Procs \ {p}, Step(o) PROVE Clashing(p)'
  <2>0. pc'[p] = pc[p]
        BY <1>0, <1>4, StepsAlone, ControlTyped DEF Alone, Calm, TypeInv, TypeOK
  <2>1. SUFFICES ASSUME pc[p] \in {"apply"} \cup Done PROVE Clashing(p)'
        BY <2>0 DEF Clashing
  <2>2. call'[p] = call[p]
        BY <1>0, <1>4, <2>1, OthersElsewhere DEF At, Done
  <2>3. pc[o] \notin Working
        BY <1>0, <1>4, <2>1, AtWork DEF Working, Holding, Done
  <2>4. rows' = rows
        BY <1>0, <1>4, <2>3, Idling
  <2> QED BY <1>0, <2>0, <2>2, <2>4 DEF Clashing
<1> QED BY <1>1, <1>2, <1>3, <1>4, Steps DEF Edit, Begins

(* Where an object has a clash and is only in the child, the parent knows   *)
(* that it was deleted.                                                     *)
LEMMA ClashDeleted ==
  ASSUME Sure, NEW p \in Procs, At(p, "apply"), NEW q \in rows["parent"][SessionOf[p]],
         features["parent"][q.id] # features[SessionOf[p]][q.id]
  PROVE  \E r \in rows["parent"][SessionOf[p]] :
           r.id = q.id /\ (features["parent"][q.id] = <<>> => r.statement = "DELETE")
<1> DEFINE s == SessionOf[p]
<1>0. Calm /\ s \in Sessions /\ BothOpen(s)
      BY Places, BothAtWork DEF Sure, At, Middle
<1>1. q.id \in Ids
      BY <1>0, SureTypes DEF Sides
<1>2. CASE features["parent"][q.id] # <<>>
      BY <1>2
<1>3. CASE features["parent"][q.id] = <<>>
  <2>1. SUFFICES ASSUME NEW r \in rows["child"][s], r.id = q.id, r.statement = "INSERT" PROVE FALSE
        BY <1>0, <1>1, <1>3 DEF Sure, Agreed, Vanished
  <2>2. ~IsCarried("child", s, r)
        BY <1>0, NotCarried DEF At
  <2>3. IsOwn(s, q.id)
        BY <1>0, <2>1, <2>2 DEF Sure, Agreed, BornHere
  <2> QED BY <1>0, <2>3 DEF IsOwn, Sides
<1> QED BY <1>2, <1>3

(* A call comes to the removal of a row by leaving or by writing it.        *)
LEMMA LeaveSettles ==
  ASSUME Sure, NEW p \in Procs, Leave(p)
  PROVE  \/ features["parent"][Current(p).id] = features[SessionOf[p]][Current(p).id]
         \/ /\ call[p].dir = "checkin"
            /\ \E q \in rows["parent"][SessionOf[p]] :
                 q.id = Current(p).id /\ (features["parent"][Current(p).id] = <<>> => q.statement = "DELETE")
<1> DEFINE s == SessionOf[p]
           r == Current(p)
<1>0. /\ Calm /\ At(p, "apply") /\ call[p].todo # {} /\ s \in Sessions
      /\ r \in rows[From(p)][s] /\ r.statement \in Statements /\ terms.rights = Statements
  <2>1. Calm /\ At(p, "apply") /\ call[p].todo # {} /\ s \in Sessions /\ From(p) \in Sides
        BY Places DEF Sure, Leave
  <2>2. r \in rows[From(p)][s]
        BY <2>1, HandledRow DEF At
  <2> QED BY <2>1, <2>2, SureTypes DEF Sure, Known
<1>1. CASE Clashes(p) # {}
  <2>1. call[p].dir = "checkin"
        BY <1>0, <1>1, PostTakes, Directions
  <2>2. PICK q \in call[p].other : q.id = r.id
        BY <1>1 DEF Clashes
  <2>3. q \in rows["parent"][s]
        BY <1>0, <2>1, <2>2 DEF Sure, Agreed, Clashing, At
  <2> QED BY <1>0, <2>1, <2>2, <2>3, ClashDeleted
<1>2. CASE Clashes(p) = {}
  <2>1. Verdict(p) = "take"
        BY <1>2 DEF Verdict
  <2>2. r.statement = "DELETE" /\ Target(p) = <<>>
        BY <1>0, <2>1 DEF Leave, IsApplying
  <2>3. Source(p) = <<>>
        BY <1>0, <2>2, Places DEF Sure, Agreed, Dead, Source, FromDb
  <2>4. CASE call[p].dir = "checkin"
        BY <1>0, <2>2, <2>3, <2>4, Directions DEF Source, Target
  <2>5. CASE call[p].dir # "checkin"
        BY <1>0, <2>2, <2>3, <2>5, Directions DEF Source, Target
  <2> QED BY <2>4, <2>5
<1> QED BY <1>1, <1>2

LEMMA SettledKept == ASSUME Sure, Known', [Next]_vars, NEW p \in Procs PROVE Settled(p)'
<1> DEFINE s == SessionOf[p]
<1>0. /\ Calm /\ Usual' /\ Settled(p) /\ s \in Sessions /\ s # "parent" /\ s \in Dbs /\ "parent" \in Dbs
      BY Places, SureTypes DEF Sure, Calm, Agreed, Known, Usual, Without, Dbs
<1>1. CASE Begins \/ UNCHANGED vars
  <2>1. rows' = rows /\ features' = features /\ pc' = pc /\ call' = call
        BY <1>1 DEF Begins, BeginEdit, vars, data
  <2> QED BY <1>0, <2>1 DEF Settled, At, Current
<1>2. ASSUME NEW c \in edits, CommitEdit(c) PROVE Settled(p)'
  <2>0. /\ pc' = pc /\ call' = call
        /\ SideOf(c.db) = (IF c.db = "parent" THEN "parent" ELSE "child")
        /\ Watching(c.db) \subseteq DOMAIN c.states
        /\ c.id \in Ids /\ c.db \in Dbs
        BY <1>2, SureTypes DEF CommitEdit
  <2>1. SUFFICES ASSUME pc[p] \in Done, NEW r, r = Current(p)
                 PROVE  \/ features'["parent"][r.id] = features'[s][r.id]
                        \/ \E q \in rows'["parent"][s] :
                             /\ q.id = r.id /\ (call[p].dir = "post" => q # r)
                             /\ features'["parent"][r.id] = <<>> => q.statement = "DELETE"
                        \/ /\ features'["parent"][r.id] # <<>>
                           /\ \E q \in rows'["child"][s] : q.id = r.id /\ (call[p].dir = "checkin" => q # r)
        BY <2>0 DEF Settled, Current
  <2>2. /\ r \in rows[From(p)][s] /\ r.id \in Ids
        /\ call[p].dir = "checkin" => r \in ChildRows(p)
        /\ call[p].todo # {}
    <3>1. call[p].todo # {}
          BY <1>0, <2>1 DEF Calm, TypeInv, Reading, Done, At
    <3> QED BY <1>0, <2>1, <3>1, HandledRow
  <2>3. BothOpen(s)
        BY <1>0, <2>1, BothAtWork DEF Middle
  <2>4. \A side \in Sides : rows[side][s] \subseteq rows'[side][s]
        BY <1>0, <1>2, CommitNews
  <2>5. CASE c.db = "parent" /\ c.id = r.id
    <3>1. s \in DOMAIN c.states
          BY <1>0, <2>0, <2>3, <2>5 DEF BothOpen, Watching
    <3>2. PICK q \in rows'["parent"][s] :
            q.id = r.id /\ q.statement = c.statement /\ q \notin rows["parent"][s]
          BY <1>0, <1>2, <2>0, <2>5, <3>1, CommitNews DEF Sides
    <3>3. call[p].dir = "post" => r \in rows["parent"][s]
          BY <2>2 DEF From
    <3>4. c.statement # "INSERT" => features["parent"][r.id] # <<>>
          BY <2>5 DEF Sure, Agreed, AliveThere
    <3>5. c.statement # "DELETE" => features'["parent"][r.id] # <<>>
          BY <1>0, <1>2, <2>2, <2>5, <3>4, CommitChange, OneValue
    <3> QED BY <3>2, <3>3, <3>5
  <2>6. CASE c.db = s /\ c.id = r.id
    <3>1. CASE call[p].dir = "checkin"
      <4>1. Apart(p) /\ Drained(p)
            BY <1>0 DEF Calm, Carried, CallInv
      <4>2. IsOldId(p, r.id)
            BY <2>2, <3>1 DEF IsOldId
      <4>3. IsNewId(p, r.id)
            BY <1>0, <2>1, <2>6, <4>1 DEF IsNewId, Drained, Concerns, Late, Carrying, Done
      <4> QED BY <2>1, <2>2, <4>1, <4>2, <4>3 DEF Apart, Carrying, Done
    <3>2. CASE call[p].dir # "checkin"
      <4>1. features[s][r.id] # <<>>
        <5>1. c.statement # "INSERT"
              BY <1>0, <2>2, <2>6, Places DEF Sure, Agreed, Unborn
        <5> QED BY <1>0, <2>6, <5>1 DEF Calm, Carried, EditAlive
      <4>2. features'["parent"][r.id] = features["parent"][r.id]
            BY <1>0, <1>2, <2>2, <2>6, CommitChange
      <4>3. s \in DOMAIN c.states /\ SideOf(c.db) = "child"
            BY <1>0, <2>0, <2>3, <2>6 DEF BothOpen, Watching
      <4>4. \E q \in rows'["child"][s] : q.id = r.id
            BY <1>0, <1>2, <2>6, <4>3, CommitNews DEF Sides
      <4> QED BY <1>0, <2>1, <2>4, <3>2, <4>1, <4>2, <4>4 DEF Settled, Sides
    <3> QED BY <3>1, <3>2
  <2>7. CASE c.id # r.id \/ c.db \notin {"parent", s}
    <3>1. features'["parent"][r.id] = features["parent"][r.id] /\ features'[s][r.id] = features[s][r.id]
          BY <1>0, <1>2, <2>2, <2>7, CommitChange
    <3> QED BY <1>0, <2>1, <2>4, <3>1 DEF Settled, Sides
  <2> QED BY <2>5, <2>6, <2>7
<1>3. ASSUME Step(p) PROVE Settled(p)'
  <2>1. SUFFICES ASSUME pc'[p] \in Done PROVE Settled(p)'
        BY DEF Settled
  <2>2. (Leave(p) \/ Writes(p) \/ WriteConflict(p)) /\ TypeInv
    <3>1. Move(p) /\ TypeInv
          BY <1>0, <1>3, ControlTyped, Moves DEF Calm, TypeInv
    <3> QED BY <2>1, <3>1 DEF Move, Goes, Done
  <2>3. call'[p].dir = call[p].dir /\ Current(p)' = Current(p)
    <3>1. call'[p].dir = call[p].dir /\ call'[p].todo = call[p].todo
          BY <1>3, <2>2, StepOther
    <3> QED BY <3>1 DEF Current
  <2>4. CASE Leave(p)
    <3>1. features' = features /\ rows' = rows
          BY <2>4 DEF Leave
    <3> QED BY <2>3, <2>4, <3>1, LeaveSettles DEF Settled
  <2>5. CASE CopyFeature(p)
    <3>1. PICK id : id = lastId'
          OBVIOUS
    <3>2. call[p].dir = "checkin" /\ Clashes(p) # {} /\ NewId(id)
          BY <2>5, <3>1, CopyValues
    <3>3. PICK q \in call[p].other : q.id = Current(p).id
          BY <3>2 DEF Clashes
    <3>4. At(p, "apply") /\ Current(p) \in rows[From(p)][s] /\ Current(p).id \in Ids
          BY <2>5, CarryAt DEF Writes
    <3>5. q \in rows["parent"][s]
          BY <3>2, <3>3, <3>4 DEF Sure, Agreed, Clashing, At
    <3>6. \A x \in rows["parent"][s] : x \in rows'["parent"][s]
          BY <1>0, <2>5, <3>1, CopyRows DEF Sides
    <3>7. Current(p).id # lastId'
          BY <1>0, <3>1, <3>2, <3>3, <3>5 DEF NewId, Sides
    <3>8. \A d \in Dbs : features'[d][Current(p).id] = features[d][Current(p).id]
          BY <1>0, <1>3, <2>5, <3>4, <3>7, StepChange DEF Carries
    <3>9. \/ features["parent"][Current(p).id] = features[s][Current(p).id]
          \/ \E x \in rows["parent"][s] :
               x.id = Current(p).id /\ (features["parent"][Current(p).id] = <<>> => x.statement = "DELETE")
          BY <3>3, <3>4, <3>5, ClashDeleted
    <3> QED BY <1>0, <2>3, <3>2, <3>6, <3>8, <3>9 DEF Settled
  <2>6. CASE Carries(p)
    <3>1. features' = [features EXCEPT ![ToDb(p)][Current(p).id] = Source(p)] /\ Current(p).id \in Ids
          BY <2>6, CarryValues, CarryAt DEF Carries
    <3>2. features \in [Dbs -> [Ids -> Seq(Nat)]]
          BY <1>0 DEF Calm, TypeInv, TypeOK
    <3>3. (ToDb(p) = "parent" /\ FromDb(p) = s) \/ (ToDb(p) = s /\ FromDb(p) = "parent")
          BY <1>0, Directions
    <3>4. features'["parent"][Current(p).id] = features'[s][Current(p).id]
          BY <1>0, <3>1, <3>2, <3>3 DEF Source
    <3> QED BY <2>3, <3>4 DEF Settled
  <2>7. CASE WriteConflict(p)
    <3>1. features' = features /\ rows' = rows /\ pc[p] \in Done
          BY <2>7 DEF WriteConflict, At, Done
    <3> QED BY <1>0, <2>3, <3>1 DEF Settled
  <2> QED BY <2>2, <2>4, <2>5, <2>6, <2>7 DEF Carries
<1>4. ASSUME NEW o \in Procs \ {p}, Step(o) PROVE Settled(p)'
  <2>0. pc'[p] = pc[p]
        BY <1>0, <1>4, StepsAlone, ControlTyped DEF Alone, Calm, TypeInv, TypeOK
  <2>1. SUFFICES ASSUME pc[p] \in Done PROVE Settled(p)'
        BY <2>0 DEF Settled
  <2>2. call'[p] = call[p]
        BY <1>0, <1>4, <2>1, OthersElsewhere DEF At, Done
  <2>3. pc[o] \notin Working
        BY <1>0, <1>4, <2>1, AtWork DEF Working, Holding, Done
  <2>4. rows' = rows /\ features' = features
        BY <1>0, <1>4, <2>3, Idling
  <2>5. Current(p)' = Current(p)
        BY <2>0, <2>2, SameCurrent
  <2> QED BY <1>0, <2>1, <2>2, <2>4, <2>5 DEF Settled
<1> QED BY <1>1, <1>2, <1>3, <1>4, Steps DEF Edit, Begins

------------------------------------------------------------------------------
(* A deletion stays the last difference of an object in the parent: nobody  *)
(* edits there what a check-in carries.                                     *)
LEMMA NoneUnderCarry ==
  ASSUME Sure, NEW p \in Procs, At(p, "apply"), call[p].todo # {}, call[p].dir = "checkin",
         NEW e \in edits, e.db = "parent"
  PROVE  e.id # Current(p).id
<1>0. Calm /\ Drained(p) /\ Beside(p) /\ Current(p) \in ChildRows(p) /\ Current(p).id \in Ids
      BY HandledRow DEF Sure, Calm, Carried, CallInv, Agreed, At
<1>1. IsNew(e, p) /\ pc[p] \in Attentive
      BY <1>0 DEF Drained, Concerns, Late, Carrying, Attentive, At
<1>2. OldInChild(p, Current(p).id)
      BY <1>0 DEF OldInChild
<1>3. e.id = Current(p).id => NewInParent(p, Current(p).id)
      BY <1>1 DEF NewInParent
<1> QED BY <1>0, <1>1, <1>2, <1>3 DEF Beside

LEMMA DatedThereKept == ASSUME Sure, Known', [Next]_vars PROVE DatedThere'
<1>0. /\ DatedThere /\ Straight /\ Low /\ Calm /\ "parent" \in Sides
      BY DEF Sure, Agreed, Calm, Carried, DataInv, Sides
<1>1. ASSUME NEW d \in Dbs, NEW statement \in Statements, NEW id \in Ids, BeginEdit(d, statement, id)
      PROVE  DatedThere'
  <2>1. rows' = rows
        BY <1>1, BegunEdit
  <2>2. PICK new : edits' = edits \cup {new} /\ new.date = time + 1
        BY <1>1, BegunEdit
  <2>3. time \in Nat /\ \A s \in Sessions : \A r \in rows["parent"][s] : r.date \in Nat /\ r.date <= time
        BY <1>0, SureTypes DEF Low, Calm, TypeInv, TypeOK
  <2>4. \A s \in Sessions : \A r \in rows["parent"][s] : r.date <= new.date
        BY <2>2, <2>3
  <2> QED BY <1>0, <2>1, <2>2, <2>4 DEF DatedThere
<1>2. ASSUME NEW c \in edits, CommitEdit(c) PROVE DatedThere'
  <2>0. edits' = edits \ {c} /\ SideOf(c.db) = IF c.db = "parent" THEN "parent" ELSE "child"
        BY <1>2, SureTypes DEF CommitEdit
  <2>1. SUFFICES ASSUME NEW e \in edits \ {c}, e.db = "parent", NEW s \in Sessions,
                        NEW r \in rows'["parent"][s], r.id = e.id
                 PROVE  r.date <= e.date
        BY <2>0 DEF DatedThere
  <2>2. r \in rows["parent"][s]
    <3>1. SUFFICES ASSUME r \notin rows["parent"][s] PROVE FALSE
          OBVIOUS
    <3>2. "parent" = SideOf(c.db) /\ r.id = c.id
          BY <1>0, <1>2, <3>1, CommitNews
    <3> QED BY <1>0, <2>0, <2>1, <3>2 DEF Straight
  <2> QED BY <1>0, <2>1, <2>2 DEF DatedThere
<1>3. ASSUME NEW p \in Procs, Step(p) PROVE DatedThere'
  <2>0. edits' = edits
        BY <1>3, Frames DEF Frame
  <2>1. SUFFICES ASSUME NEW e \in edits, e.db = "parent", NEW s \in Sessions,
                        NEW r \in rows'["parent"][s], r.id = e.id
                 PROVE  r.date <= e.date
        BY <2>0 DEF DatedThere
  <2>2. r \in rows["parent"][s]
    <3>1. SUFFICES ASSUME r \notin rows["parent"][s] PROVE FALSE
          OBVIOUS
    <3>2. CarriedOver(p, "parent", s, r) \/ CopiedOver(p, "parent", s, r)
          BY <1>0, <1>3, <3>1, StepNews
    <3>3. ~CarriedOver(p, "parent", s, r)
          BY <2>1, CarryAt, NoneUnderCarry DEF CarriedOver, Carries
    <3>4. ~CopiedOver(p, "parent", s, r)
      <4>1. PICK id : id = lastId'
            OBVIOUS
      <4> QED BY <2>1, <4>1, CopyValues DEF CopiedOver, NewId
    <3> QED BY <3>2, <3>3, <3>4
  <2> QED BY <1>0, <2>1, <2>2 DEF DatedThere
<1>4. CASE UNCHANGED vars
      BY <1>0, <1>4 DEF DatedThere, vars, data, env
<1> QED BY <1>1, <1>2, <1>3, <1>4, Steps DEF Edit

LEMMA AliveThereKept == ASSUME Sure, Known', [Next]_vars PROVE AliveThere'
<1>0. /\ AliveThere /\ Straight /\ Calm /\ "parent" \in Dbs /\ \A e \in edits : e.id \in Ids
      BY SureTypes DEF Sure, Agreed, Calm, Carried, Dbs
<1>1. ASSUME NEW d \in Dbs, NEW statement \in Statements, NEW id \in Ids, BeginEdit(d, statement, id)
      PROVE  AliveThere'
  <2>1. features' = features /\ (statement # "INSERT" => features[d][id] # <<>>)
        BY <1>1, BegunEdit
  <2>2. PICK new : edits' = edits \cup {new} /\ new.db = d /\ new.id = id /\ new.statement = statement
        BY <1>1, BegunEdit
  <2> QED BY <1>0, <2>1, <2>2 DEF AliveThere
<1>2. ASSUME NEW c \in edits, CommitEdit(c) PROVE AliveThere'
  <2>1. edits' = edits \ {c}
        BY <1>2 DEF CommitEdit
  <2>2. SUFFICES ASSUME NEW e \in edits \ {c}, e.db = "parent", e.statement # "INSERT"
                 PROVE  features'["parent"][e.id] # <<>>
        BY <2>1 DEF AliveThere
  <2>3. features'["parent"][e.id] = features["parent"][e.id]
        BY <1>0, <1>2, <2>2, CommitChange DEF Straight
  <2> QED BY <1>0, <2>2, <2>3 DEF AliveThere
<1>3. ASSUME NEW p \in Procs, Step(p) PROVE AliveThere'
  <2>0. edits' = edits
        BY <1>3, Frames DEF Frame
  <2>1. SUFFICES ASSUME NEW e \in edits, e.db = "parent", e.statement # "INSERT"
                 PROVE  features'["parent"][e.id] # <<>>
        BY <2>0 DEF AliveThere
  <2>2. Carries(p) /\ "parent" = ToDb(p) => e.id # Current(p).id
    <3>1. SessionOf[p] # "parent"
          BY Places, SessionAssumption
    <3> QED BY <1>0, <2>1, <3>1, CarryAt, Directions, NoneUnderCarry DEF Carries
  <2>3. CopyFeature(p) => e.id # lastId'
    <3>1. PICK id : id = lastId'
          OBVIOUS
    <3> QED BY <2>1, <3>1, CopyValues DEF NewId
  <2>4. features'["parent"][e.id] = features["parent"][e.id]
        BY <1>0, <1>3, <2>2, <2>3, StepChange
  <2> QED BY <1>0, <2>1, <2>4 DEF AliveThere
<1>4. CASE UNCHANGED vars
      BY <1>0, <1>4 DEF AliveThere, vars, data, env
<1> QED BY <1>1, <1>2, <1>3, <1>4, Steps DEF Edit

LEMMA DeletedLastKept == ASSUME Sure, Known', [Next]_vars PROVE DeletedLast'
<1>0. /\ DeletedLast /\ DatedThere /\ AliveThere /\ Dead /\ Unborn /\ Calm /\ TypeInv
      /\ "parent" \in Sides /\ "parent" \in Dbs
      /\ \A s \in Sessions : \A r \in rows["parent"][s] : r.id \in Ids /\ r.n \in Nat /\ r.date \in Nat
      BY SureTypes DEF Sure, Agreed, Calm, Sides, Dbs
<1>1. \A s \in Sessions : \A r \in rows'["parent"][s] : r.n \in Nat /\ r.date \in Nat
  <2>1. TypeInv'
        BY <1>0, TypeInvKept
  <2> QED BY <2>1 DEF TypeInv, TypeOK, Sides, Difference
<1>2. ASSUME NEW s \in Sessions, NEW r \in rows["parent"][s], r.statement = "DELETE"
      PROVE  features["parent"][r.id] = <<>>
      BY <1>0, <1>2 DEF Dead, Db
<1>3. ASSUME NEW c \in edits, CommitEdit(c) PROVE DeletedLast'
  <2>0. SideOf(c.db) = (IF c.db = "parent" THEN "parent" ELSE "child") /\ c \in edits
        BY SureTypes
  <2>1. SUFFICES ASSUME NEW s \in Sessions, NEW r \in rows'["parent"][s], NEW q \in rows'["parent"][s],
                        r.statement = "DELETE", q.id = r.id, q # r
                 PROVE  q.n <= r.n /\ q.date <= r.date
        BY <1>1 DEF DeletedLast
  <2>2. CASE r \in rows["parent"][s] /\ q \in rows["parent"][s]
        BY <1>0, <2>1, <2>2 DEF DeletedLast
  <2>3. CASE r \in rows["parent"][s] /\ q \notin rows["parent"][s]
    <3>1. c.db = "parent" /\ r.id = c.id
          BY <1>0, <1>3, <2>0, <2>1, <2>3, CommitNews
    <3>2. c.statement # "INSERT"
          BY <1>0, <2>3, <3>1 DEF Unborn
    <3> QED BY <1>0, <1>2, <2>1, <2>3, <3>1, <3>2 DEF AliveThere
  <2>4. CASE r \notin rows["parent"][s]
    <3>1. PICK x \in Difference : rows'["parent"][s] = rows["parent"][s] \cup {x}
      <4>1. TypeInv
            BY <1>0
      <4> QED BY <1>3, <2>4, <4>1, CommitRows DEF Sides
    <3>2. q \in rows["parent"][s]
          BY <2>1, <2>4, <3>1
    <3>3. q.n < r.n /\ c.db = "parent" /\ r.id = c.id /\ r.date = c.date
          BY <1>0, <1>3, <2>0, <2>4, <3>2, CommitNews
    <3>4. q.date <= r.date
          BY <1>0, <2>1, <3>2, <3>3 DEF DatedThere
    <3> QED BY <1>1, <3>3, <3>4
  <2> QED BY <2>2, <2>3, <2>4
<1>4. ASSUME NEW p \in Procs, Step(p) PROVE DeletedLast'
  <2>1. SUFFICES ASSUME NEW s \in Sessions, NEW r \in rows'["parent"][s], NEW q \in rows'["parent"][s],
                        r.statement = "DELETE", q.id = r.id, q # r
                 PROVE  q.n <= r.n /\ q.date <= r.date
        BY <1>1 DEF DeletedLast
  <2>2. CASE r \in rows["parent"][s] /\ q \in rows["parent"][s]
        BY <1>0, <2>1, <2>2 DEF DeletedLast
  <2>3. CASE r \in rows["parent"][s] /\ q \notin rows["parent"][s]
    <3>1. CarriedOver(p, "parent", s, q) \/ CopiedOver(p, "parent", s, q)
          BY <1>0, <1>4, <2>3, StepNews
    <3>2. ~CopiedOver(p, "parent", s, q)
      <4>1. PICK id : id = lastId'
            OBVIOUS
      <4> QED BY <1>0, <2>1, <2>3, <4>1, CopyValues DEF CopiedOver, NewId
    <3>3. Carries(p) /\ call[p].dir = "checkin" /\ r.id = Current(p).id
          BY <2>1, <3>1, <3>2 DEF CarriedOver
    <3>4. Target(p) = <<>>
          BY <1>0, <1>2, <2>1, <2>3, <3>3, Directions DEF Target
    <3>5. InsertFeature(p) /\ At(p, "apply") /\ call[p].todo # {}
          BY <3>3, <3>4, CarryAt DEF Carries, Writes, ChangeFeature
    <3>6. IsOwn(SessionOf[p], r.id)
          BY <3>3, <3>5, InsertsInserted, TargetOfInsert
    <3> QED BY <1>0, <2>3, <3>6 DEF IsOwn, Sides
  <2>4. CASE r \notin rows["parent"][s]
    <3>1. PICK x \in Difference :
            Written(p, "parent", s, x) /\ rows'["parent"][s] = rows["parent"][s] \cup {x}
          BY <1>0, <1>4, <2>1, <2>4, StepRows
    <3>2. x = r /\ q \in rows["parent"][s]
          BY <2>1, <2>4, <3>1
    <3>3. q.n < r.n /\ r.date = Current(p).date
      <4>1. Table(rows["parent"][s])
            BY <1>0 DEF TypeInv, Tables
      <4> QED BY <3>1, <3>2, <4>1, NextNumber DEF Written
    <3>4. CarriedOver(p, "parent", s, r)
          BY <1>0, <1>4, <2>1, <2>4, StepNews DEF CopiedOver
    <3>5. /\ ChangeFeature(p) /\ Current(p).statement = "DELETE" /\ To(p) = "parent"
          /\ s \in Others(p) /\ q.id = Current(p).id
      <4>1. Carries(p) /\ call[p].dir = "checkin" /\ Current(p).statement = "DELETE" /\ r.id = Current(p).id
            BY <2>1, <3>4 DEF CarriedOver
      <4>2. s \in Others(p)
            BY <1>0, <3>4, <4>1, OthersTold DEF CarriedOver
      <4>3. ChangeFeature(p)
            BY <4>1 DEF Carries, Writes, InsertFeature, IsWriting, IsApplying
      <4> QED BY <1>0, <2>1, <4>1, <4>2, <4>3, Directions
    <3>6. ~IsBackdated(p)
          BY <3>5 DEF ChangeFeature, Known, Without, If
    <3>7. ~(q.date > r.date)
          BY <3>2, <3>3, <3>5, <3>6 DEF IsBackdated
    <3> QED BY <1>1, <2>1, <3>3, <3>7
  <2> QED BY <2>2, <2>3, <2>4
<1>5. CASE Begins \/ UNCHANGED vars
  <2>1. rows' = rows
        BY <1>5 DEF Begins, BeginEdit, vars, data
  <2> QED BY <1>0, <2>1 DEF DeletedLast
<1> QED BY <1>3, <1>4, <1>5, Steps DEF Edit, Begins

------------------------------------------------------------------------------
LEMMA AgreedKept == ASSUME Sure, Known', [Next]_vars PROVE Agreed'
BY SingleKept, UnbornKept, BornHereKept, BornThereKept, OldestInParentKept, OldestInChildKept,
   ParentStatedKept, DeadKept, DeletedLastKept, DatedThereKept, AliveThereKept, VanishedKept, DifferingKept,
   BesideKept, ClashingKept, SettledKept
   DEF Agreed

LEMMA AgreedInit == Init => Agreed
<1> SUFFICES ASSUME Init PROVE Agreed
    OBVIOUS
<1>1. /\ edits = {} /\ \A side \in Sides, s \in Sessions : rows[side][s] = {}
      /\ \A p \in Procs : pc[p] = "idle"
      /\ \A s \in Sessions : s \in Dbs
      BY DEF Init, Dbs
<1>2. \A d \in Dbs, i \in Ids : features[d][i] = IF i <= Objects THEN <<0>> ELSE <<>>
      BY DEF Init
<1>3. Single
      BY <1>2 DEF Single, IsOne
<1>4. \A s \in Sessions, i \in Ids : features["parent"][i] = features[s][i]
      BY <1>1, <1>2 DEF Dbs
<1>5. Vanished /\ Differing
      BY <1>4 DEF Vanished, Differing
<1>6. Unborn /\ BornHere /\ BornThere /\ OldestInParent /\ OldestInChild /\ ParentStated /\ Dead
      BY <1>1 DEF Unborn, BornHere, BornThere, OldestInParent, OldestInChild, ParentStated, Dead, Sides
<1>8. DeletedLast /\ DatedThere /\ AliveThere
      BY <1>1 DEF DeletedLast, DatedThere, AliveThere, Sides
<1>7. ASSUME NEW p \in Procs PROVE Beside(p) /\ Clashing(p) /\ Settled(p)
      BY <1>1 DEF Beside, Clashing, Settled, Attentive, Carrying, Done
<1> QED BY <1>3, <1>5, <1>6, <1>7, <1>8 DEF Agreed

KnownInv == WholeInv /\ (Known => Agreed)

LEMMA KnownInvKept == KnownInv /\ [Next]_vars => KnownInv'
<1> SUFFICES ASSUME KnownInv, [Next]_vars PROVE KnownInv'
    OBVIOUS
<1>1. WholeInv'
      BY WholeInvKept DEF KnownInv
<1>2. ASSUME Known' PROVE Agreed'
  <2>1. Known
        BY <1>2, KnownBefore DEF KnownInv, WholeInv
  <2>2. Calm
        BY <2>1 DEF Known, KnownInv, WholeInv, CarryInv, Calm
  <2> QED BY <1>2, <2>1, <2>2, AgreedKept DEF KnownInv, Sure
<1> QED BY <1>1, <1>2 DEF KnownInv

(* What says so can be carried: the last difference in a child of an object *)
(* that is gone there is a DELETE, and so is one in the parent.             *)
LEMMA AgreedKnows == KnownInv => DifferencesKnown
<1> SUFFICES ASSUME KnownInv, Usual, Without({"resurrected", "torn", "backdated"}),
                    NEW s \in Sessions, NEW i \in Ids, terms.rights = Statements,
                    BothOpen(s), features["parent"][i] # features[s][i]
             PROVE  \E side \in Sides : \E r \in rows[side][s] :
                      r.id = i /\ (r.statement = "DELETE" \/ features[Db(side, s)][i] # <<>>)
    BY DEF DifferencesKnown, BothOpen
<1>1. Sure
  <2>1. Known
        BY DEF Known
  <2> QED BY <2>1 DEF Sure, Known, KnownInv, WholeInv, CarryInv, Calm
<1>2. PICK side \in Sides : \E r \in rows[side][s] : r.id = i
      BY <1>1 DEF Sure, Agreed, Differing
<1>3. Db("parent", s) = "parent" /\ Db("child", s) = s /\ {"parent", "child"} = Sides
      BY <1>1, SureTypes DEF Db, Sides
<1>4. CASE side = "parent" \/ features[s][i] # <<>>
  <2>1. CASE features["parent"][i] # <<>> /\ features[s][i] # <<>>
        BY <1>2, <1>3, <2>1
  <2>2. CASE features["parent"][i] = <<>>
    <3>1. features[s][i] # <<>>
          BY <2>2
    <3> QED BY <1>1, <1>3, <2>2, <3>1 DEF Sure, Agreed, Vanished
  <2>3. CASE features["parent"][i] # <<>> /\ side = "parent"
        BY <1>2, <1>3, <2>3
  <2> QED BY <1>4, <2>1, <2>2, <2>3
<1>5. CASE side = "child" /\ features[s][i] = <<>>
  <2> DEFINE numbers == {x.n : x \in {y \in rows["child"][s] : y.id = i}}
  <2>1. Table(rows["child"][s]) /\ Alive
        BY <1>1, <1>3 DEF Sure, Calm, Carried, TypeInv, Tables
  <2>2. PICK b \in Nat : \A x \in rows["child"][s] : x.n <= b
        BY <2>1 DEF Table
  <2>3. PICK n \in numbers : \A x \in numbers : x <= n
    <3>1. numbers \in SUBSET Nat /\ numbers # {} /\ \A x \in numbers : x <= b
          BY <1>2, <1>5, <2>1, <2>2 DEF Table, Difference
    <3> HIDE DEF numbers
    <3> QED BY <3>1, GreatestOf
  <2>4. PICK r \in rows["child"][s] : r.id = i /\ r.n = n
        BY <2>3
  <2>5. \A q \in rows["child"][s] : q.id = r.id => q.n <= r.n
        BY <2>3, <2>4
  <2>6. r.statement = "DELETE"
        BY <1>5, <2>1, <2>4, <2>5 DEF Alive
  <2> QED BY <1>3, <2>4, <2>6
<1> QED BY <1>3, <1>4, <1>5

(* Where the parent and a child differ a difference of one of them says so, *)
(* and the next call will carry it: thinning (Replication.cs:2873), the     *)
(* verdict on a conflict (2611, 2732), the removal of what was carried and  *)
(* the calls of the other sessions lose none, for any number of sessions,   *)
(* of calls and of objects.                                                 *)
THEOREM NothingForgotten == Spec => []DifferencesKnown
<1>1. Init => KnownInv
      BY WholeInvInit, AgreedInit DEF KnownInv
<1>2. KnownInv => DifferencesKnown
      BY AgreedKnows
<1> QED BY <1>1, <1>2, KnownInvKept, PTL DEF Spec
===============================================================================
