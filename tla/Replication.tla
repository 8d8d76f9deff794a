------------------------------ MODULE Replication ------------------------------
(***************************************************************************)
(* Replication of a feature class (gView.Framework.Offline/Replication.cs): *)
(* a parent database and, per checkout session, a child database.  Edits    *)
(* on either side are written down as differences, one for every session    *)
(* of the database; Process carries the differences of a session from the   *)
(* child to the parent and, if it reconciles, back.  The statements of      *)
(* Process are steps of their own, there is no transaction around it; only  *)
(* those that clear away one thing from several tables are taken together.  *)
(*                                                                         *)
(* Children that were checked out from again are left out.                  *)
(***************************************************************************)
EXTENDS Integers, FiniteSets, Sequences

CONSTANTS Sessions,   \* checkouts, each with its child database
          Procs,      \* those who check in or reconcile
          SessionOf,  \* the session of each
          Terms,      \* conflict handlings and child rights of the sessions
          Objects,    \* number of objects at first
          MaxObjects, \* bound on objects
          MaxEdits,   \* bound on edits
          MaxRuns,    \* bound on calls of Process
          MaxWork     \* bound on both, an edit counted twice

ASSUME SessionAssumption ==
  SessionOf \in [Procs -> Sessions] /\ Sessions \cap {"parent", "none"} = {}
ASSUME BoundAssumption ==
  /\ Objects \in Nat /\ MaxObjects \in Nat /\ MaxEdits \in Nat /\ MaxRuns \in Nat /\ MaxWork \in Nat
  /\ Objects <= MaxObjects

Statements == {"INSERT", "UPDATE", "DELETE"}
LockStates == {"Unlock", "Softlock", "Hardlock"}
Types == {"CheckinAndRelease", "Reconcile"}
Handlings == {"NONE", "NORMAL", "PARENT_WINS", "CHILD_WINS", "NEWER_WINS"}
Sides == {"parent", "child"}
Dbs == {"parent"} \cup Sessions
Ids == 1..MaxObjects
Db(side, s) == IF side = "parent" THEN "parent" ELSE s
SideOf(d) == IF d = "parent" THEN "parent" ELSE "child"

ASSUME TermsAssumption == Terms \subseteq [handling : Handlings, rights : SUBSET Statements]

VARIABLES features,   \* per database and object: the values of its rows
          session,    \* GV_CHECKOUT_SESSIONS, in the parent and in the child
          rows,       \* GV_CHECKOUT_DIFFERENCE, of a session on either side
          locks,      \* GV_CHECKOUT_LOCKS
          conflicts,  \* GV_CHECKOUT_CONFLICTS
          edits,      \* transactions of editors
          pc,         \* where the calls of Process are
          call,       \* and what they have read
          terms,      \* the CONFLICT_HANDLING and CHILD_RIGHTS of the sessions
          time,       \* of the last edit, which is also the value it writes
          lastId,     \* object ids given so far
          runs,       \* calls of Process so far
          excuses     \* history: what should not have happened

data == <<features, rows, conflicts, lastId>>
env == <<edits, terms, time, runs>>
vars == <<data, session, locks, pc, call, env, excuses>>

NoCall == [type |-> "Reconcile", dir |-> "checkin", parentState |-> -1, childState |-> -1,
           todo |-> {}, other |-> {}, copy |-> 0]

Init ==
  /\ features = [d \in Dbs |-> [i \in Ids |-> IF i <= Objects THEN <<0>> ELSE <<>>]]
  /\ session = [side \in Sides |->
                 [s \in Sessions |-> [open |-> TRUE, state |-> 0, lock |-> "Unlock"]]]
  /\ rows = [side \in Sides |-> [s \in Sessions |-> {}]]
  /\ locks = [d \in Dbs |-> {}]
  /\ conflicts = [d \in Dbs |-> {}]
  /\ edits = {}
  /\ pc = [p \in Procs |-> "idle"]
  /\ call = [p \in Procs |-> NoCall]
  /\ terms \in Terms
  /\ time = 0 /\ lastId = Objects /\ runs = 0
  /\ excuses = {}

------------------------------------------------------------------------------
IsOpen(side, s) == session[side][s].open

(* The sessions a database has a row for.                                  *)
Watching(d) == {s \in Sessions : (d = "parent" \/ d = s) /\ IsOpen(SideOf(d), s)}

If(when, what) == IF when THEN {what} ELSE {}
MaxOf(S) == CHOOSE m \in S : \A x \in S : x <= m
UpTo(T, state) == {r \in T : r.state <= state}

(* WriteDifferencesToTable: one row for every session in the domain of     *)
(* states.                                                                 *)
Recorded(d, states, id, statement, date) ==
  LET old == rows[SideOf(d)]
      n(s) == 1 + MaxOf({0} \cup {r.n : r \in old[s]})
  IN [rows EXCEPT ![SideOf(d)] = [s \in Sessions |->
        IF s \notin DOMAIN states THEN old[s]
        ELSE old[s] \cup {[n |-> n(s), id |-> id, statement |-> statement,
                           state |-> states[s], date |-> date]}]]

(* Changed: every lock is taken for one of the call's own.                 *)
IsFreeForAll(d, id, own) ==
  LET on == {l \in locks[d] : l.id = id} IN
  /\ \A l \in on : l.lock >= 0
  /\ on = {} => \A c \in conflicts[d] : id \notin {c.id, c.copy}

(* HasLocksOrConflicts, for the call of a session or for an editor; a lock *)
(* of the call's own hides a conflict.                                     *)
IsFree(d, id, own) ==
  LET on == {l \in locks[d] : l.id = id} IN
  /\ \A l \in on : l.lock >= 0 /\ l.session \in own
  /\ on = {} => \A c \in conflicts[d] : id \notin {c.id, c.copy}

(* Updates and deletes also wait for the sessions they concern.            *)
MayChange(d, concerned, id, own) ==
  concerned # {} =>
    /\ \A s \in concerned : session[SideOf(d)][s].lock # "Hardlock"
    /\ IsFree(d, id, own)

Put(d, id, values) == features' = [features EXCEPT ![d][id] = values]

At(p, where) == pc[p] = where
Goto(p, where) == pc' = [pc EXCEPT ![p] = where]

(* CheckIn, from the child to the parent, and as Post the other way round. *)
From(p) == IF call[p].dir = "checkin" THEN "child" ELSE "parent"
To(p) == IF call[p].dir = "checkin" THEN "parent" ELSE "child"
FromDb(p) == Db(From(p), SessionOf[p])
ToDb(p) == Db(To(p), SessionOf[p])

------------------------------------------------------------------------------
(* Insert, Update and Delete of the databases: the differences and the     *)
(* feature in one transaction; the sessions were read and the locks checked *)
(* before.  Nothing keeps two editors from the same feature, nor one of    *)
(* them from a copy whose conflict is not written yet.                     *)
BeginEdit(d, statement, id) ==
  /\ time < MaxEdits /\ 2 * time + runs + 2 <= MaxWork
  /\ d # "parent" => IsOpen("child", d)
  /\ IF statement = "INSERT" THEN id = lastId + 1 /\ lastId' = id
     ELSE /\ features[d][id] # <<>>
          /\ MayChange(d, Watching(d), id, {})
          /\ UNCHANGED lastId
  /\ time' = time + 1
  /\ edits' = edits \cup
       {[db |-> d, statement |-> statement, id |-> id, date |-> time',
         states |-> [s \in Watching(d) |-> session[SideOf(d)][s].state]]}
  /\ excuses' = excuses
       \cup If(\E e \in edits : e.db = d /\ e.id = id, "crossed")
       \cup If(\E p \in Procs : At(p, "conflict") /\ ToDb(p) = d /\ call[p].copy = id, "unprotected")
  /\ UNCHANGED <<features, rows, conflicts, session, locks, pc, call, terms, runs>>

(* A feature that is gone meanwhile is neither updated nor deleted.         *)
CommitEdit(e) ==
  LET old == features[e.db][e.id] IN
  /\ edits' = edits \ {e}
  /\ rows' = Recorded(e.db, e.states, e.id, e.statement, e.date)
  /\ Put(e.db, e.id, IF e.statement = "INSERT" THEN Append(old, e.date)
                     ELSE IF old = <<>> THEN old
                     ELSE (IF e.statement = "UPDATE" THEN <<e.date>> ELSE <<>>) \o Tail(old))
  /\ UNCHANGED <<conflicts, lastId, session, locks, pc, call, terms, time, runs, excuses>>

------------------------------------------------------------------------------
(* Init reads the session on either side, and throws if one is locked.      *)
(* Where a later check or a statement throws, Fail is the step left.       *)
Begin(p, type) ==
  LET s == SessionOf[p] IN
  /\ At(p, "idle") /\ runs < MaxRuns /\ 2 * time + runs + 1 <= MaxWork
  /\ IsOpen("parent", s) /\ IsOpen("child", s)
  /\ runs' = runs + 1
  /\ call' = [call EXCEPT ![p] = [NoCall EXCEPT !.type = type,
                                    !.parentState = session["parent"][s].state,
                                    !.childState = session["child"][s].state]]
  /\ Goto(p, IF \A side \in Sides : session[side][s].lock = "Unlock"
             THEN "checkOthers" ELSE "removeChildLocks")
  /\ excuses' = excuses \cup
       If(\E q \in Procs \ {p} : SessionOf[q] = s /\ ~At(q, "idle"), "overlap")
  /\ UNCHANGED <<data, session, locks, edits, terms, time>>

(* CheckForLockedFeatureclassSessions throws if another session of the     *)
(* parent is locked, so the overload that would wait never does.           *)
OthersUnlocked(p) ==
  \A s \in Watching("parent") \ {SessionOf[p]} : session["parent"][s].lock = "Unlock"

(* Changed: the others are not looked at again under the hard lock.        *)
CheckOthersOnce(p) ==
  /\ \/ At(p, "checkOthers") /\ Goto(p, "lockParent") /\ OthersUnlocked(p)
     \/ At(p, "recheck") /\ Goto(p, "incParent")
  /\ UNCHANGED <<data, session, locks, call, env, excuses>>

CheckOthers(p) ==
  /\ \/ At(p, "checkOthers") /\ Goto(p, "lockParent")
     \/ At(p, "recheck") /\ Goto(p, "incParent")
  /\ OthersUnlocked(p)
  /\ UNCHANGED <<data, session, locks, call, env, excuses>>

(* LockReplicationSession and IncReplicationState return false when they   *)
(* fail, which nobody looks at.                                            *)
SetSession(side, s, changed) ==
  \/ /\ session' = IF IsOpen(side, s) THEN [session EXCEPT ![side][s] = changed] ELSE session
     /\ UNCHANGED excuses
  \/ UNCHANGED session /\ excuses' = excuses \cup {"unnoticed"}

LockReplicationSession(p, side, lock) ==
  LET s == SessionOf[p] IN SetSession(side, s, [session[side][s] EXCEPT !.lock = lock])

LockSession(p) ==
  /\ \/ /\ At(p, "lockParent") /\ Goto(p, "lockChild")
        /\ LockReplicationSession(p, "parent", "Hardlock")
     \/ /\ At(p, "lockChild") /\ Goto(p, "recheck")
        /\ LockReplicationSession(p, "child", "Hardlock")
     \/ /\ At(p, "softenParent") /\ Goto(p, "softenChild")
        /\ LockReplicationSession(p, "parent", "Softlock")
     \/ /\ At(p, "softenChild") /\ Goto(p, "readDifferences")
        /\ LockReplicationSession(p, "child", "Softlock")
  /\ UNCHANGED <<data, locks, call, env>>

IncReplicationState(p) ==
  LET inc(side) == [session[side][SessionOf[p]] EXCEPT !.state = session[side][SessionOf[p]].state + 1] IN
  /\ \/ /\ At(p, "incParent") /\ Goto(p, "incChild")
        /\ SetSession("parent", SessionOf[p], inc("parent"))
     \/ /\ At(p, "incChild") /\ Goto(p, "sleep")
        /\ SetSession("child", SessionOf[p], inc("child"))
  /\ UNCHANGED <<data, locks, call, env>>

StateOf(p, side) == IF side = "parent" THEN call[p].parentState ELSE call[p].childState

(* Half a second, in which edits that were begun before should end.        *)
Sleep(p) ==
  LET s == SessionOf[p] IN
  /\ At(p, "sleep")
  /\ Goto(p, "thinChild")
  /\ excuses' = excuses \cup
       If(\E e \in edits : s \in DOMAIN e.states /\ e.states[s] <= StateOf(p, SideOf(e.db)), "slow")
  /\ UNCHANGED <<data, session, locks, call, env>>

Before(q, r) == q.date < r.date \/ (q.date = r.date /\ q.n < r.n)

(* ThinDifferencesTable: of several differences of an object the first, if *)
(* it was inserted and is still there, none, if it is not, or the last.    *)
Thinned(T, state) ==
  {r \in T :
     LET same == {q \in T : q.id = r.id}
         first == CHOOSE q \in same : \A o \in same \ {q} : Before(q, o)
         last == CHOOSE q \in same : \A o \in same \ {q} : Before(o, q)
         kept == IF first.statement = "INSERT" /\ last.statement = "UPDATE" THEN {first}
                 ELSE IF first.statement = "INSERT" /\ last.statement = "DELETE" THEN {}
                 ELSE {last}
     IN r.state > state \/ Cardinality(UpTo(same, state)) = 1 \/ r \in kept}

ThinSide(p, side) ==
  rows' = [rows EXCEPT ![side][SessionOf[p]] = Thinned(rows[side][SessionOf[p]], StateOf(p, side))]

Thin(p) ==
  /\ \/ At(p, "thinChild") /\ Goto(p, "thinParent") /\ ThinSide(p, "child")
     \/ At(p, "thinParent") /\ Goto(p, "lockChildObjects") /\ ThinSide(p, "parent")
  /\ UNCHANGED <<features, conflicts, lastId, session, locks, call, env, excuses>>

Lock(id, lock, s, state) == [id |-> id, lock |-> lock, session |-> s, state |-> state]

(* Own locks (0) in one statement, and row by row those for the            *)
(* differences of the other side (1): where InsertRow returns false the    *)
(* lock is missing, which nobody looks at.                                 *)
Added(d, own, theirs) ==
  \E got \in SUBSET theirs :
    /\ locks' = [locks EXCEPT ![d] = locks[d] \cup own \cup got]
    /\ excuses' = excuses \cup If(got # theirs, "unnoticed")

LockObjects(p) ==
  LET s == SessionOf[p]
      own(side) == {Lock(r.id, 0, s, r.state) : r \in UpTo(rows[side][s], StateOf(p, side))}
      theirs(side, upTo) ==
        {Lock(r.id, 1, s, call[p].childState) : r \in UpTo(rows[side][s], upTo)}
  IN
  /\ \/ /\ At(p, "lockChildObjects") /\ Goto(p, "lockParentObjects")
        /\ Added(s, own("child"), theirs("parent", call[p].parentState))
     \/ /\ At(p, "lockParentObjects") /\ Goto(p, "softenParent")
        /\ Added("parent", IF call[p].type = "Reconcile" THEN own("parent") ELSE {},
                 theirs("child", call[p].parentState))
  /\ UNCHANGED <<data, session, call, env>>

------------------------------------------------------------------------------
ReadDifferences(p) ==
  LET s == SessionOf[p] IN
  /\ At(p, "readDifferences")
  /\ To(p) = "parent" => OthersUnlocked(p)
  /\ call' = [call EXCEPT ![p].todo = UpTo(rows[From(p)][s], StateOf(p, From(p))),
                          ![p].other = UpTo(rows[To(p)][s], StateOf(p, To(p)))]
  /\ Goto(p, "apply")
  /\ UNCHANGED <<data, session, locks, env, excuses>>

Current(p) == CHOOSE r \in call[p].todo : \A q \in call[p].todo : r.n <= q.n
Source(p) == features[FromDb(p)][Current(p).id]
Target(p) == features[ToDb(p)][Current(p).id]

Clashes(p) == {q \in call[p].other : q.id = Current(p).id}
Clash(p) == CHOOSE q \in Clashes(p) : \A o \in Clashes(p) : o.n <= q.n

(* What the session's conflict handling makes of an update or a delete.    *)
Verdict(p) ==
  IF Clashes(p) = {} \/ terms.handling = "CHILD_WINS" THEN "take"
  ELSE IF terms.handling = "NEWER_WINS" THEN IF Clash(p).date >= Current(p).date THEN "leave" ELSE "take"
  ELSE IF terms.handling = "PARENT_WINS" \/ Current(p).statement = "DELETE" THEN "leave"
  ELSE "copy"

IsApplying(p, statement) ==
  /\ At(p, "apply") /\ call[p].todo # {}
  /\ Current(p).statement = statement /\ statement \in terms.rights

(* The other database takes no edits once it is released.                  *)
IsWriting(p, statement) ==
  IsApplying(p, statement) /\ (To(p) = "child" => IsOpen("child", SessionOf[p]))

(* WriteConflict, under the handling that asks for it; nobody looks at the *)
(* false that it may return.                                               *)
AddConflict(p, copy) ==
  LET conflict == [id |-> Current(p).id, copy |-> copy] IN
  \/ /\ conflicts' = [conflicts EXCEPT ![ToDb(p)] = conflicts[ToDb(p)] \cup {conflict}]
     /\ UNCHANGED excuses
  \/ UNCHANGED conflicts /\ excuses' = excuses \cup {"unnoticed"}

(* Changed: what is carried is a difference for nobody.                    *)
NoOthers(p) == Watching(ToDb(p)) \ Sessions

(* FeatureClassDiffLocks: the change is no difference for its own session. *)
Others(p) == Watching(ToDb(p)) \ {SessionOf[p]}
Told(p, statement) ==
  Recorded(ToDb(p), [s \in Others(p) |-> session[To(p)][s].state], Current(p).id,
           statement, Current(p).date)

Applied(p) == Goto(p, "remove") /\ UNCHANGED <<session, locks, call, env>>

(* continue: the row is left where it is.                                  *)
PassOver(p) ==
  /\ IsApplying(p, "INSERT") \/ IsApplying(p, "UPDATE")
  /\ Source(p) = <<>>
  /\ call' = [call EXCEPT ![p].todo = call[p].todo \ {Current(p)}]
  /\ UNCHANGED <<data, session, locks, pc, env, excuses>>

Leave(p) ==
  /\ At(p, "apply") /\ call[p].todo # {}
  /\ \/ /\ \/ Current(p).statement \notin terms.rights
           \/ IsApplying(p, "UPDATE") /\ Source(p) # <<>> /\ Verdict(p) = "leave"
           \/ IsApplying(p, "DELETE") /\ Verdict(p) = "take" /\ Target(p) = <<>>
           \/ /\ IsApplying(p, "DELETE") /\ Verdict(p) = "leave"
              /\ terms.handling = "NORMAL" => Clash(p).statement = "DELETE"
        /\ UNCHANGED <<conflicts, excuses>>
     \/ /\ IsApplying(p, "DELETE") /\ Verdict(p) = "leave"
        /\ terms.handling = "NORMAL" /\ Clash(p).statement # "DELETE"
        /\ AddConflict(p, Current(p).id)
  /\ Applied(p)
  /\ UNCHANGED <<features, rows, lastId>>

(* A new feature, or one that the other side does not have any more.       *)
InsertFeature(p) ==
  /\ \/ IsWriting(p, "INSERT")
     \/ IsWriting(p, "UPDATE") /\ Verdict(p) = "take" /\ Target(p) = <<>>
  /\ Source(p) # <<>>
  /\ Put(ToDb(p), Current(p).id, Append(Target(p), Head(Source(p))))
  /\ rows' = Told(p, "INSERT")
  /\ Goto(p, "remove")
  /\ excuses' = excuses \cup If(Clashes(p) # {}, "resurrected")
  /\ UNCHANGED <<conflicts, lastId, session, locks, call, env>>

Copied(p, states) ==
  /\ IsWriting(p, "UPDATE") /\ Verdict(p) = "copy"
  /\ Source(p) # <<>>
  /\ lastId < MaxObjects /\ lastId' = lastId + 1
  /\ Put(ToDb(p), lastId', <<Head(Source(p))>>)
  /\ rows' = Recorded(ToDb(p), states, lastId', "INSERT", Current(p).date)
  /\ IF terms.handling = "NORMAL"
     THEN Goto(p, "conflict") /\ call' = [call EXCEPT ![p].copy = lastId']
     ELSE Goto(p, "remove") /\ UNCHANGED call
  /\ UNCHANGED <<conflicts, session, locks, env, excuses>>

(* Changed: the row of a copy gets the -1 that stands for no state.        *)
CopyFeatureWithoutState(p) ==
  Copied(p, [s \in Watching(ToDb(p)) |-> IF s = SessionOf[p] THEN -1 ELSE session[To(p)][s].state])

(* The feature of the child becomes an object of its own, which is posted  *)
(* to the child in turn (FeatureClassDifferenceDateTime).                  *)
CopyFeature(p) ==
  Copied(p, [s \in Watching(ToDb(p)) |->
               IF s = SessionOf[p] THEN StateOf(p, To(p)) ELSE session[To(p)][s].state])

(* The conflict comes after the copy, over another connection.             *)
WriteConflict(p) ==
  /\ At(p, "conflict")
  /\ AddConflict(p, call[p].copy)
  /\ call' = [call EXCEPT ![p].copy = 0]
  /\ Goto(p, "remove")
  /\ UNCHANGED <<features, rows, lastId, session, locks, env>>

MayApply(p) == MayChange(ToDb(p), Others(p), Current(p).id, {SessionOf[p]})

(* A deletion of a child keeps its date: for another session it may be the *)
(* difference written last of an object and not the one thinning keeps.    *)
IsBackdated(p) ==
  /\ Current(p).statement = "DELETE"
  /\ \E s \in Others(p) : \E q \in rows[To(p)][s] : q.id = Current(p).id /\ q.date > Current(p).date

ChangeFeature(p) ==
  /\ IsWriting(p, "UPDATE") \/ IsWriting(p, "DELETE")
  /\ Verdict(p) = "take" /\ Target(p) # <<>>
  /\ MayApply(p)
  /\ \/ /\ Current(p).statement = "UPDATE" /\ Source(p) # <<>>
        /\ Put(ToDb(p), Current(p).id, <<Head(Source(p))>> \o Tail(Target(p)))
        /\ rows' = Told(p, "UPDATE")
     \/ /\ Current(p).statement = "DELETE"
        /\ Put(ToDb(p), Current(p).id, Tail(Target(p)))
        /\ rows' = Told(p, "DELETE")
  /\ Applied(p)
  /\ excuses' = excuses \cup If(IsBackdated(p), "backdated")
  /\ UNCHANGED <<conflicts, lastId>>

(* The difference and the locks it had on either side: each DeleteRows may *)
(* return false, which nobody looks at.                                    *)
RemoveRow(p) ==
  LET s == SessionOf[p]
      r == Current(p)
      all == {"row", "from", "to"}
  IN
  /\ At(p, "remove")
  /\ \E gone \in SUBSET all :
       LET left(what, set, x) == IF what \in gone THEN set \ {x} ELSE set
           rest == [locks EXCEPT ![FromDb(p)] =
                      left("from", locks[FromDb(p)], Lock(r.id, 0, s, r.state))]
       IN
       /\ rows' = [rows EXCEPT ![From(p)][s] = left("row", rows[From(p)][s], r)]
       /\ locks' = [rest EXCEPT ![ToDb(p)] =
                      left("to", locks[ToDb(p)], Lock(r.id, 1, s, StateOf(p, To(p))))]
       /\ excuses' = excuses \cup If(gone # all, "unnoticed")
  /\ call' = [call EXCEPT ![p].todo = call[p].todo \ {r}]
  /\ Goto(p, "apply")
  /\ UNCHANGED <<features, conflicts, lastId, session, env>>

(* SwapParentChild and Post, or what comes after.                          *)
EndCheckIn(p) ==
  /\ At(p, "apply") /\ call[p].todo = {}
  /\ \/ /\ call[p].type = "CheckinAndRelease"
        /\ Goto(p, "releaseChild")
        /\ call' = [call EXCEPT ![p].other = {}]
     \/ /\ call[p].type = "Reconcile" /\ call[p].dir = "checkin"
        /\ Goto(p, "readDifferences")
        /\ call' = [call EXCEPT ![p].other = {}, ![p].dir = "post"]
     \/ /\ call[p].dir = "post"
        /\ Goto(p, "insertLocks")
        /\ call' = [call EXCEPT ![p].other = {}]
  /\ UNCHANGED <<data, session, locks, env, excuses>>

Closed == [open |-> FALSE, state |-> 0, lock |-> "Unlock"]

(* ReleaseVersion, in the child and in the parent.                         *)
ReleaseChild(p) ==
  LET s == SessionOf[p] IN
  /\ At(p, "releaseChild")
  /\ IsOpen("child", s)
  /\ session' = [session EXCEPT !["child"][s] = Closed]
  /\ rows' = [rows EXCEPT !["child"][s] = {}]
  /\ locks' = [locks EXCEPT ![s] = {}]
  /\ Goto(p, "releaseParent")
  /\ UNCHANGED <<features, conflicts, lastId, call, env, excuses>>

ReleaseParent(p) ==
  LET s == SessionOf[p] IN
  /\ At(p, "releaseParent")
  /\ session' = [session EXCEPT !["parent"][s] = Closed]
  /\ rows' = [rows EXCEPT !["parent"][s] = {}]
  /\ Goto(p, "removeChildLocks")
  /\ UNCHANGED <<features, conflicts, lastId, locks, call, env, excuses>>

(* The child may not edit what is in conflict in the parent.               *)
InsertCheckoutLocks(p) ==
  LET s == SessionOf[p] IN
  /\ At(p, "insertLocks")
  /\ locks' = [locks EXCEPT ![s] = {Lock(i, -1, "none", -1) :
                                      i \in UNION {{c.id, c.copy} : c \in conflicts["parent"]}}]
  /\ Goto(p, "removeChildLocks")
  /\ UNCHANGED <<data, session, call, env, excuses>>

------------------------------------------------------------------------------
(* Changed: after the swap each side is cleaned up to the state before.    *)
CleanedBefore(p, side) == IF call[p].dir = "checkin" THEN StateOf(p, side) ELSE StateOf(p, side) - 1

(* finally.  After the swap each database is cleaned up to the state of    *)
(* the other.                                                              *)
CleanedUpTo(p, side) ==
  IF call[p].dir = "checkin" THEN StateOf(p, side)
  ELSE StateOf(p, IF side = "parent" THEN "child" ELSE "parent")

RemoveReplicationLocks(p, side) ==
  LET s == SessionOf[p]
      d == Db(side, s)
      mine == {l \in locks[d] : /\ l.session = s /\ l.lock >= 0
                                /\ l.state >= 0 /\ l.state <= CleanedUpTo(p, side)}
  IN \/ locks' = [locks EXCEPT ![d] = locks[d] \ mine] /\ UNCHANGED excuses
     \/ UNCHANGED locks /\ excuses' = excuses \cup {"unnoticed"}

RemoveLocks(p) ==
  /\ \/ /\ At(p, "removeChildLocks") /\ Goto(p, "removeParentLocks")
        /\ RemoveReplicationLocks(p, "child")
     \/ /\ At(p, "removeParentLocks") /\ Goto(p, "unlockChild")
        /\ RemoveReplicationLocks(p, "parent")
  /\ UNCHANGED <<data, session, call, env>>

UnlockChild(p) ==
  /\ At(p, "unlockChild")
  /\ LockReplicationSession(p, "child", "Unlock")
  /\ Goto(p, "unlockParent")
  /\ UNCHANGED <<data, locks, call, env>>

UnlockParent(p) ==
  /\ At(p, "unlockParent")
  /\ LockReplicationSession(p, "parent", "Unlock")
  /\ Goto(p, "idle")
  /\ call' = [call EXCEPT ![p] = NoCall]
  /\ UNCHANGED <<data, locks, env>>

Cleaning == {"removeChildLocks", "removeParentLocks", "unlockChild", "unlockParent"}

(* What a call leaves behind that stops where it is.                       *)
Broken(p) == If(pc[p] \in {"conflict", "remove"}, "torn") \cup If(At(p, "incChild"), "uneven")

(* Changed: the release does not ask whether the check-in succeeded.       *)
FailUnasked(p) ==
  /\ pc[p] \notin Cleaning \cup {"idle"}
  /\ Goto(p, IF pc[p] \in {"apply", "conflict", "remove"} /\ call[p].type = "CheckinAndRelease"
             THEN "releaseChild" ELSE "removeChildLocks")
  /\ call' = [call EXCEPT ![p].todo = {}, ![p].other = {}, ![p].copy = 0]
  /\ excuses' = excuses \cup Broken(p)
  /\ UNCHANGED <<data, session, locks, env>>

(* A check or a statement throws.                                          *)
Fail(p) ==
  /\ pc[p] \notin Cleaning \cup {"idle"}
  /\ Goto(p, "removeChildLocks")
  /\ call' = [call EXCEPT ![p].todo = {}, ![p].other = {}, ![p].copy = 0]
  /\ excuses' = excuses \cup Broken(p)
  /\ UNCHANGED <<data, session, locks, env>>

Crash(p) ==
  /\ ~At(p, "idle")
  /\ Goto(p, "idle")
  /\ call' = [call EXCEPT ![p] = NoCall]
  /\ excuses' = excuses \cup Broken(p) \cup {"crash"}
  /\ UNCHANGED <<data, session, locks, env>>

Prepare(p) ==
  \/ \E type \in Types : Begin(p, type)
  \/ CheckOthers(p) \/ LockSession(p)
  \/ IncReplicationState(p) \/ Sleep(p) \/ Thin(p) \/ LockObjects(p)

CheckIn(p) ==
  \/ ReadDifferences(p) \/ PassOver(p) \/ Leave(p)
  \/ InsertFeature(p) \/ CopyFeature(p) \/ WriteConflict(p) \/ ChangeFeature(p)
  \/ RemoveRow(p) \/ EndCheckIn(p)

Complete(p) ==
  \/ ReleaseChild(p) \/ ReleaseParent(p) \/ InsertCheckoutLocks(p)
  \/ RemoveLocks(p) \/ UnlockChild(p) \/ UnlockParent(p)

Edit == \/ \E d \in Dbs, statement \in Statements, id \in Ids : BeginEdit(d, statement, id)
        \/ \E e \in edits : CommitEdit(e)

Next == Edit \/ \E p \in Procs : Prepare(p) \/ CheckIn(p) \/ Complete(p) \/ Fail(p) \/ Crash(p)

Spec == Init /\ [][Next]_vars

------------------------------------------------------------------------------
Working == {"incParent", "incChild", "sleep", "thinChild", "thinParent",
            "lockChildObjects", "lockParentObjects", "softenParent", "softenChild",
            "readDifferences", "apply", "conflict", "remove",
            "releaseChild", "releaseParent", "insertLocks"}
PCs == {"idle", "checkOthers", "lockParent", "lockChild", "recheck"}
       \cup Working \cup Cleaning

Session == [open : BOOLEAN, state : Nat, lock : LockStates]
Difference == [n : Nat, id : Ids, statement : Statements, state : Nat, date : Nat]
ObjectLock == [id : Ids, lock : {-1, 0, 1}, session : Sessions \cup {"none"}, state : Int]
Transaction(S) == [db : Dbs, statement : Statements, id : Ids, date : Nat, states : [S -> Nat]]
Call == [type : Types, dir : {"checkin", "post"}, parentState : Int, childState : Int,
         todo : SUBSET Difference, other : SUBSET Difference, copy : 0..MaxObjects]

(* The tables hold what is expected in them; a difference has a state, which *)
(* FeatureClassDiffLocks, whose state is -1, must never give it.           *)
TypeOK ==
  /\ features \in [Dbs -> [Ids -> Seq(Nat)]]
  /\ session \in [Sides -> [Sessions -> Session]]
  /\ rows \in [Sides -> [Sessions -> SUBSET Difference]]
  /\ locks \in [Dbs -> SUBSET ObjectLock]
  /\ conflicts \in [Dbs -> SUBSET [id : Ids, copy : Ids]]
  /\ \A e \in edits : DOMAIN e.states \subseteq Sessions /\ e \in Transaction(DOMAIN e.states)
  /\ pc \in [Procs -> PCs] /\ call \in [Procs -> Call]
  /\ terms \in Terms
  /\ time \in Nat /\ runs \in Nat /\ lastId \in 0..MaxObjects

Without(E) == excuses \cap E = {}

(* What neither calls nor editors are kept from has not happened: two      *)
(* calls of a session at once, an edit that outlasts the wait, two editors *)
(* at a feature, one at a copy that has no conflict yet (2634-2644), and a *)
(* statement that fails without anybody looking.                           *)
Usual == Without({"overlap", "slow", "crossed", "unprotected", "unnoticed"})

(* Two calls never work on the parent at the same time: each hard-locks    *)
(* its session before it looks for the locks of the others (Process,       *)
(* Replication.cs:1942).  Unless a lock silently failed, or another call   *)
(* on the same session removed it.                                         *)
OneAtATime ==
  Without({"overlap", "unnoticed"}) =>
    \A p, q \in Procs : pc[p] \in Working /\ pc[q] \in Working => p = q

(* No object stays locked when the calls of its session are over: finally  *)
(* (2142) removes every lock, although it compares those of the parent     *)
(* with another state than they were written with (2092).  Unless the      *)
(* states of the two sides have become different (2145), or two calls of a *)
(* session were made at once.                                              *)
NoLockLeft ==
  Without({"overlap", "unnoticed", "crash", "uneven"}) =>
    \A s \in Sessions : (\A p \in Procs : SessionOf[p] = s => At(p, "idle")) =>
      \A d \in Dbs : \A l \in locks[d] : l.session # s

(* Where the parent and a child differ a difference of one of them says    *)
(* so, and it is one that the next call can carry, a DELETE or of a feature *)
(* that is there: neither thinning (2873) nor a conflict (2611, 2732) nor  *)
(* the check-in of another session loses one.  Unless something unusual    *)
(* happened, a call was broken off with a row carried and not removed, a   *)
(* feature was inserted again that the other side had deleted (2692), or a *)
(* deletion was carried that is older than what it overrules (LastKept).   *)
DifferencesKnown ==
  Usual /\ Without({"resurrected", "torn", "backdated"}) =>
    \A s \in Sessions, i \in Ids :
      /\ terms.rights = Statements /\ IsOpen("parent", s) /\ IsOpen("child", s)
      /\ features["parent"][i] # features[s][i]
      => \E side \in Sides : \E r \in rows[side][s] :
           r.id = i /\ (r.statement = "DELETE" \/ features[Db(side, s)][i] # <<>>)

(* Nobody edits an object that a call is about to carry over: the hard     *)
(* lock holds until the objects are locked themselves (1974-2105), and the *)
(* conflict keeps editors from a copy, which none does if conflicts are to *)
(* be handled by NONE (2611).  Unless something unusual happened.          *)
CarriedUndisturbed ==
  [][Usual /\ terms.handling # "NONE" =>
       \A p \in Procs, e \in edits \ edits' :
         e.db \in {"parent", SessionOf[p]} /\ At(p, "apply")
           => \A r \in call[p].todo : r.id # e.id]_vars

(* A release throws no difference away that the call was to carry, but only *)
(* those written under the soft lock (ReleaseVersion, 2413).  Unless        *)
(* something unusual happened, as two editors at a feature, after whom the *)
(* call passes over what thinning left (2604), or a DeleteRows that failed *)
(* (2802).                                                                 *)
NothingDiscarded ==
  [][Usual =>
       \A p \in Procs :
         At(p, "releaseChild") /\ pc'[p] = "releaseParent" =>
           UpTo(rows["child"][SessionOf[p]], call[p].childState) = {}]_vars

(* The feature of a difference is there when the difference is carried: the *)
(* comment at Replication.cs:2603 calls the opposite something that should  *)
(* not really happen.                                                       *)
NeverPassedOver ==
  excuses = {} => \A p \in Procs :
    At(p, "apply") /\ call[p].todo # {} /\ Current(p).statement # "DELETE" => Source(p) # <<>>

(* Of several differences of an object thinning keeps the last, as the     *)
(* comment at Replication.cs:2945 says: a deletion that was written last   *)
(* stays, if the object was not inserted before.                           *)
LastKept ==
  [][Usual =>
       \A p \in Procs, side \in Sides :
         LET T == rows[side][SessionOf[p]] IN
         Thin(p) => \A r \in T :
           /\ r.statement = "DELETE"
           /\ \A q \in T : q.id = r.id => q.n <= r.n /\ q.statement # "INSERT"
           => r \in rows'[side][SessionOf[p]]]_vars

===============================================================================
