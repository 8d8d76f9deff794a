-------------------------- MODULE ManageDialogsProofs --------------------------
(***************************************************************************)
(* What ManageDialogs promises, for any tabs, keys, values and bounds.     *)
(***************************************************************************)
EXTENDS ManageDialogs, TLAPS

------------------------------------------------------------------------------
(* Typing.  Only the metadata dialog waits for its post, and its editor    *)
(* shows a provider once it has been filled.                               *)
Owned == \A p \in posts : p.open => p.doc = "metadata" /\ dialog[p.tab].doc = "metadata"
Selected == \A t \in Tabs : IsReady(t, "metadata") => dialog[t].current \in Keys
TypeInv == TypeOK /\ Owned /\ Selected

(* What is in memory and in the files.  A post in hand is the only one of   *)
(* its document, and has changed in memory what it need not change any     *)
(* more; while there is none, memory is what the file is.                  *)
InOrder(p) == /\ ~handler[p.slot].apart
              /\ reread[p.doc] = {}
              /\ \A q \in posts : InHand(q) /\ q.doc = p.doc => q = p
              /\ At(p, "changing") => \A k \in Keys \ handler[p.slot].todo : memory[p.doc][k] = p.form[k]
              /\ At(p, "writing") => memory[p.doc] = p.form /\ handler[p.slot].out = p.form
Coherent == /\ \A p \in posts : InHand(p) => InOrder(p)
            /\ \A d \in Docs : /\ reread[d] \subseteq {disk[d]}
                               /\ ~Handling(d) => disk[d] = memory[d]

(* Every key of a metadata document has a text.                            *)
Full(f) == \A k \in Keys : f[k] # Blank
FullDialog(t) == IsReady(t, "metadata") => Full(dialog[t].form) /\ dialog[t].editor # Blank
FullPost(p) == p.doc = "metadata" => Full(p.form)
Complete == excuses \cap {"early", "unsaved", "raced"} = {} =>
              /\ Coherent
              /\ Full(memory["metadata"])
              /\ \A t \in Tabs : FullDialog(t)
              /\ \A p \in posts : FullPost(p)

(* Posts of metadata dialogs and these dialogs.                            *)
OneOpen == excuses \cap {"abandoned", "again"} = {} =>
             /\ \A p \in posts : p.doc = "metadata" /\ p.tab # NoTab => p.open
             /\ \A p, q \in posts : p.open /\ q.open /\ p.tab = q.tab => p = q

(* One dialog or post at a time is about to change a document ...          *)
OneDialog == \A t, u \in Tabs :
               IsOpen(t) /\ IsOpen(u) /\ dialog[t].doc = dialog[u].doc => t = u
OwnPost == \A p \in posts, t \in Tabs :
             p.answer = "none" /\ IsOpen(t) /\ dialog[t].doc = p.doc => p.open /\ p.tab = t
OnePost == \A p, q \in posts :
             p.answer = "none" /\ q.answer = "none" /\ p.doc = q.doc => p = q
Alone == Careful => OneDialog /\ OwnPost /\ OnePost

(* ... and it has what its administrator saw, and but for the keys he      *)
(* changed what the file has.                                              *)
Shown(t, k) == IF dialog[t].doc = "metadata" /\ k = dialog[t].current
               THEN dialog[t].editor ELSE dialog[t].form[k]
FaithfulDialog(t) == dialog[t].phase = "ready" => \A k \in Keys :
                       /\ Shown(t, k) = dialog[t].typed[k]
                       /\ k \notin dialog[t].touched =>
                            dialog[t].typed[k] = disk[dialog[t].doc][k]
FaithfulPost(p) == p.answer = "none" => \A k \in Keys :
                     /\ p.form[k] = p.typed[k]
                     /\ k \notin p.touched => p.form[k] = disk[p.doc][k]
Known(p) == p.open => /\ p.touched \subseteq dialog[p.tab].touched
                      /\ dialog[p.tab].phase = "ready"
Faithful == Careful => /\ \A t \in Tabs : FaithfulDialog(t)
                       /\ \A p \in posts : FaithfulPost(p) /\ Known(p)

Inv == TypeInv /\ Complete /\ OneOpen /\ Alone /\ Faithful

LEMMA InitInv == Init => Inv
<1> SUFFICES ASSUME Init PROVE Inv
    OBVIOUS
<1>1. Closed \in Dialogs /\ Closed.phase = "closed"
      BY DEF Closed, NewDialog, Dialogs, Docs, Phases, Contents, Empty
<1>2. /\ memory \in [Docs -> Contents]
      /\ memory["metadata"] \in [Keys -> Values]
      BY InitialAssumption DEF Init
<1>3. TypeInv
  <2>1. /\ reread \in [Docs -> SUBSET Contents] /\ former \in Contents
        /\ handler \in [Slots -> Handlers]
        /\ \A s \in Slots : handler[s].stage = "idle"
        BY DEF Init, Handlers, Idle, Empty, Contents
  <2> QED BY <1>1, <1>2, <2>1, BoundAssumption DEF Init, TypeInv, TypeOK, Owned, Selected, IsReady
<1>4. Complete
  <2>1. Coherent
        BY DEF Init, Coherent, Handling
  <2> QED BY <1>1, <1>2, <2>1, BlankAssumption DEF Init, Complete, Full, FullDialog, FullPost, IsReady
<1>5. OneOpen /\ Alone /\ Faithful
      BY <1>1 DEF Init, OneOpen, Alone, OneDialog, OwnPost, OnePost, Faithful, FaithfulDialog, IsOpen
<1> QED BY <1>3, <1>4, <1>5 DEF Inv

------------------------------------------------------------------------------
(* What the steps of a tab do to its dialog, field by field.               *)
LEMMA NewDialogType ==
  ASSUME NEW d \in Docs, NEW ph \in Phases
  PROVE  /\ NewDialog(d, ph) \in Dialogs
         /\ NewDialog(d, ph).phase = ph /\ NewDialog(d, ph).doc = d
BY DEF NewDialog, Dialogs, Contents, Empty

LEMMA ClosedType == Closed \in Dialogs /\ Closed.phase = "closed"
BY NewDialogType DEF Closed, Docs, Phases

Changes(t, e) == /\ dialog' \in [Tabs -> Dialogs]
                 /\ \A u \in Tabs \ {t} : dialog'[u] = dialog[u]
                 /\ dialog'[t] = e

LEMMA DialogUpdate ==
  ASSUME TypeOK, NEW t \in Tabs, NEW e \in Dialogs, Becomes(t, e)
  PROVE  Changes(t, e)
BY DEF TypeOK, Becomes, Changes

Keeps(t) == /\ dialog'[t].phase = dialog[t].phase
            /\ dialog'[t].doc = dialog[t].doc

LEMMA ShowRulesEffect ==
  ASSUME TypeInv, NEW t \in Tabs, ShowRules(t)
  PROVE  /\ Changes(t, dialog'[t])
         /\ dialog[t].doc = "rules" /\ dialog'[t].doc = "rules"
         /\ dialog[t].phase = "asked" /\ dialog'[t].phase = "ready"
         /\ dialog'[t].form = memory["rules"] /\ dialog'[t].typed = memory["rules"]
         /\ dialog'[t].touched = dialog[t].touched
         /\ dialog'[t].current = dialog[t].current
         /\ dialog'[t].editor = dialog[t].editor
<1> DEFINE e == [dialog[t] EXCEPT !.phase = "ready", !.form = memory["rules"],
                                  !.typed = memory["rules"]]
<1>1. dialog[t] \in Dialogs
      BY DEF TypeInv, TypeOK
<1>2. e \in Dialogs
      BY <1>1 DEF Dialogs, Phases, Docs, TypeInv, TypeOK
<1>3. Changes(t, e)
      BY <1>2, DialogUpdate DEF ShowRules, TypeInv
<1> QED BY <1>1, <1>3 DEF Changes, ShowRules, Dialogs

LEMMA ShowMetadataEffect ==
  ASSUME TypeInv, NEW t \in Tabs, NEW k \in Keys, ShowMetadata(t, k)
  PROVE  /\ Changes(t, dialog'[t])
         /\ dialog[t].doc = "metadata" /\ dialog'[t].doc = "metadata"
         /\ dialog[t].phase = "asked" /\ dialog'[t].phase = "ready"
         /\ dialog'[t].form = memory["metadata"] /\ dialog'[t].typed = memory["metadata"]
         /\ dialog'[t].touched = dialog[t].touched
         /\ dialog'[t].current = k
         /\ dialog'[t].editor = memory["metadata"][k]
<1> DEFINE e == [dialog[t] EXCEPT !.phase = "ready", !.form = memory["metadata"],
                                  !.typed = memory["metadata"],
                                  !.current = k, !.editor = memory["metadata"][k]]
<1>1. dialog[t] \in Dialogs /\ memory \in [Docs -> Contents]
      BY DEF TypeInv, TypeOK
<1>2. e \in Dialogs
      BY <1>1 DEF Dialogs, Phases, Docs, Contents
<1>3. Changes(t, e)
      BY <1>2, DialogUpdate DEF ShowMetadata, TypeInv
<1> QED BY <1>1, <1>3 DEF Changes, ShowMetadata, Dialogs

LEMMA EditRowEffect ==
  ASSUME TypeInv, NEW t \in Tabs, NEW k \in Keys, NEW v \in Values \cup {Blank}, EditRow(t, k, v)
  PROVE  /\ Changes(t, dialog'[t]) /\ Keeps(t)
         /\ dialog'[t].form = [dialog[t].form EXCEPT ![k] = v]
         /\ dialog'[t].typed = [dialog[t].typed EXCEPT ![k] = v]
         /\ dialog'[t].touched = dialog[t].touched \cup {k}
         /\ dialog'[t].current = dialog[t].current
         /\ dialog'[t].editor = dialog[t].editor
<1> DEFINE e == [dialog[t] EXCEPT !.form = [dialog[t].form EXCEPT ![k] = v],
                                  !.typed = [dialog[t].typed EXCEPT ![k] = v],
                                  !.touched = dialog[t].touched \cup {k}]
<1>1. dialog[t] \in Dialogs
      BY DEF TypeInv, TypeOK
<1>2. /\ [dialog[t].form EXCEPT ![k] = v] \in Contents
      /\ [dialog[t].typed EXCEPT ![k] = v] \in Contents
      BY <1>1 DEF Dialogs, Contents
<1>3. e \in Dialogs
      BY <1>1, <1>2 DEF Dialogs
<1>4. Changes(t, e)
      BY <1>3, DialogUpdate DEF EditRow, TypeInv
<1> QED BY <1>1, <1>4 DEF Changes, Keeps, Dialogs

LEMMA TypeEffect ==
  ASSUME TypeInv, NEW t \in Tabs, NEW v \in Values, Type(t, v)
  PROVE  /\ Changes(t, dialog'[t]) /\ Keeps(t)
         /\ dialog[t].current \in Keys
         /\ dialog'[t].form = dialog[t].form
         /\ dialog'[t].typed = [dialog[t].typed EXCEPT ![dialog[t].current] = v]
         /\ dialog'[t].touched = dialog[t].touched \cup {dialog[t].current}
         /\ dialog'[t].current = dialog[t].current
         /\ dialog'[t].editor = v
<1> DEFINE e == [dialog[t] EXCEPT !.editor = v, !.typed = [dialog[t].typed EXCEPT ![dialog[t].current] = v],
                                  !.touched = dialog[t].touched \cup {dialog[t].current}]
<1>1. dialog[t] \in Dialogs /\ dialog[t].current \in Keys
      BY DEF TypeInv, TypeOK, Selected, Type
<1>2. [dialog[t].typed EXCEPT ![dialog[t].current] = v] \in Contents
      BY <1>1 DEF Dialogs, Contents
<1>3. e \in Dialogs
      BY <1>1, <1>2 DEF Dialogs
<1>4. Changes(t, e)
      BY <1>3, DialogUpdate DEF Type, TypeInv
<1> QED BY <1>1, <1>4 DEF Changes, Keeps, Dialogs

LEMMA StoredType ==
  ASSUME TypeInv, NEW t \in Tabs
  PROVE  /\ Stored(t) \in Contents
         /\ IsReady(t, "metadata") => \A k \in Keys : Stored(t)[k] = Shown(t, k)
<1>1. dialog[t] \in Dialogs
      BY DEF TypeInv, TypeOK
<1> QED BY <1>1 DEF Stored, Shown, Dialogs, Contents, IsReady

LEMMA SelectEffect ==
  ASSUME TypeInv, NEW t \in Tabs, NEW k \in Keys, SelectProvider(t, k)
  PROVE  /\ Changes(t, dialog'[t]) /\ Keeps(t)
         /\ dialog'[t].form = Stored(t)
         /\ dialog'[t].typed = dialog[t].typed
         /\ dialog'[t].touched = dialog[t].touched
         /\ dialog'[t].current = k
         /\ dialog'[t].editor = dialog[t].form[k]
<1> DEFINE e == [dialog[t] EXCEPT !.form = Stored(t), !.current = k, !.editor = dialog[t].form[k]]
<1>1. dialog[t] \in Dialogs
      BY DEF TypeInv, TypeOK
<1>2. e \in Dialogs
      BY <1>1, StoredType DEF Dialogs, Contents
<1>3. Changes(t, e)
      BY <1>2, DialogUpdate DEF SelectProvider, TypeInv
<1> QED BY <1>1, <1>3 DEF Changes, Keeps, Dialogs

------------------------------------------------------------------------------
(* What the steps do to the posts.  Every post after the step comes from   *)
(* one before it and carries what that one carried.                        *)
Alike(q, p) == /\ q.slot = p.slot /\ q.doc = p.doc /\ q.form = p.form
               /\ q.typed = p.typed /\ q.touched = p.touched

LEMMA OpenUpdate ==
  ASSUME NEW p \in Posts, NEW b \in BOOLEAN
  PROVE  LET q == [p EXCEPT !.open = b]
         IN  /\ q \in Posts /\ Alike(q, p) /\ q.tab = p.tab /\ q.answer = p.answer
             /\ q.open = b
BY DEF Posts, Alike

LEMMA AnswerUpdate ==
  ASSUME NEW p \in Posts, NEW a \in {"none", "saved", "error"}
  PROVE  LET q == [p EXCEPT !.answer = a]
         IN  /\ q \in Posts /\ Alike(q, p) /\ q.tab = p.tab /\ q.answer = a
             /\ q.open = p.open
BY DEF Posts, Alike

LEMMA TabUpdate ==
  ASSUME NEW p \in Posts
  PROVE  LET q == [p EXCEPT !.tab = NoTab, !.open = FALSE]
         IN  /\ q \in Posts /\ Alike(q, p) /\ q.tab = NoTab /\ q.answer = p.answer
             /\ q.open = FALSE
BY DEF Posts, Alike

(* A post of which the dialog is closed.                                   *)
Orphan(q, p, T) == /\ Alike(q, p) /\ q.answer = p.answer /\ q.tab = p.tab
                   /\ (q.open <=> p.open /\ p.tab \notin T)

Unique(S) == \A p, q \in S : p.slot = q.slot => p = q

LEMMA CloseEffect ==
  ASSUME TypeOK, NEW T, NEW S \in SUBSET posts,
         posts' = {[p EXCEPT !.open = p.open /\ p.tab \notin T] : p \in S}
  PROVE  /\ posts' \subseteq Posts /\ Unique(posts')
         /\ \A q \in posts' : \E p \in S : Orphan(q, p, T)
         /\ \A p \in S : \E q \in posts' : Orphan(q, p, T)
<1> DEFINE f(p) == [p EXCEPT !.open = p.open /\ p.tab \notin T]
<1>0. posts' = {f(p) : p \in S}
      OBVIOUS
<1>1. \A p \in S : f(p) \in Posts /\ Orphan(f(p), p, T)
  <2> TAKE p \in S
  <2> DEFINE b == p.open /\ p.tab \notin T
  <2>1. p \in Posts /\ b \in BOOLEAN
        BY DEF TypeOK
  <2> HIDE DEF b
  <2>2. LET q == [p EXCEPT !.open = b]
        IN  /\ q \in Posts /\ Alike(q, p) /\ q.tab = p.tab /\ q.answer = p.answer
            /\ q.open = b
        BY <2>1, OpenUpdate
  <2>3. LET q == [p EXCEPT !.open = b] IN q.open <=> p.open /\ p.tab \notin T
        BY <2>2, Zenon DEF b
  <2>4. LET q == [p EXCEPT !.open = b] IN q \in Posts /\ Orphan(q, p, T)
        BY <2>2, <2>3 DEF Orphan
  <2> QED BY <2>4, Zenon DEF b
<1> HIDE DEF f
<1>2. \A q, r \in posts' : q.slot = r.slot => q = r
  <2> SUFFICES ASSUME NEW q \in posts', NEW r \in posts', q.slot = r.slot PROVE q = r
      OBVIOUS
  <2>1. PICK p \in S : q = f(p)
        BY <1>0
  <2>2. PICK s \in S : r = f(s)
        BY <1>0
  <2>3. p = s
        BY <1>1, <2>1, <2>2 DEF TypeOK, Orphan, Alike
  <2> QED BY <2>1, <2>2, <2>3
<1> QED BY <1>0, <1>1, <1>2 DEF Unique

LEMMA AnswerEffect ==
  ASSUME TypeOK, NEW p \in posts, NEW a \in {"none", "saved", "error"}, Answer(p, a)
  PROVE  /\ posts' \subseteq Posts /\ Unique(posts')
         /\ \E r \in posts' : /\ Alike(r, p) /\ r.answer = a /\ r.tab = p.tab /\ r.open = p.open
                             /\ \A q \in posts' : q = r \/ q \in posts \ {p}
         /\ \A q \in posts \ {p} : q \in posts'
<1>1. p \in Posts
      BY DEF TypeOK
<1> DEFINE r == [p EXCEPT !.answer = a]
<1>2. r \in Posts /\ Alike(r, p) /\ r.answer = a /\ r.tab = p.tab /\ r.open = p.open
      BY <1>1, AnswerUpdate
<1>3. posts' = (posts \ {p}) \cup {r}
      BY DEF Answer
<1> HIDE DEF r
<1> QED BY <1>2, <1>3 DEF TypeOK, Unique, Alike

(* A post of which the page is reloaded.                                   *)
Renamed(q, p, t) == /\ Alike(q, p) /\ q.answer = p.answer
                    /\ IF p.tab = t THEN q.tab = NoTab /\ ~q.open
                                    ELSE q.tab = p.tab /\ q.open = p.open

LEMMA ReloadEffect ==
  ASSUME TypeOK, NEW t \in Tabs, Reload(t)
  PROVE  /\ posts' \subseteq Posts /\ Unique(posts')
         /\ \A q \in posts' : \E p \in posts : Renamed(q, p, t)
         /\ \A p \in posts : \E q \in posts' : Renamed(q, p, t)
<1> DEFINE f(p) == IF p.tab = t THEN [p EXCEPT !.tab = NoTab, !.open = FALSE] ELSE p
<1>1. posts' = {f(p) : p \in posts}
      BY DEF Reload
<1>2. \A p \in posts : f(p) \in Posts /\ Renamed(f(p), p, t)
  <2> TAKE p \in posts
  <2>1. p \in Posts
        BY DEF TypeOK
  <2>2. CASE p.tab = t
        BY <2>1, <2>2, TabUpdate DEF Renamed
  <2>3. CASE p.tab # t
        BY <2>1, <2>3 DEF Renamed, Alike
  <2> QED BY <2>2, <2>3
<1> HIDE DEF f
<1>3. \A q, r \in posts' : q.slot = r.slot => q = r
  <2> SUFFICES ASSUME NEW q \in posts', NEW r \in posts', q.slot = r.slot PROVE q = r
      OBVIOUS
  <2>1. PICK p \in posts : q = f(p)
        BY <1>1
  <2>2. PICK s \in posts : r = f(s)
        BY <1>1
  <2>3. p = s
        BY <1>2, <2>1, <2>2 DEF TypeOK, Renamed, Alike
  <2> QED BY <2>1, <2>2, <2>3
<1> QED BY <1>1, <1>2, <1>3 DEF Unique

(* A post that was sent by a tab, with what its dialog showed.             *)
Sent(t, n) == /\ n \in Posts /\ n \notin posts
              /\ posts' = posts \cup {n}
              /\ posts' \subseteq Posts /\ Unique(posts')
              /\ n.tab = t /\ n.doc = dialog[t].doc /\ n.answer = "none"
              /\ n.typed = dialog[t].typed /\ n.touched = dialog[t].touched
              /\ excuses' = excuses \cup If(dialog[t].phase # "ready", "early")
                                     \cup If(\E p \in posts : p.tab = t /\ p.open, "again")

LEMMA OkRulesSends ==
  ASSUME TypeInv, NEW t \in Tabs, OkRules(t)
  PROVE  \E n : Sent(t, n) /\ n.form = dialog[t].form /\ n.open = FALSE
<1>1. PICK s \in Slots \ {p.slot : p \in posts} :
        /\ posts' = posts \cup
             {[slot |-> s, tab |-> t, doc |-> dialog[t].doc, form |-> dialog[t].form, open |-> FALSE,
               answer |-> "none", typed |-> dialog[t].typed, touched |-> dialog[t].touched]}
        /\ excuses' = excuses \cup If(dialog[t].phase # "ready", "early")
                               \cup If(\E p \in posts : p.tab = t /\ p.open, "again")
      BY DEF OkRules, Send
<1> DEFINE n == [slot |-> s, tab |-> t, doc |-> dialog[t].doc, form |-> dialog[t].form, open |-> FALSE,
                 answer |-> "none", typed |-> dialog[t].typed, touched |-> dialog[t].touched]
<1>2. n \in Posts
      BY DEF Posts, Dialogs, TypeInv, TypeOK
<1>3. n.slot = s /\ \A p \in posts : p.slot # s
      OBVIOUS
<1>5. posts \subseteq Posts /\ Unique(posts)
      BY DEF TypeInv, TypeOK, Unique
<1>6. /\ n \notin posts /\ posts' = posts \cup {n}
      /\ posts' \subseteq Posts /\ Unique(posts')
      BY <1>1, <1>2, <1>3, <1>5 DEF Unique
<1>4. Sent(t, n)
      BY <1>1, <1>2, <1>6 DEF Sent
<1> QED BY <1>4

LEMMA OkMetadataSends ==
  ASSUME TypeInv, NEW t \in Tabs, OkMetadata(t)
  PROVE  \E n : Sent(t, n) /\ n.form = Stored(t) /\ n.open = TRUE
<1>1. PICK s \in Slots \ {p.slot : p \in posts} :
        /\ posts' = posts \cup
             {[slot |-> s, tab |-> t, doc |-> dialog[t].doc, form |-> Stored(t), open |-> TRUE,
               answer |-> "none", typed |-> dialog[t].typed, touched |-> dialog[t].touched]}
        /\ excuses' = excuses \cup If(dialog[t].phase # "ready", "early")
                               \cup If(\E p \in posts : p.tab = t /\ p.open, "again")
      BY DEF OkMetadata, Send
<1> DEFINE n == [slot |-> s, tab |-> t, doc |-> dialog[t].doc, form |-> Stored(t), open |-> TRUE,
                 answer |-> "none", typed |-> dialog[t].typed, touched |-> dialog[t].touched]
<1>2. n \in Posts
      BY StoredType DEF Posts, Dialogs, TypeInv, TypeOK
<1>3. n.slot = s /\ \A p \in posts : p.slot # s
      OBVIOUS
<1>5. posts \subseteq Posts /\ Unique(posts)
      BY DEF TypeInv, TypeOK, Unique
<1>6. /\ n \notin posts /\ posts' = posts \cup {n}
      /\ posts' \subseteq Posts /\ Unique(posts')
      BY <1>1, <1>2, <1>3, <1>5 DEF Unique
<1>4. Sent(t, n)
      BY <1>1, <1>2, <1>6 DEF Sent
<1> QED BY <1>4

------------------------------------------------------------------------------
(* The variables stay in their ranges.                                     *)
LEMMA OpenEffect ==
  ASSUME TypeInv, NEW t \in Tabs, NEW d \in Docs, OpenDialog(t, d)
  PROVE  /\ Changes(t, dialog'[t])
         /\ dialog'[t].phase = "asked" /\ dialog'[t].doc = d
<1>1. NewDialog(d, "asked") \in Dialogs
      BY NewDialogType DEF Phases
<1>2. Changes(t, NewDialog(d, "asked"))
      BY <1>1, DialogUpdate DEF OpenDialog, TypeInv
<1> QED BY <1>2, NewDialogType DEF Changes, Phases

LEMMA CloseDialogEffect ==
  ASSUME TypeInv, NEW t \in Tabs, CloseDialog(t) \/ OkRules(t) \/ Reload(t)
  PROVE  Changes(t, dialog'[t]) /\ dialog'[t].phase = "closed"
<1>1. Changes(t, Closed)
  <2>1. CASE CloseDialog(t)
        BY <2>1, ClosedType, DialogUpdate DEF CloseDialog, Leave, TypeInv
  <2>2. CASE OkRules(t)
        BY <2>2, ClosedType, DialogUpdate DEF OkRules, TypeInv
  <2>3. CASE Reload(t)
        BY <2>3, ClosedType, DialogUpdate DEF Reload, Becomes, TypeInv
  <2> QED BY <2>1, <2>2, <2>3
<1> QED BY <1>1, ClosedType DEF Changes

LEMMA CloseDialogPosts ==
  ASSUME TypeInv, NEW t \in Tabs, CloseDialog(t)
  PROVE  /\ posts' \subseteq Posts /\ Unique(posts')
         /\ \A q \in posts' : \E p \in posts : Orphan(q, p, {t})
         /\ \A p \in posts : \E q \in posts' : Orphan(q, p, {t})
<1>1. posts' = {[p EXCEPT !.open = p.open /\ p.tab \notin {t}] : p \in posts}
      BY DEF CloseDialog, Leave
<1> QED BY <1>1, CloseEffect DEF TypeInv

LEMMA OkMetadataEffect ==
  ASSUME TypeInv, NEW t \in Tabs, OkMetadata(t)
  PROVE  /\ Changes(t, dialog'[t]) /\ Keeps(t)
         /\ dialog'[t].form = Stored(t)
         /\ dialog'[t].typed = dialog[t].typed
         /\ dialog'[t].touched = dialog[t].touched
         /\ dialog'[t].current = dialog[t].current
         /\ dialog'[t].editor = dialog[t].editor
<1> DEFINE e == [dialog[t] EXCEPT !.form = Stored(t)]
<1>1. dialog[t] \in Dialogs
      BY DEF TypeInv, TypeOK
<1>2. e \in Dialogs
      BY <1>1, StoredType DEF Dialogs
<1>3. Changes(t, e)
      BY <1>2, DialogUpdate DEF OkMetadata, TypeInv
<1> QED BY <1>1, <1>3 DEF Changes, Keeps, Dialogs

LEMMA DeliverEffect ==
  ASSUME TypeInv, NEW p \in posts, Deliver(p)
  PROVE  /\ dialog' \in [Tabs -> Dialogs]
         /\ \A t \in Tabs \ Removed(p) : dialog'[t] = dialog[t]
         /\ \A t \in Removed(p) : t = p.tab /\ dialog'[t].phase = "closed"
         /\ posts' \subseteq Posts /\ Unique(posts')
         /\ \A q \in posts' : \E r \in posts \ {p} : Orphan(q, r, Removed(p))
         /\ \A r \in posts \ {p} : \E q \in posts' : Orphan(q, r, Removed(p))
<1>1. Removed(p) \subseteq Tabs /\ \A t \in Removed(p) : t = p.tab
      BY DEF Removed, TypeInv, TypeOK, Posts
<1>2. /\ dialog' \in [Tabs -> Dialogs]
      /\ \A t \in Tabs \ Removed(p) : dialog'[t] = dialog[t]
      /\ \A t \in Removed(p) : dialog'[t].phase = "closed"
      BY <1>1, ClosedType DEF Deliver, TypeInv, TypeOK
<1>3. /\ posts' \subseteq Posts /\ Unique(posts')
      /\ \A q \in posts' : \E r \in posts \ {p} : Orphan(q, r, Removed(p))
      /\ \A r \in posts \ {p} : \E q \in posts' : Orphan(q, r, Removed(p))
  <2> DEFINE T == Removed(p)
  <2>1. posts' = {[q EXCEPT !.open = q.open /\ q.tab \notin T] : q \in posts \ {p}}
        BY DEF Deliver
  <2> HIDE DEF T
  <2>2. /\ posts' \subseteq Posts /\ Unique(posts')
        /\ \A q \in posts' : \E r \in posts \ {p} : Orphan(q, r, T)
        /\ \A r \in posts \ {p} : \E q \in posts' : Orphan(q, r, T)
        BY <2>1, CloseEffect DEF TypeInv
  <2> QED BY <2>2 DEF T
<1> QED BY <1>1, <1>2, <1>3

(* What the steps do to the handling of posts.                             *)
Handled(p) == Written(p) \/ SaveFails(p) \/ Refuse(p)

Inside == \/ \E p \in posts : TakeUp(p) \/ (\E k \in Keys : Change(p, k)) \/ Serialize(p)
          \/ \E d \in Docs : StartReread(d) \/ FinishReread(d)
          \/ UNCHANGED vars

LEMMA NextCases ==
  ASSUME [Next]_vars
  PROVE  \/ \E t \in Tabs : Administrator(t)
         \/ \E t \in Tabs : Page(t)
         \/ \E p \in posts : Handled(p)
         \/ Inside
BY DEF Next, Server, HandlePost, Handled, Inside

LEMMA InsideEffect ==
  ASSUME Inside
  PROVE  dialog' = dialog /\ posts' = posts /\ disk' = disk
BY DEF Inside, TakeUp, Change, Serialize, StartReread, FinishReread, vars, server

LEMMA ClientEffect ==
  ASSUME NEW t \in Tabs, Administrator(t) \/ Page(t)
  PROVE  UNCHANGED server
BY DEF Administrator, Page, OpenDialog, EditRow, Type, SelectProvider, CloseDialog, OkRules,
       OkMetadata, ShowRules, ShowMetadata, Reload, Deliver

LEMMA IdleType == Idle \in Handlers /\ Idle.stage = "idle" /\ ~Idle.apart
BY DEF Idle, Handlers, Empty, Contents

LEMMA HandleUpdate ==
  ASSUME TypeInv, NEW p \in posts, NEW h \in Handlers, Handle(p, h)
  PROVE  /\ p \in Posts /\ p.slot \in Slots
         /\ handler' \in [Slots -> Handlers]
         /\ handler'[p.slot] = h
         /\ \A s \in Slots \ {p.slot} : handler'[s] = handler[s]
BY DEF TypeInv, TypeOK, Posts, Handle

LEMMA TakeUpEffect ==
  ASSUME TypeInv, NEW p \in posts, TakeUp(p)
  PROVE  /\ handler' \in [Slots -> Handlers]
         /\ handler'[p.slot].stage = "changing" /\ ~handler'[p.slot].apart
         /\ handler'[p.slot].todo = Given(p)
         /\ \A s \in Slots \ {p.slot} : handler'[s] = handler[s]
<1> DEFINE h == [Idle EXCEPT !.stage = "changing", !.todo = Given(p)]
<1>1. /\ h \in Handlers /\ h.stage = "changing" /\ ~h.apart /\ h.todo = Given(p)
      BY DEF Idle, Handlers, Empty, Contents, Given
<1>2. Handle(p, h)
      BY DEF TakeUp
<1> HIDE DEF h
<1> QED BY <1>1, <1>2, HandleUpdate

LEMMA ChangeEffect ==
  ASSUME TypeInv, NEW p \in posts, NEW k \in Keys, Change(p, k)
  PROVE  /\ handler' \in [Slots -> Handlers]
         /\ handler'[p.slot].stage = "changing"
         /\ handler'[p.slot].apart = handler[p.slot].apart
         /\ handler'[p.slot].todo = handler[p.slot].todo \ {k}
         /\ \A s \in Slots \ {p.slot} : handler'[s] = handler[s]
<1> DEFINE o == handler[p.slot]
           h == [o EXCEPT !.todo = @ \ {k}]
<1>1. o \in Handlers /\ o.stage = "changing"
      BY DEF TypeInv, TypeOK, Posts, Change, At
<1> HIDE DEF o
<1>2. /\ h \in Handlers /\ h.stage = "changing" /\ h.apart = o.apart /\ h.todo = o.todo \ {k}
      BY <1>1 DEF Handlers
<1>3. Handle(p, h)
      BY DEF Change, o
<1> HIDE DEF h
<1> QED BY <1>2, <1>3, HandleUpdate DEF o

LEMMA SerializeEffect ==
  ASSUME TypeInv, NEW p \in posts, Serialize(p)
  PROVE  /\ handler' \in [Slots -> Handlers]
         /\ handler'[p.slot].stage = "writing"
         /\ handler'[p.slot].apart = handler[p.slot].apart
         /\ handler'[p.slot].out = Serialized(p)
         /\ \A s \in Slots \ {p.slot} : handler'[s] = handler[s]
<1> DEFINE o == handler[p.slot]
           c == Serialized(p)
           h == [o EXCEPT !.stage = "writing", !.out = c]
<1>1. o \in Handlers
      BY DEF TypeInv, TypeOK, Posts
<1>2. c \in Contents
      BY DEF Serialized, Contents, TypeInv, TypeOK, Docs, Given
<1>4. Handle(p, h)
      BY DEF Serialize
<1> HIDE DEF o, c
<1>3. /\ h \in Handlers /\ h.stage = "writing" /\ h.apart = o.apart /\ h.out = c
      BY <1>1, <1>2 DEF Handlers
<1> HIDE DEF h
<1> QED BY <1>3, <1>4, HandleUpdate DEF o, c

LEMMA EndEffect ==
  ASSUME TypeInv, NEW p \in posts, Written(p) \/ SaveFails(p)
  PROVE  /\ handler' \in [Slots -> Handlers]
         /\ handler'[p.slot] = Idle
         /\ \A s \in Slots \ {p.slot} : handler'[s] = handler[s]
BY IdleType, HandleUpdate DEF Written, SaveFails

LEMMA FinishEffect ==
  ASSUME TypeInv, NEW d \in Docs, FinishReread(d)
  PROVE  /\ handler' \in [Slots -> Handlers]
         /\ \A s \in Slots : handler'[s].stage = handler[s].stage
         /\ ~Handling(d) => handler' = handler
<1> DEFINE left == {p.slot : p \in {q \in posts : q.doc = d /\ InHand(q)}}
<1>1. handler' = [s \in Slots |-> IF s \in left THEN [handler[s] EXCEPT !.apart = TRUE] ELSE handler[s]]
      BY DEF FinishReread
<1>2. \A s \in Slots : /\ [handler[s] EXCEPT !.apart = TRUE] \in Handlers
                       /\ [handler[s] EXCEPT !.apart = TRUE].stage = handler[s].stage
  <2>1. handler \in [Slots -> Handlers]
        BY DEF TypeInv, TypeOK
  <2> QED BY <2>1 DEF Handlers
<1>3. ~Handling(d) => left = {}
      BY DEF Handling
<1> HIDE DEF left
<1> QED BY <1>1, <1>2, <1>3 DEF TypeInv, TypeOK

(* Posts in hand are still to be answered.                                 *)
LEMMA InHandUnanswered ==
  ASSUME TypeInv, NEW p \in posts, InHand(p)
  PROVE  p.answer = "none"
BY DEF TypeInv, TypeOK, InHand, Posts

LEMMA HandledEffect ==
  ASSUME TypeInv, NEW p \in posts, Handled(p)
  PROVE  /\ dialog' = dialog /\ p.answer = "none"
         /\ posts' \subseteq Posts /\ Unique(posts')
         /\ \E r \in posts' : /\ Alike(r, p) /\ r.answer # "none" /\ r.tab = p.tab /\ r.open = p.open
                             /\ \A q \in posts' : q = r \/ q \in posts \ {p}
         /\ \A q \in posts \ {p} : q \in posts'
<1>1. PICK a \in {"saved", "error"} : Answer(p, a)
      BY DEF Handled, Written, SaveFails, Refuse
<1>2. dialog' = dialog /\ (p.answer = "none" \/ InHand(p))
      BY DEF Handled, Written, SaveFails, Refuse, At, InHand
<1> QED BY <1>1, <1>2, AnswerEffect, InHandUnanswered DEF TypeInv

ServerType == /\ memory \in [Docs -> Contents] /\ disk \in [Docs -> Contents]
              /\ former \in Contents
              /\ reread \in [Docs -> SUBSET Contents]
              /\ handler \in [Slots -> Handlers]

LEMMA ServerTypeStep == TypeInv /\ [Next]_vars => ServerType'
<1> SUFFICES ASSUME TypeInv, [Next]_vars PROVE ServerType'
    OBVIOUS
<1>0. ServerType /\ posts \subseteq Posts
      BY DEF TypeInv, TypeOK, ServerType
<1>1. ASSUME NEW t \in Tabs, Administrator(t) \/ Page(t) PROVE ServerType'
      BY <1>0, <1>1, ClientEffect DEF ServerType, server
<1>2. ASSUME NEW p \in posts, TakeUp(p) PROVE ServerType'
  <2>1. Empty \in Contents
        BY DEF Empty, Contents
  <2> QED BY <1>0, <1>2, <2>1, TakeUpEffect DEF ServerType, TakeUp
<1>3. ASSUME NEW p \in posts, NEW k \in Keys, Change(p, k) PROVE ServerType'
  <2>1. \A lost : Changed(p, k, lost) \in Contents
        BY <1>0 DEF Changed, Contents, ServerType, Posts
  <2>2. [former EXCEPT ![k] = p.form[k]] \in Contents
        BY <1>0 DEF Contents, ServerType, Posts
  <2>3. memory' = memory \/ \E lost : memory' = [memory EXCEPT ![p.doc] = Changed(p, k, lost)]
        BY <1>3 DEF Change
  <2>4. former' \in Contents /\ disk' = disk /\ reread' = reread
        BY <1>0, <1>3, <2>2 DEF Change, ServerType
  <2> QED BY <1>0, <1>3, <2>1, <2>3, <2>4, ChangeEffect DEF ServerType
<1>4. ASSUME NEW p \in posts, Serialize(p) PROVE ServerType'
      BY <1>0, <1>4, SerializeEffect DEF ServerType, Serialize
<1>5. ASSUME NEW p \in posts, Handled(p) PROVE ServerType'
  <2>1. CASE Written(p)
    <3>1. handler[p.slot].out \in Contents
          BY <1>0 DEF ServerType, Posts, Handlers
    <3> QED BY <1>0, <2>1, <3>1, EndEffect DEF ServerType, Written
  <2>2. CASE SaveFails(p)
        BY <1>0, <2>2, EndEffect DEF ServerType, SaveFails
  <2>3. CASE Refuse(p)
        BY <1>0, <2>3 DEF ServerType, Refuse, server
  <2> QED BY <1>5, <2>1, <2>2, <2>3 DEF Handled
<1>6. ASSUME NEW d \in Docs, StartReread(d) PROVE ServerType'
  <2>1. Read(d) \subseteq Contents
        BY <1>0, InitialAssumption DEF Read, ServerType
  <2> QED BY <1>0, <1>6, <2>1 DEF ServerType, StartReread
<1>7. ASSUME NEW d \in Docs, FinishReread(d) PROVE ServerType'
  <2>1. former' \in Contents /\ disk' = disk /\ reread' \in [Docs -> SUBSET Contents]
        BY <1>0, <1>7 DEF ServerType, FinishReread
  <2>2. memory' \in [Docs -> Contents]
    <3>1. PICK c \in reread[d] : memory' = [memory EXCEPT ![d] = c]
          BY <1>7 DEF FinishReread
    <3> QED BY <1>0, <3>1 DEF ServerType
  <2> QED BY <1>0, <1>7, <2>1, <2>2, FinishEffect DEF ServerType
<1>8. CASE UNCHANGED vars
      BY <1>0, <1>8 DEF ServerType, vars, server
<1> QED BY <1>1, <1>2, <1>3, <1>4, <1>5, <1>6, <1>7, <1>8, NextCases DEF Inside

Busy == \A s \in Slots : handler[s].stage # "idle" =>
          \E p \in posts : p.slot = s /\ p.answer = "none"

LEMMA BusyStep == TypeInv /\ [Next]_vars => Busy'
<1> SUFFICES ASSUME TypeInv, [Next]_vars PROVE Busy'
    OBVIOUS
<1>0. Busy
      BY DEF TypeInv, TypeOK, Busy
<1>a. ASSUME UNCHANGED handler,
             \A p \in posts : p.answer = "none" => \E q \in posts' : q.slot = p.slot /\ q.answer = "none"
      PROVE  Busy'
      BY <1>0, <1>a DEF Busy
<1>1. ASSUME NEW t \in Tabs, Administrator(t) PROVE Busy'
  <2>1. UNCHANGED handler
        BY <1>1, ClientEffect DEF server
  <2>2. CASE CloseDialog(t)
    <3>1. \A p \in posts : \E q \in posts' : Orphan(q, p, {t})
          BY <2>2, CloseDialogPosts
    <3> QED BY <1>a, <2>1, <3>1 DEF Orphan, Alike
  <2>3. ~CloseDialog(t) => \A p \in posts : p \in posts'
        BY <1>1 DEF Administrator, OpenDialog, EditRow, Type, SelectProvider, OkRules, OkMetadata, Send
  <2> QED BY <1>a, <2>1, <2>2, <2>3
<1>2. ASSUME NEW t \in Tabs, Page(t) PROVE Busy'
  <2>1. UNCHANGED handler
        BY <1>2, ClientEffect DEF server
  <2>2. CASE Reload(t)
    <3>1. \A p \in posts : \E q \in posts' : Renamed(q, p, t)
          BY <2>2, ReloadEffect DEF TypeInv
    <3> QED BY <1>a, <2>1, <3>1 DEF Renamed, Alike
  <2>3. ASSUME NEW p \in posts, Deliver(p) PROVE Busy'
    <3>1. \A r \in posts \ {p} : \E q \in posts' : Orphan(q, r, Removed(p))
          BY <2>3, DeliverEffect
    <3>2. p.answer # "none"
          BY <2>3 DEF Deliver
    <3> QED BY <1>a, <2>1, <3>1, <3>2 DEF Orphan, Alike
  <2>4. ASSUME ShowRules(t) \/ \E k \in Keys : ShowMetadata(t, k) PROVE posts' = posts
        BY <2>4 DEF ShowRules, ShowMetadata
  <2> QED BY <1>2, <1>a, <2>1, <2>2, <2>3, <2>4 DEF Page
<1>3. ASSUME NEW p \in posts, Handled(p) PROVE Busy'
  <2>1. \A q \in posts \ {p} : q \in posts'
        BY <1>3, HandledEffect
  <2>2. \A s \in Slots : handler'[s].stage # "idle" => s # p.slot /\ handler'[s] = handler[s]
    <3>1. CASE Written(p) \/ SaveFails(p)
          BY <3>1, EndEffect, IdleType
    <3>2. CASE Refuse(p)
          BY <3>2 DEF Refuse, At, server
    <3> QED BY <1>3, <3>1, <3>2 DEF Handled
  <2> QED BY <1>0, <2>1, <2>2 DEF Busy
<1>4. CASE Inside
  <2>1. posts' = posts
        BY <1>4, InsideEffect
  <2>2. ASSUME NEW p \in posts, TakeUp(p) PROVE Busy'
    <3>1. p.answer = "none"
          BY <2>2 DEF TakeUp
    <3> QED BY <1>0, <2>1, <2>2, <3>1, TakeUpEffect DEF Busy
  <2>3. ASSUME NEW p \in posts, NEW k \in Keys, Change(p, k) PROVE Busy'
    <3>1. p.answer = "none"
          BY <2>3, InHandUnanswered DEF Change, At, InHand
    <3> QED BY <1>0, <2>1, <2>3, <3>1, ChangeEffect DEF Busy
  <2>4. ASSUME NEW p \in posts, Serialize(p) PROVE Busy'
    <3>1. p.answer = "none"
          BY <2>4, InHandUnanswered DEF Serialize, At, InHand
    <3> QED BY <1>0, <2>1, <2>4, <3>1, SerializeEffect DEF Busy
  <2>5. ASSUME NEW d \in Docs, StartReread(d) PROVE Busy'
        BY <1>0, <2>1, <2>5 DEF Busy, StartReread
  <2>6. ASSUME NEW d \in Docs, FinishReread(d) PROVE Busy'
        BY <1>0, <2>1, <2>6, FinishEffect DEF Busy
  <2>7. CASE UNCHANGED vars
        BY <1>0, <2>7 DEF Busy, vars, server
  <2> QED BY <1>4, <2>2, <2>3, <2>4, <2>5, <2>6, <2>7 DEF Inside
<1> QED BY <1>1, <1>2, <1>3, <1>4, NextCases

RangesOK == /\ acts \in 0..MaxActs
            /\ excuses \subseteq {"early", "overlap", "again", "abandoned", "unsaved", "raced"}

LEMMA TypeStep == TypeInv /\ [Next]_vars => TypeInv'
<1> SUFFICES ASSUME TypeInv, [Next]_vars PROVE TypeInv'
    OBVIOUS
<1>a. Act => acts' \in 0..MaxActs
      BY BoundAssumption DEF Act, TypeInv, TypeOK
<1>b. RangesOK'
  <2>0. RangesOK
        BY DEF TypeInv, TypeOK, RangesOK
  <2> USE <2>0 DEF RangesOK
  <2>1. ASSUME NEW t \in Tabs, Administrator(t) PROVE RangesOK'
        BY <1>a, <2>1 DEF Administrator, OpenDialog, EditRow, Type, SelectProvider, CloseDialog,
           OkRules, OkMetadata, Send, If
  <2>2. ASSUME NEW t \in Tabs, Page(t) PROVE RangesOK'
        BY <2>2 DEF Page, ShowRules, ShowMetadata, Reload, Deliver
  <2>3. ASSUME NEW p \in posts, Handled(p) PROVE RangesOK'
        BY <2>3 DEF Handled, Written, SaveFails, Refuse
  <2>4. CASE Inside
        BY <2>4 DEF Inside, TakeUp, Change, Serialize, StartReread, FinishReread, If, vars
  <2> QED BY <2>1, <2>2, <2>3, <2>4, NextCases
<1>c. ASSUME /\ dialog' \in [Tabs -> Dialogs]
             /\ posts' \subseteq Posts /\ Unique(posts')
             /\ \A t \in Tabs : IsReady(t, "metadata")' => dialog'[t].current \in Keys
             /\ \A p \in posts' : p.open => /\ p.tab \in Tabs /\ IsOpen(p.tab)'
                                          /\ p.doc = "metadata" /\ dialog'[p.tab].doc = "metadata"
      PROVE  TypeInv'
      BY <1>b, <1>c, ServerTypeStep, BusyStep
         DEF RangesOK, ServerType, Busy, TypeInv, TypeOK, Owned, Selected, Unique
<1>d. ASSUME NEW t \in Tabs, Changes(t, dialog'[t]), posts' = posts,
             IsReady(t, "metadata")' => dialog'[t].current \in Keys,
             IsOpen(t) => dialog'[t].phase # "closed" /\ dialog'[t].doc = dialog[t].doc
      PROVE  TypeInv'
  <2>1. /\ \A u \in Tabs : IsReady(u, "metadata")' => dialog'[u].current \in Keys
        /\ dialog' \in [Tabs -> Dialogs] /\ posts' \subseteq Posts /\ Unique(posts')
        BY <1>d DEF Changes, TypeInv, TypeOK, Selected, IsReady, Unique
  <2>2. \A p \in posts' : p.open => /\ p.tab \in Tabs /\ IsOpen(p.tab)'
                                  /\ p.doc = "metadata" /\ dialog'[p.tab].doc = "metadata"
        BY <1>d DEF Changes, TypeInv, TypeOK, Owned, IsOpen
  <2> QED BY <1>c, <2>1, <2>2
<1>1. ASSUME NEW t \in Tabs, Administrator(t) PROVE TypeInv'
  <2>1. ASSUME NEW d \in Docs, OpenDialog(t, d) PROVE TypeInv'
    <3>1. Changes(t, dialog'[t]) /\ dialog'[t].phase = "asked"
          BY <2>1, OpenEffect
    <3>2. ~IsOpen(t) /\ posts' = posts
          BY <2>1 DEF OpenDialog
    <3>3. IsReady(t, "metadata")' => dialog'[t].current \in Keys
          BY <3>1 DEF IsReady
    <3> QED BY <1>d, <3>1, <3>2, <3>3
  <2>2. ASSUME NEW k \in Keys, NEW v \in Values \cup {Blank}, EditRow(t, k, v) PROVE TypeInv'
    <3>1. Changes(t, dialog'[t]) /\ Keeps(t)
          BY <2>2, EditRowEffect
    <3> QED BY <1>d, <2>2, <3>1 DEF EditRow, IsReady, Keeps
  <2>3. ASSUME NEW v \in Values, Type(t, v) PROVE TypeInv'
    <3>1. Changes(t, dialog'[t]) /\ Keeps(t) /\ dialog'[t].current \in Keys
          BY <2>3, TypeEffect
    <3> QED BY <1>d, <2>3, <3>1 DEF Type, IsReady, Keeps
  <2>4. ASSUME NEW k \in Keys, SelectProvider(t, k) PROVE TypeInv'
    <3>1. Changes(t, dialog'[t]) /\ Keeps(t) /\ dialog'[t].current \in Keys
          BY <2>4, SelectEffect
    <3> QED BY <1>d, <2>4, <3>1 DEF SelectProvider, IsReady, Keeps
  <2>5. CASE CloseDialog(t)
    <3>2. /\ posts' \subseteq Posts /\ Unique(posts')
          /\ \A q \in posts' : \E p \in posts : Orphan(q, p, {t})
          BY <2>5, CloseDialogPosts
    <3>3. Changes(t, dialog'[t]) /\ dialog'[t].phase = "closed"
          BY <2>5, CloseDialogEffect
    <3>4. \A q \in posts' : q.open => \E p \in posts : /\ p.open /\ p.tab # t
                                                   /\ q.tab = p.tab /\ q.doc = p.doc
          BY <3>2 DEF Orphan, Alike
    <3> QED BY <1>c, <3>2, <3>3, <3>4 DEF Changes, TypeInv, TypeOK, Owned, Selected, IsOpen, IsReady
  <2>6. CASE OkRules(t)
    <3>1. PICK n : Sent(t, n) /\ n.form = dialog[t].form /\ n.open = FALSE
          BY <2>6, OkRulesSends
    <3>2. Changes(t, dialog'[t]) /\ dialog'[t].phase = "closed" /\ dialog[t].doc = "rules"
          BY <2>6, CloseDialogEffect DEF OkRules
    <3>3. /\ dialog' \in [Tabs -> Dialogs] /\ posts' \subseteq Posts /\ Unique(posts')
          /\ \A u \in Tabs : IsReady(u, "metadata")' => dialog'[u].current \in Keys
          BY <3>1, <3>2 DEF Sent, Changes, TypeInv, Selected, IsReady
    <3>4. \A p \in posts' : p.open => p \in posts
          BY <3>1 DEF Sent
    <3>5. \A p \in posts' : p.open => /\ p.tab \in Tabs /\ IsOpen(p.tab)'
                                     /\ p.doc = "metadata" /\ dialog'[p.tab].doc = "metadata"
          BY <3>2, <3>4 DEF Changes, TypeInv, TypeOK, Owned, IsOpen
    <3> QED BY <1>c, <3>3, <3>5
  <2>7. CASE OkMetadata(t)
    <3>1. PICK n : Sent(t, n) /\ n.form = Stored(t) /\ n.open = TRUE
          BY <2>7, OkMetadataSends
    <3>2. /\ Changes(t, dialog'[t]) /\ Keeps(t) /\ dialog'[t].current = dialog[t].current
          /\ dialog[t].doc = "metadata" /\ IsOpen(t)
          BY <2>7, OkMetadataEffect DEF OkMetadata
    <3>3. /\ dialog' \in [Tabs -> Dialogs] /\ posts' \subseteq Posts /\ Unique(posts')
          /\ \A u \in Tabs : IsReady(u, "metadata")' => dialog'[u].current \in Keys
          BY <3>1, <3>2 DEF Sent, Changes, Keeps, TypeInv, Selected, IsReady
    <3>4. \A p \in posts' : p \in posts \/ (p.tab = t /\ p.doc = "metadata")
          BY <3>1, <3>2 DEF Sent
    <3>5. \A p \in posts' : p.open => /\ p.tab \in Tabs /\ IsOpen(p.tab)'
                                     /\ p.doc = "metadata" /\ dialog'[p.tab].doc = "metadata"
          BY <3>2, <3>4 DEF Changes, Keeps, TypeInv, TypeOK, Owned, IsOpen
    <3> QED BY <1>c, <3>3, <3>5
  <2> QED BY <1>1, <2>1, <2>2, <2>3, <2>4, <2>5, <2>6, <2>7 DEF Administrator
<1>2. ASSUME NEW t \in Tabs, Page(t) PROVE TypeInv'
  <2>1. ASSUME NEW k \in Keys, ShowMetadata(t, k) PROVE TypeInv'
    <3>1. /\ Changes(t, dialog'[t]) /\ dialog'[t].current \in Keys
          /\ dialog'[t].phase = "ready" /\ dialog'[t].doc = dialog[t].doc
          BY <2>1, ShowMetadataEffect
    <3> QED BY <1>d, <2>1, <3>1 DEF ShowMetadata
  <2>2. CASE ShowRules(t)
    <3>1. /\ Changes(t, dialog'[t]) /\ dialog'[t].phase = "ready"
          /\ dialog'[t].doc = "rules" /\ dialog[t].doc = "rules"
          BY <2>2, ShowRulesEffect
    <3> QED BY <1>d, <2>2, <3>1 DEF ShowRules, IsReady
  <2>3. CASE Reload(t)
    <3>1. /\ posts' \subseteq Posts /\ Unique(posts')
          /\ \A q \in posts' : \E p \in posts : Renamed(q, p, t)
          BY <2>3, ReloadEffect DEF TypeInv
    <3>2. Changes(t, dialog'[t]) /\ dialog'[t].phase = "closed"
          BY <2>3, CloseDialogEffect
    <3>3. \A q \in posts' : q.open => \E p \in posts : /\ p.open /\ p.tab # t
                                                   /\ q.tab = p.tab /\ q.doc = p.doc
          BY <3>1 DEF Renamed, Alike
    <3> QED BY <1>c, <3>1, <3>2, <3>3 DEF Changes, TypeInv, TypeOK, Owned, Selected, IsOpen, IsReady
  <2>4. ASSUME NEW p \in posts, Deliver(p) PROVE TypeInv'
    <3>1. /\ dialog' \in [Tabs -> Dialogs]
          /\ \A u \in Tabs \ Removed(p) : dialog'[u] = dialog[u]
          /\ \A u \in Removed(p) : u = p.tab /\ dialog'[u].phase = "closed"
          /\ posts' \subseteq Posts /\ Unique(posts')
          /\ \A q \in posts' : \E r \in posts \ {p} : Orphan(q, r, Removed(p))
          BY <2>4, DeliverEffect
    <3>2. \A q \in posts' : q.open => \E r \in posts : /\ r.open /\ r.tab \notin Removed(p)
                                                   /\ q.tab = r.tab /\ q.doc = r.doc
          BY <3>1 DEF Alike, Orphan
    <3> QED BY <1>c, <3>1, <3>2 DEF TypeInv, TypeOK, Owned, Selected, IsOpen, IsReady
  <2> QED BY <1>2, <2>1, <2>2, <2>3, <2>4 DEF Page
<1>3. ASSUME NEW p \in posts, Handled(p) PROVE TypeInv'
  <2>1. /\ dialog' = dialog /\ posts' \subseteq Posts /\ Unique(posts')
        /\ \E r \in posts' : /\ Alike(r, p) /\ r.tab = p.tab /\ r.open = p.open
                            /\ \A q \in posts' : q = r \/ q \in posts \ {p}
        BY <1>3, HandledEffect
  <2>2. \A q \in posts' : q.open => \E r \in posts : r.open /\ q.tab = r.tab /\ q.doc = r.doc
        BY <2>1 DEF Alike
  <2> QED BY <1>c, <2>1, <2>2 DEF TypeInv, TypeOK, Owned, Selected, IsOpen, IsReady
<1>4. CASE Inside
      BY <1>c, <1>4, InsideEffect DEF TypeInv, TypeOK, Owned, Selected, IsOpen, IsReady, Unique
<1> QED BY <1>1, <1>2, <1>3, <1>4, NextCases

(* TypeOK holds of every behaviour: documents keep their form, a tab has    *)
(* one dialog, an open post has its dialog, no two posts share a slot, and *)
(* who is handled has not been answered.                                   *)
THEOREM Typing == Spec => []TypeOK
<1>1. Init => TypeInv
      BY InitInv DEF Inv
<1> QED BY <1>1, TypeStep, PTL DEF Spec, TypeInv

------------------------------------------------------------------------------
(* Memory and disk.  Every post of metadata that was loaded has a text for *)
(* every key, so that what the server changes is what it writes.           *)
LEMMA ExcusesGrow ==
  ASSUME [Next]_vars
  PROVE  excuses \subseteq excuses'
<1>1. ASSUME NEW t \in Tabs, Administrator(t) \/ Page(t) PROVE excuses \subseteq excuses'
      BY <1>1 DEF Administrator, Page, OpenDialog, ShowRules, ShowMetadata, EditRow, Type,
         SelectProvider, CloseDialog, OkRules, OkMetadata, Send, Deliver, Reload
<1>2. ASSUME NEW p \in posts, Handled(p) PROVE excuses \subseteq excuses'
      BY <1>2 DEF Handled, Written, SaveFails, Refuse
<1>3. CASE Inside
      BY <1>3 DEF Inside, TakeUp, Change, Serialize, StartReread, FinishReread, vars
<1> QED BY <1>1, <1>2, <1>3, NextCases

LEMMA StoredFull ==
  ASSUME TypeInv, NEW t \in Tabs, IsReady(t, "metadata"), FullDialog(t)
  PROVE  Full(Stored(t))
BY StoredType DEF IsReady, FullDialog, Full, Shown

(* Steps of the pages leave the server alone, and the posts in hand.       *)
LEMMA CoherentKept ==
  ASSUME TypeInv, Coherent, UNCHANGED server, Unique(posts'),
         \A q \in posts' : InHand(q) => \E p \in posts : Alike(q, p),
         \A p \in posts : InHand(p) => \E q \in posts' : Alike(q, p)
  PROVE  Coherent'
<1>0. UNCHANGED <<memory, disk, reread, handler>>
      BY DEF server
<1>1. \A q : InHand(q)' <=> InHand(q)
      BY <1>0 DEF InHand
<1>2. ASSUME NEW q \in posts', InHand(q) PROVE InOrder(q)'
  <2>1. PICK p \in posts : Alike(q, p)
        BY <1>2
  <2>2. InHand(p) /\ InOrder(p)
        BY <1>2, <2>1 DEF InHand, Alike, Coherent
  <2>3. \A r \in posts' : InHand(r) /\ r.doc = q.doc => r = q
    <3> SUFFICES ASSUME NEW r \in posts', InHand(r), r.doc = q.doc PROVE r = q
        OBVIOUS
    <3>1. PICK o \in posts : Alike(r, o)
          OBVIOUS
    <3>2. InHand(o) /\ o.doc = p.doc
          BY <2>1, <3>1 DEF InHand, Alike
    <3>3. o = p
          BY <2>2, <3>2 DEF InOrder
    <3> QED BY <2>1, <3>1, <3>3 DEF Alike, Unique
  <2> QED BY <1>0, <1>1, <2>1, <2>2, <2>3 DEF InOrder, Alike, At
<1>3. \A d \in Docs : Handling(d)' <=> Handling(d)
      BY <1>1 DEF Handling, Alike, InHand
<1> QED BY <1>0, <1>1, <1>2, <1>3 DEF Coherent

LEMMA GivenFull ==
  ASSUME TypeInv, NEW p \in posts, FullPost(p), p.doc # "rules"
  PROVE  Given(p) = Keys
BY DEF TypeInv, TypeOK, Posts, Docs, FullPost, Full, Given

(* What a step does to the document d alone, while no post of another      *)
(* document is touched.                                                    *)
LEMMA CoherentElsewhere ==
  ASSUME TypeInv, Coherent, posts' = posts, NEW p \in posts, UNCHANGED reread,
         \A d \in Docs \ {p.doc} : memory'[d] = memory[d] /\ disk'[d] = disk[d],
         disk'[p.doc] = disk[p.doc],
         \A s \in Slots \ {p.slot} : handler'[s] = handler[s],
         InHand(p)', InOrder(p)',
         \A q \in posts : InHand(q) /\ q.doc = p.doc => q = p
  PROVE  Coherent'
<1>0. p \in Posts /\ \A q \in posts \ {p} : q \in Posts /\ q.slot \in Slots \ {p.slot} /\ q.doc \in Docs
      BY DEF TypeInv, TypeOK, Posts
<1>1. \A q \in posts \ {p} : InHand(q)' <=> InHand(q)
      BY <1>0 DEF InHand
<1>2. ASSUME NEW q \in posts \ {p}, InHand(q) PROVE InOrder(q)'
  <2>1. q.doc \in Docs \ {p.doc} /\ InOrder(q)
        BY <1>0, <1>2 DEF Coherent
  <2>2. \A r \in posts : InHand(r)' /\ r.doc = q.doc => r = q
        BY <1>1, <1>2, <2>1 DEF InOrder
  <2> QED BY <1>0, <2>1, <2>2 DEF InOrder, At
<1>3. ASSUME NEW d \in Docs PROVE reread'[d] \subseteq {disk'[d]} /\ (~Handling(d)' => disk'[d] = memory'[d])
  <2>1. CASE d = p.doc
        BY <2>1 DEF Handling, Coherent
  <2>2. CASE d # p.doc
    <3>1. Handling(d)' <=> Handling(d)
          BY <1>1, <2>2 DEF Handling
    <3> QED BY <2>2, <3>1 DEF Coherent
  <2> QED BY <2>1, <2>2
<1> QED BY <1>1, <1>2, <1>3 DEF Coherent

LEMMA TakeUpCoherent ==
  ASSUME TypeInv, Coherent, NEW p \in posts, FullPost(p), TakeUp(p), "raced" \notin excuses'
  PROVE  Coherent'
<1>0. p \in Posts /\ p.doc \in Docs /\ p.form \in Contents /\ memory \in [Docs -> Contents]
      BY DEF TypeInv, TypeOK, Posts
<1>1. ~Handling(p.doc) /\ reread[p.doc] = {}
      BY DEF TakeUp, If
<1>2. UNCHANGED <<posts, reread, disk>>
      BY DEF TakeUp
<1>3. /\ handler'[p.slot].stage = "changing" /\ ~handler'[p.slot].apart
      /\ handler'[p.slot].todo = Given(p)
      /\ \A s \in Slots \ {p.slot} : handler'[s] = handler[s]
      BY TakeUpEffect
<1>4. \A d \in Docs \ {p.doc} : memory'[d] = memory[d]
      BY <1>0 DEF TakeUp
<1>5. \A k \in Keys \ Given(p) : memory'[p.doc][k] = p.form[k]
  <2>1. CASE p.doc = "rules"
    <3>1. memory'["rules"] = Empty
          BY <1>0, <2>1 DEF TakeUp
    <3> QED BY <2>1, <3>1 DEF Empty, Given
  <2>2. CASE p.doc # "rules"
        BY <2>2, GivenFull
  <2> QED BY <2>1, <2>2
<1>6. \A q \in posts : q.doc = p.doc => ~InHand(q)
      BY <1>1 DEF Handling
<1>7. InOrder(p)'
  <2>1. \A q \in posts' : InHand(q)' /\ q.doc = p.doc => q = p
    <3> SUFFICES ASSUME NEW q \in posts, q # p, InHand(q)', q.doc = p.doc PROVE FALSE
        BY <1>2
    <3>1. q.slot \in Slots \ {p.slot}
          BY DEF TypeInv, TypeOK, Posts
    <3> QED BY <1>3, <1>6, <3>1 DEF InHand
  <2> QED BY <1>1, <1>2, <1>3, <1>5, <2>1 DEF InOrder, At
<1>8. InHand(p)'
      BY <1>3 DEF InHand
<1> QED BY <1>2, <1>3, <1>4, <1>6, <1>7, <1>8, CoherentElsewhere

LEMMA ChangeSame ==
  ASSUME TypeInv, Coherent, NEW p \in posts, NEW k \in Keys, Change(p, k)
  PROVE  memory' = [memory EXCEPT ![p.doc] =
                      [l \in Keys |-> IF l = k THEN p.form[k] ELSE memory[p.doc][l]]]
<1>1. InHand(p) /\ InOrder(p)
      BY DEF Change, At, InHand, Coherent
<1>2. \A q \in posts \ {p} : q.doc = p.doc => ~At(q, "changing")
      BY <1>1 DEF InOrder, InHand, At
<1>3. MayGetLost(p, k) = {{}}
      BY <1>2 DEF MayGetLost
<1>4. memory' = [memory EXCEPT ![p.doc] = Changed(p, k, {})]
      BY <1>1, <1>3 DEF InOrder, Change
<1> QED BY <1>4 DEF Changed

LEMMA ChangeCoherent ==
  ASSUME TypeInv, Coherent, NEW p \in posts, NEW k \in Keys, Change(p, k)
  PROVE  Coherent'
<1>0. p \in Posts /\ p.doc \in Docs /\ memory \in [Docs -> Contents]
      BY DEF TypeInv, TypeOK, Posts
<1>1. InHand(p) /\ InOrder(p)
      BY DEF Change, At, InHand, Coherent
<1>2. UNCHANGED <<posts, reread, disk>>
      BY DEF Change
<1>3. /\ handler'[p.slot].stage = "changing"
      /\ handler'[p.slot].apart = handler[p.slot].apart
      /\ handler'[p.slot].todo = handler[p.slot].todo \ {k}
      /\ \A s \in Slots \ {p.slot} : handler'[s] = handler[s]
      BY ChangeEffect
<1> DEFINE c == [l \in Keys |-> IF l = k THEN p.form[k] ELSE memory[p.doc][l]]
<1>4. memory' = [memory EXCEPT ![p.doc] = c]
      BY ChangeSame
<1>5. \A l \in Keys : c[l] = IF l = k THEN p.form[k] ELSE memory[p.doc][l]
      OBVIOUS
<1> HIDE DEF c
<1>6. memory'[p.doc] = c /\ \A d \in Docs \ {p.doc} : memory'[d] = memory[d]
      BY <1>0, <1>4
<1>7. \A l \in Keys \ handler'[p.slot].todo : memory'[p.doc][l] = p.form[l]
      BY <1>1, <1>3, <1>5, <1>6 DEF InOrder, Change, At
<1>8. \A q \in posts : InHand(q) /\ q.doc = p.doc => q = p
      BY <1>1 DEF InOrder
<1>9. InOrder(p)' /\ InHand(p)'
  <2>1. \A q \in posts' : InHand(q)' /\ q.doc = p.doc => q = p
    <3> SUFFICES ASSUME NEW q \in posts, q # p, InHand(q)', q.doc = p.doc PROVE FALSE
        BY <1>2
    <3>1. q.slot \in Slots \ {p.slot}
          BY DEF TypeInv, TypeOK, Posts
    <3> QED BY <1>3, <1>8, <3>1 DEF InHand
  <2> QED BY <1>1, <1>2, <1>3, <1>7, <2>1 DEF InOrder, InHand, At
<1> QED BY <1>2, <1>3, <1>6, <1>8, <1>9, CoherentElsewhere

LEMMA SerializeCoherent ==
  ASSUME TypeInv, Coherent, NEW p \in posts, FullPost(p), Serialize(p)
  PROVE  Coherent'
<1>0. p \in Posts /\ p.doc \in Docs /\ p.form \in Contents /\ memory \in [Docs -> Contents]
      BY DEF TypeInv, TypeOK, Posts
<1>1. InHand(p) /\ InOrder(p)
      BY DEF Serialize, At, InHand, Coherent
<1>2. UNCHANGED <<posts, reread, disk, memory>>
      BY DEF Serialize
<1>3. /\ handler'[p.slot].stage = "writing"
      /\ handler'[p.slot].apart = handler[p.slot].apart
      /\ handler'[p.slot].out = Serialized(p)
      /\ \A s \in Slots \ {p.slot} : handler'[s] = handler[s]
      BY SerializeEffect
<1>4. memory[p.doc] = p.form
      BY <1>0, <1>1 DEF Serialize, InOrder, Contents
<1>5. Serialized(p) = p.form
  <2>1. CASE p.doc = "rules"
        BY <1>4, <2>1 DEF Serialized
  <2>2. CASE p.doc # "rules"
    <3>1. p.doc = "metadata" /\ Given(p) = Keys
          BY <1>0, <2>2, GivenFull DEF Docs
    <3> QED BY <1>0, <1>1, <1>4, <3>1 DEF Serialized, InOrder, Contents
  <2> QED BY <2>1, <2>2
<1>8. \A q \in posts : InHand(q) /\ q.doc = p.doc => q = p
      BY <1>1 DEF InOrder
<1>9. InOrder(p)' /\ InHand(p)'
  <2>1. \A q \in posts' : InHand(q)' /\ q.doc = p.doc => q = p
    <3> SUFFICES ASSUME NEW q \in posts, q # p, InHand(q)', q.doc = p.doc PROVE FALSE
        BY <1>2
    <3>1. q.slot \in Slots \ {p.slot}
          BY DEF TypeInv, TypeOK, Posts
    <3> QED BY <1>3, <1>8, <3>1 DEF InHand
  <2> QED BY <1>1, <1>2, <1>3, <1>4, <1>5, <2>1 DEF InOrder, InHand, At
<1> QED BY <1>2, <1>3, <1>8, <1>9, CoherentElsewhere

(* The file gets what the post carried, and is what is in memory.          *)
LEMMA WrittenEffect ==
  ASSUME TypeInv, Coherent, NEW p \in posts, Written(p)
  PROVE  /\ disk' = [disk EXCEPT ![p.doc] = p.form]
         /\ disk'[p.doc] = p.form /\ memory'[p.doc] = p.form
         /\ \A d \in Docs \ {p.doc} : disk'[d] = disk[d]
<1>0. p.doc \in Docs /\ disk \in [Docs -> Contents]
      BY DEF TypeInv, TypeOK, Posts
<1>1. InOrder(p) /\ At(p, "writing")
      BY DEF Written, At, InHand, Coherent
<1> QED BY <1>0, <1>1 DEF Written, InOrder

LEMMA WrittenCoherent ==
  ASSUME TypeInv, Coherent, NEW p \in posts, Written(p)
  PROVE  Coherent'
<1>0. /\ \A q \in posts \ {p} : q.slot \in Slots \ {p.slot} /\ q.doc \in Docs
      /\ p.doc \in Docs
      BY DEF TypeInv, TypeOK, Posts
<1>1. InHand(p) /\ InOrder(p)
      BY DEF Written, At, InHand, Coherent
<1>2. /\ disk'[p.doc] = p.form /\ memory'[p.doc] = p.form
      /\ \A d \in Docs \ {p.doc} : disk'[d] = disk[d]
      BY WrittenEffect
<1>3. UNCHANGED <<memory, reread>>
      BY DEF Written
<1>4. /\ handler'[p.slot].stage = "idle"
      /\ \A s \in Slots \ {p.slot} : handler'[s] = handler[s]
      BY EndEffect, IdleType
<1>5. PICK r \in posts' : r.slot = p.slot /\ \A q \in posts' : q = r \/ q \in posts \ {p}
      BY HandledEffect DEF Handled, Alike
<1>6. \A q \in posts \ {p} : q \in posts'
      BY HandledEffect DEF Handled
<1>7. \A q \in posts' : InHand(q)' => q \in posts \ {p} /\ InHand(q)
      BY <1>0, <1>4, <1>5 DEF InHand
<1>8. ASSUME NEW q \in posts', InHand(q)' PROVE InOrder(q)'
  <2>1. q \in posts \ {p} /\ InHand(q) /\ InOrder(q)
        BY <1>7, <1>8 DEF Coherent
  <2> QED BY <1>0, <1>3, <1>4, <1>7, <2>1 DEF InOrder, At
<1>9. ASSUME NEW d \in Docs PROVE reread'[d] \subseteq {disk'[d]} /\ (~Handling(d)' => disk'[d] = memory'[d])
  <2>1. CASE d = p.doc
        BY <1>1, <1>2, <1>3, <2>1 DEF InOrder
  <2>2. CASE d # p.doc
    <3>1. Handling(d) => Handling(d)'
          BY <1>0, <1>4, <1>6, <2>2 DEF Handling, InHand
    <3> QED BY <1>2, <1>3, <2>2, <3>1 DEF Coherent
  <2> QED BY <2>1, <2>2
<1> QED BY <1>8, <1>9 DEF Coherent

LEMMA StartCoherent ==
  ASSUME TypeInv, Coherent, NEW d \in Docs, StartReread(d), "raced" \notin excuses'
  PROVE  Coherent'
<1>1. ~Handling(d)
      BY DEF StartReread, If
<1>2. Read(d) = {disk[d]}
      BY <1>1 DEF Read, Handling, InHand, At
<1>3. reread' = [reread EXCEPT ![d] = {disk[d]}] /\ UNCHANGED <<memory, disk, handler, posts>>
      BY <1>2 DEF StartReread
<1>4. reread \in [Docs -> SUBSET Contents] /\ \A p \in posts : p.doc \in Docs
      BY DEF TypeInv, TypeOK, Posts
<1>5. \A p \in posts : InHand(p)' => InOrder(p)'
      BY <1>1, <1>3, <1>4 DEF Coherent, InOrder, InHand, Handling, At
<1> QED BY <1>3, <1>4, <1>5 DEF Coherent, Handling, InHand

LEMMA FinishSame ==
  ASSUME TypeInv, Coherent, NEW d \in Docs, FinishReread(d)
  PROVE  memory' = memory /\ handler' = handler
<1>1. PICK c \in reread[d] : memory' = [memory EXCEPT ![d] = c]
      BY DEF FinishReread
<1>2. ~Handling(d)
      BY <1>1 DEF Coherent, Handling, InOrder
<1>3. c = memory[d]
      BY <1>1, <1>2 DEF Coherent
<1> QED BY <1>1, <1>2, <1>3, FinishEffect DEF TypeInv, TypeOK

LEMMA FinishCoherent ==
  ASSUME TypeInv, Coherent, NEW d \in Docs, FinishReread(d)
  PROVE  Coherent'
<1>1. UNCHANGED <<memory, handler, disk, posts>> /\ reread' = [reread EXCEPT ![d] = {}]
      BY FinishSame DEF FinishReread
<1>2. reread \in [Docs -> SUBSET Contents] /\ \A p \in posts : p.doc \in Docs
      BY DEF TypeInv, TypeOK, Posts
<1>3. \A p \in posts : InHand(p)' => InOrder(p)'
      BY <1>1, <1>2 DEF Coherent, InOrder, InHand, At
<1> QED BY <1>1, <1>2, <1>3 DEF Coherent, Handling, InHand

LEMMA CoherentStep ==
  ASSUME TypeInv, Complete, [Next]_vars, excuses' \cap {"early", "unsaved", "raced"} = {}
  PROVE  Coherent'
<1>0. Coherent /\ \A p \in posts : FullPost(p)
      BY ExcusesGrow DEF Complete
<1>t. TypeOK' /\ Unique(posts')
      BY TypeStep DEF TypeInv, TypeOK, Unique
<1>1. ASSUME NEW t \in Tabs, Administrator(t) PROVE Coherent'
  <2>1. UNCHANGED server
        BY <1>1, ClientEffect
  <2>2. CASE CloseDialog(t)
        BY <1>0, <1>t, <2>1, <2>2, CloseDialogPosts, CoherentKept DEF Orphan
  <2>3. CASE ~CloseDialog(t)
    <3>1. \/ posts' = posts
          \/ \E n : Sent(t, n)
          BY <1>1, <2>3, OkRulesSends, OkMetadataSends
             DEF Administrator, OpenDialog, EditRow, Type, SelectProvider
    <3>2. CASE posts' = posts
          BY <1>0, <1>t, <2>1, <3>2, CoherentKept DEF Alike
    <3>3. ASSUME NEW n, Sent(t, n) PROVE Coherent'
      <4>1. \A p \in posts : p.slot # n.slot
            BY <3>3 DEF Sent, Unique
      <4>2. ~InHand(n)
            BY <3>3, <4>1 DEF Sent, Posts, InHand, TypeInv, TypeOK
      <4>3. /\ \A q \in posts' : InHand(q) => q \in posts
            /\ \A p \in posts : p \in posts'
            BY <3>3, <4>2 DEF Sent
      <4> QED BY <1>0, <1>t, <2>1, <4>3, CoherentKept DEF Alike
    <3> QED BY <3>1, <3>2, <3>3
  <2> QED BY <2>2, <2>3
<1>2. ASSUME NEW t \in Tabs, Page(t) PROVE Coherent'
  <2>1. UNCHANGED server
        BY <1>2, ClientEffect
  <2>2. CASE Reload(t)
        BY <1>0, <1>t, <2>1, <2>2, ReloadEffect, CoherentKept DEF Renamed, TypeInv
  <2>3. ASSUME NEW p \in posts, Deliver(p) PROVE Coherent'
    <3>1. /\ \A q \in posts' : \E r \in posts \ {p} : Orphan(q, r, Removed(p))
          /\ \A r \in posts \ {p} : \E q \in posts' : Orphan(q, r, Removed(p))
          BY <2>3, DeliverEffect
    <3>2. ~InHand(p)
          BY <2>3, InHandUnanswered DEF Deliver
    <3> QED BY <1>0, <1>t, <2>1, <3>1, <3>2, CoherentKept DEF Orphan
  <2>4. ASSUME ShowRules(t) \/ \E k \in Keys : ShowMetadata(t, k) PROVE Coherent'
    <3>1. posts' = posts
          BY <2>4 DEF ShowRules, ShowMetadata
    <3> QED BY <1>0, <1>t, <2>1, <3>1, CoherentKept DEF Alike
  <2> QED BY <1>2, <2>2, <2>3, <2>4 DEF Page
<1>3. ASSUME NEW p \in posts, Handled(p) PROVE Coherent'
  <2>1. CASE Written(p)
        BY <1>0, <2>1, WrittenCoherent
  <2>2. CASE Refuse(p)
    <3>1. UNCHANGED server
          BY <2>2 DEF Refuse
    <3>2. /\ \E r \in posts' : Alike(r, p) /\ \A q \in posts' : q = r \/ q \in posts \ {p}
          /\ \A q \in posts \ {p} : q \in posts'
          BY <1>3, HandledEffect
    <3> QED BY <1>0, <1>t, <3>1, <3>2, CoherentKept DEF Alike
  <2>3. CASE SaveFails(p)
        BY <2>3 DEF SaveFails
  <2> QED BY <1>3, <2>1, <2>2, <2>3 DEF Handled
<1>4. CASE Inside
  <2>1. CASE UNCHANGED vars
    <3>1. UNCHANGED server /\ posts' = posts
          BY <2>1 DEF vars
    <3> QED BY <1>0, <1>t, <3>1, CoherentKept DEF Alike
  <2> QED BY <1>0, <1>4, <2>1, TakeUpCoherent, ChangeCoherent, SerializeCoherent,
             StartCoherent, FinishCoherent DEF Inside
<1> QED BY <1>1, <1>2, <1>3, <1>4, NextCases

LEMMA CompleteStep == TypeInv /\ Complete /\ [Next]_vars => Complete'
<1> SUFFICES ASSUME TypeInv, Complete, [Next]_vars, excuses' \cap {"early", "unsaved", "raced"} = {}
             PROVE  /\ Full(memory["metadata"])'
                    /\ \A t \in Tabs : FullDialog(t)'
                    /\ \A p \in posts' : FullPost(p)
    BY CoherentStep DEF Complete, FullPost, Full
<1> DEFINE Goal == /\ Full(memory["metadata"])'
                   /\ \A t \in Tabs : FullDialog(t)'
                   /\ \A p \in posts' : FullPost(p)
<1>0. /\ Coherent /\ Full(memory["metadata"])
      /\ \A t \in Tabs : FullDialog(t)
      /\ \A p \in posts : FullPost(p)
      BY ExcusesGrow DEF Complete
<1>a. ASSUME NEW t \in Tabs, Changes(t, dialog'[t]), memory' = memory, FullDialog(t)',
             \A q \in posts' : q.doc = "rules" \/ Full(q.form)
                               \/ \E p \in posts : q.doc = p.doc /\ q.form = p.form
      PROVE  Goal
  <2>1. \A u \in Tabs : FullDialog(u)'
        BY <1>0, <1>a DEF Changes, FullDialog, IsReady, Full
  <2>2. \A q \in posts' : FullPost(q)
        BY <1>0, <1>a DEF FullPost
  <2> QED BY <1>0, <1>a, <2>1, <2>2 DEF Full
<1>m. ASSUME NEW t \in Tabs, Administrator(t) \/ Page(t) PROVE memory' = memory
      BY <1>m, ClientEffect DEF server
<1>1. ASSUME NEW t \in Tabs, Administrator(t) PROVE Goal
  <2>1. ASSUME NEW d \in Docs, OpenDialog(t, d) PROVE Goal
    <3>1. Changes(t, dialog'[t]) /\ FullDialog(t)'
          BY <2>1, OpenEffect DEF FullDialog, IsReady
    <3> QED BY <1>a, <1>m, <1>1, <2>1, <3>1 DEF OpenDialog
  <2>2. ASSUME NEW k \in Keys, NEW v \in Values \cup {Blank}, EditRow(t, k, v) PROVE Goal
    <3>1. Changes(t, dialog'[t]) /\ dialog'[t].doc = dialog[t].doc
          BY <2>2, EditRowEffect DEF Keeps
    <3>2. FullDialog(t)'
          BY <2>2, <3>1 DEF EditRow, FullDialog, IsReady
    <3> QED BY <1>a, <1>m, <1>1, <2>2, <3>1, <3>2 DEF EditRow
  <2>3. ASSUME NEW v \in Values, Type(t, v) PROVE Goal
    <3>1. /\ Changes(t, dialog'[t]) /\ Keeps(t)
          /\ dialog'[t].form = dialog[t].form /\ dialog'[t].editor = v
          BY <2>3, TypeEffect
    <3>2. FullDialog(t)'
          BY <1>0, <2>3, <3>1, BlankAssumption DEF Keeps, FullDialog, IsReady, Full
    <3> QED BY <1>a, <1>m, <1>1, <2>3, <3>1, <3>2 DEF Type
  <2>4. ASSUME NEW k \in Keys, SelectProvider(t, k) PROVE Goal
    <3>1. /\ Changes(t, dialog'[t]) /\ Keeps(t)
          /\ dialog'[t].form = Stored(t) /\ dialog'[t].editor = dialog[t].form[k]
          BY <2>4, SelectEffect
    <3>2. Full(Stored(t)) /\ Full(dialog[t].form)
          BY <1>0, <2>4, StoredFull DEF SelectProvider, FullDialog
    <3>3. FullDialog(t)'
          BY <3>1, <3>2 DEF FullDialog, Full
    <3> QED BY <1>a, <1>m, <1>1, <2>4, <3>1, <3>3 DEF SelectProvider
  <2>5. CASE CloseDialog(t)
    <3>1. Changes(t, dialog'[t]) /\ FullDialog(t)'
          BY <2>5, CloseDialogEffect DEF FullDialog, IsReady
    <3>3. \A q \in posts' : \E p \in posts : Orphan(q, p, {t})
          BY <2>5, CloseDialogPosts
    <3> QED BY <1>a, <1>m, <1>1, <2>5, <3>1, <3>3 DEF CloseDialog, Orphan, Alike
  <2>6. CASE OkRules(t)
    <3>1. PICK n : Sent(t, n) /\ n.form = dialog[t].form
          BY <2>6, OkRulesSends
    <3>2. Changes(t, dialog'[t]) /\ FullDialog(t)'
          BY <2>6, CloseDialogEffect DEF FullDialog, IsReady
    <3>3. \A q \in posts' : q.doc = "rules" \/ q \in posts
          BY <2>6, <3>1 DEF Sent, OkRules
    <3> QED BY <1>a, <1>m, <1>1, <2>6, <3>2, <3>3 DEF OkRules
  <2>7. CASE OkMetadata(t)
    <3>1. PICK n : Sent(t, n) /\ n.form = Stored(t)
          BY <2>7, OkMetadataSends
    <3>2. IsReady(t, "metadata")
          BY <2>7, <3>1 DEF OkMetadata, Sent, If, IsReady
    <3>3. Full(Stored(t))
          BY <1>0, <3>2, StoredFull
    <3>4. Changes(t, dialog'[t]) /\ dialog'[t].form = Stored(t) /\ dialog'[t].editor = dialog[t].editor
          BY <2>7, OkMetadataEffect
    <3>5. FullDialog(t)'
          BY <1>0, <3>2, <3>3, <3>4 DEF FullDialog, Full
    <3>6. \A q \in posts' : Full(q.form) \/ q \in posts
          BY <3>1, <3>3 DEF Sent
    <3> QED BY <1>a, <1>m, <1>1, <2>7, <3>4, <3>5, <3>6 DEF OkMetadata
  <2> QED BY <1>1, <2>1, <2>2, <2>3, <2>4, <2>5, <2>6, <2>7 DEF Administrator
<1>2. ASSUME NEW t \in Tabs, Page(t) PROVE Goal
  <2>1. ASSUME NEW k \in Keys, ShowMetadata(t, k) PROVE Goal
    <3>1. /\ Changes(t, dialog'[t]) /\ dialog'[t].form = memory["metadata"]
          /\ dialog'[t].editor = memory["metadata"][k]
          BY <2>1, ShowMetadataEffect
    <3>2. FullDialog(t)'
          BY <1>0, <3>1 DEF FullDialog, Full
    <3> QED BY <1>a, <1>m, <1>2, <2>1, <3>1, <3>2 DEF ShowMetadata
  <2>2. CASE ShowRules(t)
    <3>1. Changes(t, dialog'[t]) /\ FullDialog(t)'
          BY <2>2, ShowRulesEffect DEF FullDialog, IsReady
    <3> QED BY <1>a, <1>m, <1>2, <2>2, <3>1 DEF ShowRules
  <2>3. CASE Reload(t)
    <3>1. Changes(t, dialog'[t]) /\ FullDialog(t)'
          BY <2>3, CloseDialogEffect DEF FullDialog, IsReady
    <3>2. \A q \in posts' : \E p \in posts : Alike(q, p)
          BY <2>3, ReloadEffect DEF TypeInv, Renamed
    <3> QED BY <1>a, <1>m, <1>2, <2>3, <3>1, <3>2 DEF Reload, Alike
  <2>4. ASSUME NEW p \in posts, Deliver(p) PROVE Goal
    <3>1. /\ \A u \in Tabs \ Removed(p) : dialog'[u] = dialog[u]
          /\ \A u \in Removed(p) : dialog'[u].phase = "closed"
          /\ \A q \in posts' : \E r \in posts \ {p} : Orphan(q, r, Removed(p))
          BY <2>4, DeliverEffect
    <3>2. \A u \in Tabs : FullDialog(u)'
          BY <1>0, <3>1 DEF FullDialog, IsReady, Full
    <3>3. \A q \in posts' : FullPost(q)
          BY <1>0, <3>1 DEF FullPost, Orphan, Alike
    <3> QED BY <1>0, <1>m, <1>2, <2>4, <3>2, <3>3 DEF Full
  <2> QED BY <1>2, <2>1, <2>2, <2>3, <2>4 DEF Page
<1>3. ASSUME NEW p \in posts, Handled(p) PROVE Goal
  <2>1. dialog' = dialog /\ \A q \in posts' : \E r \in posts : Alike(q, r)
        BY <1>3, HandledEffect DEF Alike
  <2>2. memory' = memory
        BY <1>3 DEF Handled, Written, SaveFails, Refuse, server
  <2>3. \A q \in posts' : FullPost(q)
        BY <1>0, <2>1 DEF Alike, FullPost
  <2> QED BY <1>0, <2>1, <2>2, <2>3 DEF FullDialog, IsReady, Full
<1>4. CASE Inside
  <2>1. dialog' = dialog /\ posts' = posts
        BY <1>4, InsideEffect
  <2>2. Full(memory["metadata"])'
    <3>1. ASSUME NEW p \in posts, NEW k \in Keys, Change(p, k) PROVE Full(memory["metadata"])'
      <4>1. memory' = [memory EXCEPT ![p.doc] =
                         [l \in Keys |-> IF l = k THEN p.form[k] ELSE memory[p.doc][l]]]
            BY <1>0, <3>1, ChangeSame
      <4>2. memory \in [Docs -> Contents] /\ p.doc \in Docs /\ FullPost(p)
            BY <1>0 DEF TypeInv, TypeOK, Posts
      <4> QED BY <1>0, <4>1, <4>2 DEF Full, FullPost, Docs
    <3>2. ASSUME NEW p \in posts, TakeUp(p) PROVE memory'["metadata"] = memory["metadata"]
          BY <3>2 DEF TakeUp, TypeInv, TypeOK, Docs
    <3>3. ASSUME NEW d \in Docs, FinishReread(d) PROVE memory' = memory
          BY <1>0, <3>3, FinishSame
    <3>4. ASSUME \/ \E p \in posts : Serialize(p)
                 \/ \E d \in Docs : StartReread(d)
                 \/ UNCHANGED vars
          PROVE  memory' = memory
          BY <3>4 DEF Serialize, StartReread, vars, server
    <3> QED BY <1>0, <1>4, <3>1, <3>2, <3>3, <3>4 DEF Inside, Full
  <2> QED BY <1>0, <2>1, <2>2 DEF FullDialog, IsReady, Full
<1> QED BY <1>1, <1>2, <1>3, <1>4, NextCases

(* What the server answers with is in the files, whichever dialogs         *)
(* overlapped: by induction, the post in hand is the only one of its       *)
(* document, has a text for every key of metadata, and memory is on its    *)
(* way from the file to what that post will write.                         *)
THEOREM RestartIsHarmless == Spec => []SurvivesRestart
<1>1. Init => TypeInv /\ Complete
      BY InitInv DEF Inv
<1>2. TypeInv /\ Complete /\ [Next]_vars => (TypeInv /\ Complete)'
      BY TypeStep, CompleteStep
<1>3. Complete => SurvivesRestart
      BY DEF Complete, Coherent, SurvivesRestart
<1> QED BY <1>1, <1>2, <1>3, PTL DEF Spec

------------------------------------------------------------------------------
(* A tab has at most one open metadata post.                               *)
LEMMA OneOpenStep == TypeInv /\ OneOpen /\ [Next]_vars => OneOpen'
<1> DEFINE Good(q) == q.doc = "metadata" /\ q.tab # NoTab => q.open
<1> SUFFICES ASSUME TypeInv, OneOpen, [Next]_vars, excuses' \cap {"abandoned", "again"} = {}
             PROVE  /\ \A q \in posts' : Good(q)
                    /\ \A q, r \in posts' : q.open /\ r.open /\ q.tab = r.tab => q = r
    BY DEF OneOpen
<1> DEFINE Goal == /\ \A q \in posts' : Good(q)
                   /\ \A q, r \in posts' : q.open /\ r.open /\ q.tab = r.tab => q = r
<1>0. /\ \A p \in posts : Good(p)
      /\ \A p, q \in posts : p.open /\ q.open /\ p.tab = q.tab => p = q
      BY ExcusesGrow DEF OneOpen
<1>a. ASSUME Unique(posts'),
             \A q \in posts' : \E p \in posts :
               /\ Alike(q, p)
               /\ \/ q.tab = p.tab /\ (q.open <=> p.open)
                  \/ q.tab = NoTab /\ ~q.open
      PROVE  Goal
  <2>1. \A q \in posts' : Good(q)
        BY <1>0, <1>a DEF Alike
  <2>2. \A q, r \in posts' : q.open /\ r.open /\ q.tab = r.tab => q = r
        BY <1>0, <1>a DEF Alike, Unique
  <2> QED BY <2>1, <2>2
<1>b. posts' = posts => Goal
      BY <1>0
<1>1. ASSUME NEW t \in Tabs, Administrator(t) PROVE Goal
  <2>1. CASE CloseDialog(t)
    <3>1. Unique(posts') /\ \A q \in posts' : \E p \in posts : Orphan(q, p, {t})
          BY <2>1, CloseDialogPosts
    <3>2. \A p \in posts : p.open => p.tab # t
          BY <2>1 DEF CloseDialog, If
    <3> QED BY <1>a, <3>1, <3>2 DEF Orphan
  <2>2. CASE OkRules(t)
    <3>1. PICK n : Sent(t, n) /\ n.open = FALSE
          BY <2>2, OkRulesSends
    <3>2. n.doc = "rules"
          BY <2>2, <3>1 DEF OkRules, Sent
    <3> QED BY <1>0, <3>1, <3>2 DEF Sent
  <2>3. CASE OkMetadata(t)
    <3>1. PICK n : Sent(t, n) /\ n.open = TRUE
          BY <2>3, OkMetadataSends
    <3>2. \A p \in posts : p.open => p.tab # t
          BY <3>1 DEF Sent, If
    <3> QED BY <1>0, <3>1, <3>2 DEF Sent
  <2>4. ASSUME NEW d \in Docs, OpenDialog(t, d) PROVE Goal
        BY <1>b, <2>4 DEF OpenDialog
  <2>5. ASSUME NEW k \in Keys, NEW v \in Values \cup {Blank}, EditRow(t, k, v) PROVE Goal
        BY <1>b, <2>5 DEF EditRow
  <2>6. ASSUME NEW v \in Values, Type(t, v) PROVE Goal
        BY <1>b, <2>6 DEF Type
  <2>7. ASSUME NEW k \in Keys, SelectProvider(t, k) PROVE Goal
        BY <1>b, <2>7 DEF SelectProvider
  <2> QED BY <1>1, <2>1, <2>2, <2>3, <2>4, <2>5, <2>6, <2>7 DEF Administrator
<1>2. ASSUME NEW t \in Tabs, Page(t) PROVE Goal
  <2>1. CASE Reload(t)
    <3>1. Unique(posts') /\ \A q \in posts' : \E p \in posts : Renamed(q, p, t)
          BY <2>1, ReloadEffect DEF TypeInv
    <3> QED BY <1>a, <3>1 DEF Renamed
  <2>2. ASSUME NEW p \in posts, Deliver(p) PROVE Goal
    <3>1. Unique(posts') /\ \A q \in posts' : \E r \in posts \ {p} : Orphan(q, r, Removed(p))
          BY <2>2, DeliverEffect
    <3>2. \A r \in posts \ {p} : r.open => r.tab \notin Removed(p)
          BY <1>0 DEF Removed
    <3> QED BY <1>a, <3>1, <3>2 DEF Orphan
  <2>3. ASSUME ShowRules(t) \/ \E k \in Keys : ShowMetadata(t, k) PROVE Goal
        BY <1>b, <2>3 DEF ShowRules, ShowMetadata
  <2> QED BY <1>2, <2>1, <2>2, <2>3 DEF Page
<1>3. ASSUME NEW p \in posts, Handled(p) PROVE Goal
  <2>1. Unique(posts') /\ \A q \in posts' : \E r \in posts : /\ Alike(q, r) /\ q.tab = r.tab
                                                           /\ q.open = r.open
        BY <1>3, HandledEffect DEF Alike
  <2> QED BY <1>a, <2>1
<1>4. CASE Inside
      BY <1>b, <1>4, InsideEffect
<1> QED BY <1>1, <1>2, <1>3, <1>4, NextCases

(* How an open dialog may get closed.                                      *)
LEMMA OwnAnswer ==
  ASSUME TypeInv, OneOpen, [Next]_vars, excuses' \cap {"abandoned", "again"} = {},
         NEW t \in Tabs, IsOpen(t), ~IsOpen(t)'
  PROVE  \/ CloseDialog(t) \/ OkRules(t) \/ PageReloaded(t)
         \/ \E p \in posts : /\ p.tab = t /\ p.open /\ p.answer = "saved"
                             /\ \A q \in posts' : q.slot # p.slot
<1>a. ASSUME NEW u \in Tabs, Changes(u, dialog'[u]), IsOpen(u) => dialog'[u].phase # "closed" PROVE FALSE
      BY <1>a DEF Changes, IsOpen
<1>1. ASSUME NEW u \in Tabs, Administrator(u) PROVE CloseDialog(t) \/ OkRules(t)
  <2>1. CASE CloseDialog(u) \/ OkRules(u)
        BY <2>1, CloseDialogEffect DEF Changes, IsOpen
  <2>2. ~OkMetadata(u)
        BY <1>a, OkMetadataEffect DEF Keeps, IsOpen
  <2>3. \A d \in Docs : ~OpenDialog(u, d)
        BY <1>a, OpenEffect
  <2>4. \A k \in Keys, v \in Values \cup {Blank} : ~EditRow(u, k, v)
        BY <1>a, EditRowEffect DEF Keeps, IsOpen
  <2>5. \A v \in Values : ~Type(u, v)
        BY <1>a, TypeEffect DEF Keeps, IsOpen
  <2>6. \A k \in Keys : ~SelectProvider(u, k)
        BY <1>a, SelectEffect DEF Keeps, IsOpen
  <2> QED BY <1>1, <2>1, <2>2, <2>3, <2>4, <2>5, <2>6 DEF Administrator
<1>2. ASSUME NEW u \in Tabs, Reload(u) PROVE PageReloaded(t)
  <2>1. u = t
        BY <1>2, CloseDialogEffect DEF Changes, IsOpen
  <2>2. \A q \in posts' : q.tab # t
        BY <1>2, <2>1, ReloadEffect, NoTabAssumption DEF Renamed, TypeInv
  <2> QED BY <1>2, <2>1, <2>2 DEF Reload, PageReloaded
<1>3. ASSUME NEW p \in posts, Deliver(p)
      PROVE  /\ p.tab = t /\ p.open /\ p.answer = "saved"
             /\ \A q \in posts' : q.slot # p.slot
  <2>1. t \in Removed(p)
        BY <1>3, DeliverEffect DEF IsOpen
  <2>2. p.tab = t /\ p.tab # NoTab /\ p.answer = "saved" /\ p.doc = "metadata"
        BY <2>1 DEF Removed
  <2>3. p.open
        BY <2>2, ExcusesGrow DEF OneOpen
  <2>4. \A q \in posts' : \E r \in posts \ {p} : q.slot = r.slot
        BY <1>3, DeliverEffect DEF Orphan, Alike
  <2>5. \A r \in posts \ {p} : r.slot # p.slot
        BY DEF TypeInv, TypeOK
  <2> QED BY <2>2, <2>3, <2>4, <2>5
<1>4. ASSUME NEW u \in Tabs, ShowRules(u) \/ \E k \in Keys : ShowMetadata(u, k) PROVE FALSE
  <2>1. Changes(u, dialog'[u]) /\ dialog'[u].phase = "ready"
        BY <1>4, ShowRulesEffect, ShowMetadataEffect
  <2> QED BY <1>a, <2>1
<1>5. ASSUME (\E p \in posts : Handled(p)) \/ Inside PROVE FALSE
  <2>1. dialog' = dialog
        BY <1>5, HandledEffect, InsideEffect
  <2> QED BY <2>1 DEF IsOpen
<1> QED BY <1>1, <1>2, <1>3, <1>4, <1>5, NextCases DEF Page

(* A dialog is closed by its administrator, by the answer to its own post, *)
(* or by the reload of its page after an error answer, and by nothing else. *)
THEOREM AnswersAreOwn == Spec => AnswersCloseTheirOwn
<1> DEFINE Own == excuses' \cap {"abandoned", "again"} = {} =>
                    \A t \in Tabs : IsOpen(t) /\ ~IsOpen(t)' =>
                      \/ CloseDialog(t) \/ OkRules(t) \/ PageReloaded(t)
                      \/ \E p \in posts : /\ p.tab = t /\ p.open /\ p.answer = "saved"
                                          /\ \A q \in posts' : q.slot # p.slot
<1>1. Init => TypeInv /\ OneOpen
      BY InitInv DEF Inv
<1>2. TypeInv /\ OneOpen /\ [Next]_vars => (TypeInv /\ OneOpen)'
      BY TypeStep, OneOpenStep
<1>3. TypeInv /\ OneOpen /\ [Next]_vars => [Own]_vars
      BY OwnAnswer
<1> QED BY <1>1, <1>2, <1>3, PTL DEF Spec, AnswersCloseTheirOwn

------------------------------------------------------------------------------
(* One dialog or unanswered post per document.                             *)
LEMMA CarefulBefore ==
  ASSUME [Next]_vars, Careful'
  PROVE  Careful /\ excuses' \cap {"early", "unsaved", "raced"} = {} /\ "again" \notin excuses'
                 /\ "overlap" \notin excuses'
BY ExcusesGrow DEF Careful

LEMMA AloneStep == TypeInv /\ Alone /\ [Next]_vars => Alone'
<1> SUFFICES ASSUME TypeInv, Alone, [Next]_vars, Careful'
             PROVE  OneDialog' /\ OwnPost' /\ OnePost'
    BY DEF Alone
<1> DEFINE Goal == OneDialog' /\ OwnPost' /\ OnePost'
<1>0. OneDialog /\ OwnPost /\ OnePost
      BY CarefulBefore DEF Alone
<1>a. ASSUME NEW t \in Tabs, Changes(t, dialog'[t]), Unique(posts'),
             dialog'[t].phase = "closed" \/ (dialog'[t].doc = dialog[t].doc /\ IsOpen(t)),
             \A q \in posts' : q.answer = "none" => \E p \in posts :
               /\ Alike(q, p) /\ p.answer = "none"
               /\ q.tab = p.tab \/ (p.tab = t /\ dialog'[t].phase = "closed")
               /\ p.open => q.open \/ (p.tab = t /\ dialog'[t].phase = "closed")
      PROVE  Goal
  <2>1. \A u \in Tabs : IsOpen(u)' => IsOpen(u) /\ dialog'[u].doc = dialog[u].doc
        BY <1>a DEF Changes, IsOpen
  <2>2. OneDialog'
        BY <1>0, <2>1 DEF OneDialog, IsOpen
  <2>3. OwnPost'
    <3> SUFFICES ASSUME NEW q \in posts', NEW u \in Tabs,
                        q.answer = "none", IsOpen(u)', dialog'[u].doc = q.doc
                 PROVE  q.open /\ q.tab = u
        BY DEF OwnPost, IsOpen
    <3>1. PICK p \in posts : /\ Alike(q, p) /\ p.answer = "none"
                             /\ q.tab = p.tab \/ (p.tab = t /\ dialog'[t].phase = "closed")
                             /\ p.open => q.open \/ (p.tab = t /\ dialog'[t].phase = "closed")
          BY <1>a
    <3>2. p.open /\ p.tab = u
          BY <1>0, <2>1, <3>1 DEF OwnPost, Alike
    <3> QED BY <3>1, <3>2 DEF IsOpen
  <2>4. OnePost'
        BY <1>0, <1>a DEF OnePost, Alike, Unique
  <2> QED BY <2>2, <2>3, <2>4
<1>b. ASSUME NEW t \in Tabs, Changes(t, dialog'[t]), Keeps(t), IsOpen(t), posts' = posts
      PROVE  Goal
  <2>1. Unique(posts') /\ \A q \in posts' : \E p \in posts : /\ Alike(q, p) /\ q = p
        BY <1>b DEF TypeInv, TypeOK, Unique, Alike
  <2> QED BY <1>a, <1>b, <2>1 DEF Keeps
<1>1. ASSUME NEW t \in Tabs, Administrator(t) PROVE Goal
  <2>1. ASSUME NEW d \in Docs, OpenDialog(t, d) PROVE Goal
    <3>1. Changes(t, dialog'[t]) /\ dialog'[t].doc = d /\ posts' = posts
          BY <2>1, OpenEffect DEF OpenDialog
    <3>2. ~Unhandled(d) /\ \A u \in Tabs : IsOpen(u) => dialog[u].doc # d
          BY <2>1, CarefulBefore DEF OpenDialog, If
    <3>3. OneDialog'
          BY <1>0, <3>1, <3>2 DEF OneDialog, Changes, IsOpen
    <3>4. OwnPost'
          BY <1>0, <3>1, <3>2 DEF OwnPost, Changes, IsOpen, Unhandled
    <3>5. OnePost'
          BY <1>0, <3>1 DEF OnePost
    <3> QED BY <3>3, <3>4, <3>5
  <2>2. ASSUME NEW k \in Keys, NEW v \in Values \cup {Blank}, EditRow(t, k, v) PROVE Goal
        BY <1>b, <2>2, EditRowEffect DEF EditRow, IsReady, IsOpen
  <2>3. ASSUME NEW v \in Values, Type(t, v) PROVE Goal
        BY <1>b, <2>3, TypeEffect DEF Type, IsReady, IsOpen
  <2>4. ASSUME NEW k \in Keys, SelectProvider(t, k) PROVE Goal
        BY <1>b, <2>4, SelectEffect DEF SelectProvider, IsReady, IsOpen
  <2>5. CASE CloseDialog(t)
    <3>1. Unique(posts') /\ \A q \in posts' : \E p \in posts : Orphan(q, p, {t})
          BY <2>5, CloseDialogPosts
    <3>2. Changes(t, dialog'[t]) /\ dialog'[t].phase = "closed"
          BY <2>5, CloseDialogEffect
    <3>3. \A q \in posts' : q.answer = "none" => \E p \in posts :
            /\ Alike(q, p) /\ p.answer = "none"
            /\ q.tab = p.tab
            /\ p.open => q.open \/ p.tab = t
          BY <3>1 DEF Orphan
    <3> QED BY <1>a, <3>1, <3>2, <3>3
  <2>6. CASE OkRules(t)
    <3>1. PICK n : Sent(t, n)
          BY <2>6, OkRulesSends
    <3>2. Changes(t, dialog'[t]) /\ dialog'[t].phase = "closed" /\ dialog[t].doc = "rules" /\ IsOpen(t)
          BY <2>6, CloseDialogEffect DEF OkRules
    <3>3. \A u \in Tabs : IsOpen(u)' => IsOpen(u) /\ u # t /\ dialog'[u].doc = dialog[u].doc
          BY <3>2 DEF Changes, IsOpen
    <3>4. OneDialog'
          BY <1>0, <3>3 DEF OneDialog, IsOpen
    <3>5. \A u \in Tabs : IsOpen(u)' => dialog'[u].doc # n.doc
          BY <1>0, <3>1, <3>2, <3>3 DEF OneDialog, Sent
    <3>6. \A p \in posts : p.answer = "none" => p.doc # n.doc
          BY <1>0, <3>1, <3>2 DEF OwnPost, Sent, TypeInv, Owned
    <3>7. OwnPost'
          BY <1>0, <3>1, <3>3, <3>5 DEF OwnPost, Sent, IsOpen
    <3>8. OnePost'
          BY <1>0, <3>1, <3>6 DEF OnePost, Sent
    <3> QED BY <3>4, <3>7, <3>8
  <2>7. CASE OkMetadata(t)
    <3>1. PICK n : Sent(t, n) /\ n.open = TRUE
          BY <2>7, OkMetadataSends
    <3>2. Changes(t, dialog'[t]) /\ Keeps(t) /\ IsOpen(t)
          BY <2>7, OkMetadataEffect DEF OkMetadata
    <3>3. \A p \in posts : p.open => p.tab # t
          BY <3>1, CarefulBefore DEF Sent, If
    <3>4. \A u \in Tabs : IsOpen(u)' => IsOpen(u) /\ dialog'[u].doc = dialog[u].doc
          BY <3>2 DEF Changes, Keeps, IsOpen
    <3>5. OneDialog'
          BY <1>0, <3>4 DEF OneDialog, IsOpen
    <3>6. \A p \in posts : p.answer = "none" => p.doc # n.doc
          BY <1>0, <3>1, <3>2, <3>3 DEF OwnPost, Sent
    <3>7. \A u \in Tabs : IsOpen(u) /\ dialog[u].doc = n.doc => u = t
          BY <1>0, <3>1, <3>2 DEF OneDialog, Sent
    <3>8. OwnPost'
          BY <1>0, <3>1, <3>4, <3>7 DEF OwnPost, Sent, IsOpen
    <3>9. OnePost'
          BY <1>0, <3>1, <3>6 DEF OnePost, Sent
    <3> QED BY <3>5, <3>8, <3>9
  <2> QED BY <1>1, <2>1, <2>2, <2>3, <2>4, <2>5, <2>6, <2>7 DEF Administrator
<1>2. ASSUME NEW t \in Tabs, Page(t) PROVE Goal
  <2>1. ASSUME NEW k \in Keys, ShowMetadata(t, k) PROVE Goal
    <3>1. Changes(t, dialog'[t]) /\ dialog'[t].doc = dialog[t].doc /\ IsOpen(t) /\ posts' = posts
          BY <2>1, ShowMetadataEffect DEF IsOpen, ShowMetadata
    <3>2. OneDialog' /\ OwnPost'
          BY <1>0, <3>1 DEF OneDialog, OwnPost, Changes, IsOpen
    <3> QED BY <1>0, <3>1, <3>2 DEF OnePost
  <2>2. CASE ShowRules(t)
    <3>1. Changes(t, dialog'[t]) /\ dialog'[t].doc = dialog[t].doc /\ IsOpen(t) /\ posts' = posts
          BY <2>2, ShowRulesEffect DEF IsOpen, ShowRules
    <3>2. OneDialog' /\ OwnPost'
          BY <1>0, <3>1 DEF OneDialog, OwnPost, Changes, IsOpen
    <3> QED BY <1>0, <3>1, <3>2 DEF OnePost
  <2>3. CASE Reload(t)
    <3>1. Unique(posts') /\ \A q \in posts' : \E p \in posts : Renamed(q, p, t)
          BY <2>3, ReloadEffect DEF TypeInv
    <3>2. Changes(t, dialog'[t]) /\ dialog'[t].phase = "closed"
          BY <2>3, CloseDialogEffect
    <3> QED BY <1>a, <3>1, <3>2 DEF Renamed
  <2>4. ASSUME NEW p \in posts, Deliver(p) PROVE Goal
    <3>1. /\ \A u \in Tabs \ Removed(p) : dialog'[u] = dialog[u]
          /\ \A u \in Removed(p) : dialog'[u].phase = "closed"
          /\ Unique(posts') /\ \A q \in posts' : \E r \in posts \ {p} : Orphan(q, r, Removed(p))
          BY <2>4, DeliverEffect
    <3>2. \A u \in Tabs : IsOpen(u)' => IsOpen(u) /\ u \notin Removed(p) /\ dialog'[u].doc = dialog[u].doc
          BY <3>1 DEF IsOpen
    <3>3. OneDialog'
          BY <1>0, <3>2 DEF OneDialog, IsOpen
    <3>4. OwnPost'
      <4> SUFFICES ASSUME NEW q \in posts', NEW u \in Tabs,
                          q.answer = "none", IsOpen(u)', dialog'[u].doc = q.doc
                   PROVE  q.open /\ q.tab = u
          BY DEF OwnPost, IsOpen
      <4>1. PICK r \in posts : Orphan(q, r, Removed(p))
            BY <3>1
      <4>2. r.open /\ r.tab = u
            BY <1>0, <3>2, <4>1 DEF OwnPost, Orphan, Alike
      <4> QED BY <3>2, <4>1, <4>2 DEF Orphan
    <3>5. OnePost'
          BY <1>0, <3>1 DEF OnePost, Orphan, Alike, Unique
    <3> QED BY <3>3, <3>4, <3>5
  <2> QED BY <1>2, <2>1, <2>2, <2>3, <2>4 DEF Page
<1>3. ASSUME NEW p \in posts, Handled(p) PROVE Goal
  <2>1. dialog' = dialog /\ \A q \in posts' : q.answer = "none" => q \in posts
        BY <1>3, HandledEffect
  <2> QED BY <1>0, <2>1 DEF OneDialog, OwnPost, OnePost, IsOpen
<1>4. CASE Inside
  <2>1. dialog' = dialog /\ posts' = posts
        BY <1>4, InsideEffect
  <2> QED BY <1>0, <2>1 DEF OneDialog, OwnPost, OnePost, IsOpen
<1> QED BY <1>1, <1>2, <1>3, <1>4, NextCases

------------------------------------------------------------------------------
(* Dialogs and posts show what the server has, but for what was changed.   *)
LEMMA WrittenForm ==
  ASSUME Inv, [Next]_vars, Careful', NEW p \in posts, Written(p)
  PROVE  /\ disk'[p.doc] = p.form
         /\ \A d \in Docs \ {p.doc} : disk'[d] = disk[d]
         /\ disk' = [disk EXCEPT ![p.doc] = p.form]
BY CarefulBefore, WrittenEffect, ExcusesGrow DEF Inv, Complete

(* What a dialog is shown is what the file is.                             *)
LEMMA AskedIsSaved ==
  ASSUME Inv, Careful, NEW t \in Tabs, dialog[t].phase = "asked"
  PROVE  memory[dialog[t].doc] = disk[dialog[t].doc]
<1>1. OwnPost /\ (\A p \in posts : Known(p)) /\ Coherent /\ TypeInv
      BY DEF Inv, Alone, Faithful, Complete, Careful
<1>2. \A p \in posts : p.doc = dialog[t].doc => ~InHand(p)
  <2> SUFFICES ASSUME NEW p \in posts, p.doc = dialog[t].doc, InHand(p) PROVE FALSE
      OBVIOUS
  <2>1. p.answer = "none"
        BY <1>1, InHandUnanswered
  <2>2. p.open /\ p.tab = t
        BY <1>1, <2>1 DEF OwnPost, IsOpen
  <2> QED BY <1>1, <2>2 DEF Known
<1>3. dialog[t].doc \in Docs
      BY <1>1 DEF TypeInv, TypeOK, Dialogs
<1> QED BY <1>1, <1>2, <1>3 DEF Coherent, Handling

Continues(q, p, t) == /\ Alike(q, p) /\ q.answer = p.answer
                      /\ q.open => /\ p.open /\ q.tab = p.tab
                                   /\ \/ p.tab # t
                                      \/ /\ dialog[t].touched \subseteq dialog'[t].touched
                                         /\ dialog[t].phase = "ready" => dialog'[t].phase = "ready"

LEMMA FaithfulStep == Inv /\ [Next]_vars => Faithful'
<1> SUFFICES ASSUME Inv, [Next]_vars, Careful'
             PROVE  /\ \A t \in Tabs : FaithfulDialog(t)'
                    /\ \A p \in posts' : FaithfulPost(p)' /\ Known(p)'
    BY DEF Faithful, FaithfulPost, Known
<1> DEFINE Goal == /\ \A t \in Tabs : FaithfulDialog(t)'
                   /\ \A p \in posts' : FaithfulPost(p)' /\ Known(p)'
<1>t. TypeInv
      BY DEF Inv
<1>0. /\ \A t \in Tabs : FaithfulDialog(t)
      /\ \A p \in posts : FaithfulPost(p) /\ Known(p)
      BY CarefulBefore DEF Inv, Faithful
<1>a. ASSUME NEW t \in Tabs, Changes(t, dialog'[t]), disk' = disk, FaithfulDialog(t)',
             \A q \in posts' : (FaithfulPost(q)' /\ Known(q)')
                               \/ \E p \in posts : Continues(q, p, t)
      PROVE  Goal
  <2>1. \A u \in Tabs : FaithfulDialog(u)'
        BY <1>0, <1>a DEF Changes, FaithfulDialog, Shown
  <2>2. \A q \in posts' : FaithfulPost(q)'
        BY <1>0, <1>a DEF FaithfulPost, Continues, Alike
  <2>3. \A q \in posts' : Known(q)'
    <3> SUFFICES ASSUME NEW q \in posts', NEW p \in posts, Alike(q, p), q.open,
                        p.open /\ q.tab = p.tab,
                        \/ p.tab # t
                        \/ /\ dialog[t].touched \subseteq dialog'[t].touched
                           /\ dialog[t].phase = "ready" => dialog'[t].phase = "ready"
                 PROVE  q.touched \subseteq dialog'[q.tab].touched /\ dialog'[q.tab].phase = "ready"
        BY <1>a DEF Known, Continues
    <3>1. p.touched \subseteq dialog[p.tab].touched /\ dialog[p.tab].phase = "ready" /\ p.tab \in Tabs
          BY <1>0, <1>t DEF Known, TypeInv, TypeOK
    <3> QED BY <1>a, <3>1 DEF Alike, Changes
  <2> QED BY <2>1, <2>2, <2>3
<1>b. ASSUME NEW t \in Tabs, Changes(t, dialog'[t]), disk' = disk, FaithfulDialog(t)',
             posts' = posts, \/ /\ dialog[t].touched \subseteq dialog'[t].touched
                                /\ dialog[t].phase = "ready" => dialog'[t].phase = "ready"
                             \/ ~IsOpen(t)
      PROVE  Goal
  <2>1. \A p \in posts : p.open => IsOpen(p.tab)
        BY <1>t DEF TypeInv, TypeOK
  <2> QED BY <1>a, <1>b, <2>1 DEF Continues, Alike
<1>c. \A u \in Tabs : dialog'[u].phase = "closed" => FaithfulDialog(u)'
      BY DEF FaithfulDialog
<1>d. \A t \in Tabs : dialog[t] \in Dialogs
      BY <1>t DEF TypeInv, TypeOK
<1>1. ASSUME NEW t \in Tabs, Administrator(t) PROVE Goal
  <2>1. ASSUME NEW d \in Docs, OpenDialog(t, d) PROVE Goal
    <3>1. Changes(t, dialog'[t]) /\ FaithfulDialog(t)'
          BY <1>t, <2>1, OpenEffect DEF FaithfulDialog
    <3> QED BY <1>b, <2>1, <3>1 DEF OpenDialog, server
  <2>2. ASSUME NEW k \in Keys, NEW v \in Values \cup {Blank}, EditRow(t, k, v) PROVE Goal
    <3>1. /\ Changes(t, dialog'[t]) /\ Keeps(t)
          /\ dialog'[t].form = [dialog[t].form EXCEPT ![k] = v]
          /\ dialog'[t].typed = [dialog[t].typed EXCEPT ![k] = v]
          /\ dialog'[t].touched = dialog[t].touched \cup {k}
          BY <1>t, <2>2, EditRowEffect
    <3>2. dialog[t].doc = "rules" /\ disk' = disk /\ posts' = posts
          BY <2>2 DEF EditRow, IsReady, server
    <3>3. \A j \in Keys : /\ Shown(t, j)' = IF j = k THEN v ELSE Shown(t, j)
                          /\ dialog'[t].typed[j] = IF j = k THEN v ELSE dialog[t].typed[j]
      <4>1. dialog[t].form \in Contents /\ dialog[t].typed \in Contents
            BY <1>d DEF Dialogs
      <4> QED BY <3>1, <3>2, <4>1 DEF Keeps, Shown, Contents
    <3>4. FaithfulDialog(t)'
      <4> SUFFICES ASSUME dialog'[t].phase = "ready", NEW j \in Keys
                   PROVE  /\ Shown(t, j)' = dialog'[t].typed[j]
                          /\ j \notin dialog'[t].touched =>
                               dialog'[t].typed[j] = disk'[dialog'[t].doc][j]
          BY DEF FaithfulDialog
      <4>1. /\ Shown(t, j) = dialog[t].typed[j]
            /\ j \notin dialog[t].touched => dialog[t].typed[j] = disk[dialog[t].doc][j]
            BY <1>0, <3>1 DEF FaithfulDialog, Keeps
      <4>2. dialog'[t].doc = dialog[t].doc
            BY <3>1 DEF Keeps
      <4>3. disk'[dialog'[t].doc] = disk[dialog[t].doc]
            BY <3>2, <4>2
      <4> QED BY <3>1, <3>3, <4>1, <4>3
    <3>5. dialog[t].phase = "ready" => dialog'[t].phase = "ready"
          BY <3>1 DEF Keeps
    <3> QED BY <1>b, <3>1, <3>2, <3>4, <3>5
  <2>3. ASSUME NEW v \in Values, Type(t, v) PROVE Goal
    <3>1. /\ Changes(t, dialog'[t]) /\ Keeps(t)
          /\ dialog[t].current \in Keys
          /\ dialog'[t].form = dialog[t].form
          /\ dialog'[t].typed = [dialog[t].typed EXCEPT ![dialog[t].current] = v]
          /\ dialog'[t].touched = dialog[t].touched \cup {dialog[t].current}
          /\ dialog'[t].current = dialog[t].current
          /\ dialog'[t].editor = v
          BY <1>t, <2>3, TypeEffect
    <3>2. dialog[t].doc = "metadata" /\ disk' = disk /\ posts' = posts
          BY <2>3 DEF Type, IsReady, server
    <3>3. \A j \in Keys :
            /\ Shown(t, j)' = IF j = dialog[t].current THEN v ELSE Shown(t, j)
            /\ dialog'[t].typed[j] = IF j = dialog[t].current THEN v ELSE dialog[t].typed[j]
      <4>1. dialog[t].form \in Contents /\ dialog[t].typed \in Contents
            BY <1>d DEF Dialogs
      <4> QED BY <3>1, <3>2, <4>1 DEF Keeps, Shown, Contents
    <3>4. FaithfulDialog(t)'
      <4> SUFFICES ASSUME dialog'[t].phase = "ready", NEW j \in Keys
                   PROVE  /\ Shown(t, j)' = dialog'[t].typed[j]
                          /\ j \notin dialog'[t].touched =>
                               dialog'[t].typed[j] = disk'[dialog'[t].doc][j]
          BY DEF FaithfulDialog
      <4>1. /\ Shown(t, j) = dialog[t].typed[j]
            /\ j \notin dialog[t].touched => dialog[t].typed[j] = disk[dialog[t].doc][j]
            BY <1>0, <3>1 DEF FaithfulDialog, Keeps
      <4>2. dialog'[t].doc = dialog[t].doc
            BY <3>1 DEF Keeps
      <4>3. disk'[dialog'[t].doc] = disk[dialog[t].doc]
            BY <3>2, <4>2
      <4> QED BY <3>1, <3>3, <4>1, <4>3
    <3>5. dialog[t].phase = "ready" => dialog'[t].phase = "ready"
          BY <3>1 DEF Keeps
    <3> QED BY <1>b, <3>1, <3>2, <3>4, <3>5
  <2>4. ASSUME NEW k \in Keys, SelectProvider(t, k) PROVE Goal
    <3>1. /\ Changes(t, dialog'[t]) /\ Keeps(t)
          /\ dialog'[t].form = Stored(t)
          /\ dialog'[t].typed = dialog[t].typed
          /\ dialog'[t].touched = dialog[t].touched
          /\ dialog'[t].current = k
          /\ dialog'[t].editor = dialog[t].form[k]
          BY <1>t, <2>4, SelectEffect
    <3>2. IsReady(t, "metadata") /\ k # dialog[t].current /\ disk' = disk /\ posts' = posts
          BY <2>4 DEF SelectProvider, server
    <3>3. \A j \in Keys : Stored(t)[j] = Shown(t, j)
          BY <1>t, <3>2, StoredType
    <3>4. \A j \in Keys : Shown(t, j)' = Shown(t, j)
          BY <3>1, <3>2, <3>3 DEF Shown, IsReady, Keeps
    <3>5. FaithfulDialog(t)'
          BY <1>0, <3>1, <3>2, <3>4 DEF Keeps, FaithfulDialog
    <3>6. dialog[t].phase = "ready" => dialog'[t].phase = "ready"
          BY <3>1 DEF Keeps
    <3> QED BY <1>b, <3>1, <3>2, <3>5, <3>6
  <2>5. CASE CloseDialog(t)
    <3>1. \A q \in posts' : \E p \in posts : Orphan(q, p, {t})
          BY <1>t, <2>5, CloseDialogPosts
    <3>2. Changes(t, dialog'[t]) /\ dialog'[t].phase = "closed" /\ disk' = disk
          BY <1>t, <2>5, CloseDialogEffect DEF CloseDialog, server
    <3>3. \A q \in posts' : \E p \in posts : Continues(q, p, t)
          BY <3>1 DEF Orphan, Continues
    <3>4. FaithfulDialog(t)'
          BY <1>c, <3>2
    <3> QED BY <1>a, <3>2, <3>3, <3>4, Zenon
  <2>6. CASE OkRules(t)
    <3>1. PICK n : Sent(t, n) /\ n.form = dialog[t].form /\ n.open = FALSE
          BY <1>t, <2>6, OkRulesSends
    <3>2. /\ Changes(t, dialog'[t]) /\ dialog'[t].phase = "closed"
          /\ dialog[t].doc = "rules" /\ disk' = disk
          BY <1>t, <2>6, CloseDialogEffect DEF OkRules, server
    <3>3. dialog[t].phase = "ready"
          BY <3>1, CarefulBefore DEF Sent, If
    <3>4. FaithfulPost(n)' /\ Known(n)'
          BY <1>0, <3>1, <3>2, <3>3 DEF FaithfulPost, FaithfulDialog, Known, Sent, Shown
    <3>5. \A p \in posts : p.open => p.tab # t
          BY <1>t, <3>2 DEF TypeInv, Owned
    <3>6. \A q \in posts' : (FaithfulPost(q)' /\ Known(q)') \/ q \in posts
          BY <3>1, <3>4 DEF Sent
    <3> QED BY <1>a, <1>c, <3>2, <3>5, <3>6 DEF Continues, Alike
  <2>7. CASE OkMetadata(t)
    <3>1. PICK n : Sent(t, n) /\ n.form = Stored(t) /\ n.open = TRUE
          BY <1>t, <2>7, OkMetadataSends
    <3>2. /\ Changes(t, dialog'[t]) /\ Keeps(t)
          /\ dialog'[t].form = Stored(t)
          /\ dialog'[t].typed = dialog[t].typed
          /\ dialog'[t].touched = dialog[t].touched
          /\ dialog'[t].current = dialog[t].current
          /\ dialog'[t].editor = dialog[t].editor
          BY <1>t, <2>7, OkMetadataEffect
    <3>3. IsReady(t, "metadata") /\ disk' = disk
          BY <2>7, <3>1, CarefulBefore DEF OkMetadata, Sent, If, IsReady, server
    <3>4. \A j \in Keys : Stored(t)[j] = Shown(t, j)
          BY <1>t, <3>3, StoredType
    <3>5. \A j \in Keys : Shown(t, j)' = Shown(t, j)
          BY <3>2, <3>3, <3>4 DEF Shown, IsReady, Keeps
    <3>6. FaithfulDialog(t)'
          BY <1>0, <3>2, <3>3, <3>5 DEF Keeps, FaithfulDialog
    <3>7. FaithfulPost(n)'
          BY <1>0, <3>1, <3>3, <3>4 DEF FaithfulPost, FaithfulDialog, IsReady, Sent
    <3>8. Known(n)'
          BY <3>1, <3>2, <3>3 DEF Known, Sent, Keeps, IsReady
    <3>9. \A q \in posts' : (FaithfulPost(q)' /\ Known(q)') \/ q \in posts
          BY <3>1, <3>7, <3>8 DEF Sent
    <3>10. \A q \in posts : Continues(q, q, t)
          BY <3>2 DEF Continues, Alike, Keeps
    <3> QED BY <1>a, <3>2, <3>3, <3>6, <3>9, <3>10
  <2> QED BY <1>1, <2>1, <2>2, <2>3, <2>4, <2>5, <2>6, <2>7 DEF Administrator
<1>2. ASSUME NEW t \in Tabs, Page(t) PROVE Goal
  <2>1. ASSUME NEW k \in Keys, ShowMetadata(t, k) PROVE Goal
    <3>1. /\ Changes(t, dialog'[t]) /\ dialog'[t].doc = "metadata"
          /\ dialog'[t].form = memory["metadata"] /\ dialog'[t].typed = memory["metadata"]
          /\ dialog'[t].touched = dialog[t].touched
          /\ dialog'[t].current = k
          /\ dialog'[t].editor = memory["metadata"][k]
          /\ dialog[t].doc = "metadata" /\ dialog[t].phase = "asked" /\ dialog'[t].phase = "ready"
          BY <1>t, <2>1, ShowMetadataEffect
    <3>4. memory["metadata"] = disk["metadata"]
          BY <3>1, CarefulBefore, AskedIsSaved
    <3>2. disk' = disk /\ posts' = posts
          BY <2>1 DEF ShowMetadata, server
    <3>3. FaithfulDialog(t)'
          BY <3>1, <3>2, <3>4 DEF FaithfulDialog, Shown
    <3> QED BY <1>b, <3>1, <3>2, <3>3
  <2>2. CASE ShowRules(t)
    <3>1. /\ Changes(t, dialog'[t]) /\ dialog'[t].doc = "rules"
          /\ dialog'[t].form = memory["rules"] /\ dialog'[t].typed = memory["rules"]
          /\ dialog'[t].touched = dialog[t].touched
          /\ dialog[t].doc = "rules" /\ dialog[t].phase = "asked" /\ dialog'[t].phase = "ready"
          BY <1>t, <2>2, ShowRulesEffect
    <3>4. memory["rules"] = disk["rules"]
          BY <3>1, CarefulBefore, AskedIsSaved
    <3>2. disk' = disk /\ posts' = posts
          BY <2>2 DEF ShowRules, server
    <3>3. FaithfulDialog(t)'
          BY <3>1, <3>2, <3>4 DEF FaithfulDialog, Shown
    <3> QED BY <1>b, <3>1, <3>2, <3>3
  <2>3. CASE Reload(t)
    <3>1. \A q \in posts' : \E p \in posts : Renamed(q, p, t)
          BY <1>t, <2>3, ReloadEffect DEF TypeInv
    <3>2. Changes(t, dialog'[t]) /\ dialog'[t].phase = "closed" /\ disk' = disk
          BY <1>t, <2>3, CloseDialogEffect DEF Reload, server
    <3>3. \A q \in posts' : \E p \in posts : Continues(q, p, t)
          BY <3>1 DEF Renamed, Continues
    <3>4. FaithfulDialog(t)'
          BY <1>c, <3>2
    <3> QED BY <1>a, <3>2, <3>3, <3>4, Zenon
  <2>4. ASSUME NEW p \in posts, Deliver(p) PROVE Goal
    <3>1. /\ \A u \in Tabs \ Removed(p) : dialog'[u] = dialog[u]
          /\ \A u \in Removed(p) : dialog'[u].phase = "closed"
          /\ \A q \in posts' : \E r \in posts \ {p} : Orphan(q, r, Removed(p))
          BY <1>t, <2>4, DeliverEffect
    <3>2. disk' = disk
          BY <2>4 DEF Deliver, server
    <3>3. \A u \in Tabs : FaithfulDialog(u)'
          BY <1>0, <1>c, <3>1, <3>2 DEF FaithfulDialog, Shown
    <3>4. \A q \in posts' : FaithfulPost(q)'
          BY <1>0, <3>1, <3>2 DEF FaithfulPost, Orphan, Alike
    <3>5. \A q \in posts' : Known(q)'
      <4> SUFFICES ASSUME NEW q \in posts', q.open
                   PROVE  q.touched \subseteq dialog'[q.tab].touched /\ dialog'[q.tab].phase = "ready"
          BY DEF Known
      <4>1. PICK r \in posts : Alike(q, r) /\ r.open /\ r.tab \notin Removed(p) /\ q.tab = r.tab
            BY <3>1 DEF Orphan
      <4>2. r.touched \subseteq dialog[r.tab].touched /\ dialog[r.tab].phase = "ready" /\ r.tab \in Tabs
            BY <1>0, <1>t, <4>1 DEF Known, TypeInv, TypeOK
      <4> QED BY <3>1, <4>1, <4>2 DEF Alike
    <3> QED BY <3>3, <3>4, <3>5
  <2> QED BY <1>2, <2>1, <2>2, <2>3, <2>4 DEF Page
<1>3. ASSUME NEW p \in posts, Handled(p) PROVE Goal
  <2>0. /\ dialog' = dialog /\ p.answer = "none"
        /\ \A q \in posts' : q.answer = "none" => q \in posts \ {p}
        /\ \A q \in posts' : \E r \in posts : Alike(q, r) /\ q.tab = r.tab /\ (q.open <=> r.open)
        BY <1>3, <1>t, HandledEffect DEF Alike
  <2>1. \A q \in posts' : Known(q)'
        BY <1>0, <2>0 DEF Known, Alike
  <2>2. CASE Written(p)
    <3>1. /\ disk'[p.doc] = p.form
          /\ \A d \in Docs \ {p.doc} : disk'[d] = disk[d]
          BY <2>2, WrittenForm
    <3>2. OwnPost /\ OnePost
          BY CarefulBefore DEF Inv, Alone
    <3>3. ASSUME NEW t \in Tabs PROVE FaithfulDialog(t)'
      <4>1. CASE dialog[t].phase = "ready" /\ dialog[t].doc = p.doc
        <5>1. p.open /\ p.tab = t
              BY <2>0, <3>2, <4>1 DEF OwnPost, IsOpen
        <5>2. \A k \in Keys : k \notin dialog[t].touched => disk'[p.doc][k] = disk[p.doc][k]
              BY <1>0, <2>0, <3>1, <5>1 DEF Known, FaithfulPost
        <5> QED BY <1>0, <2>0, <4>1, <5>2 DEF FaithfulDialog, Shown
      <4>2. CASE dialog[t].doc # p.doc
        <5>1. disk'[dialog[t].doc] = disk[dialog[t].doc]
              BY <1>d, <3>1, <4>2 DEF Dialogs
        <5> QED BY <1>0, <2>0, <5>1 DEF FaithfulDialog, Shown
      <4>3. CASE dialog[t].phase # "ready"
            BY <2>0, <4>3 DEF FaithfulDialog
      <4> QED BY <4>1, <4>2, <4>3
    <3>4. ASSUME NEW q \in posts' PROVE FaithfulPost(q)'
      <4> SUFFICES ASSUME q.answer = "none" PROVE FaithfulPost(q)'
          BY DEF FaithfulPost
      <4>1. q \in posts /\ q # p /\ q.doc \in Docs
            BY <2>0, <1>t DEF TypeInv, TypeOK, Posts
      <4>2. q.doc # p.doc
            BY <2>0, <3>2, <4>1 DEF OnePost
      <4>3. disk'[q.doc] = disk[q.doc]
            BY <3>1, <4>1, <4>2
      <4> QED BY <1>0, <4>1, <4>3 DEF FaithfulPost
    <3> QED BY <2>1, <3>3, <3>4
  <2>3. CASE Refuse(p)
    <3>1. disk' = disk
          BY <2>3 DEF Refuse, server
    <3>2. \A t \in Tabs : FaithfulDialog(t)'
          BY <1>0, <2>0, <3>1 DEF FaithfulDialog, Shown
    <3>3. \A q \in posts' : FaithfulPost(q)'
          BY <1>0, <2>0, <3>1 DEF FaithfulPost
    <3> QED BY <2>1, <3>2, <3>3
  <2>4. CASE SaveFails(p)
        BY <2>4, CarefulBefore DEF SaveFails
  <2> QED BY <1>3, <2>2, <2>3, <2>4 DEF Handled
<1>4. CASE Inside
  <2>1. dialog' = dialog /\ posts' = posts /\ disk' = disk
        BY <1>4, InsideEffect
  <2>2. \A t \in Tabs : FaithfulDialog(t)'
        BY <1>0, <2>1 DEF FaithfulDialog, Shown
  <2>3. \A p \in posts' : FaithfulPost(p)' /\ Known(p)'
        BY <1>0, <2>1 DEF FaithfulPost, Known
  <2> QED BY <2>2, <2>3
<1> QED BY <1>1, <1>2, <1>3, <1>4, NextCases

LEMMA InvStep == Inv /\ [Next]_vars => Inv'
BY TypeStep, CompleteStep, OneOpenStep, AloneStep, FaithfulStep DEF Inv

------------------------------------------------------------------------------
(* The dialogs implement AtomicEdits: sending a post submits an edit, the   *)
(* server applies or drops it, everything else is a stuttering step.       *)
Pending == {EditOf(p) : p \in {q \in posts : q.answer = "none"}}

LEMMA PendingKept ==
  ASSUME \A q \in posts' : \E p \in posts : Alike(q, p) /\ (q.answer = "none" <=> p.answer = "none"),
         \A p \in posts : p.answer = "none" =>
           \E q \in posts' : Alike(q, p) /\ (q.answer = "none" <=> p.answer = "none")
  PROVE  Pending' = Pending
<1>1. \A e \in Pending' : e \in Pending
  <2> TAKE e \in Pending'
  <2>1. PICK q \in posts' : q.answer = "none" /\ e = EditOf(q)
        BY DEF Pending, EditOf
  <2>2. PICK p \in posts : Alike(q, p) /\ p.answer = "none"
        BY <2>1
  <2>3. EditOf(q) = EditOf(p)
        BY <2>2 DEF EditOf, Alike
  <2> QED BY <2>1, <2>2, <2>3 DEF Pending
<1>2. \A e \in Pending : e \in Pending'
  <2> TAKE e \in Pending
  <2>1. PICK p \in posts : p.answer = "none" /\ e = EditOf(p)
        BY DEF Pending
  <2>2. PICK q \in posts' : Alike(q, p) /\ q.answer = "none"
        BY <2>1
  <2>3. EditOf(q) = EditOf(p)
        BY <2>2 DEF EditOf, Alike
  <2> QED BY <2>1, <2>2, <2>3 DEF Pending, EditOf
<1> QED BY <1>1, <1>2

LEMMA PendingSent ==
  ASSUME NEW t \in Tabs, NEW n, Sent(t, n)
  PROVE  Pending' = Pending \cup {EditOf(n)} /\ EditOf(n) \in Pending'
BY DEF Sent, Pending, EditOf

LEMMA PendingAnswered ==
  ASSUME TypeInv, NEW p \in posts, Handled(p)
  PROVE  Pending' = Pending \ {EditOf(p)} /\ EditOf(p) \in Pending
<1>1. /\ p.answer = "none"
      /\ \A q \in posts' : q.answer = "none" => q \in posts \ {p}
      /\ \A q \in posts \ {p} : q \in posts'
      BY HandledEffect
<1>2. \A q \in posts \ {p} : EditOf(q) # EditOf(p)
  <2> TAKE q \in posts \ {p}
  <2>1. q.slot # p.slot
        BY DEF TypeInv, TypeOK
  <2>2. EditOf(q).slot = q.slot /\ EditOf(p).slot = p.slot
        BY DEF EditOf
  <2> QED BY <2>1, <2>2
<1>3. \A e : e \in Pending' <=> \E q \in posts \ {p} : q.answer = "none" /\ e = EditOf(q)
      BY <1>1 DEF Pending, EditOf
<1>4. \A e : e \in Pending <=> \E q \in posts : q.answer = "none" /\ e = EditOf(q)
      BY DEF Pending
<1>5. \A e : e \in Pending' <=> e \in Pending /\ e # EditOf(p)
      BY <1>2, <1>3, <1>4
<1> QED BY <1>1, <1>4, <1>5

LEMMA EditApplied ==
  ASSUME TypeInv, NEW p \in posts, p.answer = "none", FaithfulPost(p)
  PROVE  Edits!Edited(disk[p.doc], EditOf(p)) = p.form
<1>1. p.form \in Contents
      BY DEF TypeInv, TypeOK, Posts
<1>2. EditOf(p).keys = p.touched /\ EditOf(p).to = p.typed
      BY DEF EditOf
<1> QED BY <1>1, <1>2 DEF Edits!Edited, FaithfulPost, Contents

LEMMA EditStep ==
  ASSUME Inv, [Next]_vars, Careful'
  PROVE  Edits!Next \/ UNCHANGED Edits!vars
<1> DEFINE Goal == Edits!Next \/ UNCHANGED Edits!vars
<1>t. TypeInv
      BY DEF Inv
<1>u. disk' = disk /\ Pending' = Pending => Goal
      BY DEF Pending, Edits!vars
<1>s. ASSUME disk' = disk, NEW e \in Pending', Pending' = Pending \cup {e} PROVE Goal
      BY <1>s DEF Pending, Edits!Next, Edits!Submit
<1>1. ASSUME NEW t \in Tabs, Administrator(t) PROVE Goal
  <2>1. CASE CloseDialog(t)
    <3>1. /\ \A q \in posts' : \E p \in posts : Orphan(q, p, {t})
          /\ \A p \in posts : \E q \in posts' : Orphan(q, p, {t})
          BY <1>t, <2>1, CloseDialogPosts
    <3>2. Pending' = Pending
          BY <3>1, PendingKept DEF Orphan
    <3> QED BY <1>u, <2>1, <3>2 DEF CloseDialog, server
  <2>2. CASE OkRules(t) \/ OkMetadata(t)
    <3>1. PICK n : Sent(t, n)
          BY <1>t, <2>2, OkRulesSends, OkMetadataSends
    <3>2. Pending' = Pending \cup {EditOf(n)} /\ EditOf(n) \in Pending'
          BY <3>1, PendingSent
    <3> QED BY <1>s, <2>2, <3>2 DEF OkRules, OkMetadata, server
  <2>3. ASSUME \/ \E d \in Docs : OpenDialog(t, d)
               \/ \E k \in Keys, v \in Values \cup {Blank} : EditRow(t, k, v)
               \/ \E v \in Values : Type(t, v)
               \/ \E k \in Keys : SelectProvider(t, k)
        PROVE  disk' = disk /\ posts' = posts
        BY <2>3 DEF OpenDialog, EditRow, Type, SelectProvider, server
  <2> QED BY <1>u, <1>1, <2>1, <2>2, <2>3 DEF Administrator, Pending, EditOf
<1>2. ASSUME NEW t \in Tabs, Page(t) PROVE Goal
  <2>1. CASE Reload(t)
    <3>1. /\ \A q \in posts' : \E p \in posts : Renamed(q, p, t)
          /\ \A p \in posts : \E q \in posts' : Renamed(q, p, t)
          BY <1>t, <2>1, ReloadEffect DEF TypeInv
    <3>2. Pending' = Pending
          BY <3>1, PendingKept DEF Renamed
    <3> QED BY <1>u, <2>1, <3>2 DEF Reload, server
  <2>2. ASSUME NEW p \in posts, Deliver(p) PROVE Goal
    <3>1. /\ \A q \in posts' : \E r \in posts \ {p} : Orphan(q, r, Removed(p))
          /\ \A r \in posts \ {p} : \E q \in posts' : Orphan(q, r, Removed(p))
          BY <1>t, <2>2, DeliverEffect
    <3>2. p.answer # "none" /\ disk' = disk
          BY <2>2 DEF Deliver, server
    <3>3. Pending' = Pending
          BY <3>1, <3>2, PendingKept DEF Orphan
    <3> QED BY <1>u, <3>2, <3>3
  <2>3. ASSUME ShowRules(t) \/ \E k \in Keys : ShowMetadata(t, k)
        PROVE  disk' = disk /\ posts' = posts
        BY <2>3 DEF ShowRules, ShowMetadata, server
  <2> QED BY <1>u, <1>2, <2>1, <2>2, <2>3 DEF Page, Pending, EditOf
<1>3. ASSUME NEW p \in posts, Handled(p) PROVE Goal
  <2>1. Pending' = Pending \ {EditOf(p)} /\ EditOf(p) \in Pending
        BY <1>t, <1>3, PendingAnswered
  <2>2. CASE Written(p)
    <3>1. disk' = [disk EXCEPT ![p.doc] = p.form]
          BY <2>2, WrittenForm
    <3>2. Edits!Edited(disk[p.doc], EditOf(p)) = p.form /\ EditOf(p).doc = p.doc
          BY <1>3, <1>t, CarefulBefore, HandledEffect, EditApplied DEF Inv, Faithful, EditOf
    <3>3. Edits!Apply(EditOf(p))
          BY <2>1, <3>1, <3>2 DEF Edits!Apply, Pending
    <3> QED BY <2>1, <3>3 DEF Edits!Next, Pending
  <2>3. CASE Refuse(p)
    <3>1. Edits!Drop(EditOf(p))
          BY <2>1, <2>3 DEF Refuse, Edits!Drop, Pending, server
    <3> QED BY <2>1, <3>1 DEF Edits!Next, Pending
  <2>4. CASE SaveFails(p)
        BY <2>4, CarefulBefore DEF SaveFails
  <2> QED BY <1>3, <2>2, <2>3, <2>4 DEF Handled
<1>4. CASE Inside
  <2>1. disk' = disk /\ posts' = posts
        BY <1>4, InsideEffect
  <2> QED BY <1>u, <2>1 DEF Pending, EditOf
<1> QED BY <1>1, <1>2, <1>3, <1>4, NextCases

(* Posts of whole documents take effect as edits of the keys that were     *)
(* changed, for any number of administrators, as long as they are careful. *)
THEOREM Refinement == Spec => SavesAreEdits
<1>1. Init => Edits!Init
      BY DEF Init, Edits!Init
<1>2. Inv /\ [Next]_vars => [Careful' => Edits!Next \/ UNCHANGED Edits!vars]_vars
      BY EditStep
<1> QED BY <1>1, <1>2, InitInv, InvStep, PTL DEF Spec, SavesAreEdits
===============================================================================
