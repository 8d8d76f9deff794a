----------------------------- MODULE ManageDialogs -----------------------------
(***************************************************************************)
(* The dialogs of the server's manage page (wwwroot/js/manage.js) that load *)
(* a document of one service, let an administrator change it and post the  *)
(* whole of it back: the access rules, a table with a row per user, and    *)
(* the metadata, a text per provider.  ManageController keeps the document *)
(* in memory and writes it to the services folder.                         *)
(*                                                                         *)
(* Several tabs, each with at most one dialog (the blocker covers the      *)
(* page); posts are handled by threads of their own, key by key, while     *)
(* others are handled or a document is read again, and are answered in any *)
(* order, refused or lost.                                                 *)
(***************************************************************************)
EXTENDS Naturals

CONSTANTS Tabs,     \* open manage pages, each with its administrator
          Keys,     \* users with a rule, or metadata providers
          Values,   \* what a row or a text may be
          Blank,    \* no row, no text
          NoTab,    \* stands for a page that was reloaded
          Slots,    \* bound on the posts under way at once
          Initial,  \* what the documents may be at first
          MaxActs   \* bound on what administrators do

ASSUME BlankAssumption == Blank \notin Values \cup Keys
ASSUME NoTabAssumption == NoTab \notin Tabs
ASSUME BoundAssumption == MaxActs \in Nat

Docs == {"rules", "metadata"}
Contents == [Keys -> Values \cup {Blank}]

ASSUME InitialAssumption ==
  Initial \subseteq {d \in [Docs -> Contents] : d["metadata"] \in [Keys -> Values]}

Empty == [k \in Keys |-> Blank]
Phases == {"closed", "asked", "ready"}

VARIABLES memory,    \* the documents as the server answers with them
          disk,      \* the .settings and .meta files
          former,    \* the metadata of the map before it was read again
          reread,    \* what has been read of each file, but is not in memory yet
          handler,   \* how far the handling of each post is
          dialog,    \* the dialog of each tab
          posts,     \* posts that were sent and not yet answered in the page
          acts,      \* what administrators have done so far
          excuses    \* history: what administrators or the server did not do well

server == <<memory, disk, former, reread, handler>>
vars == <<server, dialog, posts, acts, excuses>>

(* form is the table or the array "metadata" of the code, current and      *)
(* editor are those of the metadata dialog; typed and touched are history: *)
(* what the administrator sees in the dialog, and for which keys he        *)
(* changed it.                                                             *)
Dialogs == [doc : Docs, phase : Phases, form : Contents,
            current : Keys \cup {Blank}, editor : Values \cup {Blank},
            typed : Contents, touched : SUBSET Keys]

NewDialog(d, phase) == [doc |-> d, phase |-> phase, form |-> Empty,
                        current |-> Blank, editor |-> Blank,
                        typed |-> Empty, touched |-> {}]

Closed == NewDialog("rules", "closed")

(* open: the dialog that sent the post is still there (history).           *)
Posts == [slot : Slots, tab : Tabs \cup {NoTab}, doc : Docs, form : Contents, open : BOOLEAN,
          answer : {"none", "saved", "error"}, typed : Contents, touched : SUBSET Keys]

(* todo are the keys still to change in memory, out is what is written;    *)
(* apart: the object the post changes is no longer the one in memory.      *)
Handlers == [stage : {"idle", "changing", "writing"}, apart : BOOLEAN,
             todo : SUBSET Keys, out : Contents]
Idle == [stage |-> "idle", apart |-> FALSE, todo |-> {}, out |-> Empty]

Init == /\ memory \in Initial
        /\ disk = memory
        /\ former = Empty
        /\ reread = [d \in Docs |-> {}]
        /\ handler = [s \in Slots |-> Idle]
        /\ dialog = [t \in Tabs |-> Closed]
        /\ posts = {}
        /\ acts = 0
        /\ excuses = {}

------------------------------------------------------------------------------
IsOpen(t) == dialog[t].phase # "closed"
IsReady(t, d) == dialog[t].phase = "ready" /\ dialog[t].doc = d
Unhandled(d) == \E p \in posts : p.doc = d /\ p.answer = "none"
Act == acts < MaxActs /\ acts' = acts + 1
Becomes(t, d) == dialog' = [dialog EXCEPT ![t] = d]
If(when, what) == IF when THEN {what} ELSE {}

(* modalDialog: the blocker, the empty body, onLoad asks for the document. *)
OpenDialog(t, d) ==
  /\ ~IsOpen(t)
  /\ Act
  /\ Becomes(t, NewDialog(d, "asked"))
  /\ excuses' = excuses \cup
       If(Unhandled(d) \/ \E u \in Tabs : IsOpen(u) /\ dialog[u].doc = d, "overlap")
  /\ UNCHANGED <<server, posts>>

(* ServiceSecurity, ServiceMetadata (GET), and what the page makes of the   *)
(* answer: renderSecurityTable, or the editor with the first provider.     *)
(* What happens between the two may as well happen after them.  If the     *)
(* request fails there is an alert, and the dialog stays as it is.         *)
ShowRules(t) ==
  /\ dialog[t].phase = "asked" /\ dialog[t].doc = "rules"
  /\ Becomes(t, [dialog[t] EXCEPT !.phase = "ready", !.form = memory["rules"],
                                  !.typed = memory["rules"]])
  /\ UNCHANGED <<server, posts, excuses, acts>>

ShowMetadata(t, k) ==
  /\ dialog[t].phase = "asked" /\ dialog[t].doc = "metadata"
  /\ Becomes(t, [dialog[t] EXCEPT !.phase = "ready", !.form = memory["metadata"],
                                  !.typed = memory["metadata"], !.current = k,
                                  !.editor = memory["metadata"][k]])
  /\ UNCHANGED <<server, posts, excuses, acts>>

(* A row is added, removed or its boxes are ticked.                        *)
EditRow(t, k, v) ==
  /\ IsReady(t, "rules")
  /\ Act
  /\ Becomes(t, [dialog[t] EXCEPT !.form = [dialog[t].form EXCEPT ![k] = v],
                                  !.typed = [dialog[t].typed EXCEPT ![k] = v],
                                  !.touched = dialog[t].touched \cup {k}])
  /\ UNCHANGED <<server, posts, excuses>>

Type(t, v) ==
  /\ IsReady(t, "metadata")
  /\ Act
  /\ LET k == dialog[t].current
     IN  Becomes(t, [dialog[t] EXCEPT !.editor = v,
                                      !.typed = [dialog[t].typed EXCEPT ![k] = v],
                                      !.touched = dialog[t].touched \cup {k}])
  /\ UNCHANGED <<server, posts, excuses>>

(* Changed: the text is kept although no provider is selected.             *)
StoredUnselected(t) == [k \in Keys \cup {dialog[t].current} |->
                          IF k = dialog[t].current THEN dialog[t].editor ELSE dialog[t].form[k]]

(* The select element: the editor's text is kept, the next one is shown.   *)
Stored(t) == IF dialog[t].phase = "ready"
             THEN [dialog[t].form EXCEPT ![dialog[t].current] = dialog[t].editor]
             ELSE dialog[t].form

(* Changed: the editor's text is not kept.                                 *)
SelectProviderForgets(t, k) ==
  /\ IsReady(t, "metadata") /\ k # dialog[t].current
  /\ Act
  /\ Becomes(t, [dialog[t] EXCEPT !.current = k, !.editor = dialog[t].form[k]])
  /\ UNCHANGED <<server, posts, excuses>>

SelectProvider(t, k) ==
  /\ IsReady(t, "metadata") /\ k # dialog[t].current
  /\ Act
  /\ Becomes(t, [dialog[t] EXCEPT !.form = Stored(t), !.current = k,
                                  !.editor = dialog[t].form[k]])
  /\ UNCHANGED <<server, posts, excuses>>

Leave(t) == /\ Becomes(t, Closed)
            /\ posts' = {[p EXCEPT !.open = p.open /\ p.tab \notin {t}] : p \in posts}

CloseDialog(t) ==
  /\ IsOpen(t)
  /\ Leave(t)
  /\ excuses' = excuses \cup If(\E p \in posts : p.tab = t /\ p.open, "abandoned")
  /\ UNCHANGED <<server, acts>>

(* postForm, and the post of the metadata: whatever the dialog holds, an   *)
(* empty form ('_emtpyform', an empty array) if nothing was loaded.        *)
Send(t, form, open) ==
  \E s \in Slots \ {p.slot : p \in posts} :
    /\ posts' = posts \cup
         {[slot |-> s, tab |-> t, doc |-> dialog[t].doc, form |-> form, open |-> open,
           answer |-> "none", typed |-> dialog[t].typed, touched |-> dialog[t].touched]}
    /\ excuses' = excuses \cup If(dialog[t].phase # "ready", "early")
                           \cup If(\E p \in posts : p.tab = t /\ p.open, "again")

OkRules(t) ==
  /\ IsOpen(t) /\ dialog[t].doc = "rules"
  /\ Act
  /\ Send(t, dialog[t].form, FALSE)
  /\ Becomes(t, Closed)
  /\ UNCHANGED server

OkMetadata(t) ==
  /\ IsOpen(t) /\ dialog[t].doc = "metadata"
  /\ Act
  /\ Send(t, Stored(t), TRUE)
  /\ Becomes(t, [dialog[t] EXCEPT !.form = Stored(t)])
  /\ UNCHANGED server

------------------------------------------------------------------------------
(* ServiceSecurity, ServiceMetadata (POST).  Both change the object in     *)
(* memory first and save it then, with other requests in between.          *)
InHand(p) == handler[p.slot].stage # "idle"
Handling(d) == \E p \in posts : p.doc = d /\ InHand(p)
At(p, stage) == handler[p.slot].stage = stage
Handle(p, h) == handler' = [handler EXCEPT ![p.slot] = h]
Given(p) == {k \in Keys : p.form[k] # Blank}

(* All rules are removed, to be built from the form.                       *)
TakeUp(p) ==
  /\ p.answer = "none" /\ At(p, "idle")
  /\ Handle(p, [Idle EXCEPT !.stage = "changing", !.todo = Given(p)])
  /\ memory' = IF p.doc = "rules" THEN [memory EXCEPT !["rules"] = Empty] ELSE memory
  /\ excuses' = excuses \cup If(Handling(p.doc) \/ reread[p.doc] # {}, "raced")
  /\ UNCHANGED <<disk, former, reread, dialog, posts, acts>>

(* Rows that two posts add at once replace one another's array.            *)
MayGetLost(p, k) == IF p.doc = "rules" /\ \E q \in posts \ {p} : q.doc = "rules" /\ At(q, "changing")
                    THEN SUBSET (Keys \ {k}) ELSE {{}}

Changed(p, k, lost) == [l \in Keys |-> IF l = k THEN p.form[k]
                                       ELSE IF l \in lost THEN Blank ELSE memory[p.doc][l]]

(* A row, or the properties of a provider: in the object the post has got  *)
(* when it was taken up, which may have been replaced.                     *)
Change(p, k) ==
  /\ At(p, "changing") /\ k \in handler[p.slot].todo
  /\ Handle(p, [handler[p.slot] EXCEPT !.todo = @ \ {k}])
  /\ IF handler[p.slot].apart
     THEN /\ former' = IF p.doc = "metadata" THEN [former EXCEPT ![k] = p.form[k]] ELSE former
          /\ UNCHANGED memory
     ELSE /\ \E lost \in MayGetLost(p, k) : memory' = [memory EXCEPT ![p.doc] = Changed(p, k, lost)]
          /\ UNCHANGED former
  /\ UNCHANGED <<disk, reread, dialog, posts, excuses, acts>>

(* SaveSettingsAsync takes whatever settings are in memory, SetMetadata-   *)
(* Providers and WriteMetadata the providers that were in the form.        *)
Serialized(p) ==
  IF p.doc = "rules" THEN memory["rules"]
  ELSE [k \in Keys |-> IF k \notin Given(p) THEN Blank
                       ELSE IF handler[p.slot].apart THEN former[k] ELSE memory["metadata"][k]]

Serialize(p) ==
  /\ At(p, "changing") /\ handler[p.slot].todo = {}
  /\ Handle(p, [handler[p.slot] EXCEPT !.stage = "writing", !.out = Serialized(p)])
  /\ UNCHANGED <<memory, disk, former, reread, dialog, posts, excuses, acts>>

Answer(p, a) == posts' = (posts \ {p}) \cup {[p EXCEPT !.answer = a]}

(* Mistake to mutate with: the document is not saved.                      *)
NotWritten(p) ==
  /\ At(p, "writing")
  /\ Handle(p, Idle)
  /\ Answer(p, "saved") \/ Answer(p, "error")
  /\ UNCHANGED <<memory, disk, former, reread, dialog, excuses, acts>>

(* The answer may get lost.                                                *)
Written(p) ==
  /\ At(p, "writing")
  /\ disk' = [disk EXCEPT ![p.doc] = handler[p.slot].out]
  /\ Handle(p, Idle)
  /\ Answer(p, "saved") \/ Answer(p, "error")
  /\ UNCHANGED <<memory, former, reread, dialog, excuses, acts>>

(* A text that is no YAML, or a file that cannot be opened, because it is  *)
(* being written perhaps: memory has changed by then, the file has not.    *)
SaveFails(p) ==
  /\ At(p, "writing") \/ (At(p, "changing") /\ p.doc = "metadata")
  /\ Handle(p, Idle)
  /\ Answer(p, "error")
  /\ excuses' = excuses \cup {"unsaved"}
  /\ UNCHANGED <<memory, disk, former, reread, dialog, acts>>

(* Not logged in any more, an unknown service, a request that got lost.    *)
Refuse(p) ==
  /\ p.answer = "none" /\ At(p, "idle")
  /\ Answer(p, "error")
  /\ UNCHANGED <<server, dialog, excuses, acts>>

(* Settings are read again when they are older than some seconds, the map  *)
(* when the service is refreshed or reloaded, both after a restart.  While *)
(* the .meta file is being written a map may be left with what it has of   *)
(* its own.  (Otherwise maps that have metadata of their own are left out: *)
(* it wins over the .meta file.)                                           *)
Read(d) == {disk[d]} \cup (IF d = "metadata" /\ \E p \in posts : p.doc = d /\ At(p, "writing")
                           THEN {i[d] : i \in Initial} ELSE {})

StartReread(d) ==
  /\ reread[d] = {}
  /\ \E c \in Read(d) : reread' = [reread EXCEPT ![d] = {c}]
  /\ excuses' = excuses \cup If(Handling(d), "raced")
  /\ UNCHANGED <<memory, disk, former, handler, dialog, posts, acts>>

(* Posts in hand are left with the object that is replaced.  A second      *)
(* reread during the handling of one post is left out.                     *)
FinishReread(d) ==
  LET left == {p.slot : p \in {q \in posts : q.doc = d /\ InHand(q)}}
  IN  /\ \E c \in reread[d] : memory' = [memory EXCEPT ![d] = c]
      /\ \A s \in left : ~handler[s].apart
      /\ former' = IF d = "metadata" /\ left # {} THEN memory[d] ELSE former
      /\ handler' = [s \in Slots |-> IF s \in left THEN [handler[s] EXCEPT !.apart = TRUE]
                                                   ELSE handler[s]]
      /\ reread' = [reread EXCEPT ![d] = {}]
      /\ UNCHANGED <<disk, dialog, posts, excuses, acts>>

------------------------------------------------------------------------------
(* Changed: after the access rules, too.                                   *)
RemovedAlways(p) == IF p.answer = "saved" /\ p.tab # NoTab THEN {p.tab} ELSE {}

(* $('.gview5-modal-blocker').remove() after metadata; an alert otherwise. *)
Removed(p) == IF p.answer = "saved" /\ p.doc = "metadata" /\ p.tab # NoTab
              THEN {p.tab} ELSE {}

Deliver(p) ==
  /\ p.answer # "none"
  /\ dialog' = [t \in Tabs |-> IF t \in Removed(p) THEN Closed ELSE dialog[t]]
  /\ posts' = {[q EXCEPT !.open = q.open /\ q.tab \notin Removed(p)] : q \in posts \ {p}}
  /\ UNCHANGED <<server, excuses, acts>>

(* get: the session has expired, location.reload().                        *)
Reload(t) ==
  /\ \/ dialog[t].phase = "asked"
     \/ \E p \in posts : p.tab = t /\ p.answer = "error"
  /\ Becomes(t, Closed)
  /\ posts' = {IF p.tab = t THEN [p EXCEPT !.tab = NoTab, !.open = FALSE] ELSE p : p \in posts}
  /\ UNCHANGED <<server, excuses, acts>>

Administrator(t) ==
  \/ \E d \in Docs : OpenDialog(t, d)
  \/ \E k \in Keys, v \in Values \cup {Blank} : EditRow(t, k, v)
  \/ \E v \in Values : Type(t, v)
  \/ \E k \in Keys : SelectProvider(t, k)
  \/ CloseDialog(t) \/ OkRules(t) \/ OkMetadata(t)

Page(t) == \/ ShowRules(t)
           \/ \E k \in Keys : ShowMetadata(t, k)
           \/ Reload(t)
           \/ \E p \in posts : Deliver(p)

HandlePost(p) == \/ TakeUp(p) \/ (\E k \in Keys : Change(p, k)) \/ Serialize(p)
                 \/ Written(p) \/ SaveFails(p) \/ Refuse(p)

Server == \/ \E p \in posts : HandlePost(p)
          \/ \E d \in Docs : StartReread(d) \/ FinishReread(d)

Next == Server \/ \E t \in Tabs : Administrator(t) \/ Page(t)

Spec == Init /\ [][Next]_vars

------------------------------------------------------------------------------
(* Documents keep their form, a tab has one dialog, a post that is still   *)
(* its dialog's has one, no two posts under way are taken for one, and     *)
(* nobody handles a post that is not there or has been answered.           *)
TypeOK == /\ memory \in [Docs -> Contents] /\ disk \in [Docs -> Contents]
          /\ former \in Contents
          /\ reread \in [Docs -> SUBSET Contents]
          /\ handler \in [Slots -> Handlers]
          /\ \A s \in Slots : handler[s].stage # "idle" =>
               \E p \in posts : p.slot = s /\ p.answer = "none"
          /\ dialog \in [Tabs -> Dialogs]
          /\ posts \subseteq Posts
          /\ \A p, q \in posts : p.slot = q.slot => p = q
          /\ \A p \in posts : p.open => p.tab \in Tabs /\ IsOpen(p.tab)
          /\ acts \in 0..MaxActs
          /\ excuses \subseteq {"early", "overlap", "again", "abandoned", "unsaved", "raced"}

EditOf(p) == [slot |-> p.slot, doc |-> p.doc, keys |-> p.touched, to |-> p.typed]

Edits == INSTANCE AtomicEdits WITH value <- disk,
                                   pending <- {EditOf(p) : p \in {q \in posts : q.answer = "none"}}

Careful == excuses \subseteq {"abandoned"}

(* Whole documents are posted, and saved from objects that others change   *)
(* and replace, yet every save changes just the keys its administrator     *)
(* changed, and to what he saw in the dialog: unless OK was pressed before *)
(* the document was there, two dialogs or posts of a document overlapped,  *)
(* it was read again meanwhile, or its file could not be written.          *)
SavesAreEdits == Edits!Init /\ [][Careful' => Edits!Next \/ UNCHANGED Edits!vars]_vars

(* A dialog that its administrator does not close is closed by the answer  *)
(* that his own metadata was saved, and never by that to another post:     *)
(* unless he had left an earlier metadata dialog, or pressed OK again,     *)
(* while its post was under way.  There is one more way: an error answer   *)
(* may reload the page, and takes along a dialog that was opened since.    *)
PageReloaded(t) == /\ dialog[t].phase = "asked" \/ \E p \in posts : p.tab = t /\ p.answer = "error"
                   /\ \A q \in posts' : q.tab # t

AnswersCloseTheirOwn ==
  [][excuses' \cap {"abandoned", "again"} = {} =>
       \A t \in Tabs : IsOpen(t) /\ ~IsOpen(t)' =>
         \/ CloseDialog(t) \/ OkRules(t) \/ PageReloaded(t)
         \/ \E p \in posts : /\ p.tab = t /\ p.open /\ p.answer = "saved"
                             /\ \A q \in posts' : q.slot # p.slot]_vars

(* What the server answers with is what it will answer with after a        *)
(* restart, whichever dialogs overlapped, if no post of the document is in *)
(* hand: unless a file could not be written, metadata was posted before it *)
(* was loaded, or a post was handled at the same time as another one of    *)
(* the document, or as the document was read again.                        *)
SurvivesRestart == excuses \cap {"early", "unsaved", "raced"} = {} =>
                     \A d \in Docs : ~Handling(d) => disk[d] = memory[d]
===============================================================================
