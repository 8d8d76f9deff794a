--------------------------- MODULE ServiceSettings ----------------------------
(***************************************************************************)
(* The .settings file of a service and the copies of it that server        *)
(* instances keep in memory (MapService.ReloadServiceSettings): requests   *)
(* read the copy, the manage pages (SetServiceStatus, ServiceSecurity)     *)
(* change the copy of their instance and save it as a whole.               *)
(*                                                                         *)
(* What a field contains is the number of the change that set it.  A       *)
(* folder's settings are kept the same way and are not modelled apart.     *)
(***************************************************************************)
EXTENDS Integers

CONSTANTS Nodes, Threads,
          MaxAge,                  \* 10 s in the code; ticks are as long as the .cfg needs
          MaxChanges, MaxTime      \* bounds on manage calls and on the clock

ASSUME AgeAssumption == MaxAge \in Nat
ASSUME BoundsAssumption == MaxChanges \in Nat /\ MaxTime \in Nat

VARIABLES file, stamp,      \* the file's content and its LastWriteTimeUtc, 0 if missing
          writer,           \* the threads that are writing it
          changed,          \* when it was last written
          now,
          settings, settingsLastWriteTime, lastSettingsReload,   \* of each instance
          changes,          \* manage calls so far
          acked,            \* the last change of each field a manage call reported as saved
          pc, node, field, buffer, seen, number

disk == <<file, stamp, writer, changed, acked>>
memory == <<settings, settingsLastWriteTime, lastSettingsReload>>
thread == <<pc, node, field, buffer, seen, number>>
vars == <<disk, now, memory, changes, thread>>

Fields == {"status", "accessrules"}
Default == [f \in Fields |-> 0]
None == -1                  \* a DateTime? without a value
Get == "get"                \* the field of a call that changes none

Init == /\ file = Default
        /\ stamp \in {0, 1}
        /\ writer = {}
        /\ changed = 0
        /\ now = 0
        /\ settings = [n \in Nodes |-> Default]   \* what null is replaced with
        /\ settingsLastWriteTime = [n \in Nodes |-> None]
        /\ lastSettingsReload = [n \in Nodes |-> None]
        /\ changes = 0
        /\ acked = Default
        /\ pc = [t \in Threads |-> "idle"]
        /\ node \in [Threads -> Nodes]           \* where the thread's process runs
        /\ field = [t \in Threads |-> Get]
        /\ buffer = [t \in Threads |-> Default]
        /\ seen = [t \in Threads |-> 0]
        /\ number = [t \in Threads |-> 0]

------------------------------------------------------------------------------
At(t, label) == pc[t] = label
Goto(t, label) == pc' = [pc EXCEPT ![t] = label] /\ UNCHANGED <<node, field, number>>
Keep == UNCHANGED <<buffer, seen>>
End(t) == /\ pc' = [pc EXCEPT ![t] = "idle"]
          /\ field' = [field EXCEPT ![t] = Get]
          /\ buffer' = [buffer EXCEPT ![t] = Default]
          /\ seen' = [seen EXCEPT ![t] = 0]
          /\ number' = [number EXCEPT ![t] = 0]
          /\ UNCHANGED node

(* A request, or a manage call that will change one field.                 *)
BeginGet(t) == /\ At(t, "idle")
               /\ pc' = [pc EXCEPT ![t] = "check"]
               /\ UNCHANGED <<disk, now, memory, changes, node, field, buffer, seen, number>>

BeginChange(t, f) == /\ At(t, "idle")
                     /\ changes < MaxChanges
                     /\ changes' = changes + 1
                     /\ pc' = [pc EXCEPT ![t] = "check"]
                     /\ field' = [field EXCEPT ![t] = f]
                     /\ number' = [number EXCEPT ![t] = changes']
                     /\ UNCHANGED <<disk, now, memory, node, buffer, seen>>

(* ReloadServiceSettings returns at once if the copy is older than 10 s,   *)
(* or if the file is not newer than the copy.                              *)
Throttled(n) == /\ lastSettingsReload[n] # None
                /\ now - lastSettingsReload[n] > MaxAge

(* Mistakes to mutate with: trusting a copy of any age, ...                *)
HasAnyCopy(n) == settingsLastWriteTime[n] # None

UpToDate(n) == /\ settingsLastWriteTime[n] # None
               /\ settingsLastWriteTime[n] >= stamp

ReturnEarly(t) == /\ At(t, "check")
                  /\ Throttled(node[t]) \/ UpToDate(node[t])
                  /\ Goto(t, "loaded")
                  /\ Keep
                  /\ UNCHANGED <<disk, now, memory, changes>>

NoFile(t) == /\ At(t, "check")
             /\ ~Throttled(node[t]) /\ ~UpToDate(node[t])
             /\ stamp = 0
             /\ Goto(t, "parent")
             /\ Keep
             /\ UNCHANGED <<disk, now, memory, changes>>

(* The FileInfo keeps the time it had before the file is read.             *)
FileIsNewer(t) == /\ At(t, "check")
                  /\ ~Throttled(node[t]) /\ ~UpToDate(node[t])
                  /\ stamp # 0
                  /\ seen' = [seen EXCEPT ![t] = stamp]
                  /\ Goto(t, "read")
                  /\ UNCHANGED <<disk, now, memory, changes, buffer>>

ReadAllText(t) == /\ At(t, "read")
                  /\ writer = {}
                  /\ buffer' = [buffer EXCEPT ![t] = file]
                  /\ Goto(t, "assign")
                  /\ UNCHANGED <<disk, now, memory, changes, seen>>

(* ... taking a file that is being written for one without settings, ...   *)
ReadsNothing(t) == /\ At(t, "read")
                   /\ writer # {}
                   /\ buffer' = [buffer EXCEPT ![t] = [f \in Fields |-> None]]
                   /\ Goto(t, "assign")
                   /\ UNCHANGED <<disk, now, memory, changes, seen>>

(* A file that is being written is locked, or is no JSON: the call fails.  *)
ReadFails(t) == /\ At(t, "read")
                /\ writer # {}
                /\ End(t)
                /\ UNCHANGED <<disk, now, memory, changes>>

AssignSettings(t) == /\ At(t, "assign")
                     /\ settings' = [settings EXCEPT ![node[t]] = buffer[t]]
                     /\ Goto(t, "stamp")
                     /\ buffer' = [buffer EXCEPT ![t] = Default]
                     /\ UNCHANGED <<seen, disk, now, settingsLastWriteTime, lastSettingsReload, changes>>

AssignWriteTime(t) ==
  /\ At(t, "stamp")
  /\ settingsLastWriteTime' = [settingsLastWriteTime EXCEPT ![node[t]] = seen[t]]
  /\ Goto(t, "parent")
  /\ seen' = [seen EXCEPT ![t] = 0]
  /\ UNCHANGED <<buffer, disk, now, settings, lastSettingsReload, changes>>

(* ReloadParentFolderSettings is awaited before the other time is set.     *)
AssignReloadTime(t) ==
  /\ At(t, "parent")
  /\ lastSettingsReload' = [lastSettingsReload EXCEPT ![node[t]] = now]
  /\ Goto(t, "loaded")
  /\ Keep
  /\ UNCHANGED <<disk, now, settings, settingsLastWriteTime, changes>>

------------------------------------------------------------------------------
Answer(t) == /\ At(t, "loaded")
             /\ field[t] = Get
             /\ buffer' = [buffer EXCEPT ![t] = settings[node[t]]]
             /\ Goto(t, "answered")
             /\ UNCHANGED <<disk, now, memory, changes, seen>>

Done(t) == /\ At(t, "answered")
           /\ End(t)
           /\ UNCHANGED <<disk, now, memory, changes>>

(* The manage call sets the field of the object it was given.  Should that *)
(* object no longer be _settings, it is as if it had been replaced later.  *)
Change(t) == /\ At(t, "loaded")
             /\ field[t] # Get
             /\ settings' = [settings EXCEPT ![node[t]][field[t]] = number[t]]
             /\ Goto(t, "save")
             /\ Keep
             /\ UNCHANGED <<disk, now, settingsLastWriteTime, lastSettingsReload, changes>>

(* SaveSettingsAsync serializes _settings, whoever has changed it.         *)
SaveSettings(t) == /\ At(t, "save")
                   /\ writer = {}
                   /\ writer' = {t}
                   /\ buffer' = [buffer EXCEPT ![t] = settings[node[t]]]
                   /\ Goto(t, "writing")
                   /\ UNCHANGED <<file, stamp, changed, acked, now, memory, changes, seen>>

SaveFails(t) == /\ At(t, "save")
                /\ writer # {}
                /\ End(t)
                /\ UNCHANGED <<disk, now, memory, changes>>

(* ... writing without the file's time going on.                           *)
WrittenInTheSameTick(t) == /\ At(t, "writing")
                           /\ file' = buffer[t]
                           /\ stamp' = IF stamp = 0 THEN 1 ELSE stamp
                           /\ writer' = writer \ {t}
                           /\ changed' = now
                           /\ acked' = [acked EXCEPT ![field[t]] = number[t]]
                           /\ End(t)
                           /\ UNCHANGED <<now, memory, changes>>

Written(t) == /\ At(t, "writing")
              /\ file' = buffer[t]
              /\ stamp' = stamp + 1
              /\ writer' = writer \ {t}
              /\ changed' = now
              /\ acked' = [acked EXCEPT ![field[t]] = number[t]]
              /\ End(t)
              /\ UNCHANGED <<now, memory, changes>>

(* Calls are short: the clock only moves between them.                     *)
Tick == /\ now < MaxTime
        /\ \A t \in Threads : At(t, "idle")
        /\ now' = now + 1
        /\ UNCHANGED <<disk, memory, changes, thread>>

Reload(t) == \/ ReturnEarly(t) \/ NoFile(t) \/ FileIsNewer(t) \/ ReadAllText(t)
             \/ ReadFails(t) \/ AssignSettings(t) \/ AssignWriteTime(t) \/ AssignReloadTime(t)
Save(t) == Change(t) \/ SaveSettings(t) \/ SaveFails(t) \/ Written(t)

Next == \/ Tick
        \/ \E t \in Threads : \/ BeginGet(t) \/ \E f \in Fields : BeginChange(t, f)
                              \/ Reload(t) \/ Answer(t) \/ Done(t) \/ Save(t)

Spec == Init /\ [][Next]_vars

------------------------------------------------------------------------------
(* Every variable stays in its range.                                      *)
Settings == [Fields -> Nat]
Labels == {"idle", "check", "read", "assign", "stamp", "parent", "loaded", "answered", "save",
           "writing"}

TypeOK == /\ file \in Settings /\ stamp \in Nat /\ changed \in Nat /\ now \in Nat
          /\ writer \subseteq Threads
          /\ settings \in [Nodes -> Settings]
          /\ settingsLastWriteTime \in [Nodes -> Nat \cup {None}]
          /\ lastSettingsReload \in [Nodes -> Nat \cup {None}]
          /\ changes \in Nat /\ acked \in Settings
          /\ pc \in [Threads -> Labels]
          /\ node \in [Threads -> Nodes]
          /\ field \in [Threads -> Fields \cup {Get}]
          /\ buffer \in [Threads -> Settings]
          /\ seen \in [Threads -> Nat]
          /\ number \in [Threads -> Nat]

AnswersCurrent == \A t \in Threads : At(t, "answered") => buffer[t] = file

(* "Performance: Do not load a every Request": a copy is only kept for so  *)
(* long; what was changed more than 10 s ago is seen by every request.     *)
AnswersAreRecent ==
  now - changed > MaxAge /\ (\A t \in Threads : pc[t] \notin {"save", "writing"})
     => AnswersCurrent

(* One call at a time, and none that comes later than 10 s after the last  *)
(* reload of its instance.                                                 *)
Calm == /\ \A t, u \in Threads : t # u => At(t, "idle") \/ At(u, "idle")
        /\ \A t \in Threads : At(t, "check") => ~Throttled(node[t])

(* Overlaps and the throttle alone let a manage call write back settings   *)
(* another one has changed: without them, on whichever instances the calls *)
(* come in, no change that was reported as saved is undone.                *)
NoChangeUndone == []Calm => [](file = acked)

(* Without them every request is answered with what is on disk.            *)
CalmAnswers == []Calm => []AnswersCurrent
==============================================================================
