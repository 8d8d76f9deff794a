------------------------ MODULE ServiceSettingsProofs -------------------------
(* Without overlaps and without the throttle, settings are never lost, for *)
(* any instances, any threads and any number of calls.                     *)
EXTENDS ServiceSettings, TLAPS

------------------------------------------------------------------------------
(* The variables of ServiceSettings stay in their ranges.                  *)
LEMMA InitTypes == Init => TypeOK
BY DEF Init, TypeOK, Settings, Default, Fields, Labels, None, Get

LEMMA NextTypes == TypeOK /\ [Next]_vars => TypeOK'
<1> SUFFICES ASSUME TypeOK, [Next]_vars PROVE TypeOK'
    OBVIOUS
<1> USE DEF TypeOK, Settings, Labels, None, Get, At, Goto, Keep, End, disk, memory, thread
<1>1. CASE Tick             BY <1>1 DEF Tick
<1>2. ASSUME NEW t \in Threads, BeginGet(t) PROVE TypeOK'
      BY <1>2 DEF BeginGet
<1>3. ASSUME NEW t \in Threads, NEW f \in Fields, BeginChange(t, f) PROVE TypeOK'
      BY <1>3 DEF BeginChange
<1>4. ASSUME NEW t \in Threads, Reload(t) PROVE TypeOK'
  <2>0. Default \in Settings    BY DEF Default
  <2>1. CASE ReturnEarly(t)     BY <2>1 DEF ReturnEarly
  <2>2. CASE NoFile(t)          BY <2>2 DEF NoFile
  <2>3. CASE FileIsNewer(t)     BY <2>3 DEF FileIsNewer
  <2>4. CASE ReadAllText(t)     BY <2>4 DEF ReadAllText
  <2>5. CASE ReadFails(t)       BY <2>0, <2>5 DEF ReadFails
  <2>6. CASE AssignSettings(t)  BY <2>0, <2>6 DEF AssignSettings
  <2>7. CASE AssignWriteTime(t)  BY <2>7 DEF AssignWriteTime
  <2>8. CASE AssignReloadTime(t) BY <2>8 DEF AssignReloadTime
  <2> QED BY <1>4, <2>1, <2>2, <2>3, <2>4, <2>5, <2>6, <2>7, <2>8 DEF Reload
<1>5. ASSUME NEW t \in Threads, Answer(t) \/ Done(t) \/ Save(t) PROVE TypeOK'
  <2>0. Default \in Settings    BY DEF Default
  <2>1. CASE Answer(t)          BY <2>1 DEF Answer
  <2>2. CASE Done(t)            BY <2>0, <2>2 DEF Done
  <2>3. CASE Change(t)          BY <2>3 DEF Change
  <2>4. CASE SaveSettings(t)    BY <2>4 DEF SaveSettings
  <2>5. CASE SaveFails(t)       BY <2>0, <2>5 DEF SaveFails
  <2>6. CASE Written(t)
    <3>1. acked' \in Settings   BY <2>6 DEF Written
    <3> QED BY <2>0, <2>6, <3>1 DEF Written
  <2> QED BY <1>5, <2>1, <2>2, <2>3, <2>4, <2>5, <2>6 DEF Save
<1>6. CASE UNCHANGED vars       BY <1>6 DEF vars
<1> QED BY <1>1, <1>2, <1>3, <1>4, <1>5, <1>6 DEF Next

(* The settings, times and calls of all instances stay in their ranges.    *)
THEOREM Typing == Spec => []TypeOK
BY InitTypes, NextTypes, PTL DEF Spec

------------------------------------------------------------------------------
(* What each step of a call may rely on when it is alone.                  *)
WriterIsWriting == \A t \in writer : pc[t] = "writing"

NotAhead == /\ \A n \in Nodes : settingsLastWriteTime[n] <= stamp
            /\ \A t \in Threads : seen[t] <= stamp

(* A copy nobody is changing is the file, if its time says so.             *)
Dirty(n) == \E t \in Threads : node[t] = n /\ pc[t] \in {"save", "writing"}
CopiesAreCopies == \A n \in Nodes :
  ~Dirty(n) /\ (stamp = 0 \/ UpToDate(n)) => settings[n] = file

Changed(t) == [file EXCEPT ![field[t]] = number[t]]

(* What a call knows at each of its labels.                                *)
Own(t) ==
  /\ pc[t] \in {"assign", "answered"} => buffer[t] = file
  /\ pc[t] \in {"stamp", "parent", "loaded"} => settings[node[t]] = file
  /\ pc[t] \in {"save", "writing"} => field[t] \in Fields /\ settings[node[t]] = Changed(t)
  /\ pc[t] = "writing" => buffer[t] = Changed(t)

StepByStep == \A t \in Threads : Own(t)

IInv == /\ TypeOK
        /\ file = acked
        /\ WriterIsWriting
        /\ NotAhead
        /\ CopiesAreCopies
        /\ StepByStep

LEMMA InitInductive == Init => IInv
BY InitTypes DEF Init, IInv, WriterIsWriting, NotAhead, CopiesAreCopies, StepByStep, Own,
                 Default, Fields, None

(* Who else is idle knows nothing.                                         *)
LEMMA AloneSuffices ==
  ASSUME NEW t \in Threads, \A u \in Threads \ {t} : pc'[u] = "idle", Own(t)'
  PROVE  StepByStep'
BY DEF StepByStep, Own

(* Copies stay copies if neither they nor the file change and no manage    *)
(* call gives up.                                                          *)
LEMMA SameCopies ==
  ASSUME CopiesAreCopies, UNCHANGED <<file, stamp, settings, settingsLastWriteTime, node>>,
         \A t \in Threads : pc[t] \in {"save", "writing"} => pc'[t] \in {"save", "writing"}
  PROVE  CopiesAreCopies'
<1>1. \A n \in Nodes : Dirty(n) => Dirty(n)'  BY DEF Dirty
<1> QED BY <1>1 DEF CopiesAreCopies, UpToDate

LEMMA NextInductive == IInv /\ Calm /\ [Next]_vars => IInv'
<1> SUFFICES ASSUME IInv, Calm, [Next]_vars PROVE IInv'
    OBVIOUS
<1>t. TypeOK /\ TypeOK'
      BY NextTypes DEF IInv
<1>p. /\ pc \in [Threads -> Labels] /\ node \in [Threads -> Nodes]
      /\ field \in [Threads -> Fields \cup {Get}] /\ DOMAIN buffer = Threads
      /\ DOMAIN seen = Threads /\ DOMAIN number = Threads
      BY <1>t DEF TypeOK
<1>m. /\ settings \in [Nodes -> Settings] /\ settingsLastWriteTime \in [Nodes -> Nat \cup {None}]
      /\ stamp \in Nat /\ seen \in [Threads -> Nat] /\ file \in Settings /\ acked = file
      BY <1>t DEF TypeOK, IInv
<1>w. WriterIsWriting /\ NotAhead /\ CopiesAreCopies /\ StepByStep
      BY DEF IInv
<1>1. CASE UNCHANGED <<disk, settings, settingsLastWriteTime, thread>>
  <2> USE DEF disk, thread
  <2>1. CopiesAreCopies'        BY <1>1, <1>w, SameCopies
  <2>2. WriterIsWriting' /\ NotAhead' /\ StepByStep'
        BY <1>1, <1>w DEF WriterIsWriting, NotAhead, StepByStep, Own, Changed
  <2> QED BY <1>1, <1>m, <1>t, <2>1, <2>2 DEF IInv
<1>2. ASSUME NEW t \in Threads, NEW f \in Fields, BeginGet(t) \/ BeginChange(t, f) PROVE IInv'
  <2>1. /\ pc[t] = "idle" /\ pc' = [pc EXCEPT ![t] = "check"]
        /\ UNCHANGED <<disk, settings, settingsLastWriteTime, node, buffer, seen>>
        /\ \A u \in Threads \ {t} : field'[u] = field[u] /\ number'[u] = number[u]
        BY <1>2, <1>p DEF BeginGet, BeginChange, At, memory, disk
  <2> USE DEF disk
  <2>2. CopiesAreCopies'        BY <1>p, <1>w, <2>1, SameCopies
  <2>3. WriterIsWriting' /\ NotAhead'
        BY <1>p, <1>w, <2>1 DEF WriterIsWriting, NotAhead
  <2>4. \A u \in Threads \ {t} : Own(u)'
        BY <1>p, <1>w, <2>1 DEF StepByStep, Own, Changed
  <2>5. Own(t)'                 BY <1>p, <2>1 DEF Own
  <2>6. StepByStep'             BY <2>4, <2>5 DEF StepByStep
  <2> QED BY <1>m, <1>t, <2>1, <2>2, <2>3, <2>6 DEF IInv
<1>4. ASSUME NEW t \in Threads, pc[t] # "idle"
      PROVE  /\ \A u \in Threads \ {t} : pc[u] = "idle"
             /\ writer # {} => pc[t] = "writing"
      BY <1>4, <1>t, <1>w DEF Calm, At, WriterIsWriting, TypeOK
<1>5. ASSUME NEW t \in Threads, Reload(t) PROVE IInv'
  <2>0. pc[t] # "idle"
        BY <1>5 DEF Reload, ReturnEarly, NoFile, FileIsNewer, ReadAllText, ReadFails,
                    AssignSettings, AssignWriteTime, AssignReloadTime, At
  <2>i. (\A u \in Threads \ {t} : pc[u] = "idle") /\ (writer # {} => pc[t] = "writing")
        BY <1>4, <2>0
  <2>1. CASE ReturnEarly(t) \/ NoFile(t)
    <3>1. /\ pc[t] = "check"
          /\ pc' = [pc EXCEPT ![t] = "loaded"] \/ pc' = [pc EXCEPT ![t] = "parent"]
          /\ UpToDate(node[t]) \/ stamp = 0
          /\ UNCHANGED <<disk, settings, settingsLastWriteTime, node, field, buffer, seen, number>>
          BY <2>1 DEF ReturnEarly, NoFile, Calm, At, Goto, Keep, memory, disk
    <3> USE DEF disk
    <3>2. CopiesAreCopies'      BY <1>p, <1>w, <3>1, SameCopies
    <3>3. WriterIsWriting' /\ NotAhead'
      <4>1. writer' = {}        BY <2>i, <3>1
      <4> QED BY <1>w, <3>1, <4>1 DEF WriterIsWriting, NotAhead
    <3>4. ~Dirty(node[t])       BY <2>i, <3>1 DEF Dirty
    <3>5. settings[node[t]] = file
          BY <1>p, <1>w, <3>1, <3>4 DEF CopiesAreCopies
    <3>6. Own(t)'               BY <1>p, <3>1, <3>5 DEF Own
    <3>7. StepByStep'           BY <1>p, <2>i, <3>1, <3>6, AloneSuffices
    <3> QED BY <1>m, <1>t, <3>1, <3>2, <3>3, <3>7 DEF IInv
  <2>3. CASE FileIsNewer(t)
    <3>1. /\ pc[t] = "check" /\ pc' = [pc EXCEPT ![t] = "read"]
          /\ seen' = [seen EXCEPT ![t] = stamp]
          /\ UNCHANGED <<disk, settings, settingsLastWriteTime, node, field, buffer, number>>
          BY <2>3 DEF FileIsNewer, At, Goto, memory, disk
    <3> USE DEF disk
    <3>2. CopiesAreCopies'      BY <1>p, <1>w, <3>1, SameCopies
    <3>3. WriterIsWriting'      BY <1>p, <1>w, <3>1 DEF WriterIsWriting
    <3>4. NotAhead'             BY <1>m, <1>w, <3>1 DEF NotAhead
    <3>5. Own(t)'               BY <1>p, <3>1 DEF Own
    <3>6. StepByStep'           BY <1>p, <2>i, <3>1, <3>5, AloneSuffices
    <3> QED BY <1>m, <1>t, <3>1, <3>2, <3>3, <3>4, <3>6 DEF IInv
  <2>4. CASE ReadAllText(t)
    <3>1. /\ pc[t] = "read" /\ pc' = [pc EXCEPT ![t] = "assign"]
          /\ buffer' = [buffer EXCEPT ![t] = file]
          /\ UNCHANGED <<disk, settings, settingsLastWriteTime, node, field, seen, number>>
          BY <2>4 DEF ReadAllText, At, Goto, memory, disk
    <3> USE DEF disk
    <3>2. CopiesAreCopies'      BY <1>p, <1>w, <3>1, SameCopies
    <3>3. WriterIsWriting' /\ NotAhead'
          BY <1>p, <1>w, <3>1 DEF WriterIsWriting, NotAhead
    <3>5. Own(t)'               BY <1>p, <3>1 DEF Own
    <3>6. StepByStep'           BY <1>p, <2>i, <3>1, <3>5, AloneSuffices
    <3> QED BY <1>m, <1>t, <3>1, <3>2, <3>3, <3>6 DEF IInv
  <2>5. CASE ReadFails(t)       BY <2>i, <2>5 DEF ReadFails, At
  <2>6. CASE AssignSettings(t)
    <3>1. /\ pc[t] = "assign" /\ pc' = [pc EXCEPT ![t] = "stamp"]
          /\ settings' = [settings EXCEPT ![node[t]] = buffer[t]]
          /\ UNCHANGED <<disk, settingsLastWriteTime, node, field, seen, number>>
          BY <2>6 DEF AssignSettings, At, Goto, disk
    <3> USE DEF disk
    <3>2. buffer[t] = file      BY <1>w, <3>1 DEF StepByStep, Own
    <3>3. settings'[node[t]] = file
          BY <1>m, <1>p, <3>1, <3>2
    <3>4. \A n \in Nodes \ {node[t]} : settings'[n] = settings[n]
          BY <1>m, <3>1
    <3>5. \A n \in Nodes : ~Dirty(n)
          BY <2>i, <3>1 DEF Dirty
    <3>6. CopiesAreCopies'
          BY <1>w, <3>1, <3>3, <3>4, <3>5 DEF CopiesAreCopies, UpToDate
    <3>7. WriterIsWriting' /\ NotAhead'
          BY <1>p, <1>w, <3>1 DEF WriterIsWriting, NotAhead
    <3>8. Own(t)'               BY <1>p, <3>1, <3>3 DEF Own
    <3>9. StepByStep'           BY <1>p, <2>i, <3>1, <3>8, AloneSuffices
    <3> QED BY <1>m, <1>t, <3>1, <3>6, <3>7, <3>9 DEF IInv
  <2>7. CASE AssignWriteTime(t)
    <3>1. /\ pc[t] = "stamp" /\ pc' = [pc EXCEPT ![t] = "parent"]
          /\ settingsLastWriteTime' = [settingsLastWriteTime EXCEPT ![node[t]] = seen[t]]
          /\ seen' = [seen EXCEPT ![t] = 0]
          /\ UNCHANGED <<disk, settings, node, field, buffer, number>>
          BY <2>7 DEF AssignWriteTime, At, Goto, disk
    <3> USE DEF disk
    <3>2. settings[node[t]] = file
          BY <1>w, <3>1 DEF StepByStep, Own
    <3>3. \A n \in Nodes \ {node[t]} : settingsLastWriteTime'[n] = settingsLastWriteTime[n]
          BY <1>m, <3>1
    <3>4. \A n \in Nodes : ~Dirty(n)
          BY <2>i, <3>1 DEF Dirty
    <3>5. CopiesAreCopies'
          BY <1>w, <3>1, <3>2, <3>3, <3>4 DEF CopiesAreCopies, UpToDate
    <3>6. WriterIsWriting'      BY <1>p, <1>w, <3>1 DEF WriterIsWriting
    <3>7. settingsLastWriteTime'[node[t]] = seen[t]
          BY <1>m, <1>p, <3>1
    <3>8. NotAhead'             BY <1>m, <1>p, <1>w, <3>1, <3>3, <3>7 DEF NotAhead
    <3>9. Own(t)'               BY <1>p, <3>1, <3>2 DEF Own
    <3>10. StepByStep'          BY <1>p, <2>i, <3>1, <3>9, AloneSuffices
    <3> QED BY <1>m, <1>t, <3>1, <3>5, <3>6, <3>8, <3>10 DEF IInv
  <2>8. CASE AssignReloadTime(t)
    <3>1. /\ pc[t] = "parent" /\ pc' = [pc EXCEPT ![t] = "loaded"]
          /\ UNCHANGED <<disk, settings, settingsLastWriteTime, node, field, buffer, seen, number>>
          BY <2>8 DEF AssignReloadTime, At, Goto, Keep, disk
    <3> USE DEF disk
    <3>2. settings[node[t]] = file
          BY <1>w, <3>1 DEF StepByStep, Own
    <3>3. CopiesAreCopies'      BY <1>p, <1>w, <3>1, SameCopies
    <3>4. WriterIsWriting' /\ NotAhead'
          BY <1>p, <1>w, <3>1 DEF WriterIsWriting, NotAhead
    <3>5. Own(t)'               BY <1>p, <3>1, <3>2 DEF Own
    <3>6. StepByStep'           BY <1>p, <2>i, <3>1, <3>5, AloneSuffices
    <3> QED BY <1>m, <1>t, <3>1, <3>3, <3>4, <3>6 DEF IInv
  <2> QED BY <1>5, <2>1, <2>3, <2>4, <2>5, <2>6, <2>7, <2>8 DEF Reload
<1>6. ASSUME NEW t \in Threads, Answer(t) \/ Done(t) \/ Save(t) PROVE IInv'
  <2>0. pc[t] # "idle"
        BY <1>6 DEF Answer, Done, Save, Change, SaveSettings, SaveFails, Written, At
  <2>i. (\A u \in Threads \ {t} : pc[u] = "idle") /\ (writer # {} => pc[t] = "writing")
        BY <1>4, <2>0
  <2>1. CASE Answer(t)
    <3>1. /\ pc[t] = "loaded" /\ pc' = [pc EXCEPT ![t] = "answered"]
          /\ buffer' = [buffer EXCEPT ![t] = settings[node[t]]]
          /\ UNCHANGED <<disk, settings, settingsLastWriteTime, node, field, seen, number>>
          BY <2>1 DEF Answer, At, Goto, memory, disk
    <3> USE DEF disk
    <3>2. settings[node[t]] = file
          BY <1>w, <3>1 DEF StepByStep, Own
    <3>3. CopiesAreCopies'      BY <1>p, <1>w, <3>1, SameCopies
    <3>4. WriterIsWriting' /\ NotAhead'
          BY <1>p, <1>w, <3>1 DEF WriterIsWriting, NotAhead
    <3>5. Own(t)'               BY <1>p, <3>1, <3>2 DEF Own
    <3>6. StepByStep'           BY <1>p, <2>i, <3>1, <3>5, AloneSuffices
    <3> QED BY <1>m, <1>t, <3>1, <3>3, <3>4, <3>6 DEF IInv
  <2>2. CASE Done(t)
    <3>1. /\ pc[t] = "answered" /\ pc' = [pc EXCEPT ![t] = "idle"]
          /\ seen' = [seen EXCEPT ![t] = 0]
          /\ UNCHANGED <<disk, settings, settingsLastWriteTime, node>>
          BY <2>2 DEF Done, At, End, memory, disk
    <3> USE DEF disk
    <3>2. CopiesAreCopies'      BY <1>p, <1>w, <3>1, SameCopies
    <3>3. WriterIsWriting' /\ NotAhead'
          BY <1>m, <1>p, <1>w, <3>1 DEF WriterIsWriting, NotAhead
    <3>4. Own(t)'               BY <1>p, <3>1 DEF Own
    <3>5. StepByStep'           BY <1>p, <2>i, <3>1, <3>4, AloneSuffices
    <3> QED BY <1>m, <1>t, <3>1, <3>2, <3>3, <3>5 DEF IInv
  <2>3. CASE Change(t)
    <3>1. /\ pc[t] = "loaded" /\ pc' = [pc EXCEPT ![t] = "save"] /\ field[t] # Get
          /\ settings' = [settings EXCEPT ![node[t]][field[t]] = number[t]]
          /\ UNCHANGED <<disk, settingsLastWriteTime, node, field, buffer, seen, number>>
          BY <2>3 DEF Change, At, Goto, Keep, disk
    <3> USE DEF disk
    <3>2. settings[node[t]] = file /\ field[t] \in Fields
          BY <1>p, <1>w, <3>1 DEF StepByStep, Own
    <3>3. settings'[node[t]] = [file EXCEPT ![field[t]] = number[t]]
          BY <1>m, <1>p, <3>1, <3>2
    <3>4. \A n \in Nodes \ {node[t]} : settings'[n] = settings[n]
          BY <1>m, <3>1
    <3>5. Dirty(node[t])' /\ \A n \in Nodes : ~Dirty(n)
          BY <1>p, <2>i, <3>1 DEF Dirty
    <3>6. CopiesAreCopies'
          BY <1>w, <3>1, <3>4, <3>5 DEF CopiesAreCopies, UpToDate
    <3>7. WriterIsWriting' /\ NotAhead'
          BY <1>p, <1>w, <3>1 DEF WriterIsWriting, NotAhead
    <3>8. Own(t)'               BY <1>p, <3>1, <3>2, <3>3 DEF Own, Changed
    <3>9. StepByStep'           BY <1>p, <2>i, <3>1, <3>8, AloneSuffices
    <3> QED BY <1>m, <1>t, <3>1, <3>6, <3>7, <3>9 DEF IInv
  <2>4. CASE SaveSettings(t)
    <3>1. /\ pc[t] = "save" /\ pc' = [pc EXCEPT ![t] = "writing"] /\ writer' = {t}
          /\ buffer' = [buffer EXCEPT ![t] = settings[node[t]]]
          /\ UNCHANGED <<file, stamp, acked, settings, settingsLastWriteTime, node, field, seen, number>>
          BY <2>4 DEF SaveSettings, At, Goto, memory
    <3>2. field[t] \in Fields /\ settings[node[t]] = Changed(t)
          BY <1>w, <3>1 DEF StepByStep, Own
    <3>3. CopiesAreCopies'      BY <1>p, <1>w, <3>1, SameCopies
    <3>4. WriterIsWriting' /\ NotAhead'
          BY <1>p, <1>w, <3>1 DEF WriterIsWriting, NotAhead
    <3>5. Own(t)'               BY <1>p, <3>1, <3>2 DEF Own, Changed
    <3>6. StepByStep'           BY <1>p, <2>i, <3>1, <3>5, AloneSuffices
    <3> QED BY <1>m, <1>t, <3>1, <3>3, <3>4, <3>6 DEF IInv
  <2>5. CASE SaveFails(t)       BY <2>i, <2>5 DEF SaveFails, At
  <2>6. CASE Written(t)
    <3>1. /\ pc[t] = "writing" /\ pc' = [pc EXCEPT ![t] = "idle"]
          /\ file' = buffer[t] /\ stamp' = stamp + 1 /\ writer' = writer \ {t}
          /\ acked' = [acked EXCEPT ![field[t]] = number[t]]
          /\ seen' = [seen EXCEPT ![t] = 0]
          /\ UNCHANGED <<settings, settingsLastWriteTime, node>>
          BY <2>6 DEF Written, At, End, memory
    <3>2. field[t] \in Fields /\ settings[node[t]] = Changed(t) /\ buffer[t] = Changed(t)
          BY <1>w, <3>1 DEF StepByStep, Own
    <3>3. file' = acked'        BY <1>m, <3>1, <3>2 DEF Changed
    <3>4. \A n \in Nodes : settingsLastWriteTime[n] <= stamp
          BY <1>w DEF NotAhead
    <3>5. \A n \in Nodes : ~UpToDate(n)'
          BY <1>m, <3>1, <3>4 DEF UpToDate, None
    <3>6. CopiesAreCopies'      BY <1>m, <3>1, <3>5 DEF CopiesAreCopies
    <3>7. WriterIsWriting'      BY <1>p, <1>w, <3>1 DEF WriterIsWriting
    <3>8. NotAhead'             BY <1>m, <1>w, <3>1, <3>4 DEF NotAhead, None
    <3>9. Own(t)'               BY <1>p, <3>1 DEF Own
    <3>10. StepByStep'          BY <1>p, <2>i, <3>1, <3>9, AloneSuffices
    <3> QED BY <1>t, <3>3, <3>6, <3>7, <3>8, <3>10 DEF IInv
  <2> QED BY <1>6, <2>1, <2>2, <2>3, <2>4, <2>5, <2>6 DEF Save
<1>7. Tick \/ UNCHANGED vars => UNCHANGED <<disk, settings, settingsLastWriteTime, thread>>
      BY DEF Tick, vars, memory
<1> QED BY <1>1, <1>2, <1>5, <1>6, <1>7 DEF Next, Fields

(* One call after another, none of them throttled: no change that was      *)
(* reported as saved is undone, on whichever instances the calls come in.  *)
THEOREM NothingUndone == Spec => NoChangeUndone
<1>1. IInv => file = acked
      BY DEF IInv
<1> QED BY <1>1, InitInductive, NextInductive, PTL DEF Spec, NoChangeUndone

(* And every request is answered with what is on disk.                     *)
THEOREM AnswersFromDisk == Spec => CalmAnswers
<1>1. IInv => AnswersCurrent
      BY DEF IInv, StepByStep, Own, AnswersCurrent, At
<1> QED BY <1>1, InitInductive, NextInductive, PTL DEF Spec, CalmAnswers
==============================================================================
