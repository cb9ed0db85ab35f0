-------------------------- MODULE HotReload_proofs --------------------------
(***************************************************************************)
(* Proofs about HotReload, for any files, hosts, shells and number of      *)
(* edits.                                                                  *)
(***************************************************************************)
EXTENDS HotReload, TLAPS

Reloading == {"again", "record", "load", "device", "commit", "update"}

(* What the types need: where a shell is says what it has read.            *)
Kinds ==
  \A s \in Shells :
    /\ pc[s] \in Reloading => changed[s] \subseteq Sources
    /\ pc[s] = "device" => /\ loaded[s].version \in Versions
                           /\ loaded[s].version[1] \in Modules
    /\ pc[s] = "commit" => /\ loaded[s].version \in Versions
                           /\ loaded[s].version[1] \in Sources

TypeInv == TypeOK /\ Kinds

LEMMA StartType ==
  ASSUME NEW h \in Hosts, NEW i \in Items, edits \in Nat
  PROVE  StartsWith(h, i) \in (Sources \cup Templates) \X {1} \cup {Nothing}
<1> USE ReloadAssumption
<1>1. Platform[h] \subseteq Sources
  OBVIOUS
<1>2. Winners(h, i) \subseteq Sources
  BY <1>1 DEF Winners
<1> DEFINE own == Platform[h] \cap Modules
<1>3. CASE i = "device" /\ own # {}
  <2>1. OneOf(own) \in Modules
    BY <1>3 DEF OneOf
  <2>2. Winners(h, i) = {}
    BY <1>1, <1>3 DEF Winners
  <2>3. StartsWith(h, i) = Version(TemplateOf[OneOf(own)], 1)
    BY <1>3, <2>2 DEF StartsWith
  <2> QED
    BY <2>1, <2>3 DEF Version
<1>4. CASE ~(i = "device" /\ own # {}) /\ Winners(h, i) # {}
  <2>1. OneOf(Winners(h, i)) \in Sources
    BY <1>2, <1>4 DEF OneOf
  <2>2. StartsWith(h, i) = Version(OneOf(Winners(h, i)), 1)
    BY <1>4 DEF StartsWith
  <2> QED
    BY <2>1, <2>2 DEF Version
<1>5. CASE ~(i = "device" /\ own # {}) /\ Winners(h, i) = {}
  BY <1>5 DEF StartsWith
<1> QED
  BY <1>3, <1>4, <1>5

LEMMA InitType == Init => TypeInv
<1> SUFFICES ASSUME Init PROVE TypeInv
  OBVIOUS
<1> USE ReloadAssumption DEF Init, Files
<1>1. nos \in [Hosts -> [Items -> Entry]]
  <2>1. \A h \in Hosts, i \in Items : StartsWith(h, i) \in Entry
    BY StartType DEF Entry, Versions, Times
  <2> QED
    BY <2>1
<1>3. /\ edits \in 0..MaxEdits /\ 0 \in Times /\ 1 \in Times
      /\ Nothing \in Entry
  BY DEF Times, Entry
<1>4. /\ disk \in [Files -> [time : Times, good : BOOLEAN]]
      /\ table \in [Files -> Times]
      /\ times \in [Shells -> [Files -> Times]]
      /\ pc \in [Shells -> Pcs]
  BY <1>3 DEF NoTimes, Pcs
<1>5. /\ loaded \in [Shells -> [version : Entry, config : Times,
                                prompt : Entry]]
      /\ serve \in [Shells -> [Commands -> Entry \cup {Own}]]
  BY <1>3 DEF NoFile, Loaded
<1>2. TypeOK
  BY <1>1, <1>3, <1>4, <1>5 DEF TypeOK
<1> QED
  BY <1>2 DEF TypeInv, Kinds, Reloading

LEMMA EditType ==
  ASSUME TypeInv, NEW f \in Files,
         (\E good \in BOOLEAN : Save(f, good)) \/ Remove(f)
  PROVE  TypeInv'
<1> USE ReloadAssumption DEF TypeInv, TypeOK
<1>1. edits \in Nat /\ edits' = edits + 1 /\ edits' \in 0..MaxEdits
  BY DEF Save, Remove
<1>2. Times \subseteq Times' /\ edits + 2 \in Times' /\ 0 \in Times'
  BY <1>1 DEF Times
<1>3. Versions \subseteq Versions' /\ Entry \subseteq Entry'
  BY <1>2 DEF Versions, Entry
<1>4. /\ disk' \in [Files -> [time : Times', good : BOOLEAN]]
      /\ broken' \subseteq Versions'
      /\ unseen' \subseteq Files /\ raced' \subseteq unseen'
  <2>1. CASE \E good \in BOOLEAN : Save(f, good)
    <3>1. PICK good \in BOOLEAN : Save(f, good)
      BY <2>1
    <3>2. /\ disk' = [disk EXCEPT ![f] = [time |-> edits + 2, good |-> good]]
          /\ broken' \subseteq broken \cup {<<f, edits + 2>>}
          /\ unseen' \subseteq unseen \cup {f} /\ raced' \subseteq raced \cup {f}
          /\ unseen \ {f} \subseteq unseen' /\ (f \in raced' => f \in unseen')
      BY <3>1 DEF Save, Version
    <3>3. disk' \in [Files -> [time : Times', good : BOOLEAN]]
      BY <1>2, <3>2
    <3>4. broken' \subseteq Versions'
      BY <1>2, <1>3, <3>2 DEF Versions
    <3> QED
      BY <3>2, <3>3, <3>4
  <2>2. CASE Remove(f)
    <3>1. disk' \in [Files -> [time : Times', good : BOOLEAN]]
      BY <1>2, <2>2 DEF Remove
    <3> QED
      BY <1>3, <2>2, <3>1 DEF Remove
  <2> QED
    BY <2>1, <2>2
<1>5. UNCHANGED <<table, nos, pc, toCopy, pollVars, loaded, serve, overtaken,
                  undone>>
  BY DEF Save, Remove
<1>6. /\ table' \in [Files -> Times']
      /\ times' \in [Shells -> [Files -> Times']]
  BY <1>2, <1>5 DEF pollVars
<1>7. nos' \in [Hosts -> [Items -> Entry']]
  BY <1>3, <1>5
<1>8. loaded' \in [Shells -> [version : Entry', config : Times',
                              prompt : Entry']]
  BY <1>2, <1>3, <1>5
<1>9. serve' \in [Shells -> [Commands -> Entry' \cup {Own}]]
  BY <1>3, <1>5
<1>10. TypeOK'
  BY <1>1, <1>4, <1>5, <1>6, <1>7, <1>8, <1>9 DEF pollVars
<1>11. Kinds'
  BY <1>3, <1>5 DEF pollVars, Kinds
<1> QED
  BY <1>10, <1>11

(* The steps that change no time: the sets of the types stay.              *)
LEMMA SameTimes ==
  ASSUME UNCHANGED edits
  PROVE  Times' = Times /\ Versions' = Versions /\ Entry' = Entry
BY DEF Times, Versions, Entry

LEMMA CopyType ==
  ASSUME TypeInv, NEW s \in Shells,
         Connect(s) \/ CopyCommand(s) \/ CopyFails(s) \/ CopyEnds(s)
  PROVE  TypeInv'
<1>1. UNCHANGED <<diskVars, table, nos, pollVars, loaded, unseen, raced,
                  overtaken, undone>>
  BY DEF Connect, CopyCommand, CopyFails, CopyEnds
<1>2. Times' = Times /\ Versions' = Versions /\ Entry' = Entry
  BY <1>1, SameTimes DEF diskVars
<1>3. /\ pc' \in [Shells -> Pcs] /\ toCopy' \in [Shells -> SUBSET Commands]
      /\ \A r \in Shells : pc'[r] \in Reloading => pc'[r] = pc[r]
  <2>1. toCopy' \in [Shells -> SUBSET Commands]
    BY DEF TypeInv, TypeOK, Connect, CopyCommand, CopyFails, CopyEnds, Defined
  <2>2. \/ UNCHANGED pc
        \/ \E there \in {"copy", "failed", "idle"} :
             pc' = [pc EXCEPT ![s] = there]
    BY DEF Connect, CopyCommand, CopyFails, CopyEnds, Goto
  <2> QED
    BY <2>1, <2>2 DEF TypeInv, TypeOK, Pcs, Reloading
<1>4. serve' \in [Shells -> [Commands -> Entry \cup {Own}]]
  <2>1. CASE Connect(s) \/ CopyFails(s)
    BY <2>1 DEF TypeInv, TypeOK, Connect, CopyFails
  <2>2. CASE CopyCommand(s)
    <3>1. \A c \in Commands : nos[HostOf[s]][c] \in Entry
      BY ReloadAssumption DEF TypeInv, TypeOK, Items
    <3> QED
      BY <2>2, <3>1 DEF TypeInv, TypeOK, CopyCommand
  <2>3. CASE CopyEnds(s)
    BY <2>3 DEF TypeInv, TypeOK, CopyEnds
  <2> QED
    BY <2>1, <2>2, <2>3
<1>5. TypeOK'
  BY <1>1, <1>2, <1>3, <1>4
  DEF TypeInv, TypeOK, diskVars, pollVars, Reloading
<1>6. Kinds'
  BY <1>1, <1>2, <1>3 DEF TypeInv, Kinds, pollVars, Reloading
<1> QED
  BY <1>5, <1>6 DEF TypeInv
LEMMA PollType ==
  ASSUME TypeInv, NEW s \in Shells,
         \/ Walk(s) \/ TestTable(s) \/ StatBase(s) \/ FillTable(s)
         \/ NewFiles(s) \/ ReadOld(s) \/ StatModified(s) \/ StatAgain(s)
         \/ RecordTimes(s)
  PROVE  TypeInv'
<1> DEFINE Polls == \/ Walk(s) \/ TestTable(s) \/ StatBase(s) \/ FillTable(s)
                    \/ NewFiles(s) \/ ReadOld(s) \/ StatModified(s)
                    \/ StatAgain(s) \/ RecordTimes(s)
<1>1. UNCHANGED <<diskVars, nos, toCopy, loaded, serve, overtaken, undone>>
  BY DEF Walk, TestTable, StatBase, FillTable, NewFiles, ReadOld,
     StatModified, StatAgain, RecordTimes
<1>2. Times' = Times /\ Versions' = Versions /\ Entry' = Entry
  BY <1>1, SameTimes DEF diskVars
<1>3. 0 \in Times /\ StatAll(s) \in [Files -> Times]
  BY DEF TypeInv, TypeOK, StatAll, Times
<1>4. /\ table' \in [Files -> Times]
      /\ times' \in [Shells -> [Files -> Times]]
  <2>1. NoTimes \in [Files -> Times]
    BY <1>3 DEF NoTimes
  <2>2. /\ table' \in {table, times[s]}
        /\ \/ times' = times
           \/ \E u \in {NoTimes, table, StatAll(s)} :
                times' = [times EXCEPT ![s] = u]
    BY DEF Walk, TestTable, StatBase, FillTable, NewFiles, ReadOld,
       StatModified, StatAgain, RecordTimes, pollVars
  <2>3. table \in [Files -> Times] /\ times \in [Shells -> [Files -> Times]]
    BY DEF TypeInv, TypeOK
  <2>4. table' \in [Files -> Times]
    BY <2>2, <2>3
  <2>5. ASSUME NEW u \in [Files -> Times], times' = [times EXCEPT ![s] = u]
        PROVE  times' \in [Shells -> [Files -> Times]]
    BY <2>3, <2>5
  <2> QED
    BY <1>3, <2>1, <2>2, <2>3, <2>4, <2>5
<1>5. /\ files' \in [Shells -> SUBSET Files]
      /\ unseen' \subseteq Files /\ raced' \subseteq unseen'
  <2>1. /\ \/ files' = files
           \/ \E fs \in SUBSET Files : files' = [files EXCEPT ![s] = fs]
        /\ \/ UNCHANGED <<unseen, raced>>
           \/ /\ unseen' = unseen \ Modified(s)
              /\ raced' = raced \ Modified(s)
    BY DEF Walk, TestTable, StatBase, FillTable, NewFiles, ReadOld,
       StatModified, StatAgain, RecordTimes, pollVars
  <2> QED
    BY <2>1 DEF TypeInv, TypeOK
<1>6. \E here, there \in Pcs :
        /\ pc[s] = here /\ pc' = [pc EXCEPT ![s] = there]
        /\ there \notin {"device", "commit"}
        /\ \/ there \notin Reloading
           \/ here \in Reloading /\ changed' = changed
           \/ StatModified(s)
  BY DEF Walk, TestTable, StatBase, FillTable, NewFiles, ReadOld,
     StatModified, StatAgain, RecordTimes, Goto, Pcs, Polling, Reloading
<1>7. /\ changed' \in [Shells -> SUBSET Files]
      /\ \A r \in Shells : r # s => changed'[r] = changed[r]
      /\ StatModified(s) => changed'[s] \subseteq Sources
  <2>1. CASE StatModified(s)
    <3>1. Corresponding(changed[s] \cup Modified(s)) \subseteq Sources
      BY DEF TypeInv, TypeOK, Corresponding, Modified, Sources, Files
    <3> QED
      BY <2>1, <3>1 DEF TypeInv, TypeOK, StatModified, Files
  <2>2. CASE ~StatModified(s)
    <3>1. \/ changed' = changed
          \/ changed' = [changed EXCEPT ![s] = {f \in files[s] : table[f] = 0}]
      BY <2>2 DEF Walk, TestTable, StatBase, FillTable, NewFiles, ReadOld,
         StatAgain, RecordTimes, pollVars
    <3>2. {f \in files[s] : table[f] = 0} \subseteq Files
      BY DEF TypeInv, TypeOK
    <3> QED
      BY <2>2, <3>1, <3>2 DEF TypeInv, TypeOK
  <2> QED
    BY <2>1, <2>2
<1>8. Kinds'
  BY <1>1, <1>2, <1>6, <1>7 DEF TypeInv, TypeOK, Kinds, Reloading
<1>10. pc' \in [Shells -> Pcs]
  BY <1>6 DEF TypeInv, TypeOK
<1>9. TypeOK'
  BY <1>1, <1>2, <1>4, <1>5, <1>7, <1>8, <1>10
  DEF TypeInv, TypeOK, Kinds, diskVars, Reloading
<1> QED
  BY <1>8, <1>9 DEF TypeInv

LEMMA LoadType ==
  ASSUME TypeInv, NEW s \in Shells,
         LoadFails(s) \/ LoadYaml(s) \/ LoadModule(s)
  PROVE  TypeInv'
<1>1. UNCHANGED <<diskVars, table, nos, toCopy, files, times, serve, unseen,
                  raced, undone>>
  BY DEF LoadFails, LoadYaml, LoadModule
<1>2. Times' = Times /\ Versions' = Versions /\ Entry' = Entry
  BY <1>1, SameTimes DEF diskVars
<1>3. changed[s] \subseteq Sources
  BY DEF TypeInv, Kinds, Reloading, LoadFails, LoadYaml, LoadModule, Goto
<1>4. /\ changed' \in [Shells -> SUBSET Files]
      /\ \A r \in Shells : changed'[r] \subseteq changed[r]
  <2>1. PICK f \in Sources : Take(s, f)
    BY DEF LoadFails, LoadYaml, LoadModule, Sources
  <2> QED
    BY <2>1 DEF TypeInv, TypeOK, Take
<1>5. overtaken' \in [Shells -> BOOLEAN]
  BY DEF TypeInv, TypeOK, LoadFails, LoadYaml, LoadModule
<1>6. \A f \in Sources : Version(f, disk[f].time) \in Versions
  BY DEF TypeInv, TypeOK, Version, Versions, Files
<1>7. CASE LoadFails(s)
  <2>1. pc' = pc /\ loaded' = loaded
    BY <1>7 DEF LoadFails
  <2>2. Kinds'
    BY <1>1, <1>2, <1>4, <2>1 DEF TypeInv, Kinds
  <2>3. TypeOK'
    BY <1>1, <1>2, <1>4, <1>5, <2>1, <2>2
    DEF TypeInv, TypeOK, Kinds, Reloading, diskVars, pollVars
  <2> QED
    BY <2>2, <2>3 DEF TypeInv
<1>8. CASE LoadYaml(s)
  <2>1. PICK f \in Yamls :
          loaded' = [loaded EXCEPT ![s] =
            Loaded(Version(f, disk[f].time), MergedPrompt(s, f))]
    BY <1>8 DEF LoadYaml
  <2>2. MergedPrompt(s, f) \in Entry
    BY <1>6, ReloadAssumption
    DEF MergedPrompt, TypeInv, TypeOK, Entry, Items, Sources
  <2>3. /\ loaded' \in [Shells -> [version : Entry, config : Times,
                                   prompt : Entry]]
        /\ loaded'[s].version \in Versions
        /\ loaded'[s].version[1] \in Sources
        /\ \A r \in Shells : r # s => loaded'[r] = loaded[r]
    BY <1>6, <2>1, <2>2
    DEF TypeInv, TypeOK, Entry, Times, Sources, Version, Loaded
  <2>4. pc[s] = "load" /\ pc' = [pc EXCEPT ![s] = "commit"]
    BY <1>8 DEF LoadYaml, Goto
  <2>5. Kinds'
    BY <1>1, <1>2, <1>3, <1>4, <2>3, <2>4
    DEF TypeInv, TypeOK, Kinds, Reloading
  <2>6. TypeOK'
    BY <1>1, <1>2, <1>4, <1>5, <2>3, <2>4, <2>5
    DEF TypeInv, TypeOK, Kinds, Reloading, diskVars, Pcs
  <2> QED
    BY <2>5, <2>6 DEF TypeInv
<1>9. CASE LoadModule(s)
  <2>1. PICK f \in Modules :
          loaded' = [loaded EXCEPT ![s] =
            Loaded(Version(f, disk[f].time), Nothing)]
    BY <1>9 DEF LoadModule
  <2>3. /\ loaded' \in [Shells -> [version : Entry, config : Times,
                                   prompt : Entry]]
        /\ loaded'[s].version \in Versions
        /\ loaded'[s].version[1] \in Modules
        /\ \A r \in Shells : r # s => loaded'[r] = loaded[r]
    BY <1>6, <2>1 DEF TypeInv, TypeOK, Entry, Times, Sources, Version, Loaded
  <2>4. pc[s] = "load" /\ pc' = [pc EXCEPT ![s] = "device"]
    BY <1>9 DEF LoadModule, Goto
  <2>5. Kinds'
    BY <1>1, <1>2, <1>3, <1>4, <2>3, <2>4
    DEF TypeInv, TypeOK, Kinds, Reloading
  <2>6. TypeOK'
    BY <1>1, <1>2, <1>4, <1>5, <2>3, <2>4, <2>5
    DEF TypeInv, TypeOK, Kinds, Reloading, diskVars, Pcs
  <2> QED
    BY <2>5, <2>6 DEF TypeInv
<1> QED
  BY <1>7, <1>8, <1>9

(* What a commit puts in place is of a type that a Nos holds.              *)
LEMMA CommittedType ==
  ASSUME TypeInv, NEW s \in Shells, pc[s] = "commit", NEW i \in Items
  PROVE  Committed(s, i) \in Entry
<1>1. /\ loaded[s].version \in Versions /\ loaded[s].version[1] \in Sources
      /\ loaded[s].prompt \in Entry /\ loaded[s].config \in Times
      /\ nos[HostOf[s]][i] \in Entry
  BY ReloadAssumption DEF TypeInv, TypeOK, Kinds
<1>2. CASE loaded[s].version[1] \in Modules
  <2>1. Version(ConfigOf(s), loaded[s].config) \in Entry
    BY <1>1, <1>2, ReloadAssumption
    DEF Version, ConfigOf, Entry, Versions, Files
  <2>2. loaded[s].version[1] \notin Yamls
    BY <1>2, ReloadAssumption
  <2> QED
    BY <1>1, <1>2, <2>1, <2>2 DEF Committed, Entry
<1>3. CASE loaded[s].version[1] \in Yamls
  <2>1. loaded[s].version[1] \notin Modules
    BY <1>3, ReloadAssumption
  <2> QED
    BY <1>1, <1>3, <2>1 DEF Committed, Entry
<1> QED
  BY <1>1, <1>2, <1>3 DEF Sources

LEMMA CommitType ==
  ASSUME TypeInv, NEW s \in Shells,
         \/ BuildDevice(s) \/ DeviceFails(s) \/ Commit(s) \/ Update(s)
         \/ ReloadEnds(s)
  PROVE  TypeInv'
<1>1. UNCHANGED <<diskVars, table, toCopy, pollVars, unseen, raced>>
  BY DEF BuildDevice, DeviceFails, Commit, Update, ReloadEnds
<1>2. Times' = Times /\ Versions' = Versions /\ Entry' = Entry
  BY <1>1, SameTimes DEF diskVars
<1>3. \E here, there \in Pcs :
        /\ pc[s] = here /\ pc' = [pc EXCEPT ![s] = there]
        /\ here \in Reloading /\ there # "device"
        /\ there = "commit" => BuildDevice(s)
  BY DEF BuildDevice, DeviceFails, Commit, Update, ReloadEnds, Goto, Pcs,
     Reloading
<1>4. nos' \in [Hosts -> [Items -> Entry]]
  <2>1. CASE Commit(s)
    BY <2>1, CommittedType DEF TypeInv, TypeOK, Commit, Goto
  <2>2. CASE ~Commit(s)
    BY <2>2 DEF TypeInv, TypeOK, BuildDevice, DeviceFails, Update, ReloadEnds
  <2> QED
    BY <2>1, <2>2
<1>5. /\ loaded' \in [Shells -> [version : Entry, config : Times,
                                 prompt : Entry]]
      /\ \A r \in Shells : r # s => loaded'[r] = loaded[r]
      /\ BuildDevice(s) => loaded'[s].version = loaded[s].version
  <2>1. loaded \in [Shells -> [version : Entry, config : Times,
                              prompt : Entry]]
    BY DEF TypeInv, TypeOK
  <2>2. CASE BuildDevice(s)
    <3>1. disk[ConfigOf(s)].time \in Times
      <4>1. loaded[s].version[1] \in Modules
        BY <2>2 DEF BuildDevice, Goto, TypeInv, Kinds
      <4> QED
        BY <4>1, ReloadAssumption DEF ConfigOf, TypeInv, TypeOK, Files
    <3> QED
      BY <2>1, <2>2, <3>1 DEF BuildDevice
  <2>3. CASE DeviceFails(s) \/ Commit(s)
    <3>1. NoFile \in [version : Entry, config : Times, prompt : Entry]
      BY DEF NoFile, Loaded, Entry, Times, TypeInv, TypeOK
    <3>2. loaded' = [loaded EXCEPT ![s] = NoFile] /\ ~BuildDevice(s)
      BY <2>3 DEF DeviceFails, Commit, BuildDevice, Goto
    <3> QED
      BY <2>1, <3>1, <3>2
  <2>4. CASE Update(s) \/ ReloadEnds(s)
    BY <2>1, <2>4 DEF Update, ReloadEnds, BuildDevice
  <2> QED
    BY <2>2, <2>3, <2>4
<1>6. serve' \in [Shells -> [Commands -> Entry \cup {Own}]]
  <2>1. CASE Update(s)
    <3>1. \A c \in Commands : nos[HostOf[s]][c] \in Entry
      BY ReloadAssumption DEF TypeInv, TypeOK, Items
    <3>2. serve \in [Shells -> [Commands -> Entry \cup {Own}]]
      BY DEF TypeInv, TypeOK
    <3> QED
      BY <2>1, <3>1, <3>2 DEF Update
  <2>2. CASE ~Update(s)
    BY <2>2 DEF TypeInv, TypeOK, BuildDevice, DeviceFails, Commit, ReloadEnds
  <2> QED
    BY <2>1, <2>2
<1>7. overtaken' \in [Shells -> BOOLEAN] /\ undone' \in BOOLEAN
  <2>1. CASE Commit(s)
    BY <2>1 DEF TypeInv, TypeOK, Commit
  <2>2. CASE ~Commit(s)
    BY <2>2 DEF TypeInv, TypeOK, BuildDevice, DeviceFails, Update, ReloadEnds
  <2> QED
    BY <2>1, <2>2
<1>8. Kinds'
  <2>1. BuildDevice(s) => pc[s] = "device"
    BY DEF BuildDevice, Goto
  <2> QED
    BY <1>1, <1>2, <1>3, <1>5, <2>1
    DEF TypeInv, TypeOK, Kinds, pollVars, Reloading, Sources
<1>9. pc' \in [Shells -> Pcs]
  BY <1>3 DEF TypeInv, TypeOK
<1>10. TypeOK'
  BY <1>1, <1>2, <1>4, <1>5, <1>6, <1>7, <1>8, <1>9
  DEF TypeInv, TypeOK, Kinds, diskVars, pollVars, Reloading
<1> QED
  BY <1>8, <1>10 DEF TypeInv

LEMMA StutterType == ASSUME TypeInv, UNCHANGED vars PROVE TypeInv'
BY DEF TypeInv, TypeOK, Kinds, Times, Versions, Entry, vars, diskVars,
   pollVars

LEMMA NextType == ASSUME TypeInv, [Next]_vars PROVE TypeInv'
<1>1. CASE UNCHANGED vars
  BY <1>1, StutterType
<1>2. ASSUME NEW s \in Shells, Step(s) PROVE TypeInv'
  BY <1>2, CopyType, PollType, LoadType, CommitType DEF Step
<1>3. CASE \/ \E f \in Files, good \in BOOLEAN : Save(f, good)
           \/ \E f \in Vanishing : Remove(f)
  BY <1>3, EditType, ReloadAssumption
<1> QED
  BY <1>1, <1>2, <1>3 DEF Next

(* Types: no recorded time, and no version in a Nos or a shell, is later   *)
(* than the last edit.                                                     *)
THEOREM TypeCorrect == Spec => []TypeOK
<1>1. TypeInv /\ [Next]_vars => TypeInv'
  BY NextType
<1>2. TypeInv => TypeOK
  BY DEF TypeInv
<1> QED
  BY <1>1, <1>2, InitType, PTL DEF Spec

-----------------------------------------------------------------------------
(* No edit is forgotten                                                    *)

(* A file whose edit is still to be reported is on disk, and not in the    *)
(* table as it is.  A shell that polls began after the edit: it has found  *)
(* the file, has not yet looked for modified files and, if it is about to, *)
(* compares with a time that is not the file's.                            *)
Due == unseen \ raced

DueInTime ==
  \A f \in Due : /\ disk[f].time # 0 /\ table[f] # disk[f].time
                 /\ table # NoTimes
DueInPolls ==
  \A s \in Shells, f \in Due :
    pc[s] \in Polling => /\ pc[s] \in {"test", "new", "old", "stat"}
                         /\ f \in files[s]
                         /\ pc[s] = "stat" => times[s][f] # disk[f].time
DueInv == DueInTime /\ DueInPolls

LEMMA InitDue == Init => DueInv
BY DEF Init, DueInv, DueInTime, DueInPolls, Due

LEMMA NextDue ==
  ASSUME TypeInv, DueInv, [Next]_vars
  PROVE  DueInv'
<1>1. CASE UNCHANGED vars
  BY <1>1 DEF vars, diskVars, pollVars, DueInv, DueInTime, DueInPolls, Due
<1>2. ASSUME NEW f \in Files, NEW good \in BOOLEAN, Save(f, good)
      PROVE  DueInv'
  <2>1. /\ UNCHANGED <<table, pc, files, times>>
        /\ \A g \in Files : g # f => disk'[g] = disk[g]
        /\ disk'[f].time = edits + 2
    BY <1>2 DEF Save, pollVars, TypeInv, TypeOK
  <2>2. \A g \in Files : g # f /\ g \in Due' => g \in Due
    BY <1>2 DEF Save, Due
  <2>3. ASSUME f \in Due'
        PROVE  /\ table # NoTimes /\ table[f] # edits + 2 /\ edits + 2 # 0
               /\ \A s \in Shells : pc[s] \notin Polling
    BY <1>2, <2>3 DEF Save, Due, TypeInv, TypeOK, Times
  <2>4. Due' \subseteq Files
    BY <1>2 DEF Save, Due, TypeInv, TypeOK
  <2> QED
    BY <2>1, <2>2, <2>3, <2>4 DEF DueInv, DueInTime, DueInPolls
<1>3. ASSUME NEW f \in Files, Remove(f) PROVE DueInv'
  <2>1. /\ UNCHANGED <<table, pc, files, times>>
        /\ \A g \in Files : g # f => disk'[g] = disk[g]
        /\ Due' \subseteq Due \ {f} /\ Due \subseteq Files
    BY <1>3 DEF Remove, pollVars, TypeInv, TypeOK, Due
  <2> QED
    BY <2>1 DEF DueInv, DueInTime, DueInPolls
<1>4. ASSUME NEW s \in Shells, Step(s) PROVE DueInv'
  <2>1. UNCHANGED disk /\ Due \subseteq Files
    BY <1>4 DEF Step, Connect, CopyCommand, CopyFails, CopyEnds, Walk,
       TestTable, StatBase, FillTable, NewFiles, ReadOld, StatModified,
       StatAgain, RecordTimes, LoadFails, LoadYaml, LoadModule, BuildDevice,
       DeviceFails, Commit, Update, ReloadEnds, diskVars, Due, TypeInv, TypeOK
  <2>2. pc \in [Shells -> Pcs]
    BY DEF TypeInv, TypeOK
  <2>3. CASE Walk(s)
    <3>1. Due' = Due /\ table' = table /\ times' = times
      BY <2>3 DEF Walk, Due
    <3>2. /\ \A r \in Shells : r # s => pc'[r] = pc[r] /\ files'[r] = files[r]
          /\ pc'[s] = "test" /\ Due \subseteq files'[s]
      BY <2>1, <2>2, <2>3
      DEF Walk, Goto, DueInv, DueInTime, TypeInv, TypeOK
    <3> QED
      BY <2>1, <3>1, <3>2 DEF DueInv, DueInTime, DueInPolls
  <2>4. CASE TestTable(s)
    <3>1. Due' = Due /\ table' = table /\ times' = times /\ files' = files
      BY <2>4 DEF TestTable, Due, pollVars
    <3>2. /\ \A r \in Shells : r # s => pc'[r] = pc[r]
          /\ pc[s] = "test" /\ (Due # {} => pc'[s] = "new")
      BY <2>2, <2>4 DEF TestTable, Goto, DueInv, DueInTime
    <3> QED
      BY <2>1, <3>1, <3>2
      DEF DueInv, DueInTime, DueInPolls, Polling
  <2>5. CASE StatBase(s) \/ FillTable(s) \/ StatAgain(s) \/ RecordTimes(s)
    <3>1. pc[s] \in Polling \ {"test", "new", "old", "stat"}
      BY <2>5 DEF StatBase, FillTable, StatAgain, RecordTimes, Goto, Polling
    <3>2. Due = {}
      BY <3>1 DEF DueInv, DueInPolls
    <3>3. Due' = Due
      BY <2>5 DEF StatBase, FillTable, StatAgain, RecordTimes, Due
    <3> QED
      BY <3>2, <3>3 DEF DueInv, DueInTime, DueInPolls
  <2>6. CASE NewFiles(s)
    <3>1. Due' = Due /\ table' = table /\ times' = times /\ files' = files
      BY <2>6 DEF NewFiles, Due
    <3>2. /\ \A r \in Shells : r # s => pc'[r] = pc[r]
          /\ pc[s] = "new" /\ pc'[s] = "old"
      BY <2>2, <2>6 DEF NewFiles, Goto
    <3> QED
      BY <2>1, <3>1, <3>2 DEF DueInv, DueInTime, DueInPolls, Polling
  <2>7. CASE ReadOld(s)
    <3>1. Due' = Due /\ table' = table /\ files' = files
      BY <2>7 DEF ReadOld, Due
    <3>2. /\ \A r \in Shells : r # s => pc'[r] = pc[r] /\ times'[r] = times[r]
          /\ pc[s] = "old" /\ pc'[s] = "stat" /\ times'[s] = table
      BY <2>2, <2>7 DEF ReadOld, Goto, TypeInv, TypeOK
    <3> QED
      BY <2>1, <3>1, <3>2 DEF DueInv, DueInTime, DueInPolls, Polling
  <2>8. CASE StatModified(s)
    <3>1. Due \subseteq Modified(s)
      <4>1. pc[s] = "stat" /\ pc[s] \in Polling
        BY <2>8 DEF StatModified, Goto, Polling
      <4> QED
        BY <4>1 DEF DueInv, DueInTime, DueInPolls, Modified
    <3>2. Due' = {}
      BY <2>8, <3>1 DEF StatModified, Due
    <3> QED
      BY <3>2 DEF DueInv, DueInTime, DueInPolls
  <2>9. CASE \/ Connect(s) \/ CopyCommand(s) \/ CopyFails(s) \/ CopyEnds(s)
             \/ LoadFails(s) \/ LoadYaml(s) \/ LoadModule(s) \/ BuildDevice(s)
             \/ DeviceFails(s) \/ Commit(s) \/ Update(s) \/ ReloadEnds(s)
    <3>1. Due' = Due /\ table' = table /\ times' = times /\ files' = files
      BY <2>9 DEF Connect, CopyCommand, CopyFails, CopyEnds, LoadFails,
         LoadYaml, LoadModule, BuildDevice, DeviceFails, Commit, Update,
         ReloadEnds, pollVars, Due
    <3>2. \/ pc' = pc
          \/ \E there \in Pcs \ Polling : pc' = [pc EXCEPT ![s] = there]
      BY <2>9 DEF Connect, CopyCommand, CopyFails, CopyEnds, LoadFails,
         LoadYaml, LoadModule, BuildDevice, DeviceFails, Commit, Update,
         ReloadEnds, Goto, Pcs, Polling
    <3>3. \A r \in Shells : pc'[r] \in Polling => pc'[r] = pc[r]
      BY <2>2, <3>2
    <3> QED
      BY <2>1, <3>1, <3>3 DEF DueInv, DueInTime, DueInPolls
  <2> QED
    BY <1>4, <2>3, <2>4, <2>5, <2>6, <2>7, <2>8, <2>9 DEF Step
<1> QED
  BY <1>1, <1>2, <1>3, <1>4, ReloadAssumption DEF Next

(* No edit is forgotten that did not race with a poll, however many shells *)
(* poll at once and read and replace the table without a lock.             *)
THEOREM ForgottenCorrect == Spec => []NothingForgotten
<1>1. Init => TypeInv /\ DueInv
  BY InitType, InitDue
<1>2. TypeInv /\ DueInv /\ [Next]_vars => (TypeInv /\ DueInv)'
  BY NextType, NextDue
<1>3. DueInv => NothingForgotten
  BY DEF DueInv, DueInTime, Due, NothingForgotten
<1> QED
  BY <1>1, <1>2, <1>3, PTL DEF Spec

-----------------------------------------------------------------------------
(* The prompts that a shell may be about to commit.                        *)
Prompts(s) == {Version(f, disk[f].time) : f \in Sources}
                \cup {nos[HostOf[s]]["prompt"], Nothing}

(* Nothing of a broken file is served                                      *)

Config(s) == Version(ConfigOf(s), loaded[s].config)
WithDevice(s) == pc[s] = "commit" /\ loaded[s].version[1] \in Modules

(* What a shell has read, and not yet committed, is not broken either.     *)
DiskSound ==
  /\ \A f \in Files : disk[f].good => /\ disk[f].time # 0
                                      /\ Version(f, disk[f].time) \notin broken
  /\ \A v \in broken : v[2] >= 2
LoadedSound ==
  \A s \in Shells : /\ loaded[s].version \notin broken
                    /\ loaded[s].prompt \notin broken
                    /\ WithDevice(s) => Config(s) \notin broken
SoundInv == DiskSound /\ LoadedSound /\ BrokenNeverServed

LEMMA InitSound == Init => SoundInv
BY DEF Init, SoundInv, DiskSound, LoadedSound, BrokenNeverServed

LEMMA EditSound ==
  ASSUME TypeInv, SoundInv, NEW f \in Files,
         (\E good \in BOOLEAN : Save(f, good)) \/ Remove(f)
  PROVE  SoundInv'
<1>1. UNCHANGED <<nos, pc, loaded, serve>>
  BY DEF Save, Remove
<1>2. edits \in Nat /\ broken \subseteq Versions
  BY DEF TypeInv, TypeOK
<1>3. broken' \subseteq broken \cup {<<f, edits + 2>>}
  BY DEF Save, Remove, Version
<1>4. ASSUME NEW v, v \in Entry \cup {Own} \/ v \in Files \X Times,
             v \notin broken
      PROVE  v \notin broken'
  <2>1. v # <<f, edits + 2>>
    BY <1>2, <1>4 DEF Entry, Versions, Times, Nothing, Own
  <2> QED
    BY <1>3, <1>4, <2>1
<1>5. BrokenNeverServed'
  <2>1. /\ \A h \in Hosts, i \in Items : nos[h][i] \in Entry
        /\ \A s \in Shells, c \in Commands : serve[s][c] \in Entry \cup {Own}
    BY DEF TypeInv, TypeOK
  <2> QED
    BY <1>1, <1>4, <2>1 DEF SoundInv, BrokenNeverServed
<1>6. LoadedSound'
  <2>1. \A s \in Shells : /\ loaded[s].version \in Entry
                          /\ loaded[s].prompt \in Entry
                          /\ loaded[s].config \in Times
    BY DEF TypeInv, TypeOK
  <2>2. \A s \in Shells : WithDevice(s) => Config(s) \in Files \X Times
    BY <2>1, ReloadAssumption
    DEF WithDevice, Config, ConfigOf, Version, Files
  <2>3. \A s \in Shells : WithDevice(s)' = WithDevice(s) /\ Config(s)' = Config(s)
    BY <1>1 DEF WithDevice, Config, ConfigOf, Version
  <2> QED
    BY <1>1, <1>4, <2>1, <2>2, <2>3 DEF SoundInv, LoadedSound
<1>7. DiskSound'
  <2>1. \A g \in Files \ {f} : disk'[g] = disk[g]
    BY DEF Save, Remove, TypeInv, TypeOK
  <2>2. disk'[f].good => /\ disk'[f].time = edits + 2 /\ broken' = broken
                         /\ edits + 2 # 0
    BY <1>2 DEF Save, Remove, TypeInv, TypeOK
  <2>3. <<f, edits + 2>> \notin broken
    BY <1>2 DEF Versions, Times
  <2>4. \A g \in Files : <<g, disk[g].time>> \in Files \X Times
    BY DEF TypeInv, TypeOK
  <2>5. \A v \in broken' : v[2] >= 2
    BY <1>2, <1>3 DEF SoundInv, DiskSound
  <2> QED
    BY <1>4, <2>1, <2>2, <2>3, <2>4, <2>5
    DEF SoundInv, DiskSound, Version
<1> QED
  BY <1>5, <1>6, <1>7 DEF SoundInv

(* A commit puts in place what was loaded, or what was there.              *)
LEMMA CommittedIs ==
  ASSUME TypeInv, NEW s \in Shells, pc[s] = "commit", NEW i \in Items
  PROVE  \/ Committed(s, i) = nos[HostOf[s]][i]
         \/ Committed(s, i) = loaded[s].version
         \/ /\ Committed(s, i) = loaded[s].prompt
            /\ loaded[s].version[1] \in Yamls /\ i = "prompt"
         \/ Committed(s, i) = Config(s) /\ WithDevice(s)
<1>1. /\ loaded[s].version[1] \in Sources
      /\ ~(loaded[s].version[1] \in Yamls /\ loaded[s].version[1] \in Modules)
  BY ReloadAssumption DEF TypeInv, Kinds
<1>2. CASE i = "prompt"
  BY <1>1, <1>2 DEF Committed, Sources
<1>3. CASE i = "device"
  BY <1>1, <1>3 DEF Committed, Config, WithDevice
<1>4. CASE i # "prompt" /\ i # "device"
  BY <1>4 DEF Committed
<1> QED
  BY <1>2, <1>3, <1>4

LEMMA StepSound ==
  ASSUME TypeInv, SoundInv, NEW s \in Shells, Step(s)
  PROVE  SoundInv'
<1>1. UNCHANGED <<disk, broken>>
  BY DEF Step, Connect, CopyCommand, CopyFails, CopyEnds, Walk, TestTable,
     StatBase, FillTable, NewFiles, ReadOld, StatModified, StatAgain,
     RecordTimes, LoadFails, LoadYaml, LoadModule, BuildDevice, DeviceFails,
     Commit, Update, ReloadEnds, diskVars
<1>2. DiskSound'
  BY <1>1 DEF SoundInv, DiskSound, Version
<1>3. Nothing \notin broken /\ Own \notin broken
  BY DEF Nothing, Own, SoundInv, DiskSound
<1>4. \A c \in Commands : nos[HostOf[s]][c] \notin broken
  BY ReloadAssumption DEF SoundInv, BrokenNeverServed, Items
<1>5. CASE \/ Walk(s) \/ TestTable(s) \/ StatBase(s) \/ FillTable(s)
           \/ NewFiles(s) \/ ReadOld(s) \/ StatModified(s) \/ StatAgain(s)
           \/ RecordTimes(s) \/ Connect(s) \/ CopyFails(s) \/ LoadFails(s)
           \/ ReloadEnds(s) \/ CopyCommand(s) \/ CopyEnds(s) \/ Update(s)
  <2>1. UNCHANGED <<nos, loaded>>
    BY <1>5 DEF Walk, TestTable, StatBase, FillTable, NewFiles, ReadOld,
       StatModified, StatAgain, RecordTimes, Connect, CopyFails, LoadFails,
       ReloadEnds, CopyCommand, CopyEnds, Update
  <2>2. \/ pc' = pc
        \/ \E there \in Pcs \ {"commit"} : pc' = [pc EXCEPT ![s] = there]
    BY <1>5 DEF Walk, TestTable, StatBase, FillTable, NewFiles, ReadOld,
       StatModified, StatAgain, RecordTimes, Connect, CopyFails, LoadFails,
       ReloadEnds, CopyCommand, CopyEnds, Update, Goto, Pcs, Polling
  <2>3. \A r \in Shells : pc'[r] = "commit" => pc[r] = "commit"
    BY <2>2 DEF TypeInv, TypeOK
  <2>4. LoadedSound'
    BY <1>1, <2>1, <2>3
    DEF SoundInv, LoadedSound, WithDevice, Config, ConfigOf, Version
  <2>5. \A r \in Shells, c \in Commands :
          serve'[r][c] \in {serve[r][c], nos[HostOf[s]][c], Own}
    <3>1. CASE CopyCommand(s)
      BY <3>1 DEF CopyCommand, TypeInv, TypeOK
    <3>2. CASE CopyEnds(s)
      BY <3>2 DEF CopyEnds, TypeInv, TypeOK
    <3>3. CASE Update(s)
      BY <3>3 DEF Update, TypeInv, TypeOK
    <3>4. CASE UNCHANGED serve
      BY <3>4
    <3> QED
      BY <1>5, <3>1, <3>2, <3>3, <3>4 DEF Walk, TestTable, StatBase,
         FillTable, NewFiles, ReadOld, StatModified, StatAgain, RecordTimes,
         Connect, CopyFails, LoadFails, ReloadEnds
  <2>6. BrokenNeverServed'
    BY <1>1, <1>3, <1>4, <2>1, <2>5 DEF SoundInv, BrokenNeverServed
  <2> QED
    BY <1>2, <2>4, <2>6 DEF SoundInv
<1>6. CASE LoadYaml(s) \/ LoadModule(s)
  <2>1. UNCHANGED <<nos, serve>>
    BY <1>6 DEF LoadYaml, LoadModule
  <2>2. PICK f \in Sources, p \in Prompts(s) :
          /\ disk[f].good
          /\ loaded' = [loaded EXCEPT ![s] =
                          Loaded(Version(f, disk[f].time), p)]
          /\ p \in {Version(f, disk[f].time), nos[HostOf[s]]["prompt"], Nothing}
          /\ pc' = [pc EXCEPT ![s] = IF f \in Modules THEN "device"
                                     ELSE "commit"]
    BY <1>6, ReloadAssumption
    DEF LoadYaml, LoadModule, MergedPrompt, Readable, Sources, Goto, Prompts
  <2>3. /\ loaded'[s].version = Version(f, disk[f].time)
        /\ loaded'[s].version \notin broken /\ loaded'[s].prompt \notin broken
    <3>1. /\ loaded'[s] = Loaded(Version(f, disk[f].time), p)
          /\ loaded'[s].version = Version(f, disk[f].time)
          /\ loaded'[s].prompt = p
      BY <2>2 DEF Loaded, TypeInv, TypeOK
    <3>2. Version(f, disk[f].time) \notin broken
      BY <2>2 DEF SoundInv, DiskSound, Files
    <3>3. nos[HostOf[s]]["prompt"] \notin broken
      BY ReloadAssumption DEF SoundInv, BrokenNeverServed, Items
    <3> QED
      BY <1>3, <2>2, <3>1, <3>2, <3>3
  <2>4. ~WithDevice(s)'
    <3>1. loaded'[s].version[1] = f
      BY <2>3 DEF Version
    <3>2. f \in Modules => pc'[s] # "commit"
      BY <2>2 DEF TypeInv, TypeOK
    <3> QED
      BY <3>1, <3>2 DEF WithDevice
  <2>5. \A r \in Shells : r # s =>
          /\ loaded'[r] = loaded[r]
          /\ WithDevice(r)' = WithDevice(r) /\ Config(r)' = Config(r)
    BY <2>2
    DEF TypeInv, TypeOK, WithDevice, Config, ConfigOf, Version
  <2>6. LoadedSound'
    BY <1>1, <2>3, <2>4, <2>5 DEF SoundInv, LoadedSound
  <2> QED
    BY <1>1, <1>2, <2>1, <2>6 DEF SoundInv, BrokenNeverServed
<1>7. CASE BuildDevice(s)
  <2>1. UNCHANGED <<nos, serve>> /\ pc[s] = "device"
    BY <1>7 DEF BuildDevice, Goto
  <2>2. ConfigOf(s) \in Files
    BY <2>1, ReloadAssumption DEF ConfigOf, TypeInv, Kinds, Files
  <2>3. /\ loaded'[s].version = loaded[s].version
        /\ loaded'[s].prompt = loaded[s].prompt
        /\ loaded'[s].config = disk[ConfigOf(s)].time
    BY <1>7 DEF BuildDevice, TypeInv, TypeOK
  <2>4. Config(s)' \notin broken
    BY <1>7, <2>2, <2>3
    DEF BuildDevice, Config, ConfigOf, Version, SoundInv, DiskSound
  <2>5. \A r \in Shells : r # s =>
          /\ loaded'[r] = loaded[r]
          /\ WithDevice(r)' = WithDevice(r) /\ Config(r)' = Config(r)
    BY <1>7
    DEF BuildDevice, Goto, TypeInv, TypeOK, WithDevice, Config, ConfigOf,
        Version
  <2>6. LoadedSound'
    BY <1>1, <2>3, <2>4, <2>5 DEF SoundInv, LoadedSound
  <2> QED
    BY <1>1, <1>2, <2>1, <2>6 DEF SoundInv, BrokenNeverServed
<1>8. CASE DeviceFails(s) \/ Commit(s)
  <2>1. /\ loaded' = [loaded EXCEPT ![s] = NoFile] /\ serve' = serve
        /\ \E there \in Pcs \ {"commit"} : pc' = [pc EXCEPT ![s] = there]
    BY <1>8 DEF DeviceFails, Commit, Goto, Pcs
  <2>2. /\ loaded'[s].version = Nothing /\ loaded'[s].prompt = Nothing
        /\ ~WithDevice(s)'
    BY <2>1 DEF NoFile, Loaded, WithDevice, TypeInv, TypeOK
  <2>3. \A r \in Shells : r # s =>
          /\ loaded'[r] = loaded[r]
          /\ WithDevice(r)' = WithDevice(r) /\ Config(r)' = Config(r)
    BY <2>1
    DEF TypeInv, TypeOK, WithDevice, Config, ConfigOf, Version
  <2>4. LoadedSound'
    BY <1>1, <1>3, <2>2, <2>3 DEF SoundInv, LoadedSound
  <2>5. \A h \in Hosts, i \in Items : nos'[h][i] \notin broken
    <3>1. CASE DeviceFails(s)
      BY <3>1 DEF DeviceFails, SoundInv, BrokenNeverServed
    <3>2. CASE Commit(s)
      <4>1. \A i \in Items : Committed(s, i) \notin broken
        BY <3>2, CommittedIs, ReloadAssumption
        DEF Commit, Goto, SoundInv, LoadedSound, BrokenNeverServed
      <4> QED
        BY <3>2, <4>1 DEF Commit, SoundInv, BrokenNeverServed, TypeInv, TypeOK
    <3> QED
      BY <1>8, <3>1, <3>2
  <2> QED
    BY <1>1, <1>2, <2>1, <2>4, <2>5 DEF SoundInv, BrokenNeverServed
<1> QED
  BY <1>5, <1>6, <1>7, <1>8 DEF Step

LEMMA NextSound ==
  ASSUME TypeInv, SoundInv, [Next]_vars
  PROVE  SoundInv'
<1>1. CASE UNCHANGED vars
  BY <1>1 DEF vars, diskVars, SoundInv, DiskSound, LoadedSound,
     BrokenNeverServed, WithDevice, Config, ConfigOf, Version
<1> QED
  BY <1>1, EditSound, StepSound, ReloadAssumption DEF Next

(* Neither a Nos nor a shell ever holds anything of a file that does not   *)
(* load, whatever is saved, removed, loaded and connected in which order.  *)
THEOREM BrokenCorrect == Spec => []BrokenNeverServed
<1>1. Init => TypeInv /\ SoundInv
  BY InitType, InitSound
<1>2. TypeInv /\ SoundInv /\ [Next]_vars => (TypeInv /\ SoundInv)'
  BY NextType, NextSound
<1>3. SoundInv => BrokenNeverServed
  BY DEF SoundInv
<1> QED
  BY <1>1, <1>2, <1>3, PTL DEF Spec

-----------------------------------------------------------------------------
(* A Nos never goes back                                                   *)

(* No version is newer than its file, as long as that is on disk.          *)
Known(v) == v[1] \in Files /\ disk[v[1]].time # 0 => v[2] <= disk[v[1]].time

(* Nothing in force at host h is a newer version of v's file.              *)
Newest(h, v) == \A i \in Items : nos[h][i][1] = v[1] => nos[h][i][2] <= v[2]

KnownInv ==
  /\ \A h \in Hosts, i \in Items : Known(nos[h][i])
  /\ \A s \in Shells : /\ Known(loaded[s].version) /\ Known(loaded[s].prompt)
                       /\ WithDevice(s) => Known(Config(s))

(* What a shell that nobody has overtaken is about to commit.              *)
LoadedNewest ==
  \A s \in Shells :
    pc[s] \in {"device", "commit"} /\ ~overtaken[s] =>
      /\ Newest(HostOf[s], loaded[s].version)
      /\ WithDevice(s) => Newest(HostOf[s], Config(s))
      /\ pc[s] = "commit" /\ loaded[s].version[1] \in Yamls =>
           loaded[s].prompt \in {loaded[s].version, nos[HostOf[s]]["prompt"]}

NewestInv == KnownInv /\ LoadedNewest

LEMMA InitNewest == Init => NewestInv
<1> SUFFICES ASSUME Init PROVE NewestInv
  OBVIOUS
<1>1. edits \in Nat /\ \A f \in Files : disk[f].time = 1
  BY DEF Init
<1>2. \A h \in Hosts, i \in Items : Known(nos[h][i])
  <2>1. \A h \in Hosts, i \in Items : nos[h][i][2] \in {0, 1}
    BY <1>1, StartType DEF Init, Nothing
  <2> QED
    BY <1>1, <2>1 DEF Known
<1>3. \A s \in Shells : /\ pc[s] = "off"
                        /\ loaded[s].version[2] = 0 /\ loaded[s].prompt[2] = 0
  BY DEF Init, NoFile, Loaded, Nothing
<1>4. KnownInv
  BY <1>1, <1>2, <1>3 DEF KnownInv, Known, WithDevice
<1>5. LoadedNewest
  BY <1>3 DEF LoadedNewest
<1> QED
  BY <1>4, <1>5 DEF NewestInv

LEMMA EditNewest ==
  ASSUME TypeInv, NewestInv, NEW f \in Files,
         (\E good \in BOOLEAN : Save(f, good)) \/ Remove(f)
  PROVE  NewestInv'
<1>1. UNCHANGED <<nos, pc, loaded, overtaken>>
  BY DEF Save, Remove
<1>2. \A g \in Files : \/ disk'[g] = disk[g]
                       \/ disk'[g].time = edits + 2
                       \/ disk'[g].time = 0
  BY DEF Save, Remove, TypeInv, TypeOK
<1>3. ASSUME NEW v, Known(v), v[2] \in Times PROVE Known(v)'
  <2>1. edits \in Nat /\ v[2] \in 0..edits + 1
    BY <1>3 DEF Times, TypeInv, TypeOK
  <2> SUFFICES ASSUME v[1] \in Files PROVE v[2] <= disk'[v[1]].time
                                           \/ disk'[v[1]].time = 0
    BY DEF Known
  <2>2. CASE disk'[v[1]] = disk[v[1]]
    BY <1>3, <2>2 DEF Known
  <2>3. CASE disk'[v[1]].time = edits + 2
    BY <2>1, <2>3
  <2> QED
    BY <1>2, <2>2, <2>3
<1>4. 0 \in Times
  BY DEF Times, TypeInv, TypeOK
<1>5. /\ \A h \in Hosts, i \in Items : nos[h][i][2] \in Times
      /\ \A s \in Shells : /\ loaded[s].version[2] \in Times
                           /\ loaded[s].prompt[2] \in Times
                           /\ Config(s)[2] \in Times
  BY <1>4 DEF TypeInv, TypeOK, Entry, Versions, Nothing, Config, Version
<1>6. KnownInv'
  <2>1. \A s \in Shells : WithDevice(s)' = WithDevice(s) /\ Config(s)' = Config(s)
    BY <1>1 DEF WithDevice, Config, ConfigOf, Version
  <2> QED
    BY <1>1, <1>3, <1>5, <2>1 DEF NewestInv, KnownInv
<1>7. LoadedNewest'
  BY <1>1
  DEF NewestInv, LoadedNewest, Newest, WithDevice, Config, ConfigOf, Version
<1> QED
  BY <1>6, <1>7 DEF NewestInv

(* A step that changes neither a Nos nor what a shell has loaded.          *)
LEMMA QuietNewest ==
  ASSUME TypeInv, NewestInv, UNCHANGED <<disk, nos, loaded, overtaken>>,
         \A r \in Shells : pc'[r] \in {"device", "commit"} => pc'[r] = pc[r]
  PROVE  NewestInv'
<1>1. KnownInv'
  BY DEF NewestInv, KnownInv, Known, WithDevice, Config, ConfigOf, Version
<1>2. LoadedNewest'
  BY DEF NewestInv, LoadedNewest, Newest, WithDevice, Config, ConfigOf,
     Version
<1> QED
  BY <1>1, <1>2 DEF NewestInv

LEMMA StepNewest ==
  ASSUME TypeInv, SoundInv, NewestInv, NEW s \in Shells, Step(s)
  PROVE  NewestInv'
<1>1. UNCHANGED disk
  BY DEF Step, Connect, CopyCommand, CopyFails, CopyEnds, Walk, TestTable,
     StatBase, FillTable, NewFiles, ReadOld, StatModified, StatAgain,
     RecordTimes, LoadFails, LoadYaml, LoadModule, BuildDevice, DeviceFails,
     Commit, Update, ReloadEnds, diskVars
<1>2. CASE \/ Walk(s) \/ TestTable(s) \/ StatBase(s) \/ FillTable(s)
           \/ NewFiles(s) \/ ReadOld(s) \/ StatModified(s) \/ StatAgain(s)
           \/ RecordTimes(s) \/ Connect(s) \/ CopyFails(s) \/ LoadFails(s)
           \/ ReloadEnds(s) \/ CopyCommand(s) \/ CopyEnds(s) \/ Update(s)
  <2>1. UNCHANGED <<nos, loaded, overtaken>>
    BY <1>2 DEF Walk, TestTable, StatBase, FillTable, NewFiles, ReadOld,
       StatModified, StatAgain, RecordTimes, Connect, CopyFails, LoadFails,
       ReloadEnds, CopyCommand, CopyEnds, Update
  <2>2. \/ pc' = pc
        \/ \E there \in Pcs \ {"device", "commit"} :
             pc' = [pc EXCEPT ![s] = there]
    BY <1>2 DEF Walk, TestTable, StatBase, FillTable, NewFiles, ReadOld,
       StatModified, StatAgain, RecordTimes, Connect, CopyFails, LoadFails,
       ReloadEnds, CopyCommand, CopyEnds, Update, Goto, Pcs, Polling
  <2>3. \A r \in Shells : pc'[r] \in {"device", "commit"} => pc'[r] = pc[r]
    BY <2>2 DEF TypeInv, TypeOK
  <2> QED
    BY <1>1, <2>1, <2>3, QuietNewest
<1> DEFINE Others == \A r \in Shells : r # s =>
             /\ pc'[r] = pc[r] /\ loaded'[r] = loaded[r]
             /\ overtaken'[r] = overtaken[r]
<1>3. ASSUME nos' = nos, Others,
             Known(loaded'[s].version), Known(loaded'[s].prompt),
             WithDevice(s)' => Known(Config(s)'),
             pc'[s] \in {"device", "commit"} /\ ~overtaken'[s] =>
               /\ Newest(HostOf[s], loaded'[s].version)
               /\ WithDevice(s)' => Newest(HostOf[s], Config(s)')
               /\ pc'[s] = "commit" /\ loaded'[s].version[1] \in Yamls =>
                    loaded'[s].prompt \in
                      {loaded'[s].version, nos[HostOf[s]]["prompt"]}
      PROVE  NewestInv'
  <2>1. KnownInv'
    BY <1>1, <1>3
    DEF NewestInv, KnownInv, Known, WithDevice, Config, ConfigOf, Version
  <2>2. LoadedNewest'
    BY <1>1, <1>3 DEF NewestInv, LoadedNewest, Newest, WithDevice, Config,
       ConfigOf, Version
  <2> QED
    BY <2>1, <2>2 DEF NewestInv
<1>4. CASE LoadYaml(s) \/ LoadModule(s)
  <2>1. PICK f \in Sources, p \in Prompts(s) :
          /\ disk[f].good
          /\ loaded' = [loaded EXCEPT ![s] =
                          Loaded(Version(f, disk[f].time), p)]
          /\ p \in {Version(f, disk[f].time), nos[HostOf[s]]["prompt"], Nothing}
          /\ f \in Yamls =>
               p \in {Version(f, disk[f].time), nos[HostOf[s]]["prompt"]}
          /\ pc' = [pc EXCEPT ![s] = IF f \in Modules THEN "device"
                                     ELSE "commit"]
    BY <1>4, ReloadAssumption
    DEF LoadYaml, LoadModule, MergedPrompt, Readable, Sources, Goto, Prompts
  <2>2. /\ loaded'[s].version = Version(f, disk[f].time)
        /\ loaded'[s].version[1] = f /\ loaded'[s].prompt = p
    BY <2>1 DEF Loaded, TypeInv, TypeOK, Version
  <2>3. nos' = nos /\ Others
    BY <1>4, <2>1 DEF LoadYaml, LoadModule, TypeInv, TypeOK
  <2>4. f \in Files /\ disk[f].time # 0 /\ disk[f].time \in Nat
    BY <2>1 DEF Files, SoundInv, DiskSound, TypeInv, TypeOK, Times
  <2>5. Known(Version(f, disk[f].time)) /\ Known(p)
    <3>1. Known(Version(f, disk[f].time)) /\ Known(Nothing)
      BY <2>4 DEF Known, Version, Nothing, TypeInv, TypeOK, Times
    <3>2. Known(nos[HostOf[s]]["prompt"])
      BY ReloadAssumption DEF NewestInv, KnownInv, Items
    <3> QED
      BY <2>1, <3>1, <3>2
  <2>6. Newest(HostOf[s], Version(f, disk[f].time))
    BY <2>4, ReloadAssumption
    DEF Newest, Version, NewestInv, KnownInv, Known
  <2>7. ~WithDevice(s)'
    <3>1. f \in Modules => pc'[s] # "commit"
      BY <2>1 DEF TypeInv, TypeOK
    <3> QED
      BY <2>2, <3>1 DEF WithDevice
  <2> QED
    BY <1>3, <2>1, <2>2, <2>3, <2>5, <2>6, <2>7
<1>5. CASE BuildDevice(s)
  <2>1. pc[s] = "device" /\ pc'[s] = "commit" /\ nos' = nos /\ Others
        /\ overtaken' = overtaken
    BY <1>5 DEF BuildDevice, Goto, TypeInv, TypeOK
  <2>2. /\ loaded'[s].version = loaded[s].version
        /\ loaded'[s].prompt = loaded[s].prompt
        /\ loaded'[s].config = disk[ConfigOf(s)].time
    BY <1>5 DEF BuildDevice, TypeInv, TypeOK
  <2>3. /\ loaded[s].version[1] \in Modules
        /\ loaded[s].version[1] \notin Yamls
    BY <2>1, ReloadAssumption DEF TypeInv, Kinds
  <2>4. ConfigOf(s) \in Files
    BY <2>3, ReloadAssumption DEF ConfigOf, Files
  <2>5. disk[ConfigOf(s)].time # 0 /\ disk[ConfigOf(s)].time \in Nat
    BY <1>5, <2>4
    DEF BuildDevice, SoundInv, DiskSound, TypeInv, TypeOK, Times
  <2>6. Config(s)' = Version(ConfigOf(s), disk[ConfigOf(s)].time)
    BY <2>2 DEF Config, ConfigOf, Version
  <2>7. Known(Config(s)') /\ Newest(HostOf[s], Config(s)')
    BY <2>4, <2>5, <2>6, ReloadAssumption
    DEF Known, Newest, Version, NewestInv, KnownInv
  <2>8. Known(loaded[s].version) /\ Known(loaded[s].prompt)
    BY DEF NewestInv, KnownInv
  <2>9. ~overtaken[s] => Newest(HostOf[s], loaded[s].version)
    BY <2>1 DEF NewestInv, LoadedNewest
  <2> QED
    BY <1>3, <2>1, <2>2, <2>3, <2>7, <2>8, <2>9
<1>6. CASE DeviceFails(s)
  <2>1. /\ loaded' = [loaded EXCEPT ![s] = NoFile] /\ nos' = nos
        /\ overtaken' = overtaken /\ pc' = [pc EXCEPT ![s] = "load"]
    BY <1>6 DEF DeviceFails, Goto
  <2>2. /\ loaded'[s].version = Nothing /\ loaded'[s].prompt = Nothing
        /\ pc'[s] = "load" /\ Others
    BY <2>1 DEF NoFile, Loaded, TypeInv, TypeOK
  <2>3. Known(Nothing)
    BY DEF Known, Nothing, TypeInv, TypeOK, Times
  <2> QED
    BY <1>3, <2>1, <2>2, <2>3 DEF WithDevice
<1>7. CASE Commit(s)
  <2>1. /\ loaded' = [loaded EXCEPT ![s] = NoFile]
        /\ pc[s] = "commit" /\ pc' = [pc EXCEPT ![s] = "update"]
    BY <1>7 DEF Commit, Goto
  <2>2. /\ loaded'[s].version = Nothing /\ loaded'[s].prompt = Nothing
        /\ pc'[s] = "update"
        /\ \A r \in Shells : r # s => loaded'[r] = loaded[r] /\ pc'[r] = pc[r]
    BY <2>1 DEF NoFile, Loaded, TypeInv, TypeOK
  <2>3. Known(Nothing)
    BY DEF Known, Nothing, TypeInv, TypeOK, Times
  <2>4. \A h \in Hosts, i \in Items : Known(nos'[h][i])
    <3>1. \A i \in Items : Known(Committed(s, i))
      BY <2>1, CommittedIs, ReloadAssumption DEF NewestInv, KnownInv
    <3> QED
      BY <1>7, <3>1 DEF Commit, NewestInv, KnownInv, TypeInv, TypeOK
  <2>5. \A r \in Shells : r # s =>
          WithDevice(r)' = WithDevice(r) /\ Config(r)' = Config(r)
    BY <2>2 DEF WithDevice, Config, ConfigOf, Version
  <2>6. KnownInv'
    BY <1>1, <2>2, <2>3, <2>4, <2>5
    DEF NewestInv, KnownInv, Known, WithDevice
  <2>7. ASSUME NEW r \in Shells, pc'[r] \in {"device", "commit"}, ~overtaken'[r]
        PROVE  /\ r # s /\ HostOf[r] # HostOf[s] /\ ~overtaken[r]
               /\ nos'[HostOf[r]] = nos[HostOf[r]]
    <3>1. r # s
      BY <2>2, <2>7
    <3>2. HostOf[r] # HostOf[s] /\ ~overtaken[r]
      BY <1>7, <2>2, <2>7, <3>1 DEF Commit, TypeInv, TypeOK
    <3> QED
      BY <1>7, <3>1, <3>2, ReloadAssumption DEF Commit, TypeInv, TypeOK
  <2>8. LoadedNewest'
    BY <2>2, <2>5, <2>7 DEF NewestInv, LoadedNewest, Newest
  <2> QED
    BY <2>6, <2>8 DEF NewestInv
<1> QED
  BY <1>2, <1>4, <1>5, <1>6, <1>7 DEF Step

LEMMA NextNewest ==
  ASSUME TypeInv, SoundInv, NewestInv, [Next]_vars
  PROVE  NewestInv'
<1>1. CASE UNCHANGED vars
  BY <1>1, QuietNewest DEF vars, diskVars
<1> QED
  BY <1>1, EditNewest, StepNewest, ReloadAssumption DEF Next

(* A Nos never goes back to an older version of a file, unless two shells  *)
(* of its host load at the same time.                                      *)
THEOREM NeverBack == Spec => NoDowngrade
<1> DEFINE IInv == TypeInv /\ SoundInv /\ NewestInv
           Forward == \A s \in Shells : Commit(s) /\ ~overtaken[s] =>
             \A i \in Items : nos[HostOf[s]][i][1] = nos'[HostOf[s]][i][1] =>
                                nos[HostOf[s]][i][2] <= nos'[HostOf[s]][i][2]
<1>1. Init => IInv
  BY InitType, InitSound, InitNewest
<1>2. IInv /\ [Next]_vars => IInv'
  BY NextType, NextSound, NextNewest
<1>3. IInv => Forward
  <2> SUFFICES ASSUME IInv, NEW s \in Shells, Commit(s), ~overtaken[s],
                      NEW i \in Items,
                      nos[HostOf[s]][i][1] = nos'[HostOf[s]][i][1]
               PROVE  nos[HostOf[s]][i][2] <= nos'[HostOf[s]][i][2]
    OBVIOUS
  <2>1. pc[s] = "commit"
    BY DEF Commit, Goto
  <2>2. nos'[HostOf[s]][i] = Committed(s, i)
    BY ReloadAssumption DEF Commit, TypeInv, TypeOK
  <2>3. nos[HostOf[s]][i][2] \in Nat
    BY ReloadAssumption
    DEF TypeInv, TypeOK, Entry, Versions, Times, Nothing
  <2>4. /\ Newest(HostOf[s], loaded[s].version)
        /\ WithDevice(s) => Newest(HostOf[s], Config(s))
        /\ loaded[s].version[1] \in Yamls =>
             loaded[s].prompt \in {loaded[s].version, nos[HostOf[s]]["prompt"]}
    BY <2>1 DEF NewestInv, LoadedNewest
  <2> QED
    BY <2>1, <2>2, <2>3, <2>4, CommittedIs DEF Newest
<1>4. IInv /\ [Next]_vars => [Forward]_vars
  BY <1>3
<1> HIDE DEF IInv, Forward
<1>5. Spec => [][Forward]_vars
  BY <1>1, <1>2, <1>4, PTL DEF Spec
<1> QED
  BY <1>5 DEF NoDowngrade, Forward

=============================================================================
