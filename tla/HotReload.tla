----------------------------- MODULE HotReload -----------------------------
(***************************************************************************)
(* Hot reload: before every line it runs, a shell looks for files under    *)
(* plugins/nos that have changed and loads them into the NOS of its host   *)
(* and into its own commands.  All shells compare the files with one       *)
(* module-wide table of modification times, and none of them locks it.     *)
(*                                                                         *)
(* A modification time is the number of the edit that made it (1 before    *)
(* the first edit, 0 where there is no file).  What a file holds is its    *)
(* time and whether it loads; what it defines is Defines.  Every module    *)
(* builds its device from one configuration template.                      *)
(***************************************************************************)
EXTENDS Naturals, FiniteSets

CONSTANTS
  Yamls, Modules, Templates,  \* the files, by what they are
  TemplateOf,                 \* [Modules -> Templates]
  Commands, Defines,          \* [Yamls \cup Modules -> what the file defines]
  Hosts, Platform,            \* [Hosts -> the files loaded for it at start]
  Shells, HostOf,             \* [Shells -> Hosts]
  Inventory,                  \* the commands the inventory defines itself
  Vanishing, MaxEdits         \* bounds: files that may vanish, edits

Sources == Yamls \cup Modules
Files   == Sources \cup Templates
Items   == Commands \cup {"prompt", "device"}    \* what a Nos holds

ASSUME ReloadAssumption ==
  /\ Yamls \cap Modules = {} /\ Sources \cap Templates = {}
  /\ TemplateOf \in [Modules -> Templates]
  /\ "prompt" \notin Commands /\ "device" \notin Commands
  /\ Defines \in [Sources -> SUBSET (Commands \cup {"prompt"})]
  /\ Platform \in [Hosts -> SUBSET Sources]
  /\ HostOf \in [Shells -> Hosts]
  /\ Inventory \subseteq Commands /\ Vanishing \subseteq Files
  /\ MaxEdits \in Nat

VARIABLES
  disk,     \* [Files -> [time, good]]
  edits,    \* number of edits made
  table,    \* _files_lasttime_changed_old, 0 for a file that is not in it
  nos,      \* [Hosts -> [Items -> Entry]]: Host.nos
  pc,       \* where a shell is
  toCopy,   \* the commands it has still to copy
  files,    \* the files its walk found
  times,    \* the dict of times it builds, or compares with
  changed,  \* the files it has found changed
  loaded,   \* the file it has read and not committed
  serve,    \* [Shells -> [Commands -> Entry]]: CMDShell.commands
  unseen,   \* history: the edited files no poll has reported yet
  raced,    \* history: those of them saved while a shell was polling
  broken,   \* history: the versions that do not load
  overtaken,\* history: another shell committed since this one read its file
  undone    \* history: a shell committed nevertheless

diskVars == <<disk, edits, broken>>
pollVars == <<files, times, changed>>
vars == <<diskVars, table, nos, pc, toCopy, pollVars, loaded, serve, unseen,
          raced, overtaken, undone>>

Polling == {"test", "base", "fill", "new", "old", "stat", "again", "record"}
Pcs == {"off", "copy", "failed", "idle", "load", "device", "commit", "update"}
       \cup Polling

(* What is in force for a command: a file at a time, the inventory's own   *)
(* definition, or nothing.                                                 *)
Version(f, t) == <<f, t>>
Nothing == <<"none", 0>>
Own     == <<"inventory", 0>>
Loaded(v, p) == [version |-> v, config |-> 0, prompt |-> p]
NoFile  == Loaded(Nothing, Nothing)

NoTimes == [f \in Files |-> 0]
Defined(h) == {c \in Commands : nos[h][c] # Nothing}

(* At start the YAML files of the platform are loaded before its module.   *)
Winners(h, i) ==
  LET own == {f \in Platform[h] : i \in Defines[f]}
  IN  IF own \cap Modules # {} THEN own \cap Modules ELSE own
OneOf(S) == CHOOSE x \in S : TRUE
StartsWith(h, i) ==
  CASE i = "device" /\ Platform[h] \cap Modules # {} ->
         Version(TemplateOf[OneOf(Platform[h] \cap Modules)], 1)
    [] Winners(h, i) # {} -> Version(OneOf(Winners(h, i)), 1)
    [] OTHER -> Nothing

Init ==
  /\ disk = [f \in Files |-> [time |-> 1, good |-> TRUE]]
  /\ edits = 0 /\ table = NoTimes
  /\ nos = [h \in Hosts |-> [i \in Items |-> StartsWith(h, i)]]
  /\ pc = [s \in Shells |-> "off"]
  /\ files = [s \in Shells |-> {}] /\ toCopy = [s \in Shells |-> {}]
  /\ times = [s \in Shells |-> NoTimes] /\ changed = [s \in Shells |-> {}]
  /\ loaded = [s \in Shells |-> NoFile]
  /\ serve = [s \in Shells |-> [c \in Commands |-> Nothing]]
  /\ unseen = {} /\ raced = {} /\ broken = {}
  /\ overtaken = [s \in Shells |-> FALSE]
  /\ undone = FALSE

Goto(s, here, there) == pc[s] = here /\ pc' = [pc EXCEPT ![s] = there]

-----------------------------------------------------------------------------
(* The editor.  An editor that replaces a file removes it and saves it.    *)

Save(f, good) ==
  /\ edits < MaxEdits
  /\ edits' = edits + 1
  /\ disk' = [disk EXCEPT ![f] = [time |-> edits + 2, good |-> good]]
  /\ broken' = IF good THEN broken ELSE broken \cup {Version(f, edits + 2)}
  /\ unseen' = IF table = NoTimes THEN unseen \ {f} ELSE unseen \cup {f}
  /\ raced' = IF f \in unseen' /\ \E s \in Shells : pc[s] \in Polling
              THEN raced \cup {f} ELSE raced \ {f}
  /\ UNCHANGED <<table, nos, pc, toCopy, pollVars, loaded, serve, overtaken,
                 undone>>

Remove(f) ==
  /\ edits < MaxEdits /\ disk[f].time # 0
  /\ edits' = edits + 1
  /\ disk' = [disk EXCEPT ![f] = [time |-> 0, good |-> FALSE]]
  /\ unseen' = unseen \ {f} /\ raced' = raced \ {f}
  /\ UNCHANGED <<broken, table, nos, pc, toCopy, pollVars, loaded, serve,
                 overtaken, undone>>

-----------------------------------------------------------------------------
(* A shell is made: it copies the commands of its Nos, one by one, and the *)
(* copying fails when their number has changed meanwhile.                  *)

Copied(s) == {c \in Commands : serve[s][c] # Nothing}

Connect(s) ==
  /\ Goto(s, "off", "copy")
  /\ toCopy' = [toCopy EXCEPT ![s] = Defined(HostOf[s])]
  /\ UNCHANGED <<diskVars, table, nos, pollVars, loaded, serve, unseen, raced,
                 overtaken, undone>>

CopyCommand(s) ==
  /\ pc[s] = "copy" /\ Defined(HostOf[s]) = Copied(s) \cup toCopy[s]
  /\ \E c \in toCopy[s] :
       /\ toCopy' = [toCopy EXCEPT ![s] = @ \ {c}]
       /\ serve' = [serve EXCEPT ![s][c] = nos[HostOf[s]][c]]
  /\ UNCHANGED <<diskVars, table, nos, pc, pollVars, loaded, unseen, raced,
                 overtaken, undone>>

CopyFails(s) ==
  /\ Defined(HostOf[s]) # Copied(s) \cup toCopy[s]
  /\ Goto(s, "copy", "failed")
  /\ UNCHANGED <<diskVars, table, nos, toCopy, pollVars, loaded, serve, unseen,
                 raced, overtaken, undone>>

CopyEnds(s) ==
  /\ toCopy[s] = {} /\ Defined(HostOf[s]) = Copied(s)
  /\ Goto(s, "copy", "idle")
  /\ serve' = [serve EXCEPT ![s] =
       [c \in Commands |-> IF c \in Inventory THEN Own ELSE @[c]]]
  /\ UNCHANGED <<diskVars, table, nos, toCopy, pollVars, loaded, unseen, raced,
                 overtaken, undone>>

-----------------------------------------------------------------------------
(* The poll: get_files_changed().  A line has come to precmd().  Each of   *)
(* its loops over the files is one action: it stats every file once, and   *)
(* edits of different files commute.                                       *)

Walk(s) ==
  /\ Goto(s, "idle", "test")
  /\ files' = [files EXCEPT ![s] = {f \in Files : disk[f].time # 0}]
  /\ UNCHANGED <<diskVars, table, nos, toCopy, times, changed, loaded, serve,
                 unseen, raced, overtaken, undone>>

(* An empty table is filled first.                                         *)
(* Mutant: it is filled whenever the walk has found a file it has not.     *)
TestTableGrown(s) ==
  /\ Goto(s, "test", IF \E f \in files[s] : table[f] = 0
                     THEN "base" ELSE "new")
  /\ UNCHANGED <<diskVars, table, nos, toCopy, pollVars, loaded, serve, unseen,
                 raced, overtaken, undone>>
TestTable(s) ==
  /\ Goto(s, "test", IF table = NoTimes THEN "base" ELSE "new")
  /\ UNCHANGED <<diskVars, table, nos, toCopy, pollVars, loaded, serve, unseen,
                 raced, overtaken, undone>>

(* get_files_lasttime_changed(): a file that has vanished is left out, and *)
(* one that the walk has not found is not looked at.                       *)
StatAll(s) == [f \in Files |-> IF f \in files[s] THEN disk[f].time ELSE 0]

StatBase(s) ==
  /\ Goto(s, "base", "fill")
  /\ times' = [times EXCEPT ![s] = StatAll(s)]
  /\ UNCHANGED <<diskVars, table, nos, toCopy, files, changed, loaded, serve,
                 unseen, raced, overtaken, undone>>

FillTable(s) ==
  /\ Goto(s, "fill", "new")
  /\ table' = times[s]
  /\ times' = [times EXCEPT ![s] = NoTimes]
  /\ UNCHANGED <<diskVars, nos, toCopy, files, changed, loaded, serve, unseen,
                 raced, overtaken, undone>>

(* get_new_files(), and then the table is read a second time, for          *)
(* get_files_recently_modified().                                          *)
NewFiles(s) ==
  /\ Goto(s, "new", "old")
  /\ changed' = [changed EXCEPT ![s] = {f \in files[s] : table[f] = 0}]
  /\ UNCHANGED <<diskVars, table, nos, toCopy, files, times, loaded, serve,
                 unseen, raced, overtaken, undone>>

ReadOld(s) ==
  /\ Goto(s, "old", "stat")
  /\ times' = [times EXCEPT ![s] = table]
  /\ UNCHANGED <<diskVars, table, nos, toCopy, files, changed, loaded, serve,
                 unseen, raced, overtaken, undone>>

Modified(s) ==
  {f \in files[s] : disk[f].time # 0 /\ disk[f].time # times[s][f]}

(* A template stands for the module that uses it.                          *)
(* Mutant: only where the module has changed too.                          *)
CorrespondingKept(fs) == fs
Corresponding(fs) ==
  (fs \ Templates) \cup {m \in Modules : TemplateOf[m] \in fs}

StatModified(s) ==
  /\ Goto(s, "stat", "again")
  /\ changed' = [changed EXCEPT ![s] = Corresponding(@ \cup Modified(s))]
  /\ times' = [times EXCEPT ![s] = NoTimes]
  /\ unseen' = unseen \ Modified(s) /\ raced' = raced \ Modified(s)
  /\ UNCHANGED <<diskVars, table, nos, toCopy, files, loaded, serve, overtaken,
                 undone>>

StatAgain(s) ==
  /\ Goto(s, "again", "record")
  /\ times' = [times EXCEPT ![s] = StatAll(s)]
  /\ UNCHANGED <<diskVars, table, nos, toCopy, files, changed, loaded, serve,
                 unseen, raced, overtaken, undone>>

RecordTimes(s) ==
  /\ Goto(s, "record", "load")
  /\ table' = times[s]
  /\ times' = [times EXCEPT ![s] = NoTimes]
  /\ files' = [files EXCEPT ![s] = {}]
  /\ UNCHANGED <<diskVars, nos, toCopy, changed, loaded, serve, unseen, raced,
                 overtaken, undone>>

-----------------------------------------------------------------------------
(* The reload: reload_commands().  The changed files come in any order.    *)

Take(s, f) ==
  /\ f \in changed[s]
  /\ changed' = [changed EXCEPT ![s] = @ \ {f}]

(* Mutant: a file that is there is committed before it is validated.       *)
LoadsUnchecked(f) == disk[f].time # 0
Readable(f) == disk[f].good

(* A file that has vanished or does not load is logged and left.  Mutant:  *)
(* and the others with it.                                                 *)
LoadFailsForAll(s) ==
  /\ pc[s] = "load"
  /\ \E f \in changed[s] : ~Readable(f)
  /\ changed' = [changed EXCEPT ![s] = {}]
  /\ UNCHANGED <<diskVars, table, nos, pc, toCopy, files, times, loaded, serve,
                 unseen, raced, overtaken, undone>>
LoadFails(s) ==
  /\ pc[s] = "load"
  /\ \E f \in Sources : ~Readable(f) /\ Take(s, f)
  /\ UNCHANGED <<diskVars, table, nos, pc, toCopy, files, times, loaded, serve,
                 unseen, raced, overtaken, undone>>

(* from_dict() reads the scalars that the file leaves out, to validate the *)
(* whole.  Mutant: it takes what the Nos was made with.                    *)
MergedWithStart(s, f) ==
  IF "prompt" \in Defines[f] THEN Version(f, disk[f].time)
                             ELSE StartsWith(HostOf[s], "prompt")
MergedPrompt(s, f) ==
  IF "prompt" \in Defines[f] THEN Version(f, disk[f].time)
                             ELSE nos[HostOf[s]]["prompt"]

LoadYaml(s) ==
  /\ Goto(s, "load", "commit")
  /\ \E f \in Yamls :
       /\ Readable(f) /\ Take(s, f)
       /\ loaded' = [loaded EXCEPT ![s] =
            Loaded(Version(f, disk[f].time), MergedPrompt(s, f))]
  /\ overtaken' = [overtaken EXCEPT ![s] = FALSE]
  /\ UNCHANGED <<diskVars, table, nos, toCopy, files, times, serve, unseen,
                 undone, raced>>

LoadModule(s) ==
  /\ Goto(s, "load", "device")
  /\ \E f \in Modules :
       /\ Readable(f) /\ Take(s, f)
       /\ loaded' = [loaded EXCEPT ![s] =
            Loaded(Version(f, disk[f].time), Nothing)]
  /\ overtaken' = [overtaken EXCEPT ![s] = FALSE]
  /\ UNCHANGED <<diskVars, table, nos, toCopy, files, times, serve, unseen,
                 undone, raced>>

(* The module's device reads its template.                                 *)
ConfigOf(s) == TemplateOf[loaded[s].version[1]]

BuildDevice(s) ==
  /\ Goto(s, "device", "commit")
  /\ disk[ConfigOf(s)].good
  /\ loaded' = [loaded EXCEPT ![s].config = disk[ConfigOf(s)].time]
  /\ UNCHANGED <<diskVars, table, nos, toCopy, pollVars, serve, unseen, raced,
                 overtaken, undone>>

DeviceFails(s) ==
  /\ Goto(s, "device", "load")
  /\ ~disk[ConfigOf(s)].good
  /\ loaded' = [loaded EXCEPT ![s] = NoFile]
  /\ UNCHANGED <<diskVars, table, nos, toCopy, pollVars, serve, unseen, raced,
                 overtaken, undone>>

(* The commit.  A YAML file's writes back every scalar, as it was read.    *)
Committed(s, i) ==
  LET f == loaded[s].version[1] IN
  CASE i = "prompt" /\ f \in Yamls   -> loaded[s].prompt
    [] i = "device" /\ f \in Modules -> Version(ConfigOf(s), loaded[s].config)
    [] i # "device" /\ i \in Defines[f] /\ (i = "prompt" => f \in Modules)
         -> loaded[s].version
    [] OTHER -> nos[HostOf[s]][i]

Commit(s) ==
  /\ Goto(s, "commit", "update")
  /\ nos' = [nos EXCEPT ![HostOf[s]] = [i \in Items |-> Committed(s, i)]]
  /\ loaded' = [loaded EXCEPT ![s] = NoFile]
  /\ overtaken' = [r \in Shells |->
                     IF HostOf[r] = HostOf[s]
                        /\ pc[r] \in {"device", "commit"}
                     THEN r # s ELSE overtaken[r]]
  /\ undone' = (undone \/ overtaken[s])
  /\ UNCHANGED <<diskVars, table, toCopy, pollVars, serve, unseen, raced>>

Update(s) ==
  /\ Goto(s, "update", "load")
  /\ serve' = [serve EXCEPT ![s] =
       [c \in Commands |-> IF c \in Defined(HostOf[s])
                           THEN nos[HostOf[s]][c] ELSE @[c]]]
  /\ UNCHANGED <<diskVars, table, nos, toCopy, pollVars, loaded, unseen, raced,
                 overtaken, undone>>

(* All files are loaded: the line is run.                                  *)
ReloadEnds(s) ==
  /\ changed[s] = {}
  /\ Goto(s, "load", "idle")
  /\ UNCHANGED <<diskVars, table, nos, toCopy, pollVars, loaded, serve, unseen,
                 raced, overtaken, undone>>

-----------------------------------------------------------------------------
Step(s) ==
  \/ Connect(s) \/ Walk(s)
  \/ CopyCommand(s) \/ CopyFails(s) \/ CopyEnds(s)
  \/ TestTable(s) \/ StatBase(s) \/ FillTable(s) \/ NewFiles(s) \/ ReadOld(s)
  \/ StatModified(s) \/ StatAgain(s) \/ RecordTimes(s)
  \/ LoadFails(s) \/ LoadYaml(s) \/ LoadModule(s) \/ BuildDevice(s)
  \/ DeviceFails(s) \/ Commit(s) \/ Update(s) \/ ReloadEnds(s)

Next ==
  \/ \E f \in Files, good \in BOOLEAN : Save(f, good)
  \/ \E f \in Vanishing : Remove(f)
  \/ \E s \in Shells : Step(s)

Spec == Init /\ [][Next]_vars

(* Every shell's thread runs, and lines keep coming.                       *)
FairSpec == Spec /\ \A s \in Shells : WF_vars(Step(s))

-----------------------------------------------------------------------------
(* Properties                                                              *)

Times    == 0..edits + 1
Versions == Files \X Times
Entry    == Versions \cup {Nothing}

(* Types; no time is later than the last edit, and only files that can be  *)
(* loaded are queued for loading.                                          *)
TypeOK ==
  /\ edits \in 0..MaxEdits
  /\ disk \in [Files -> [time : Times, good : BOOLEAN]]
  /\ table \in [Files -> Times]
  /\ nos \in [Hosts -> [Items -> Entry]]
  /\ pc \in [Shells -> Pcs]
  /\ toCopy \in [Shells -> SUBSET Commands]
  /\ files \in [Shells -> SUBSET Files]
  /\ times \in [Shells -> [Files -> Times]]
  /\ changed \in [Shells -> SUBSET Files]
  /\ loaded \in [Shells -> [version : Entry, config : Times, prompt : Entry]]
  /\ serve \in [Shells -> [Commands -> Entry \cup {Own}]]
  /\ unseen \subseteq Files /\ raced \subseteq unseen
  /\ broken \subseteq Versions
  /\ overtaken \in [Shells -> BOOLEAN] /\ undone \in BOOLEAN
  /\ \A s \in Shells : pc[s] = "load" => changed[s] \subseteq Sources

(* No edit is forgotten: unless it was made while a shell was polling, an  *)
(* edit that no poll has reported is not in the table either, so that the  *)
(* next poll reports it (get_files_changed).  Edits before the first poll  *)
(* are not counted: it takes what it finds as what was loaded.             *)
NothingForgotten == \A f \in unseen \ raced : table[f] # disk[f].time

(* Without the exception: an edit that no poll has reported is never in    *)
(* the table.  It is not so: what the second stat of a poll sees and the   *)
(* first did not goes into the table and is never reported.                *)
EveryEditIsSeen == \A f \in unseen : table[f] # disk[f].time

(* A file that does not load leaves nothing behind: neither a Nos nor a    *)
(* shell ever holds anything of it (from_dict, _from_module: validation    *)
(* comes before the commit).                                               *)
BrokenNeverServed ==
  /\ \A h \in Hosts, i \in Items : nos[h][i] \notin broken
  /\ \A s \in Shells, c \in Commands : serve[s][c] \notin broken

(* A Nos never goes back: what a commit writes over a version of a file is *)
(* no older version of that file, unless another shell has committed to    *)
(* the same Nos since the committing shell read its file (from_dict,       *)
(* _from_module).                                                          *)
NoDowngrade ==
  [][\A s \in Shells : Commit(s) /\ ~overtaken[s] =>
       \A i \in Items : nos[HostOf[s]][i][1] = nos'[HostOf[s]][i][1] =>
                          nos[HostOf[s]][i][2] <= nos'[HostOf[s]][i][2]]_vars

(* Every edit that did not race with a poll is loaded, if the file stays   *)
(* as it is and loads: in the end some shell serves it, or has a device    *)
(* built from it, whatever other files are changed, broken or missing.     *)
(* The exception is a commit that undoes another shell's (precmd,          *)
(* reload_commands).                                                       *)
Loads(f) ==
  /\ disk[f].good
  /\ f \in Modules => disk[TemplateOf[f]].good
  /\ f \in Templates => \A m \in Modules : TemplateOf[m] = f => disk[m].good
Shows(s, f) ==
  IF f \in Templates
  THEN nos[HostOf[s]]["device"] = Version(f, disk[f].time)
  ELSE \E c \in Commands : serve[s][c] = Version(f, disk[f].time)
EditIsLoaded ==
  \A f \in Files : f \in unseen \ raced ~>
    (f \in raced \/ ~Loads(f) \/ undone \/ \E s \in Shells : Shows(s, f))
=============================================================================
