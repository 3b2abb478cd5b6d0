----------------------------- MODULE SetupProofs -----------------------------
(***************************************************************************)
(* The commands that change an installation, for any home directories and  *)
(* any files beside the configuration.  Every fact is about the files a    *)
(* step still has to visit: what is not on that list any more is done.     *)
(***************************************************************************)
EXTENDS Setup, TLAPS

FormerFiles == {"oldAutostart", "oldLauncher", "oldIcon"}

Waits(f) == \E i \in 1..Len(todo) : todo[i] = f

DiskType == DOMAIN disk = Files /\ disk = [f \in Files |-> disk[f]]

Types ==
    /\ DiskType
    /\ beside \in [Siblings -> {"none", "own", "partial", "copy"}]
    /\ cmd \in Commands \cup {Migration}
    /\ journal \in Seq(Siblings \cup {"config"})
    /\ pc \in {"copy", "open", "copying"} => todo \in Seq(Siblings)
    /\ pc \in {"open", "copying"} => todo # <<>>
    /\ pc = "install" => todo \in Seq(Desktop)
    /\ pc = "remove" => todo \in Seq(FormerFiles)

InJournal(s) == \E i \in 1..Len(journal) : journal[i] = s

\* The journal names the configuration first, then the files that this attempt writes, each
\* before it is written.
JournalInv ==
    /\ journal # <<>> =>
           /\ Copying /\ journal[1] = "config"
           /\ disk["config"] \in {"salmon", "invalid"}
           /\ \A i \in 2..Len(journal) : journal[i] \in Siblings
    /\ pc \in {"copy", "open", "copying"} => journal # <<>>
    /\ pc \in {"open", "copying"} => InJournal(Head(todo))
    /\ pc = "copying" => beside[Head(todo)] = "partial"

\* What is not whole is still to be copied, or still to be rolled back.
WholeInv ==
    ~interrupted =>
        /\ MigratedWhole
        /\ pc \in {"copy", "open"} => \A s \in Siblings : beside[s] # "partial"
        /\ pc \in {"copy", "open", "copying"} =>
               \A s \in Siblings : beside[s] \in {"copy", "own"} \/ Waits(s)
        /\ pc = "copying" => \A s \in Siblings : beside[s] = "partial" => s = Head(todo)
        /\ pc \in {"copying", "rollback"} =>
               \A s \in Siblings : beside[s] = "partial" => InJournal(s)
        /\ pc = "rollback" /\ disk["config"] = "salmon" => journal # <<>>

\* A state is imported only after its former version was preserved.
LegacyInv ==
    /\ LegacyStateKept
    /\ pc = "state" \/ importing = "state" =>
           \/ Exists("state") \/ Exists("legacyState")
           \/ disk["formerState"] # "unversioned"

\* The former integration is removed after the new one was installed, and a file is
\* replaced after it was backed up.
InstallInv ==
    /\ pc \in {"check", "backup", "install"} => cmd.op # "CreateConfig"
    /\ pc \in {"backup", "install", "collect", "remove", "executable"} => Loads(disk["config"])
    /\ pc = "install" /\ cmd.reinstall =>
           \A f \in Desktop : Waits(f) /\ disk[f] = "own" => <<f, "own">> \in backups
    /\ pc = "install" /\ cmd.op = "Complete" =>
           \A f \in {"icon", "launcher"} : Exists(f) \/ Waits(f)
    /\ pc \in {"collect", "remove", "executable"} => Exists("icon") /\ Exists("launcher")

SetupInv == Types /\ JournalInv /\ WholeInv /\ LegacyInv /\ InstallInv

-----------------------------------------------------------------------------
(* Files and lists.                                                        *)

\* A write changes one file.
LEMMA WriteDisk ==
  ASSUME DiskType, NEW f \in Files, NEW content, Write(f, content)
  PROVE  /\ DiskType' /\ disk'[f] = content
         /\ \A g \in Files : g # f => disk'[g] = disk[g]
<1>1. /\ DOMAIN disk = Files /\ disk = [g \in Files |-> disk[g]]
      /\ disk' = [disk EXCEPT ![f] = content]
  BY Zenon DEF DiskType, Write
<1> QED
  BY <1>1 DEF DiskType

\* The orders in which read_dir may return the siblings have them all.
LEMMA Orders ==
  ASSUME NEW order \in ReadDir
  PROVE  /\ order \in Seq(Siblings)
         /\ \A s \in Siblings : \E i \in 1..Len(order) : order[i] = s
<1> DEFINE n == Cardinality(Siblings)
<1>1. n \in Nat
  BY Zenon, HomesAssumption
<1>2. order \in [1..n -> Siblings] /\ \A s \in Siblings : \E i \in 1..n : order[i] = s
  BY Zenon DEF ReadDir, Bijection, Surjection
<1> HIDE DEF n
<1>3. order \in Seq(Siblings) /\ Len(order) = n
  BY <1>1, <1>2
<1> QED
  BY Zenon, <1>2, <1>3

\* The first file of the list is visited.
LEMMA Visited ==
  ASSUME NEW S, todo \in Seq(S), todo # <<>>, todo' = Tail(todo)
  PROVE  /\ todo' \in Seq(S) /\ Head(todo) \in S /\ Waits(Head(todo))
         /\ \A f : Waits(f)' => Waits(f)
         /\ \A f : Waits(f) => f = Head(todo) \/ Waits(f)'
<1>1. /\ todo' \in Seq(S) /\ Head(todo) \in S /\ Head(todo) = todo[1] /\ 1 \in 1..Len(todo)
      /\ \A i \in 1..Len(todo') : i + 1 \in 1..Len(todo) /\ todo'[i] = todo[i + 1]
      /\ \A i \in 1..Len(todo) : i = 1 \/ (i - 1 \in 1..Len(todo') /\ todo[i] = todo'[i - 1])
  OBVIOUS
<1>2. Waits(Head(todo)) /\ \A f : Waits(f)' => Waits(f)
  BY Zenon, <1>1 DEF Waits
<1>3. \A f : Waits(f) => f = Head(todo) \/ Waits(f)'
  BY Zenon, <1>1 DEF Waits
<1> QED
  BY Zenon, <1>1, <1>2, <1>3

\* The first m elements of a sequence.
LEMMA Prefix ==
  ASSUME NEW S, NEW q \in Seq(S), NEW m \in Nat, m <= Len(q)
  PROVE  /\ SubSeq(q, 1, m) \in Seq(S) /\ Len(SubSeq(q, 1, m)) = m
         /\ \A i \in 1..m : SubSeq(q, 1, m)[i] = q[i]
<1>1. SubSeq(q, 1, m) \in Seq(S)
  OBVIOUS
<1>2. Len(SubSeq(q, 1, m)) = m
  OBVIOUS
<1>3. \A i \in 1..m : SubSeq(q, 1, m)[i] = q[i]
  OBVIOUS
<1> QED
  BY Zenon, <1>1, <1>2, <1>3

-----------------------------------------------------------------------------
(* What happens beside a command.                                          *)

\* What a UI and its user may change while a command runs.
LEMMA SetupUI ==
  ASSUME SetupInv, UI \/ UserConfigures
  PROVE  /\ DiskType' /\ UNCHANGED command
         /\ UNCHANGED <<disk["icon"], disk["launcher"], disk["formerState"]>>
         /\ \/ disk'["config"] = disk["config"]
            \/ /\ disk["config"] \in {"none", "invalid"} /\ disk'["config"] \in {"own", "default"}
               /\ disk["config"] = "none" \/ pc = "idle"
         /\ disk["autostart"] = "own" <=> disk'["autostart"] = "own"
         /\ disk["state"] # "none" => disk'["state"] # "none"
         /\ disk["legacyState"] # "none" => disk'["legacyState"] # "none"
         /\ disk["state"] = "own" => disk'["state"] = "own"
<1>1. DiskType /\ {"config", "autostart", "icon", "launcher", "state", "legacyState",
                   "formerState"} \subseteq Files
  BY DEF SetupInv, Types, Files
<1>2. CASE UNCHANGED disk
  <2>1. UNCHANGED command
    BY Zenon DEF UI, StartUI, ImportLegacyState, ImportState, SaveState, set_autostart, ExitUI,
                 UserConfigures
  <2> QED
    BY <1>1, <1>2, <2>1 DEF DiskType
<1>3. CASE StartUI /\ Write("config", "default") /\ ~Exists("config")
  BY <1>1, <1>3, WriteDisk DEF StartUI, Exists
<1>4. CASE ImportLegacyState /\ Write("legacyState", "salmon")
  BY <1>1, <1>4, WriteDisk DEF ImportLegacyState
<1>5. CASE ImportState /\ Write("state", "salmon") /\ ~Exists("state")
  BY <1>1, <1>5, WriteDisk DEF ImportState, Exists
<1>6. CASE SaveState
  BY <1>1, <1>6, WriteDisk DEF SaveState
<1>7. CASE set_autostart
  <2>1. UNCHANGED command /\ \E c \in {"none", "generated"} : Write("autostart", c)
    BY Zenon, <1>7 DEF set_autostart
  <2>2. disk["autostart"] # "own"
    BY <1>7 DEF set_autostart, MayDisable, Exists
  <2> QED
    BY <1>1, <2>1, <2>2, WriteDisk
<1>8. CASE UserConfigures
  BY <1>1, <1>8, WriteDisk DEF UserConfigures, Exists
<1> QED
  BY Zenon, <1>2, <1>3, <1>4, <1>5, <1>6, <1>7, <1>8
     DEF UI, StartUI, ImportLegacyState, ImportState, ExitUI, preserve_legacy_state,
         copy_renamed_state

\* A UI that starts, runs or exits meanwhile.
LEMMA UIKeepsInv ==
  ASSUME SetupInv, UI \/ UserConfigures
  PROVE  SetupInv'
<1>1. Types /\ JournalInv /\ WholeInv /\ LegacyInv /\ InstallInv
  BY Zenon DEF SetupInv
<1>2. UNCHANGED <<cmd, pc, todo, journal, backups, beside, interrupted>>
  BY Zenon, SetupUI DEF command
<1>3. Types'
  BY Zenon, <1>1, <1>2, SetupUI DEF Types
<1>4. \/ disk'["config"] = disk["config"]
      \/ /\ disk["config"] \in {"none", "invalid"} /\ disk'["config"] \in {"own", "default"}
         /\ disk["config"] = "none" \/ pc = "idle"
  BY Zenon, SetupUI
<1>5. JournalInv'
  <2>1. journal # <<>> => disk'["config"] = disk["config"]
    BY <1>1, <1>4 DEF JournalInv, Copying
  <2> QED
    BY Zenon, <1>1, <1>2, <2>1 DEF JournalInv, Copying, InJournal
<1>6. WholeInv'
  <2>1. disk'["config"] = "salmon" => disk["config"] = "salmon"
    BY <1>4
  <2> QED
    BY Zenon, <1>1, <1>2, <2>1 DEF WholeInv, MigratedWhole, Copying, Waits, InJournal
<1>7. LegacyInv'
  <2> DEFINE Kept == \/ Exists("state") \/ Exists("legacyState")
                     \/ disk["formerState"] # "unversioned"
  <2>1. Kept => Kept'
    BY Zenon, SetupUI DEF Exists
  <2>2. CASE ImportLegacyState
    <3>1. importing' = "state" => Kept'
      <4>1. CASE ~Exists("state") /\ ~Exists("legacyState") /\ disk["formerState"] = "unversioned"
        <5>1. Write("legacyState", "salmon")
          BY Zenon, <2>2, <4>1 DEF ImportLegacyState, preserve_legacy_state
        <5>2. disk'["legacyState"] = "salmon"
          BY <1>1, <5>1, WriteDisk DEF Types, Files
        <5> QED
          BY <5>2 DEF Exists
      <4>2. CASE Kept
        BY Zenon, <2>1, <4>2
      <4> QED
        BY Zenon, <4>1, <4>2
    <3>2. disk'["state"] = disk["state"]
      BY <1>1, <2>2, WriteDisk DEF ImportLegacyState, preserve_legacy_state, Types, Files
    <3> QED
      BY Zenon, <1>1, <1>2, <2>1, <3>1, <3>2, SetupUI DEF LegacyInv, LegacyStateKept, Exists
  <2>3. CASE ~ImportLegacyState
    <3>1. importing' = "state" => importing = "state"
      <4>1. importing' \in {importing, "none", "legacy", "running"}
        BY Zenon, <2>3 DEF UI, StartUI, ImportState, SaveState, set_autostart, ExitUI,
                           UserConfigures
      <4> QED
        BY <4>1
    <3>2. disk'["state"] = "salmon" /\ disk["formerState"] = "unversioned" => Exists("legacyState")
      <4>1. CASE ImportState
        <5>1. Kept
          BY Zenon, <1>1, <4>1 DEF LegacyInv, ImportState
        <5>2. Exists("state") => UNCHANGED disk
          BY Zenon, <4>1 DEF ImportState, copy_renamed_state
        <5> QED
          BY Zenon, <1>1, <5>1, <5>2 DEF LegacyInv, LegacyStateKept
      <4>2. CASE ~ImportState
        <5>1. disk'["state"] \in {"own", disk["state"]}
          <6>1. CASE UNCHANGED disk
            BY Zenon, <6>1
          <6>2. CASE StartUI /\ Write("config", "default")
            BY <1>1, <6>2, WriteDisk DEF Types, Files
          <6>3. CASE SaveState
            BY <1>1, <6>3, WriteDisk DEF SaveState, Types, Files
          <6>4. CASE set_autostart
            <7>1. \E c \in {"none", "generated"} : Write("autostart", c)
              BY Zenon, <6>4 DEF set_autostart
            <7> QED
              BY <1>1, <7>1, WriteDisk DEF Types, Files
          <6>5. CASE UserConfigures
            BY <1>1, <6>5, WriteDisk DEF UserConfigures, Types, Files
          <6> QED
            BY Zenon, <2>3, <4>2, <6>1, <6>2, <6>3, <6>4, <6>5 DEF UI, StartUI, ExitUI
        <5>2. disk'["state"] = "salmon" => disk["state"] = "salmon"
          BY <5>1
        <5> QED
          BY Zenon, <1>1, <5>2 DEF LegacyInv, LegacyStateKept
      <4> QED
        BY Zenon, <4>1, <4>2
    <3> QED
      BY Zenon, <1>1, <1>2, <2>1, <3>1, <3>2, SetupUI DEF LegacyInv, LegacyStateKept, Exists
  <2> QED
    BY Zenon, <2>2, <2>3
<1>8. InstallInv'
  <2>1. Loads(disk["config"]) => disk'["config"] = disk["config"]
    BY <1>4 DEF Loads
  <2>2. \A f \in Desktop : disk'[f] = "own" => disk[f] = "own"
    BY SetupUI DEF Desktop
  <2>3. Exists("icon") => Exists("icon")'
    BY Zenon, SetupUI DEF Exists
  <2>4. Exists("launcher") => Exists("launcher")'
    BY Zenon, SetupUI DEF Exists
  <2>5. \A f \in {"icon", "launcher"} : Exists(f) => Exists(f)'
    BY Zenon, <2>3, <2>4
  <2>6. \A f : Waits(f)' <=> Waits(f)
    BY Zenon, <1>2 DEF Waits
  <2> QED
    BY Zenon, <1>1, <1>2, <2>1, <2>2, <2>3, <2>4, <2>5, <2>6 DEF InstallInv
<1> QED
  BY Zenon, <1>3, <1>5, <1>6, <1>7, <1>8 DEF SetupInv

-----------------------------------------------------------------------------
(* Steps of a command outside copying.                                     *)

\* What is left to show of a step that neither copies nor rolls back.
LEMMA PlainStep ==
  ASSUME SetupInv, ~Copying, pc' \notin {"copy", "open", "copying", "rollback"},
         UNCHANGED <<beside, journal, interrupted>>,
         DiskType', cmd' \in Commands \cup {Migration},
         disk'["config"] = "salmon" => disk["config"] = "salmon",
         pc' = "install" => todo' \in Seq(Desktop),
         pc' = "remove" => todo' \in Seq(FormerFiles),
         LegacyInv', InstallInv'
  PROVE  SetupInv'
<1>1. Types /\ JournalInv /\ WholeInv
  BY Zenon DEF SetupInv
<1>2. journal = <<>>
  BY Zenon, <1>1 DEF JournalInv
<1>3. /\ pc' # "copying" /\ pc' # "rollback" /\ pc' \notin {"copy", "open", "copying"}
      /\ pc' \notin {"copying", "rollback"} /\ pc' \notin {"open", "copying"}
      /\ pc' \notin {"copy", "open"} /\ ~Copying'
  BY DEF Copying
<1>4. Types'
  BY Zenon, <1>1, <1>3 DEF Types
<1>5. JournalInv'
  BY Zenon, <1>2, <1>3 DEF JournalInv
<1>6. WholeInv'
  BY Zenon, <1>1, <1>3 DEF WholeInv, MigratedWhole
<1> QED
  BY Zenon, <1>4, <1>5, <1>6 DEF SetupInv

\* A step that leaves the state files alone.
LEMMA LegacyKept ==
  ASSUME LegacyInv, UNCHANGED importing, pc' # "state",
         UNCHANGED <<disk["state"], disk["legacyState"], disk["formerState"]>>
  PROVE  LegacyInv'
  BY Zenon DEF LegacyInv, LegacyStateKept, Exists

Configured == {"check", "backup", "install", "collect", "remove", "executable"}

\* Nothing is asked of a command that does not install.
LEMMA NotInstalling ==
  ASSUME pc' \notin Configured
  PROVE  InstallInv' /\ pc' # "install" /\ pc' # "remove"
<1>1. /\ pc' # "install" /\ pc' # "remove" /\ pc' \notin {"check", "backup", "install"}
      /\ pc' \notin {"backup", "install", "collect", "remove", "executable"}
      /\ pc' \notin {"collect", "remove", "executable"}
  BY DEF Configured
<1> QED
  BY Zenon, <1>1 DEF InstallInv

\* A command starts.
LEMMA StartStep ==
  ASSUME SetupInv, Command
  PROVE  SetupInv'
<1> DEFINE First == pc' \in {"idle", "create", "load", "config"}
                    \/ (pc' = "check" /\ cmd'.op # "CreateConfig")
<1>1. /\ UNCHANGED <<disk, beside, todo, journal, importing, interrupted>> /\ pc = "idle"
      /\ cmd' \in Commands \cup {Migration} /\ First
  <2>1. CASE migrate_from_salmon
    <3>1. /\ UNCHANGED <<disk, beside, todo, journal, importing, interrupted>> /\ pc = "idle"
          /\ cmd' = Migration
      BY Zenon, <2>1 DEF migrate_from_salmon
    <3>2. pc' \in {"idle", "load", "config"}
      BY <2>1 DEF migrate_from_salmon
    <3> QED
      BY Zenon, <3>1, <3>2
  <2>2. ASSUME NEW c \in Commands, execute(c)
        PROVE  /\ UNCHANGED <<disk, beside, todo, journal, importing, interrupted>> /\ pc = "idle"
               /\ cmd' \in Commands \cup {Migration} /\ First
    <3>1. /\ UNCHANGED <<disk, beside, todo, journal, importing, interrupted>> /\ pc = "idle"
          /\ cmd' = c
      BY Zenon, <2>2 DEF execute
    <3>2. pc' \in {"idle", "create"} \/ (pc' = "check" /\ c.op # "CreateConfig")
      BY <2>2 DEF execute
    <3> QED
      BY Zenon, <2>2, <3>1, <3>2
  <2> QED
    BY Zenon, <2>1, <2>2 DEF Command
<1>2. ~Copying /\ pc' \notin {"copy", "open", "copying", "rollback"} /\ pc' # "state"
      /\ pc' # "install" /\ pc' # "remove"
  BY <1>1 DEF Copying
<1>3. DiskType' /\ LegacyInv
  BY Zenon, <1>1 DEF SetupInv, Types, DiskType
<1>4. LegacyInv'
  BY Zenon, <1>1, <1>2, <1>3, LegacyKept
<1>5. InstallInv'
  <2>1. CASE pc' = "check"
    <3>1. /\ cmd'.op # "CreateConfig" /\ pc' # "install"
          /\ pc' \notin {"backup", "install", "collect", "remove", "executable"}
          /\ pc' \notin {"collect", "remove", "executable"}
      BY <1>1, <2>1
    <3> QED
      BY Zenon, <3>1 DEF InstallInv
  <2>2. CASE pc' # "check"
    BY <1>1, <2>2, NotInstalling DEF Configured
  <2> QED
    BY Zenon, <2>1, <2>2
<1> QED
  BY Zenon, <1>1, <1>2, <1>3, <1>4, <1>5, PlainStep

\* The migration reads the configuration and imports the state.
LEMMA ImportStep ==
  ASSUME SetupInv, LoadMigrated \/ MigrateLegacyState \/ MigrateState
  PROVE  SetupInv'
<1>1. Types /\ LegacyInv /\ DiskType
  BY Zenon DEF SetupInv, Types
<1>2. UNCHANGED <<beside, journal, interrupted, importing, cmd>>
  BY Zenon DEF LoadMigrated, MigrateLegacyState, MigrateState, GoTo, world, copyVars
<1>3. pc \in {"load", "legacy", "state"} /\ pc' \in {"idle", "legacy", "state", "create"}
  BY DEF LoadMigrated, MigrateLegacyState, MigrateState, GoTo
<1>4. ~Copying /\ pc' \notin {"copy", "open", "copying", "rollback"} /\ pc' \notin Configured
  BY <1>3 DEF Copying, Configured
<1>5. cmd' \in Commands \cup {Migration}
  BY Zenon, <1>1, <1>2 DEF Types
<1>6. CASE LoadMigrated
  <2>1. UNCHANGED disk /\ pc' # "state"
    BY <1>6 DEF LoadMigrated, GoTo
  <2>2. LegacyInv' /\ DiskType'
    BY Zenon, <1>1, <1>2, <2>1, LegacyKept DEF DiskType
  <2> QED
    BY Zenon, <1>2, <1>4, <1>5, <2>1, <2>2, NotInstalling, PlainStep
<1>7. CASE MigrateLegacyState
  <2>1. /\ DiskType' /\ UNCHANGED <<disk["config"], disk["state"], disk["formerState"]>>
        /\ disk["legacyState"] # "none" => disk'["legacyState"] # "none"
        /\ \/ Exists("state") \/ Exists("legacyState")' \/ disk["formerState"] # "unversioned"
    <3>1. CASE UNCHANGED disk
               /\ (Exists("state") \/ Exists("legacyState") \/ disk["formerState"] # "unversioned")
      BY Zenon, <1>1, <3>1 DEF DiskType, Exists
    <3>2. CASE Write("legacyState", "salmon")
      BY <1>1, <3>2, WriteDisk DEF Files, Exists
    <3> QED
      BY Zenon, <1>7, <3>1, <3>2 DEF MigrateLegacyState, preserve_legacy_state
  <2>2. LegacyInv'
    BY Zenon, <1>1, <1>2, <2>1 DEF LegacyInv, LegacyStateKept, Exists
  <2> QED
    BY Zenon, <1>2, <1>4, <1>5, <2>1, <2>2, NotInstalling, PlainStep
<1>8. CASE MigrateState
  <2>1. /\ DiskType' /\ UNCHANGED <<disk["config"], disk["legacyState"], disk["formerState"]>>
        /\ disk["state"] # "none" => disk'["state"] = disk["state"]
    <3>1. CASE UNCHANGED disk
      BY Zenon, <1>1, <3>1 DEF DiskType
    <3>2. CASE Write("state", "salmon") /\ ~Exists("state")
      BY <1>1, <3>2, WriteDisk DEF Files, Exists
    <3> QED
      BY Zenon, <1>8, <3>1, <3>2 DEF MigrateState, copy_renamed_state
  <2>2. pc = "state" /\ pc' # "state"
    BY <1>8 DEF MigrateState, GoTo
  <2>3. LegacyInv'
    BY Zenon, <1>1, <1>2, <2>1, <2>2 DEF LegacyInv, LegacyStateKept, Exists
  <2> QED
    BY Zenon, <1>2, <1>4, <1>5, <2>1, <2>3, NotInstalling, PlainStep
<1> QED
  BY Zenon, <1>6, <1>7, <1>8

\* The files of an operation.
LEMMA TargetsList ==
  ASSUME NEW op \in Operations, op # "CreateConfig"
  PROVE  /\ Targets(op) \in Seq(Desktop)
         /\ \A i \in 1..Len(Targets(op)) : Targets(op)[i] \in Range(Targets(op))
         /\ op = "Complete" => \A f \in {"icon", "launcher"} :
                                   \E i \in 1..Len(Targets(op)) : Targets(op)[i] = f
<1>1. CASE op = "Complete"
  <2> DEFINE q == <<"autostart", "icon", "launcher">>
  <2>1. Targets(op) = q
    BY <1>1 DEF Targets
  <2>2. /\ q \in Seq(Desktop) /\ Len(q) = 3 /\ DOMAIN q = 1..3
        /\ q[2] = "icon" /\ q[3] = "launcher" /\ 2 \in 1..3 /\ 3 \in 1..3
    BY DEF Desktop
  <2> HIDE DEF q
  <2> QED
    BY Zenon, <2>1, <2>2 DEF Range
<1>2. CASE op = "InstallAutostart"
  <2> DEFINE q == <<"autostart">>
  <2>1. Targets(op) = q /\ op # "Complete"
    BY <1>2 DEF Targets
  <2>2. q \in Seq(Desktop) /\ Len(q) = 1 /\ DOMAIN q = 1..1
    BY DEF Desktop
  <2> HIDE DEF q
  <2> QED
    BY Zenon, <2>1, <2>2 DEF Range
<1>3. CASE op = "InstallLauncher"
  <2> DEFINE q == <<"icon", "launcher">>
  <2>1. Targets(op) = q /\ op # "Complete"
    BY <1>3 DEF Targets
  <2>2. q \in Seq(Desktop) /\ Len(q) = 2 /\ DOMAIN q = 1..2
    BY DEF Desktop
  <2> HIDE DEF q
  <2> QED
    BY Zenon, <2>1, <2>2 DEF Range
<1> QED
  BY Zenon, <1>1, <1>2, <1>3 DEF Operations

\* Only the complete setup is run by a migration.
LEMMA CommandTypes ==
  ASSUME cmd \in Commands \cup {Migration}
  PROVE  cmd.op \in Operations /\ (cmd.migrate => cmd.op = "Complete")
<1>1. CASE cmd \in Commands
  <2>1. cmd.op \in Operations /\ cmd.migrate \in {FALSE}
    BY Zenon, <1>1 DEF Commands
  <2> QED
    BY Zenon, <2>1
<1>2. CASE cmd = Migration
  BY <1>2 DEF Migration, Operations
<1> QED
  BY Zenon, <1>1, <1>2

\* Checking the configuration and backing up.
LEMMA BackupStep ==
  ASSUME SetupInv, CreateConfig \/ CheckConfig \/ Backup
  PROVE  SetupInv'
<1>1. Types /\ LegacyInv /\ InstallInv /\ DiskType /\ cmd \in Commands \cup {Migration}
  BY Zenon DEF SetupInv, Types
<1>2. UNCHANGED <<beside, journal, interrupted, importing, cmd>>
  BY Zenon DEF CreateConfig, CheckConfig, Backup, GoTo, world, copyVars
<1>3. pc \in {"create", "check", "backup"} /\ pc' \in {"idle", "check", "backup", "install"}
  BY DEF CreateConfig, CheckConfig, Backup, GoTo
<1>4. ~Copying /\ pc' \notin {"copy", "open", "copying", "rollback"}
      /\ pc' # "state" /\ pc' # "remove"
  BY <1>3 DEF Copying
<1>5. CASE CreateConfig
  <2>1. /\ DiskType' /\ UNCHANGED <<disk["state"], disk["legacyState"], disk["formerState"]>>
        /\ disk'["config"] = "salmon" => disk["config"] = "salmon"
    <3>1. CASE UNCHANGED disk
      BY Zenon, <1>1, <3>1 DEF DiskType
    <3>2. CASE Write("config", "default")
      BY <1>1, <3>2, WriteDisk DEF Files
    <3> QED
      BY Zenon, <1>5, <3>1, <3>2 DEF CreateConfig, CreateDefault
  <2>2. pc' = "idle" \/ (pc' = "check" /\ cmd'.op # "CreateConfig")
    BY <1>2, <1>5 DEF CreateConfig, GoTo
  <2>3. InstallInv' /\ pc' # "install"
    BY <2>2 DEF InstallInv
  <2>4. LegacyInv'
    BY Zenon, <1>1, <1>2, <1>4, <2>1, LegacyKept
  <2> QED
    BY Zenon, <1>1, <1>2, <1>4, <2>1, <2>3, <2>4, PlainStep
<1>6. CASE CheckConfig
  <2>1. /\ UNCHANGED disk /\ pc = "check"
        /\ pc' = "idle" \/ (pc' = "backup" /\ Loads(disk["config"]))
    BY <1>6 DEF CheckConfig, GoTo
  <2>2. cmd.op # "CreateConfig"
    BY <1>1, <2>1 DEF InstallInv
  <2>3. InstallInv' /\ pc' # "install"
    BY <1>2, <2>1, <2>2 DEF InstallInv
  <2>4. LegacyInv' /\ DiskType'
    BY Zenon, <1>1, <1>2, <1>4, <2>1, LegacyKept DEF DiskType
  <2> QED
    BY Zenon, <1>1, <1>2, <1>4, <2>1, <2>3, <2>4, PlainStep
<1>7. CASE Backup
  <2>1. /\ UNCHANGED disk /\ pc = "backup" /\ pc' = "install" /\ todo' = Targets(cmd.op)
        /\ backups' = backups \cup
               {<<f, disk[f]>> : f \in {t \in BackupTargets(cmd) : Exists(t)}}
    BY Zenon, <1>7 DEF Backup, GoTo
  <2>2. cmd.op # "CreateConfig" /\ Loads(disk["config"])
    BY <1>1, <2>1 DEF InstallInv
  <2>3. /\ todo' \in Seq(Desktop)
        /\ \A i \in 1..Len(todo') : todo'[i] \in Range(Targets(cmd.op))
        /\ cmd.op = "Complete" => \A f \in {"icon", "launcher"} : Waits(f)'
    BY Zenon, <1>1, <2>1, <2>2, CommandTypes, TargetsList DEF Waits
  <2>4. ASSUME cmd.reinstall, NEW f \in Desktop, Waits(f)', disk[f] = "own"
        PROVE  <<f, "own">> \in backups'
    <3>1. f \in BackupTargets(cmd)
      BY Zenon, <2>3, <2>4 DEF BackupTargets, Waits
    <3>2. Exists(f)
      BY <2>4 DEF Exists
    <3> QED
      BY Zenon, <2>1, <2>4, <3>1, <3>2
  <2>5. /\ pc' \notin {"collect", "remove", "executable"}
    BY <2>1
  <2>6. InstallInv'
    BY Zenon, <1>2, <2>1, <2>2, <2>3, <2>4, <2>5 DEF InstallInv
  <2>7. LegacyInv' /\ DiskType'
    BY Zenon, <1>1, <1>2, <1>4, <2>1, LegacyKept DEF DiskType
  <2> QED
    BY Zenon, <1>1, <1>2, <1>4, <2>1, <2>3, <2>6, <2>7, PlainStep
<1> QED
  BY Zenon, <1>5, <1>6, <1>7

\* Installing the files.
LEMMA InstallStep ==
  ASSUME SetupInv, Install \/ EndInstall
  PROVE  SetupInv'
<1>1. Types /\ LegacyInv /\ InstallInv /\ DiskType /\ cmd \in Commands \cup {Migration}
  BY Zenon DEF SetupInv, Types
<1>2. UNCHANGED <<beside, journal, interrupted, importing, cmd, backups>> /\ pc = "install"
  BY Zenon DEF Install, EndInstall, GoTo, world, copyVars, installVars
<1>3. pc' \in {"idle", "install", "collect"}
  BY DEF Install, EndInstall, GoTo
<1>4. ~Copying /\ pc' \notin {"copy", "open", "copying", "rollback"}
      /\ pc' # "state" /\ pc' # "remove"
  BY <1>2, <1>3 DEF Copying
<1>5. cmd.op # "CreateConfig" /\ Loads(disk["config"])
  BY <1>1, <1>2 DEF InstallInv
<1>6. CASE Install
  <2> DEFINE h == Head(todo)
  <2>1. /\ todo # <<>> /\ todo' = Tail(todo) /\ pc' = "install"
        /\ \/ Write(h, "generated")
           \/ UNCHANGED disk /\ Exists(h) /\ ~cmd.reinstall
    BY Zenon, <1>6 DEF Install, GoTo
  <2>2. todo \in Seq(Desktop)
    BY Zenon, <1>1, <1>2 DEF Types
  <2>3. /\ todo' \in Seq(Desktop) /\ h \in Desktop
        /\ \A f : Waits(f)' => Waits(f)
        /\ \A f : Waits(f) => f = h \/ Waits(f)'
    BY Zenon, <2>1, <2>2, Visited
  <2>4. h \in Files /\ h # "config" /\ h # "state" /\ h # "legacyState" /\ h # "formerState"
    BY <2>3 DEF Desktop, Files
  <2>5. Desktop \subseteq Files /\ {"config", "state", "legacyState", "formerState"} \subseteq Files
    BY DEF Desktop, Files
  <2> HIDE DEF h
  <2>6. /\ DiskType' /\ disk'[h] # "none"
        /\ UNCHANGED <<disk["config"], disk["state"], disk["legacyState"], disk["formerState"]>>
        /\ \A f \in Desktop : /\ disk'[f] = "own" => disk[f] = "own"
                              /\ Exists(f) => Exists(f)'
    <3>1. CASE UNCHANGED disk /\ Exists(h)
      BY Zenon, <1>1, <3>1 DEF DiskType, Exists
    <3>2. CASE Write(h, "generated")
      <4>1. /\ DiskType' /\ disk'[h] = "generated" /\ \A g \in Files : g # h => disk'[g] = disk[g]
        BY Zenon, <1>1, <2>4, <3>2, WriteDisk
      <4>2. "generated" # "none" /\ "generated" # "own"
        OBVIOUS
      <4> QED
        BY Zenon, <2>4, <2>5, <4>1, <4>2 DEF Exists
    <3> QED
      BY Zenon, <2>1, <3>1, <3>2
  <2>7. pc' \notin {"collect", "remove", "executable"} /\ {"icon", "launcher"} \subseteq Desktop
    BY <2>1 DEF Desktop
  <2>8. InstallInv'
    <3>1. ASSUME cmd.reinstall, NEW f \in Desktop, Waits(f)', disk'[f] = "own"
          PROVE  <<f, "own">> \in backups
      BY Zenon, <1>1, <1>2, <2>3, <2>6, <3>1 DEF InstallInv
    <3>2. ASSUME cmd.op = "Complete", NEW f \in {"icon", "launcher"}
          PROVE  disk'[f] # "none" \/ Waits(f)'
      <4>1. f \in Desktop /\ (Exists(f) \/ Waits(f))
        BY Zenon, <1>1, <1>2, <2>7, <3>2 DEF InstallInv
      <4> QED
        BY Zenon, <2>3, <2>6, <4>1 DEF Exists
    <3>3. cmd'.op # "CreateConfig" /\ Loads(disk'["config"])
      BY Zenon, <1>2, <1>5, <2>6
    <3> QED
      BY Zenon, <1>2, <2>7, <3>1, <3>2, <3>3 DEF InstallInv, Exists
  <2>9. LegacyInv'
    BY Zenon, <1>1, <1>2, <1>4, <2>6, LegacyKept
  <2> QED
    BY Zenon, <1>1, <1>2, <1>4, <2>3, <2>6, <2>8, <2>9, PlainStep
<1>7. CASE EndInstall
  <2>1. /\ UNCHANGED disk /\ todo = <<>>
        /\ pc' = "idle" \/ (pc' = "collect" /\ cmd.migrate)
    BY <1>7 DEF EndInstall, GoTo
  <2>2. pc' = "collect" => Exists("icon") /\ Exists("launcher")
    <3>1. \A f : ~Waits(f)
      BY <2>1 DEF Waits
    <3> QED
      BY Zenon, <1>1, <1>2, <2>1, <3>1, CommandTypes DEF InstallInv
  <2>3. InstallInv' /\ pc' # "install"
    BY <1>2, <1>5, <2>1, <2>2 DEF InstallInv, Exists
  <2>4. LegacyInv' /\ DiskType'
    BY Zenon, <1>1, <1>2, <1>4, <2>1, LegacyKept DEF DiskType
  <2> QED
    BY Zenon, <1>1, <1>2, <1>4, <2>1, <2>3, <2>4, PlainStep
<1> QED
  BY Zenon, <1>6, <1>7

\* Removing the former integration.
LEMMA RemoveStep ==
  ASSUME SetupInv, Collect \/ RemoveFormer \/ RemovedFormer \/ RemoveExecutable
  PROVE  SetupInv'
<1>1. Types /\ LegacyInv /\ InstallInv /\ DiskType /\ cmd \in Commands \cup {Migration}
  BY Zenon DEF SetupInv, Types
<1>2. UNCHANGED <<beside, journal, interrupted, importing, cmd>>
  BY Zenon DEF Collect, RemoveFormer, RemovedFormer, RemoveExecutable, GoTo, world, copyVars
<1>3. pc \in {"collect", "remove", "executable"} /\ pc' \in {"remove", "executable", "idle"}
  BY Zenon DEF Collect, RemoveFormer, RemovedFormer, RemoveExecutable, GoTo
<1>4. ~Copying /\ pc' \notin {"copy", "open", "copying", "rollback"}
      /\ pc' # "state" /\ pc' # "install"
      /\ pc' \notin {"check", "backup", "install"}
  BY <1>3 DEF Copying
<1>5. Loads(disk["config"]) /\ Exists("icon") /\ Exists("launcher")
  BY <1>1, <1>3 DEF InstallInv
<1>6. pc' = "remove" => todo' \in Seq(FormerFiles)
  <2>1. CASE Collect
    <3>1. todo' = <<"oldAutostart", "oldLauncher", "oldIcon">>
      BY Zenon, <2>1 DEF Collect, GoTo, FormerDesktop
    <3> QED
      BY <3>1 DEF FormerFiles
  <2>2. CASE RemoveFormer
    <3>1. todo # <<>> /\ todo' = Tail(todo) /\ pc = "remove"
      BY Zenon, <2>2 DEF RemoveFormer, GoTo
    <3>2. todo \in Seq(FormerFiles)
      BY Zenon, <1>1, <3>1 DEF Types
    <3> QED
      BY <3>1, <3>2
  <2>3. CASE RemovedFormer \/ RemoveExecutable
    BY <2>3 DEF RemovedFormer, RemoveExecutable, GoTo
  <2> QED
    BY Zenon, <2>1, <2>2, <2>3
<1>7. UNCHANGED disk \/ \E f \in FormerFiles \cup {"oldExecutable"} : Write(f, "none")
  <2>1. CASE RemoveFormer
    <3>1. todo # <<>> /\ pc = "remove" /\ Write(Head(todo), "none")
      BY Zenon, <2>1 DEF RemoveFormer
    <3>2. todo \in Seq(FormerFiles)
      BY Zenon, <1>1, <3>1 DEF Types
    <3>3. Head(todo) \in FormerFiles
      BY <3>1, <3>2
    <3> QED
      BY Zenon, <3>1, <3>3
  <2> QED
    BY Zenon, <2>1 DEF Collect, RemovedFormer, RemoveExecutable
<1>8. /\ DiskType' /\ UNCHANGED <<disk["config"], disk["icon"], disk["launcher"], disk["state"],
                                  disk["legacyState"], disk["formerState"]>>
  <2>1. CASE UNCHANGED disk
    BY Zenon, <1>1, <2>1 DEF DiskType
  <2>2. ASSUME NEW f \in FormerFiles \cup {"oldExecutable"}, Write(f, "none")
        PROVE  /\ DiskType' /\ UNCHANGED <<disk["config"], disk["icon"], disk["launcher"],
                                  disk["state"], disk["legacyState"], disk["formerState"]>>
    <3>1. f \in Files /\ f \notin {"config", "icon", "launcher", "state", "legacyState",
                                   "formerState"}
      BY <2>2 DEF FormerFiles, Files
    <3>2. DiskType' /\ \A g \in Files : g # f => disk'[g] = disk[g]
      BY Zenon, <1>1, <2>2, <3>1, WriteDisk
    <3>3. {"config", "icon", "launcher", "state", "legacyState", "formerState"} \subseteq Files
      BY DEF Files
    <3> QED
      BY Zenon, <3>1, <3>2, <3>3
  <2> QED
    BY Zenon, <1>7, <2>1, <2>2
<1>9. InstallInv'
  BY Zenon, <1>4, <1>5, <1>8 DEF InstallInv, Exists
<1>10. LegacyInv'
  BY Zenon, <1>1, <1>2, <1>4, <1>8, LegacyKept
<1> QED
  BY Zenon, <1>1, <1>2, <1>4, <1>6, <1>8, <1>9, <1>10, PlainStep

\* A command ends with an error outside copying.
LEMMA FailStep ==
  ASSUME SetupInv, Fails
  PROVE  SetupInv'
<1>1. LegacyInv /\ DiskType /\ cmd \in Commands \cup {Migration}
  BY Zenon DEF SetupInv, Types
<1>2. UNCHANGED <<disk, beside, journal, interrupted, importing, cmd>> /\ pc' = "idle"
  BY Zenon DEF Fails, GoTo, world, copyVars
<1>3. ~Copying
  BY DEF Fails, Copying
<1>4. pc' \notin {"copy", "open", "copying", "rollback"} /\ pc' # "state" /\ pc' \notin Configured
  BY <1>2 DEF Configured
<1>5. LegacyInv' /\ DiskType'
  BY Zenon, <1>1, <1>2, <1>4, LegacyKept DEF DiskType
<1> QED
  BY Zenon, <1>1, <1>2, <1>3, <1>4, <1>5, NotInstalling, PlainStep

-----------------------------------------------------------------------------
(* Copying.                                                                *)

\* The parts of the invariant that copying does not concern.
LEMMA CopyAlone ==
  ASSUME SetupInv, UNCHANGED <<cmd, importing>>, DiskType',
         UNCHANGED <<disk["state"], disk["legacyState"], disk["formerState"]>>,
         pc' \in {"copy", "open", "copying", "rollback", "load", "idle"},
         beside' \in [Siblings -> {"none", "own", "partial", "copy"}],
         journal' \in Seq(Siblings \cup {"config"}),
         pc' \in {"copy", "open", "copying"} => todo' \in Seq(Siblings),
         pc' \in {"open", "copying"} => todo' # <<>>,
         JournalInv', WholeInv'
  PROVE  SetupInv'
<1>1. LegacyInv /\ cmd \in Commands \cup {Migration}
  BY Zenon DEF SetupInv, Types
<1>2. pc' # "state" /\ pc' \notin Configured
  BY DEF Configured
<1>3. LegacyInv'
  BY Zenon, <1>1, <1>2, LegacyKept
<1>4. InstallInv' /\ pc' # "install" /\ pc' # "remove"
  BY Zenon, <1>2, NotInstalling
<1>5. Types'
  BY Zenon, <1>1, <1>4 DEF Types
<1> QED
  BY Zenon, <1>3, <1>4, <1>5 DEF SetupInv

\* The migrated configuration is installed and the copying begins.
LEMMA InstallMigratedStep ==
  ASSUME SetupInv, InstallMigrated
  PROVE  SetupInv'
<1>1. /\ Types /\ JournalInv /\ WholeInv /\ LegacyInv /\ DiskType
      /\ cmd \in Commands \cup {Migration}
  BY Zenon DEF SetupInv, Types
<1>2. UNCHANGED <<beside, interrupted, importing, cmd>> /\ pc = "config"
  BY Zenon DEF InstallMigrated, GoTo, world
<1>3. ~Copying
  BY <1>2 DEF Copying
<1>4. CASE UNCHANGED <<disk, journal>> /\ pc' = "load"
  <2>1. pc' \notin {"copy", "open", "copying", "rollback"} /\ pc' # "state" /\ pc' \notin Configured
    BY <1>4 DEF Configured
  <2>2. LegacyInv' /\ DiskType'
    BY Zenon, <1>1, <1>2, <1>4, <2>1, LegacyKept DEF DiskType
  <2> QED
    BY Zenon, <1>1, <1>2, <1>3, <1>4, <2>1, <2>2, NotInstalling, PlainStep
<1>5. ASSUME Write("config", Migrated(disk["salmonConfig"])), journal' = <<"config">>,
             NEW order \in ReadDir, pc' = "copy", todo' = order
      PROVE  SetupInv'
  <2>1. /\ DiskType' /\ disk'["config"] \in {"salmon", "invalid"}
        /\ UNCHANGED <<disk["state"], disk["legacyState"], disk["formerState"]>>
    <3>1. Migrated(disk["salmonConfig"]) \in {"salmon", "invalid"}
      BY DEF Migrated
    <3>2. {"config", "state", "legacyState", "formerState"} \subseteq Files
      BY DEF Files
    <3>3. "config" # "state" /\ "config" # "legacyState" /\ "config" # "formerState"
      OBVIOUS
    <3> QED
      BY Zenon, <1>1, <1>5, <3>1, <3>2, <3>3, WriteDisk
  <2>2. /\ todo' \in Seq(Siblings) /\ \A s \in Siblings : Waits(s)'
    BY Zenon, <1>5, Orders DEF Waits
  <2>3. /\ journal' \in Seq(Siblings \cup {"config"}) /\ journal' # <<>> /\ journal'[1] = "config"
        /\ \A i \in 2..Len(journal') : FALSE
    BY <1>5
  <2>4. /\ Copying' /\ pc' # "copying" /\ pc' # "rollback" /\ pc' \notin {"copying", "rollback"}
        /\ pc' \notin {"open", "copying"}
        /\ pc' \in {"copy", "open", "copying", "rollback", "load", "idle"}
    BY <1>5 DEF Copying
  <2>5. JournalInv'
    BY Zenon, <2>1, <2>3, <2>4 DEF JournalInv
  <2>6. WholeInv'
    BY Zenon, <1>1, <1>2, <1>3, <2>2, <2>4 DEF WholeInv, MigratedWhole
  <2>7. beside' \in [Siblings -> {"none", "own", "partial", "copy"}]
    BY Zenon, <1>1, <1>2 DEF Types
  <2> QED
    BY Zenon, <1>2, <2>1, <2>2, <2>3, <2>4, <2>5, <2>6, <2>7, CopyAlone
<1> QED
  BY Zenon, <1>4, <1>5 DEF InstallMigrated, GoTo

\* A sibling is named in the journal.
LEMMA BeginCopyStep ==
  ASSUME SetupInv, BeginCopy
  PROVE  SetupInv'
<1>1. Types /\ JournalInv /\ WholeInv /\ DiskType
  BY Zenon DEF SetupInv, Types
<1>2. /\ UNCHANGED <<disk, beside, interrupted, importing, cmd, todo>> /\ pc = "copy"
      /\ pc' = "open" /\ todo # <<>> /\ journal' = Append(journal, Head(todo))
  BY Zenon DEF BeginCopy, GoTo, world
<1>3. /\ todo \in Seq(Siblings) /\ journal \in Seq(Siblings \cup {"config"}) /\ journal # <<>>
      /\ beside \in [Siblings -> {"none", "own", "partial", "copy"}]
  BY <1>1, <1>2 DEF Types, JournalInv
<1> DEFINE h == Head(todo)
<1>4. h \in Siblings /\ Head(todo') = h
  BY <1>2, <1>3
<1> HIDE DEF h
<1>5. /\ journal' \in Seq(Siblings \cup {"config"}) /\ journal' # <<>>
      /\ journal'[1] = journal[1]
      /\ \A i \in 2..Len(journal') : journal'[i] = h
                                     \/ (i \in 2..Len(journal) /\ journal'[i] = journal[i])
      /\ Len(journal') \in 1..Len(journal') /\ journal'[Len(journal')] = h
  BY <1>2, <1>3, <1>4 DEF h
<1>6. /\ Copying /\ Copying' /\ pc' # "copying" /\ pc' # "rollback" /\ pc \in {"copy", "open"}
      /\ pc' \notin {"copying", "rollback"} /\ pc \in {"copy", "open", "copying"}
      /\ pc' \in {"copy", "open", "copying", "rollback", "load", "idle"}
  BY <1>2 DEF Copying
<1>7. JournalInv'
  <2>1. \A i \in 2..Len(journal) : journal[i] \in Siblings
    BY Zenon, <1>1, <1>3 DEF JournalInv
  <2>2. \A i \in 2..Len(journal') : journal'[i] \in Siblings
    BY Zenon, <1>4, <1>5, <2>1
  <2>3. InJournal(Head(todo))'
    BY Zenon, <1>4, <1>5 DEF InJournal
  <2> QED
    BY Zenon, <1>1, <1>2, <1>3, <1>5, <1>6, <2>2, <2>3 DEF JournalInv
<1>8. WholeInv'
  <2> SUFFICES ASSUME ~interrupted PROVE WholeInv'
    BY Zenon, <1>2 DEF WholeInv
  <2>1. \A s \in Siblings : /\ beside[s] # "partial"
                            /\ beside[s] \in {"copy", "own"} \/ Waits(s)
    BY Zenon, <1>1, <1>6 DEF WholeInv
  <2>2. \A s \in Siblings : Waits(s) => Waits(s)'
    BY Zenon, <1>2 DEF Waits
  <2> QED
    BY Zenon, <1>2, <1>6, <2>1, <2>2 DEF WholeInv, MigratedWhole
<1>9. DiskType'
  BY Zenon, <1>1, <1>2 DEF DiskType
<1> QED
  BY Zenon, <1>2, <1>3, <1>5, <1>6, <1>7, <1>8, <1>9, CopyAlone

\* The sibling is opened and truncated.
LEMMA OpenCopyStep ==
  ASSUME SetupInv, OpenCopy
  PROVE  SetupInv'
<1>1. Types /\ JournalInv /\ WholeInv /\ DiskType
  BY Zenon DEF SetupInv, Types
<1> DEFINE h == Head(todo)
<1>2. /\ UNCHANGED <<disk, interrupted, importing, cmd, todo, journal>> /\ pc = "open"
      /\ pc' = "copying" /\ beside' = [beside EXCEPT ![h] = "partial"]
  BY Zenon DEF OpenCopy, GoTo, world
<1>3. /\ pc \in {"copy", "open"} /\ pc \in {"copy", "open", "copying"} /\ pc \in {"open", "copying"}
      /\ Copying /\ Copying' /\ pc' # "rollback" /\ pc' \notin {"copy", "open"}
      /\ pc' \in {"copy", "open", "copying", "rollback", "load", "idle"}
  BY <1>2 DEF Copying
<1>4. /\ todo \in Seq(Siblings) /\ todo # <<>> /\ journal \in Seq(Siblings \cup {"config"})
      /\ journal # <<>> /\ beside \in [Siblings -> {"none", "own", "partial", "copy"}]
      /\ InJournal(h)
  BY Zenon, <1>1, <1>3 DEF Types, JournalInv
<1>5. h \in Siblings /\ 1 \in 1..Len(todo) /\ todo[1] = h
  BY <1>4
<1>6. /\ beside' \in [Siblings -> {"none", "own", "partial", "copy"}]
      /\ beside'[h] = "partial" /\ \A s \in Siblings : s # h => beside'[s] = beside[s]
  BY <1>2, <1>4, <1>5
<1>7. JournalInv'
  BY Zenon, <1>1, <1>2, <1>3, <1>4, <1>6 DEF JournalInv, InJournal
<1>8. WholeInv'
  <2> SUFFICES ASSUME ~interrupted PROVE WholeInv'
    BY Zenon, <1>2 DEF WholeInv
  <2>1. \A s \in Siblings : /\ beside[s] # "partial"
                            /\ beside[s] \in {"copy", "own"} \/ Waits(s)
    BY Zenon, <1>1, <1>3 DEF WholeInv
  <2>2. \A s \in Siblings : (Waits(s) => Waits(s)') /\ (InJournal(s) => InJournal(s)')
    BY Zenon, <1>2 DEF Waits, InJournal
  <2>3. Waits(h)
    BY Zenon, <1>5 DEF Waits
  <2>4. \A s \in Siblings : beside'[s] = "partial" => s = h
    BY Zenon, <1>6, <2>1
  <2>5. \A s \in Siblings : beside'[s] \in {"copy", "own"} \/ Waits(s)'
    BY Zenon, <1>5, <1>6, <2>1, <2>2, <2>3
  <2> QED
    BY Zenon, <1>2, <1>3, <1>4, <1>5, <2>2, <2>4, <2>5 DEF WholeInv, MigratedWhole
<1>9. DiskType'
  BY Zenon, <1>1, <1>2 DEF DiskType
<1> QED
  BY Zenon, <1>2, <1>3, <1>4, <1>6, <1>7, <1>8, <1>9, CopyAlone

\* The user adds a sibling.
LEMMA AddTokenStep ==
  ASSUME SetupInv, UserAddsToken
  PROVE  SetupInv'
<1>1. Types /\ JournalInv /\ WholeInv /\ LegacyInv /\ InstallInv
  BY Zenon DEF SetupInv
<1>2. UNCHANGED <<disk, cmd, pc, todo, journal, backups, importing, interrupted>>
  BY Zenon DEF UserAddsToken
<1>3. PICK t \in Siblings : beside[t] = "none" /\ beside' = [beside EXCEPT ![t] = "own"]
  BY Zenon DEF UserAddsToken
<1>4. /\ beside' \in [Siblings -> {"none", "own", "partial", "copy"}]
      /\ \A s \in Siblings : /\ beside'[s] = "partial" <=> beside[s] = "partial"
                             /\ beside[s] \in {"copy", "own"} => beside'[s] \in {"copy", "own"}
  BY <1>1, <1>3 DEF Types
<1>5. Types'
  BY Zenon, <1>1, <1>2, <1>4 DEF Types, DiskType
<1>6. JournalInv'
  <2>1. pc = "copying" => Head(todo) \in Siblings
    BY <1>1 DEF Types
  <2> QED
    BY Zenon, <1>1, <1>2, <1>4, <2>1 DEF JournalInv, Copying, InJournal
<1>7. WholeInv'
  BY Zenon, <1>1, <1>2, <1>4 DEF WholeInv, MigratedWhole, Copying, Waits, InJournal
<1>8. LegacyInv' /\ InstallInv'
  BY Zenon, <1>1, <1>2 DEF LegacyInv, LegacyStateKept, InstallInv, Exists, Waits
<1> QED
  BY Zenon, <1>5, <1>6, <1>7, <1>8 DEF SetupInv

\* A sibling has been written, or is there already.
LEMMA CopiedStep ==
  ASSUME SetupInv, EndCopy \/ SkipCopy
  PROVE  SetupInv'
<1>1. Types /\ JournalInv /\ WholeInv /\ DiskType
  BY Zenon DEF SetupInv, Types
<1> DEFINE h == Head(todo)
<1>2. /\ UNCHANGED <<disk, interrupted, importing, cmd, journal>> /\ pc' = "copy"
      /\ todo' = Tail(todo)
      /\ \/ pc = "copying" /\ beside' = [beside EXCEPT ![h] = "copy"]
         \/ pc = "copy" /\ todo # <<>> /\ beside' = beside /\ beside[h] # "none"
  BY Zenon DEF EndCopy, SkipCopy, GoTo, world, copyVars
<1>3. /\ todo \in Seq(Siblings) /\ todo # <<>> /\ journal \in Seq(Siblings \cup {"config"})
      /\ journal # <<>> /\ beside \in [Siblings -> {"none", "own", "partial", "copy"}]
  BY <1>1, <1>2 DEF Types, JournalInv
<1>4. /\ todo' \in Seq(Siblings) /\ h \in Siblings
      /\ \A f : Waits(f) => f = h \/ Waits(f)'
  BY Zenon, <1>2, <1>3, Visited
<1>5. /\ Copying /\ Copying' /\ pc' # "copying" /\ pc' # "rollback" /\ "copy" # "own"
      /\ pc' \notin {"copying", "rollback"} /\ pc' \notin {"open", "copying"}
      /\ "copy" # "partial" /\ (pc = "copy" => pc \in {"copy", "open"})
      /\ pc' \in {"copy", "open", "copying", "rollback", "load", "idle"}
      /\ pc \in {"copy", "open", "copying"}
  BY <1>2 DEF Copying
<1>6. /\ beside' \in [Siblings -> {"none", "own", "partial", "copy"}]
      /\ \A s \in Siblings : s # h => beside'[s] = beside[s]
      /\ beside'[h] = "copy" \/ (pc = "copy" /\ beside'[h] = beside[h] /\ beside[h] # "none")
  BY <1>2, <1>3, <1>4
<1> HIDE DEF h
<1>7. JournalInv'
  BY Zenon, <1>1, <1>2, <1>3, <1>5 DEF JournalInv
<1>8. WholeInv'
  <2> SUFFICES ASSUME ~interrupted PROVE WholeInv'
    BY Zenon, <1>2 DEF WholeInv
  <2>1. /\ \A s \in Siblings : beside[s] \in {"copy", "own"} \/ Waits(s)
        /\ \A s \in Siblings : beside[s] = "partial" => pc = "copying" /\ s = h
    BY Zenon, <1>1, <1>2, <1>5 DEF WholeInv, h
  <2>2. \A s \in Siblings : beside'[s] # "partial"
    <3>1. beside'[h] # "partial"
      <4>1. CASE beside'[h] = "copy"
        BY Zenon, <1>5, <4>1
      <4>2. CASE pc = "copy" /\ beside'[h] = beside[h]
        BY <1>4, <2>1, <4>2
      <4> QED
        BY Zenon, <1>6, <4>1, <4>2
    <3> QED
      BY Zenon, <1>6, <2>1, <3>1
  <2>3. beside'[h] \in {"copy", "own"}
    BY <1>4, <1>6, <2>2
  <2>4. \A s \in Siblings : beside'[s] \in {"copy", "own"} \/ Waits(s)'
    BY Zenon, <1>4, <1>6, <2>1, <2>3
  <2> QED
    BY Zenon, <1>2, <1>5, <2>2, <2>4 DEF WholeInv, MigratedWhole
<1>9. DiskType'
  BY Zenon, <1>1, <1>2 DEF DiskType
<1> QED
  BY Zenon, <1>2, <1>3, <1>4, <1>5, <1>6, <1>7, <1>8, <1>9, CopyAlone

\* Copying ends, well or badly.
LEMMA EndCopiesStep ==
  ASSUME SetupInv, EndCopies \/ CopyFails \/ RolledBack
  PROVE  SetupInv'
<1>1. Types /\ JournalInv /\ WholeInv /\ DiskType
  BY Zenon DEF SetupInv, Types
<1>2. UNCHANGED <<disk, beside, interrupted, importing, cmd>>
  BY Zenon DEF EndCopies, CopyFails, RolledBack, GoTo, world, copyVars
<1>3. /\ journal \in Seq(Siblings \cup {"config"})
      /\ beside \in [Siblings -> {"none", "own", "partial", "copy"}]
  BY Zenon, <1>1 DEF Types
<1>4. DiskType'
  BY Zenon, <1>1, <1>2 DEF DiskType
<1>5. CASE EndCopies \/ RolledBack
  <2>1. /\ journal' = <<>> /\ pc' \in {"load", "idle"}
        /\ \/ pc = "copy" /\ todo = <<>>
           \/ pc = "rollback" /\ journal = <<>>
    <3>1. CASE EndCopies
      BY <3>1 DEF EndCopies, GoTo
    <3>2. CASE RolledBack
      BY <3>2 DEF RolledBack, GoTo, copyVars
    <3> QED
      BY Zenon, <1>5, <3>1, <3>2
  <2>2. /\ ~Copying' /\ pc' # "copy" /\ pc' # "copying" /\ pc' # "rollback"
        /\ pc' \notin {"copy", "open", "copying"} /\ pc' \notin {"copying", "rollback"}
        /\ pc' \notin {"open", "copying"} /\ pc' \notin {"copy", "open"}
        /\ pc' \in {"copy", "open", "copying", "rollback", "load", "idle"}
    BY <2>1 DEF Copying
  <2>3. journal' \in Seq(Siblings \cup {"config"}) /\ JournalInv'
    <3>1. journal' \in Seq(Siblings \cup {"config"})
      BY <2>1
    <3> QED
      BY Zenon, <2>1, <2>2, <3>1 DEF JournalInv
  <2>4. ASSUME ~interrupted
        PROVE  /\ \A s \in Siblings : beside[s] # "partial"
               /\ disk["config"] = "salmon" => \A s \in Siblings : beside[s] \in {"copy", "own"}
    <3>1. CASE pc = "copy" /\ todo = <<>>
      <4>1. \A f : ~Waits(f)
        BY <3>1 DEF Waits
      <4>2. pc \in {"copy", "open", "copying"} /\ pc \in {"copy", "open"}
        BY <3>1
      <4> QED
        BY Zenon, <1>1, <2>4, <3>1, <4>1, <4>2 DEF WholeInv
    <3>2. CASE pc = "rollback" /\ journal = <<>>
      <4>1. \A s \in Siblings : ~InJournal(s)
        BY <3>2 DEF InJournal
      <4>2. pc \in {"copying", "rollback"}
        BY <3>2
      <4> QED
        BY Zenon, <1>1, <2>4, <3>2, <4>1, <4>2 DEF WholeInv
    <3> QED
      BY Zenon, <2>1, <3>1, <3>2
  <2>5. WholeInv'
    BY Zenon, <1>2, <2>2, <2>4 DEF WholeInv, MigratedWhole
  <2> QED
    BY Zenon, <1>2, <1>3, <1>4, <2>2, <2>3, <2>5, CopyAlone
<1>6. CASE CopyFails
  <2>1. UNCHANGED journal /\ pc' = "rollback" /\ pc \in {"copy", "open", "copying"}
    BY Zenon, <1>6 DEF CopyFails, GoTo, copyVars
  <2>2. /\ Copying' /\ Copying /\ pc' # "copying" /\ pc' \notin {"copy", "open", "copying"}
        /\ pc' \notin {"open", "copying"} /\ pc' \notin {"copy", "open"}
        /\ pc' \in {"copy", "open", "copying", "rollback", "load", "idle"}
        /\ pc \in {"copy", "open"} \/ pc \in {"copying", "rollback"}
    BY <2>1 DEF Copying
  <2>3. JournalInv' /\ journal # <<>>
    BY Zenon, <1>1, <1>2, <2>1, <2>2 DEF JournalInv
  <2>4. ASSUME ~interrupted, NEW s \in Siblings, beside[s] = "partial" PROVE InJournal(s)'
    BY Zenon, <1>1, <2>1, <2>2, <2>4 DEF WholeInv, InJournal
  <2>5. WholeInv'
    BY Zenon, <1>2, <2>1, <2>2, <2>3, <2>4 DEF WholeInv, MigratedWhole
  <2> QED
    BY Zenon, <1>2, <1>3, <1>4, <2>1, <2>2, <2>3, <2>5, CopyAlone
<1> QED
  BY Zenon, <1>5, <1>6

\* One file is rolled back, or is not.
LEMMA RollBackStep ==
  ASSUME SetupInv, RollBack
  PROVE  SetupInv'
<1>1. Types /\ JournalInv /\ WholeInv /\ DiskType
  BY Zenon DEF SetupInv, Types
<1> DEFINE last == journal[Len(journal)]
<1>2. /\ UNCHANGED <<importing, cmd>> /\ pc = "rollback" /\ pc' = "rollback" /\ todo' = <<>>
      /\ journal # <<>> /\ journal' = SubSeq(journal, 1, Len(journal) - 1)
      /\ \/ interrupted' = TRUE /\ UNCHANGED <<disk, beside>>
         \/ /\ last = "config" /\ Write("config", "none") /\ UNCHANGED <<beside, interrupted>>
         \/ /\ last # "config" /\ beside' = [beside EXCEPT ![last] = "none"]
            /\ UNCHANGED <<disk, interrupted>>
  BY Zenon DEF RollBack, GoTo, world
<1>3. /\ journal \in Seq(Siblings \cup {"config"})
      /\ beside \in [Siblings -> {"none", "own", "partial", "copy"}]
  BY Zenon, <1>1 DEF Types
<1>4. /\ journal' \in Seq(Siblings \cup {"config"}) /\ last \in Siblings \cup {"config"}
      /\ \A i \in 1..Len(journal') : i \in 1..Len(journal) /\ journal'[i] = journal[i]
      /\ \A i \in 2..Len(journal') : i \in 2..Len(journal)
      /\ \A i \in 1..Len(journal) : journal[i] = last
                                    \/ (i \in 1..Len(journal') /\ journal'[i] = journal[i])
      /\ journal' # <<>> => 1 \in 1..Len(journal')
      /\ journal' = <<>> => last = journal[1]
      /\ journal' # <<>> => Len(journal) \in 2..Len(journal) /\ last = journal[Len(journal)]
  <2> DEFINE n == Len(journal)
  <2>1. n \in Nat /\ n >= 1
    BY <1>2, <1>3
  <2>2. /\ journal' \in Seq(Siblings \cup {"config"}) /\ Len(journal') = n - 1
        /\ \A i \in 1..(n - 1) : journal'[i] = journal[i]
    <3>1. PICK m \in Nat : m = n - 1
      BY <2>1
    <3>2. m <= Len(journal) /\ journal' = SubSeq(journal, 1, m)
      BY <1>2, <2>1, <3>1
    <3> HIDE DEF n
    <3> QED
      BY <1>3, <3>1, <3>2, Prefix
  <2>3. last = journal[n] /\ last \in Siblings \cup {"config"}
    BY <1>3, <2>1
  <2>4. journal' = <<>> => n = 1
    BY <2>1, <2>2
  <2>5. journal' # <<>> => n >= 2
    BY <2>1, <2>2
  <2> HIDE DEF last
  <2> QED
    BY <2>1, <2>2, <2>3, <2>4, <2>5
<1> HIDE DEF last
<1>5. /\ Copying' /\ pc' # "copying" /\ pc' \notin {"copy", "open", "copying"}
      /\ pc' \notin {"open", "copying"} /\ pc' \notin {"copy", "open"}
      /\ pc' \in {"copy", "open", "copying", "rollback", "load", "idle"}
      /\ pc \in {"copying", "rollback"}
      /\ "none" # "own" /\ "none" # "partial" /\ "none" # "salmon"
  BY <1>2 DEF Copying
<1>6. /\ journal[1] = "config" /\ disk["config"] \in {"salmon", "invalid"}
      /\ \A i \in 2..Len(journal) : journal[i] \in Siblings
  BY Zenon, <1>1, <1>2 DEF JournalInv
<1>7. journal' # <<>> => /\ journal'[1] = "config"
                         /\ \A i \in 2..Len(journal') : journal'[i] \in Siblings
  <2>1. \A i \in 2..Len(journal') : i \in 1..Len(journal')
    OBVIOUS
  <2> QED
    BY Zenon, <1>4, <1>6, <2>1
<1>8. CASE interrupted' = TRUE /\ UNCHANGED <<disk, beside>>
  <2>1. JournalInv'
    BY Zenon, <1>5, <1>6, <1>7, <1>8 DEF JournalInv
  <2>2. WholeInv' /\ DiskType'
    BY Zenon, <1>1, <1>8 DEF WholeInv, DiskType
  <2> QED
    BY Zenon, <1>2, <1>3, <1>4, <1>5, <1>8, <2>1, <2>2, CopyAlone
<1>9. CASE last = "config" /\ Write("config", "none") /\ UNCHANGED <<beside, interrupted>>
  <2>1. journal' = <<>>
    BY Zenon, <1>4, <1>6, <1>9, HomesAssumption
  <2>2. /\ DiskType' /\ disk'["config"] = "none"
        /\ UNCHANGED <<disk["state"], disk["legacyState"], disk["formerState"]>>
    BY <1>1, <1>9, WriteDisk DEF Files
  <2>3. JournalInv'
    BY Zenon, <1>5, <2>1 DEF JournalInv
  <2>4. ASSUME ~interrupted, NEW s \in Siblings PROVE beside[s] # "partial"
    <3>1. ~InJournal(s)
      <4>1. \A i \in 1..Len(journal) : journal[i] = last
        BY <1>4, <2>1
      <4> QED
        BY Zenon, <1>9, <2>4, <4>1, HomesAssumption DEF InJournal
    <3> QED
      BY Zenon, <1>1, <1>5, <2>4, <3>1 DEF WholeInv
  <2>5. WholeInv'
    BY Zenon, <1>5, <1>9, <2>2, <2>4 DEF WholeInv, MigratedWhole
  <2> QED
    BY Zenon, <1>2, <1>3, <1>4, <1>5, <1>9, <2>2, <2>3, <2>5, CopyAlone
<1>10. CASE /\ last # "config" /\ beside' = [beside EXCEPT ![last] = "none"]
            /\ UNCHANGED <<disk, interrupted>>
  <2>1. last \in Siblings /\ journal' # <<>>
    BY Zenon, <1>4, <1>6, <1>10
  <2>2. /\ beside' \in [Siblings -> {"none", "own", "partial", "copy"}] /\ beside'[last] = "none"
        /\ \A s \in Siblings : s # last => beside'[s] = beside[s]
    BY <1>3, <1>10, <2>1
  <2>3. JournalInv'
    BY Zenon, <1>5, <1>6, <1>7, <1>10, <2>2 DEF JournalInv
  <2>4. ASSUME ~interrupted, NEW s \in Siblings, beside'[s] = "partial" PROVE InJournal(s)'
    <3>1. s # last /\ beside[s] = "partial"
      BY Zenon, <1>5, <2>2, <2>4
    <3>2. InJournal(s)
      BY Zenon, <1>1, <1>5, <2>4, <3>1 DEF WholeInv
    <3> QED
      BY Zenon, <1>4, <3>1, <3>2 DEF InJournal
  <2>5. WholeInv' /\ DiskType'
    BY Zenon, <1>1, <1>5, <1>10, <2>1, <2>4 DEF WholeInv, MigratedWhole, DiskType
  <2> QED
    BY Zenon, <1>2, <1>4, <1>5, <1>10, <2>2, <2>3, <2>5, CopyAlone
<1> QED
  BY Zenon, <1>2, <1>8, <1>9, <1>10

\* The command is killed.
LEMMA CrashStep ==
  ASSUME SetupInv, Crash
  PROVE  SetupInv'
<1>1. Types /\ JournalInv /\ WholeInv /\ DiskType
  BY Zenon DEF SetupInv, Types
<1>2. /\ UNCHANGED <<disk, beside, importing, cmd>> /\ pc' = "idle" /\ journal' = <<>>
      /\ interrupted' = (interrupted \/ Copying)
  BY Zenon DEF Crash, GoTo, world, Copying
<1>3. /\ ~Copying' /\ pc' # "copy" /\ pc' # "copying" /\ pc' # "rollback"
      /\ pc' \notin {"copy", "open", "copying"} /\ pc' \notin {"copying", "rollback"}
      /\ pc' \notin {"open", "copying"} /\ pc' \notin {"copy", "open"}
      /\ pc' \in {"copy", "open", "copying", "rollback", "load", "idle"}
  BY <1>2 DEF Copying
<1>4. journal' \in Seq(Siblings \cup {"config"})
  BY <1>2
<1>5. beside \in [Siblings -> {"none", "own", "partial", "copy"}] /\ DiskType'
  BY Zenon, <1>1, <1>2 DEF Types, DiskType
<1>6. JournalInv'
  BY Zenon, <1>2, <1>3 DEF JournalInv
<1>7. WholeInv'
  BY Zenon, <1>1, <1>2, <1>3 DEF WholeInv, MigratedWhole
<1> QED
  BY Zenon, <1>2, <1>3, <1>4, <1>5, <1>6, <1>7, CopyAlone

-----------------------------------------------------------------------------
(* The theorems.                                                           *)

\* A home directory that no migration has touched.
LEMMA SetupInit == Init => SetupInv
<1> SUFFICES ASSUME Init PROVE SetupInv
  OBVIOUS
<1>1. PICK home \in Homes : disk = home.disk /\ beside = home.beside
  BY Zenon DEF Init
<1>2. /\ disk = [f \in Files |-> disk[f]] /\ disk["config"] # "salmon" /\ disk["state"] # "salmon"
      /\ beside \in [Siblings -> {"none", "own"}]
  BY Zenon, <1>1, HomesAssumption
<1>3. cmd = Migration /\ pc = "idle" /\ journal = <<>> /\ importing = "none"
  BY Zenon DEF Init
<1>4. /\ pc # "copy" /\ pc # "copying" /\ pc # "rollback" /\ pc # "install" /\ pc # "remove"
      /\ pc # "state" /\ importing # "state" /\ pc \notin {"copy", "open", "copying"}
      /\ pc \notin {"open", "copying"} /\ pc \notin {"copy", "open"}
      /\ pc \notin {"copying", "rollback"} /\ pc \notin {"check", "backup", "install"}
      /\ pc \notin {"backup", "install", "collect", "remove", "executable"}
      /\ pc \notin {"collect", "remove", "executable"}
      /\ \A s \in Siblings : beside[s] # "partial"
      /\ beside \in [Siblings -> {"none", "own", "partial", "copy"}]
      /\ journal \in Seq(Siblings \cup {"config"})
  BY <1>2, <1>3
<1>5. DiskType
  <2>1. DOMAIN [f \in Files |-> disk[f]] = Files
    OBVIOUS
  <2> QED
    BY Zenon, <1>2, <2>1 DEF DiskType
<1> QED
  BY Zenon, <1>2, <1>3, <1>4, <1>5
     DEF SetupInv, Types, JournalInv, WholeInv, MigratedWhole, LegacyInv, LegacyStateKept,
         InstallInv

\* Every step keeps the inductive invariant.
LEMMA SetupStepKeeps ==
  ASSUME SetupInv, [Next]_vars
  PROVE  SetupInv'
<1>1. CASE UNCHANGED vars
  <2>1. UNCHANGED <<disk, beside, cmd, pc, todo, journal, backups, importing, interrupted>>
    BY Zenon, <1>1 DEF vars
  <2>2. Types /\ JournalInv /\ WholeInv /\ LegacyInv /\ InstallInv
    BY Zenon DEF SetupInv
  <2>3. Types' /\ JournalInv'
    BY Zenon, <2>1, <2>2 DEF Types, DiskType, JournalInv, Copying, InJournal
  <2>4. WholeInv'
    BY Zenon, <2>1, <2>2 DEF WholeInv, MigratedWhole, Copying, Waits, InJournal
  <2>5. LegacyInv' /\ InstallInv'
    BY Zenon, <2>1, <2>2 DEF LegacyInv, LegacyStateKept, InstallInv, Exists, Waits
  <2> QED
    BY Zenon, <2>3, <2>4, <2>5 DEF SetupInv
<1>2. CASE Next
  BY Zenon, <1>2, StartStep, ImportStep, BackupStep, InstallStep, RemoveStep, FailStep,
     InstallMigratedStep, BeginCopyStep, OpenCopyStep, CopiedStep, EndCopiesStep, RollBackStep,
     CrashStep, UIKeepsInv, AddTokenStep DEF Next, MigrationStep, SetupStep
<1> QED
  BY Zenon, <1>1, <1>2

\* The invariant holds in every reachable state.
LEMMA SetupSafety == Spec => []SetupInv
  BY SetupInit, SetupStepKeeps, PTL DEF Spec

\* The migration of a configuration is all or nothing, over any number of failed and
\* repeated attempts and for any number of tokens beside it: unless a kill or a failing
\* rollback got in the way, no token is half written, and a migrated configuration has
\* them all (migrate_salmon_config, rollback_created_files).
THEOREM MigrationIsWhole == Spec => []MigratedWhole
<1>1. SetupInv => MigratedWhole
  <2> SUFFICES ASSUME SetupInv PROVE MigratedWhole
    OBVIOUS
  <2>1. ~interrupted => MigratedWhole
    BY Zenon DEF SetupInv, WholeInv
  <2> QED
    BY Zenon, <2>1 DEF MigratedWhole
<1> QED
  BY <1>1, SetupSafety, PTL

\* Whichever of a migration and a starting UI imports an unversioned state, its copy for
\* the legacy application is there first (default_state_path, preserve_legacy_state).
THEOREM LegacyCopyIsKept == Spec => []LegacyStateKept
<1>1. SetupInv => LegacyStateKept
  BY Zenon DEF SetupInv, LegacyInv
<1> QED
  BY <1>1, SetupSafety, PTL

-----------------------------------------------------------------------------
(* What a step may do to a file.                                           *)

\* The writes to the configuration and to the state.
OwnWrites ==
    \/ \E c : /\ Write("config", c)
              /\ disk["config"] = "none" \/ c = "own" \/ (Copying /\ disk["config"] # "own")
    \/ \E c : Write("state", c) /\ (disk["state"] = "none" \/ c = "own")
    \/ \E c : Write("legacyState", c)

\* The writes to the desktop integration, and the removal of the former one.
DesktopWrites ==
    \/ \E c : Write("autostart", c) /\ disk["autostart"] # "own"
    \/ \E f \in Desktop : /\ Write(f, "generated")
                          /\ disk[f] = "own" => <<f, "own">> \in backups
    \/ \E f \in FormerFiles : Write(f, "none") /\ pc = "remove" /\ pc' = "remove"
    \/ Write("oldExecutable", "none") /\ pc = "executable" /\ pc' = "idle" /\ ~inPlace

\* One file at a time, each with its own conditions.
LEMMA Writes ==
  ASSUME SetupInv, [Next]_vars
  PROVE  UNCHANGED disk \/ OwnWrites \/ DesktopWrites
<1>1. Types /\ JournalInv /\ InstallInv
  BY Zenon DEF SetupInv
<1>2. CASE Command \/ Fails \/ Crash \/ UNCHANGED vars
  BY Zenon, <1>2 DEF Command, execute, migrate_from_salmon, Fails, Crash, vars
<1>3. CASE UI
  <2>1. CASE set_autostart
    <3>1. disk["autostart"] # "own"
      BY <2>1 DEF set_autostart, MayDisable, Exists
    <3> QED
      BY Zenon, <2>1, <3>1 DEF set_autostart, DesktopWrites
  <2> QED
    BY Zenon, <1>3, <2>1
       DEF UI, StartUI, ImportLegacyState, ImportState, SaveState, ExitUI, preserve_legacy_state,
           copy_renamed_state, OwnWrites, Exists
<1>4. CASE UserConfigures \/ UserAddsToken
  BY Zenon, <1>4 DEF UserConfigures, UserAddsToken, OwnWrites
<1>5. CASE SetupStep
  <2>1. CASE Install
    <3>1. pc = "install" /\ todo \in Seq(Desktop) /\ todo # <<>> /\ todo' = Tail(todo)
      BY Zenon, <1>1, <2>1 DEF Install, GoTo, Types
    <3>2. Head(todo) \in Desktop /\ Waits(Head(todo))
      BY Zenon, <3>1, Visited
    <3>3. cmd.reinstall /\ disk[Head(todo)] = "own" => <<Head(todo), "own">> \in backups
      BY Zenon, <1>1, <3>1, <3>2 DEF InstallInv
    <3>4. disk[Head(todo)] = "own" => Exists(Head(todo))
      BY DEF Exists
    <3> QED
      BY Zenon, <2>1, <3>2, <3>3, <3>4 DEF Install, DesktopWrites
  <2> QED
    BY Zenon, <1>5, <2>1
       DEF SetupStep, CreateConfig, CreateDefault, CheckConfig, Backup, EndInstall, OwnWrites,
           Exists
<1>6. CASE MigrationStep
  <2>1. CASE RollBack
    <3>1. UNCHANGED disk \/ Write("config", "none")
      BY Zenon, <2>1 DEF RollBack
    <3>2. Copying /\ disk["config"] # "own"
      BY <1>1, <2>1 DEF RollBack, JournalInv, Copying
    <3> QED
      BY Zenon, <3>1, <3>2 DEF OwnWrites
  <2>2. CASE RemoveFormer
    <3>1. pc = "remove" /\ todo \in Seq(FormerFiles) /\ todo # <<>> /\ todo' = Tail(todo)
      BY Zenon, <1>1, <2>2 DEF RemoveFormer, GoTo, Types
    <3>2. Head(todo) \in FormerFiles
      BY Zenon, <3>1, Visited
    <3> QED
      BY Zenon, <2>2, <3>1, <3>2 DEF RemoveFormer, GoTo, DesktopWrites
  <2> QED
    BY Zenon, <1>6, <2>1, <2>2
       DEF MigrationStep, InstallMigrated, BeginCopy, OpenCopy, EndCopy, SkipCopy, EndCopies,
           CopyFails, RolledBack, LoadMigrated, MigrateLegacyState, MigrateState,
           preserve_legacy_state, copy_renamed_state, Collect, RemovedFormer, RemoveExecutable,
           IsReplaced, GoTo, OwnWrites, DesktopWrites, Exists
<1> QED
  BY Zenon, <1>2, <1>3, <1>4, <1>5, <1>6 DEF Next

\* Copying begins only where there is no configuration.
LEMMA CopyingBegins ==
  ASSUME SetupInv, [Next]_vars
  PROVE  UNCHANGED inPlace /\ (Copying' => Copying \/ ~Exists("config"))
<1>1. UNCHANGED inPlace
  BY Zenon
     DEF Next, Command, execute, migrate_from_salmon, MigrationStep, InstallMigrated, BeginCopy,
         OpenCopy, EndCopy, SkipCopy, EndCopies, CopyFails, RollBack, RolledBack, LoadMigrated,
         MigrateLegacyState, MigrateState, Collect, RemoveFormer, RemovedFormer, RemoveExecutable,
         SetupStep, CreateConfig, CheckConfig, Backup, Install, EndInstall, Fails, Crash, UI,
         StartUI, ImportLegacyState, ImportState, SaveState, set_autostart, ExitUI,
         UserConfigures, UserAddsToken, command, GoTo, world, vars
<1>2. CASE UI \/ UserConfigures \/ UserAddsToken \/ UNCHANGED vars
  BY Zenon, <1>2
     DEF UI, StartUI, ImportLegacyState, ImportState, SaveState, set_autostart, ExitUI,
         UserConfigures, UserAddsToken, command, vars, Copying
<1>3. CASE Command
  <2>1. pc' \in {"idle", "create", "check", "load", "config"}
    BY <1>3 DEF Command, execute, migrate_from_salmon
  <2> QED
    BY <2>1, <1>1 DEF Copying
<1>4. CASE SetupStep \/ Fails \/ Crash
  <2>1. pc' \in {"idle", "check", "backup", "install", "collect"}
    BY <1>4 DEF SetupStep, CreateConfig, CheckConfig, Backup, Install, EndInstall, Fails, Crash,
                GoTo
  <2> QED
    BY <2>1, <1>1 DEF Copying
<1>5. CASE BeginCopy \/ OpenCopy \/ EndCopy \/ SkipCopy \/ EndCopies \/ CopyFails
           \/ RollBack \/ RolledBack
  <2>1. Copying
    BY <1>5 DEF BeginCopy, OpenCopy, EndCopy, SkipCopy, EndCopies, CopyFails, RollBack, RolledBack,
                Copying
  <2> QED
    BY Zenon, <1>1, <2>1
<1>6. CASE InstallMigrated
  <2>1. ~Exists("config") \/ pc' = "load"
    BY Zenon, <1>6 DEF InstallMigrated, GoTo
  <2> QED
    BY <1>1, <2>1 DEF Copying
<1>7. CASE LoadMigrated \/ MigrateLegacyState \/ MigrateState \/ Collect \/ RemoveFormer
           \/ RemovedFormer \/ RemoveExecutable
  <2>1. pc' \in {"idle", "legacy", "state", "create", "remove", "executable"}
    BY Zenon, <1>7 DEF LoadMigrated, MigrateLegacyState, MigrateState, Collect, RemoveFormer,
                       RemovedFormer, RemoveExecutable, GoTo
  <2> QED
    BY <2>1, <1>1 DEF Copying
<1> QED
  BY Zenon, <1>2, <1>3, <1>4, <1>5, <1>6, <1>7 DEF Next, MigrationStep

\* One write changes one file.
LEMMA OneFile ==
  ASSUME SetupInv
  PROVE  \A f \in Files : \A c : Write(f, c) =>
             disk'[f] = c /\ \A g \in Files : g # f => disk'[g] = disk[g]
<1>1. DiskType
  BY Zenon DEF SetupInv, Types
<1> QED
  BY Zenon, <1>1, WriteDisk

\* The range of the journal.
LEMMA JournalRange ==
  ASSUME NEW q \in Seq(Siblings \cup {"config"})
  PROVE  \A s : s \in Range(q) <=> \E i \in 1..Len(q) : q[i] = s
<1>1. DOMAIN q = 1..Len(q)
  OBVIOUS
<1> QED
  BY Zenon, <1>1 DEF Range

\* A sibling that is there does not get into the journal.
LEMMA JournalGrows ==
  ASSUME SetupInv, [Next]_vars, NEW s \in Siblings, beside[s] # "none", s \notin Range(journal)
  PROVE  s \notin Range(journal')
<1>1. Types /\ JournalInv /\ journal \in Seq(Siblings \cup {"config"}) /\ s # "config"
  BY Zenon, HomesAssumption DEF SetupInv, Types
<1>2. CASE journal' = journal
  BY Zenon, <1>2
<1>3. CASE journal' = <<>> \/ journal' = <<"config">>
  BY <1>1, <1>3 DEF Range
<1>4. CASE BeginCopy
  <2>1. /\ todo \in Seq(Siblings) /\ todo # <<>> /\ journal' = Append(journal, Head(todo))
        /\ s # Head(todo)
    BY <1>1, <1>4 DEF BeginCopy, Types
  <2>2. Head(todo) \in Siblings
    BY <2>1
  <2>3. /\ journal' \in Seq(Siblings \cup {"config"})
        /\ \A i \in 1..Len(journal') : \/ journal'[i] = Head(todo)
                                       \/ i \in 1..Len(journal) /\ journal'[i] = journal[i]
    BY <1>1, <2>1, <2>2
  <2>4. \A i \in 1..Len(journal) : journal[i] # s
    BY Zenon, <1>1, JournalRange
  <2> QED
    <3>1. s \in Range(journal') => \E i \in 1..Len(journal') : journal'[i] = s
      BY <2>3, JournalRange
    <3> QED
      BY Zenon, <2>1, <2>3, <2>4, <3>1
<1>5. CASE RollBack
  <2>1. PICK m \in Nat : m <= Len(journal) /\ journal' = SubSeq(journal, 1, m)
    <3>1. journal # <<>> /\ journal' = SubSeq(journal, 1, Len(journal) - 1)
      BY Zenon, <1>5 DEF RollBack
    <3>2. Len(journal) - 1 \in Nat /\ Len(journal) - 1 <= Len(journal)
      BY <1>1, <3>1
    <3> QED
      BY Zenon, <3>1, <3>2
  <2>2. /\ journal' \in Seq(Siblings \cup {"config"})
        /\ \A i \in 1..Len(journal') : i \in 1..Len(journal) /\ journal'[i] = journal[i]
    BY <1>1, <2>1, Prefix
  <2>3. \A i \in 1..Len(journal) : journal[i] # s
    BY Zenon, <1>1, JournalRange
  <2> QED
    <3>1. s \in Range(journal') => \E i \in 1..Len(journal') : journal'[i] = s
      BY <2>2, JournalRange
    <3> QED
      BY Zenon, <2>2, <2>3, <3>1
<1> QED
  BY Zenon, <1>2, <1>3, <1>4, <1>5
     DEF Next, Command, execute, migrate_from_salmon, MigrationStep, InstallMigrated, OpenCopy,
         EndCopy, SkipCopy, EndCopies, CopyFails, RolledBack, LoadMigrated, MigrateLegacyState,
         MigrateState, Collect, RemoveFormer, RemovedFormer, RemoveExecutable, SetupStep,
         CreateConfig, CheckConfig, Backup, Install, EndInstall, Fails, Crash, UI, StartUI,
         ImportLegacyState, ImportState, SaveState, set_autostart, ExitUI, UserConfigures,
         UserAddsToken, command, copyVars, vars

\* A configuration or a state that Montray or its user wrote is never replaced or removed,
\* not even one that appears while a command runs or a migration rolls back.  A token the
\* migration replaces or removes is one its journal names, and it names none that was
\* there when it looked (install_file, copy_directory_contents_noclobber,
\* persist_copy_noclobber, rollback_created_files).
THEOREM OwnFilesSurvive == Spec => UserFilesSurvive
<1> DEFINE Keeps ==
      /\ \A f \in {"config", "state"} : disk[f] = "own" => disk'[f] = "own"
      /\ \A s \in Siblings :
             beside[s] = "own" /\ s \notin Range(journal)
                 => beside'[s] = "own" /\ s \notin Range(journal')
<1>1. SetupInv /\ [Next]_vars => Keeps
  <2> SUFFICES ASSUME SetupInv, [Next]_vars PROVE Keeps
    OBVIOUS
  <2>1. ASSUME NEW f \in {"config", "state"}, disk[f] = "own" PROVE disk'[f] = "own"
    <3>1. f \in Files /\ Desktop \subseteq Files /\ FormerFiles \subseteq Files
          /\ {"config", "state", "legacyState", "autostart", "oldExecutable"} \subseteq Files
      BY DEF Files, Desktop, FormerFiles
    <3>2. CASE OwnWrites
      <4>1. CASE f = "config"
        <5>1. disk["config"] = "own" /\ "own" # "none" /\ "config" # "state"
              /\ "config" # "legacyState"
          BY <2>1, <4>1
        <5> QED
          BY Zenon, <3>1, <3>2, <4>1, <5>1, OneFile DEF OwnWrites
      <4>2. CASE f = "state"
        <5>1. disk["state"] = "own" /\ "own" # "none" /\ "state" # "config"
              /\ "state" # "legacyState"
          BY <2>1, <4>2
        <5> QED
          BY Zenon, <3>1, <3>2, <4>2, <5>1, OneFile DEF OwnWrites
      <4> QED
        BY Zenon, <4>1, <4>2
    <3>3. CASE DesktopWrites
      <4>1. f # "autostart" /\ f \notin Desktop /\ f \notin FormerFiles /\ f # "oldExecutable"
        BY DEF Desktop, FormerFiles
      <4> QED
        BY Zenon, <2>1, <3>1, <3>3, <4>1, OneFile DEF DesktopWrites
    <3> QED
      BY Zenon, <2>1, <3>2, <3>3, Writes
  <2>2. ASSUME NEW s \in Siblings, beside[s] = "own", s \notin Range(journal)
        PROVE  beside'[s] = "own"
    <3>1. /\ Types /\ JournalInv /\ beside \in [Siblings -> {"none", "own", "partial", "copy"}]
          /\ journal \in Seq(Siblings \cup {"config"})
      BY Zenon DEF SetupInv, Types
    <3>2. CASE UNCHANGED beside
      BY Zenon, <2>2, <3>2
    <3>3. CASE OpenCopy \/ EndCopy
      <4>1. pc \in {"open", "copying"} /\ \E c : beside' = [beside EXCEPT ![Head(todo)] = c]
        BY <3>3 DEF OpenCopy, EndCopy
      <4>2. Head(todo) # s
        BY Zenon, <2>2, <3>1, <4>1, JournalRange DEF JournalInv, InJournal
      <4> QED
        BY <2>2, <3>1, <4>1, <4>2
    <3>4. CASE UserAddsToken
      BY <2>2, <3>1, <3>4 DEF UserAddsToken
    <3>5. CASE RollBack /\ ~UNCHANGED beside
      <4>1. journal # <<>> /\ beside' = [beside EXCEPT ![journal[Len(journal)]] = "none"]
        BY Zenon, <3>5 DEF RollBack
      <4>2. Len(journal) \in 1..Len(journal)
        BY <3>1, <4>1
      <4>3. journal[Len(journal)] # s
        BY Zenon, <2>2, <3>1, <4>2, JournalRange
      <4> QED
        BY <2>2, <3>1, <4>1, <4>3
    <3> QED
      BY Zenon, <3>2, <3>3, <3>4, <3>5
         DEF Next, Command, execute, migrate_from_salmon, MigrationStep, InstallMigrated, BeginCopy,
             SkipCopy, EndCopies, CopyFails, RolledBack, LoadMigrated, MigrateLegacyState,
             MigrateState, Collect, RemoveFormer, RemovedFormer, RemoveExecutable, SetupStep,
             CreateConfig, CheckConfig, Backup, Install, EndInstall, Fails, Crash, UI, StartUI,
             ImportLegacyState, ImportState, SaveState, set_autostart, ExitUI, UserConfigures,
             command, copyVars, vars
  <2>3. ASSUME NEW s \in Siblings, beside[s] = "own", s \notin Range(journal)
        PROVE  s \notin Range(journal')
    <3>1. beside[s] # "none"
      BY <2>3
    <3> QED
      BY Zenon, <2>3, <3>1, JournalGrows
  <2> QED
    BY Zenon, <2>1, <2>2, <2>3
<1>2. Spec => [][Keeps]_vars
  BY <1>1, SetupSafety, PTL DEF Spec
<1> QED
  BY <1>2 DEF UserFilesSurvive

\* A hand-written desktop file is replaced or removed only once a copy of it is in a
\* backup directory that is kept, by whichever of a reinstallation and the tray's
\* autostart switch (execute_with, backup_existing_files, set_autostart_file).
THEOREM BackupPrecedesReplacement == Spec => ReplacedIsBackedUp
<1> DEFINE BackedUp ==
      \A f \in Desktop : disk[f] = "own" /\ disk'[f] # "own" => <<f, "own">> \in backups
<1>1. SetupInv /\ [Next]_vars => BackedUp
  <2> SUFFICES ASSUME SetupInv, [Next]_vars,
                      NEW f \in Desktop, disk[f] = "own", disk'[f] # "own"
               PROVE  <<f, "own">> \in backups
    OBVIOUS
  <2>1. /\ f \in Files /\ Desktop \subseteq Files /\ FormerFiles \subseteq Files
        /\ {"autostart", "oldExecutable"} \subseteq Files
        /\ f # "oldExecutable" /\ f \notin FormerFiles
    BY DEF Files, Desktop, FormerFiles
  <2>2. ~UNCHANGED disk
    BY Zenon
  <2>3. ~OwnWrites
    <3>1. /\ "config" \in Files /\ "state" \in Files /\ "legacyState" \in Files
          /\ f # "config" /\ f # "state" /\ f # "legacyState"
      BY DEF Files, Desktop
    <3> QED
      BY Zenon, <2>1, <3>1, OneFile DEF OwnWrites
  <2>4. DesktopWrites
    BY Zenon, <2>2, <2>3, Writes
  <2> QED
    BY Zenon, <2>1, <2>4, OneFile DEF DesktopWrites
<1>2. Spec => [][BackedUp]_vars
  BY <1>1, SetupSafety, PTL DEF Spec
<1> QED
  BY <1>2 DEF ReplacedIsBackedUp

\* Whatever fails and whenever a command is killed, a user who could start the former or
\* the new UI from the menu still can: the former launcher and executable go only after
\* the new integration is complete and its configuration loads, and a running executable
\* that is the former one stays (migrate_from_salmon_with, execute_with).
THEOREM SomethingStarts == Spec => AlwaysStartable
<1> DEFINE Starts == SalmonStarts \/ MontrayStarts
           StillStarts == Starts => Starts'
<1>1. SetupInv /\ [Next]_vars => StillStarts
  <2> SUFFICES ASSUME SetupInv, [Next]_vars, Starts PROVE Starts'
    OBVIOUS
  <2>1. /\ Desktop \subseteq Files /\ FormerFiles \subseteq Files
        /\ {"config", "state", "legacyState", "autostart", "icon", "launcher", "oldLauncher",
            "oldExecutable", "salmonConfig"} \subseteq Files
    BY DEF Files, Desktop, FormerFiles
  <2> DEFINE Same(f) == disk'[f] = disk[f]
  <2>2. Same("salmonConfig")
    <3>1. /\ "salmonConfig" \notin Desktop /\ "salmonConfig" \notin FormerFiles
          /\ "salmonConfig" \notin {"config", "state", "legacyState", "autostart", "oldExecutable"}
      BY DEF Desktop, FormerFiles
    <3> QED
      BY Zenon, <2>1, <3>1, OneFile, Writes DEF OwnWrites, DesktopWrites
  <2>3. \A f \in {"icon", "launcher"} : disk[f] # "none" => disk'[f] # "none"
    <3> SUFFICES ASSUME NEW f \in {"icon", "launcher"}, disk[f] # "none" PROVE disk'[f] # "none"
      OBVIOUS
    <3>1. /\ f \in Files /\ f \notin FormerFiles /\ "generated" # "none"
          /\ f \notin {"config", "state", "legacyState", "autostart", "oldExecutable"}
      BY DEF Files, FormerFiles
    <3> QED
      BY Zenon, <2>1, <3>1, OneFile, Writes DEF OwnWrites, DesktopWrites
  <2>4. Loads(disk["config"]) => Copying \/ Loads(disk'["config"])
    <3>1. /\ "config" \notin Desktop /\ "config" \notin FormerFiles
          /\ "config" \notin {"state", "legacyState", "autostart", "oldExecutable"}
          /\ Loads("own") /\ ~Loads("none")
      BY DEF Desktop, FormerFiles, Loads
    <3> QED
      BY Zenon, <2>1, <3>1, OneFile, Writes DEF OwnWrites, DesktopWrites
  <2>5. \/ Same("oldLauncher")
        \/ pc = "remove" /\ pc' = "remove" /\ Same("oldExecutable")
    <3>1. /\ "oldLauncher" \notin Desktop /\ "oldExecutable" \notin FormerFiles
          /\ "oldLauncher" \notin {"config", "state", "legacyState", "autostart", "oldExecutable"}
      BY DEF Desktop, FormerFiles
    <3> QED
      BY Zenon, <2>1, <3>1, OneFile, Writes DEF OwnWrites, DesktopWrites
  <2>6. \/ Same("oldExecutable")
        \/ pc = "executable" /\ pc' = "idle" /\ ~inPlace
    <3>1. /\ "oldExecutable" \notin Desktop /\ "oldExecutable" \notin FormerFiles
          /\ "oldExecutable" \notin {"config", "state", "legacyState", "autostart"}
      BY DEF Desktop, FormerFiles
    <3> QED
      BY Zenon, <2>1, <3>1, OneFile, Writes DEF OwnWrites, DesktopWrites
  <2>7. UNCHANGED inPlace /\ (Copying' => Copying \/ ~Exists("config"))
    BY Zenon, CopyingBegins
  <2> HIDE DEF Same
  <2>8. CASE pc \in {"remove", "executable"} /\ pc' \in {"remove", "idle"}
    <3>1. Loads(disk["config"]) /\ Exists("icon") /\ Exists("launcher")
      BY <2>8 DEF SetupInv, InstallInv
    <3>2. ~Copying /\ ~Copying'
      BY <2>8 DEF Copying
    <3>3. inPlace => Exists("oldExecutable")
      BY Zenon DEF SalmonStarts, MontrayStarts
    <3> QED
      BY Zenon, <2>3, <2>4, <2>6, <2>7, <3>1, <3>2, <3>3 DEF MontrayStarts, Exists, Same
  <2>9. CASE Same("oldLauncher") /\ Same("oldExecutable")
    <3>1. SalmonStarts => SalmonStarts'
      BY Zenon, <2>2, <2>9 DEF SalmonStarts, Exists, Same
    <3>2. MontrayStarts => MontrayStarts'
      <4>1. Loads(disk["config"]) => Exists("config")
        BY DEF Loads, Exists
      <4> QED
        BY Zenon, <2>3, <2>4, <2>7, <2>9, <4>1 DEF MontrayStarts, Exists, Same
    <3> QED
      BY Zenon, <3>1, <3>2
  <2> QED
    BY Zenon, <2>5, <2>6, <2>8, <2>9
<1>2. Spec => [][StillStarts]_vars
  BY <1>1, SetupSafety, PTL DEF Spec
<1> QED
  BY <1>2 DEF AlwaysStartable
=============================================================================
