------------------------------- MODULE Setup --------------------------------
(***************************************************************************)
(* The commands of montray-ui that change a user's installation: setup,    *)
(* its parts, --reinstall and migrate-from-salmon (setup.rs), the import   *)
(* of the former state file (persistence.rs), and the files that a UI      *)
(* running meanwhile writes (app.rs).  Every file operation may fail, and  *)
(* the command may be killed between any two of them; the user then tries  *)
(* again.                                                                  *)
(*                                                                         *)
(* A file's content is abstracted to where it came from: "own" is written  *)
(* by the user (for the state file: by Montray UI), "generated" by setup,  *)
(* "salmon" is what was carried over from Salmon Watch, "invalid" is a     *)
(* configuration that does not load.                                       *)
(***************************************************************************)
EXTENDS Naturals, Sequences, FiniteSets, Functions

CONSTANTS
    Siblings,      \* the files beside the former configuration (tokens)
    Homes,         \* the home directories a user may start from
    MaxCommands    \* bound on the commands run

Files ==
    {"salmonConfig", "oldAutostart", "oldLauncher", "oldIcon", "oldExecutable",
     "config", "autostart", "icon", "launcher", "formerState", "legacyState", "state"}

\* Finitely many siblings, and home directories that no migration has touched.
ASSUME HomesAssumption ==
    /\ Cardinality(Siblings) \in Nat /\ "config" \notin Siblings
    /\ \A home \in Homes :
           /\ home.disk = [f \in Files |-> home.disk[f]]
           /\ home.disk["config"] # "salmon" /\ home.disk["state"] # "salmon"
           /\ home.beside \in [Siblings -> {"none", "own"}]

VARIABLES
    disk,          \* the contents of the files, "none" when absent
    beside,        \* the siblings as they are beside the new configuration
    source,        \* the siblings beside the former one: "file" or "symlink"
    inPlace,       \* the running executable is the former one (same path)
    cmd,           \* the running command
    pc,            \* the step it is at
    todo,          \* the files that step still has to visit
    journal,       \* created_files: what this migration attempt has created
    executables,   \* former_executables is not empty
    backups,       \* what the kept backup directories hold
    importing,     \* the step of default_state_path a starting UI is at
    interrupted,   \* copying was cut short without a complete rollback
    commands       \* the number of commands run

vars == <<disk, beside, source, inPlace, cmd, pc, todo, journal, executables,
          backups, importing, interrupted, commands>>

Operations == {"Complete", "CreateConfig", "InstallAutostart", "InstallLauncher"}

Commands ==
    [op : Operations, reinstall : BOOLEAN, ignore_salmon : BOOLEAN, migrate : {FALSE}]

\* migrate_from_salmon_with runs execute_with(Complete, reinstall).
Migration ==
    [op |-> "Complete", reinstall |-> TRUE, ignore_salmon |-> FALSE, migrate |-> TRUE]

\* SalmonWatchPaths, the order in which they are removed, and InstallPaths.  The
\* native and the web-based variant of each former file are one here.
FormerEntries == {"oldAutostart", "oldLauncher"}
FormerDesktop == <<"oldAutostart", "oldLauncher", "oldIcon">>
Desktop == {"autostart", "icon", "launcher"}

Exists(f) == disk[f] # "none"
Write(f, content) == disk' = [disk EXCEPT ![f] = content]

\* Config::load succeeds.
Loads(config) == config \in {"own", "default", "salmon"}

Init ==
    /\ \E home \in Homes :
           /\ disk = home.disk
           /\ beside = home.beside
           /\ source = home.source
           /\ inPlace = home.inPlace
    /\ cmd = Migration
    /\ pc = "idle"
    /\ todo = <<>>
    /\ journal = <<>>
    /\ executables = FALSE
    /\ backups = {}
    /\ importing = "none"
    /\ interrupted = FALSE
    /\ commands = 0

-----------------------------------------------------------------------------
(* Steps *)

world == <<source, inPlace, importing, commands>>

\* The step goes on to another one, or the command returns ("idle").
GoTo(step, files) ==
    /\ pc' = step
    /\ todo' = files
    /\ UNCHANGED <<world, cmd>>

\* existing_salmon_paths
SalmonIsInstalled ==
    Exists("salmonConfig") \/ \E f \in Range(FormerDesktop) : Exists(f)

\* Configured already, as both setup and the migration see it.
IsConfigured == Exists("config") /\ (Exists("autostart") \/ Exists("launcher"))

\* reject_salmon_watch_installation
Rejected(c) ==
    /\ c.op = "Complete"
    /\ ~c.ignore_salmon
    /\ SalmonIsInstalled
    /\ ~IsConfigured

\* execute: a command starts.
execute(c) ==
    /\ pc = "idle"
    /\ commands < MaxCommands
    /\ commands' = commands + 1
    /\ cmd' = c
    /\ pc' = IF Rejected(c) THEN "idle"
             ELSE IF c.op \in {"Complete", "CreateConfig"} THEN "create" ELSE "check"
    /\ UNCHANGED <<disk, beside, source, inPlace, todo, journal, executables,
                   backups, importing, interrupted>>

\* migrate_from_salmon_with: nothing to do, or the first step of migrate_salmon_config.
migrate_from_salmon ==
    /\ pc = "idle"
    /\ commands < MaxCommands
    /\ commands' = commands + 1
    /\ cmd' = Migration
    /\ pc' = IF \/ ~SalmonIsInstalled
                \/ ~(\E f \in Range(FormerDesktop) : Exists(f)) /\ IsConfigured
             THEN "idle"
             ELSE IF Exists("config") THEN "load"
             ELSE IF Exists("salmonConfig") THEN "config"
             ELSE "idle"
    /\ UNCHANGED <<disk, beside, source, inPlace, todo, journal, executables,
                   backups, importing, interrupted>>

-----------------------------------------------------------------------------
(* migrate_salmon_config *)

copyVars == <<beside, journal, interrupted>>
installVars == <<executables, backups>>

\* The former configuration with its own directory's paths rewritten.
Migrated(content) == IF content = "valid" THEN "salmon" ELSE "invalid"

\* read_dir: the siblings in any order.
ReadDir == Bijection(1..Cardinality(Siblings), Siblings)

\* install_file without replacement, after the early check that there is no
\* configuration: one that appeared meanwhile is kept.
InstallMigrated ==
    /\ pc = "config"
    /\ \/ /\ Exists("config")
          /\ UNCHANGED <<disk, journal>>
          /\ GoTo("load", <<>>)
       \/ /\ ~Exists("config")
          /\ Write("config", Migrated(disk["salmonConfig"]))
          /\ journal' = <<"config">>
          /\ \E order \in ReadDir : GoTo("copy", order)
    /\ UNCHANGED <<beside, interrupted, installVars>>

\* Mutant of BeginCopy: the file is not journaled before it is written.
CopyUnjournaled ==
    /\ pc = "copy"
    /\ todo # <<>>
    /\ source[Head(todo)] = "file"
    /\ beside[Head(todo)] = "none"
    /\ GoTo("open", todo)
    /\ UNCHANGED <<disk, copyVars, installVars>>

\* Mutant of BeginCopy: a file that exists already is not kept.
CopyAnyway ==
    /\ pc = "copy"
    /\ todo # <<>>
    /\ source[Head(todo)] = "file"
    /\ journal' = Append(journal, Head(todo))
    /\ GoTo("open", todo)
    /\ UNCHANGED <<disk, beside, interrupted, installVars>>

\* copy_directory_contents_noclobber: the file does not exist, and the journal names it
\* before it is written.
BeginCopy ==
    /\ pc = "copy"
    /\ todo # <<>>
    /\ source[Head(todo)] = "file"
    /\ beside[Head(todo)] = "none"
    /\ journal' = Append(journal, Head(todo))
    /\ GoTo("open", todo)
    /\ UNCHANGED <<disk, beside, interrupted, installVars>>

\* fs::copy opens the destination and truncates it, also one that appeared after the
\* check.
OpenCopy ==
    /\ pc = "open"
    /\ beside' = [beside EXCEPT ![Head(todo)] = "partial"]
    /\ GoTo("copying", todo)
    /\ UNCHANGED <<disk, journal, interrupted, installVars>>

EndCopy ==
    /\ pc = "copying"
    /\ beside' = [beside EXCEPT ![Head(todo)] = "copy"]
    /\ GoTo("copy", Tail(todo))
    /\ UNCHANGED <<disk, journal, interrupted, installVars>>

\* A file that exists already is kept.
SkipCopy ==
    /\ pc = "copy"
    /\ todo # <<>>
    /\ source[Head(todo)] = "file"
    /\ beside[Head(todo)] # "none"
    /\ GoTo("copy", Tail(todo))
    /\ UNCHANGED <<disk, copyVars, installVars>>

EndCopies ==
    /\ pc = "copy"
    /\ todo = <<>>
    /\ journal' = <<>>
    /\ GoTo("load", <<>>)
    /\ UNCHANGED <<disk, beside, interrupted, installVars>>

\* A symbolic link is refused; reading the directory, reading or writing may fail.
CopyFails ==
    /\ pc \in {"copy", "open", "copying"}
    /\ GoTo("rollback", <<>>)
    /\ UNCHANGED <<disk, copyVars, installVars>>

\* rollback_created_files: best effort, last file first.
RollBack ==
    /\ pc = "rollback"
    /\ journal # <<>>
    /\ journal' = SubSeq(journal, 1, Len(journal) - 1)
    /\ \/ /\ interrupted' = TRUE
          /\ UNCHANGED <<disk, beside>>
       \/ /\ IF journal[Len(journal)] = "config"
             THEN Write("config", "none") /\ UNCHANGED beside
             ELSE beside' = [beside EXCEPT ![journal[Len(journal)]] = "none"] /\ UNCHANGED disk
          /\ UNCHANGED interrupted
    /\ GoTo("rollback", <<>>)
    /\ UNCHANGED installVars

RolledBack ==
    /\ pc = "rollback"
    /\ journal = <<>>
    /\ GoTo("idle", <<>>)
    /\ UNCHANGED <<disk, copyVars, installVars>>

\* Config::load of what was migrated or was there.
LoadMigrated ==
    /\ pc = "load"
    /\ GoTo(IF Loads(disk["config"]) THEN "legacy" ELSE "idle", <<>>)
    /\ UNCHANGED <<disk, copyVars, installVars>>

-----------------------------------------------------------------------------
(* default_state_path, run by the migration and by a starting UI *)

\* preserve_legacy_state fails on a state file it cannot read.
StateIsUnreadable ==
    /\ ~Exists("state")
    /\ ~Exists("legacyState")
    /\ disk["formerState"] = "malformed"

\* Mutant of preserve_legacy_state: every former state counts as current.
PreserveNothing == UNCHANGED disk

\* preserve_legacy_state: an unversioned state is kept for the legacy application.
preserve_legacy_state ==
    IF ~Exists("state") /\ ~Exists("legacyState") /\ disk["formerState"] = "unversioned"
    THEN Write("legacyState", "salmon")
    ELSE UNCHANGED disk

\* copy_renamed_state, persist_copy_noclobber
copy_renamed_state ==
    IF ~Exists("state") /\ Exists("formerState")
    THEN Write("state", "salmon")
    ELSE UNCHANGED disk

MigrateLegacyState ==
    /\ pc = "legacy"
    /\ preserve_legacy_state
    /\ GoTo(IF StateIsUnreadable THEN "idle" ELSE "state", <<>>)
    /\ UNCHANGED <<copyVars, installVars>>

MigrateState ==
    /\ pc = "state"
    /\ copy_renamed_state
    /\ GoTo("create", <<>>)
    /\ UNCHANGED <<copyVars, installVars>>

-----------------------------------------------------------------------------
(* execute_with *)

\* install_file of the default configuration, never replacing one.
CreateDefault == IF Exists("config") THEN UNCHANGED disk ELSE Write("config", "default")

CreateConfig ==
    /\ pc = "create"
    /\ CreateDefault
    /\ GoTo(IF cmd.op = "CreateConfig" THEN "idle" ELSE "check", <<>>)
    /\ UNCHANGED <<copyVars, installVars>>

\* Config::load; validate_executable_path is among the steps that may fail.
CheckConfig ==
    /\ pc = "check"
    /\ GoTo(IF Loads(disk["config"]) THEN "backup" ELSE "idle", <<>>)
    /\ UNCHANGED <<disk, copyVars, installVars>>

\* The desktop files of an operation, in the order they are installed.
Targets(op) ==
    CASE op = "Complete" -> <<"autostart", "icon", "launcher">>
      [] op = "InstallAutostart" -> <<"autostart">>
      [] op = "InstallLauncher" -> <<"icon", "launcher">>

\* Mutant of BackupTargets: the entries are backed up, the icon is not.
BackupEntries(c) ==
    IF c.reinstall THEN Range(Targets(c.op)) \ {"icon"} ELSE {}

\* backup_targets
BackupTargets(c) == IF c.reinstall THEN Range(Targets(c.op)) ELSE {}

\* backup_existing_files keeps one directory with all of them, or fails.
Backup ==
    /\ pc = "backup"
    /\ backups' = backups \cup {<<f, disk[f]>> : f \in {t \in BackupTargets(cmd) : Exists(t)}}
    /\ GoTo("install", Targets(cmd.op))
    /\ UNCHANGED <<disk, copyVars, executables>>

\* install_file: replaces only when reinstalling.
Install ==
    /\ pc = "install"
    /\ todo # <<>>
    /\ IF cmd.reinstall \/ ~Exists(Head(todo))
       THEN Write(Head(todo), "generated")
       ELSE UNCHANGED disk
    /\ GoTo("install", Tail(todo))
    /\ UNCHANGED <<copyVars, installVars>>

EndInstall ==
    /\ pc = "install"
    /\ todo = <<>>
    /\ GoTo(IF cmd.migrate THEN "collect" ELSE "idle", <<>>)
    /\ UNCHANGED <<disk, copyVars, installVars>>

-----------------------------------------------------------------------------
(* The end of migrate_from_salmon_with *)

\* generated_salmon_executable: only an entry that Salmon Watch generated names
\* an executable to remove.
generated_salmon_executable(entry) == disk[entry] = "generated"

Collect ==
    /\ pc = "collect"
    /\ executables' = \E e \in FormerEntries : generated_salmon_executable(e)
    /\ GoTo("remove", FormerDesktop)
    /\ UNCHANGED <<disk, copyVars, backups>>

\* remove_file_if_present
RemoveFormer ==
    /\ pc = "remove"
    /\ todo # <<>>
    /\ Write(Head(todo), "none")
    /\ GoTo("remove", Tail(todo))
    /\ UNCHANGED <<copyVars, installVars>>

RemovedFormer ==
    /\ pc = "remove"
    /\ todo = <<>>
    /\ GoTo("executable", <<>>)
    /\ UNCHANGED <<disk, copyVars, installVars>>

\* Mutant of IsReplaced: the running executable is removed as well.
AlwaysReplaced == TRUE

\* old_executable != context.executable
IsReplaced == ~inPlace

\* remove_former_executable: one it may not remove is left to the administrator.
RemoveExecutable ==
    /\ pc = "executable"
    /\ \/ UNCHANGED disk
       \/ executables /\ IsReplaced /\ Write("oldExecutable", "none")
    /\ executables' = FALSE
    /\ GoTo("idle", <<>>)
    /\ UNCHANGED <<copyVars, backups>>

-----------------------------------------------------------------------------
(* What else happens *)

\* Any other file operation fails: the command returns its error.
Fails ==
    /\ pc \notin {"idle", "copy", "open", "copying", "rollback"}
    /\ executables' = FALSE
    /\ GoTo("idle", <<>>)
    /\ UNCHANGED <<disk, copyVars, backups>>

\* The command is killed.
Crash ==
    /\ pc # "idle"
    /\ interrupted' = (interrupted \/ pc \in {"copy", "open", "copying", "rollback"})
    /\ journal' = <<>>
    /\ executables' = FALSE
    /\ GoTo("idle", <<>>)
    /\ UNCHANGED <<disk, beside, backups>>

command == <<cmd, pc, todo, journal, executables, backups, source, inPlace, beside,
             interrupted, commands>>

\* runtime_default_path and Config::load: the former configuration serves where there
\* is no new one.
StartupConfigLoads ==
    IF Exists("config") THEN Loads(disk["config"]) ELSE disk["salmonConfig"] # "invalid"

\* The UI starts, not during a command: load_startup_config.
StartUI ==
    /\ pc = "idle"
    /\ importing = "none"
    /\ importing' = IF StartupConfigLoads THEN "legacy" ELSE "none"
    /\ IF Exists("config") \/ Exists("salmonConfig")
       THEN UNCHANGED disk
       ELSE Write("config", "default")
    /\ UNCHANGED command

ImportLegacyState ==
    /\ importing = "legacy"
    /\ preserve_legacy_state
    /\ importing' = IF StateIsUnreadable THEN "none" ELSE "state"
    /\ UNCHANGED command

ImportState ==
    /\ importing = "state"
    /\ copy_renamed_state
    /\ importing' = "running"
    /\ UNCHANGED command

\* The running UI saves its state.
SaveState ==
    /\ importing = "running"
    /\ Write("state", "own")
    /\ UNCHANGED <<importing, command>>

\* set_autostart_file refuses to remove an entry Montray did not create.
MayDisable == disk["autostart"] = "generated"

\* The tray's autostart switch.  One whose position is out of date changes no file.
set_autostart ==
    /\ importing = "running"
    /\ IF Exists("autostart")
       THEN MayDisable /\ Write("autostart", "none")
       ELSE Write("autostart", "generated")
    /\ UNCHANGED <<importing, command>>

ExitUI ==
    /\ importing = "running"
    /\ importing' = "none"
    /\ UNCHANGED <<disk, command>>

\* The user writes a configuration where there is none, at any moment, or
\* repairs one between commands.
UserConfigures ==
    /\ \/ ~Exists("config")
       \/ disk["config"] = "invalid" /\ pc = "idle"
    /\ Write("config", "own")
    /\ UNCHANGED <<importing, command>>

\* The user writes a token beside the new configuration where there is none, at any
\* moment.
UserAddsToken ==
    /\ \E s \in Siblings :
           /\ beside[s] = "none"
           /\ beside' = [beside EXCEPT ![s] = "own"]
    /\ UNCHANGED <<disk, source, inPlace, cmd, pc, todo, journal, executables, backups,
                   importing, interrupted, commands>>

Command ==
    \/ \E c \in Commands : execute(c)
    \/ migrate_from_salmon

MigrationStep ==
    \/ InstallMigrated \/ BeginCopy \/ OpenCopy \/ EndCopy \/ SkipCopy \/ EndCopies
    \/ CopyFails \/ RollBack \/ RolledBack \/ LoadMigrated \/ MigrateLegacyState \/ MigrateState
    \/ Collect \/ RemoveFormer \/ RemovedFormer \/ RemoveExecutable

SetupStep == CreateConfig \/ CheckConfig \/ Backup \/ Install \/ EndInstall

UI ==
    \/ StartUI \/ ImportLegacyState \/ ImportState \/ SaveState \/ set_autostart
    \/ ExitUI

Next ==
    \/ Command \/ MigrationStep \/ SetupStep \/ Fails \/ Crash \/ UI
    \/ UserConfigures \/ UserAddsToken

Spec == Init /\ [][Next]_vars

-----------------------------------------------------------------------------
(* Properties *)

Copying == pc \in {"copy", "open", "copying", "rollback"}

\* Every variable keeps its type.
TypeOK ==
    /\ disk["config"] \in {"none", "own", "default", "salmon", "invalid"}
    /\ \A f \in Desktop : disk[f] \in {"none", "own", "generated"}
    /\ \A f \in {"state", "legacyState"} : disk[f] \in {"none", "own", "salmon"}
    /\ beside \in [Siblings -> {"none", "own", "partial", "copy"}]
    /\ cmd \in Commands \cup {Migration}
    /\ Range(journal) \subseteq Siblings \cup {"config"}
    /\ importing \in {"none", "legacy", "state", "running"}
    /\ commands \in 0..MaxCommands
    /\ pc = "idle" => todo = <<>> /\ journal = <<>> /\ ~executables

\* A launcher works: its executable and its configuration are there.
SalmonStarts ==
    \A f \in {"oldLauncher", "oldExecutable", "salmonConfig"} : Exists(f)
MontrayStarts ==
    /\ Exists("launcher")
    /\ Exists("icon")
    /\ Loads(disk["config"])
    /\ inPlace => Exists("oldExecutable")
    /\ ~Copying

\* Whatever fails and whenever a command is killed, a user who could start the
\* former or the new UI from the menu still can: the former integration goes
\* only after the new one is complete, and never with the running executable
\* (migrate_from_salmon_with, execute_with).
AlwaysStartable ==
    [][SalmonStarts \/ MontrayStarts => (SalmonStarts \/ MontrayStarts)']_vars

\* A migrated configuration has all its siblings, none of them half written,
\* after any number of failed and repeated attempts; only a kill in the middle of
\* the copy or a rollback that failed itself is excepted
\* (migrate_salmon_config, rollback_created_files).
MigratedWhole ==
    ~Copying /\ ~interrupted =>
        /\ \A s \in Siblings : beside[s] # "partial"
        /\ disk["config"] = "salmon" =>
               \A s \in Siblings : beside[s] \in {"copy", "own"}

\* A configuration or a state that Montray or its user wrote is never replaced or
\* removed, not even one that appears while a command runs.  Neither is a token: the
\* migration touches only the ones its journal names, and never journals one that is
\* there.  A token that appears between that check and the copy is the exception: it is
\* overwritten, and a rollback removes it (install_file,
\* copy_directory_contents_noclobber, rollback_created_files, persist_copy_noclobber).
UserFilesSurvive ==
    [][/\ \A f \in {"config", "state"} : disk[f] = "own" => disk'[f] = "own"
       /\ \A s \in Siblings :
              beside[s] = "own" /\ s \notin Range(journal)
                  => beside'[s] = "own" /\ s \notin Range(journal')]_vars

\* A hand-written desktop file is replaced only once a copy of it is in a backup
\* directory that is kept (execute_with, backup_existing_files, set_autostart_file).
ReplacedIsBackedUp ==
    [][\A f \in Desktop :
           disk[f] = "own" /\ disk'[f] # "own" => <<f, "own">> \in backups]_vars

\* A state imported from an unversioned file leaves a copy for the legacy
\* application, whichever process got there first (default_state_path).
LegacyStateKept ==
    disk["state"] = "salmon" /\ disk["formerState"] = "unversioned"
        => Exists("legacyState")
=============================================================================
