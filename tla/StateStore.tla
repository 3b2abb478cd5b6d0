------------------------------ MODULE StateStore ------------------------------
(***************************************************************************)
(* montray-ui's state file (persistence.rs): the snoozes, the window's     *)
(* placement and the preferences, read and rewritten as a whole by the UI  *)
(* thread and by the worker thread that persists snoozes.                  *)
(*                                                                         *)
(* A file is replaced by an atomic rename: a crash leaves the old one or   *)
(* the new one.  The contents of preferences and the deadlines of snoozes  *)
(* are not told apart from other values.                                   *)
(***************************************************************************)
EXTENDS Naturals, Sequences

CONSTANTS
    SnoozeKeys,     \* incidents that may be snoozed
    Preferences,    \* values of the presentation preferences
    None            \* no value

VARIABLES
    disk,           \* the state file
    holder,         \* who holds the store's mutex, or None
    copy            \* per thread: the state it has loaded

storeVars == <<disk, holder, copy>>

Threads == {"ui", "worker"}

ASSUME StoreAssumption == None \notin Threads /\ Preferences # {}

\* A snooze entry may carry fields of a newer version ("more"), and so may the file.
Snoozes == UNION {[keys -> {"plain", "more"}] : keys \in SUBSET SnoozeKeys}

\* Entries that survive keep their unknown fields.
replace_snoozes(old, keys) ==
    [k \in keys |-> IF k \in DOMAIN old THEN old[k] ELSE "plain"]

\* Mutant of LockAndLoad: the mutex is not waited for.
LoadOnly(thread) ==
    /\ holder' = thread
    /\ copy' = [copy EXCEPT ![thread] = disk]
    /\ UNCHANGED disk

\* Store::update: load under the mutex,
LockAndLoad(thread) ==
    /\ holder = None
    /\ holder' = thread
    /\ copy' = [copy EXCEPT ![thread] = disk]
    /\ UNCHANGED disk

Unlock(thread) ==
    /\ holder' = IF holder = thread THEN None ELSE holder
    /\ copy' = [copy EXCEPT ![thread] = None]

\* change one section and save,
SaveSection(thread, section, value) ==
    /\ copy[thread] # None
    /\ disk' = [copy[thread] EXCEPT ![section] = value]
    /\ Unlock(thread)

\* or fail to read, to encode or to write.
SaveFails(thread) ==
    /\ copy[thread] # None
    /\ Unlock(thread)
    /\ UNCHANGED disk
=============================================================================
