------------------------------- MODULE UIShell -------------------------------
(***************************************************************************)
(* The UI thread of montray-ui (app.rs) from start to exit and restart:    *)
(* the window's placement, the preferences, and the state file they share  *)
(* with the worker that persists snoozes.                                  *)
(***************************************************************************)
EXTENDS WindowGeometry

VARIABLES
    ui,       \* the UI thread: "idle", or the callback it is in
    acked     \* what was last saved with success, per section (history)

vars == <<storeVars, placeVars, winVars, ui, acked>>

NoPreferences == CHOOSE p \in Preferences : TRUE

Init ==
    /\ \E keys \in SUBSET SnoozeKeys, saved \in {None} \cup [rect : Rects, maximized : BOOLEAN] :
          /\ disk = [snoozed |-> [k \in keys |-> "more"], geometry |-> saved,
                     preferences |-> NoPreferences, extra |-> "more"]
          /\ acked = [snoozed |-> keys, preferences |-> NoPreferences]
          /\ last_normal = IF saved = None THEN None ELSE as_normal(saved)
          /\ last_persisted = saved
          /\ pending_show = saved
    /\ capture = None
    /\ holder = None /\ copy = [t \in Threads |-> None]
    /\ \E r \in Rects : window = NewWindow(r)
    /\ observed = FALSE /\ owed = None /\ unsaved = FALSE
    /\ ui = "idle"

-----------------------------------------------------------------------------
(* Callbacks of the window and the tray.                                   *)

Enter(from, to) == ui = from /\ ui' = to

\* The tray's toggle or open.
ShowWindow ==
    /\ Enter("idle", "idle")
    /\ show
    /\ UNCHANGED <<storeVars, acked>>

\* The close button, or the tray's toggle of a focused window.
HideWindow ==
    /\ Enter("idle", "hide")
    /\ window.visible
    /\ Capture
    /\ UNCHANGED <<storeVars, window, acked>>

WindowEvent ==
    /\ Enter("idle", "idle")
    /\ RestoreOnRedraw \/ ObserveEvent
    /\ UNCHANGED <<storeVars, acked>>

\* The tray's exit or restart, or a signal; a visible window is saved.
Exit ==
    /\ IF window.visible
       THEN Enter("idle", "exit") /\ Capture
       ELSE Enter("idle", "quit") /\ UNCHANGED <<placeVars, observed, owed, unsaved>>
    /\ UNCHANGED <<storeVars, window, acked>>

\* run, after the event loop: a visible window is saved once more.
LoopEnds ==
    /\ IF window.visible
       THEN Enter("quit", "final") /\ Capture
       ELSE Enter("quit", "down") /\ UNCHANGED <<placeVars, observed, owed, unsaved>>
    /\ UNCHANGED <<storeVars, window, acked>>

ChangePreferences ==
    /\ Enter("idle", "preferences")
    /\ UNCHANGED <<storeVars, placeVars, winVars, acked>>

-----------------------------------------------------------------------------
(* persist and Store::update, on the UI thread.                            *)

AfterPersist == [hide |-> "unmap", exit |-> "quit", final |-> "down"]

Persisting == ui \in DOMAIN AfterPersist

SkipPersist ==
    /\ Persisting /\ copy["ui"] = None
    /\ capture \in {None, last_persisted}
    /\ ui' = AfterPersist[ui]
    /\ UNCHANGED <<storeVars, placeVars, winVars, acked>>

BeginUpdate ==
    /\ copy["ui"] = None
    /\ ui = "preferences" \/ (Persisting /\ capture \notin {None, last_persisted})
    /\ LockAndLoad("ui")
    /\ UNCHANGED <<placeVars, winVars, ui, acked>>

PersistPlacement ==
    /\ Persisting
    /\ SaveSection("ui", "geometry", capture)
    /\ last_persisted' = capture
    /\ ui' = AfterPersist[ui]
    /\ UNCHANGED <<last_normal, pending_show, capture, winVars, acked>>

PersistFails ==
    /\ Persisting
    /\ SaveFails("ui")
    /\ ui' = AfterPersist[ui]
    /\ unsaved' = TRUE
    /\ UNCHANGED <<placeVars, window, observed, owed, acked>>

SavePreferences ==
    /\ Enter("preferences", "idle")
    /\ \/ \E p \in Preferences :
             /\ SaveSection("ui", "preferences", p)
             /\ acked' = [acked EXCEPT !.preferences = p]
       \/ SaveFails("ui") /\ UNCHANGED acked
    /\ UNCHANGED <<placeVars, winVars>>

Unmap ==
    /\ Enter("unmap", "idle")
    /\ FinishHide
    /\ UNCHANGED <<storeVars, last_normal, last_persisted, observed, owed, unsaved, acked>>

-----------------------------------------------------------------------------
(* The worker that persists snoozes for the runtime.                       *)

WorkerBegins ==
    /\ copy["worker"] = None
    /\ LockAndLoad("worker")
    /\ UNCHANGED <<placeVars, winVars, ui, acked>>

WorkerEnds ==
    /\ \/ /\ copy["worker"] # None
          /\ \E keys \in SUBSET SnoozeKeys :
                /\ SaveSection("worker", "snoozed",
                               replace_snoozes(copy["worker"].snoozed, keys))
                /\ acked' = [acked EXCEPT !.snoozed = keys]
       \/ SaveFails("worker") /\ UNCHANGED acked
    /\ UNCHANGED <<placeVars, winVars, ui>>

-----------------------------------------------------------------------------
(* The process.                                                            *)

\* A new process reads the file and starts with a hidden window.
Start ==
    /\ NewManager(disk.geometry)
    /\ \E r \in Rects : window' = NewWindow(r)
    /\ observed' = FALSE /\ unsaved' = FALSE
    /\ holder' = None /\ copy' = [t \in Threads |-> None]
    /\ ui' = "idle"
    /\ UNCHANGED <<disk, acked>>

\* runtime.shutdown() has waited for the worker; the application is started again.
\* What could not be written is not owed to the user any more.
Restart ==
    /\ ui = "down" /\ copy["worker"] = None
    /\ Start
    /\ owed' = IF unsaved THEN None ELSE owed

Crash == Start /\ owed' = None

User == UserAction /\ UNCHANGED <<storeVars, ui, acked>>

Next ==
    \/ ShowWindow \/ HideWindow \/ WindowEvent \/ Exit \/ LoopEnds \/ ChangePreferences
    \/ SkipPersist \/ BeginUpdate \/ PersistPlacement \/ PersistFails
    \/ SavePreferences \/ Unmap
    \/ WorkerBegins \/ WorkerEnds
    \/ Restart \/ Crash
    \/ User

Spec == Init /\ [][Next]_vars

-----------------------------------------------------------------------------
\* The state file keeps its format, whoever writes it, and the UI thread is in a
\* callback that app.rs installs.
TypeOK ==
    /\ disk \in [snoozed : Snoozes, geometry : Placement \cup {None},
                 preferences : Preferences, extra : {"more"}]
    /\ holder \in Threads \cup {None}
    /\ DOMAIN copy = Threads
    /\ {last_normal, last_persisted, pending_show, capture, owed} \subseteq Placement \cup {None}
    /\ window \in [visible : BOOLEAN, scaled : BOOLEAN, state : WindowStates,
                   rect : Bounds, restore : Bounds]
    /\ observed \in BOOLEAN /\ unsaved \in BOOLEAN
    /\ ui \in {"idle", "hide", "unmap", "exit", "quit", "final", "down", "preferences"}

\* Two threads rewrite the whole file: neither takes back what the other has saved,
\* and the placement remembered as written is the one in the file.
NoLostUpdate ==
    /\ DOMAIN disk.snoozed = acked.snoozed
    /\ disk.preferences = acked.preferences
    /\ disk.geometry = last_persisted

\* Whatever is saved, fields of a newer version survive, in the file and in every
\* snooze that stays.
UnknownFieldsSurvive ==
    [][/\ disk'.extra = disk.extra
       /\ \A k \in DOMAIN disk.snoozed \cap DOMAIN disk'.snoozed :
             disk'.snoozed[k] = disk.snoozed[k]]_vars

\* The bounds in memory and in the file.
Remembered ==
    {p.rect : p \in {last_normal, last_persisted, pending_show, capture, disk.geometry} \ {None}}

\* The bounds of a maximized or fullscreen window are never remembered or saved as
\* normal ones, whatever the order of events, shows, hides and restarts
\* (window_geometry.rs, observe_winit_window).
FullNeverRemembered == "full" \notin Remembered

\* The rough bounds of a window that was not yet scaled are remembered or saved only
\* when the window is hidden or closed in the middle of its restoration
\* (window_geometry.rs, handle_winit_event).
BoundsStayNormal ==
    [][Remembered \subseteq Rects /\ ~(pending_show # None /\ Capture)
       => Remembered' \subseteq Rects]_vars

\* A window that is hidden or closed by exiting comes back in the state and with the
\* bounds in which its user left it, maximized or not, also when the window manager
\* forgets the restore bounds and when the application was restarted in between.  (The
\* bounds of a window that was maximized before they were observed are lost.)
PlacementComesBack ==
    window.visible /\ pending_show = None /\ ui = "idle" /\ owed # None =>
        IF owed.maximized
        THEN window.state = "maximized" /\ window.restore = owed.rect
        ELSE window.state = "normal" /\ window.rect = owed.rect
=============================================================================
