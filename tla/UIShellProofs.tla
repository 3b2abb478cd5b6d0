---------------------------- MODULE UIShellProofs ----------------------------
(***************************************************************************)
(* The UI thread, its state file and what it shows, for any snoozes,       *)
(* preferences, bounds, icons and lists. StoreInv says that a thread that  *)
(* has loaded the file holds the mutex and that the file has not changed   *)
(* since; PlaceInv says what a placement that is remembered, being written *)
(* or being restored stands for.                                           *)
(***************************************************************************)
EXTENDS UIShell, UIProjection, TLAPS

-----------------------------------------------------------------------------
(* The state file.                                                         *)

StateFile == [snoozed : Snoozes, geometry : Placement \cup {None},
              preferences : Preferences, extra : {"more"}]

\* A thread that has loaded the file holds the mutex, and its copy is the file.
StoreInv ==
    /\ disk \in StateFile
    /\ holder \in Threads \cup {None}
    /\ DOMAIN copy = Threads
    /\ acked \in [snoozed : SUBSET SnoozeKeys, preferences : Preferences]
    /\ \A t \in Threads : copy[t] # None => holder = t /\ copy[t] = disk
    /\ NoLostUpdate

\* replace_snoozes keeps the entries of the keys that stay.
LEMMA SurvivingSnoozes ==
  ASSUME NEW old \in Snoozes, NEW keys \in SUBSET SnoozeKeys
  PROVE  /\ replace_snoozes(old, keys) \in Snoozes
         /\ DOMAIN replace_snoozes(old, keys) = keys
         /\ \A k \in keys \cap DOMAIN old : replace_snoozes(old, keys)[k] = old[k]
<1>1. PICK ks \in SUBSET SnoozeKeys : old \in [ks -> {"plain", "more"}]
  BY DEF Snoozes
<1>2. replace_snoozes(old, keys) \in [keys -> {"plain", "more"}]
  BY <1>1 DEF replace_snoozes
<1>3. replace_snoozes(old, keys) \in Snoozes
  BY <1>2 DEF Snoozes
<1> QED
  BY <1>3 DEF replace_snoozes

\* A thread takes the mutex and loads the file.
LEMMA LoadKeeps ==
  ASSUME StoreInv, NEW t \in Threads, LockAndLoad(t), UNCHANGED <<acked, last_persisted>>
  PROVE  StoreInv' /\ disk' = disk
  BY StoreAssumption DEF StoreInv, LockAndLoad, Threads, NoLostUpdate

\* When the holder of the mutex is done, nobody holds a copy.
LEMMA UnlockFrees ==
  ASSUME StoreInv, NEW t \in Threads, copy[t] # None, Unlock(t)
  PROVE  /\ copy[t] = disk /\ holder' = None /\ DOMAIN copy' = Threads
         /\ \A u \in Threads : copy'[u] = None
  BY StoreAssumption DEF StoreInv, Unlock, Threads

\* A save that fails leaves the file alone.
LEMMA FailKeeps ==
  ASSUME StoreInv, NEW t \in Threads, SaveFails(t), UNCHANGED <<acked, last_persisted>>
  PROVE  StoreInv' /\ disk' = disk
  BY UnlockFrees DEF StoreInv, SaveFails, NoLostUpdate

\* A save replaces one section of the file.
LEMMA SaveKeeps ==
  ASSUME StoreInv, NEW t \in Threads, NEW section \in {"snoozed", "geometry", "preferences"},
         NEW value, SaveSection(t, section, value),
         [disk EXCEPT ![section] = value] \in StateFile, NoLostUpdate',
         acked' \in [snoozed : SUBSET SnoozeKeys, preferences : Preferences]
  PROVE  StoreInv' /\ disk' = [disk EXCEPT ![section] = value]
<1>1. disk' = [disk EXCEPT ![section] = value]
  BY UnlockFrees DEF SaveSection
<1>2. holder' = None /\ DOMAIN copy' = Threads /\ \A u \in Threads : copy'[u] = None
  BY UnlockFrees DEF SaveSection
<1> QED
  BY <1>1, <1>2 DEF StoreInv

\* What a step may do to the file.
FileStep ==
    /\ disk'.extra = disk.extra
    /\ \A k \in DOMAIN disk.snoozed \cap DOMAIN disk'.snoozed :
          disk'.snoozed[k] = disk.snoozed[k]

\* Every step keeps the state file invariant.
LEMMA StoreStep ==
  ASSUME StoreInv, capture \in Placement \cup {None}, [Next]_vars
  PROVE  StoreInv' /\ FileStep
<1> DEFINE Goal == StoreInv' /\ FileStep
<1>1. disk \in StateFile /\ "ui" \in Threads /\ "worker" \in Threads
  BY DEF StoreInv, Threads
<1>2. ASSUME UNCHANGED <<storeVars, last_persisted, acked>> PROVE Goal
  BY <1>2 DEF StoreInv, NoLostUpdate, FileStep, storeVars
<1>3. CASE \/ ShowWindow \/ HideWindow \/ WindowEvent \/ Exit \/ LoopEnds \/ ChangePreferences
           \/ SkipPersist \/ Unmap \/ User \/ UNCHANGED vars
  <2>1. UNCHANGED <<storeVars, last_persisted, acked>>
    BY <1>3 DEF ShowWindow, HideWindow, WindowEvent, Exit, LoopEnds, ChangePreferences,
       SkipPersist, Unmap, User, vars, show, Capture, RestoreOnRedraw, ObserveEvent, placeVars,
       UserAction, UserMoves, UserMaximizes, UserUnmaximizes, UserTogglesFullscreen, Rearrange
  <2> QED
    BY Zenon, <1>2, <2>1
<1>4. CASE BeginUpdate \/ WorkerBegins
  <2>1. disk' = disk /\ StoreInv'
    BY <1>1, <1>4, LoadKeeps DEF BeginUpdate, WorkerBegins, placeVars
  <2> QED
    BY <2>1 DEF FileStep
<1>5. CASE PersistFails
  <2>1. disk' = disk /\ StoreInv'
    BY <1>1, <1>5, FailKeeps DEF PersistFails, placeVars
  <2> QED
    BY <2>1 DEF FileStep
<1>6. CASE PersistPlacement
  <2>1. [disk EXCEPT !["geometry"] = capture] \in StateFile
    BY <1>1 DEF StateFile
  <2>2. SaveSection("ui", "geometry", capture) /\ last_persisted' = capture /\ acked' = acked
    BY <1>6 DEF PersistPlacement
  <2>3. disk' = [disk EXCEPT !["geometry"] = capture]
    BY <1>1, <2>2, UnlockFrees DEF SaveSection
  <2>4. NoLostUpdate' /\ FileStep
    BY <1>1, <2>2, <2>3 DEF StoreInv, NoLostUpdate, FileStep, StateFile
  <2> QED
    BY <1>1, <2>1, <2>2, <2>4, SaveKeeps DEF StoreInv
<1>7. CASE SavePreferences
  <2>1. CASE SaveFails("ui") /\ UNCHANGED acked
    <3>1. disk' = disk /\ StoreInv'
      BY <1>1, <1>7, <2>1, FailKeeps DEF SavePreferences, placeVars
    <3> QED
      BY <3>1 DEF FileStep
  <2>2. ASSUME NEW p \in Preferences, SaveSection("ui", "preferences", p),
               acked' = [acked EXCEPT !.preferences = p]
        PROVE  Goal
    <3>1. [disk EXCEPT !["preferences"] = p] \in StateFile
      BY <1>1 DEF StateFile
    <3>2. disk' = [disk EXCEPT !["preferences"] = p]
      BY <1>1, <2>2, UnlockFrees DEF SaveSection
    <3>3. /\ NoLostUpdate' /\ FileStep
          /\ acked' \in [snoozed : SUBSET SnoozeKeys, preferences : Preferences]
      BY <1>1, <1>7, <2>2, <3>2
      DEF StoreInv, NoLostUpdate, FileStep, StateFile, SavePreferences, placeVars
    <3> QED
      BY <1>1, <2>2, <3>1, <3>3, SaveKeeps
  <2> QED
    BY <1>7, <2>1, <2>2 DEF SavePreferences
<1>8. CASE WorkerEnds
  <2>1. CASE SaveFails("worker") /\ UNCHANGED acked
    <3>1. disk' = disk /\ StoreInv'
      BY <1>1, <1>8, <2>1, FailKeeps DEF WorkerEnds, placeVars
    <3> QED
      BY <3>1 DEF FileStep
  <2>2. ASSUME NEW keys \in SUBSET SnoozeKeys, copy["worker"] # None,
               SaveSection("worker", "snoozed", replace_snoozes(copy["worker"].snoozed, keys)),
               acked' = [acked EXCEPT !.snoozed = keys]
        PROVE  Goal
    <3> DEFINE new == replace_snoozes(disk.snoozed, keys)
    <3>1. disk.snoozed \in Snoozes
      BY <1>1 DEF StateFile
    <3>2. /\ new \in Snoozes /\ DOMAIN new = keys
          /\ \A k \in keys \cap DOMAIN disk.snoozed : new[k] = disk.snoozed[k]
      BY <3>1, SurvivingSnoozes
    <3>3. SaveSection("worker", "snoozed", new)
      BY <1>1, <2>2 DEF StoreInv
    <3>4. disk' = [disk EXCEPT !["snoozed"] = new]
      BY <1>1, <3>3, UnlockFrees DEF SaveSection
    <3> HIDE DEF new
    <3>5. [disk EXCEPT !["snoozed"] = new] \in StateFile
      BY <1>1, <3>2 DEF StateFile
    <3>6. /\ NoLostUpdate' /\ FileStep
          /\ acked' \in [snoozed : SUBSET SnoozeKeys, preferences : Preferences]
      BY <1>1, <1>8, <2>2, <3>2, <3>4
      DEF StoreInv, NoLostUpdate, FileStep, StateFile, WorkerEnds, placeVars
    <3> QED
      BY <1>1, <3>3, <3>5, <3>6, SaveKeeps
  <2> QED
    BY <1>8, <2>1, <2>2 DEF WorkerEnds
<1>9. CASE Restart \/ Crash
  BY <1>1, <1>9 DEF Restart, Crash, Start, NewManager, StoreInv, NoLostUpdate, FileStep
<1> QED
  BY <1>3, <1>4, <1>5, <1>6, <1>7, <1>8, <1>9 DEF Next

-----------------------------------------------------------------------------
(* Types of the window and its placement.                                  *)

Saved == Placement \cup {None}

Window == [visible : BOOLEAN, scaled : BOOLEAN, state : WindowStates,
           rect : Bounds, restore : Bounds]

PlaceTypes ==
    /\ last_normal \in Saved /\ last_persisted \in Saved /\ pending_show \in Saved
    /\ capture \in Saved /\ owed \in Saved
    /\ window \in Window
    /\ observed \in BOOLEAN /\ unsaved \in BOOLEAN
    /\ ui \in {"idle", "hide", "unmap", "exit", "quit", "final", "down", "preferences"}

\* The callbacks that save a placement.
Placing == {"hide", "unmap", "exit", "final"}

\* The bounds that are remembered in memory are not those of a normal window.
Misled == last_normal # None /\ last_normal.rect \notin Rects

\* The window is as the user left it.
AsLeft ==
    IF owed.maximized THEN window.state = "maximized" /\ window.restore = owed.rect
                      ELSE window.state = "normal" /\ window.rect = owed.rect

\* The placement that is captured has the last normal bounds, and so has the one that
\* waits to be restored, while the UI thread takes callbacks.
Restoring ==
    /\ window.visible => window.scaled
    /\ ui \in {"idle", "preferences"} /\ pending_show # None =>
           last_normal # None /\ last_normal.rect = pending_show.rect
    /\ ui \in Placing /\ capture # None =>
           last_normal # None /\ last_normal.rect = capture.rect
    /\ ui \in {"hide", "unmap"} /\ capture = None => pending_show = None /\ ~observed

\* Unless the bounds in memory are wrong already, the window will show good ones.
GoodBounds ==
    \/ Misled
    \/ /\ window.state = "fullscreen" => window.restore \in Rects
       /\ pending_show = None /\ window.state = "normal" => window.rect \in Rects
       /\ pending_show = None /\ window.state = "maximized" => window.restore \in Rects

\* The bounds of a window in its normal state, now or when it returns to it.
NormalBounds(w) == IF w.state = "normal" THEN w.rect ELSE w.restore

\* Bounds that have been observed are those in memory, except while they are restored.
KnownBounds ==
    observed /\ (pending_show = None \/ window.state = "fullscreen") =>
        last_normal # None /\ last_normal.rect = NormalBounds(window)

\* What is owed to the user is on its way: captured, waiting to be restored, or shown;
\* and once it was to be written it is in the file, unless that failed.
OwedInv ==
    owed # None =>
        /\ ui \in {"hide", "unmap"} => window.state # "fullscreen"
        /\ ui \in Placing => capture = owed
        /\ ui \in {"idle", "preferences"} =>
               \/ pending_show = owed /\ window.state # "fullscreen"
               \/ pending_show = None /\ AsLeft
        /\ ui \notin {"hide", "exit", "final"} => unsaved \/ last_persisted = owed

PlaceInv == PlaceTypes /\ Restoring /\ GoodBounds /\ KnownBounds /\ OwedInv

\* The remembered bounds are those of five placements.
LEMMA RememberedRects ==
  /\ Remembered \subseteq Rects <=>
         \A p \in {last_normal, last_persisted, pending_show, capture, disk.geometry} :
             p # None => p.rect \in Rects
  /\ Remembered' \subseteq Rects <=>
         \A p \in {last_normal', last_persisted', pending_show', capture', disk'.geometry} :
             p # None => p.rect \in Rects
  BY DEF Remembered

\* What a step does to the bounds that are remembered.
BoundsStep ==
    Remembered \subseteq Rects /\ ~(pending_show # None /\ Capture) => Remembered' \subseteq Rects

\* What the window manager does to a window leaves a window.
LEMMA WindowTypes ==
  ASSUME NEW w \in Window, NEW r \in Bounds
  PROVE  /\ Unmaximized(w) \in Window /\ Maximized(w) \in Window /\ Placed(w, r) \in Window
         /\ Shown(w) \in Window
<1>1. Unmaximized(w) \in Window
  BY Zenon DEF Unmaximized, Window, WindowStates
<1>2. Maximized(w) \in Window
  BY Zenon DEF Maximized, Window, WindowStates, Bounds
<1>3. Placed(w, r) \in Window
  BY DEF Placed, Window, Bounds
<1>4. Shown(w) \in Window
  BY Zenon DEF Shown, Window
<1> QED
  BY <1>1, <1>2, <1>3, <1>4

\* What the requests do to a window, one field at a time.
LEMMA Requests ==
  ASSUME NEW w \in Window, NEW r \in Bounds
  PROVE  /\ Unmaximized(w).visible = w.visible /\ Unmaximized(w).scaled = w.scaled
         /\ w.state = "fullscreen" => Unmaximized(w) = w
         /\ w.state # "fullscreen" => Unmaximized(w).state = "normal"
         /\ Placed(w, r).visible = w.visible /\ Placed(w, r).scaled = w.scaled
         /\ Placed(w, r).state = w.state /\ Placed(w, r).restore = w.restore
         /\ w.state = "normal" /\ w.scaled => Placed(w, r).rect = r
         /\ Maximized(w).visible = w.visible /\ Maximized(w).scaled = w.scaled
         /\ w.state = "fullscreen" => Maximized(w) = w
         /\ w.state = "normal" => Maximized(w).state = "maximized" /\ Maximized(w).restore = w.rect
         /\ Shown(w).visible /\ Shown(w).scaled
         /\ Shown(w).state = w.state /\ Shown(w).rect = w.rect /\ Shown(w).restore = w.restore
  BY DEF Unmaximized, Maximized, Placed, Shown, Window, WindowStates

\* What hiding changes at a window.
LEMMA HiddenWindow ==
  ASSUME NEW w \in Window, NEW h \in Hidden(w)
  PROVE  /\ h \in Window /\ ~h.visible
         /\ h.state = w.state /\ h.rect = w.rect
         /\ h.restore = w.restore \/ (h.restore \in Rects /\ w.state = "maximized")
<1>1. PICK r \in IF w.state = "maximized" THEN Rects ELSE {w.restore} :
           h = [w EXCEPT !.visible = FALSE, !.restore = r]
  BY Zenon DEF Hidden
<1>2. r \in Bounds
  BY <1>1 DEF Window, Bounds
<1> QED
  BY Zenon, <1>1, <1>2 DEF Window

\* Observed bounds and as_normal are placements with the bounds they come from.
LEMMA NormalPlacements ==
  /\ \A w \in Window :
        LET n == [rect |-> w.rect, maximized |-> FALSE]
        IN  n \in Placement /\ n # None /\ n.rect = w.rect
  /\ \A p \in Placement :
         as_normal(p) \in Placement /\ as_normal(p) # None /\ as_normal(p).rect = p.rect
<1>1. ASSUME NEW b \in Bounds
      PROVE  LET n == [rect |-> b, maximized |-> FALSE]
             IN  n \in Placement /\ n # None /\ n.rect = b
  <2>1. [rect |-> b, maximized |-> FALSE] \in Placement
    BY DEF Placement
  <2> QED
    BY Zenon, <2>1, PlacementAssumption
<1>2. \A w \in Window : w.rect \in Bounds
  BY DEF Window
<1>3. \A p \in Placement : p.rect \in Bounds
  BY DEF Placement
<1> QED
  BY <1>1, <1>2, <1>3 DEF as_normal

\* capture_placement keeps the bounds, and knows those of a normal window if they can
\* be observed.
LEMMA CapturedBounds ==
  ASSUME PlaceTypes, Capture
  PROVE  /\ last_normal' \in Saved /\ capture' \in Saved
         /\ capture' = None <=> last_normal' = None
         /\ capture' # None => /\ last_normal'.rect = capture'.rect
                               /\ capture'.maximized = (window.state = "maximized")
         /\ \/ last_normal' = last_normal /\ observed' = observed
            \/ /\ window.state = "normal" /\ last_normal' # None
               /\ last_normal'.rect = window.rect /\ observed' = TRUE
<1>1. PICK ok \in BOOLEAN :
        /\ last_normal' = observe(window, ok) /\ capture' = Captured(window, ok)
        /\ observed' = (observed \/ (ok /\ window.state = "normal"))
  BY Zenon DEF Capture
<1> DEFINE seen == observe(window, ok)
<1>2. /\ seen \in Saved
      /\ ok /\ window.state = "normal" => seen # None /\ seen.rect = window.rect
      /\ ~(ok /\ window.state = "normal") => seen = last_normal
  BY NormalPlacements DEF PlaceTypes, observe, Saved
<1>3. capture' = IF seen = None THEN None
                 ELSE [seen EXCEPT !.maximized = (window.state = "maximized")]
  BY <1>1 DEF Captured
<1>4. observed \in BOOLEAN /\ last_normal' = seen
  BY <1>1 DEF PlaceTypes
<1> HIDE DEF seen
<1>5. \/ last_normal' = last_normal /\ observed' = observed
      \/ /\ window.state = "normal" /\ last_normal' # None
         /\ last_normal'.rect = window.rect /\ observed' = TRUE
  BY <1>1, <1>2, <1>4
<1>6. CASE seen = None
  BY <1>2, <1>3, <1>4, <1>5, <1>6
<1>7. CASE seen # None
  <2>1. /\ capture' \in Placement /\ capture'.rect = seen.rect
        /\ capture'.maximized = (window.state = "maximized")
    BY Zenon, <1>2, <1>3, <1>7 DEF Saved, Placement
  <2> QED
    BY <1>2, <1>4, <1>5, <1>7, <2>1, PlacementAssumption DEF Saved
<1> QED
  BY Zenon, <1>6, <1>7

-----------------------------------------------------------------------------
(* Steps of the UI thread.                                                 *)

\* The window is shown.
LEMMA ShowKeeps ==
  ASSUME PlaceInv, ShowWindow
  PROVE  PlaceInv'
<1>1. PlaceTypes /\ ui = "idle" /\ ui' = "idle" /\ show
  BY DEF PlaceInv, ShowWindow, Enter
<1>2. UNCHANGED <<last_persisted, pending_show, capture, observed, owed, unsaved>>
  BY <1>1 DEF show
<1>3. CASE pending_show = None
  <2>1. window' = Shown(window) /\ last_normal' = last_normal /\ window \in Window
    BY <1>1, <1>3 DEF show, PlaceTypes
  <2>2. /\ window' \in Window /\ window'.visible /\ window'.scaled
        /\ window'.state = window.state /\ window'.rect = window.rect
        /\ window'.restore = window.restore
    BY Zenon, <2>1 DEF Shown, Window
  <2> QED
    BY <1>1, <1>2, <2>1, <2>2
    DEF PlaceInv, PlaceTypes, Restoring, GoodBounds, KnownBounds, NormalBounds, OwedInv, AsLeft, Misled, Placing
<1>4. CASE pending_show # None
  <2>1. /\ window \in Window /\ pending_show.rect \in Bounds
        /\ window' = Shown(Placed(Unmaximized(window), pending_show.rect))
        /\ last_normal' = as_normal(pending_show)
    BY <1>1, <1>4 DEF show, PlaceTypes, Saved, Placement
  <2>2. /\ window' \in Window /\ window'.visible /\ window'.scaled
        /\ window'.state = "fullscreen" <=> window.state = "fullscreen"
        /\ window.state = "fullscreen" => window'.restore = window.restore
    <3>1. Unmaximized(window) \in Window
      BY <2>1, WindowTypes
    <3>2. Placed(Unmaximized(window), pending_show.rect) \in Window
      BY <2>1, <3>1, WindowTypes
    <3> QED
      BY <2>1, <3>1, <3>2, WindowTypes, Requests
  <2>3. /\ last_normal # None /\ last_normal' \in Saved /\ last_normal' # None
        /\ last_normal.rect = pending_show.rect /\ last_normal'.rect = pending_show.rect
    BY <1>1, <1>4, <2>1, NormalPlacements DEF PlaceInv, PlaceTypes, Restoring, Saved
  <2> QED
    BY <1>1, <1>2, <1>4, <2>1, <2>2, <2>3
    DEF PlaceInv, PlaceTypes, Restoring, GoodBounds, KnownBounds, NormalBounds, OwedInv, AsLeft, Misled, Placing
<1> QED
  BY <1>3, <1>4

\* hide, exit and the end of the event loop capture the placement.
LEMMA CaptureKeeps ==
  ASSUME PlaceInv, Capture, window' = window,
         \/ ui = "idle" /\ ui' \in {"hide", "exit"}
         \/ ui = "quit" /\ ui' = "final"
  PROVE  PlaceInv'
<1>1. /\ last_normal' \in Saved /\ capture' \in Saved
      /\ capture' = None <=> last_normal' = None
      /\ capture' # None => /\ last_normal'.rect = capture'.rect
                            /\ capture'.maximized = (window.state = "maximized")
      /\ \/ last_normal' = last_normal /\ observed' = observed
         \/ /\ window.state = "normal" /\ last_normal' # None
            /\ last_normal'.rect = window.rect /\ observed' = TRUE
  BY Zenon, CapturedBounds DEF PlaceInv
<1>2. /\ UNCHANGED <<last_persisted, pending_show>> /\ unsaved' = FALSE
      /\ owed' = IF pending_show # None \/ window.state = "fullscreen" \/ ~observed'
                 THEN None ELSE AsSeen(window)
  BY Zenon DEF Capture
<1>3. window \in Window /\ observed \in BOOLEAN
  BY DEF PlaceInv, PlaceTypes
<1>4. AsSeen(window) \in Placement
  BY <1>3 DEF AsSeen, Placement, Window
<1>5. PlaceTypes'
  BY Zenon, <1>1, <1>2, <1>4 DEF PlaceInv, PlaceTypes, Saved
<1>6. KnownBounds'
  BY Zenon, <1>1, <1>2 DEF PlaceInv, KnownBounds, NormalBounds
<1>7. capture' = None /\ ui' = "hide" => pending_show' = None /\ ~observed'
  <2> SUFFICES ASSUME last_normal' = None, ui = "idle"
               PROVE  pending_show = None /\ ~observed'
    BY <1>1, <1>2
  <2>1. last_normal = None /\ observed' = observed
    BY <1>1
  <2>2. pending_show = None
    BY <2>1 DEF PlaceInv, Restoring
  <2> QED
    BY <1>3, <2>1, <2>2 DEF PlaceInv, KnownBounds
<1>8. Restoring'
  BY <1>1, <1>2, <1>7 DEF PlaceInv, Restoring, Placing
<1>9. GoodBounds'
  BY <1>1, <1>2 DEF PlaceInv, GoodBounds, Misled
<1>10. OwedInv'
  <2> SUFFICES ASSUME owed' # None PROVE capture' = owed' /\ window.state # "fullscreen"
    BY <1>2 DEF OwedInv, Placing
  <2>1. /\ pending_show' = None /\ window.state # "fullscreen" /\ observed'
        /\ owed' = AsSeen(window)
    BY <1>2
  <2>2. last_normal' # None /\ last_normal'.rect = NormalBounds(window)
    BY <1>6, <2>1 DEF KnownBounds, NormalBounds
  <2>3. /\ capture' \in Placement /\ capture'.rect = NormalBounds(window)
        /\ capture'.maximized = (window.state = "maximized")
    BY <1>1, <2>2 DEF Saved
  <2>4. window.state \in {"normal", "maximized"}
    BY <1>3, <2>1 DEF Window, WindowStates
  <2>5. capture' = AsSeen(window)
    BY <2>3, <2>4 DEF AsSeen, NormalBounds, Placement
  <2> QED
    BY <2>1, <2>5
<1> QED
  BY <1>5, <1>6, <1>8, <1>9, <1>10 DEF PlaceInv

\* A remembered placement is restored at the first redraw.
LEMMA RedrawKeeps ==
  ASSUME PlaceInv, ui = "idle", ui' = "idle", RestoreOnRedraw
  PROVE  PlaceInv'
<1> DEFINE p == pending_show
           u == Unmaximized(window)
           w == Placed(u, p.rect)
<1>1. /\ window \in Window /\ window.visible /\ window.scaled /\ p # None /\ p \in Placement
      /\ last_normal # None /\ last_normal.rect = p.rect
      /\ window' = IF p.maximized THEN Maximized(w) ELSE w
      /\ pending_show' = None
      /\ observed \in BOOLEAN /\ observed' = (observed \/ window.state # "fullscreen")
      /\ UNCHANGED <<last_normal, last_persisted, capture, owed, unsaved>>
  BY DEF PlaceInv, PlaceTypes, Restoring, RestoreOnRedraw, Saved
<1>2. p.rect \in Bounds
  BY <1>1 DEF Placement
<1>3. u \in Window /\ u.scaled
  BY <1>1, WindowTypes, Requests, <1>2
<1>4. w \in Window /\ w.scaled
  BY Zenon, <1>2, <1>3, WindowTypes, Requests
<1>5. CASE window.state = "fullscreen"
  <2>1. /\ window' \in Window /\ window'.scaled /\ window'.state = "fullscreen"
        /\ window'.restore = window.restore
    BY <1>1, <1>2, <1>3, <1>4, <1>5, WindowTypes, Requests
  <2> QED
    BY <1>1, <1>5, <2>1
    DEF PlaceInv, PlaceTypes, Restoring, GoodBounds, KnownBounds, NormalBounds, OwedInv, Misled, Placing, Saved
<1>6. CASE window.state # "fullscreen"
  <2>1. u.state = "normal"
    BY <1>1, <1>2, <1>6, Requests
  <2>2. w.state = "normal" /\ w.rect = p.rect
    BY <1>2, <1>3, <2>1, Requests
  <2>3. /\ window' \in Window /\ window'.scaled
        /\ p.maximized => window'.state = "maximized" /\ window'.restore = p.rect
        /\ ~p.maximized => window'.state = "normal" /\ window'.rect = p.rect
    <3> HIDE DEF p, u, w
    <3>1. CASE p.maximized
      <4>1. window' = Maximized(w)
        BY Zenon, <1>1, <3>1
      <4>2. Maximized(w) \in Window
        BY Zenon, <1>2, <1>4, WindowTypes
      <4>3. /\ Maximized(w).scaled = w.scaled
            /\ Maximized(w).state = "maximized" /\ Maximized(w).restore = w.rect
        BY Zenon, <1>2, <1>4, <2>2, Requests
      <4> QED
        BY Zenon, <1>4, <2>2, <3>1, <4>1, <4>2, <4>3
    <3>2. CASE ~p.maximized
      BY Zenon, <1>1, <1>4, <2>2, <3>2
    <3> QED
      BY Zenon, <3>1, <3>2
  <2>4. GoodBounds'
    BY <1>1, <2>3 DEF GoodBounds, Misled, Placement
  <2>5. OwedInv'
    BY <1>1, <2>3 DEF PlaceInv, OwedInv, AsLeft, Placement, Placing
  <2>6. KnownBounds'
    BY <1>1, <2>3 DEF KnownBounds, NormalBounds, Placement
  <2> QED
    BY <1>1, <1>6, <2>3, <2>4, <2>5, <2>6 DEF PlaceInv, PlaceTypes, Restoring, Placing, Saved
<1> QED
  BY <1>5, <1>6

\* An event of the window is observed.
LEMMA ObserveKeeps ==
  ASSUME PlaceInv, ui = "idle", ui' = "idle", ObserveEvent
  PROVE  PlaceInv'
<1>1. PICK ok \in BOOLEAN :
        /\ last_normal' = observe(window, ok)
        /\ observed' = (observed \/ (ok /\ window.state = "normal"))
  BY Zenon DEF ObserveEvent
<1>2. /\ pending_show = None /\ observed \in BOOLEAN
      /\ UNCHANGED <<last_persisted, pending_show, capture, window, owed, unsaved>>
  BY DEF ObserveEvent, PlaceInv, PlaceTypes
<1>3. /\ last_normal' \in Saved
      /\ \/ last_normal' = last_normal /\ observed' = observed
         \/ /\ window.state = "normal" /\ last_normal' # None
            /\ last_normal'.rect = window.rect /\ observed' = TRUE
  BY <1>1, <1>2, NormalPlacements DEF observe, PlaceInv, PlaceTypes, Saved
<1>4. PlaceTypes' /\ OwedInv'
  BY Zenon, <1>2, <1>3 DEF PlaceInv, PlaceTypes, OwedInv, AsLeft
<1>5. Restoring'
  BY Zenon, <1>2, <1>3 DEF PlaceInv, Restoring, Placing
<1>6. GoodBounds'
  BY <1>2, <1>3 DEF PlaceInv, GoodBounds, Misled
<1>7. KnownBounds'
  BY Zenon, <1>2, <1>3 DEF PlaceInv, KnownBounds, NormalBounds
<1> QED
  BY Zenon, <1>4, <1>5, <1>6, <1>7 DEF PlaceInv

\* Steps that leave the window and the placement alone.
LEMMA WaitingKeeps ==
  ASSUME PlaceInv, UNCHANGED <<last_normal, last_persisted, pending_show, capture, winVars>>,
         \/ ui' = ui
         \/ <<ui, ui'>> \in {<<"idle", "preferences">>, <<"preferences", "idle">>,
                             <<"idle", "quit">>, <<"quit", "down">>}
  PROVE  PlaceInv'
  BY DEF PlaceInv, PlaceTypes, Restoring, GoodBounds, KnownBounds, NormalBounds, OwedInv, AsLeft,
         Misled, Placing, winVars

\* The placement is written, or is the one in the file, or cannot be written.
LEMMA PersistKeeps ==
  ASSUME PlaceInv, SkipPersist \/ PersistPlacement \/ PersistFails
  PROVE  PlaceInv'
<1>1. /\ UNCHANGED <<last_normal, pending_show, capture, window, observed, owed>>
      /\ Persisting /\ ui' = AfterPersist[ui]
      /\ \/ last_persisted' = last_persisted /\ unsaved' = TRUE
         \/ last_persisted' = capture /\ unsaved' = unsaved
         \/ capture = None /\ last_persisted' = last_persisted /\ unsaved' = unsaved
  BY DEF SkipPersist, PersistPlacement, PersistFails, placeVars, winVars
<1>2. <<ui, ui'>> \in {<<"hide", "unmap">>, <<"exit", "quit">>, <<"final", "down">>}
  BY <1>1 DEF Persisting, AfterPersist
<1>3. PlaceTypes'
  BY Zenon, <1>1, <1>2 DEF PlaceInv, PlaceTypes
<1>4. Restoring'
  BY <1>1, <1>2 DEF PlaceInv, Restoring, Placing
<1>5. GoodBounds' /\ KnownBounds'
  BY Zenon, <1>1 DEF PlaceInv, GoodBounds, KnownBounds, NormalBounds, Misled
<1>6. OwedInv'
  BY <1>1, <1>2 DEF PlaceInv, OwedInv, Placing
<1> QED
  BY Zenon, <1>3, <1>4, <1>5, <1>6 DEF PlaceInv

\* The window is hidden.
LEMMA UnmapKeeps ==
  ASSUME PlaceInv, Unmap
  PROVE  PlaceInv'
<1>1. /\ ui = "unmap" /\ ui' = "idle" /\ pending_show' = capture /\ capture' = None
      /\ UNCHANGED <<last_normal, last_persisted, observed, owed, unsaved>>
      /\ window \in Window
  BY DEF Unmap, Enter, FinishHide, PlaceInv, PlaceTypes
<1>2. PICK h \in Hidden(window) :
         window' = IF capture # None /\ capture.maximized
                   THEN Placed(Unmaximized(h), last_normal.rect) ELSE h
  BY DEF Unmap, FinishHide
<1>3. /\ h \in Window /\ ~h.visible /\ h.state = window.state /\ h.rect = window.rect
      /\ h.restore = window.restore \/ (h.restore \in Rects /\ window.state = "maximized")
  BY <1>1, HiddenWindow
<1>4. CASE capture = None
  BY <1>1, <1>2, <1>3, <1>4
  DEF PlaceInv, PlaceTypes, Restoring, GoodBounds, KnownBounds, NormalBounds, OwedInv, AsLeft, Misled, Placing, Saved
<1>5. CASE capture # None
  <2>1. last_normal # None /\ last_normal.rect = capture.rect /\ last_normal.rect \in Bounds
    BY <1>1, <1>5 DEF PlaceInv, PlaceTypes, Restoring, Placing, Saved, Placement
  <2>2. /\ window' \in Window /\ ~window'.visible
        /\ window'.state = "fullscreen" <=> window.state = "fullscreen"
        /\ window.state = "fullscreen" => window'.restore = window.restore
    <3>1. Unmaximized(h) \in Window
      BY <1>3, <2>1, WindowTypes
    <3> QED
      BY <1>2, <1>3, <2>1, <3>1, WindowTypes, Requests
  <2> QED
    BY <1>1, <1>5, <2>1, <2>2
    DEF PlaceInv, PlaceTypes, Restoring, GoodBounds, KnownBounds, NormalBounds, OwedInv, Misled, Placing, Saved
<1> QED
  BY <1>4, <1>5

\* The application starts and reads the placement.
LEMMA StartKeeps ==
  ASSUME PlaceInv, disk.geometry \in Saved, Start,
         owed' = None \/ owed' = disk.geometry
  PROVE  PlaceInv'
<1>1. /\ last_persisted' = disk.geometry /\ pending_show' = disk.geometry
      /\ last_normal' = IF disk.geometry = None THEN None ELSE as_normal(disk.geometry)
      /\ capture' = None /\ ui' = "idle" /\ observed' = FALSE /\ unsaved' = FALSE
  BY DEF Start, NewManager
<1>2. /\ last_normal' \in Saved
      /\ disk.geometry # None => last_normal' # None /\ last_normal'.rect = disk.geometry.rect
  BY <1>1, NormalPlacements DEF Saved
<1>3. PICK r \in Rects : window' = NewWindow(r)
  BY DEF Start
<1>4. /\ window' \in Window /\ ~window'.visible /\ window'.state = "normal"
      /\ window'.rect \in Rects /\ window'.restore \in Rects
  BY <1>3 DEF NewWindow, Window, WindowStates, Bounds
<1> QED
  BY Zenon, <1>1, <1>2, <1>4
  DEF PlaceInv, PlaceTypes, Restoring, GoodBounds, KnownBounds, NormalBounds, OwedInv, Misled, Placing, Saved

\* The user rearranges a window that is visible and restored.
LEMMA UserKeeps ==
  ASSUME PlaceInv, UserAction, ui' = ui
  PROVE  PlaceInv'
<1>1. /\ window \in Window /\ window.visible /\ window.scaled /\ pending_show = None
      /\ owed' = None /\ UNCHANGED <<placeVars, unsaved>>
  BY DEF UserAction, UserMoves, UserMaximizes, UserUnmaximizes, UserTogglesFullscreen,
     Rearrange,
         PlaceInv, PlaceTypes, Restoring
<1>2. /\ window' \in Window /\ window'.scaled
      /\ \/ window'.state = "normal" /\ window'.rect \in Rects /\ observed' = FALSE
         \/ /\ window.state = "normal" /\ window'.state # "normal"
            /\ window'.restore = window.rect /\ observed' = observed
         \/ /\ window.state # "normal" /\ window'.state = "normal"
            /\ window'.rect = window.restore /\ observed' = observed
  <2>1. CASE UserMoves
    BY <1>1, <2>1 DEF UserMoves, Rearrange, Window, Bounds
  <2>2. CASE UserMaximizes
    BY Zenon, <1>1, <2>2 DEF UserMaximizes, Maximized, Rearrange, Window, Bounds, WindowStates
  <2>3. CASE UserUnmaximizes
    BY Zenon, <1>1, <2>3 DEF UserUnmaximizes, Unmaximized, Rearrange, Window, WindowStates
  <2>4. CASE UserTogglesFullscreen
    BY Zenon, <1>1, <2>4 DEF UserTogglesFullscreen, Rearrange, Window, Bounds, WindowStates
  <2> QED
    BY Zenon, <2>1, <2>2, <2>3, <2>4 DEF UserAction
<1>3. GoodBounds'
  BY <1>1, <1>2 DEF PlaceInv, GoodBounds, Misled, placeVars, Window, WindowStates
<1>4. KnownBounds'
  BY Zenon, <1>1, <1>2 DEF PlaceInv, KnownBounds, NormalBounds, placeVars
<1>5. UNCHANGED <<last_normal, last_persisted, pending_show, capture>> /\ None \in Saved
  BY Zenon, <1>1 DEF placeVars, Saved
<1>6. observed' \in BOOLEAN
  BY Zenon, <1>2 DEF PlaceInv, PlaceTypes
<1>7. PlaceTypes'
  BY Zenon, <1>1, <1>2, <1>5, <1>6 DEF PlaceInv, PlaceTypes
<1>8. ui \in {"hide", "unmap"} /\ capture = None => ~observed'
  BY Zenon, <1>2 DEF PlaceInv, Restoring
<1>9. Restoring' /\ OwedInv'
  BY Zenon, <1>1, <1>2, <1>5, <1>8 DEF PlaceInv, Restoring, OwedInv
<1> QED
  BY Zenon, <1>3, <1>4, <1>7, <1>9 DEF PlaceInv

\* Every step keeps the placement invariant.
LEMMA PlaceStep ==
  ASSUME StoreInv, PlaceInv, [Next]_vars
  PROVE  PlaceInv'
<1>1. disk.geometry \in Saved /\ disk.geometry = last_persisted
  BY DEF StoreInv, StateFile, NoLostUpdate, Saved
<1>2. CASE ShowWindow
  BY <1>2, ShowKeeps
<1>3. CASE HideWindow
  BY <1>3, CaptureKeeps DEF HideWindow, Enter
<1>4. CASE WindowEvent
  BY <1>4, RedrawKeeps, ObserveKeeps DEF WindowEvent, Enter
<1>5. CASE Exit
  <2>1. CASE window.visible
    BY <1>5, <2>1, CaptureKeeps DEF Exit, Enter
  <2>2. CASE ~window.visible
    BY <1>5, <2>2, WaitingKeeps DEF Exit, Enter, placeVars, winVars
  <2> QED
    BY <2>1, <2>2
<1>6. CASE LoopEnds
  <2>1. CASE window.visible
    BY <1>6, <2>1, CaptureKeeps DEF LoopEnds, Enter
  <2>2. CASE ~window.visible
    BY <1>6, <2>2, WaitingKeeps DEF LoopEnds, Enter, placeVars, winVars
  <2> QED
    BY <2>1, <2>2
<1>7. CASE ChangePreferences \/ BeginUpdate \/ SavePreferences \/ WorkerBegins \/ WorkerEnds
  <2>1. /\ UNCHANGED <<last_normal, last_persisted, pending_show, capture, winVars>>
        /\ ui' = ui \/ <<ui, ui'>> \in {<<"idle", "preferences">>, <<"preferences", "idle">>}
    BY <1>7 DEF ChangePreferences, BeginUpdate, SavePreferences, WorkerBegins, WorkerEnds,
       Enter, placeVars
  <2> QED
    BY <2>1, WaitingKeeps
<1>8. CASE SkipPersist \/ PersistPlacement \/ PersistFails
  BY <1>8, PersistKeeps
<1>9. CASE Unmap
  BY <1>9, UnmapKeeps
<1>10. CASE Restart \/ Crash
  <2>1. Start
    BY <1>10 DEF Restart, Crash
  <2>2. owed' = None \/ owed' = disk.geometry
    BY <1>1, <1>10 DEF Restart, Crash, PlaceInv, OwedInv
  <2> QED
    BY <1>1, <2>1, <2>2, StartKeeps
<1>11. CASE User
  BY <1>11, UserKeeps DEF User
<1>12. CASE UNCHANGED vars
  BY <1>12, WaitingKeeps DEF vars, placeVars
<1> QED
  BY <1>2, <1>3, <1>4, <1>5, <1>6, <1>7, <1>8, <1>9, <1>10, <1>11, <1>12 DEF Next

-----------------------------------------------------------------------------
(* The bounds that are remembered.                                         *)

\* Remembered bounds that are good: in memory, written, waiting to be restored, captured.
Good(p) == p # None => p.rect \in Rects

AllGood == Good(last_normal) /\ Good(last_persisted) /\ Good(pending_show) /\ Good(capture)

\* The same, with the state file invariant: four placements suffice.
LEMMA GoodRemembered ==
  /\ StoreInv => (Remembered \subseteq Rects <=> AllGood)
  /\ StoreInv' => (Remembered' \subseteq Rects <=> AllGood')
<1>1. /\ StoreInv => disk.geometry = last_persisted
      /\ StoreInv' => disk'.geometry = last_persisted'
  BY Zenon DEF StoreInv, NoLostUpdate
<1>2. StoreInv => (AllGood <=> \A p \in {last_normal, last_persisted, pending_show, capture,
                                        disk.geometry} : p # None => p.rect \in Rects)
  BY <1>1 DEF Good, AllGood
<1>3. StoreInv' => (AllGood' <=> \A p \in {last_normal', last_persisted', pending_show', capture',
                                          disk'.geometry} : p # None => p.rect \in Rects)
  BY <1>1 DEF Good, AllGood
<1> QED
  BY Zenon, <1>2, <1>3, RememberedRects

\* No step starts to remember the bounds of a window that is not in its normal state.
LEMMA BoundsKept ==
  ASSUME StoreInv, StoreInv', PlaceInv, [Next]_vars, Remembered \subseteq Rects,
         ~(pending_show # None /\ Capture)
  PROVE  Remembered' \subseteq Rects
<1>1. /\ AllGood /\ disk.geometry = last_persisted
      /\ pending_show = None /\ window.state = "normal" => window.rect \in Rects
  BY Zenon, GoodRemembered DEF Good, AllGood, StoreInv, NoLostUpdate, PlaceInv, GoodBounds, Misled
<1>2. SUFFICES AllGood'
  BY Zenon, GoodRemembered
<1>3. ASSUME Capture PROVE AllGood'
  <2>1. UNCHANGED <<last_persisted, pending_show>> /\ pending_show = None
    BY Zenon, <1>3 DEF Capture
  <2>2. Good(last_normal') /\ Good(capture')
    BY Zenon, <1>1, <1>3, <2>1, CapturedBounds DEF PlaceInv, AllGood, Good
  <2> QED
    BY Zenon, <1>1, <2>1, <2>2 DEF AllGood, Good
<1>4. CASE ShowWindow
  <2>1. /\ UNCHANGED <<last_persisted, pending_show, capture>>
        /\ last_normal' = IF pending_show # None THEN as_normal(pending_show) ELSE last_normal
    BY Zenon, <1>4 DEF ShowWindow, show
  <2>2. Good(last_normal')
    BY Zenon, <1>1, <2>1, NormalPlacements DEF PlaceInv, PlaceTypes, Saved, AllGood, Good
  <2> QED
    BY Zenon, <1>1, <2>1, <2>2 DEF AllGood, Good
<1>5. CASE WindowEvent
  <2>1. CASE RestoreOnRedraw
    BY Zenon, <1>1, <2>1 DEF RestoreOnRedraw, AllGood, Good
  <2>2. CASE ObserveEvent
    <3>1. PICK ok \in BOOLEAN : last_normal' = observe(window, ok)
      BY Zenon, <2>2 DEF ObserveEvent
    <3>2. UNCHANGED <<last_persisted, pending_show, capture>> /\ pending_show = None
      BY Zenon, <2>2 DEF ObserveEvent
    <3>3. \/ last_normal' = last_normal
          \/ window.state = "normal" /\ last_normal'.rect = window.rect
      BY Zenon, <3>1, NormalPlacements DEF observe, PlaceInv, PlaceTypes
    <3> QED
      BY Zenon, <1>1, <3>2, <3>3 DEF AllGood, Good
  <2> QED
    BY Zenon, <1>5, <2>1, <2>2 DEF WindowEvent
<1>6. CASE HideWindow \/ Exit \/ LoopEnds
  BY Zenon, <1>1, <1>3, <1>6 DEF HideWindow, Exit, LoopEnds, placeVars, AllGood, Good
<1>7. CASE \/ ChangePreferences \/ BeginUpdate \/ SavePreferences \/ WorkerBegins \/ WorkerEnds
           \/ SkipPersist \/ PersistFails \/ UNCHANGED vars
  <2>1. UNCHANGED placeVars
    BY Zenon, <1>7 DEF ChangePreferences, BeginUpdate, SavePreferences, WorkerBegins, WorkerEnds,
       SkipPersist, PersistFails, vars
  <2> QED
    BY Zenon, <1>1, <2>1 DEF placeVars, AllGood, Good
<1>8. CASE PersistPlacement
  BY Zenon, <1>1, <1>8 DEF PersistPlacement, AllGood, Good
<1>9. CASE Unmap
  BY Zenon, <1>1, <1>9 DEF Unmap, FinishHide, AllGood, Good
<1>10. CASE Restart \/ Crash
  <2>1. /\ last_persisted' = disk.geometry /\ pending_show' = disk.geometry /\ capture' = None
        /\ last_normal' = IF disk.geometry = None THEN None ELSE as_normal(disk.geometry)
    BY Zenon, <1>10 DEF Restart, Crash, Start, NewManager
  <2>2. last_normal' # None => disk.geometry # None /\ last_normal'.rect = disk.geometry.rect
    BY <2>1, NormalPlacements DEF StoreInv, StateFile
  <2> QED
    BY Zenon, <1>1, <2>1, <2>2 DEF AllGood, Good
<1>11. CASE User
  <2>1. UNCHANGED placeVars
    BY Zenon, <1>11 DEF User, UserAction, UserMoves, UserMaximizes, UserUnmaximizes,
       UserTogglesFullscreen, Rearrange
  <2> QED
    BY Zenon, <1>1, <2>1 DEF placeVars, AllGood, Good
<1> QED
  BY Zenon, <1>4, <1>5, <1>6, <1>7, <1>8, <1>9, <1>10, <1>11 DEF Next

\* A placement that does not have the bounds of a maximized window.
Small(p) == p # None => p.rect # "full"

\* The window returns to bounds that are not those of a maximized one, and no placement
\* has these.
NoFull ==
    /\ Small(last_normal) /\ Small(last_persisted) /\ Small(pending_show) /\ Small(capture)
    /\ window.state = "normal" => window.rect # "full"
    /\ window.restore # "full"

\* What the requests do to the bounds of such a window.
LEMMA SmallWindow ==
  ASSUME NEW w \in Window, w.state = "normal" => w.rect # "full", w.restore # "full",
         NEW r \in Bounds, r # "full"
  PROVE  LET small(x) == (x.state = "normal" => x.rect # "full") /\ x.restore # "full"
         IN  /\ small(Unmaximized(w)) /\ small(Maximized(w)) /\ small(Placed(w, r))
             /\ small(Shown(w))
<1> DEFINE small(x) == (x.state = "normal" => x.rect # "full") /\ x.restore # "full"
<1>1. small(Unmaximized(w))
  BY DEF Unmaximized, Window
<1>2. small(Maximized(w))
  BY DEF Maximized, Window
<1>3. small(Placed(w, r))
  BY DEF Placed, Window
<1>4. small(Shown(w))
  BY DEF Shown, Window
<1> QED
  BY Zenon, <1>1, <1>2, <1>3, <1>4

\* No step remembers the bounds of a maximized or fullscreen window.
LEMMA NoFullStep ==
  ASSUME StoreInv, PlaceInv, NoFull, [Next]_vars
  PROVE  NoFull'
<1>1. /\ window \in Window /\ disk.geometry = last_persisted /\ PlaceTypes
      /\ "full" \notin Rects
      /\ \A p \in Placement : p.rect \in Bounds
  BY PlacementAssumption DEF PlaceInv, PlaceTypes, StoreInv, NoLostUpdate, Placement
<1>2. ASSUME Capture, UNCHANGED window PROVE NoFull'
  <2>1. UNCHANGED <<last_persisted, pending_show>>
    BY Zenon, <1>2 DEF Capture
  <2>2. Small(last_normal') /\ Small(capture')
    BY Zenon, <1>1, <1>2, CapturedBounds DEF NoFull, Small
  <2> QED
    BY Zenon, <1>2, <2>1, <2>2 DEF NoFull, Small
<1>3. ASSUME UNCHANGED <<placeVars, window>> PROVE NoFull'
  BY Zenon, <1>3 DEF placeVars, NoFull, Small
<1>4. CASE ShowWindow
  <2>1. CASE pending_show = None
    <3>1. window' = Shown(window) /\ UNCHANGED placeVars
      BY Zenon, <1>4, <2>1 DEF ShowWindow, show, placeVars
    <3>2. window'.state = window.state /\ window'.rect = window.rect
          /\ window'.restore = window.restore
      BY <1>1, <3>1 DEF Shown, Window
    <3> QED
      BY Zenon, <3>1, <3>2 DEF NoFull, Small, placeVars
  <2>2. CASE pending_show # None
    <3>1. /\ UNCHANGED <<last_persisted, pending_show, capture>>
          /\ last_normal' = as_normal(pending_show)
          /\ window' = Shown(Placed(Unmaximized(window), pending_show.rect))
      BY Zenon, <1>4, <2>2 DEF ShowWindow, show
    <3>2. pending_show \in Placement /\ pending_show.rect \in Bounds /\ pending_show.rect # "full"
      BY Zenon, <1>1, <2>2 DEF PlaceTypes, Saved, NoFull, Small
    <3>3. Small(last_normal')
      BY Zenon, <3>1, <3>2, NormalPlacements DEF Small
    <3> DEFINE u == Unmaximized(window)
               q == Placed(u, pending_show.rect)
    <3>4. u \in Window /\ (u.state = "normal" => u.rect # "full") /\ u.restore # "full"
      BY Zenon, <1>1, <3>2, WindowTypes, SmallWindow DEF NoFull
    <3>5. q \in Window /\ (q.state = "normal" => q.rect # "full") /\ q.restore # "full"
      BY Zenon, <3>2, <3>4, WindowTypes, SmallWindow
    <3>6. (window'.state = "normal" => window'.rect # "full") /\ window'.restore # "full"
      BY Zenon, <3>1, <3>2, <3>5, SmallWindow
    <3> QED
      BY Zenon, <3>1, <3>3, <3>6 DEF NoFull, Small
  <2> QED
    BY Zenon, <2>1, <2>2
<1>5. CASE WindowEvent
  <2>1. CASE RestoreOnRedraw
    <3> DEFINE u == Unmaximized(window)
               q == Placed(u, pending_show.rect)
    <3>1. /\ pending_show # None /\ pending_show' = None
          /\ UNCHANGED <<last_normal, last_persisted, capture>>
          /\ window' = IF pending_show.maximized THEN Maximized(q) ELSE q
      BY Zenon, <2>1 DEF RestoreOnRedraw
    <3>2. pending_show \in Placement /\ pending_show.rect \in Bounds /\ pending_show.rect # "full"
      BY Zenon, <1>1, <3>1 DEF PlaceTypes, Saved, NoFull, Small
    <3>3. u \in Window /\ (u.state = "normal" => u.rect # "full") /\ u.restore # "full"
      BY Zenon, <1>1, <3>2, WindowTypes, SmallWindow DEF NoFull
    <3>4. q \in Window /\ (q.state = "normal" => q.rect # "full") /\ q.restore # "full"
      BY Zenon, <3>2, <3>3, WindowTypes, SmallWindow
    <3> HIDE DEF q
    <3>5. (window'.state = "normal" => window'.rect # "full") /\ window'.restore # "full"
      BY Zenon, <3>1, <3>2, <3>4, SmallWindow
    <3> QED
      BY Zenon, <3>1, <3>5 DEF NoFull, Small
  <2>2. CASE ObserveEvent
    <3>1. PICK ok \in BOOLEAN : last_normal' = observe(window, ok)
      BY Zenon, <2>2 DEF ObserveEvent
    <3>2. UNCHANGED <<last_persisted, pending_show, capture, window>>
      BY Zenon, <2>2 DEF ObserveEvent
    <3>3. \/ last_normal' = last_normal
          \/ window.state = "normal" /\ last_normal'.rect = window.rect
      BY Zenon, <1>1, <3>1, NormalPlacements DEF observe
    <3> QED
      BY Zenon, <3>2, <3>3 DEF NoFull, Small
  <2> QED
    BY Zenon, <1>5, <2>1, <2>2 DEF WindowEvent
<1>6. CASE HideWindow \/ Exit \/ LoopEnds
  BY Zenon, <1>2, <1>3, <1>6 DEF HideWindow, Exit, LoopEnds, placeVars
<1>7. CASE \/ ChangePreferences \/ BeginUpdate \/ SavePreferences \/ WorkerBegins \/ WorkerEnds
           \/ SkipPersist \/ PersistFails \/ UNCHANGED vars
  BY Zenon, <1>3, <1>7 DEF ChangePreferences, BeginUpdate, SavePreferences, WorkerBegins,
     WorkerEnds, SkipPersist, PersistFails, vars, winVars
<1>8. CASE PersistPlacement
  BY Zenon, <1>8 DEF PersistPlacement, winVars, NoFull, Small
<1>9. CASE Unmap
  <2>1. PICK h \in Hidden(window) :
           window' = IF capture # None /\ capture.maximized
                     THEN Placed(Unmaximized(h), last_normal.rect) ELSE h
    BY Zenon, <1>9 DEF Unmap, FinishHide
  <2>2. pending_show' = capture /\ capture' = None /\ UNCHANGED <<last_normal, last_persisted>>
        /\ ui = "unmap"
    BY Zenon, <1>9 DEF Unmap, FinishHide, Enter
  <2>3. h \in Window /\ (h.state = "normal" => h.rect # "full") /\ h.restore # "full"
    BY Zenon, <1>1, HiddenWindow DEF NoFull
  <2>4. CASE capture # None
    <3>1. last_normal.rect \in Bounds /\ last_normal.rect # "full"
      BY Zenon, <1>1, <2>2, <2>4 DEF PlaceInv, Restoring, Placing, PlaceTypes, Saved, NoFull, Small
    <3>2. /\ Unmaximized(h) \in Window
          /\ Unmaximized(h).state = "normal" => Unmaximized(h).rect # "full"
          /\ Unmaximized(h).restore # "full"
      BY Zenon, <2>3, <3>1, WindowTypes, SmallWindow
    <3>3. (window'.state = "normal" => window'.rect # "full") /\ window'.restore # "full"
      BY Zenon, <2>1, <2>3, <3>1, <3>2, SmallWindow
    <3> QED
      BY Zenon, <2>2, <3>3 DEF NoFull, Small
  <2>5. CASE capture = None
    BY Zenon, <2>1, <2>2, <2>3, <2>5 DEF NoFull, Small
  <2> QED
    BY Zenon, <2>4, <2>5
<1>10. CASE Restart \/ Crash
  <2>1. /\ last_persisted' = disk.geometry /\ pending_show' = disk.geometry /\ capture' = None
        /\ last_normal' = IF disk.geometry = None THEN None ELSE as_normal(disk.geometry)
    BY Zenon, <1>10 DEF Restart, Crash, Start, NewManager
  <2>2. last_normal' # None => disk.geometry # None /\ last_normal'.rect = disk.geometry.rect
    BY <2>1, NormalPlacements DEF StoreInv, StateFile
  <2>3. PICK r \in Rects : window' = NewWindow(r)
    BY Zenon, <1>10 DEF Restart, Crash, Start
  <2>4. window'.rect # "full" /\ window'.restore # "full"
    BY <1>1, <2>3 DEF NewWindow
  <2> QED
    BY Zenon, <1>1, <2>1, <2>2, <2>4 DEF NoFull, Small
<1>11. CASE User
  <2>1. UNCHANGED placeVars
    BY Zenon, <1>11 DEF User, UserAction, UserMoves, UserMaximizes, UserUnmaximizes,
       UserTogglesFullscreen, Rearrange
  <2>2. (window'.state = "normal" => window'.rect # "full") /\ window'.restore # "full"
    <3>1. CASE UserMoves
      BY <1>1, <3>1 DEF UserMoves, Rearrange, Window, NoFull
    <3>2. CASE UserMaximizes
      BY <1>1, <3>2 DEF UserMaximizes, Maximized, Rearrange, Window, NoFull
    <3>3. CASE UserUnmaximizes
      BY <1>1, <3>3 DEF UserUnmaximizes, Unmaximized, Rearrange, Window, NoFull
    <3>4. CASE UserTogglesFullscreen
      <4>1. CASE window' = [window EXCEPT !.state = "fullscreen", !.rect = "full",
                                          !.restore = window.rect] /\ window.state = "normal"
        BY <1>1, <4>1 DEF Window, NoFull
      <4>2. CASE window' = [window EXCEPT !.state = "normal", !.rect = window.restore]
        BY <1>1, <4>2 DEF Window, NoFull
      <4> QED
        BY Zenon, <3>4, <4>1, <4>2 DEF UserTogglesFullscreen, Rearrange
    <3> QED
      BY Zenon, <1>11, <3>1, <3>2, <3>3, <3>4 DEF User, UserAction
  <2> QED
    BY Zenon, <2>1, <2>2 DEF placeVars, NoFull, Small
<1> QED
  BY Zenon, <1>4, <1>5, <1>6, <1>7, <1>8, <1>9, <1>10, <1>11 DEF Next

-----------------------------------------------------------------------------
(* The theorems.                                                           *)

\* The first start.
LEMMA Initially == Init => StoreInv /\ PlaceInv
<1> SUFFICES ASSUME Init PROVE StoreInv /\ PlaceInv
  OBVIOUS
<1>1. PICK keys \in SUBSET SnoozeKeys, saved \in {None} \cup [rect : Rects, maximized : BOOLEAN] :
          /\ disk = [snoozed |-> [k \in keys |-> "more"], geometry |-> saved,
                     preferences |-> NoPreferences, extra |-> "more"]
          /\ acked = [snoozed |-> keys, preferences |-> NoPreferences]
          /\ last_normal = IF saved = None THEN None ELSE as_normal(saved)
          /\ last_persisted = saved
          /\ pending_show = saved
  BY Zenon DEF Init
<1>2. saved \in Saved
  BY DEF Saved, Placement, Bounds
<1>3. NoPreferences \in Preferences
  BY StoreAssumption DEF NoPreferences
<1>4. [k \in keys |-> "more"] \in Snoozes
  <2>1. [k \in keys |-> "more"] \in [keys -> {"plain", "more"}]
    OBVIOUS
  <2> QED
    BY <2>1 DEF Snoozes
<1>5. disk \in StateFile /\ acked \in [snoozed : SUBSET SnoozeKeys, preferences : Preferences]
  BY <1>1, <1>2, <1>3, <1>4 DEF StateFile, Saved
<1>6. /\ holder = None /\ copy = [t \in Threads |-> None] /\ capture = None
      /\ owed = None /\ ui = "idle" /\ observed = FALSE /\ unsaved = FALSE
  BY DEF Init
<1>7. StoreInv
  BY <1>1, <1>5, <1>6 DEF StoreInv, NoLostUpdate
<1>8. PICK r \in Rects : window = NewWindow(r)
  BY DEF Init
<1>9. /\ window \in Window /\ ~window.visible /\ window.state = "normal" /\ window.rect \in Rects
  BY <1>8 DEF NewWindow, Window, WindowStates, Bounds
<1>10. /\ last_normal \in Saved
       /\ saved # None => last_normal # None /\ last_normal.rect = saved.rect
  BY <1>1, <1>2, NormalPlacements DEF Saved
<1>11. PlaceInv
  BY <1>1, <1>2, <1>6, <1>9, <1>10
  DEF PlaceInv, PlaceTypes, Restoring, GoodBounds, KnownBounds, NormalBounds, OwedInv, Misled, Placing, Saved
<1> QED
  BY <1>7, <1>11

\* Both invariants hold throughout.
LEMMA ShellInvariant == Spec => [](StoreInv /\ PlaceInv)
<1>1. StoreInv /\ PlaceInv /\ [Next]_vars => (StoreInv /\ PlaceInv)'
  BY StoreStep, PlaceStep DEF PlaceInv, PlaceTypes, Saved
<1> QED
  BY <1>1, Initially, PTL DEF Spec

\* The two threads that rewrite the state file never take back each other's sections
\* (persistence.rs, Store::update), and a window comes back as the user left it
\* (window_geometry.rs).
THEOREM ShellSafety == Spec => [](TypeOK /\ NoLostUpdate /\ PlacementComesBack)
<1>1. StoreInv /\ PlaceInv => TypeOK
  BY DEF StoreInv, PlaceInv, PlaceTypes, TypeOK, StateFile, Saved, Window
<1>2. StoreInv => NoLostUpdate
  BY DEF StoreInv
<1>3. PlaceInv => PlacementComesBack
  BY DEF PlaceInv, OwedInv, AsLeft, PlacementComesBack
<1> QED
  BY <1>1, <1>2, <1>3, ShellInvariant, PTL

\* A window that is hidden or closed by exiting comes back as its user left it, also
\* after a restart and when the window manager forgets its restore bounds, if its normal
\* bounds were observed, its placement was written, and it was not in the middle of a
\* restoration (window_geometry.rs, show, hide, save and handle_winit_event).
THEOREM WindowComesBack == Spec => []PlacementComesBack
  BY ShellSafety, PTL

\* No save drops the fields of a newer version (persistence.rs, replace_snoozes).
THEOREM NewerFieldsSurvive == Spec => UnknownFieldsSurvive
<1>1. StoreInv /\ PlaceInv /\ [Next]_vars => [FileStep]_vars
  BY StoreStep DEF PlaceInv, PlaceTypes, Saved
<1>2. Spec => [][FileStep]_vars
  BY <1>1, ShellInvariant, PTL DEF Spec
<1> QED
  BY <1>2 DEF UnknownFieldsSurvive, FileStep

\* The bounds of a maximized or fullscreen window are never remembered as its normal
\* ones, and those of a window that is not yet scaled only if it is hidden or closed in
\* the middle of its restoration (window_geometry.rs, observe_winit_window and
\* handle_winit_event).
THEOREM NormalBoundsOnly == Spec => []FullNeverRemembered /\ BoundsStayNormal
<1>1. StoreInv /\ PlaceInv /\ (StoreInv /\ PlaceInv)' /\ [Next]_vars => [BoundsStep]_vars
  BY BoundsKept DEF BoundsStep
<1>2. Spec => [][BoundsStep]_vars
  BY <1>1, ShellInvariant, PTL DEF Spec
<1>3. Init => NoFull
  <2> SUFFICES ASSUME Init PROVE NoFull
    OBVIOUS
  <2>1. PICK saved \in {None} \cup [rect : Rects, maximized : BOOLEAN], r \in Rects :
          /\ last_normal = IF saved = None THEN None ELSE as_normal(saved)
          /\ last_persisted = saved /\ pending_show = saved /\ capture = None
          /\ window = NewWindow(r)
    BY Zenon DEF Init
  <2>2. "full" \notin Rects
    BY PlacementAssumption
  <2>3. Small(saved) /\ Small(last_normal)
    BY <2>1, <2>2 DEF Small, as_normal
  <2>4. window.rect # "full" /\ window.restore # "full"
    BY <2>1, <2>2 DEF NewWindow
  <2> QED
    BY Zenon, <2>1, <2>3, <2>4 DEF NoFull, Small
<1>4. StoreInv /\ PlaceInv /\ NoFull /\ [Next]_vars => NoFull'
  BY Zenon, NoFullStep
<1>5. StoreInv /\ NoFull => FullNeverRemembered
  <2> SUFFICES ASSUME StoreInv, NoFull,
                      NEW p \in {last_normal, last_persisted, pending_show, capture, disk.geometry},
                      p # None, p.rect = "full"
               PROVE  FALSE
    BY Zenon DEF FullNeverRemembered, Remembered
  <2>1. disk.geometry = last_persisted
    BY Zenon DEF StoreInv, NoLostUpdate
  <2> QED
    BY <2>1 DEF NoFull, Small
<1>6. Spec => []FullNeverRemembered
  BY <1>3, <1>4, <1>5, ShellInvariant, PTL DEF Spec
<1> QED
  BY <1>2, <1>6 DEF BoundsStayNormal, BoundsStep

-----------------------------------------------------------------------------
(* What the UI shows (UIProjection).  The three properties and the types   *)
(* are together inductive: that the generation of the current icon has     *)
(* exactly one timer rests on apply_snapshot taking a generation without   *)
(* timers.                                                                 *)

ProjectionInv == TrayTypeOK /\ OneCadence /\ TrayShowsState /\ PopupKeepsItsIncident

\* The cadence and the icon of the tray, before the first state is applied.
LEMMA ProjectionInitially == TrayInit => ProjectionInv
<1> SUFFICES ASSUME TrayInit PROVE ProjectionInv
  OBVIOUS
<1> USE TrayAssumption DEF TrayInit
<1>1. TrayTypeOK
  BY DEF TrayTypeOK
<1>2. OneCadence
  BY DEF OneCadence, tick
<1>3. TrayShowsState /\ PopupKeepsItsIncident
  BY DEF TrayShowsState, PopupKeepsItsIncident
<1> QED
  BY <1>1, <1>2, <1>3 DEF ProjectionInv

\* The next generation is another one, also where the counter wraps around.
LEMMA NextGeneration ==
  ASSUME NEW g \in 0..Generations - 1
  PROVE  /\ (g + 1) % Generations \in 0..Generations - 1
         /\ (g + 1) % Generations # g
<1>1. CASE g + 1 < Generations
  BY <1>1, TrayAssumption
<1>2. CASE g + 1 = Generations
  BY <1>2, TrayAssumption
<1> QED
  BY <1>1, <1>2, TrayAssumption

\* The head of a queue of Ts is a T.
LEMMA HeadOfQueue ==
  ASSUME NEW T, NEW q \in Seq(T), q # <<>>
  PROVE  Head(q) \in T /\ Tail(q) \in Seq(T) /\ Len(Tail(q)) =< Len(q)
  OBVIOUS

\* Applying a state: the icon, its timer and the list.
LEMMA ApplyKeepsInv == ProjectionInv /\ apply_snapshot => ProjectionInv'
<1> SUFFICES ASSUME ProjectionInv, apply_snapshot PROVE ProjectionInv'
  OBVIOUS
<1> DEFINE icon == Head(published).icon
           list == Head(published).list
           next == apply(icon)
<1> USE TrayAssumption
<1>1. /\ Head(published) \in [icon : Icons, list : Lists]
      /\ published' \in Seq([icon : Icons, list : Lists])
      /\ Len(published') =< PublishCap
  <2>1. /\ published \in Seq([icon : Icons, list : Lists])
        /\ Len(published) \in Nat
        /\ Len(published) =< PublishCap
        /\ published # <<>>
        /\ published' = Tail(published)
    BY DEF ProjectionInv, TrayTypeOK, apply_snapshot
  <2> DEFINE T == [icon : Icons, list : Lists]
  <2> HIDE DEF T
  <2>2. published \in Seq(T)
    BY <2>1 DEF T
  <2>3. Head(published) \in T /\ Tail(published) \in Seq(T)
    BY <2>1, <2>2, HeadOfQueue
  <2>4. Len(Tail(published)) \in Nat /\ Len(Tail(published)) =< Len(published)
    BY <2>1, <2>2, <2>3, HeadOfQueue
  <2>5. Len(published') =< PublishCap
    BY <2>1, <2>4
  <2> QED
    BY <2>1, <2>3, <2>5 DEF T
<1>2. icon \in Icons /\ list \in Lists
  BY <1>1
<1>3. /\ rows' = list
      /\ popup' = (IF update_rows_in_place(list) THEN popup ELSE NoPopup)
      /\ current_icon' = icon
  BY DEF apply_snapshot
<1>4. PopupKeepsItsIncident'
  <2>1. CASE update_rows_in_place(list)
    BY <1>3, <2>1 DEF ProjectionInv, PopupKeepsItsIncident, update_rows_in_place
  <2>2. CASE ~update_rows_in_place(list)
    BY <1>3, <2>2 DEF PopupKeepsItsIncident
  <2> QED
    BY <2>1, <2>2
<1>5. CASE same_icon(icon)
  <2>1. UNCHANGED <<flash, timers, shown>>
    BY <1>5 DEF apply_snapshot
  <2>2. TrayTypeOK'
    BY <1>1, <1>2, <1>3, <2>1 DEF ProjectionInv, TrayTypeOK
  <2>3. OneCadence'
    BY <2>1 DEF ProjectionInv, OneCadence, tick
  <2>4. TrayShowsState'
    BY <1>3, <1>5, <2>1 DEF ProjectionInv, TrayShowsState, same_icon
  <2> QED
    BY <2>2, <2>3, <2>4, <1>4 DEF ProjectionInv
<1>6. CASE ~same_icon(icon)
  <2>1. /\ timers[next.generation] = 0
        /\ flash' = next
        /\ shown' = icon
        /\ timers' = [timers EXCEPT ![next.generation] = IF next.flashing THEN @ + 1 ELSE @]
    BY <1>6 DEF apply_snapshot
  <2>2. /\ next.icon = icon
        /\ next.flashing = (icon \in Alerting)
        /\ next.solid = TRUE
        /\ next.generation = (flash.generation + 1) % Generations
    BY DEF apply
  <2>3. flash.generation \in 0..Generations - 1
    BY DEF ProjectionInv, TrayTypeOK
  <2>4. next.generation \in 0..Generations - 1
    BY <2>2, <2>3, NextGeneration
  <2>5. next \in [icon : Icons \cup {"none"}, flashing : BOOLEAN, solid : BOOLEAN,
                  generation : 0..Generations - 1]
    BY <1>2, <2>2, <2>4 DEF apply
  <2>6. timers \in [0..Generations - 1 -> Nat]
    BY DEF ProjectionInv, TrayTypeOK
  <2>7. timers' \in [0..Generations - 1 -> Nat]
    BY <2>1, <2>4, <2>6
  <2>8. TrayTypeOK'
    BY <1>1, <1>2, <1>3, <2>1, <2>5, <2>7 DEF TrayTypeOK
  <2>9. timers'[flash'.generation] = IF flash'.flashing THEN 1 ELSE 0
    BY <2>1, <2>4, <2>6
  <2>10. OneCadence'
    BY <2>9 DEF OneCadence, tick
  <2>11. TrayShowsState'
    BY <1>3, <2>1, <2>2 DEF TrayShowsState
  <2> QED
    BY <1>4, <2>8, <2>10, <2>11 DEF ProjectionInv
<1> QED
  BY <1>5, <1>6

\* A timer of the current generation, or a left-over one.
LEMMA TimerKeepsInv ==
  ASSUME ProjectionInv, NEW g \in DOMAIN timers, TimerFires(g)
  PROVE  ProjectionInv'
<1>1. /\ timers \in [0..Generations - 1 -> Nat]
      /\ g \in 0..Generations - 1
      /\ flash \in [icon : Icons \cup {"none"}, flashing : BOOLEAN, solid : BOOLEAN,
                    generation : 0..Generations - 1]
  BY DEF ProjectionInv, TrayTypeOK
<1>2. UNCHANGED <<published, current_icon, rows, popup>>
  BY DEF TimerFires, listVars
<1>3. PopupKeepsItsIncident'
  BY <1>2 DEF ProjectionInv, PopupKeepsItsIncident
<1>4. CASE tick(g)
  <2>1. /\ flash' = [flash EXCEPT !.solid = ~@]
        /\ shown' = (IF flash'.solid THEN current_icon ELSE "transparent")
        /\ timers' = timers
    BY <1>4 DEF TimerFires
  <2>2. /\ flash' \in [icon : Icons \cup {"none"}, flashing : BOOLEAN, solid : BOOLEAN,
                       generation : 0..Generations - 1]
        /\ flash'.icon = flash.icon
        /\ flash'.flashing = flash.flashing
        /\ flash'.generation = flash.generation
    BY Zenon, <1>1, <2>1
  <2>3. TrayTypeOK'
    BY <1>2, <2>1, <2>2 DEF ProjectionInv, TrayTypeOK
  <2>4. OneCadence'
    BY <2>1, <2>2 DEF ProjectionInv, OneCadence, tick
  <2>5. flash'.flashing
    BY <1>4, <2>2 DEF tick
  <2>6. TrayShowsState'
    BY <1>2, <2>1, <2>2, <2>5 DEF ProjectionInv, TrayShowsState
  <2> QED
    BY <1>3, <2>3, <2>4, <2>6 DEF ProjectionInv
<1>5. CASE ~tick(g)
  <2>1. /\ timers' = [timers EXCEPT ![g] = @ - 1]
        /\ timers[g] > 0
        /\ UNCHANGED <<flash, shown>>
    BY <1>5 DEF TimerFires
  <2>2. timers' \in [0..Generations - 1 -> Nat]
    BY <1>1, <2>1
  <2>3. g # flash.generation
    BY <1>1, <1>5, <2>1 DEF ProjectionInv, OneCadence, tick
  <2>4. TrayTypeOK'
    BY <1>2, <2>1, <2>2 DEF ProjectionInv, TrayTypeOK
  <2>5. timers'[flash.generation] = timers[flash.generation]
    BY <1>1, <2>1, <2>3
  <2>6. OneCadence'
    BY <2>1, <2>5 DEF ProjectionInv, OneCadence, tick
  <2>7. TrayShowsState'
    BY <1>2, <2>1 DEF ProjectionInv, TrayShowsState
  <2> QED
    BY <1>3, <2>4, <2>6, <2>7 DEF ProjectionInv
<1> QED
  BY <1>4, <1>5

\* What neither applies a state nor is a timer.
LEMMA OthersKeepInv ==
  ASSUME ProjectionInv,
         \/ \E icon \in Icons, list \in Lists : Publish(icon, list)
         \/ UsePopup
         \/ UNCHANGED trayVars
  PROVE  ProjectionInv'
<1> USE TrayAssumption
<1>1. ASSUME NEW icon \in Icons, NEW list \in Lists, Publish(icon, list)
      PROVE  ProjectionInv'
  <2>1. /\ published' \in Seq([icon : Icons, list : Lists])
        /\ Len(published') =< PublishCap
    BY <1>1 DEF ProjectionInv, TrayTypeOK, Publish
  <2>2. UNCHANGED <<flash, timers, current_icon, shown, rows, popup>>
    BY <1>1 DEF Publish, listVars
  <2> QED
    BY <2>1, <2>2 DEF ProjectionInv, TrayTypeOK, OneCadence, tick, TrayShowsState,
                      PopupKeepsItsIncident
<1>2. ASSUME UsePopup PROVE ProjectionInv'
  <2>1. UNCHANGED <<published, flash, timers, current_icon, shown, rows>>
    BY <1>2 DEF UsePopup
  <2>2. PopupKeepsItsIncident'
    <3>1. CASE popup = NoPopup
      <4>1. PICK i \in DOMAIN rows : popup' = [row |-> i, key |-> rows[i]]
        BY <1>2, <3>1 DEF UsePopup
      <4> QED
        BY <2>1, <4>1 DEF PopupKeepsItsIncident
    <3>2. CASE popup # NoPopup
      BY <1>2, <3>2 DEF UsePopup, PopupKeepsItsIncident
    <3> QED
      BY <3>1, <3>2
  <2> QED
    BY <2>1, <2>2 DEF ProjectionInv, TrayTypeOK, OneCadence, tick, TrayShowsState
<1>3. ASSUME UNCHANGED trayVars PROVE ProjectionInv'
  BY <1>3 DEF ProjectionInv, TrayTypeOK, OneCadence, tick, TrayShowsState,
              PopupKeepsItsIncident, trayVars, listVars
<1> QED
  BY <1>1, <1>2, <1>3

\* The tray has one cadence and shows the state last applied, and an open popup
\* stays with its incident, whatever is published and however late timers fire
\* (apply_snapshot, update_rows_in_place, FlashState::apply and tick).
THEOREM ProjectionSafety ==
  TraySpec => [](TrayTypeOK /\ OneCadence /\ TrayShowsState /\ PopupKeepsItsIncident)
<1>1. TrayInit => ProjectionInv
  BY ProjectionInitially
<1>2. ProjectionInv /\ [TrayNext]_trayVars => ProjectionInv'
  BY ApplyKeepsInv, TimerKeepsInv, OthersKeepInv DEF TrayNext
<1> QED
  BY <1>1, <1>2, PTL DEF TraySpec, ProjectionInv

\* A popup that stays open while the list is refreshed stays with its incident
\* (ui/projection.rs, update_rows_in_place).
THEOREM PopupStaysWithItsRow == TraySpec => []PopupKeepsItsIncident
  BY ProjectionSafety, PTL
=============================================================================
