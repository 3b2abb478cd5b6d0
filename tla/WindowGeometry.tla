--------------------------- MODULE WindowGeometry ---------------------------
(***************************************************************************)
(* The placement of montray-ui's window (window_geometry.rs): what is      *)
(* remembered, saved and restored while the window is hidden, shown,       *)
(* moved and maximized.                                                    *)
(*                                                                         *)
(* The window manager is external.  It carries out a request before the    *)
(* next callback.  It does not know the monitor's scale before the window  *)
(* is first shown, and sizes it only approximately; and it may forget the  *)
(* restore bounds of a maximized window that is hidden.                    *)
(***************************************************************************)
EXTENDS StateStore

CONSTANT Rects    \* bounds a normal window may have

VARIABLES
    window,         \* the native window
    last_normal,    \* the last normal bounds observed, or None
    last_persisted, \* the placement last written, or None
    pending_show,   \* the placement being restored, or None
    capture,        \* the placement that the UI thread is about to persist
    observed,       \* the code has seen, or set itself, the normal bounds that the
                    \* window has now (history)
    owed,           \* the state and bounds with which the user last left the window,
                    \* or None once they changed them (history)
    unsaved         \* writing the placement last captured failed (history)

placeVars == <<last_normal, last_persisted, pending_show, capture>>
winVars == <<window, observed, owed, unsaved>>

\* "full" are the bounds of a maximized or fullscreen window, "rough" those of a
\* window sized without knowing the scale.
Bounds == Rects \cup {"full", "rough"}
WindowStates == {"normal", "maximized", "fullscreen"}
Placement == [rect : Bounds, maximized : BOOLEAN]

ASSUME PlacementAssumption == None \notin Placement /\ {"full", "rough"} \cap Rects = {}

NewWindow(r) ==
    [visible |-> FALSE, scaled |-> FALSE, state |-> "normal", rect |-> r, restore |-> r]

-----------------------------------------------------------------------------
(* Requests to the window manager (external).                              *)

Unmaximized(w) ==
    IF w.state = "maximized" THEN [w EXCEPT !.state = "normal", !.rect = w.restore] ELSE w

Maximized(w) ==
    IF w.state = "normal"
    THEN [w EXCEPT !.state = "maximized", !.rect = "full", !.restore = w.rect] ELSE w

\* set_size and set_position
Placed(w, r) ==
    IF w.state = "normal" THEN [w EXCEPT !.rect = IF w.scaled THEN r ELSE "rough"] ELSE w

Shown(w) == [w EXCEPT !.visible = TRUE, !.scaled = TRUE]

\* What a window manager may leave of a window it hides.
Hidden(w) ==
    {[w EXCEPT !.visible = FALSE, !.restore = r] :
        r \in IF w.state = "maximized" THEN Rects ELSE {w.restore}}

-----------------------------------------------------------------------------
(* WindowGeometryManager.                                                  *)

as_normal(p) == [rect |-> p.rect, maximized |-> FALSE]

\* WindowGeometryManager::new
NewManager(saved) ==
    /\ last_normal' = IF saved = None THEN None ELSE as_normal(saved)
    /\ last_persisted' = saved
    /\ pending_show' = saved
    /\ capture' = None

\* observe_winit_window: only a window in its normal state is looked at, and an
\* observation that fails (no native window, no position, no size) changes nothing.
observe(w, ok) ==
    IF ok /\ w.state = "normal" THEN [rect |-> w.rect, maximized |-> FALSE] ELSE last_normal

\* capture_placement
Captured(w, ok) ==
    LET seen == observe(w, ok)
    IN  IF seen = None THEN None ELSE [seen EXCEPT !.maximized = (w.state = "maximized")]

\* History: the window, normal or maximized, as its user sees it.
AsSeen(w) ==
    [rect |-> IF w.state = "maximized" THEN w.restore ELSE w.rect,
     maximized |-> w.state = "maximized"]

show ==
    /\ IF pending_show # None
       THEN /\ last_normal' = as_normal(pending_show)
            /\ window' = Shown(Placed(Unmaximized(window), pending_show.rect))
       ELSE /\ window' = Shown(window)
            /\ UNCHANGED last_normal
    /\ UNCHANGED <<last_persisted, pending_show, capture, observed, owed, unsaved>>

\* hide and save begin with the placement.  The window as it is now is what the user
\* is owed later, unless it is fullscreen or in the middle of a restoration, or its
\* normal bounds are not known: it was maximized before they could be observed, or
\* observing them fails.
Capture ==
    \E ok \in BOOLEAN :
        /\ last_normal' = observe(window, ok)
        /\ capture' = Captured(window, ok)
        /\ observed' = (observed \/ (ok /\ window.state = "normal"))
        /\ owed' = IF pending_show # None \/ window.state = "fullscreen" \/ ~observed'
                   THEN None ELSE AsSeen(window)
        /\ unsaved' = FALSE
        /\ UNCHANGED <<last_persisted, pending_show>>

\* The window is unmapped; the bounds of a maximized one are established again.
FinishHide ==
    /\ pending_show' = capture
    /\ capture' = None
    /\ \E w \in Hidden(window) :
          window' = IF capture # None /\ capture.maximized
                    THEN Placed(Unmaximized(w), last_normal.rect) ELSE w

\* RedrawRequested: the restoration is completed with the real scale.
RestoreOnRedraw ==
    /\ window.visible
    /\ pending_show # None
    /\ LET w == Placed(Unmaximized(window), pending_show.rect)
       IN  window' = IF pending_show.maximized THEN Maximized(w) ELSE w
    /\ pending_show' = None
    /\ observed' = (observed \/ window.state # "fullscreen")
    /\ UNCHANGED <<last_normal, last_persisted, capture, owed, unsaved>>

\* Mutant of ObserveEvent: events of the restoration itself are observed too.
ObserveAlways ==
    /\ window.scaled
    /\ \E ok \in BOOLEAN :
          /\ last_normal' = observe(window, ok)
          /\ observed' = (observed \/ (ok /\ window.state = "normal"))
    /\ UNCHANGED <<last_persisted, pending_show, capture, window, owed, unsaved>>

\* Moved and Resized: the window is observed as it is now.
ObserveEvent ==
    /\ window.scaled
    /\ pending_show = None
    /\ \E ok \in BOOLEAN :
          /\ last_normal' = observe(window, ok)
          /\ observed' = (observed \/ (ok /\ window.state = "normal"))
    /\ UNCHANGED <<last_persisted, pending_show, capture, window, owed, unsaved>>

-----------------------------------------------------------------------------
(* The user, through the window manager: once the window has been drawn.   *)

Rearrange(w, known) ==
    /\ window.visible /\ pending_show = None
    /\ window' = w
    /\ observed' = known
    /\ owed' = None
    /\ UNCHANGED <<placeVars, unsaved>>

UserMoves ==
    /\ window.state = "normal"
    /\ \E r \in Rects \ {window.rect} : Rearrange([window EXCEPT !.rect = r], FALSE)

UserMaximizes == window.state = "normal" /\ Rearrange(Maximized(window), observed)

UserUnmaximizes == window.state = "maximized" /\ Rearrange(Unmaximized(window), observed)

UserTogglesFullscreen ==
    \/ /\ window.state = "normal"
       /\ Rearrange([window EXCEPT !.state = "fullscreen", !.rect = "full", !.restore = window.rect],
                    observed)
    \/ /\ window.state = "fullscreen"
       /\ Rearrange([window EXCEPT !.state = "normal", !.rect = window.restore], observed)

UserAction == UserMoves \/ UserMaximizes \/ UserUnmaximizes \/ UserTogglesFullscreen
=============================================================================
