---------------------------- MODULE UIProjection ----------------------------
(***************************************************************************)
(* What montray-ui shows (ui/projection.rs, tray.rs and the flash timer    *)
(* of app.rs): a list of incidents with a snooze popup on each row, and a  *)
(* tray icon that flashes while there is something to alert to.            *)
(*                                                                         *)
(* The runtime publishes states from its own thread; the UI thread applies *)
(* them in order, and runs the callbacks of one-shot timers.  A state is   *)
(* the identity of its icon and the keys of the incidents listed in the    *)
(* window; what else is published with it (counts, ages, texts) does not   *)
(* change the icon or the list.                                            *)
(***************************************************************************)
EXTENDS Naturals, Sequences

CONSTANTS
    Icons,          \* identities of icons
    Alerting,       \* those that flash
    Lists,          \* lists of incident keys (sequences)
    Generations,    \* bound: the generation counter (64 bits) counts modulo this
    NoPopup,        \* no popup is open
    PublishCap      \* bound: states waiting for the UI thread

ASSUME TrayAssumption ==
    /\ Alerting \subseteq Icons
    /\ {"none", "transparent"} \cap Icons = {}
    /\ Generations \in Nat \ {0, 1}
    /\ PublishCap \in Nat

VARIABLES
    published,      \* states waiting for the UI thread
    flash,          \* FlashState: icon, flashing, showing_solid, generation
    timers,         \* per generation: how many of its timers are running
    current_icon,   \* the icon of the state last applied
    shown,          \* what the tray shows
    rows,           \* the rows of the list
    popup           \* the open popup: its row and the key it was opened for, or NoPopup

listVars == <<rows, popup>>
trayVars == <<published, flash, timers, current_icon, shown, listVars>>

TrayInit ==
    /\ published = <<>>
    /\ flash = [icon |-> "none", flashing |-> FALSE, solid |-> FALSE, generation |-> 0]
    /\ timers = [g \in 0..Generations - 1 |-> 0]
    /\ current_icon = "none"
    /\ shown = "none"
    /\ rows = <<>>
    /\ popup = NoPopup

\* The runtime publishes a snapshot; it waits in the event loop's queue.
Publish(icon, list) ==
    /\ Len(published) < PublishCap
    /\ published' = Append(published, [icon |-> icon, list |-> list])
    /\ UNCHANGED <<flash, timers, current_icon, shown, listVars>>

\* Mutant of update_rows_in_place: only the number of rows is compared.
UpdateSameLength(new) == Len(rows) = Len(new)

\* Rows are updated in place if every row keeps its key; otherwise the list is
\* replaced, which closes its popup.
update_rows_in_place(new) ==
    DOMAIN rows = DOMAIN new /\ \A i \in DOMAIN new : rows[i] = new[i]

\* TrayFlashController::apply, for an icon that is not the current one.
apply(icon) ==
    [icon |-> icon, flashing |-> icon \in Alerting, solid |-> TRUE,
     generation |-> (flash.generation + 1) % Generations]

\* Mutant of same_icon: every snapshot starts the cadence again.
NeverSame(icon) == FALSE

\* The icon is left alone, and so is its cadence.
same_icon(icon) == icon = flash.icon

\* Bound: a generation is not used again while one of its timers is running.
apply_snapshot ==
    /\ published # <<>>
    /\ published' = Tail(published)
    /\ LET icon == Head(published).icon
           list == Head(published).list
           next == apply(icon)
       IN  /\ rows' = list
           /\ popup' = IF update_rows_in_place(list) THEN popup ELSE NoPopup
           /\ current_icon' = icon
           /\ IF same_icon(icon)
              THEN UNCHANGED <<flash, timers, shown>>
              ELSE /\ timers[next.generation] = 0
                   /\ flash' = next
                   /\ shown' = icon
                   /\ timers' = [timers EXCEPT ![next.generation] =
                                     IF next.flashing THEN @ + 1 ELSE @]

\* Mutant of tick: the timers of earlier generations are not told apart.
TickAny(g) == flash.flashing

\* TrayFlashController::tick: is this the timer of the current cadence?
tick(g) == g = flash.generation /\ flash.flashing

\* The callback of schedule_flash_tick; it starts the next timer.
TimerFires(g) ==
    /\ timers[g] > 0
    /\ IF tick(g)
       THEN /\ flash' = [flash EXCEPT !.solid = ~@]
            /\ shown' = IF flash'.solid THEN current_icon ELSE "transparent"
            /\ UNCHANGED timers
       ELSE /\ timers' = [timers EXCEPT ![g] = @ - 1]
            /\ UNCHANGED <<flash, shown>>
    /\ UNCHANGED <<published, current_icon, listVars>>

\* The user opens the popup of a row, or closes it.
UsePopup ==
    /\ IF popup = NoPopup
       THEN \E i \in DOMAIN rows : popup' = [row |-> i, key |-> rows[i]]
       ELSE popup' = NoPopup
    /\ UNCHANGED <<published, flash, timers, current_icon, shown, rows>>

TrayNext ==
    \/ \E icon \in Icons, list \in Lists : Publish(icon, list)
    \/ apply_snapshot
    \/ UsePopup
    \/ \E g \in DOMAIN timers : TimerFires(g)

\* The UI thread runs, and timers expire.
TrayFairness ==
    /\ WF_trayVars(apply_snapshot)
    /\ \A g \in 0..Generations - 1 : WF_trayVars(TimerFires(g))

TraySpec == TrayInit /\ [][TrayNext]_trayVars /\ TrayFairness

-----------------------------------------------------------------------------
\* Every variable keeps its type, and the queue its bound.
TrayTypeOK ==
    /\ published \in Seq([icon : Icons, list : Lists]) /\ Len(published) =< PublishCap
    /\ flash \in [icon : Icons \cup {"none"}, flashing : BOOLEAN, solid : BOOLEAN,
                  generation : 0..Generations - 1]
    /\ timers \in [0..Generations - 1 -> Nat]
    /\ current_icon \in Icons \cup {"none"}
    /\ shown \in Icons \cup {"none", "transparent"}
    /\ rows \in Lists \cup {<<>>}

\* However often states are published and replaced, exactly one of the running timers
\* drives an alerting icon: a second one would shorten the transparent phase.
OneCadence ==
    /\ timers[flash.generation] = IF flash.flashing THEN 1 ELSE 0
    /\ \A g \in DOMAIN timers : tick(g) /\ timers[g] > 0 => g = flash.generation

\* A popup that stays open while the list is refreshed every second stays with its
\* incident: what is chosen in it is not applied to another one.
PopupKeepsItsIncident ==
    popup # NoPopup => popup.row \in DOMAIN rows /\ rows[popup.row] = popup.key

\* The tray shows the state last applied: the timer of a state that was replaced
\* can neither blank nor bring back an icon.
TrayShowsState ==
    /\ current_icon = flash.icon
    /\ shown = IF flash.flashing /\ ~flash.solid THEN "transparent" ELSE current_icon

\* An alert that stays keeps flashing, although the runtime publishes it again and
\* again.
AlertKeepsFlashing ==
    \A icon \in Alerting :
        <>[](current_icon = icon) => []<>(shown = "transparent") /\ []<>(shown = icon)
=============================================================================
