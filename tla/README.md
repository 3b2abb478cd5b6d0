# Montray in TLA+

Montray watches hosts. A server (Go, `src/backend`, `src/cmd/montray-server`)
runs *collectors*, tracks which items are in an incident, and tells *messengers*
about every change. A desktop UI (Rust, `src/cmd/montray-ui`) connects to several
servers over websockets, possibly through a tunnel process, and shows, notifies
and snoozes incidents. An older UI (Go, `src/cmd/montray-ui-legacy`, with
`src/wsclient`) does the same.

This directory models the server, from the observation made by a collector to
the message written to a peer, and the Rust UI, from its sockets and tunnel
processes to the window, the tray, the state file and the installation. The
older UI is not modelled.

## Inventory

| Part | Source | State that changes | Module |
|---|---|---|---|
| item state tracker | `statestracker/` | the OK and not-OK maps | `StatesTracker` |
| core | `backend/core/core.go` | update channel, tracker, board, messenger channels, Close | `Core` |
| construction | `backend/core/*_factory.go`, `NewCore` | what has been started and must be undone | `Startup` |
| items board | `backend/itemsboard` | the last total | `Core` (`board`) |
| file logger | `backend/messengers/filelogger` | the file | `FileLogger` |
| webserver | `backend/messengers/webserver` | subscriptions, queues, connections | `Webserver` |
| systemd collector and provider | `backend/collectors/systemd` | incidents, recovery timers, channels | `SystemdCollector` |
| exec collector | `backend/collectors/exec` | tickers, the command's process | `ExecCollector` |
| the server | all of the above | | `MontrayServer` |
| UI reducer and model | `montray-ui/src/domain` | servers, incidents, snoozes | `Reducer` |
| UI event loop | `runtime.rs` | channels, two-phase snooze writes, published view | `UIRuntime` |
| UI connection loop, tunnel supervisor | `network/client.rs`, `network/tunnel.rs` | sockets, process generations | `UINetwork` |
| UI notifications | `notification.rs` | bounded queue, worker | `NotificationDispatcher` |
| UI shutdown | `runtime.rs` | which tasks are left | `UIProcess` |
| UI state file | `persistence.rs` | the file and its lock | `StateStore` |
| UI window | `window_geometry.rs`, `app.rs` | placement, pending restoration | `WindowGeometry`, `UIShell` |
| UI tray and list | `tray.rs`, `ui/projection.rs`, `app.rs` | flash cycle, timers, rows | `UIProjection` |
| UI setup and migration | `setup.rs`, `persistence.rs` | the user's files | `Setup` |
| request handling, auth, logging, command lines, server setup | `webserver/auth.go`, `logs/`, `cmd/montray-server`, `internal/setup`, `cli.rs`, `config.rs` | none that outlives a call, or files only | not modelled |
| Go client, combiner, tunnel, legacy UI | `wsclient/`, `montray-ui-legacy/` | connections, combined incidents | not modelled |

`PROJECT.json` has the complete list of files, the lines every definition
stands for, and the hazards with the lines at which they bite.

## How the parts interact

```
 collectors ──updCh──> Core.run ──> tracker
 (systemd, exec)          │
                          ├─ board.Set ........................ board.Get
                          └─ one sender per messenger              │
                               ├─notificationsChan─> file logger   │
                               └─notificationsChan─> webserver.run │
                                        │ copy of the subscriptions│
                                        └─ queue per subscriber ──> send loop ─> peer
```

All channels of the server are bounded. A full channel blocks the sender, except
a subscriber's queue: its connection is closed instead.

```
 tunnel supervisor ──starts, kills──> tunnel process
      │ starts, stops
 connection loop ──events──┐                  ┌─ queue ──> notification worker
 (one per server)          ├─> event loop ────┤
 clicks ─────commands──────┘   (reducer)      ├─ snapshots ─> UI thread: list, tray,
                                  │           │               flash timers, window
                                  └─ awaits a write of the snoozes        │
                                           └────────> state file <────────┘
```

In the UI a full events channel blocks the network tasks, a full commands channel
drops the click, and a full notification queue drops the new notification.

## Modules

### Server

`StatesTracker` is pure: `FeedItems` as operators. Go's maps are total functions
with the value `Absent` for a missing key. An item stands for a (state, details)
pair. `RemovedBy`, `AddedBy` and `UpdatedBy` are the three deltas, `TrackerAfter` the
new tracker, `NotificationOf` the notification, `HasChanges` whether there is one.

`Core` has one action per step of a goroutine: `CollectorPrepare`, `CollectorSend`
and `CollectorStop` for a collector as `core.go` sees it; `RunError`, `RunFeed`,
`RunPublish`, `RunSent` and `RunDone` for `run`; `SenderStart`, `SenderDeliver` and
`SenderDrop` for the selects of `sendMessengerNotification`; `Close...` for each
step of `close`. Feeding and publishing on the board are separate steps, because
a peer may read the board between them. A send does not look at whether its
channel is closed (Go would panic); that this never happens is a property.

`FileLogger` and `Webserver` extend `Core` with the goroutines behind a messenger
channel. The log file is represented by what replaying its lines gives. It is opened
for appending (`filelogger.go:37`), so it starts with what earlier runs left open
(`OldLogs`); `written` (history) says about which keys this run has written. In
`Webserver`, `unsubscribe` is two steps, the removal under `subsMtx` and the closing
outside of it; `removedBy` says who is in between. `MontrayServer` puts all of them
together.

`SystemdCollector` models the run goroutine with its four maps, the provider, the
timers and their callbacks. A unit state is an (ActiveState, SubState) pair, a
condition is the set of unit states it matches, and time is counted in ticks. The
provider forwards every update of systemd, also one that repeats a state. `opened`
(history) is the policy of the condition that opened an incident, `recovered`
(history) how long the unit has been in one of its states. The
core is reduced to the last item it received for each key. `ExecCollector` models
the two tickers, one command with its process, the descendants that may hold its
stdout, the timeout, and the send. `ResultsOf` has what `runCommand` may make of an
exit code, a failing `Wait` included. Time passes only when the goroutine has
nothing it can do, since its own steps take no time compared to an interval.

`Startup` models `NewCore`: collectors start to send while later entries are still
being created, and a failure undoes what was started.

### UI

`ServerLink` is abstract: the order in which the events of one server reach the
event loop. The `socket` of a `Connected` or `Heartbeat` event is history: the code's
events have no such field. No guard reads it; a heartbeat's is recorded where the code
records its time, so that a property can say which socket it came from. `Reducer` (on
top of it) is the pure state machine: one operator per
event for the new state, one for the notifications it asks for (`Notices`), one
for whether it asks for a snapshot (`Changed`).

`UIRuntime` is the event loop over that link. A handler is one action; a snooze is
three, since the write is awaited: `HandleSnooze` proposes, `Write` or `WriteFails`
touches the file, `Acknowledge` commits. `Crash` loses everything but the file, at
any point.

`UINetwork` has, per server, the connection loop (`conn`), the tunnel supervisor
(`tun`) and the tunnel's process with what it may do by itself: print the marker,
close its outputs, leave a helper behind (in its process group or out of it),
exit. `NotificationDispatcher` has the queue and its worker; showing a notification
may take for ever, fail or panic. `UIProcess` composes both with the part of the
event loop that matters to them, `RequestShutdown` and every step of stopping. Its
refinement mapping `Link` shows that the network side implements `ServerLink`: what
`UIRuntime` assumes, `UIProcess` delivers.

`StateStore` is the state file: lock, load, change one section, save by rename, as
steps of two threads. `WindowGeometry` adds the window, the window manager
(external) and what is remembered of the placement; an observation may fail and
then changes nothing. Three history variables say what the user can expect,
independently of what the code remembers: `observed` (the window's normal bounds
have been seen since they last changed), `owed` (the window as the user left it, read
off the window itself) and `unsaved` (the last write of the placement failed).
`UIShell` adds the UI thread
from start to exit, restart and crash.

`UIProjection` is the UI thread's other half: applying published states, the flash
controller with its generations, the one-shot timers, and the list whose rows are
refreshed in place under an open popup.

`Setup` is the installation: every command of `setup.rs` as a sequence of file
operations (`pc`, `todo`), each of which may fail or be the last one before a kill,
beside a UI that imports and writes its state and a user who adds tokens. Copying a
token is three steps, as in the code: the check and the journal (`BeginCopy`), the
truncation (`OpenCopy`), the content. A file's content is abstracted to
where it came from, and the directory of the former program is read in any order
(`ReadDir`).

## Runs

| Run | Config | Shows |
|---|---|---|
| `core` | `MCCore.cfg` | `LogMatchesBoard`, `LinesAreTransitions`: the log file tells the story of the board, line by line; `NoSendOnClosedChannel`; `CloseTerminates` with two collectors and a file logger |
| `server` | `MCServer.cfg` | `NoMissedUpdate`: no update is missed by a subscriber; `NoConnectionEscapesShutdown`, `ConnectionsEnd`, `CloseTerminates` with peers that never read |
| `server_slow_peer` | `MCServerSlow.cfg` | `HealthyPeerCatchesUp`: a peer that stopped reading holds up nobody else |
| `startup` | `MCStartup.cfg` | `AllOrNothing`, `NewCoreReturns` |
| `systemd` | `MCSystemd.cfg` | `ResolvedOnlyAfterRecovery`, `CoreIsUpToDate`, `NamedUnitsAreReported`, `RecoveredUnitResolves`, `CloseTerminates` |
| `exec` | `MCExec.cfg` | `PollsAreTimely`, `CommandIsBounded`, `CloseTerminates` |
| `ui_runtime` | `MCUIRuntime.cfg` | `LiveIsDurable`, `ViewIsCurrent`, `RootCauseOnly`, `HeartbeatOfThisSocket`, `NoSilentAlert`, `OnlyServerResolves`, `SnoozesEnd` |
| `ui_process` | `MCUIProcess.cfg` | `LinkRefinement`: the network side implements `ServerLink`; `NoLeakedProcess`, `AcceptedInOrder`, `ShutdownCompletes` |
| `ui_shutdown_stuck` | `MCUIProcessStuck.cfg` | violation of `ShutdownCompletes`, see below |
| `ui_shell` | `MCUIShell.cfg` | `NoLostUpdate`, `PlacementComesBack` |
| `ui_projection` | `MCUIProjection.cfg` | `OneCadence`, `PopupKeepsItsIncident`, `AlertKeepsFlashing` |
| `ui_setup` | `MCSetup.cfg` | `AlwaysStartable`, `MigratedWhole`, `UserFilesSurvive`, `ReplacedIsBackedUp`, `LegacyStateKept` |

The runs keep to what could go wrong; every property of a passing run has a
mutant of the model that breaks it. `TypeOK` of `SystemdCollector`, `ExecCollector`,
`UIRuntime`, `UIProcess` and `Setup` documents the state and is in no run (add
`INVARIANT TypeOK` to the config to check it); the types of the server, of `UIShell`
and of `UIProjection` are proved.

`ui_shutdown_stuck` states what `runtime.rs:261` says: "Broadcast cancellation
observed by every server and tunnel generation." One generation does not observe
it. When a tunnel command closes both outputs before its readiness marker, the
select arm in `tunnel.rs:170` awaits the process and looks at nothing else; if the
process does not exit, shutdown waits for it for ever. `ui_process` assumes that
such a process exits (`TidySpec`), and then shutdown completes.

Four more behaviours differ from what a comment suggests. No run is devoted to
them:

* `core.go:167` says that a new subscriber may get "a redundant update". It may be
  an older one: an update queued between subscribing and reading the board is
  written after the newer snapshot. The next message repairs it, which is why
  `NoMissedUpdate` speaks of a subscriber to which nothing is on its way.
* "After is how long the unit must continuously remain in one of States"
  (`systemd/config.go:49`) is true of what the run goroutine has read
  (`ResolvedOnlyAfterRecovery`), but not of the unit: the select may take the
  expired timer before a queued update that ends the recovery.
* "PollInterval is how often to run the command" (`exec/config.go:21`): both tickers
  run all the time and hold one tick, so when the result changes between OK and
  not OK, the command may run again at once. `PollsAreTimely` is an upper bound.
* "Recursively copies config-adjacent files without replacing destination data"
  (`setup.rs:404`): `fs::copy` replaces. A token that appears between the check
  (`setup.rs:434`) and the copy is overwritten, and a rollback removes it.
  `UserFilesSurvive` says that no other file of the user is lost.

### Bounds

The capacities (16, 32 and 64 in the code) are 1, in `exec` 2: full and empty are
then one step apart, so every blocking send, drop and eviction happens within few
messages. The notification queue has 2, so that there is an order to keep.

* Server: `MaxUpdates` is 2, in `core` 3: one update on the board, one in a channel
  and one in the making, which is what a stale or missed update needs. The log file
  of `core` starts with an incident of an earlier run about one of the two keys. One
  connection is enough for the invariants, which speak of one connection and the
  server; `server_slow_peer` has two, one of which need not read, and starts when
  both have connected (`MCConnected`).
* `systemd`: one named unit, two rules of which the first shadows the second,
  `MaxEmits` 4 (fail, fail in another way or again, recover, fail). The unit is
  `down`, which has a policy, or `broken`, which has none, so that the policy of the
  first failure and that of a later one differ. `exec`: the
  intervals 5, 3 and 2 are pairwise coprime, so the tickers meet in every phase.
* `ui_runtime`: one server, direct or tunneled, with one item, one severity and one
  error text, channels of 1, `MaxTime` 1 with a snooze of 1. The snooze is on the
  connection's incident, so that the server's incident comes and goes beside it.
  What several servers could add is covered by the proofs, which are for any
  number of them; that a changed error text refreshes the card is not reached.
* `ui_process`: one server of every kind (direct, tunneled, with and without a
  readiness marker), `MaxNotices` 2, both of
  which the queue can hold.
* `ui_shell`: one snooze key, two rectangles, two preferences; both threads write.
* `ui_projection`: one icon that does not flash and two that do, lists that differ
  in length and in a key, 3 generations (they wrap around, as the counter does).
* `ui_setup`: two siblings (one copied, one not yet) that only their names tell apart
  (`Symmetry`; the run checks no liveness), eleven homes up to that (`MCHomes`),
  `MaxCommands` 2: a command that fails or is killed, and the one tried after it.

Deadlock is checked except in `server_slow_peer`, `ui_process`, `ui_shutdown_stuck`
and `ui_setup`: a server that is never closed rests once its updates are delivered,
a stopped UI does nothing more, and a user may issue no further command.

### Fairness

Goroutines, tasks and threads that can run do run: weak fairness for each of them,
never for what the outside decides. No fairness is assumed for collectors making
observations, for somebody calling Close, for peers connecting or leaving, for
systemd, for a command to exit, for the desktop's notification service, or for
the user. A peer reads only if it is in `Healthy`. Reads and writes on a closed
socket fail, so the loops of a closed connection are fair. `ServedSpec` of the
systemd collector asks the core to receive only until Close is called, so that
`CloseTerminates` does not lean on the core.

Strong fairness is used where a select chooses at random among what is ready, so
that a case that is ready again and again is taken: a collector's teardown, the
stop signal of a connection loop, and the tick of the UI's event loop. `SnoozesEnd`
also needs that a write of the expired snoozes, repeated after each failure,
succeeds in the end (strong fairness on `Write` for expiry); explicit snoozes need
no such thing. The tray's fairness is that the UI thread applies what is published
and that timers expire. A killed process dies; `TidySpec` adds the one assumption
named above.

## Proofs

TLAPS checks eight modules. Between them they state every invariant and action
property that a run checks. Each result holds for every value of the constants
that satisfies the named assumptions of the modules: capacities, intervals and
bounds that are numbers, and at least one where the code says so
(`StartupAssumption`, `SystemdAssumption`, `ExecAssumption`); values for "absent"
and "none" different from the real ones (`ItemAssumption`, `AbsentAssumption`,
`NoneAssumption`, `StoreAssumption`, `PlacementAssumption`, `TrayAssumption`); the
webserver not being a file logger (`ServerAssumption`); snooze keys that exist
(`RuntimeAssumption`); what `validateConfig` checks of the exec collector's times;
finitely many siblings of the configuration, and homes that hold files
(`HomesAssumption`).

An invariant that follows from the order of messages needs a statement about the
whole path a message takes, and that is where the inductive invariants differ from
the properties.

`ServerProofs`, about `MontrayServer`, for any number of collectors, messengers,
loggers and connections: `FeedItemsDeltaIsExact` (the deltas are exactly the
difference of the totals, for every tracker and update), `TypeCorrect`,
`BoardIsCurrent`, `NewestMessageIsBoard` and `SubscribersAreCurrent` (no update can
be missed), `CloseIsOrdered` (no send on a closed channel), `ShutdownIsComplete` (no
connection escapes), `NotificationsAreExact`. The inductive invariant `IInv` has
five parts besides the types. `RunInv` ties tracker, pending notification and board
to the step of `run`. `CloseInv` says who has stopped at each step of Close.
`ConnInv` is the life of a connection: registered, removed by one caller, closed by
it. `WebCloseInv` says that admission is closed before the connections to close are
listed. `DeliveryInv` adds to `NewestIsBoard` that the last element of the
messenger's channel is the board, also when nobody is subscribed: without it, a
subscriber that registers while an old element is the last in the channel would
break `NewestIsBoard`. `LogFollowsBoard` and `LinesTellTransitions`, for any old
content of the files, rest on `LogInv`: the notifications in a logger's channel form
a chain (`Chain`) that starts at what the lines of this run leave open (`OwnLines`),
each one following from the total of the one before, and ends at the
tracker. The chain survives dropped notifications, because dropping starts only
with shutdown and drops everything that comes after.

`StartupProofs`: `NewCoreIsAllOrNothing`. `StartInv` says how far each of the four
loops has come (created so far, undone so far, in order), and that a collector
ends only once its Close has been called.

`SystemdProofs`, for any units, rules, policies and capacities:
`RecoveryPrecedesResolution`, `CoreFollowsCollector`, `NamedUnitsAppear`. `PolicyInv`
says that the collector holds the policy of the condition that opened an incident,
whatever failures followed it. `TimerInv`
says of a pending timer that the time its unit has been recovered and the time left
make up `resolve.after`, and of every callback that has started and every message in
`readyCh` that its generation is not from the future and, if it is that of the
pending timer, that this one has run out: a cancelled timer that fires late
resolves nothing. `OpenInv` follows one unit
through the channel: the newest item on its way (`Newest`), or the one the core
has, says what the collector's maps say (`Says`), and the last thing said of a unit
is the last thing the provider emitted or still waits in its channel
(`LastMention`).

`ExecProofs`, for any intervals, timeout and conditions: `ChecksAreRepeated`,
`RunCommandEndsInTime`. `ExecInv` counts ticks: the rest of the deadline and the time
since the start make up the timeout, and a ticker that holds no tick will have one
within its interval of the start.

`UIProcessProofs`, for any number of servers: `ProcessesAreOwned`,
`NothingIsLeftBehind` and `NetworkRefinesLink`. `NetInv` says, per server, which states
of the connection loop, the stop signal and the process go with each state of the
supervisor; `AllDone` says that the event loop leaves only after every task. The
refinement has one lemma per action (`...Refines`): the step is a step of
`ServerLink` or a stutter. `NotificationsInOrder` rests on `NoticeInv`: delivered, in
the worker's hands and queued are consecutive numbers.

`UIRuntimeProofs`, for any number of servers, items and snooze keys:
`IncidentsAreConsistent` (root cause only, current means connected),
`SnoozesAreDurable`, `ServersResolveTheirIncidents`, `ShownIsCurrent`, `AlertsAreTold`,
`HeartbeatsAreOfThisSocket`. The properties are about the reducer's state, but hold
because of the order of what is still queued. `TunnelPhase` and `SocketPhase` follow
the state through the queue to the link: if the reducer believes the socket to be
up, and every queued event is applied, it believes what the link says. Without
them, a `Disconnected` with an error could come after a `TunnelFailed`.
`HeartbeatInv` says the same of heartbeats: every heartbeat, queued or held, is of
the socket that the next queued `Connected` replaces, or of the last one if there is
none. `TellInv` adds to `NoSilentAlert` what a proposal under way will drop.
`ShownIsCurrent` is inductive with the loop invariant, since a handler that does not
ask for a snapshot changes nothing a snapshot shows.

`UIShellProofs`: `ShellSafety` (types, `NoLostUpdate`, `PlacementComesBack`),
`WindowComesBack`, `NewerFieldsSurvive`, `NormalBoundsOnly`. `StoreInv` says that a
thread with a loaded copy holds the lock and that its copy is the file; `PlaceInv`
ties what is remembered, pending and owed to the window, and `KnownBounds`, its heart,
says that bounds the code has observed are those in memory, except while they are
being restored. `NormalBoundsOnly` needs `NoFull`, which speaks of the bounds that the
window will return to as well as of those remembered. About what is shown:
`ProjectionSafety` (types, `OneCadence`, `TrayShowsState`, `PopupKeepsItsIncident`) and
`PopupStaysWithItsRow`.

`SetupProofs`, for any set of siblings and any homes: `MigrationIsWhole`,
`LegacyCopyIsKept`, `OwnFilesSurvive`, `BackupPrecedesReplacement`, `SomethingStarts`.
`WholeInv` says that what is not whole is still to be copied, or is in the journal
and still to be rolled back; `JournalInv` that the journal names only what this
attempt wrote or is about to, so that a rollback removes nothing that was there
when the attempt looked; `InstallInv` what
is complete before the former integration goes. The lemma `Writes` says which files
each step can write and what it writes there, and the action properties follow
from it.

Only model-checked: everything under fairness (`CloseTerminates`, `ConnectionsEnd`,
`HealthyPeerCatchesUp`, `RecoveredUnitResolves`, `NewCoreReturns`, `SnoozesEnd`,
`ShutdownCompletes`, `AlertKeepsFlashing`), which the prover cannot handle. Nor does
it handle ENABLED, so `ExecCollector`, where time passes only while run has nothing
to do, spells out when that is (`Busy`). Where a proof needs the first or the last
of several events, it comes from the least element of a set of numbers, not from
an induction over the queue.

## Not modelled

* Server: write errors of the log file (the code ignores them) and its wording; an
  incident that an earlier run left open in the file and this one never sees, whose
  end nothing writes;
  the heartbeat as a message, which carries no state (a failing one is `TxFail`);
  the status endpoint, which reads the board once; the second clock reading in
  `FeedItems`; authentication, TLS, the command line, setup and logging.
* Byte buffers: `firstLineWriter`, `ProbeMatcher`, `TailBuffer`, the texts made from
  them. Decoding of messages is abstracted to what it yields.
* UI: drawing, texts, native failures of showing and hiding the window, icon
  composition, reading of bearer tokens, the configuration file and the command
  line; a click that is dropped because the commands channel is full
  (`app.rs:623`); the restart of the process, between whose check of the
  configuration (`app.rs:470`) and reading it the file may change; reuse of process
  numbers between the reaping of a tunnel and the signal to its group
  (`tunnel.rs:349`).
* `hide` and `save` also capture the placement while a restoration is pending
  (`window_geometry.rs:67`): hiding a window before it was first drawn forgets that it
  was maximized, and may remember rough bounds. `BoundsStayNormal` excepts these
  captures and `PlacementComesBack` promises nothing after them. Nor does it for a
  window that is moved and then maximized or made fullscreen before the new bounds
  are observed: they are lost.
* Off Unix a tunnel's process group is not killed (`tunnel.rs:364`); `NoLeakedProcess`
  is about Unix.
* `NoSilentAlert` says that a notice is requested. The notification queue may still
  drop it when it is full.
* Setup: the native and the web-based variant of a former file are one; a backup
  is one step; the default configuration path only; `dry_run`, which changes
  nothing. The user edits a configuration only between commands, writes desktop
  files only before the first; a UI does not start in the middle of a command.
  `MigratedWhole` excepts a kill between installing the configuration and copying
  its siblings, and a rollback that fails: a retry then returns at `setup.rs:371`. A
  retry after the former desktop entries are gone no longer finds the former
  executables (`setup.rs:340`), and one without former integration is content with
  one new desktop file (`setup.rs:298`); no property speaks of these.
* The older UI: `wsclient/` (websocket client, combiner, tunnel) and
  `montray-ui-legacy/`. The Rust UI replaces it and is modelled instead.

## Plan

1. Abstraction: a contract that says what `core.go` needs of a collector,
   implemented by `SystemdCollector` and `ExecCollector`.
2. Proofs: that `NewestMessageIsBoard` and `LogFollowsBoard` are instances of one
   statement about a channel whose elements form a chain.
3. The output buffers as functions of the stream, independent of how it is cut
   into writes; the server's migration; `wsclient`.
