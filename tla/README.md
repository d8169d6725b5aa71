# TLA+ models of Contiwatch

Contiwatch watches the containers of several Docker hosts: it scans them for
newer images, updates them by policy or on demand, and manages compose stacks.
One binary runs as *controller* (web interface, scheduler, list of servers) or,
with `agentMode`, as *agent* on another host; the controller talks to agents
over HTTP. All state is in one process per host, guarded by a handful of
mutexes and atomics of `server.Server`, plus a few JSON files. The browser runs
one script (`web/static/app.js`) that keeps a good deal of state of its own:
several requests, streams, intervals and countdowns are under way at a time, and
each of their callbacks meets a page that has moved on.

This directory holds the models of the concurrent core of the server and of the
parts of the page that keep state, the TLC runs that check them, and the TLAPS
proofs of the properties that matter most. `PROJECT.json`
maps every definition to the lines it models.

## 1. Inventory

| Component | State | Operations | Hard behaviours | What makes it correct |
|---|---|---|---|---|
| Scan controller (`server.go`) | `scanRunning`, `updateRunning`, `remoteScanRunning`, `scanCancel`, scan states, stored results | `POST /api/scan`, `/api/scan/stop`, `/api/update`, scheduled scan | goroutines of several requests share flags under `scanMutex`, but read, decide and clean up in separate critical sections; calls that take minutes between them | exclusion of scan and update, exact counter, stop reaches the scan while it works, states settle, scans end |
| Scheduler (`scheduler.go`) | loop with its context, next run, mode | `StartScheduler`, `UpdateScheduler`, `StopScheduler` | a replaced loop lives on until its scan ends | one live loop; what is shown is what will happen |
| Server info cache (`server_info.go`, `status_refresh.go`) | map of entries, pending marks, bounded channel | refresh, re-check, workers, configuration edits | copy-modify-replace of the map, entry held over a network call, non-blocking send to a full channel, slices shared between snapshots | one check per agent, no lost check, no stuck state |
| Stack jobs (`stack_jobs.go`, `stacks.go`) | job tables of controller and agent, deadlines | start, status, extend, remote start and polling, fallback for old agents | two processes, two deadlines, lost and late calls, restarts, timers racing with the end | at most one execution, truthful status, files kept, deadlines move together, jobs end |
| Stack storage (`stack_storage.go`) | two files per stack | save, load, list, delete | saving two files while an action reads them | an action sees a pair that was saved together |
| Configuration store (`config.go`) | configuration in memory and on disk | load with migrations, update, save | save fails after the change in memory | memory and disk agree |
| PIN guard (`pin_guard.go`) | sessions, tickets, attempts per client | verify, logout, ticket, consume, prune | expiry against use, limits, long legal sequences | a ticket works once and only for its session; limits hold |
| Container watcher (`watcher.go`), container actions and images (`containers.go`, `images.go`) | the Docker engine's containers and images | scan, pull, recreate, verify; start, stop, pause, kill, remove; pull, prune and remove images | remove-then-create without rollback, lost answers, cancellation between, tags that move, users who act meanwhile | no container is lost silently, the image reported is the one applied, the state is restored |
| Self update (`main.go`, `watcher.go`) | helper container, scan state file | trigger, recreate, patch, confirm | a helper and the new agent use the same file | the controller sees the confirmation |
| Scan state file (`server.go`) | JSON snapshot | save from several goroutines, load | older snapshot over newer | last state survives |
| Event stream (`server_info.go`) | subscriptions with bounded buffers | subscribe, broadcast, close | order of events, drops, close while sending | no send on a closed channel, last event tells the state |
| Release check (`release_check.go`) | cached release, ETag, error | refresh, read | two refreshers | no newer answer replaced by an older one |
| Logs, shell, resources, networks, volumes | streams, a short cache, engine objects | list, stream, remove | stream limit, socket pairs, end of a session | bounds hold, both ends close |
| Panels and PIN page (`app.js`) | selected container, connection attempt and socket per panel, text shown and held back, PIN session, lock | open shell or logs, switch panel and view, pause; lock, unlock, logout | tickets and messages of a socket that is no longer wanted; a 401 at any time | one socket, of the selected container; nothing connected behind the lock |
| Lists (`app.js`) | selected server, mode, rows, refreshes under way, confirmations, dialogs | refresh, select, switch, arm and confirm, actions, pull, network dialogs | answers for another server or dialog, aborts, a list of servers that changes | rows and buttons of the selected server; dialogs that tell the truth |
| Status page (`app.js`) | states shown, early guesses, polling, request under way, self-update marks | scan all or selected, stop, update, poll, events | late, lost and stale answers; scans of others | activity is polled, the end is told once, the page comes to rest |
| Stack editor (`app.js`) | fields, baseline, flags that lock the dialog, job being polled, warning, override of the row | open, load, edit, delete `.env`, save, act, poll, extend, close | failures between load, validation, save, refresh and job; selection that moves | no edit lost without a word, actions run what was saved, nothing stays locked |
| Servers, settings, toasts, resources, compose editor (`app.js`, `cm6-compose.js`), theme | forms and drawing | one request each | | |

How they interact: HTTP handlers and the scheduler start goroutines in the scan
controller, which reads the server info cache to skip unreachable agents, the
configuration store for servers, policies and maintenance, and the watcher for
containers. A change of the configuration is saved, then applied to the
scheduler and the cache. The stack jobs read the configuration and the stack
storage, and call the same program on an agent. The page calls the handlers and
listens to the event stream; its parts share the selected server, the mode and
view, the list of servers and the PIN session.

## 2. What is modelled

Five components of the server and four of the page, one module each, with an
`MC` module for TLC, and their proofs for TLAPS in eight `Proofs` modules: one for
each of the five, one each for `WebStreams`, `WebLists` (with `ScopedRefresh`) and
`WebStacks`; those of `WebScan` are in `ServerInfoProofs`, whose module has no name in
common with it (`PageInit`, `PageNext`, `PageTypeOK`). Two abstract specifications stand
beside them: `ScopedRefresh`, what a list of the page promises, and `JobLifecycle`,
what the manager of stack jobs promises. The components share no variables: each sees what it
reads of the others (maintenance, reachability, stored files, the selected
server) as state of its own that the environment changes.

### ScanControl

A *process* is a goroutine: a `POST /api/scan` request (`Manual`), an
incarnation of the scheduler loop (`Sched`) or an update request (`Updates`). Its
program counter names the point between two critical sections or calls at which
it can be interrupted. The shared variables carry the names of the fields of
`Server`. An action is one critical section, or what happens when a call to an
engine or an agent returns; the answer of the call is a choice (error, result
with an error, nothing to do, something to update).

- `ScanRequest`, `RegisterCancel`, `MarkTargets`, `AcquireScan`,
  `ScanInProgress`, `Cleanup`: the prologue and the deferred cleanup of
  `handleScan`, in the order in which the code changes what others see.
- `Local*`, `StoreResults`, `ReleaseScan`: `runScan` and `scanLocalServer`.
- `Remote*`, `ManualBatchEnd`: `triggerRemoteScans` and the goroutine around it.
- `One*`: scope `remote:<name>`, which takes no slot.
- `StopRequest`, `StopCancels`: `handleScanStop` reads, then acts.
- `ScheduledScan` and the loop actions: `scheduler.go`.
- `ToggleMaintenance`, `ToggleOnline`: the configuration and the reachability
  cache as the scan sees them.

Abstractions: servers are scanned in any order (the code goes by the order of the
configuration); a stored result is absent, good or an error, and `"none"` also
stands for the placeholder of a server in maintenance that was never scanned;
the answer of an agent (`Answers`) is either of the last two: its status is 200 also
when the scan went wrong over there, and the controller stores the result with its
error and shows the server as done;
one stop request is in its two steps at a time; what the watcher finds and does
is a choice; notifications and logs are left out.

### ServerInfo

Handlers (`Handlers`) refresh or re-check; workers (`Workers`) take checks from
`queue`. `view` is the configuration a handler holds: since the snapshots share
the array of servers with the store, `EditServer` changes the views of others
too, until an `append` or a removal makes a new array (`detached`). `prev` and
`next` are the copy of the map a refresh starts from and the map it puts back;
`wentry` the entry a worker holds over the call. Local servers, whose entries
every refresh computes anew, and the version fields of an entry are left out.

### StackJobs and JobLifecycle

A job of the controller starts at most one job of the agent, so one name serves
for both. `pc` follows the goroutine of the controller's job, `apc` that of the
agent's, `net` is the start request with its answer, `compose` and `runs` are
the docker compose command itself, wherever it runs. Deadlines count down in
ticks; `Tick` waits for what is due. Every call may be lost on the way or on the
way back; the answer to a poll is read from the agent's state, or the poll fails
and is repeated, which changes nothing. A job of either side may be forgotten
after the retention; either side may restart, which kills its commands and
loses its jobs.

`JobLifecycle` is what a `stackJobManager` promises to whoever asks for a job: it runs
alone on its stack, ends once, its status never changes afterwards except that
it is forgotten, and it ends well only after its command, which is started once,
has ended well. Controller and agent have such a manager each; `StackJobs` is shown
to implement the specification twice, for the status the controller keeps
and for the one of the agent, over the same commands (`JobsAreManaged`).
A start that finds the stack busy answers 409 and has pruned the table by then
(`StartConflict`, `AgentRefuses`).

Abstractions: `redeploy` (pull, then up under one deadline) is one command; one
agent; the action is `rm` or not; extensions are a number of ticks; calls by
controllers older than the job API are left out, calls *to* older agents are
modelled (`task[j].old`).

### ContainerUpdate

`updateContainer` with `recreateContainer`, one action per call to the Docker
engine, which is external: a call fails, takes effect, or takes effect while the
caller sees an error (its context was cancelled, the connection broke). `todo`
holds the targets of `autoUpdateLocal` or the container of one `/api/update`
request; only one of them works at a time, which is `OperationExclusion` of
`ScanControl`. A container is known by its name and a generation, which stands
for its ID. All containers follow one tag; `pinned` marks a container that the
retry has created from an image ID. The actions of the containers view
(`ContainerAction`, `RemoveContainer`), of the images view (`ImagesPull`,
`ImagesPrune`, `ImagesRemove`), compose and the registry (`ComposeUp`, `Push`)
take no lock and happen between any two calls.

Abstractions: the copy of networks, mounts and the rest of a container's
configuration is left out; a container that exits counts as stopped; the branch
of `scanContainer` that updates is never taken, since every caller passes
`scanOnly`.

### Sessions

The PIN sessions of a controller, the WebSocket tickets and the streams that live
on them. `table`, `lastSeen` and `closed` are `pinSessions` with their `Done`
channels; `ticket`, `owner` and `expires` are `pinWebSocketTickets`. Every
operation under `pinMu` is one action and prunes first where the code does
(`Kept`, `ClosedByPruning`, `Pruned`); issuing a ticket is two critical sections
and so two actions (`TicketAsked`, `TicketIssued`). `pc` follows the handler of a
stream: `Reserve`, `Upgrade`, `Protect`, `OpenSource`, `HandlerEnds`,
`HandlerReturns`, with the early returns `TooManyStreams`, `Rejected` and
`OpenFails`. `watch` and `rwatch` are the goroutines of `protectContainerStream`
for the client's and the agent's connection, `up` and `down` the two directions of
`handleLocalContainerLogs`, `handleLocalContainerShell` and `proxyWebSockets`.

Abstractions: only a controller with the PIN enabled, since without it and on
agents a stream belongs to no session; whether a PIN is right is a choice and the
attempt limiter is left out; of a message only that reading or writing it fails;
a lost connection, a missed pong and a client that leaves are one action
(`ClientCloses`); of the event stream only when its handler ends. The cancelled
context of a log reader, the closed exec and the closed connection to an agent are
the same thing: `source` is closed.

### WebStreams

The shell and log panels and the PIN guard of the page. `selected`, `attempt` and
`socket` are, per panel, the selected container, `connectionAttempt` and the
current WebSocket; `session` follows each session from its ticket to its close.
A socket that the page closes or replaces is *closing* (`Closed`) until its close
event, and perhaps an error event before it, arrives (`SocketClosed`), however late; the
comparison with the current socket at the top of every listener is `Heard`.
The actions are the clicks (`openContainersShell`, `openContainersLogs`,
`setContainersViewMode`, `setContainersLogsPaused`), the answers (`TicketGranted`,
`TicketDenied`, `TicketFails`, `SocketOpen`, `SocketMessage`, `SocketClosed`,
`renderContainers`), and the PIN: `bootstrapPinGuard`, `submitPinGuard`,
`lockPinGuardSession`, and `fetchJSON` whose 401 locks the page (`Denied`). The
server side of PIN sessions is reduced to which ones are valid; `Sessions` has
it in full.

Abstractions: of a text only whose container it came from; of all requests one
(`Calls`) that may be denied; the counter of attempts is the session that made
its present value.

### WebLists and ScopedRefresh

`ScopedRefresh` is the abstract specification: one list, its request, the server
its rows came from, and what `runScopedRefresh` promises (`Settled`). `WebLists`
has the five lists with all that touches them: the mode and view buttons, each
with its own clearing, aborting and restarting, the intervals, the list of
servers from which the selected one may vanish, the experimental features that
hide modes, the confirmations that a second click needs, the actions with the
refresh that follows them, the pull dialog with its countdown and the network
dialogs. Every list is shown to implement `ScopedRefresh` (`ListsAreScoped`,
five instances with `request <- flight[k]`, `from <- rows[k].from`).

Abstractions: of a list only its server, the server its buttons act on and
whether a certain item is in it; at most one action is under way; rows are not
sorted or filtered; the answers of the resources view are not kept.

### WebScan

The status page. `srv` and `batch` are the server as far as the page can see it
(who is being scanned, by whom is open); `last`, `overrides`, `scanActive`, `timer`,
`scanCompletionPending` are what the page keeps. `applyStatusResults` is the whole
of what an answer, an event or a snapshot of the stream does. An event carries the
result and the state a server has when it is sent: after a scan
(`updateLastScans`) or once more by a refresh of the status (`refreshRemoteStatusCache`).
A scan is refused beside another scan or an update, for a server in maintenance and
for one that is not configured (`ScanRefused`). `due` is a history variable: the full
scan of which the page owes a message, asked for or accepted, until it is told,
fails, is stopped or aborted. The handler of the
scan button is `ScanAll` or `ScanSelected`, `ScanAnswered` (which goes on to the
next selected server), `ScanFails`, `StopScan`, `ScanStopped` and `HandlerEnds` for its
`finally`; a request that was aborted may still reach the server
(`OrphanAccepted`). Updates of containers and the loop that follows a self update
are `UpdateContainer` to `FollowTick`.

Abstractions: pending, scanning and updating are one state, done, error and
cancelled another; beyond `Calls` requests at a time a further one counts as
lost; whether a self update is over is a choice of each answer.

### WebStacks

The stack editor, the job its buttons start and a second one started from the
row. `phase` is where `saveStackFromModal` or the loading stands, `then` what follows
the save, `saved` the baseline (`stackModalSavedValues`), `home` the server known to
have it, `operation` the flag of a running action; `wait`, `failures` and `slow` follow
`waitForStackJob` and its warning. `override` is the entry of `stackStatusOverrides`
and `row` what is drawn of it. The badge shows the action as long as there is an
entry, a completed one too; an entry goes when the list is drawn after
its time is over (five minutes, or a few seconds once completed) or with another
status of the stack (`maybeClearStackStatusOverride`, where both are a choice); a failed
action deletes its entry without drawing the row (`ActionFailed`), which shows the
action until the list is drawn again. A refresh of the list (`refreshStacks`) draws
the rows, empties the table or leaves it alone. The text is normalised before it is saved
(`Clean`), a text of blanks is turned down, and `saveStackFiles` may fail between
its two files (`PartlyStored`). The job itself only runs, ends or is forgotten;
`StackJobs` has it in full.

Abstractions: one stack; an `.env` has one text or none; the row starts its next
action when its last job is over; a list is read when it is drawn, so that an answer overtaken by another is left to `WebLists`.

## 3. Runs

Every run finishes within five minutes on two cores, most within two. The type
invariants and `SucceededMeansRan` are theorems (section 4) that no run repeats; the
latter is a part of what `JobsAreManaged` says.

| Run | Instance | Checks |
|---|---|---|
| `scan_single` | one request, two local and two remote servers | `SettledStates`, `ScanTerminates`, `ScanAdvances` |
| `scan_scheduled` | one request, one scheduler loop, one update, one change | `OperationExclusion`, `RemoteCounterExact`, `StopReachesWork` |
| `scan_stop_two_clients` | two requests | finding: `BatchPartsStoppable` fails |
| `server_info` | one handler, one worker, two agents, two addresses, a channel of one, one change of the configuration; `PendingCorrect` proves the invariant for any number of handlers and workers | `PendingExact`, `PendingServed` |
| `stack_jobs_two` | two jobs for one stack of an agent, old or new, one restart, no grace | `AtMostOnce`, `FilesKept`, `JobsAreManaged` |
| `stack_jobs_extend` | one job, local or remote, two extensions, one restart | `NoTimerLeftBehind`, `DeadlineSkew`, `JobsFinish` |
| `container_update` | one container, two updates, three images, two interferences | `LossReported`, `AppliedIsPulled`, `StateRestored`, `UpdateAdvances`, `UpdatesTerminate` |
| `sessions` | one session, one ticket, two streams with a limit of one, three instants | `StreamCountExact`, `TicketOnce`, `SessionChannels`, `NoStreamMissed`, `StreamsEnd` |
| `web_streams` | two containers, two sessions of panels, two PIN sessions, one request | `NoSocketLeftBehind`, `SocketOfSelection`, `TextOfSelection`, `LockedQuiet` |
| `web_lists` | two servers that come and go, two networks, the table and one other mode at a time | `SettledRows`, `TargetsListed`, `DialogsTrue`, `ListsAreScoped` |
| `web_scan` | one server, one scan beside one that may be running, one update, two requests for the status that overtake each other | `ShownActivityPolled`, `NoScanDuringUpdate`, `FinishTold`, `StatusSettles` |
| `web_stacks` | two servers without stacks, a text with its untrimmed form and one of blanks, one move of the selection, two failed polls | `CleanMeansSaved`, `ActionRunsSaved`, `LeftoversExpire`, `DialogFreed` |

Why the bounds are enough. The interesting cases need two goroutines that
contend and one that disturbs: a request, a loop and an update for the slot, a
request and a loop for the counter, a handler and a worker around a channel
that is full with one element, two jobs for one stack, two extensions that
overlap, an update and two interferences (another image is pushed and pulled
between the two looks at the tag). A second server of each kind is needed only where the loop over servers
matters (`scan_single`: a server left over when the scan is stopped). Changes of
the configuration and restarts are bounded by `MaxConfigEdits`, `MaxEdits` and
`MaxRestarts`, what happens on a Docker host by `MaxUses`; one is enough to fall between any two steps. In `StackJobs` the
durations are the smallest at which the orders of the deadlines differ; with two
jobs the grace is zero, the case in which the controller gives up as early as it
can while the agent goes on. The proofs below hold for all
values, so they also cover what the bounds leave out. `StackJobs` runs do not
check for deadlock: every request is used once, and when all have ended the
system stands still; the same holds of `ContainerUpdate` when its updates and
interferences are used up, and of `Sessions` when its tokens, tickets, streams and
`MaxTime` are. In `Sessions` two streams are one more than the limit, each of any
of the four kinds, and three instants are enough for a ticket to expire and for a
session to be idle too long or to be renewed in time.

On the page the hard cases need one thing under way and one that replaces it: a
container and the next, a server and the next, a network and the next, a PIN
session and the next. `Menus` of `WebLists` (one mode beside the table) keeps the
five lists from multiplying: a mode is left for the table, for another view or
because it is hidden, while a direct switch between two of the other modes, which
is the same handler, is left out. `AutoClose` is one tick: a countdown
that runs and one that is over. In `WebScan` two requests for the status may be
late, stale or lost and overtake each other, beside an event and the snapshot of a
new stream; the loop over several selected servers, which takes a second server,
was checked without liveness and with one request only, and is part of the proofs.
`WebStacks` bounds the moves of the selection (`MaxMoves`), what the
servers have at first (`Found`) and whose job may come near its deadline
(`Slow`: the editor's; the row's code is the same). Failed polls are forgiven
once here and nine times in the code: the proofs hold for any number. No run of
the page checks for deadlock: a page at rest may stay so.

Symmetry is used for requests, jobs, containers, sockets and PIN sessions in runs
without temporal properties, and in `web_lists`, whose property is a refinement
without fairness that treats all servers and networks alike.

Fairness.

- `ScanControl`: every goroutine that can run runs, and calls to an engine or an
  agent return. Remote calls have timeouts; a local scan has none, so for it the
  assumption is that the local engine answers.
- `ServerInfo`: handlers and workers run; the call to an agent has a timeout of
  5 s.
- `StackJobs`: the controller's goroutines run, time passes, timers that are due
  fire, and a command whose context is done ends (`exec.CommandContext` kills
  it). Nothing is assumed of the network, of the agent's answers, or of a command
  that ends by itself.
- `ContainerUpdate`: the goroutine of the update runs, and calls to the engine
  return, with whatever result.
- `Sessions`: the goroutines of a stream run, calls to the engine return, a dial has
  a timeout of 30 s and a write that stalls fails after 30 s. That a write to a
  closed connection is ever tried is not assumed (the other side may be silent),
  nor that sessions expire, clients leave or sources end.
- `WebScan`: intervals and timeouts fire, the server accepts or refuses, and ends what
  it scans (`ScanTerminates` of `ScanControl`), requests are answered or fail, and of
  the status requests that are repeated again and again one gets through. Clicks
  are not assumed, nor that an aborted request reaches the server.
- `WebStacks`: a request of the dialog is answered or fails (the browser gives up a
  dead connection), and a job ends, by its deadline if not before (`JobsFinish`
  of `StackJobs`). The row's actions, edits and clicks are not assumed.
- `WebStreams` and `WebLists` have safety properties only.

## 4. Proofs

TLAPS checks these theorems for every value of the constants (any number of
requests, servers, workers, jobs; any durations). The assumptions on the
constants are the `ScanConstants` of `ScanControl`, `InfoConstants`, `InfoMarks`, `StackConstants`,
`UpdateConstants`, `GoneIsNoContainer`, `SessionConstants`, `StreamConstants`, `ListConstants`,
`MenusAssumption`, the `ScanConstants` of `WebScan` and the `StackConstants` of `WebStacks`:
kinds of processes are disjoint, marks like `None` are not values, finitely many
goroutines, servers and containers, durations are numbers.

- **ScanControlProofs**: `TypeCorrect`, `ExclusionCorrect`, `CounterCorrect`,
  `AdvanceCorrect`, `HandleReleased`, `StopReachesTurns`, `SettledWhenCalm`. The
  invariant is `TypeOK /\ PcKinds /\ ScopeKinds /\ OperationExclusion /\
  RemoteCounterExact`. The three properties need each other and two facts about
  program counters: the counter goes down only where a goroutine is counted;
  whoever holds the slot is of the kind that releases it. Every action is first
  shown to be one of seven *control steps* (take or give the slot of a scan or an
  update, enter or leave the count, neither), and the invariant is shown for
  those.
  `HandleReleased` needs no hypothesis: whatever clients do to each other's cancel
  function, the one in `scanCancel` is of a request that has not cleaned up yet
  (`HandleInv`). `StopReachesTurns` and `SettledWhenCalm` state `StopReachesWork` and
  `SettledStates` with the hypothesis without which the code breaks them. The first
  assumes that manual requests come one after the other (`OneAtATime`, of behaviours;
  `scan_stop_two_clients` is the counterexample with two at a time), beside any
  schedulers, updates and edits: `scanCancel` is the client's from
  registration to cleanup (`OwnInv`), and slot and counter, exact by the theorems above,
  make `handleScanStop` act on it. The second assumes that no scan is refused
  and no server changes its maintenance (`Calm`, of steps: either leaves a server pending
  that nobody scans); clients, schedulers, updates, reachability and servers are any.
  (In `scan_single`, with one client and no change of the configuration, every step is calm.)
  `SettledInv` says that a server shown as active is one that somebody is
  busy with or has not come to yet (`Cares`), and that one shown as done has a result that is
  stored, or that somebody has collected and is going to store (`Vouches`, `CollectedOK`);
  `PlaceOK` says which servers a scan can be about at each place.
  `AdvanceCorrect` is the safety half of `ScanTerminates`, for any number of servers: `StepsLeft`
  bounds the steps a goroutine has before it (four for every remote server on its
  list, three for every local one), each of its own steps lowers that number
  (`StepCountsDown`, which needs that only a batch goes through the loop of `runScan`, part of
  `ScopeKinds`), and no step of another goroutine (`OthersUndisturbed`) or of the world
  (`WorldUndisturbing`) raises it. What is left to fairness is that the next step is taken.
- **ServerInfoProofs**: `InfoTypeCorrect`, `PendingCorrect`. The invariant is
  `TypeOK /\ TodoConfigured /\ InHand /\ PendingExact`; the check is a token that
  is reserved, sent or dropped, received, started and finished.
  For the status page: `PageTypeCorrect`, `ActivityIsPolled`, `ScanOrUpdate`, `FinishIsTold`. `FinishTold` needs to
  know on whose behalf a message is promised: the full scan that `due` stands for,
  under way or accepted (`PromiseInv`), so that a stop, an abort or a failure, which end `due`,
  end the promise too; the type needs that no more scans are told of, or promised,
  than were asked for (`BudgetInv`);
  `NoScanDuringUpdate` that request, flags and button agree (`RequestInv`).
- **StackJobsProofs**: `StackTypeCorrect`, `SuccessCorrect`, `AtMostOnceCorrect`,
  `FilesCorrect`, `TimersCorrect`, `SkewCorrect`, `JobsManaged`. The invariant of a job says that
  nothing was run for a request nobody has served (`Unserved`), that what runs
  runs in one place (`Placed`), that every variable that carries a verdict says
  what the command did (`Truthful`) and that a timer is off once its job is being
  finished (`Timers`). `DeadlineSkew` needs in addition what is left of the
  controller's deadline while the start request is under way (`SkewInv`).
  The last one is the refinement of `JobLifecycle`, one theorem for each side
  (`ControllerRefines`, `AgentRefines`): initial states map to initial states,
  and every step of either side, of the network, of the clock and of a command is
  a step of the manager or leaves its table alone (`ControllerManages`, `AgentManages`), while
  commands only go forward (`CommandLater`) and a job keeps its stack (`TaskStays`). Both
  need that a goroutine that has not ended works for a job shown as running (`Alive`),
  or its end would not be the end of a job.
- **ContainerUpdateProofs**: `UpdateTypeCorrect`, `LossCorrect`, `AppliedCorrect`,
  `RestoredCorrect`, `UpdateAdvanceCorrect`. The first three properties speak of updates that have ended; the
  invariant adds what holds while one is in hand: generations only grow, so the
  container a result speaks of is never confused with its successor
  (`Generations`); a container missing between two calls was removed by the user,
  except between our own removal and creation (`OursOrRemoved`); what was decided
  after the pull stays decided over both recreations (`Decided`); and the image
  and state of the new container until the result is written (`Made`).
  `UpdateAdvanceCorrect` is the safety half of `UpdatesTerminate`: `CallsLeft` bounds the steps left
  to the targets on the list (finitely many, `TargetsFinite`), each call lowers it
  (`CallCountsDown`; a second recreation is paid for by the flag `retry` that it sets, so a
  tag that keeps moving cannot keep the update going), and nothing that happens on
  the host raises it (`MeanwhileKeeps`).
- **SessionsProofs**: `SessionTypeCorrect`, `CountCorrect`, `TicketCorrect`,
  `ChannelsCorrect`, `MissedCorrect`. Types and counter are proved together: the
  counter does not fall below zero because it counts the handlers that hold a
  stream, which need the type to be counted. `TicketOnce` needs that a ticket that
  has not been used up has admitted nobody (`Unused`); `NoStreamMissed` that a
  stream belongs to a session that was given out (`Bound`) and that a protected
  connection is closed or has a guard that waits for that session's channel or for
  a closed one (`Guarded`), which with `SessionChannels` gives the property.

- **WebStacksProofs**: `StackEditorTypeCorrect`, `StackEditorCleanCorrect`,
  `StackActionSavedCorrect`, `StackShownCorrect`. `CleanMeansSaved` compares text and
  files only in an editor at rest; behind it stands `Baseline`: what the editor
  believes to be saved reads as what its server has, unless a removal took the
  files or a failed save made it uncertain. It needs that a missing `.env` has no
  text (`FilesRead`) and that a request has its server (`Requested`). `ActionRunsSaved`
  adds that a save that has succeeded leaves nothing changed until the list is
  refreshed (`SaveInv`) and that the dialog stays locked while its action lasts
  (`WaitInv`); `LeftoversExpire` that an override on the long clock has an action that is
  asked for or polled, and that a warning goes with the polling (`ShownInv`); drawing the
  list keeps an entry or ends it, never puts it back on that clock, and shows the one
  it keeps (`Redraws`).
- **WebStreamsProofs**: `StreamsTypeCorrect`, `NoSocketLeft`, `SocketSelected`, `TextSelected`,
  `LockedIsQuiet`, for any containers, attempts and PIN sessions. The socket of a panel
  is that of its present attempt (`SocketInv`), so a ticket of that attempt finds no
  other socket to be left behind; a locked or hidden panel has no attempt (`AttemptInv`),
  so a late ticket finds nobody who wants it; and the selection of the panel on the
  screen is in the list (`SelectionInv`), so that showing the list again does not take
  it away from under an open session. A socket that is closing is not live and still of
  its container (`ClosedType`, `ClosingSession`), and no panel knows it any more, so that its late
  close and error events write nothing; this is where `TextSelected` needs the comparison in
  the listeners. `TermInv` and `GuardInv` are about what is cleared
  when a panel leaves the screen, and about pages without a PIN.
- **WebListsProofs**: `ListsTypeCorrect`, `ListsScoped`, `ScopedTypeCorrect`, `ScopedSettled`, `RowsSettled`,
  `TargetsAreListed`, `DialogsAreTrue`, for any servers, lists of servers, menus and networks.
  `ListsScoped` is the refinement: each of the five lists, under the mapping of
  `ListsAreScoped`, starts in an initial state of `ScopedRefresh` and every step of the page
  is a step of it or leaves it alone, shown once for a list of any kind (`List(k)`).
  `ScopedSettled` is about the abstract list: whatever makes the rows those of another
  server starts the request that replaces them, or empties the list. Together they
  give the rows of `SettledRows`; its buttons need `LabelInv`. The dialogs rest on `PullInv` (no
  countdown runs during a pull) and `NetworkInv` (what a dialog has asked for is what it
  was opened for).

Every invariant and every action property that a run checks is a theorem, and so
are the refinements (`ListsAreScoped`, `JobsAreManaged`). Only model-checked are the liveness
properties (`ScanTerminates`, `PendingServed`, `JobsFinish`, `UpdatesTerminate`, `StreamsEnd`,
`StatusSettles`, `DialogFreed`): temporal reasoning under fairness needs ENABLED, which this
prover cannot do. For the first and the fourth the measures above are proved, so
that only "what can go on does" is taken from fairness. Beyond their
hypotheses `StopReachesWork` and `SettledStates` are false.

## 5. Findings

The run with the expected result *violation* (`scan_stop_two_clients`) shows where the code does
not do what the repository's documentation says ("Stop a manual batch through the
UI or `POST /api/scan/stop`", `user-guide.md:17`): the request of a client for a server in
maintenance is refused; before its deferred cleanup another client's batch
registers its cancel function, which the cleanup removes. The batch runs, and the
stop button cancels nothing.

Seen while modelling, without a run of their own. On the server:

- the stop button misses a manual scan also at moments at which neither the slot
  nor the counter is held, which `StopReachesWork` therefore leaves out: between the
  local and the remote part of a batch (`"rstart"`, `server.go:956`), and before and after the
  call to a single agent (`"onesync"`, `"onecount"`, `"oneupdate"`), the update of its
  containers included (`server.go:1051`). The answer is "idle" and the scan goes on, while
  `api.md:60` says "Cancel a scan/batch";
- a refresh that overlaps with a check puts its older copy of the map back and can
  leave a server in CHECKING with no check under way (`server_info.go:149`;
  `CHANGELOG.md:350` says such races were fixed);
- the grace of 30 s (`stacks.go:557`) does not cover a start request that may take
  60 s: the controller may report a timeout of a job that then succeeds on the
  agent; an extension before the agent has answered the start request is not
  forwarded (`stack_jobs.go:200`; `api.md:112` says it is);
- a scan request is refused with 409 only during the local part of another scan
  (`api.md:59`); a server that enters maintenance while it is scanned is still
  updated (`configuration.md:81`); a check under way hides that its server has
  entered maintenance;
- a cancelled scan of a single local server stores its result under the empty
  name; the end of a batch drops the stored results of agents until they are
  scanned again; a refused request leaves servers shown as pending; a scheduled
  scan cannot be stopped;
- a container that the retry creates from an image ID is never found outdated
  again; `pullImage` ignores the errors in the progress stream; pruning unused
  images between pull and creation makes the creation fail after the old
  container is gone; a container that the user stops or pauses during the pull is
  started or recreated; a stored scan result keeps the ID of the old container.

On the page:

- panels and PIN: a 401 that belongs to an old session drops a fresh one; a PIN
  status that cannot be fetched counts as "no guard"; `init` may open the event
  stream without a token and does not open it again; a switch of servers in shell
  or logs mode leaves the old session connected until a list with containers
  arrives; `silentClose` may swallow the next message that a stream was lost;
- lists: `clearContainersViewForServerSwitch` (`app.js:5543`, `CHANGELOG.md:33`) clears the
  table of the current mode only, so a switch of mode shows the rows of the last
  server until the answer comes; a selection moved by a change of the list of
  servers keeps rows and confirmations; a refresh after an action is dropped when
  one is in flight, and images, networks and volumes have no interval that would
  make up for it; `clearContainersKillConfirmations` gives old rows the buttons of
  the newly selected server; a late answer of `runNetworkConnect` forgets the
  network of a dialog opened meanwhile; hiding a mode from another view starts
  the interval of the containers; resources of the table for one server are not
  asked for while those of another are under way;
- status: a stop that overtakes its scan leaves the scan running though the page
  says it was stopped (`user-guide.md:17`), as does a stop that fails; the loop over
  selected servers may send the next one during a stop; a refused scan leaves
  servers shown as pending until another scan; a stale answer may be the last one
  applied, or tell the end too early; a late answer to a stop aborts the next scan;
  two self updates that are followed at the same time clear each other's marks;
- stacks: the selected server is read again at load, save and action, so that a
  moved selection sends save or action to another server than the one loaded
  (`user-guide.md:33`); a save whose answer is lost leaves the baseline old;
  overrides go by the name of the stack only, and the refusal of a second action
  deletes the override of the first; a row shows an action that has
  completed until its override is over or the status changes, and one that has failed
  until the next refresh (`app.js:6165`, `app.js:8032`).

## 6. Plan

In this order, each with runs, mutants and, where marked *, proofs:

1. Measures for the liveness properties that have none yet, in the manner of
   `StepsLeft` and `CallsLeft`: the deadlines in `JobsFinish`, the nested calls in `DialogFreed`*.
2. `PinLimiter`*: the attempt limiter of `handlePinVerify`, per address and global.
3. `ConfigStore` with the scheduler: a failed save after the change in memory
   (`config.go:236`), saving and applying in two steps (`server.go:668`), a cancelled
   loop that publishes its next run (`scheduler.go:378`).
4. Self update and scan state file: a helper that patches the file the new agent
   has loaded (`main.go:83`), writers of older snapshots (`server.go:1547`).
5. The event stream: broadcast after the lock (`server_info.go:376`), drops, close on
   logout; saving the pair of stack files against an action that reads it
   (`stack_storage.go:104`).
6. The queue of toasts, the merging of server info on the page, resources,
   release check, version comparison and cron times.

Abstract specifications worth stating next: the pending mark as a lock with one
holder that `ServerInfo` implements; a ticket that is used at most once, and only while its session
lives, that `Sessions` implements.

Not modelled and not planned: formatting of logs, notifications and compose
output, the HTTP helpers, vendored scripts; of the page drawing, sorting,
searching, charts, lint marks and highlighting (`cm6-compose.js`) and the theme.
