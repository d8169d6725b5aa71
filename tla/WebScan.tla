------------------------------ MODULE WebScan ------------------------------
(***************************************************************************)
(* Scans and updates as the status page of the web interface shows them    *)
(* (web/static/app.js).                                                    *)
(*                                                                         *)
(* The page learns of the states of the servers from answers of            *)
(* /api/aggregate, several of which may be under way and overtake each     *)
(* other, and from events.  While it believes that a scan is active it     *)
(* polls; what a click is going to start it shows before the server has    *)
(* said so (scanStateOverrides).                                           *)
(***************************************************************************)
EXTENDS Naturals, FiniteSets

CONSTANTS
    Servers,
    Calls,         \* requests for the status that are under way at the same time
    Updatable,     \* servers with a container for which there is an update
    MaxScans,      \* scans that are started, by this page or by others
    MaxUpdates,    \* updates of containers
    EventBuffer,   \* events that are on their way at the same time
    None

ASSUME ScanConstants ==
    /\ None \notin Servers /\ "all" \notin Servers /\ None # "all" /\ Updatable \subseteq Servers
    /\ MaxScans \in Nat /\ MaxUpdates \in Nat /\ EventBuffer \in Nat

(* What the page tells apart: active is pending, scanning or updating, over *)
(* is done, error or cancelled.                                             *)
States == {"idle", "active", "over"}

VARIABLES
    srv, batch, event,          \* server: states, servers still to be scanned, results on their way as events
    scans,                      \* scans asked for
    post, target, orphan,       \* the request of the scan handler, what it asks for, one that was aborted
    controller, scanRequestActive, targets,
    scanCompletionPending, told,
    due,                        \* how far the full scan is whose end the page owes (history)
    scanActive, timer, overrides, last,
    selective, stop,    \* isSelectiveScanEnabled, selectedScanServers
    call, snap,                 \* requests for the status: how far, what they will bring
    update, updates, scanDisabled,
    restarting, follow          \* marks of self updates (pendingSelfUpdates, restartingServers), what follows them up

server == <<srv, batch, event>>
request == <<post, target, orphan, controller, scanRequestActive, targets, stop>>
shown == <<scanCompletionPending, told, due, scanActive, timer, overrides, last, scanDisabled>>
marks == <<restarting, follow>>
choice == <<selective, scans>>
pageVars == <<server, request, shown, marks, choice, call, snap, update, updates>>

PageTypeOK ==
    /\ srv \in [Servers -> States] /\ batch \in SUBSET Servers
    /\ event \in SUBSET (Servers \X States)
    /\ scans \in 0 .. MaxScans /\ told \in 0 .. MaxScans /\ due \in {"none", "asked", "accepted"}
    /\ post \in {"none", "sent", "running", "refused"}
    /\ target \in Servers \cup {"all", None} /\ orphan \in Servers \cup {"all", None}
    /\ controller \in BOOLEAN /\ scanRequestActive \in BOOLEAN /\ targets \in SUBSET Servers
    /\ scanCompletionPending \in BOOLEAN /\ scanActive \in BOOLEAN /\ timer \in BOOLEAN
    /\ overrides \in SUBSET Servers
    /\ last \in [Servers -> States]
    /\ selective \in BOOLEAN /\ stop \in {"none", "sent", "served"}
    /\ call \in [Calls -> {"free", "sent", "served"}] /\ snap \in [Calls -> [Servers -> States]]
    /\ update \in Servers \cup {None} /\ updates \in 0 .. MaxUpdates
    /\ scanDisabled \in BOOLEAN
    /\ restarting \in SUBSET Servers /\ follow \in [Servers -> {"off", "wait", "late"}]

Idle == [s \in Servers |-> "idle"]

(* The page is loaded, perhaps while a scan is running; a server of which   *)
(* nothing is known counts as idle.                                         *)
PageInit ==
    /\ event = {}
    /\ \/ srv = Idle /\ batch = {}
       \/ srv = [s \in Servers |-> "active"] /\ batch = Servers
    /\ scans = 0 /\ told = 0 /\ due = "none"
    /\ post = "none" /\ target = None /\ orphan = None
    /\ controller = FALSE /\ scanRequestActive = FALSE /\ targets = {}
    /\ scanCompletionPending = FALSE /\ scanActive = FALSE /\ timer = FALSE
    /\ overrides = {} /\ last = Idle
    /\ selective = FALSE /\ stop = "none"
    /\ call = [c \in Calls |-> "free"] /\ snap = [c \in Calls |-> Idle]
    /\ update = None /\ updates = 0 /\ scanDisabled = FALSE
    /\ restarting = {} /\ follow = [s \in Servers |-> "off"]

-----------------------------------------------------------------------------
(* The server, as far as the page can see it *)

(* handleScan resets and marks the states before it knows whether the scan  *)
(* is accepted.                                                             *)
Marked(t) == [s \in Servers |-> IF t \in {"all", s} THEN "active" ELSE "idle"]

Accepts(t) ==
    /\ srv' = Marked(t)
    /\ batch' = batch \cup (IF t = "all" THEN Servers ELSE {t})

ScanAccepted ==
    /\ post = "sent" /\ post' = "running" /\ Accepts(target)
    /\ due' = IF target = "all" /\ due = "asked" THEN "accepted" ELSE due
    /\ UNCHANGED <<event, target, orphan, controller, scanRequestActive, targets, stop,
                   scanCompletionPending, told, scanActive, timer, overrides, last, scanDisabled,
                   marks, choice, call, snap, update, updates>>

(* A scan that was aborted by the page reaches the server all the same. *)
OrphanAccepted ==
    /\ orphan # None /\ orphan' = None /\ Accepts(orphan)
    /\ UNCHANGED <<event, post, target, controller, scanRequestActive, targets, stop,
                   shown, marks, choice, call, snap, update, updates>>

(* Another scan or an update is running; or the server of a single scan is  *)
(* unknown or in maintenance, and is not marked.                            *)
ScanRefused ==
    /\ post = "sent" /\ post' = "refused"
    /\ srv' \in {Marked(target)} \cup (IF target = "all" THEN {} ELSE {Idle})
    /\ UNCHANGED <<batch, event, target, orphan, controller, scanRequestActive, targets, stop,
                   shown, marks, choice, call, snap, update, updates>>

(* The scheduler, or another page. *)
OtherScan ==
    /\ batch = {} /\ scans < MaxScans
    /\ scans' = scans + 1 /\ srv' = Marked("all") /\ batch' = Servers
    /\ UNCHANGED <<event, request, shown, marks, selective,
                   call, snap, update, updates>>

(* updateLastScans sends the result as an event, with the state the server  *)
(* has then; a slow subscriber misses it.                                   *)
updateLastScans(s, state) ==
    event' \in {event} \cup (IF Cardinality(event) < EventBuffer THEN {event \cup {<<s, state>>}} ELSE {})

ServerDone(s) ==
    /\ s \in batch /\ batch' = batch \ {s}
    /\ srv' = [srv EXCEPT ![s] = "over"] /\ updateLastScans(s, "over")
    /\ UNCHANGED <<request, shown, marks, choice, call, snap, update, updates>>

(* A page has asked for the stored results of the agents                    *)
(* (handleStatusRefresh): they are sent again, also during a scan.          *)
refreshRemoteStatusCache(s) ==
    /\ updateLastScans(s, srv[s])
    /\ UNCHANGED <<srv, batch, request, shown, marks, choice, call, snap, update, updates>>

(* handleScanStop cancels what runs and marks its states; a scan whose      *)
(* cancel function is gone it leaves alone.                                 *)
StopServed ==
    /\ stop = "sent" /\ stop' = "served"
    /\ \/ UNCHANGED <<srv, batch>>
       \/ /\ batch # {} /\ batch' = {}
          /\ srv' = [s \in Servers |-> IF srv[s] = "active" THEN "over" ELSE srv[s]]
    /\ UNCHANGED <<event, post, target, orphan, controller, scanRequestActive, targets,
                   shown, marks, choice, call, snap, update, updates>>

-----------------------------------------------------------------------------
(* Status answers *)

(* refreshStatus sends a request; beyond the bound on Calls it is not seen. *)
refreshStatus ==
    call' = IF \E c \in Calls : call[c] = "free"
            THEN [call EXCEPT ![CHOOSE c \in Calls : call[c] = "free"] = "sent"] ELSE call

(* Mutant: a timer that was stopped is not started again. *)
updateScanPollingOnce(active) ==
    /\ scanActive' = active /\ timer' = (timer /\ active)
    /\ told' = IF ~active /\ scanCompletionPending THEN told + 1 ELSE told
    /\ scanCompletionPending' = (scanCompletionPending /\ active)
    /\ due' = IF told' # told THEN "none" ELSE due

(* updateScanPolling, and notifyScanCompletion when nothing is active.      *)
updateScanPolling(active) ==
    /\ scanActive' = active /\ timer' = active
    /\ told' = IF ~active /\ scanCompletionPending THEN told + 1 ELSE told
    /\ scanCompletionPending' = (scanCompletionPending /\ active)
    /\ due' = IF told' # told THEN "none" ELSE due

(* Mutant: the button is enabled whenever the status is drawn. *)
setScanningUINever == scanDisabled' = FALSE

(* setScanningUI: the scan button waits for the end of an update only. *)
setScanningUI == scanDisabled' = (update # None)

(* The results are those of an answer or of an event; they may say that a   *)
(* self update is over (isSelfUpdateResolved), which is a choice here.      *)
applyStatusResults(results, resolved) ==
    LET active == scanRequestActive \/ controller \/ \E s \in Servers : results[s] = "active" IN
    /\ last' = results
    /\ resolved \subseteq restarting /\ restarting' = restarting \ resolved /\ UNCHANGED follow
    /\ overrides' = IF ~active /\ timer THEN {} ELSE {s \in overrides : results[s] = "idle"}
    /\ updateScanPolling(active) /\ setScanningUI

StatusServed(c) ==
    /\ call[c] = "sent" /\ call' = [call EXCEPT ![c] = "served"]
    /\ snap' = [snap EXCEPT ![c] = srv]
    /\ UNCHANGED <<server, request, shown, marks, choice, update, updates>>

StatusAnswered(c) ==
    /\ call[c] = "served" /\ call' = [call EXCEPT ![c] = "free"]
    /\ snap' = [snap EXCEPT ![c] = Idle]
    /\ \E resolved \in SUBSET Servers : applyStatusResults(snap[c], resolved)
    /\ UNCHANGED <<server, request, choice, update, updates>>

StatusFails(c) ==
    /\ call[c] # "free" /\ call' = [call EXCEPT ![c] = "free"]
    /\ snap' = [snap EXCEPT ![c] = Idle]
    /\ UNCHANGED <<server, request, shown, marks, choice, update, updates>>

(* initServerStream: a scan_result event ends in upsertStatusResult. *)
upsertStatusResult(s, state) ==
    /\ <<s, state>> \in event /\ event' = event \ {<<s, state>>}
    /\ \E resolved \in SUBSET Servers : applyStatusResults([last EXCEPT ![s] = state], resolved)
    /\ UNCHANGED <<srv, batch, request, choice, call, snap, update, updates>>

(* The stream is connected (again): a snapshot of the states comes first,   *)
(* and what was on its way is lost.                                         *)
StreamSnapshot ==
    /\ event' = {}
    /\ \E resolved \in SUBSET Servers : applyStatusResults(srv, resolved)
    /\ UNCHANGED <<srv, batch, request, choice, call, snap, update, updates>>

(* Other askers: closeDetailsModal, toggleMaintenance, the button that       *)
(* checks the connections, a switch to this view.                           *)
AskStatus ==
    /\ (\E c \in Calls : call[c] = "free") /\ refreshStatus
    /\ UNCHANGED <<server, request, shown, marks, choice, snap, update, updates>>

(* The interval of two seconds. *)
Poll ==
    /\ timer /\ (\E c \in Calls : call[c] = "free") /\ refreshStatus
    /\ UNCHANGED <<server, request, shown, marks, choice, snap, update, updates>>

-----------------------------------------------------------------------------
(* The scan button *)

toggleSelective ==
    /\ ~scanActive /\ ~controller /\ update = None
    /\ selective' = ~selective
    /\ refreshStatus
    /\ UNCHANGED <<server, request, shown, marks, scans, snap, update, updates>>

(* The servers that are going to be scanned, and the ones that are skipped, *)
(* are shown so at once.                                                    *)
applyOptimisticScanState(going, skipped) == overrides' = going \cup skipped

(* startScanPolling *)
startScanPolling == scanActive' = TRUE /\ timer' = TRUE /\ setScanningUI

(* Without selection all servers are scanned; the ones that are online are  *)
(* shown as going to be.                                                    *)
ScanAll(online) ==
    /\ ~scanDisabled /\ ~controller /\ ~scanActive /\ ~selective /\ scans < MaxScans
    /\ scans' = scans + 1
    /\ controller' = TRUE /\ scanRequestActive' = TRUE /\ targets' = {}
    /\ post' = "sent" /\ target' = "all"
    /\ scanCompletionPending' = TRUE /\ due' = "asked" /\ startScanPolling
    /\ applyOptimisticScanState(online, {})
    /\ refreshStatus
    /\ UNCHANGED <<server, orphan, stop, told, last, marks, selective, snap, update, updates>>

(* Of the servers that are ticked (selectedScanServers) the ones that are   *)
(* offline are skipped.                                                     *)
ScanSelected(chosen, offline) ==
    /\ ~scanDisabled /\ ~controller /\ ~scanActive /\ selective /\ scans < MaxScans
    /\ chosen # {} /\ offline \subseteq chosen /\ offline # chosen
    /\ scans' = scans + 1
    /\ controller' = TRUE /\ scanRequestActive' = TRUE
    /\ \E t \in chosen \ offline :
          /\ post' = "sent" /\ target' = t /\ targets' = (chosen \ offline) \ {t}
    /\ scanCompletionPending' = FALSE /\ startScanPolling
    /\ applyOptimisticScanState(chosen \ offline, offline)
    /\ refreshStatus
    /\ UNCHANGED <<server, orphan, stop, told, due, last, marks, selective, snap, update, updates>>

(* All of them are offline: the handler comes to its end at once. *)
AllOffline(chosen) ==
    /\ ~scanDisabled /\ ~controller /\ ~scanActive /\ selective /\ chosen # {}
    /\ scans < MaxScans /\ scans' = scans + 1
    /\ scanCompletionPending' = FALSE /\ startScanPolling
    /\ applyOptimisticScanState({}, chosen)
    /\ selective' = FALSE /\ refreshStatus
    /\ UNCHANGED <<server, request, told, due, last, marks, snap, update, updates>>

(* Mutant: the flag that a request is under way stays. *)
HandlerEndsActive ==
    /\ controller' = FALSE /\ UNCHANGED scanRequestActive /\ setScanningUI
    /\ targets' = {} /\ post' = "none" /\ target' = None
    /\ selective' = FALSE

(* What "finally" does. *)
HandlerEnds ==
    /\ controller' = FALSE /\ scanRequestActive' = FALSE /\ setScanningUI
    /\ targets' = {} /\ post' = "none" /\ target' = None
    /\ selective' = FALSE

(* A full scan is answered when the local servers are done, the scan of one *)
(* server when it is over; then comes the next one.                         *)
ScanAnswered ==
    /\ post = "running" /\ target \notin batch
    /\ IF targets = {}
       THEN HandlerEnds /\ refreshStatus
       ELSE /\ \E t \in targets : target' = t /\ targets' = targets \ {t}
            /\ post' = "sent"
            /\ UNCHANGED <<controller, scanRequestActive, scanDisabled, selective, call>>
    /\ UNCHANGED <<server, orphan, stop, scanCompletionPending, told, due, scanActive, timer, overrides, last,
                   marks, scans, snap, update, updates>>

(* It is refused, it fails or its connection breaks. *)
ScanFails ==
    /\ post # "none" /\ HandlerEnds /\ refreshStatus
    /\ scanCompletionPending' = FALSE /\ due' = IF target = "all" THEN "none" ELSE due
    /\ UNCHANGED <<server, orphan, stop, told, scanActive, timer, overrides, last,
                   marks, scans, snap, update, updates>>

(* Mutant: a scan that is stopped is still waited for. *)
StopScanWaits ==
    /\ ~scanDisabled /\ (controller \/ scanActive) /\ stop = "none"
    /\ stop' = "sent" /\ due' = "none"
    /\ UNCHANGED <<server, post, target, orphan, controller, scanRequestActive, targets, scanCompletionPending,
                   told, scanActive, timer, overrides, last, scanDisabled, marks, choice, call, snap, update, updates>>

(* While a scan is active the button stops it. *)
StopScan ==
    /\ ~scanDisabled /\ (controller \/ scanActive) /\ stop = "none"
    /\ stop' = "sent" /\ scanCompletionPending' = FALSE /\ due' = "none"
    /\ UNCHANGED <<server, post, target, orphan, controller, scanRequestActive, targets,
                   told, scanActive, timer, overrides, last, scanDisabled, marks, choice, call, snap, update, updates>>

(* When the stop is answered (or has failed) the request of the scan, the   *)
(* present one, is aborted.                                                 *)
ScanStopped ==
    /\ stop # "none" /\ stop' = "none"
    /\ IF controller
       THEN HandlerEnds /\ orphan' \in (IF post = "sent" /\ orphan = None THEN {target, None} ELSE {orphan})
       ELSE UNCHANGED <<post, target, orphan, controller, scanRequestActive, targets, scanDisabled, selective>>
    /\ scanCompletionPending' = (scanCompletionPending /\ ~controller)
    /\ due' = IF controller THEN "none" ELSE due
    /\ overrides' = {}
    /\ refreshStatus
    /\ UNCHANGED <<server, told, scanActive, timer, last, marks, scans, snap, update, updates>>

-----------------------------------------------------------------------------
(* The update of a container *)

(* The update button of buildContainerCard, in a dialog that was opened     *)
(* before.                                                                  *)
UpdateContainer(s) ==
    /\ s \in Updatable /\ s \notin restarting
    /\ update = None /\ ~controller /\ updates < MaxUpdates
    /\ update' = s /\ updates' = updates + 1 /\ scanDisabled' = TRUE
    /\ UNCHANGED <<server, request, scanCompletionPending, told, due, scanActive, timer, overrides, last,
                   marks, choice, call, snap>>

(* schedulePostSelfUpdateRefresh, when the answer says that the agent is    *)
(* going to restart.                                                        *)
schedulePostSelfUpdateRefresh(s) ==
    /\ restarting' = restarting \cup {s} /\ follow' = [follow EXCEPT ![s] = "wait"]

UpdateAnswered ==
    /\ update # None /\ update' = None
    /\ schedulePostSelfUpdateRefresh(update) \/ UNCHANGED marks
    /\ scanDisabled' = controller
    /\ refreshStatus
    /\ UNCHANGED <<server, request, scanCompletionPending, told, due, scanActive, timer, overrides, last,
                   choice, snap, updates>>

(* A minute has passed: the marks have no effect any more. *)
SelfUpdateLate(s) ==
    /\ follow[s] = "wait" /\ follow' = [follow EXCEPT ![s] = "late"]
    /\ restarting' = restarting \ {s}
    /\ UNCHANGED <<server, request, shown, choice, call, snap, update, updates>>

(* A tick at which the update is resolved, or its time is over: the marks   *)
(* are removed (clearPendingSelfUpdate).                                    *)
FollowEnds(s) ==
    /\ follow[s] # "off" /\ follow' = [follow EXCEPT ![s] = "off"]
    /\ restarting' = restarting \ {s}
    /\ UNCHANGED <<server, request, shown, choice, call, snap, update, updates>>

(* Otherwise the states of the servers are asked for once more. *)
FollowTick(s) ==
    /\ follow[s] = "wait" /\ (\E c \in Calls : call[c] = "free") /\ refreshStatus
    /\ UNCHANGED <<server, request, shown, marks, choice, snap, update, updates>>

-----------------------------------------------------------------------------
ServerStep ==
    \/ ScanAccepted \/ OrphanAccepted \/ ScanRefused \/ OtherScan \/ StopServed
    \/ \E s \in Servers : ServerDone(s) \/ refreshRemoteStatusCache(s)

StatusStep ==
    \/ \E c \in Calls : StatusServed(c) \/ StatusAnswered(c) \/ StatusFails(c)
    \/ \E s \in Servers, state \in States : upsertStatusResult(s, state)
    \/ StreamSnapshot \/ AskStatus \/ Poll

ScanStep ==
    \/ toggleSelective \/ ScanAnswered \/ ScanFails \/ StopScan \/ ScanStopped
    \/ \E set \in SUBSET Servers : ScanAll(set) \/ AllOffline(set)
    \/ \E chosen, offline \in SUBSET Servers : ScanSelected(chosen, offline)

UpdateStep ==
    \/ UpdateAnswered
    \/ \E s \in Servers : UpdateContainer(s) \/ SelfUpdateLate(s) \/ FollowEnds(s) \/ FollowTick(s)

PageNext == ServerStep \/ StatusStep \/ ScanStep \/ UpdateStep

PageSpec == PageInit /\ [][PageNext]_pageVars

(* The server answers in the end, and now and then a status request gets    *)
(* through; intervals and timeouts fire.  Users need not do anything.       *)
Fairness ==
    /\ WF_pageVars(Poll) /\ WF_pageVars(ScanAccepted \/ StopServed \/ \E s \in Servers : ServerDone(s))
    /\ WF_pageVars(ScanAnswered \/ ScanFails) /\ WF_pageVars(UpdateAnswered)
    /\ WF_pageVars(\E s \in Servers : SelfUpdateLate(s) \/ FollowEnds(s))
    /\ SF_pageVars(\E c \in Calls : StatusServed(c)) /\ SF_pageVars(\E c \in Calls : StatusAnswered(c))

PageFairSpec == PageSpec /\ Fairness

-----------------------------------------------------------------------------
(* Properties *)

(* A server that is shown as pending or being scanned is shown so by a page *)
(* that polls: neither an early guess nor an answer that was overtaken      *)
(* stays on the screen for good.                                            *)
ShownActivityPolled ==
    (\E s \in Servers : last[s] = "active" \/ s \in overrides) => timer

(* The page never asks for a scan while it waits for an update, or the      *)
(* other way round, though buttons are drawn anew with every answer.        *)
NoScanDuringUpdate == ~(update # None /\ scanRequestActive)

(* "Check updates finished" is told of a full scan of this page that the    *)
(* server has accepted, and once: not of one that was refused, that failed, *)
(* or that this page has stopped or aborted since, however late the answers *)
(* are that say that nothing is active.                                     *)
FinishTold == [][told' # told => due = "accepted"]_pageVars

(* When no server is active any more the page sees it: polling ends, and so *)
(* do early guesses, a promised message and the marks of self updates,      *)
(* whatever answers were lost, late or overtaken.                           *)
StatusSettles ==
    <>[](\A s \in Servers : srv[s] # "active")
        => <>[](~scanActive /\ ~timer /\ overrides = {} /\ ~scanCompletionPending /\ follow = [s \in Servers |-> "off"])

=============================================================================
