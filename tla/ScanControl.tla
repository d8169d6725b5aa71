----------------------------- MODULE ScanControl -----------------------------
(***************************************************************************)
(* The scan controller of internal/server/server.go: manual scans          *)
(* (handleScan), scheduled scans (runScheduledScan), container updates     *)
(* (handleUpdateContainer, handleSelfUpdate) and the stop button           *)
(* (handleScanStop), all running as goroutines that share the scanRunning  *)
(* and updateRunning flags, the scanCancel handle, the remoteScanRunning   *)
(* counter, the per-server scan states and the stored scan results.        *)
(*                                                                         *)
(* One action is one stretch of a goroutine between two points at which    *)
(* another goroutine may be observed: a critical section of scanMutex, or  *)
(* the return of a call to a Docker daemon or to an agent.                 *)
(***************************************************************************)
EXTENDS Naturals, FiniteSets

CONSTANTS
    Manual,        \* POST /api/scan requests that may be in flight together
    Sched,         \* incarnations of the scheduler loop
    Updates,       \* POST /api/update and /api/self-update requests in flight
    Locals,        \* configured local servers
    Remotes,       \* configured remote servers (agents)
    Unnamed,       \* the empty server name
    None,          \* the nil scanCancel
    Stale,         \* the cancel function of a request that has already returned
    AgentMode,     \* TRUE in an agent: scans never update local containers
    MaxConfigEdits \* bound on maintenance and reachability changes

Servers == Locals \cup Remotes
Scanners == Manual \cup Sched
Procs == Scanners \cup Updates

ASSUME ScanConstants ==
    /\ IsFiniteSet(Procs) /\ IsFiniteSet(Locals) /\ IsFiniteSet(Remotes)
    /\ Manual \cap Sched = {} /\ Manual \cap Updates = {} /\ Sched \cap Updates = {}
    /\ Locals \cap Remotes = {}
    /\ Unnamed \notin Servers /\ None \notin Servers
    /\ "all" \notin Servers /\ "bad" \notin Servers /\ "bad" # "all"
    /\ None \notin Procs /\ Stale \notin Procs /\ None # Stale
    /\ AgentMode \in BOOLEAN
    /\ MaxConfigEdits \in Nat

VARIABLES
    scanRunning,       \* Server.scanRunning
    updateRunning,     \* Server.updateRunning
    remoteScanRunning, \* Server.remoteScanRunning
    scanCancel,        \* Server.scanCancel: the request whose context it cancels
    scanStates,        \* Server.scanStates (an absent key reads as "idle")
    lastScans,         \* Server.lastScans: is there a result under the name, and is it an error
    maint,             \* servers in maintenance
    online,            \* remotes the reachability cache calls online
    edits,             \* changes of maint and online so far
    pc, scope, todo, cur, res, \* program counter and locals of every goroutine
    ctxDone,           \* the goroutine's context has been cancelled
    schedLoop,         \* scheduler incarnations whose loop has not returned
    stopper            \* the cancel function handleScanStop has read

shared == <<scanRunning, updateRunning, remoteScanRunning, scanCancel>>
store == <<scanStates, lastScans>>
env == <<maint, online, edits>>
frame == <<scope, todo, cur, res>>
vars == <<shared, store, env, pc, frame, ctxDone, schedLoop, stopper>>

Active == {"pending", "scanning", "updating"}
States == Active \cup {"idle", "done", "cancelled", "error"}
Results == {"none", "ok", "failed"}
Names == Servers \cup {Unnamed}  \* what a stored result can be filed under
NoResults == [s \in Locals |-> "none"]

(* Where a goroutine can be. *)
ScanPc == {"loop", "scan", "update", "endscan"}          \* inside scanRunning
RemotePc == {"rloop", "rsync", "rscan", "rupdate"}       \* triggerRemoteScans
OnePc == {"onesync", "onecount", "onescan", "oneupdate"} \* scope "remote:<name>"
CountedPc == RemotePc \cup {"onescan"}                   \* inside remoteScanRunning
PcNames == ScanPc \cup RemotePc \cup OnePc \cup
           {"idle", "register", "mark", "acquire", "rstart", "rend", "cleanup", "updating"}

TypeOK ==
    /\ scanRunning \in BOOLEAN /\ updateRunning \in BOOLEAN
    /\ remoteScanRunning \in Nat
    /\ scanCancel \in Manual \cup {None}
    /\ scanStates \in [Servers -> States]
    /\ lastScans \in [Names -> Results]
    /\ maint \in SUBSET Servers /\ online \in SUBSET Remotes /\ edits \in 0..MaxConfigEdits
    /\ pc \in [Procs -> PcNames]
    /\ scope \in [Scanners -> {"all", "bad"} \cup Servers]
    /\ todo \in [Scanners -> SUBSET Servers]
    /\ cur \in [Scanners -> Servers \cup {None}]
    /\ res \in [Scanners -> [Locals -> Results]]
    /\ ctxDone \in [Scanners -> BOOLEAN]
    /\ schedLoop \in SUBSET Sched
    /\ stopper \in Manual \cup {None, Stale}

Init ==
    /\ scanRunning = FALSE /\ updateRunning = FALSE
    /\ remoteScanRunning = 0
    /\ scanCancel = None
    /\ scanStates = [s \in Servers |-> "idle"]
    /\ lastScans = [s \in Names |-> "none"]
    /\ maint \in SUBSET Servers /\ online = Remotes /\ edits = 0
    /\ pc = [p \in Procs |-> "idle"]
    /\ scope = [p \in Scanners |-> "all"]
    /\ todo = [p \in Scanners |-> {}]
    /\ cur = [p \in Scanners |-> None]
    /\ res = [p \in Scanners |-> NoResults]
    /\ ctxDone = [p \in Scanners |-> FALSE]
    /\ \E L \in SUBSET Sched : Cardinality(L) <= 1 /\ schedLoop = L
    /\ stopper = None

-----------------------------------------------------------------------------
Goto(p, label) == pc' = [pc EXCEPT ![p] = label]

(* The goroutine is done with its request; its locals die. *)
Return(p) ==
    /\ Goto(p, "idle")
    /\ scope' = [scope EXCEPT ![p] = "all"]
    /\ cur' = [cur EXCEPT ![p] = None]
    /\ UNCHANGED <<todo, res>>

setScanState(s, st) == scanStates' = [scanStates EXCEPT ![s] = st]

(* setAllScanStates(cfg, pending): maintenance servers and remotes that are *)
(* not online keep the state they have.                                     *)
setAllPending ==
    scanStates' = [s \in Servers |->
        IF s \in maint \/ (s \in Remotes /\ s \notin online)
        THEN scanStates[s] ELSE "pending"]

cancelRemaining(p) ==
    scanStates' = [s \in Servers |-> IF s \in todo[p] THEN "cancelled" ELSE scanStates[s]]

(* What a failed call leaves behind: "cancelled" when the context is done.  *)
FailedState(p) == IF ctxDone[p] THEN "cancelled" ELSE "error"

-----------------------------------------------------------------------------
(* handleScan *)

(* The request arrives: every scan state is reset to idle. *)
ScanRequest(p, sc) ==
    /\ pc[p] = "idle"
    /\ scanStates' = [s \in Servers |-> "idle"]
    /\ scope' = [scope EXCEPT ![p] = sc]
    /\ ctxDone' = [ctxDone EXCEPT ![p] = FALSE]
    /\ Goto(p, "register")
    /\ UNCHANGED <<shared, lastScans, env, todo, cur, res, schedLoop, stopper>>

(* The request publishes its cancel function, then looks its scope up. *)
RegisterCancel(p) ==
    /\ pc[p] = "register"
    /\ scanCancel' = p
    /\ Goto(p, IF scope[p] = "bad" \/ scope[p] \in maint THEN "cleanup"
               ELSE IF scope[p] \in Remotes THEN "onesync" ELSE "mark")
    /\ UNCHANGED <<scanRunning, updateRunning, remoteScanRunning, store, env, frame,
                   ctxDone, schedLoop, stopper>>

(* The states shown to the user change before the slot is taken. *)
MarkTargets(p) ==
    /\ pc[p] = "mark"
    /\ IF scope[p] = "all" THEN setAllPending ELSE setScanState(scope[p], "scanning")
    /\ Goto(p, "acquire")
    /\ UNCHANGED <<shared, lastScans, env, frame, ctxDone, schedLoop, stopper>>

AcquireScan(p) ==
    /\ pc[p] = "acquire" /\ p \in Scanners
    /\ ~scanRunning /\ ~updateRunning
    /\ scanRunning' = TRUE
    /\ IF scope[p] = "all"
       THEN /\ todo' = [todo EXCEPT ![p] = Locals]
            /\ UNCHANGED cur
            /\ Goto(p, "loop")
       ELSE /\ cur' = [cur EXCEPT ![p] = scope[p]]
            /\ UNCHANGED todo
            /\ Goto(p, "scan")
    /\ UNCHANGED <<updateRunning, remoteScanRunning, scanCancel, store, env, scope, res,
                   ctxDone, schedLoop, stopper>>

(* errScanInProgress: a manual request answers 409 and cleans up; a         *)
(* scheduled scan carries on with the remote servers.                       *)
ScanInProgress(p) ==
    /\ pc[p] = "acquire" /\ p \in Scanners
    /\ scanRunning \/ updateRunning
    /\ Goto(p, IF p \in Manual THEN "cleanup"
               ELSE IF Remotes = {} THEN "idle" ELSE "rstart")
    /\ UNCHANGED <<shared, store, env, frame, ctxDone, schedLoop, stopper>>

(* The deferred cleanup of handleScan: cancel() and scanCancel = nil.       *)
Cleanup(p) ==
    /\ pc[p] = "cleanup"
    /\ scanCancel' = None
    /\ ctxDone' = [ctxDone EXCEPT ![p] = TRUE]
    /\ stopper' = IF stopper = p THEN Stale ELSE stopper
    /\ Return(p)
    /\ UNCHANGED <<scanRunning, updateRunning, remoteScanRunning, store, env, schedLoop>>

-----------------------------------------------------------------------------
(* runScan: the local servers, one after the other *)

(* The head of the loop: a cancelled context marks what is left, a server   *)
(* in maintenance keeps its previous result, any other is scanned.          *)
LocalCancelled(p) ==
    /\ pc[p] = "loop" /\ todo[p] # {} /\ ctxDone[p]
    /\ cancelRemaining(p)
    /\ res' = [res EXCEPT ![p] = [s \in Locals |-> IF s \in todo[p] THEN "failed" ELSE @[s]]]
    /\ todo' = [todo EXCEPT ![p] = {}]
    /\ UNCHANGED <<shared, lastScans, env, pc, scope, cur, ctxDone, schedLoop, stopper>>

LocalMaintenance(p, s) ==
    /\ pc[p] = "loop" /\ s \in todo[p] /\ ~ctxDone[p]
    /\ s \in maint
    /\ res' = [res EXCEPT ![p][s] = lastScans[s]]
    /\ todo' = [todo EXCEPT ![p] = @ \ {s}]
    /\ UNCHANGED <<shared, store, env, pc, scope, cur, ctxDone, schedLoop, stopper>>

LocalStart(p, s) ==
    /\ pc[p] = "loop" /\ s \in todo[p] /\ ~ctxDone[p]
    /\ s \notin maint
    /\ setScanState(s, "scanning")
    /\ cur' = [cur EXCEPT ![p] = s]
    /\ todo' = [todo EXCEPT ![p] = @ \ {s}]
    /\ Goto(p, "scan")
    /\ UNCHANGED <<shared, lastScans, env, scope, res, ctxDone, schedLoop, stopper>>

(* A batch collects the result; a single-server scan stores it at once. *)
KeepLocal(p, r) ==
    IF scope[p] = "all"
    THEN res' = [res EXCEPT ![p][cur[p]] = r] /\ UNCHANGED lastScans
    ELSE lastScans' = [lastScans EXCEPT ![cur[p]] = r] /\ UNCHANGED res

AfterLocal(p) == IF scope[p] = "all" THEN "loop" ELSE "endscan"

(* scanLocalServer returned an error and an empty result: a single-server   *)
(* scan that was cancelled stores that result, under the empty name.        *)
LocalScanError(p) ==
    /\ pc[p] = "scan"
    /\ setScanState(cur[p], FailedState(p))
    /\ \/ scope[p] = "all" /\ KeepLocal(p, "failed")
       \/ /\ scope[p] # "all" /\ ctxDone[p]
          /\ lastScans' = [lastScans EXCEPT ![Unnamed] = "failed"]
          /\ UNCHANGED res
       \/ scope[p] # "all" /\ ~ctxDone[p] /\ UNCHANGED <<lastScans, res>>
    /\ Goto(p, AfterLocal(p))
    /\ UNCHANGED <<shared, env, scope, todo, cur, ctxDone, schedLoop, stopper>>

(* The scan came back with result.Error set: it found its context cancelled *)
(* between two containers.                                                  *)
LocalScanReportsError(p) ==
    /\ pc[p] = "scan" /\ ctxDone[p]
    /\ setScanState(cur[p], "error")
    /\ KeepLocal(p, "failed")
    /\ Goto(p, AfterLocal(p))
    /\ UNCHANGED <<shared, env, scope, todo, cur, ctxDone, schedLoop, stopper>>

(* The scan succeeded and nothing is to be updated. *)
LocalScanDone(p) ==
    /\ pc[p] = "scan"
    /\ setScanState(cur[p], "done")
    /\ KeepLocal(p, "ok")
    /\ Goto(p, AfterLocal(p))
    /\ UNCHANGED <<shared, env, scope, todo, cur, ctxDone, schedLoop, stopper>>

(* The scan found containers whose policy is "update". *)
LocalUpdateStart(p) ==
    /\ pc[p] = "scan" /\ ~AgentMode
    /\ setScanState(cur[p], "updating")
    /\ Goto(p, "update")
    /\ UNCHANGED <<shared, lastScans, env, frame, ctxDone, schedLoop, stopper>>

(* Mutant: the state is not moved on from "updating". *)
LocalUpdateDoneKeepsState(p) ==
    /\ pc[p] = "update"
    /\ UNCHANGED scanStates
    /\ KeepLocal(p, "ok")
    /\ Goto(p, AfterLocal(p))
    /\ UNCHANGED <<shared, env, scope, todo, cur, ctxDone, schedLoop, stopper>>

(* autoUpdateLocal went through its targets; a container that could not be  *)
(* updated is only logged.                                                  *)
LocalUpdateDone(p) ==
    /\ pc[p] = "update"
    /\ setScanState(cur[p], "done")
    /\ KeepLocal(p, "ok")
    /\ Goto(p, AfterLocal(p))
    /\ UNCHANGED <<shared, env, scope, todo, cur, ctxDone, schedLoop, stopper>>

(* autoUpdateLocal failed: no Docker client for the server, or the context  *)
(* was found cancelled before the next target.                              *)
LocalUpdateFailed(p) ==
    /\ \/ pc[p] = "scan" /\ ~AgentMode
       \/ pc[p] = "update" /\ ctxDone[p]
    /\ setScanState(cur[p], FailedState(p))
    /\ IF scope[p] = "all" THEN KeepLocal(p, "failed") ELSE UNCHANGED <<lastScans, res>>
    /\ Goto(p, AfterLocal(p))
    /\ UNCHANGED <<shared, env, scope, todo, cur, ctxDone, schedLoop, stopper>>

(* The end of runScan replaces every stored result by the local batch. *)
StoreResults(p) ==
    /\ pc[p] = "loop" /\ todo[p] = {}
    /\ lastScans' = [s \in Names |-> IF s \in Locals THEN res[p][s] ELSE "none"]
    /\ res' = [res EXCEPT ![p] = NoResults]
    /\ Goto(p, "endscan")
    /\ UNCHANGED <<shared, scanStates, env, scope, todo, cur, ctxDone, schedLoop, stopper>>

(* Mutant: the deferred cleanup of handleScan is not disarmed for a batch.  *)
ReleaseScanClearsCancel(p) ==
    /\ pc[p] = "endscan"
    /\ scanRunning' = FALSE
    /\ scanCancel' = None
    /\ Goto(p, IF scope[p] # "all" THEN "cleanup"
               ELSE IF p \in Sched /\ Remotes = {} THEN "idle" ELSE "rstart")
    /\ UNCHANGED <<updateRunning, remoteScanRunning, store, env, frame,
                   ctxDone, schedLoop, stopper>>

ReleaseScan(p) ==
    /\ pc[p] = "endscan"
    /\ scanRunning' = FALSE
    /\ Goto(p, IF scope[p] # "all" THEN "cleanup"
               ELSE IF p \in Sched /\ Remotes = {} THEN "idle" ELSE "rstart")
    /\ UNCHANGED <<updateRunning, remoteScanRunning, scanCancel, store, env, frame,
                   ctxDone, schedLoop, stopper>>

-----------------------------------------------------------------------------
(* triggerRemoteScans: the agents, one after the other *)

RemoteBatch(p) ==
    /\ pc[p] = "rstart"
    /\ remoteScanRunning' = remoteScanRunning + 1
    /\ todo' = [todo EXCEPT ![p] = Remotes]
    /\ Goto(p, "rloop")
    /\ UNCHANGED <<scanRunning, updateRunning, scanCancel, store, env, scope, cur, res,
                   ctxDone, schedLoop, stopper>>

(* Mutant: the remaining servers are marked and the loop goes on. *)
RemoteCancelledGoesOn(p) ==
    /\ pc[p] = "rloop" /\ todo[p] # {} /\ ctxDone[p]
    /\ cancelRemaining(p)
    /\ UNCHANGED <<shared, lastScans, env, pc, frame, ctxDone, schedLoop, stopper>>

RemoteCancelled(p) ==
    /\ pc[p] = "rloop" /\ todo[p] # {} /\ ctxDone[p]
    /\ cancelRemaining(p)
    /\ todo' = [todo EXCEPT ![p] = {}]
    /\ UNCHANGED <<shared, lastScans, env, pc, scope, cur, res, ctxDone, schedLoop, stopper>>

(* Mutant: a server that is skipped is not taken off the list. *)
RemoteSkipForever(p, s) ==
    /\ pc[p] = "rloop" /\ s \in todo[p] /\ ~ctxDone[p]
    /\ \/ s \in maint /\ UNCHANGED scanStates
       \/ s \notin maint /\ s \notin online /\ setScanState(s, "idle")
    /\ UNCHANGED <<shared, lastScans, env, pc, todo, scope, cur, res, ctxDone, schedLoop, stopper>>

(* Maintenance leaves the state alone; a remote that is not online gets idle. *)
RemoteSkip(p, s) ==
    /\ pc[p] = "rloop" /\ s \in todo[p] /\ ~ctxDone[p]
    /\ \/ s \in maint /\ UNCHANGED scanStates
       \/ s \notin maint /\ s \notin online /\ setScanState(s, "idle")
    /\ todo' = [todo EXCEPT ![p] = @ \ {s}]
    /\ UNCHANGED <<shared, lastScans, env, pc, scope, cur, res, ctxDone, schedLoop, stopper>>

(* The policy is synchronised first; its failure is only logged. *)
RemoteSyncPolicy(p, s) ==
    /\ pc[p] = "rloop" /\ s \in todo[p] /\ ~ctxDone[p]
    /\ s \notin maint /\ s \in online
    /\ cur' = [cur EXCEPT ![p] = s]
    /\ todo' = [todo EXCEPT ![p] = @ \ {s}]
    /\ Goto(p, "rsync")
    /\ UNCHANGED <<shared, store, env, scope, res, ctxDone, schedLoop, stopper>>

RemoteStart(p) ==
    /\ pc[p] = "rsync"
    /\ setScanState(cur[p], "scanning")
    /\ Goto(p, "rscan")
    /\ UNCHANGED <<shared, lastScans, env, frame, ctxDone, schedLoop, stopper>>

(* The remote call, or the updates after it, failed: the error is stored.   *)
RemoteError(p) ==
    /\ pc[p] \in {"rscan", "rupdate"}
    /\ setScanState(cur[p], FailedState(p))
    /\ lastScans' = [lastScans EXCEPT ![cur[p]] = "failed"]
    /\ Goto(p, "rloop")
    /\ UNCHANGED <<shared, env, frame, ctxDone, schedLoop, stopper>>

RemoteUpdateStart(p) ==
    /\ pc[p] = "rscan"
    /\ setScanState(cur[p], "updating")
    /\ Goto(p, "rupdate")
    /\ UNCHANGED <<shared, lastScans, env, frame, ctxDone, schedLoop, stopper>>

(* What an agent's answer says: its status is 200 also when the scan went   *)
(* wrong over there, and the error is then a field of the result, which the *)
(* controller stores without looking at it.                                 *)
Answers == {"ok", "failed"}

RemoteDone(p) ==
    /\ pc[p] \in {"rscan", "rupdate"}
    /\ setScanState(cur[p], "done")
    /\ \E r \in Answers : lastScans' = [lastScans EXCEPT ![cur[p]] = r]
    /\ Goto(p, "rloop")
    /\ UNCHANGED <<shared, env, frame, ctxDone, schedLoop, stopper>>

(* The deferred decrement; a manual batch then clears scanCancel and        *)
(* cancels its own context.                                                 *)
RemoteBatchEnd(p) ==
    /\ pc[p] = "rloop" /\ todo[p] = {}
    /\ remoteScanRunning' = remoteScanRunning - 1
    /\ IF p \in Manual THEN Goto(p, "rend") /\ UNCHANGED frame ELSE Return(p)
    /\ UNCHANGED <<scanRunning, updateRunning, scanCancel, store, env,
                   ctxDone, schedLoop, stopper>>

ManualBatchEnd(p) ==
    /\ pc[p] = "rend"
    /\ scanCancel' = None
    /\ ctxDone' = [ctxDone EXCEPT ![p] = TRUE]
    /\ stopper' = IF stopper = p THEN Stale ELSE stopper
    /\ Return(p)
    /\ UNCHANGED <<scanRunning, updateRunning, remoteScanRunning, store, env, schedLoop>>

-----------------------------------------------------------------------------
(* handleScan, scope "remote:<name>": no slot is taken, and only the scan   *)
(* call itself is counted.                                                  *)

OneStart(p) ==
    /\ pc[p] = "onesync"
    /\ setScanState(scope[p], "scanning")
    /\ cur' = [cur EXCEPT ![p] = scope[p]]
    /\ Goto(p, "onecount")
    /\ UNCHANGED <<shared, lastScans, env, scope, todo, res, ctxDone, schedLoop, stopper>>

OneCount(p) ==
    /\ pc[p] = "onecount"
    /\ remoteScanRunning' = remoteScanRunning + 1
    /\ Goto(p, "onescan")
    /\ UNCHANGED <<scanRunning, updateRunning, scanCancel, store, env, frame,
                   ctxDone, schedLoop, stopper>>

(* Mutant: the counter is only lowered when the scan succeeds. *)
OneErrorKeepsCount(p) ==
    /\ pc[p] = "onescan"
    /\ setScanState(cur[p], FailedState(p))
    /\ IF ctxDone[p] THEN lastScans' = [lastScans EXCEPT ![cur[p]] = "failed"] ELSE UNCHANGED lastScans
    /\ Goto(p, "cleanup")
    /\ UNCHANGED <<shared, env, frame, ctxDone, schedLoop, stopper>>

(* An error is stored only when the user cancelled the scan. *)
OneError(p) ==
    /\ pc[p] = "onescan"
    /\ remoteScanRunning' = remoteScanRunning - 1
    /\ setScanState(cur[p], FailedState(p))
    /\ IF ctxDone[p] THEN lastScans' = [lastScans EXCEPT ![cur[p]] = "failed"] ELSE UNCHANGED lastScans
    /\ Goto(p, "cleanup")
    /\ UNCHANGED <<scanRunning, updateRunning, scanCancel, env, frame, ctxDone, schedLoop, stopper>>

OneDone(p) ==
    /\ pc[p] = "onescan"
    /\ remoteScanRunning' = remoteScanRunning - 1
    /\ setScanState(cur[p], "done")
    /\ \E r \in Answers : lastScans' = [lastScans EXCEPT ![cur[p]] = r]
    /\ Goto(p, "cleanup")
    /\ UNCHANGED <<scanRunning, updateRunning, scanCancel, env, frame, ctxDone, schedLoop, stopper>>

OneUpdateStart(p) ==
    /\ pc[p] = "onescan"
    /\ remoteScanRunning' = remoteScanRunning - 1
    /\ setScanState(cur[p], "updating")
    /\ Goto(p, "oneupdate")
    /\ UNCHANGED <<scanRunning, updateRunning, scanCancel, lastScans, env, frame,
                   ctxDone, schedLoop, stopper>>

OneUpdateEnd(p) ==
    /\ pc[p] = "oneupdate"
    /\ \/ /\ setScanState(cur[p], "done")
          /\ \E r \in Answers : lastScans' = [lastScans EXCEPT ![cur[p]] = r]
       \/ setScanState(cur[p], FailedState(p)) /\ UNCHANGED lastScans
    /\ Goto(p, "cleanup")
    /\ UNCHANGED <<shared, env, frame, ctxDone, schedLoop, stopper>>

-----------------------------------------------------------------------------
(* The scheduler loop as the scan controller sees it *)

(* The timer fires. A select that finds both the timer and the cancelled    *)
(* context ready may still choose the timer.                                *)
ScheduledScan(p) ==
    /\ p \in schedLoop /\ pc[p] = "idle"
    /\ setAllPending
    /\ scope' = [scope EXCEPT ![p] = "all"]
    /\ Goto(p, "acquire")
    /\ UNCHANGED <<shared, lastScans, env, todo, cur, res, ctxDone, schedLoop, stopper>>

(* UpdateScheduler cancels the running loop and may start another one,      *)
(* whether or not the old loop is in the middle of a scan.                  *)
StopSchedulerLoop(p) ==
    /\ p \in schedLoop /\ ~ctxDone[p]
    /\ ctxDone' = [ctxDone EXCEPT ![p] = TRUE]
    /\ UNCHANGED <<shared, store, env, pc, frame, schedLoop, stopper>>

SchedulerLoopReturns(p) ==
    /\ p \in schedLoop /\ pc[p] = "idle" /\ ctxDone[p]
    /\ schedLoop' = schedLoop \ {p}
    /\ UNCHANGED <<shared, store, env, pc, frame, ctxDone, stopper>>

StartSchedulerLoop(p) ==
    /\ p \in Sched \ schedLoop
    /\ \A q \in schedLoop : ctxDone[q]
    /\ schedLoop' = schedLoop \cup {p}
    /\ ctxDone' = [ctxDone EXCEPT ![p] = FALSE]
    /\ UNCHANGED <<shared, store, env, pc, frame, stopper>>

-----------------------------------------------------------------------------
(* handleUpdateContainer and handleSelfUpdate; a refused request answers    *)
(* 409 and changes nothing.                                                 *)

(* Mutant: an update only looks at other updates. *)
AcquireUpdateDuringScan(p) ==
    /\ p \in Updates /\ pc[p] = "idle"
    /\ ~updateRunning
    /\ updateRunning' = TRUE
    /\ Goto(p, "updating")
    /\ UNCHANGED <<scanRunning, remoteScanRunning, scanCancel, store, env, frame,
                   ctxDone, schedLoop, stopper>>

AcquireUpdate(p) ==
    /\ p \in Updates /\ pc[p] = "idle"
    /\ ~scanRunning /\ ~updateRunning
    /\ updateRunning' = TRUE
    /\ Goto(p, "updating")
    /\ UNCHANGED <<scanRunning, remoteScanRunning, scanCancel, store, env, frame,
                   ctxDone, schedLoop, stopper>>

(* The result of an update only touches containers of a stored scan result. *)
ReleaseUpdate(p) ==
    /\ p \in Updates /\ pc[p] = "updating"
    /\ updateRunning' = FALSE
    /\ Goto(p, "idle")
    /\ UNCHANGED <<scanRunning, remoteScanRunning, scanCancel, store, env, frame,
                   ctxDone, schedLoop, stopper>>

-----------------------------------------------------------------------------
(* handleScanStop *)

(* The handle and the activity flags are read under scanMutex. Without a    *)
(* handle, or with nothing active, the answer is "idle".                    *)
StopWorks == scanCancel # None /\ (scanRunning \/ remoteScanRunning > 0)

StopRequest ==
    /\ stopper = None /\ StopWorks
    /\ stopper' = scanCancel
    /\ UNCHANGED <<shared, store, env, pc, frame, ctxDone, schedLoop>>

(* cancel(), then cancelActiveScanStates(). *)
StopCancels ==
    /\ stopper # None
    /\ ctxDone' = [p \in Scanners |-> p = stopper \/ ctxDone[p]]
    /\ scanStates' = [s \in Servers |->
           IF scanStates[s] \in Active THEN "cancelled" ELSE scanStates[s]]
    /\ stopper' = None
    /\ UNCHANGED <<shared, lastScans, env, pc, frame, schedLoop>>

-----------------------------------------------------------------------------
(* The world around: a server enters or leaves maintenance (an upsert       *)
(* writes the shared slice in place, so running batches see it), an agent   *)
(* becomes reachable or unreachable.                                        *)

ToggleMaintenance(s) ==
    /\ edits < MaxConfigEdits
    /\ maint' = IF s \in maint THEN maint \ {s} ELSE maint \cup {s}
    /\ edits' = edits + 1
    /\ UNCHANGED <<shared, store, online, pc, frame, ctxDone, schedLoop, stopper>>

ToggleOnline(s) ==
    /\ edits < MaxConfigEdits
    /\ online' = IF s \in online THEN online \ {s} ELSE online \cup {s}
    /\ edits' = edits + 1
    /\ UNCHANGED <<shared, store, maint, pc, frame, ctxDone, schedLoop, stopper>>

-----------------------------------------------------------------------------
LocalStep(p) ==
    \/ LocalCancelled(p)
    \/ \E s \in Locals : LocalMaintenance(p, s) \/ LocalStart(p, s)
    \/ LocalScanError(p) \/ LocalScanReportsError(p) \/ LocalScanDone(p)
    \/ LocalUpdateStart(p) \/ LocalUpdateDone(p) \/ LocalUpdateFailed(p)
    \/ StoreResults(p) \/ ReleaseScan(p)

RemoteStep(p) ==
    \/ RemoteBatch(p) \/ RemoteCancelled(p)
    \/ \E s \in Remotes : RemoteSkip(p, s) \/ RemoteSyncPolicy(p, s)
    \/ RemoteStart(p) \/ RemoteError(p) \/ RemoteUpdateStart(p) \/ RemoteDone(p)
    \/ RemoteBatchEnd(p)

ManualStep(p) ==
    \/ RegisterCancel(p) \/ MarkTargets(p) \/ Cleanup(p) \/ ManualBatchEnd(p)
    \/ OneStart(p) \/ OneCount(p) \/ OneError(p) \/ OneDone(p)
    \/ OneUpdateStart(p) \/ OneUpdateEnd(p)

(* What a goroutine does once it has been started. *)
Step(p) ==
    \/ p \in Scanners /\ (AcquireScan(p) \/ ScanInProgress(p) \/ LocalStep(p) \/ RemoteStep(p))
    \/ p \in Manual /\ ManualStep(p)
    \/ ReleaseUpdate(p)

Next ==
    \/ \E p \in Procs : Step(p)
    \/ \E p \in Manual, sc \in {"all", "bad"} \cup Servers : ScanRequest(p, sc)
    \/ \E p \in Sched : \/ ScheduledScan(p) \/ StopSchedulerLoop(p)
                        \/ SchedulerLoopReturns(p) \/ StartSchedulerLoop(p)
    \/ \E p \in Updates : AcquireUpdate(p)
    \/ StopRequest \/ StopCancels
    \/ \E s \in Servers : ToggleMaintenance(s)
    \/ \E s \in Remotes : ToggleOnline(s)

Spec == Init /\ [][Next]_vars

(* Every goroutine that can run does run, and every call to a Docker daemon *)
(* or an agent returns (remote calls carry timeouts; a local scan has none, *)
(* so this assumes that the local daemon answers).                          *)
FairSpec == Spec /\ \A p \in Procs : WF_vars(Step(p)) /\ WF_vars(StopCancels)

-----------------------------------------------------------------------------
(* Properties *)

Holders == {p \in Procs : pc[p] \in ScanPc \cup {"updating"}}

(* The slot guarded by scanMutex: the local part of a scan and a container  *)
(* update never overlap, and a flag is up exactly while its owner works, so *)
(* no path out of runScan, handleScan, handleUpdateContainer or             *)
(* handleSelfUpdate leaves the controller answering 409 for ever.           *)
OperationExclusion ==
    /\ \A p, q \in Holders : p = q
    /\ scanRunning <=> \E p \in Scanners : pc[p] \in ScanPc
    /\ updateRunning <=> \E p \in Updates : pc[p] = "updating"

(* remoteScanRunning counts exactly the goroutines inside                   *)
(* triggerRemoteScans or a single remote scan, whatever way they leave it.  *)
RemoteCounterExact ==
    remoteScanRunning = Cardinality({p \in Procs : pc[p] \in CountedPc})

Quiescent == stopper = None /\ \A p \in Procs : pc[p] = "idle"

(* What the user sees once nothing runs: no server is shown as pending,     *)
(* scanning or updating; a local server shown as done has the good result   *)
(* of a scan in the store, a remote one what its agent answered (which may  *)
(* be an error: RemoteDone); and no cancel function is left in scanCancel.  *)
SettledStates ==
    Quiescent =>
        /\ scanCancel = None
        /\ \A s \in Servers :
              /\ scanStates[s] \notin Active
              /\ scanStates[s] = "done" =>
                    lastScans[s] \in IF s \in Locals THEN {"ok"} ELSE Answers

(* SettledStates is not promised when a scan is refused while another scan  *)
(* or an update runs, or when a server goes into maintenance during a scan: *)
(* either leaves a server shown as pending that nobody is going to scan.    *)
(* This is a step without the two.                                          *)
Calm == maint' = maint /\ \A p \in Scanners : ~ScanInProgress(p)

(* The stop button and a manual scan. From its registration to its cleanup  *)
(* the cancel function of the scan is the published one; and handleScanStop *)
(* sees a scan running, so that it cancels that scan, in the local part, in *)
(* triggerRemoteScans and in the scan call to a single agent.  The code     *)
(* does not do so at "rstart" (between the two parts of a batch) and at     *)
(* "onesync", "onecount" and "oneupdate" (before and after the call to a    *)
(* single agent): neither the slot nor the counter is held there, the       *)
(* answer is "idle" and the scan goes on.                                   *)
StopReachesWork ==
    \A m \in Manual :
        /\ pc[m] \notin {"idle", "register"} => scanCancel = m
        /\ pc[m] \in ScanPc \cup RemotePc \cup {"onescan"} => StopWorks

(* "Stop a manual batch through the UI or POST /api/scan/stop", where a     *)
(* second client is about: the answer is not "idle" in the local and in the *)
(* remote part of a batch that nobody has cancelled yet.                    *)
BatchPartsStoppable ==
    \A m \in Manual :
        scope[m] = "all" /\ pc[m] \in ScanPc \cup RemotePc /\ ~ctxDone[m] => StopWorks

(* How many steps a goroutine has at most before it: four for every remote  *)
(* server, three for every local one, and some around them.                 *)
RemoteWork == 4 * Cardinality(Remotes) + 5
LocalWork == 3 * Cardinality(Locals) + RemoteWork

StepsLeft(p) ==
    LET remotes == 4 * Cardinality(todo[p]) + 2
        locals == 3 * Cardinality(IF scope[p] = "all" THEN todo[p] ELSE {}) + RemoteWork
    IN  CASE pc[p] = "idle" -> 0
          [] pc[p] \in {"cleanup", "rend", "updating"} -> 1
          [] pc[p] = "oneupdate" -> 2
          [] pc[p] = "onescan" -> 3
          [] pc[p] = "onecount" -> 4
          [] pc[p] = "onesync" -> 5
          [] pc[p] = "rloop" -> remotes
          [] pc[p] = "rupdate" -> remotes + 1
          [] pc[p] = "rscan" -> remotes + 2
          [] pc[p] = "rsync" -> remotes + 3
          [] pc[p] = "rstart" -> RemoteWork - 2
          [] pc[p] = "endscan" -> RemoteWork - 1
          [] pc[p] = "loop" -> locals
          [] pc[p] = "update" -> locals + 1
          [] pc[p] = "scan" -> locals + 2
          [] pc[p] = "acquire" -> LocalWork + 3
          [] pc[p] = "mark" -> LocalWork + 4
          [] pc[p] = "register" -> LocalWork + 5

(* Whatever a goroutine does brings it nearer to its end, and nothing that  *)
(* others do (other scans, updates, the stop button, a new scheduler, edits *)
(* of the configuration) takes it further away: no answer of a server, no   *)
(* cancellation and no skipped server makes a batch go round once more.     *)
ScanAdvances ==
    [][\A p \in Procs : /\ Step(p) => StepsLeft(p)' < StepsLeft(p)
                        /\ pc[p] # "idle" => StepsLeft(p)' <= StepsLeft(p)]_vars

(* Every accepted or refused scan comes to an end, stopped or not, whatever *)
(* the servers answer: no goroutine is left in a loop.                      *)
ScanTerminates == \A p \in Procs : pc[p] # "idle" ~> pc[p] = "idle"

=============================================================================
