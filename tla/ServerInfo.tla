----------------------------- MODULE ServerInfo -----------------------------
(***************************************************************************)
(* The reachability cache of internal/server/server_info.go: HTTP handlers *)
(* refresh the cache (refreshServerInfoCache) or ask for new checks        *)
(* (triggerServerInfoRefresh), worker goroutines take the checks from a    *)
(* bounded channel, ask the agent and write the answer back.  The map, and *)
(* the set of pending checks, are guarded by serverInfoMu, but a handler   *)
(* copies the map, works on the copy and puts the copy back, and a worker  *)
(* holds its copy of an entry across the call to the agent.                *)
(*                                                                         *)
(* Local servers are recomputed by every refresh and are left out.         *)
(***************************************************************************)
EXTENDS Naturals, Sequences, FiniteSets

CONSTANTS
    Handlers,   \* HTTP requests that may be in flight together
    Workers,    \* serverInfoWorker goroutines (serverInfoMaxConcurrency)
    Remotes,    \* names of remote servers
    Urls,       \* agent addresses
    NoUrl,      \* the empty address
    Absent,     \* not in the configuration
    NoJob,      \* no remote server in hand
    QueueSize,  \* serverInfoQueueBufferSize
    MaxEdits    \* bound on configuration changes

ASSUME InfoConstants ==
    /\ IsFiniteSet(Remotes)
    /\ NoUrl \notin Urls
    /\ QueueSize \in Nat /\ MaxEdits \in Nat

Addresses == Urls \cup {NoUrl}
Config == [url : Addresses, maint : BOOLEAN]      \* the part of config.RemoteServer that counts
Jobs == [name : Remotes, url : Addresses]         \* a config.RemoteServer in the channel
ASSUME InfoMarks == Absent \notin Config /\ NoJob \notin Jobs

Statuses == {"", "unknown", "online", "offline", "maintenance"}
Entries == [named : BOOLEAN, addr : Addresses, status : Statuses, checking : BOOLEAN]
ZeroEntry == [named |-> FALSE, addr |-> NoUrl, status |-> "", checking |-> FALSE]
NoEntries == [r \in Remotes |-> ZeroEntry]
NoServers == [r \in Remotes |-> Absent]

VARIABLES
    cfg,      \* remote servers of the stored configuration
    edits,    \* configuration changes so far
    info,     \* Server.serverInfo (an absent key reads as the zero entry)
    pending,  \* Server.serverInfoPending
    queue,    \* Server.serverInfoQueue
    pc,       \* where each handler is
    recheck,  \* handlers that run triggerServerInfoRefresh
    view,     \* the configuration each handler works with
    detached, \* handlers whose view no longer shares its array with the store
    prev,     \* the copy of the map a handler started from
    next,     \* the map it is building
    todo,     \* remotes it still has to go through
    job,      \* the remote it is having checked
    wpc, wjob, wentry \* where each worker is, its remote and its copy of the entry

cache == <<info, pending, queue>>
config == <<cfg, edits>>
handler == <<pc, recheck, view, detached, prev, next, todo, job>>
worker == <<wpc, wjob, wentry>>
vars == <<cache, config, handler, worker>>

HandlerPc == {"idle", "copy", "each", "enqueue", "mark", "check", "recheckEnqueue", "show"}
WorkerPc == {"idle", "got", "fetch"}

TypeOK ==
    /\ cfg \in [Remotes -> Config \cup {Absent}] /\ edits \in 0..MaxEdits
    /\ info \in [Remotes -> Entries] /\ pending \in SUBSET Remotes
    /\ queue \in Seq(Jobs) /\ Len(queue) <= QueueSize
    /\ pc \in [Handlers -> HandlerPc] /\ recheck \in SUBSET Handlers
    /\ view \in [Handlers -> [Remotes -> Config \cup {Absent}]] /\ detached \in SUBSET Handlers
    /\ prev \in [Handlers -> [Remotes -> Entries]] /\ next \in [Handlers -> [Remotes -> Entries]]
    /\ todo \in [Handlers -> SUBSET Remotes] /\ job \in [Handlers -> Jobs \cup {NoJob}]
    /\ wpc \in [Workers -> WorkerPc] /\ wjob \in [Workers -> Jobs \cup {NoJob}]
    /\ wentry \in [Workers -> Entries]

(* startServerInfoMonitor: no entry yet, nothing pending. *)
Init ==
    /\ cfg \in [Remotes -> Config \cup {Absent}] /\ edits = 0
    /\ info = NoEntries /\ pending = {} /\ queue = <<>>
    /\ pc = [p \in Handlers |-> "idle"] /\ recheck = {}
    /\ view = [p \in Handlers |-> NoServers] /\ detached = {}
    /\ prev = [p \in Handlers |-> NoEntries] /\ next = [p \in Handlers |-> NoEntries]
    /\ todo = [p \in Handlers |-> {}] /\ job = [p \in Handlers |-> NoJob]
    /\ wpc = [w \in Workers |-> "idle"] /\ wjob = [w \in Workers |-> NoJob]
    /\ wentry = [w \in Workers |-> ZeroEntry]

Configured(c) == {r \in Remotes : c[r] # Absent}
JobOf(p, r) == [name |-> r, url |-> view[p][r].url]
Goto(p, label) == pc' = [pc EXCEPT ![p] = label]

-----------------------------------------------------------------------------
(* Handlers that read or change the configuration and then refresh *)

(* GET /api/servers/info or a new event stream. *)
InfoRequest(p) ==
    /\ pc[p] = "idle"
    /\ view' = [view EXCEPT ![p] = cfg]
    /\ detached' = detached \ {p}
    /\ Goto(p, "copy")
    /\ UNCHANGED <<cache, config, recheck, prev, next, todo, job, worker>>

(* POST /api/servers/refresh. *)
RecheckRequest(p) ==
    /\ pc[p] = "idle"
    /\ view' = [view EXCEPT ![p] = cfg]
    /\ detached' = detached \ {p}
    /\ recheck' = recheck \cup {p}
    /\ Goto(p, "copy")
    /\ UNCHANGED <<cache, config, prev, next, todo, job, worker>>

(* POST /api/servers for a known name: upsertServer writes the array that   *)
(* the handlers in flight also hold.                                        *)
EditServer(p, r, c) ==
    /\ pc[p] = "idle" /\ edits < MaxEdits
    /\ cfg[r] # Absent /\ cfg[r] # c
    /\ cfg' = [cfg EXCEPT ![r] = c]
    /\ edits' = edits + 1
    /\ view' = [q \in Handlers |->
           IF q = p THEN cfg'
           ELSE IF q \in detached \/ view[q][r] = Absent THEN view[q]
           ELSE [view[q] EXCEPT ![r] = c]]
    /\ detached' = detached \ {p}
    /\ Goto(p, "copy")
    /\ UNCHANGED <<cache, recheck, prev, next, todo, job, worker>>

(* POST /api/servers for a new name: append may or may not move the array.  *)
AddServer(p, r, c) ==
    /\ pc[p] = "idle" /\ edits < MaxEdits
    /\ cfg[r] = Absent
    /\ cfg' = [cfg EXCEPT ![r] = c]
    /\ edits' = edits + 1
    /\ view' = [view EXCEPT ![p] = cfg']
    /\ \E moved \in BOOLEAN : detached' = IF moved THEN Handlers \ {p} ELSE detached \ {p}
    /\ Goto(p, "copy")
    /\ UNCHANGED <<cache, recheck, prev, next, todo, job, worker>>

(* DELETE /api/servers/<name>: removeServer builds a new array. *)
RemoveServer(p, r) ==
    /\ pc[p] = "idle" /\ edits < MaxEdits
    /\ cfg[r] # Absent
    /\ cfg' = [cfg EXCEPT ![r] = Absent]
    /\ edits' = edits + 1
    /\ view' = [view EXCEPT ![p] = cfg']
    /\ detached' = Handlers \ {p}
    /\ Goto(p, "copy")
    /\ UNCHANGED <<cache, recheck, prev, next, todo, job, worker>>

-----------------------------------------------------------------------------
(* refreshServerInfoCache *)

(* The map is copied under the read lock. *)
CopyInfo(p) ==
    /\ pc[p] = "copy"
    /\ prev' = [prev EXCEPT ![p] = info]
    /\ todo' = [todo EXCEPT ![p] = Configured(view[p])]
    /\ Goto(p, "each")
    /\ UNCHANGED <<cache, config, recheck, view, detached, next, job, worker>>

(* The status was never determined, or not for this address. *)
NeedsCheck(p, r) ==
    /\ ~view[p][r].maint /\ view[p][r].url # NoUrl
    /\ \/ prev[p][r].status \in {"", "maintenance"}
       \/ prev[p][r].addr # view[p][r].url

Entry(p, r, status, checking) ==
    [named |-> TRUE, addr |-> view[p][r].url, status |-> status, checking |-> checking]

KeptEntry(p, r) ==
    IF view[p][r].maint THEN Entry(p, r, "maintenance", FALSE)
    ELSE IF view[p][r].url = NoUrl THEN Entry(p, r, "offline", FALSE)
    ELSE Entry(p, r, prev[p][r].status, prev[p][r].checking)

RefreshKeeps(p, r) ==
    /\ pc[p] = "each" /\ r \in todo[p]
    /\ ~NeedsCheck(p, r)
    /\ next' = [next EXCEPT ![p][r] = KeptEntry(p, r)]
    /\ todo' = [todo EXCEPT ![p] = @ \ {r}]
    /\ UNCHANGED <<cache, config, pc, recheck, view, detached, prev, job, worker>>

(* ensureRemoteCheck finds a check of this name already pending. *)
RefreshFindsPending(p, r) ==
    /\ pc[p] = "each" /\ r \in todo[p]
    /\ NeedsCheck(p, r) /\ r \in pending
    /\ next' = [next EXCEPT ![p][r] = Entry(p, r, "unknown", TRUE)]
    /\ todo' = [todo EXCEPT ![p] = @ \ {r}]
    /\ UNCHANGED <<cache, config, pc, recheck, view, detached, prev, job, worker>>

(* ensureRemoteCheck marks the check as pending before it is in the queue. *)
RefreshReserves(p, r) ==
    /\ pc[p] = "each" /\ r \in todo[p]
    /\ NeedsCheck(p, r) /\ r \notin pending
    /\ pending' = pending \cup {r}
    /\ job' = [job EXCEPT ![p] = JobOf(p, r)]
    /\ todo' = [todo EXCEPT ![p] = @ \ {r}]
    /\ Goto(p, "enqueue")
    /\ UNCHANGED <<info, queue, config, recheck, view, detached, prev, next, worker>>

(* The entry the refresh builds once ensureRemoteCheck has answered.        *)
BuildUnknown(p, queued) ==
    next' = [next EXCEPT ![p][job[p].name] =
                [named |-> TRUE, addr |-> job[p].url, status |-> "unknown", checking |-> queued]]

(* The non-blocking send: it succeeds, or the reservation is taken back.    *)
RefreshEnqueues(p) ==
    /\ pc[p] = "enqueue" /\ Len(queue) < QueueSize
    /\ queue' = Append(queue, job[p])
    /\ BuildUnknown(p, TRUE)
    /\ job' = [job EXCEPT ![p] = NoJob]
    /\ Goto(p, "each")
    /\ UNCHANGED <<info, pending, config, recheck, view, detached, prev, todo, worker>>

(* Mutant: the reservation is not taken back. *)
RefreshLeaksPending(p) ==
    /\ pc[p] = "enqueue" /\ Len(queue) = QueueSize
    /\ BuildUnknown(p, FALSE)
    /\ job' = [job EXCEPT ![p] = NoJob]
    /\ Goto(p, "each")
    /\ UNCHANGED <<cache, config, recheck, view, detached, prev, todo, worker>>

RefreshQueueFull(p) ==
    /\ pc[p] = "enqueue" /\ Len(queue) = QueueSize
    /\ pending' = pending \ {job[p].name}
    /\ BuildUnknown(p, FALSE)
    /\ job' = [job EXCEPT ![p] = NoJob]
    /\ Goto(p, "each")
    /\ UNCHANGED <<info, queue, config, recheck, view, detached, prev, todo, worker>>

(* The copy replaces the map: what happened to the map meanwhile is lost.   *)
RefreshSwaps(p) ==
    /\ pc[p] = "each" /\ todo[p] = {}
    /\ info' = [r \in Remotes |-> IF view[p][r] # Absent THEN next[p][r] ELSE ZeroEntry]
    /\ prev' = [prev EXCEPT ![p] = NoEntries]
    /\ next' = [next EXCEPT ![p] = NoEntries]
    /\ view' = [view EXCEPT ![p] = IF p \in recheck THEN @ ELSE NoServers]
    /\ Goto(p, IF p \in recheck THEN "mark" ELSE "idle")
    /\ UNCHANGED <<pending, queue, config, recheck, detached, todo, job, worker>>

-----------------------------------------------------------------------------
(* triggerServerInfoRefresh, after the refresh *)

ToCheck(p) == {r \in Configured(view[p]) : ~view[p][r].maint /\ view[p][r].url # NoUrl}

MarkedEntry(p, r) ==
    IF view[p][r].maint THEN Entry(p, r, "maintenance", FALSE)
    ELSE IF view[p][r].url = NoUrl THEN Entry(p, r, "offline", FALSE)
    ELSE Entry(p, r, info[r].status, FALSE)

RecheckMarks(p) ==
    /\ pc[p] = "mark"
    /\ info' = [r \in Remotes |-> IF view[p][r] # Absent THEN MarkedEntry(p, r) ELSE info[r]]
    /\ todo' = [todo EXCEPT ![p] = ToCheck(p)]
    /\ Goto(p, "check")
    /\ UNCHANGED <<pending, queue, config, recheck, view, detached, prev, next, job, worker>>

RecheckFindsPending(p, r) ==
    /\ pc[p] = "check" /\ r \in todo[p]
    /\ r \in pending
    /\ job' = [job EXCEPT ![p] = JobOf(p, r)]
    /\ todo' = [todo EXCEPT ![p] = @ \ {r}]
    /\ Goto(p, "show")
    /\ UNCHANGED <<cache, config, recheck, view, detached, prev, next, worker>>

RecheckReserves(p, r) ==
    /\ pc[p] = "check" /\ r \in todo[p]
    /\ r \notin pending
    /\ pending' = pending \cup {r}
    /\ job' = [job EXCEPT ![p] = JobOf(p, r)]
    /\ todo' = [todo EXCEPT ![p] = @ \ {r}]
    /\ Goto(p, "recheckEnqueue")
    /\ UNCHANGED <<info, queue, config, recheck, view, detached, prev, next, worker>>

RecheckEnqueues(p) ==
    /\ pc[p] = "recheckEnqueue" /\ Len(queue) < QueueSize
    /\ queue' = Append(queue, job[p])
    /\ Goto(p, "show")
    /\ UNCHANGED <<info, pending, config, recheck, view, detached, prev, next, todo, job, worker>>

RecheckQueueFull(p) ==
    /\ pc[p] = "recheckEnqueue" /\ Len(queue) = QueueSize
    /\ pending' = pending \ {job[p].name}
    /\ job' = [job EXCEPT ![p] = NoJob]
    /\ Goto(p, "check")
    /\ UNCHANGED <<info, queue, config, recheck, view, detached, prev, next, todo, worker>>

(* A critical section of its own shows the server as being checked. *)
RecheckShows(p) ==
    /\ pc[p] = "show"
    /\ info' = [info EXCEPT ![job[p].name].checking = TRUE]
    /\ job' = [job EXCEPT ![p] = NoJob]
    /\ Goto(p, "check")
    /\ UNCHANGED <<pending, queue, config, recheck, view, detached, prev, next, todo, worker>>

RecheckReturns(p) ==
    /\ pc[p] = "check" /\ todo[p] = {}
    /\ recheck' = recheck \ {p}
    /\ view' = [view EXCEPT ![p] = NoServers]
    /\ Goto(p, "idle")
    /\ UNCHANGED <<cache, config, detached, prev, next, todo, job, worker>>

-----------------------------------------------------------------------------
(* serverInfoWorker *)

WorkerReceives(w) ==
    /\ wpc[w] = "idle" /\ queue # <<>>
    /\ wjob' = [wjob EXCEPT ![w] = Head(queue)]
    /\ queue' = Tail(queue)
    /\ wpc' = [wpc EXCEPT ![w] = "got"]
    /\ UNCHANGED <<info, pending, config, handler, wentry>>

(* The entry is copied, shown as being checked, and kept over the call. *)
WorkerStarts(w) ==
    /\ wpc[w] = "got"
    /\ LET r == wjob[w].name
           e == IF info[r].named THEN info[r]
                ELSE [ZeroEntry EXCEPT !.named = TRUE, !.addr = wjob[w].url]
           entry == [e EXCEPT !.checking = TRUE]
       IN  /\ wentry' = [wentry EXCEPT ![w] = entry]
           /\ info' = [info EXCEPT ![r] = entry]
    /\ wpc' = [wpc EXCEPT ![w] = "fetch"]
    /\ UNCHANGED <<pending, queue, config, handler, wjob>>

(* Mutant: the pending mark outlives the check. *)
WorkerForgetsPending(w, status) ==
    /\ wpc[w] = "fetch"
    /\ info' = [info EXCEPT ![wjob[w].name] =
           [wentry[w] EXCEPT !.addr = wjob[w].url, !.status = status, !.checking = FALSE]]
    /\ wpc' = [wpc EXCEPT ![w] = "idle"]
    /\ wjob' = [wjob EXCEPT ![w] = NoJob]
    /\ wentry' = [wentry EXCEPT ![w] = ZeroEntry]
    /\ UNCHANGED <<pending, queue, config, handler>>

(* The agent answered, or not.  A server in maintenance is never sent to    *)
(* the queue, so the answer is "online" or "offline".                       *)
WorkerFinishes(w, status) ==
    /\ wpc[w] = "fetch"
    /\ info' = [info EXCEPT ![wjob[w].name] =
           [wentry[w] EXCEPT !.addr = wjob[w].url, !.status = status, !.checking = FALSE]]
    /\ pending' = pending \ {wjob[w].name}
    /\ wpc' = [wpc EXCEPT ![w] = "idle"]
    /\ wjob' = [wjob EXCEPT ![w] = NoJob]
    /\ wentry' = [wentry EXCEPT ![w] = ZeroEntry]
    /\ UNCHANGED <<queue, config, handler>>

-----------------------------------------------------------------------------
Request(p) ==
    \/ InfoRequest(p) \/ RecheckRequest(p)
    \/ \E r \in Remotes, c \in [url : Urls, maint : BOOLEAN] : EditServer(p, r, c) \/ AddServer(p, r, c)
    \/ \E r \in Remotes : RemoveServer(p, r)

RefreshStep(p) ==
    \/ CopyInfo(p)
    \/ \E r \in Remotes : RefreshKeeps(p, r) \/ RefreshFindsPending(p, r) \/ RefreshReserves(p, r)
    \/ RefreshEnqueues(p) \/ RefreshQueueFull(p) \/ RefreshSwaps(p)

RecheckStep(p) ==
    \/ RecheckMarks(p)
    \/ \E r \in Remotes : RecheckFindsPending(p, r) \/ RecheckReserves(p, r)
    \/ RecheckEnqueues(p) \/ RecheckQueueFull(p) \/ RecheckShows(p) \/ RecheckReturns(p)

HandlerStep(p) == RefreshStep(p) \/ RecheckStep(p)

WorkerStep(w) ==
    \/ WorkerReceives(w) \/ WorkerStarts(w)
    \/ \E status \in {"online", "offline"} : WorkerFinishes(w, status)

Next ==
    \/ \E p \in Handlers : Request(p) \/ HandlerStep(p)
    \/ \E w \in Workers : WorkerStep(w)

Spec == Init /\ [][Next]_vars

(* Handlers and workers run; the call to an agent has a 5 s timeout.        *)
FairSpec ==
    /\ Spec
    /\ \A p \in Handlers : WF_vars(HandlerStep(p))
    /\ \A w \in Workers : WF_vars(WorkerStep(w))

-----------------------------------------------------------------------------
(* Properties *)

(* Who is responsible for the pending check of r: a handler about to send   *)
(* it, a place in the queue, or a worker.                                   *)
Senders(r) == {p \in Handlers : pc[p] \in {"enqueue", "recheckEnqueue"} /\ job[p].name = r}
Places(r) == {i \in 1..Len(queue) : queue[i].name = r}
Checkers(r) == {w \in Workers : wpc[w] # "idle" /\ wjob[w].name = r}

(* The pending mark is the lock of a check: it is up exactly while one, and *)
(* only one, handler, queue place or worker carries the check.  So no agent *)
(* is checked twice at once, a full queue leaves no mark behind that would  *)
(* keep the server from ever being checked again, and no check is lost.     *)
PendingExact ==
    \A r \in Remotes :
        /\ r \in pending <=> Senders(r) # {} \/ Places(r) # {} \/ Checkers(r) # {}
        /\ \A p, q \in Senders(r) : p = q
        /\ \A i, j \in Places(r) : i = j
        /\ \A v, w \in Checkers(r) : v = w
        /\ Senders(r) # {} => Places(r) = {} /\ Checkers(r) = {}
        /\ Places(r) # {} => Checkers(r) = {}

(* Every check that is scheduled is carried out or given up.                *)
PendingServed == \A r \in Remotes : r \in pending ~> r \notin pending

=============================================================================
