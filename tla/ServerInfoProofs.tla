-------------------------- MODULE ServerInfoProofs --------------------------
(***************************************************************************)
(* Proofs about ServerInfo, for any number of requests, workers, servers   *)
(* and any queue size: the types, and the exactness of the pending marks.  *)
(* The page that shows the status of the servers (WebScan) follows: its    *)
(* types, what it polls for, what it asks for and what it tells.           *)
(*                                                                         *)
(* PendingExact speaks of the remote a handler or a worker has in hand, so *)
(* the induction needs that they have one when they use it (InHand), which *)
(* in turn needs that a handler only goes through servers of the           *)
(* configuration it holds (TodoConfigured).                                *)
(***************************************************************************)
EXTENDS ServerInfo, WebScan, TLAPS

SendPc == {"enqueue", "recheckEnqueue"}

(* A handler goes through servers of its own view, and a handler between    *)
(* requests, or before its loops, has nothing left to go through.           *)
TodoConfigured ==
    \A p \in Handlers :
        /\ \A r \in todo[p] : view[p][r] # Absent
        /\ pc[p] \in {"idle", "copy", "mark"} => todo[p] = {}

(* Whoever carries a check knows which one. *)
InHand ==
    /\ \A p \in Handlers : pc[p] \in SendPc \cup {"show"} => job[p] # NoJob
    /\ \A w \in Workers : wpc[w] # "idle" => wjob[w] # NoJob

IndInv == TypeOK /\ TodoConfigured /\ InHand /\ PendingExact

-----------------------------------------------------------------------------
(* What a step can do to the checks under way. *)

(* Only handler p changes place or takes a remote in hand. *)
OnlyHandler(p) ==
    \A q \in Handlers \ {p} : pc'[q] = pc[q] /\ job'[q] = job[q]

NoToken ==
    /\ UNCHANGED <<pending, queue, worker>>
    /\ \E p \in Handlers : /\ OnlyHandler(p)
                           /\ pc[p] \notin SendPc /\ pc'[p] \notin SendPc

Reserve ==
    \E p \in Handlers, r \in Remotes :
        /\ OnlyHandler(p) /\ pc[p] \notin SendPc /\ pc'[p] \in SendPc /\ job'[p].name = r
        /\ r \notin pending /\ pending' = pending \cup {r}
        /\ UNCHANGED <<queue, worker>>

Send ==
    \E p \in Handlers :
        /\ OnlyHandler(p) /\ pc[p] \in SendPc /\ pc'[p] \notin SendPc
        /\ queue' = Append(queue, job[p])
        /\ UNCHANGED <<pending, worker>>

Drop ==
    \E p \in Handlers :
        /\ OnlyHandler(p) /\ pc[p] \in SendPc /\ pc'[p] \notin SendPc
        /\ pending' = pending \ {job[p].name}
        /\ UNCHANGED <<queue, worker>>

Receive ==
    \E w \in Workers :
        /\ queue # <<>> /\ queue' = Tail(queue)
        /\ wpc[w] = "idle" /\ wpc' = [wpc EXCEPT ![w] = "got"]
        /\ wjob' = [wjob EXCEPT ![w] = Head(queue)]
        /\ UNCHANGED <<pending, pc, job>>

Start ==
    \E w \in Workers :
        /\ wpc[w] = "got" /\ wpc' = [wpc EXCEPT ![w] = "fetch"]
        /\ UNCHANGED <<pending, queue, pc, job, wjob>>

Finish ==
    \E w \in Workers :
        /\ wpc[w] = "fetch" /\ wpc' = [wpc EXCEPT ![w] = "idle"]
        /\ wjob' = [wjob EXCEPT ![w] = NoJob]
        /\ pending' = pending \ {wjob[w].name}
        /\ UNCHANGED <<queue, pc, job>>

Still == UNCHANGED <<pending, queue, pc, job, wpc, wjob>>

TokenStep == Still \/ NoToken \/ Reserve \/ Send \/ Drop \/ Receive \/ Start \/ Finish

-----------------------------------------------------------------------------
(* Every action of the cache is one of these steps. *)
LEMMA EveryStepIsATokenStep ==
    ASSUME TypeOK, [Next]_vars
    PROVE  TokenStep
<1> USE DEF TokenStep, OnlyHandler, SendPc, HandlerPc, cache, Goto
<1>1. ASSUME NEW p \in Handlers, Request(p) PROVE NoToken
    BY <1>1 DEF Request, InfoRequest, RecheckRequest, EditServer, AddServer, RemoveServer, NoToken,
                TypeOK
<1>2. ASSUME NEW p \in Handlers, RefreshStep(p) PROVE NoToken \/ Reserve \/ Send \/ Drop
  <2>1. CASE CopyInfo(p) \/ RefreshSwaps(p)
    BY <2>1 DEF CopyInfo, RefreshSwaps, NoToken, TypeOK
  <2>2. CASE \E r \in Remotes : RefreshKeeps(p, r) \/ RefreshFindsPending(p, r)
    BY <2>2 DEF RefreshKeeps, RefreshFindsPending, NoToken, TypeOK
  <2>3. CASE \E r \in Remotes : RefreshReserves(p, r)
    <3>1. PICK r \in Remotes : RefreshReserves(p, r)
        BY <2>3
    <3>2. pc[p] \notin SendPc /\ pc'[p] \in SendPc /\ job'[p].name = r /\ OnlyHandler(p)
        BY <3>1 DEF RefreshReserves, JobOf, TypeOK
    <3> QED
        BY <3>1, <3>2 DEF RefreshReserves, Reserve
  <2>4. CASE RefreshEnqueues(p)
    BY <2>4 DEF RefreshEnqueues, Send, TypeOK
  <2>5. CASE RefreshQueueFull(p)
    BY <2>5 DEF RefreshQueueFull, Drop, TypeOK
  <2> QED
    BY <1>2, <2>1, <2>2, <2>3, <2>4, <2>5 DEF RefreshStep
<1>3. ASSUME NEW p \in Handlers, RecheckStep(p) PROVE NoToken \/ Reserve \/ Send \/ Drop
  <2>1. CASE RecheckMarks(p) \/ RecheckShows(p) \/ RecheckReturns(p)
    BY <2>1 DEF RecheckMarks, RecheckShows, RecheckReturns, NoToken, TypeOK
  <2>2. CASE \E r \in Remotes : RecheckFindsPending(p, r)
    BY <2>2 DEF RecheckFindsPending, NoToken, TypeOK
  <2>3. CASE \E r \in Remotes : RecheckReserves(p, r)
    <3>1. PICK r \in Remotes : RecheckReserves(p, r)
        BY <2>3
    <3>2. pc[p] \notin SendPc /\ pc'[p] \in SendPc /\ job'[p].name = r /\ OnlyHandler(p)
        BY <3>1 DEF RecheckReserves, JobOf, TypeOK
    <3> QED
        BY <3>1, <3>2 DEF RecheckReserves, Reserve
  <2>4. CASE RecheckEnqueues(p)
    BY <2>4 DEF RecheckEnqueues, Send, TypeOK
  <2>5. CASE RecheckQueueFull(p)
    BY <2>5 DEF RecheckQueueFull, Drop, TypeOK
  <2> QED
    BY <1>3, <2>1, <2>2, <2>3, <2>4, <2>5 DEF RecheckStep
<1>4. ASSUME NEW w \in Workers, WorkerStep(w) PROVE Receive \/ Start \/ Finish
    BY <1>4 DEF WorkerStep, WorkerReceives, WorkerStarts, WorkerFinishes, Receive, Start, Finish,
                handler
<1>5. CASE UNCHANGED vars
    BY <1>5 DEF vars, handler, worker, Still
<1> QED
    BY <1>1, <1>2, <1>3, <1>4, <1>5 DEF Next, HandlerStep

-----------------------------------------------------------------------------
(* Whoever is about to send, or is checking, has a remote in hand. *)
LEMMA InHandStep ==
    ASSUME TypeOK, InHand, TodoConfigured, [Next]_vars
    PROVE  InHand'
<1> USE DEF TypeOK, InHand, SendPc, Goto, cache, handler, worker
<1>1. ASSUME NEW p \in Handlers, Request(p) PROVE InHand'
    BY <1>1 DEF Request, InfoRequest, RecheckRequest, EditServer, AddServer, RemoveServer
<1>2. ASSUME NEW p \in Handlers, NEW r \in todo[p] PROVE JobOf(p, r) # NoJob
    BY InfoMarks, <1>2 DEF TodoConfigured, JobOf, Config, Jobs
<1>3. ASSUME NEW p \in Handlers, RefreshStep(p) PROVE InHand'
  <2>1. CASE CopyInfo(p) \/ RefreshSwaps(p) \/ RefreshEnqueues(p) \/ RefreshQueueFull(p)
    BY <2>1 DEF CopyInfo, RefreshSwaps, RefreshEnqueues, RefreshQueueFull
  <2>2. CASE \E r \in Remotes : RefreshKeeps(p, r) \/ RefreshFindsPending(p, r)
    BY <2>2 DEF RefreshKeeps, RefreshFindsPending
  <2>3. CASE \E r \in Remotes : RefreshReserves(p, r)
    BY <2>3, <1>2 DEF RefreshReserves
  <2> QED
    BY <1>3, <2>1, <2>2, <2>3 DEF RefreshStep
<1>4. ASSUME NEW p \in Handlers, RecheckStep(p) PROVE InHand'
  <2>1. CASE RecheckMarks(p) \/ RecheckShows(p) \/ RecheckReturns(p)
             \/ RecheckEnqueues(p) \/ RecheckQueueFull(p)
    BY <2>1 DEF RecheckMarks, RecheckShows, RecheckReturns, RecheckEnqueues, RecheckQueueFull
  <2>2. CASE \E r \in Remotes : RecheckFindsPending(p, r) \/ RecheckReserves(p, r)
    <3>1. PICK r \in Remotes : RecheckFindsPending(p, r) \/ RecheckReserves(p, r)
        BY <2>2
    <3>2. JobOf(p, r) # NoJob
        BY <3>1, <1>2 DEF RecheckFindsPending, RecheckReserves
    <3>3. CASE RecheckFindsPending(p, r)
        BY <3>3, <3>2 DEF RecheckFindsPending
    <3>4. CASE RecheckReserves(p, r)
        BY <3>4, <3>2 DEF RecheckReserves
    <3> QED
        BY <3>1, <3>3, <3>4
  <2> QED
    BY <1>4, <2>1, <2>2 DEF RecheckStep
<1>5. ASSUME NEW w \in Workers, WorkerStep(w) PROVE InHand'
  <2>1. CASE WorkerReceives(w)
    <3>1. Head(queue) \in Jobs
        BY <2>1 DEF WorkerReceives
    <3> QED
        BY <2>1, <3>1, InfoMarks DEF WorkerReceives
  <2>2. CASE WorkerStarts(w) \/ \E st \in {"online", "offline"} : WorkerFinishes(w, st)
    BY <2>2 DEF WorkerStarts, WorkerFinishes
  <2> QED
    BY <1>5, <2>1, <2>2 DEF WorkerStep
<1>6. CASE UNCHANGED vars
    BY <1>6 DEF vars
<1> QED
    BY <1>1, <1>3, <1>4, <1>5, <1>6 DEF Next, HandlerStep

(* Taking a server off the list of a handler leaves servers of its view. *)
LEMMA TodoShrinks ==
    ASSUME TypeOK, NEW p \in Handlers, NEW r, todo' = [todo EXCEPT ![p] = todo[p] \ {r}]
    PROVE  \A q \in Handlers : todo'[q] \subseteq todo[q]
<1>1. todo \in [Handlers -> SUBSET Remotes]
    BY DEF TypeOK
<1> QED
    BY <1>1

(* A handler goes through what its own view holds, also when another        *)
(* handler edits the shared array under it.                                 *)
LEMMA TodoStep ==
    ASSUME TypeOK, TodoConfigured, [Next]_vars
    PROVE  TodoConfigured'
<1> USE InfoMarks DEF TypeOK, TodoConfigured, Goto, cache, handler, worker, config, Configured
<1>1. ASSUME NEW p \in Handlers, InfoRequest(p) \/ RecheckRequest(p) PROVE TodoConfigured'
    BY <1>1 DEF InfoRequest, RecheckRequest
<1>2. ASSUME NEW p \in Handlers, NEW r \in Remotes, NEW c \in Config, EditServer(p, r, c)
      PROVE TodoConfigured'
    BY <1>2 DEF EditServer
<1>3. ASSUME NEW p \in Handlers, NEW r \in Remotes,
             RemoveServer(p, r) \/ \E c \in Config : AddServer(p, r, c)
      PROVE TodoConfigured'
    BY <1>3 DEF AddServer, RemoveServer
<1>4. ASSUME NEW p \in Handlers, RefreshStep(p) PROVE TodoConfigured'
  <2>1. CASE CopyInfo(p)
    <3>1. todo'[p] = Configured(view[p]) /\ \A q \in Handlers \ {p} : todo'[q] = todo[q]
        BY <2>1 DEF CopyInfo
    <3> QED
        BY <2>1, <3>1 DEF CopyInfo
  <2>2. CASE RefreshSwaps(p)
    BY <2>2 DEF RefreshSwaps
  <2>3. CASE RefreshEnqueues(p) \/ RefreshQueueFull(p)
    BY <2>3 DEF RefreshEnqueues, RefreshQueueFull
  <2>4. ASSUME NEW r \in Remotes,
               RefreshKeeps(p, r) \/ RefreshFindsPending(p, r) \/ RefreshReserves(p, r)
        PROVE  TodoConfigured'
    <3>0. todo' = [todo EXCEPT ![p] = todo[p] \ {r}]
        BY <2>4 DEF RefreshKeeps, RefreshFindsPending, RefreshReserves
    <3>1. \A q \in Handlers : todo'[q] \subseteq todo[q]
        BY <3>0, TodoShrinks
    <3>2. view' = view /\ pc'[p] \notin {"idle", "copy", "mark"}
            /\ \A q \in Handlers \ {p} : pc'[q] = pc[q]
        BY <2>4 DEF RefreshKeeps, RefreshFindsPending, RefreshReserves
    <3> QED
        BY <3>1, <3>2
  <2> QED
    BY <1>4, <2>1, <2>2, <2>3, <2>4 DEF RefreshStep
<1>5. ASSUME NEW p \in Handlers, RecheckStep(p) PROVE TodoConfigured'
  <2>1. CASE RecheckMarks(p)
    <3>1. todo'[p] \subseteq Configured(view[p]) /\ \A q \in Handlers \ {p} : todo'[q] = todo[q]
        BY <2>1 DEF RecheckMarks, ToCheck
    <3> QED
        BY <2>1, <3>1 DEF RecheckMarks
  <2>2. CASE RecheckReturns(p)
    BY <2>2 DEF RecheckReturns
  <2>3. CASE RecheckShows(p) \/ RecheckEnqueues(p) \/ RecheckQueueFull(p)
    BY <2>3 DEF RecheckShows, RecheckEnqueues, RecheckQueueFull
  <2>4. ASSUME NEW r \in Remotes, RecheckFindsPending(p, r) \/ RecheckReserves(p, r)
        PROVE  TodoConfigured'
    <3>0. todo' = [todo EXCEPT ![p] = todo[p] \ {r}]
        BY <2>4 DEF RecheckFindsPending, RecheckReserves
    <3>1. \A q \in Handlers : todo'[q] \subseteq todo[q]
        BY <3>0, TodoShrinks
    <3>2. view' = view /\ pc'[p] \notin {"idle", "copy", "mark"}
            /\ \A q \in Handlers \ {p} : pc'[q] = pc[q]
        BY <2>4 DEF RecheckFindsPending, RecheckReserves
    <3> QED
        BY <3>1, <3>2
  <2> QED
    BY <1>5, <2>1, <2>2, <2>3, <2>4 DEF RecheckStep
<1>6. ASSUME NEW w \in Workers, WorkerStep(w) PROVE TodoConfigured'
    BY <1>6 DEF WorkerStep, WorkerReceives, WorkerStarts, WorkerFinishes
<1>7. CASE UNCHANGED vars
    BY <1>7 DEF vars
<1>8. [url : Urls, maint : BOOLEAN] \subseteq Config
    BY DEF Config, Addresses
<1> HIDE DEF TodoConfigured, TypeOK
<1>9. ASSUME NEW p \in Handlers, Request(p) PROVE TodoConfigured'
    BY <1>9, <1>1, <1>2, <1>3, <1>8 DEF Request
<1> QED
    BY <1>4, <1>5, <1>6, <1>7, <1>9 DEF Next, HandlerStep

-----------------------------------------------------------------------------
(* What Append and Tail do to the places of the queue. *)
LEMMA AppendPlaces ==
    ASSUME queue \in Seq(Jobs), NEW j \in Jobs, queue' = Append(queue, j), NEW r
    PROVE  Places(r)' = IF j.name = r THEN Places(r) \cup {Len(queue) + 1} ELSE Places(r)
<1>1. Len(queue') = Len(queue) + 1 /\ Len(queue) \in Nat
    OBVIOUS
<1>2. \A i \in 1..Len(queue) : queue'[i] = queue[i]
    OBVIOUS
<1>3. queue'[Len(queue) + 1] = j
    OBVIOUS
<1>4. 1..(Len(queue) + 1) = 1..Len(queue) \cup {Len(queue) + 1}
    BY <1>1
<1> QED
    BY <1>1, <1>2, <1>3, <1>4 DEF Places

(* Receiving from the channel moves every place up by one. *)
LEMMA TailPlaces ==
    ASSUME queue \in Seq(Jobs), queue # <<>>, queue' = Tail(queue), NEW r
    PROVE  /\ \A i \in Places(r)' : i + 1 \in Places(r)
           /\ \A i \in Places(r) : i # 1 => i - 1 \in Places(r)'
           /\ 1 \in Places(r) <=> Head(queue).name = r
<1>1. Len(queue) \in Nat \ {0} /\ Len(queue') = Len(queue) - 1
    OBVIOUS
<1>2. \A i \in 1..Len(queue') : queue'[i] = queue[i + 1]
    OBVIOUS
<1>3. Head(queue) = queue[1]
    OBVIOUS
<1> QED
    BY <1>1, <1>2, <1>3 DEF Places

-----------------------------------------------------------------------------
(* The pending marks stay exact, token step by token step, for one remote.  *)
ExactFor(r) ==
    /\ r \in pending <=> Senders(r) # {} \/ Places(r) # {} \/ Checkers(r) # {}
    /\ \A p, q \in Senders(r) : p = q
    /\ \A i, j \in Places(r) : i = j
    /\ \A v, w \in Checkers(r) : v = w
    /\ Senders(r) # {} => Places(r) = {} /\ Checkers(r) = {}
    /\ Places(r) # {} => Checkers(r) = {}

(* No step breaks the exactness of the pending mark of one server. *)
LEMMA ExactStep ==
    ASSUME TypeOK, InHand, NEW r \in Remotes, ExactFor(r), TokenStep
    PROVE  ExactFor(r)'
<1>1. CASE Still
    BY <1>1 DEF Still, ExactFor, Senders, Places, Checkers
<1>2. CASE NoToken
  <2>1. Senders(r)' = Senders(r)
    BY <1>2 DEF NoToken, OnlyHandler, Senders, SendPc
  <2>2. Places(r)' = Places(r) /\ Checkers(r)' = Checkers(r) /\ pending' = pending
    BY <1>2 DEF NoToken, worker, Places, Checkers
  <2> QED
    BY <2>1, <2>2 DEF ExactFor
<1>3. CASE Reserve
  <2>1. PICK p \in Handlers, s \in Remotes :
            /\ OnlyHandler(p) /\ pc[p] \notin SendPc /\ pc'[p] \in SendPc /\ job'[p].name = s
            /\ s \notin pending /\ pending' = pending \cup {s}
            /\ UNCHANGED <<queue, worker>>
    BY <1>3 DEF Reserve
  <2>2. Senders(r)' = IF s = r THEN Senders(r) \cup {p} ELSE Senders(r)
    BY <2>1 DEF OnlyHandler, Senders, SendPc
  <2>3. Places(r)' = Places(r) /\ Checkers(r)' = Checkers(r)
    BY <2>1 DEF worker, Places, Checkers
  <2> QED
    BY <2>1, <2>2, <2>3 DEF ExactFor
<1>4. CASE Send
  <2>1. PICK p \in Handlers :
            /\ OnlyHandler(p) /\ pc[p] \in SendPc /\ pc'[p] \notin SendPc
            /\ queue' = Append(queue, job[p])
            /\ UNCHANGED <<pending, worker>>
    BY <1>4 DEF Send
  <2>2. job[p] \in Jobs /\ queue \in Seq(Jobs)
    BY <2>1 DEF TypeOK, InHand
  <2>3. Senders(r)' = Senders(r) \ {p} /\ (p \in Senders(r) <=> job[p].name = r)
    BY <2>1 DEF OnlyHandler, Senders, SendPc
  <2>4. Places(r)' = IF job[p].name = r THEN Places(r) \cup {Len(queue) + 1} ELSE Places(r)
    BY <2>1, <2>2, AppendPlaces
  <2>5. Checkers(r)' = Checkers(r) /\ pending' = pending
    BY <2>1 DEF worker, Checkers
  <2> QED
    BY <2>3, <2>4, <2>5 DEF ExactFor
<1>5. CASE Drop
  <2>1. PICK p \in Handlers :
            /\ OnlyHandler(p) /\ pc[p] \in SendPc /\ pc'[p] \notin SendPc
            /\ pending' = pending \ {job[p].name}
            /\ UNCHANGED <<queue, worker>>
    BY <1>5 DEF Drop
  <2>2. Senders(r)' = Senders(r) \ {p} /\ (p \in Senders(r) <=> job[p].name = r)
    BY <2>1 DEF OnlyHandler, Senders, SendPc
  <2>3. Places(r)' = Places(r) /\ Checkers(r)' = Checkers(r)
    BY <2>1 DEF worker, Places, Checkers
  <2> QED
    BY <2>1, <2>2, <2>3 DEF ExactFor
<1>6. CASE Receive
  <2>1. PICK w \in Workers :
            /\ queue # <<>> /\ queue' = Tail(queue)
            /\ wpc[w] = "idle" /\ wpc' = [wpc EXCEPT ![w] = "got"]
            /\ wjob' = [wjob EXCEPT ![w] = Head(queue)]
            /\ UNCHANGED <<pending, pc, job>>
    BY <1>6 DEF Receive
  <2>2. Senders(r)' = Senders(r) /\ pending' = pending
    BY <2>1 DEF Senders
  <2>3. Checkers(r)' = IF Head(queue).name = r THEN Checkers(r) \cup {w} ELSE Checkers(r)
    BY <2>1 DEF TypeOK, Checkers
  <2>4. /\ \A i \in Places(r)' : i + 1 \in Places(r)
        /\ \A i \in Places(r) : i # 1 => i - 1 \in Places(r)'
        /\ 1 \in Places(r) <=> Head(queue).name = r
    BY <2>1, TailPlaces DEF TypeOK
  <2>5. Places(r)' \subseteq Nat \ {0} /\ Places(r) \subseteq Nat \ {0}
    BY DEF Places
  <2>6. \A i, j \in Places(r)' : i = j
    <3>1. SUFFICES ASSUME NEW i \in Places(r)', NEW j \in Places(r)' PROVE i = j
        OBVIOUS
    <3>2. i + 1 = j + 1
        BY <2>4 DEF ExactFor
    <3> QED
        BY <3>2, <2>5
  <2>7. CASE Head(queue).name = r
    <3>1. 1 \in Places(r)
        BY <2>4, <2>7
    <3>2. Places(r)' = {}
        <4>1. SUFFICES ASSUME NEW i \in Places(r)' PROVE FALSE
            OBVIOUS
        <4>2. i + 1 = 1
            BY <3>1, <2>4 DEF ExactFor
        <4> QED
            BY <4>2, <2>5
    <3> QED
        BY <2>2, <2>3, <2>7, <3>1, <3>2 DEF ExactFor
  <2>8. CASE Head(queue).name # r
    <3>1. Places(r)' = {} <=> Places(r) = {}
        BY <2>4, <2>8
    <3> QED
        BY <2>2, <2>3, <2>6, <2>8, <3>1 DEF ExactFor
  <2> QED
    BY <2>7, <2>8
<1>7. CASE Start
    BY <1>7 DEF Start, ExactFor, Senders, Places, Checkers, TypeOK
<1>8. CASE Finish
  <2>1. PICK w \in Workers :
            /\ wpc[w] = "fetch" /\ wpc' = [wpc EXCEPT ![w] = "idle"]
            /\ wjob' = [wjob EXCEPT ![w] = NoJob]
            /\ pending' = pending \ {wjob[w].name}
            /\ UNCHANGED <<queue, pc, job>>
    BY <1>8 DEF Finish
  <2>2. Checkers(r)' = Checkers(r) \ {w} /\ (w \in Checkers(r) <=> wjob[w].name = r)
    BY <2>1 DEF TypeOK, Checkers
  <2>3. Senders(r)' = Senders(r) /\ Places(r)' = Places(r)
    BY <2>1 DEF Senders, Places
  <2> QED
    BY <2>1, <2>2, <2>3 DEF ExactFor
<1> QED
    BY <1>1, <1>2, <1>3, <1>4, <1>5, <1>6, <1>7, <1>8 DEF TokenStep

-----------------------------------------------------------------------------
(* Updating the fields of an entry gives an entry. *)
LEMMA CheckingEntry ==
    ASSUME NEW e \in Entries, NEW b \in BOOLEAN
    PROVE  [e EXCEPT !.checking = b] \in Entries
    BY DEF Entries

(* What the worker writes back is an entry. *)
LEMMA CheckedEntry ==
    ASSUME NEW e \in Entries, NEW u \in Addresses, NEW st \in Statuses
    PROVE  [e EXCEPT !.addr = u, !.status = st, !.checking = FALSE] \in Entries
    BY DEF Entries

(* What the refresh writes for a server that is to be checked is an entry. *)
LEMMA UnknownEntry ==
    ASSUME TypeOK, NEW p \in Handlers, job[p] \in Jobs, NEW b \in BOOLEAN, BuildUnknown(p, b)
    PROVE  next' \in [Handlers -> [Remotes -> Entries]]
<1>1. [named |-> TRUE, addr |-> job[p].url, status |-> "unknown", checking |-> b] \in Entries
    BY DEF Entries, Jobs, Statuses
<1>2. next \in [Handlers -> [Remotes -> Entries]]
    BY DEF TypeOK
<1> QED
    BY <1>1, <1>2 DEF BuildUnknown

(* Every action keeps the types; the queue never outgrows the channel.      *)
LEMMA TypeStep ==
    ASSUME TypeOK, InHand, TodoConfigured, [Next]_vars
    PROVE  TypeOK'
<1> USE InfoConstants, InfoMarks DEF TypeOK, Goto, cache, config, handler, worker
<1>1. ZeroEntry \in Entries /\ NoEntries \in [Remotes -> Entries]
      /\ NoServers \in [Remotes -> Config \cup {Absent}]
    BY DEF ZeroEntry, Entries, Addresses, Statuses, NoEntries, NoServers
<1>2. ASSUME NEW p \in Handlers, NEW r \in Remotes, view[p][r] # Absent,
             NEW st \in Statuses, NEW b \in BOOLEAN
      PROVE  Entry(p, r, st, b) \in Entries /\ JobOf(p, r) \in Jobs
    BY <1>2 DEF Entry, Entries, Config, JobOf, Jobs
<1>3. ASSUME NEW p \in Handlers, InfoRequest(p) \/ RecheckRequest(p) PROVE TypeOK'
  <2>1. CASE InfoRequest(p)
    BY <2>1 DEF InfoRequest, HandlerPc
  <2>2. CASE RecheckRequest(p)
    BY <2>2 DEF RecheckRequest, HandlerPc
  <2> QED
    BY <1>3, <2>1, <2>2
<1>4. ASSUME NEW p \in Handlers, NEW r \in Remotes, NEW c \in Config, EditServer(p, r, c) PROVE TypeOK'
    BY <1>4 DEF EditServer, HandlerPc
<1>5. ASSUME NEW p \in Handlers, NEW r \in Remotes, NEW c \in Config, AddServer(p, r, c) PROVE TypeOK'
    BY <1>5 DEF AddServer, HandlerPc
<1>6. ASSUME NEW p \in Handlers, NEW r \in Remotes, RemoveServer(p, r) PROVE TypeOK'
    BY <1>6 DEF RemoveServer, HandlerPc
<1>7. ASSUME NEW p \in Handlers, CopyInfo(p) PROVE TypeOK'
    BY <1>7 DEF CopyInfo, HandlerPc, Configured
<1>8. ASSUME NEW p \in Handlers, NEW r \in Remotes, RefreshKeeps(p, r) PROVE TypeOK'
  <2>1. KeptEntry(p, r) \in Entries
    <3>1. view[p][r] # Absent
        BY <1>8 DEF RefreshKeeps, TodoConfigured
    <3>2. prev[p][r].status \in Statuses /\ prev[p][r].checking \in BOOLEAN
        BY DEF Entries
    <3> QED
        BY <3>1, <3>2, <1>2 DEF KeptEntry, Statuses
  <2> QED
    BY <1>8, <2>1 DEF RefreshKeeps
<1>9. ASSUME NEW p \in Handlers, NEW r \in Remotes, RefreshFindsPending(p, r) PROVE TypeOK'
  <2>1. Entry(p, r, "unknown", TRUE) \in Entries
    BY <1>9, <1>2 DEF RefreshFindsPending, TodoConfigured, Statuses
  <2> QED
    BY <1>9, <2>1 DEF RefreshFindsPending
<1>10. ASSUME NEW p \in Handlers, NEW r \in Remotes,
             RefreshReserves(p, r) \/ RecheckReserves(p, r) \/ RecheckFindsPending(p, r)
      PROVE TypeOK'
  <2>1. JobOf(p, r) \in Jobs
    BY <1>10 DEF RefreshReserves, RecheckReserves, RecheckFindsPending, TodoConfigured, JobOf, Jobs, Config
  <2>2. CASE RefreshReserves(p, r)
    BY <2>1, <2>2 DEF RefreshReserves, HandlerPc
  <2>3. CASE RecheckReserves(p, r)
    BY <2>1, <2>3 DEF RecheckReserves, HandlerPc
  <2>4. CASE RecheckFindsPending(p, r)
    BY <2>1, <2>4 DEF RecheckFindsPending, HandlerPc
  <2> QED
    BY <1>10, <2>2, <2>3, <2>4
<1>11. ASSUME NEW p \in Handlers, RefreshEnqueues(p) \/ RecheckEnqueues(p) PROVE TypeOK'
  <2>1. job[p] \in Jobs
    BY <1>11 DEF RefreshEnqueues, RecheckEnqueues, InHand, SendPc
  <2>2. queue' = Append(queue, job[p]) /\ Len(queue) < QueueSize
    BY <1>11 DEF RefreshEnqueues, RecheckEnqueues
  <2>3. Append(queue, job[p]) \in Seq(Jobs) /\ Len(Append(queue, job[p])) = Len(queue) + 1
    BY <2>1
  <2>4. queue' \in Seq(Jobs) /\ Len(queue') <= QueueSize
    BY <2>2, <2>3
  <2>5. CASE RefreshEnqueues(p)
    <3>1. next' \in [Handlers -> [Remotes -> Entries]]
        BY <2>1, <2>5, UnknownEntry DEF RefreshEnqueues
    <3> QED
        BY <2>4, <2>5, <3>1 DEF RefreshEnqueues, HandlerPc
  <2>6. CASE RecheckEnqueues(p)
    BY <2>4, <2>6 DEF RecheckEnqueues, HandlerPc
  <2> QED
    BY <1>11, <2>5, <2>6
<1>12. ASSUME NEW p \in Handlers, RefreshQueueFull(p) \/ RecheckQueueFull(p) PROVE TypeOK'
  <2>1. job[p] \in Jobs
    BY <1>12 DEF RefreshQueueFull, RecheckQueueFull, InHand, SendPc
  <2>2. CASE RefreshQueueFull(p)
    <3>1. next' \in [Handlers -> [Remotes -> Entries]]
        BY <2>1, <2>2, UnknownEntry DEF RefreshQueueFull
    <3> QED
        BY <2>2, <3>1 DEF RefreshQueueFull, HandlerPc
  <2>3. CASE RecheckQueueFull(p)
    BY <2>3 DEF RecheckQueueFull, HandlerPc
  <2> QED
    BY <1>12, <2>2, <2>3
<1>13. ASSUME NEW p \in Handlers, RefreshSwaps(p) PROVE TypeOK'
  <2>1. info' \in [Remotes -> Entries]
    BY <1>13, <1>1 DEF RefreshSwaps
  <2>2. view' \in [Handlers -> [Remotes -> Config \cup {Absent}]]
    BY <1>13, <1>1 DEF RefreshSwaps
  <2> QED
    BY <1>13, <1>1, <2>1, <2>2 DEF RefreshSwaps, HandlerPc
<1>14. ASSUME NEW p \in Handlers, RecheckMarks(p) PROVE TypeOK'
  <2>1. ASSUME NEW r \in Remotes, view[p][r] # Absent PROVE MarkedEntry(p, r) \in Entries
    <3>1. info[r].status \in Statuses
        BY DEF Entries
    <3> QED
        BY <2>1, <3>1, <1>2 DEF MarkedEntry, Statuses
  <2>2. info' \in [Remotes -> Entries]
    BY <1>14, <2>1 DEF RecheckMarks
  <2> QED
    BY <1>14, <2>2 DEF RecheckMarks, HandlerPc, ToCheck, Configured
<1>15. ASSUME NEW p \in Handlers, RecheckShows(p) PROVE TypeOK'
  <2>1. job[p].name \in Remotes
    BY <1>15 DEF RecheckShows, InHand, Jobs
  <2>2. [info[job[p].name] EXCEPT !.checking = TRUE] \in Entries
    BY <2>1, CheckingEntry
  <2>3. info' \in [Remotes -> Entries]
    BY <1>15, <2>1, <2>2 DEF RecheckShows
  <2> QED
    BY <1>15, <2>3 DEF RecheckShows, HandlerPc
<1>16. ASSUME NEW p \in Handlers, RecheckReturns(p) PROVE TypeOK'
    BY <1>16, <1>1 DEF RecheckReturns, HandlerPc
<1>17. ASSUME NEW w \in Workers, WorkerReceives(w) PROVE TypeOK'
    BY <1>17 DEF WorkerReceives, WorkerPc
<1>18. ASSUME NEW w \in Workers, WorkerStarts(w) PROVE TypeOK'
  <2>1. wjob[w] \in Jobs
    BY <1>18 DEF WorkerStarts, InHand
  <2>2. wjob[w].name \in Remotes /\ wjob[w].url \in Addresses
    BY <2>1 DEF Jobs
  <2> DEFINE e == IF info[wjob[w].name].named THEN info[wjob[w].name]
                  ELSE [ZeroEntry EXCEPT !.named = TRUE, !.addr = wjob[w].url]
             entry == [e EXCEPT !.checking = TRUE]
  <2>3. e \in Entries
    BY <2>2 DEF Entries, ZeroEntry, Statuses
  <2>4. entry \in Entries
    BY <2>3 DEF Entries
  <2>5. wentry' = [wentry EXCEPT ![w] = entry] /\ info' = [info EXCEPT ![wjob[w].name] = entry]
    BY <1>18 DEF WorkerStarts
  <2> HIDE DEF entry, e
  <2>6. wentry' \in [Workers -> Entries] /\ info' \in [Remotes -> Entries]
    BY <2>4, <2>5
  <2> QED
    BY <1>18, <2>6 DEF WorkerStarts, WorkerPc
<1>19. ASSUME NEW w \in Workers, NEW st \in {"online", "offline"}, WorkerFinishes(w, st)
      PROVE TypeOK'
  <2>1. wjob[w] \in Jobs
    BY <1>19 DEF WorkerFinishes, InHand
  <2>2. [wentry[w] EXCEPT !.addr = wjob[w].url, !.status = st, !.checking = FALSE] \in Entries
    BY <2>1, CheckedEntry DEF Jobs, Statuses
  <2>3. info' \in [Remotes -> Entries]
    BY <1>19, <2>2 DEF WorkerFinishes
  <2> QED
    BY <1>19, <1>1, <2>3 DEF WorkerFinishes, WorkerPc
<1>20. CASE UNCHANGED vars
    BY <1>20 DEF vars
<1> HIDE DEF TypeOK
<1>21. [url : Urls, maint : BOOLEAN] \subseteq Config
    BY DEF Config, Addresses
<1>22. ASSUME NEW p \in Handlers, Request(p) PROVE TypeOK'
    BY <1>22, <1>21, <1>3, <1>4, <1>5, <1>6 DEF Request
<1>23. ASSUME NEW p \in Handlers, RefreshStep(p) PROVE TypeOK'
    BY <1>23, <1>7, <1>8, <1>9, <1>10, <1>11, <1>12, <1>13 DEF RefreshStep
<1>24. ASSUME NEW p \in Handlers, RecheckStep(p) PROVE TypeOK'
    BY <1>24, <1>10, <1>11, <1>12, <1>14, <1>15, <1>16 DEF RecheckStep
<1>25. ASSUME NEW w \in Workers, WorkerStep(w) PROVE TypeOK'
    BY <1>25, <1>17, <1>18, <1>19 DEF WorkerStep
<1> QED
    BY <1>20, <1>22, <1>23, <1>24, <1>25 DEF Next, HandlerStep

-----------------------------------------------------------------------------
(* The monitor starts in the invariant: nothing pending, nothing queued.    *)
LEMMA InitInv == Init => IndInv
<1> SUFFICES ASSUME Init PROVE IndInv
    OBVIOUS
<1> USE InfoConstants DEF Init
<1>1. ZeroEntry \in Entries
    BY DEF ZeroEntry, Entries, Addresses, Statuses
<1>2. TypeOK
    BY <1>1 DEF TypeOK, HandlerPc, WorkerPc, NoEntries, NoServers
<1>3. TodoConfigured /\ InHand
    BY DEF TodoConfigured, InHand, SendPc
<1>4. ASSUME NEW r \in Remotes PROVE Senders(r) = {} /\ Places(r) = {} /\ Checkers(r) = {}
    BY DEF Senders, Places, Checkers
<1>5. PendingExact
    BY <1>4 DEF PendingExact
<1> QED
    BY <1>2, <1>3, <1>5 DEF IndInv

(* The strengthened invariant is inductive.                                 *)
THEOREM InfoInvariance == Spec => []IndInv
<1>1. ASSUME IndInv, [Next]_vars PROVE IndInv'
  <2>1. TypeOK /\ TodoConfigured /\ InHand /\ \A r \in Remotes : ExactFor(r)
    BY <1>1 DEF IndInv, PendingExact, ExactFor
  <2>2. TokenStep
    BY <1>1, <2>1, EveryStepIsATokenStep
  <2>3. \A r \in Remotes : ExactFor(r)'
    BY <2>1, <2>2, ExactStep
  <2>4. PendingExact'
    BY <2>3 DEF PendingExact, ExactFor
  <2> QED
    BY <1>1, <2>1, <2>4, TypeStep, TodoStep, InHandStep DEF IndInv
<1> QED
    BY <1>1, InitInv, PTL DEF Spec

(* The variables of the reachability cache keep their types; the channel    *)
(* never holds more than serverInfoQueueBufferSize checks.                  *)
THEOREM InfoTypeCorrect == Spec => []TypeOK
<1>1. IndInv => TypeOK
    BY DEF IndInv
<1> QED
    BY <1>1, InfoInvariance, PTL

(* At most one check per agent is under way, and a pending mark is always   *)
(* backed by a check that will clear it, for any number of requests,        *)
(* workers and agents, and also when the queue is full.                     *)
THEOREM PendingCorrect == Spec => []PendingExact
<1>1. IndInv => PendingExact
    BY DEF IndInv
<1> QED
    BY <1>1, InfoInvariance, PTL

-----------------------------------------------------------------------------
(* The status page.  What it shows as going on it polls for is inductive    *)
(* alone; the other promises rest on how the flags of the page agree with   *)
(* the request that is under way, and on a count of the full scans that     *)
(* were asked for.                                                          *)

(* The request under way, the two flags about it and the scan button say    *)
(* the same, and an update keeps all of them down.                          *)
RequestInv ==
    /\ controller = scanRequestActive
    /\ controller <=> post # "none"
    /\ post # "none" => target # None
    /\ update # None => scanDisabled /\ ~controller

(* A message is promised only on behalf of a full scan that is owed one: of *)
(* the request that is under way or of one that the server has accepted.    *)
PromiseInv ==
    /\ scanCompletionPending => due # "none"
    /\ scanCompletionPending /\ controller =>
          target = "all" /\ targets = {} /\ (post = "running" => due = "accepted")
    /\ scanCompletionPending /\ ~controller => due = "accepted"

(* Every message that was told or is promised is of a scan of its own. *)
BudgetInv == told + (IF scanCompletionPending THEN 1 ELSE 0) <= scans

PageInv == PageTypeOK /\ RequestInv /\ PromiseInv /\ BudgetInv /\ ShownActivityPolled

(* A click, an answer or a redrawn button never makes the flags disagree. *)
LEMMA RequestStep ==
    ASSUME PageTypeOK, RequestInv, [PageNext]_pageVars
    PROVE  RequestInv'
<1> USE ScanConstants DEF PageTypeOK, ScanConstants, RequestInv, server, request, shown, marks, choice
<1>1. CASE ScanAccepted
    BY <1>1 DEF ScanAccepted, Accepts, Marked
<1>2. CASE OrphanAccepted
    BY <1>2 DEF OrphanAccepted, Accepts, Marked
<1>3. CASE ScanRefused
    BY <1>3 DEF ScanRefused, Marked
<1>4. CASE OtherScan
    BY <1>4 DEF OtherScan, Marked
<1>5. CASE StopServed
    BY <1>5 DEF StopServed
<1>6. CASE \E s \in Servers : ServerDone(s) \/ refreshRemoteStatusCache(s)
    BY <1>6 DEF ServerDone, refreshRemoteStatusCache
<1>7. CASE \/ \E c \in Calls : StatusServed(c)
           \/ \E c \in Calls : StatusFails(c)
           \/ AskStatus
           \/ Poll
    BY <1>7 DEF StatusServed, StatusFails, Idle, AskStatus, Poll
<1>8. CASE \/ \E c \in Calls : StatusAnswered(c)
           \/ \E s \in Servers, state \in States : upsertStatusResult(s, state)
           \/ StreamSnapshot
  <2>1. CASE \E c \in Calls : StatusAnswered(c)
    BY <2>1 DEF StatusAnswered, applyStatusResults, updateScanPolling, setScanningUI
  <2>2. CASE \E s \in Servers, state \in States : upsertStatusResult(s, state)
    BY <2>2 DEF upsertStatusResult, applyStatusResults, updateScanPolling, setScanningUI
  <2>3. CASE StreamSnapshot
    BY <2>3 DEF StreamSnapshot, applyStatusResults, updateScanPolling, setScanningUI
  <2> QED
    BY <1>8, <2>1, <2>2, <2>3
<1>9. CASE toggleSelective
    BY <1>9 DEF toggleSelective
<1>10. CASE \E up \in SUBSET Servers : ScanAll(up)
    BY <1>10 DEF ScanAll, startScanPolling, setScanningUI,
        applyOptimisticScanState
<1>11. CASE \E chosen, offline \in SUBSET Servers : ScanSelected(chosen, offline)
    BY <1>11 DEF ScanSelected, startScanPolling, setScanningUI,
        applyOptimisticScanState
<1>12. CASE \E chosen \in SUBSET Servers : AllOffline(chosen)
    BY <1>12 DEF AllOffline, startScanPolling, setScanningUI,
        applyOptimisticScanState
<1>13. CASE ScanAnswered
    BY <1>13 DEF ScanAnswered, HandlerEnds, setScanningUI
<1>14. CASE ScanFails \/ StopScan
  <2>1. CASE ScanFails
    BY <2>1 DEF ScanFails, HandlerEnds, setScanningUI
  <2>2. CASE StopScan
    BY <2>2 DEF StopScan
  <2> QED
    BY <1>14, <2>1, <2>2
<1>15. CASE ScanStopped
    BY <1>15 DEF ScanStopped, HandlerEnds, setScanningUI
<1>16. CASE (\E s \in Servers : UpdateContainer(s)) \/ UpdateAnswered
    BY <1>16 DEF UpdateContainer, UpdateAnswered, schedulePostSelfUpdateRefresh
<1>17. CASE \/ \E s \in Servers : SelfUpdateLate(s)
            \/ \E s \in Servers : FollowEnds(s)
            \/ \E s \in Servers : FollowTick(s)
            \/ UNCHANGED pageVars
    BY <1>17 DEF SelfUpdateLate, FollowEnds, FollowTick, pageVars
<1> HIDE DEF RequestInv, PageTypeOK
<1> QED
    BY <1>1, <1>2, <1>3, <1>4, <1>5, <1>6, <1>7, <1>8, <1>9, <1>10, <1>11, <1>12, <1>13, <1>14,
        <1>15, <1>16, <1>17 DEF PageNext, ServerStep, StatusStep, ScanStep,
        UpdateStep

(* The promise of a message is kept once, and only if the scan has run. *)
LEMMA PromiseStep ==
    ASSUME PageTypeOK, RequestInv, PromiseInv, [PageNext]_pageVars
    PROVE  PromiseInv'
<1> USE DEF PageTypeOK, RequestInv, PromiseInv, server, request, shown, marks, choice
<1>1. CASE ScanAccepted
    BY <1>1 DEF ScanAccepted, Accepts, Marked
<1>2. CASE OrphanAccepted
    BY <1>2 DEF OrphanAccepted, Accepts, Marked
<1>3. CASE ScanRefused
    BY <1>3 DEF ScanRefused, Marked
<1>4. CASE OtherScan
    BY <1>4 DEF OtherScan, Marked
<1>5. CASE StopServed
    BY <1>5 DEF StopServed
<1>6. CASE \E s \in Servers : ServerDone(s) \/ refreshRemoteStatusCache(s)
    BY <1>6 DEF ServerDone, refreshRemoteStatusCache
<1>7. CASE \/ \E c \in Calls : StatusServed(c)
           \/ \E c \in Calls : StatusFails(c)
           \/ AskStatus
           \/ Poll
    BY <1>7 DEF StatusServed, StatusFails, Idle, AskStatus, Poll
<1>8. CASE \/ \E c \in Calls : StatusAnswered(c)
           \/ \E s \in Servers, state \in States : upsertStatusResult(s, state)
           \/ StreamSnapshot
  <2>1. CASE \E c \in Calls : StatusAnswered(c)
    BY <2>1 DEF StatusAnswered, applyStatusResults, updateScanPolling, setScanningUI
  <2>2. CASE \E s \in Servers, state \in States : upsertStatusResult(s, state)
    BY <2>2 DEF upsertStatusResult, applyStatusResults, updateScanPolling, setScanningUI
  <2>3. CASE StreamSnapshot
    BY <2>3 DEF StreamSnapshot, applyStatusResults, updateScanPolling, setScanningUI
  <2> QED
    BY <1>8, <2>1, <2>2, <2>3
<1>9. CASE toggleSelective
    BY <1>9 DEF toggleSelective
<1>10. CASE \E up \in SUBSET Servers : ScanAll(up)
    BY <1>10 DEF ScanAll, startScanPolling, setScanningUI,
        applyOptimisticScanState
<1>11. CASE \E chosen, offline \in SUBSET Servers : ScanSelected(chosen, offline)
    BY <1>11 DEF ScanSelected, startScanPolling, setScanningUI,
        applyOptimisticScanState
<1>12. CASE \E chosen \in SUBSET Servers : AllOffline(chosen)
    BY <1>12 DEF AllOffline, startScanPolling, setScanningUI,
        applyOptimisticScanState
<1>13. CASE ScanAnswered
    BY <1>13 DEF ScanAnswered, HandlerEnds, setScanningUI
<1>14. CASE ScanFails \/ StopScan
    BY <1>14 DEF ScanFails, HandlerEnds, setScanningUI, StopScan
<1>15. CASE ScanStopped
    BY <1>15 DEF ScanStopped, HandlerEnds, setScanningUI
<1>16. CASE (\E s \in Servers : UpdateContainer(s)) \/ UpdateAnswered
    BY <1>16 DEF UpdateContainer, UpdateAnswered, schedulePostSelfUpdateRefresh
<1>17. CASE \/ \E s \in Servers : SelfUpdateLate(s)
            \/ \E s \in Servers : FollowEnds(s)
            \/ \E s \in Servers : FollowTick(s)
            \/ UNCHANGED pageVars
    BY <1>17 DEF SelfUpdateLate, FollowEnds, FollowTick, pageVars
<1> HIDE DEF PromiseInv, PageTypeOK
<1> QED
    BY <1>1, <1>2, <1>3, <1>4, <1>5, <1>6, <1>7, <1>8, <1>9, <1>10, <1>11, <1>12, <1>13, <1>14,
        <1>15, <1>16, <1>17 DEF PageNext, ServerStep, StatusStep, ScanStep,
        UpdateStep

(* No more is told than was asked for. *)
LEMMA BudgetStep ==
    ASSUME PageTypeOK, RequestInv, BudgetInv, [PageNext]_pageVars
    PROVE  BudgetInv'
<1> USE ScanConstants DEF PageTypeOK, ScanConstants, RequestInv, BudgetInv, server, request, shown, marks, choice
<1>1. CASE ScanAccepted
    BY <1>1 DEF ScanAccepted, Accepts, Marked
<1>2. CASE OrphanAccepted
    BY <1>2 DEF OrphanAccepted, Accepts, Marked
<1>3. CASE ScanRefused
    BY <1>3 DEF ScanRefused, Marked
<1>4. CASE OtherScan
    BY <1>4 DEF OtherScan, Marked
<1>5. CASE StopServed
    BY <1>5 DEF StopServed
<1>6. CASE \E s \in Servers : ServerDone(s) \/ refreshRemoteStatusCache(s)
    BY <1>6 DEF ServerDone, refreshRemoteStatusCache
<1>7. CASE \/ \E c \in Calls : StatusServed(c)
           \/ \E c \in Calls : StatusFails(c)
           \/ AskStatus
           \/ Poll
    BY <1>7 DEF StatusServed, StatusFails, Idle, AskStatus, Poll
<1>8. CASE \/ \E c \in Calls : StatusAnswered(c)
           \/ \E s \in Servers, state \in States : upsertStatusResult(s, state)
           \/ StreamSnapshot
  <2>1. CASE \E c \in Calls : StatusAnswered(c)
    BY <2>1 DEF StatusAnswered, applyStatusResults, updateScanPolling, setScanningUI
  <2>2. CASE \E s \in Servers, state \in States : upsertStatusResult(s, state)
    BY <2>2 DEF upsertStatusResult, applyStatusResults, updateScanPolling, setScanningUI
  <2>3. CASE StreamSnapshot
    BY <2>3 DEF StreamSnapshot, applyStatusResults, updateScanPolling, setScanningUI
  <2> QED
    BY <1>8, <2>1, <2>2, <2>3
<1>9. CASE toggleSelective
    BY <1>9 DEF toggleSelective
<1>10. CASE \E up \in SUBSET Servers : ScanAll(up)
    BY <1>10 DEF ScanAll, startScanPolling, setScanningUI,
        applyOptimisticScanState
<1>11. CASE \E chosen, offline \in SUBSET Servers : ScanSelected(chosen, offline)
    BY <1>11 DEF ScanSelected, startScanPolling, setScanningUI,
        applyOptimisticScanState
<1>12. CASE \E chosen \in SUBSET Servers : AllOffline(chosen)
    BY <1>12 DEF AllOffline, startScanPolling, setScanningUI,
        applyOptimisticScanState
<1>13. CASE ScanAnswered
    BY <1>13 DEF ScanAnswered, HandlerEnds, setScanningUI
<1>14. CASE ScanFails \/ StopScan
    BY <1>14 DEF ScanFails, HandlerEnds, setScanningUI, StopScan
<1>15. CASE ScanStopped
    BY <1>15 DEF ScanStopped, HandlerEnds, setScanningUI
<1>16. CASE (\E s \in Servers : UpdateContainer(s)) \/ UpdateAnswered
    BY <1>16 DEF UpdateContainer, UpdateAnswered, schedulePostSelfUpdateRefresh
<1>17. CASE \/ \E s \in Servers : SelfUpdateLate(s)
            \/ \E s \in Servers : FollowEnds(s)
            \/ \E s \in Servers : FollowTick(s)
            \/ UNCHANGED pageVars
    BY <1>17 DEF SelfUpdateLate, FollowEnds, FollowTick, pageVars
<1> HIDE DEF BudgetInv, PageTypeOK
<1> QED
    BY <1>1, <1>2, <1>3, <1>4, <1>5, <1>6, <1>7, <1>8, <1>9, <1>10, <1>11, <1>12, <1>13, <1>14,
        <1>15, <1>16, <1>17 DEF PageNext, ServerStep, StatusStep, ScanStep,
        UpdateStep

(* The guesses of the page go when the polling ends. *)
LEMMA ShownPolledStep ==
    ASSUME PageTypeOK, ShownActivityPolled, [PageNext]_pageVars
    PROVE  ShownActivityPolled'
<1> USE DEF ShownActivityPolled, server, request, shown, marks, choice
<1>1. CASE \/ ScanAccepted
           \/ OrphanAccepted
           \/ ScanRefused
           \/ OtherScan
           \/ StopServed
           \/ \E s \in Servers : ServerDone(s) \/ refreshRemoteStatusCache(s)
    BY <1>1 DEF ScanAccepted, Accepts, Marked, OrphanAccepted,
        ScanRefused, OtherScan, StopServed, ServerDone, refreshRemoteStatusCache
<1>2. CASE \/ \E c \in Calls : StatusServed(c)
           \/ \E c \in Calls : StatusFails(c)
           \/ AskStatus
           \/ Poll
    BY <1>2 DEF StatusServed, StatusFails, Idle, AskStatus, Poll
<1>3. CASE \/ \E c \in Calls : StatusAnswered(c)
           \/ \E s \in Servers, state \in States : upsertStatusResult(s, state)
           \/ StreamSnapshot
    BY <1>3 DEF StatusAnswered, applyStatusResults, updateScanPolling,
        setScanningUI, Idle, upsertStatusResult, StreamSnapshot
<1>4. CASE toggleSelective
    BY <1>4 DEF toggleSelective
<1>5. CASE \E up \in SUBSET Servers : ScanAll(up)
    BY <1>5 DEF ScanAll, startScanPolling, setScanningUI,
        applyOptimisticScanState
<1>6. CASE \E chosen, offline \in SUBSET Servers : ScanSelected(chosen, offline)
    BY <1>6 DEF ScanSelected, startScanPolling, setScanningUI,
        applyOptimisticScanState
<1>7. CASE \E chosen \in SUBSET Servers : AllOffline(chosen)
    BY <1>7 DEF AllOffline, startScanPolling, setScanningUI,
        applyOptimisticScanState
<1>8. CASE ScanAnswered
    BY <1>8 DEF ScanAnswered, HandlerEnds, setScanningUI
<1>9. CASE ScanFails \/ StopScan
    BY <1>9 DEF ScanFails, HandlerEnds, setScanningUI, StopScan
<1>10. CASE ScanStopped
    BY <1>10 DEF ScanStopped, HandlerEnds, setScanningUI
<1>11. CASE (\E s \in Servers : UpdateContainer(s)) \/ UpdateAnswered
    BY <1>11 DEF UpdateContainer, UpdateAnswered, schedulePostSelfUpdateRefresh
<1>12. CASE \/ \E s \in Servers : SelfUpdateLate(s)
            \/ \E s \in Servers : FollowEnds(s)
            \/ \E s \in Servers : FollowTick(s)
            \/ UNCHANGED pageVars
    BY <1>12 DEF SelfUpdateLate, FollowEnds, FollowTick, pageVars
<1> HIDE DEF ShownActivityPolled, PageTypeOK
<1> QED
    BY <1>1, <1>2, <1>3, <1>4, <1>5, <1>6, <1>7, <1>8, <1>9, <1>10, <1>11, <1>12 DEF PageNext,
        ServerStep, StatusStep, ScanStep, UpdateStep

(* Every action keeps the types. *)
LEMMA PageTypeStep ==
    ASSUME PageTypeOK, RequestInv, PromiseInv', BudgetInv', [PageNext]_pageVars
    PROVE  PageTypeOK'
<1> USE ScanConstants DEF PageTypeOK, ScanConstants, States, RequestInv, PromiseInv, BudgetInv, refreshStatus, server, request, shown, marks, choice
<1>1. CASE ScanAccepted
    BY <1>1 DEF ScanAccepted, Accepts, Marked
<1>2. CASE OrphanAccepted
    BY <1>2 DEF OrphanAccepted, Accepts, Marked
<1>3. CASE ScanRefused
    BY <1>3 DEF ScanRefused, Marked, Idle
<1>4. CASE OtherScan
    BY <1>4 DEF OtherScan, Marked
<1>5. CASE StopServed
    BY <1>5 DEF StopServed
<1>6. CASE \E s \in Servers : ServerDone(s) \/ refreshRemoteStatusCache(s)
    BY <1>6 DEF ServerDone, refreshRemoteStatusCache, updateLastScans
<1>7. CASE \E c \in Calls : StatusServed(c)
    BY <1>7 DEF StatusServed
<1>8. CASE \E c \in Calls : StatusAnswered(c)
    BY <1>8 DEF StatusAnswered, applyStatusResults, updateScanPolling,
        setScanningUI, Idle
<1>9. CASE \E c \in Calls : StatusFails(c)
    BY <1>9 DEF StatusFails, Idle
<1>10. CASE \E s \in Servers, state \in States : upsertStatusResult(s, state)
    BY <1>10 DEF upsertStatusResult, applyStatusResults, updateScanPolling,
        setScanningUI
<1>11. CASE StreamSnapshot
    BY <1>11 DEF StreamSnapshot, applyStatusResults, updateScanPolling,
        setScanningUI
<1>12. CASE AskStatus
    BY <1>12 DEF AskStatus
<1>13. CASE Poll
    BY <1>13 DEF Poll
<1>14. CASE toggleSelective
    BY <1>14 DEF toggleSelective
<1>15. CASE \E up \in SUBSET Servers : ScanAll(up)
    BY <1>15 DEF ScanAll, startScanPolling, setScanningUI,
        applyOptimisticScanState
<1>16. CASE \E chosen, offline \in SUBSET Servers : ScanSelected(chosen, offline)
  <2>1. PICK chosen \in SUBSET Servers, offline \in SUBSET Servers : ScanSelected(chosen, offline)
    BY <1>16
  <2>2. target' \in Servers /\ targets' \in SUBSET Servers
    BY <2>1 DEF ScanSelected
  <2>3. overrides' \in SUBSET Servers
    BY <2>1 DEF ScanSelected, applyOptimisticScanState
  <2>4. scans' \in 0 .. MaxScans
    BY <2>1 DEF ScanSelected
  <2>5. call' \in [Calls -> {"free", "sent", "served"}]
    BY <2>1 DEF ScanSelected
  <2> QED
    BY <2>1, <2>2, <2>3, <2>4, <2>5 DEF ScanSelected, startScanPolling, setScanningUI
<1>17. CASE \E chosen \in SUBSET Servers : AllOffline(chosen)
  <2>1. PICK chosen \in SUBSET Servers : AllOffline(chosen)
    BY <1>17
  <2>2. overrides' \in SUBSET Servers
    BY <2>1 DEF AllOffline, applyOptimisticScanState
  <2>3. scans' \in 0 .. MaxScans
    BY <2>1 DEF AllOffline
  <2>4. call' \in [Calls -> {"free", "sent", "served"}]
    BY <2>1 DEF AllOffline
  <2> QED
    BY <2>1, <2>2, <2>3, <2>4 DEF AllOffline, startScanPolling, setScanningUI
<1>18. CASE ScanAnswered
    BY <1>18 DEF ScanAnswered, HandlerEnds, setScanningUI
<1>19. CASE ScanFails
    BY <1>19 DEF ScanFails, HandlerEnds, setScanningUI
<1>20. CASE StopScan
    BY <1>20 DEF StopScan
<1>21. CASE ScanStopped
    BY <1>21 DEF ScanStopped, HandlerEnds, setScanningUI
<1>22. CASE \E s \in Servers : UpdateContainer(s)
    BY <1>22 DEF UpdateContainer
<1>23. CASE UpdateAnswered
    BY <1>23 DEF UpdateAnswered, schedulePostSelfUpdateRefresh
<1>24. CASE \E s \in Servers : SelfUpdateLate(s)
    BY <1>24 DEF SelfUpdateLate
<1>25. CASE \E s \in Servers : FollowEnds(s)
    BY <1>25 DEF FollowEnds
<1>26. CASE \E s \in Servers : FollowTick(s)
    BY <1>26 DEF FollowTick
<1>27. CASE UNCHANGED pageVars
    BY <1>27 DEF pageVars
<1> HIDE DEF PageTypeOK
<1> QED
    BY <1>1, <1>2, <1>3, <1>4, <1>5, <1>6, <1>7, <1>8, <1>9, <1>10, <1>11, <1>12, <1>13, <1>14,
        <1>15, <1>16, <1>17, <1>18, <1>19, <1>20, <1>21, <1>22, <1>23, <1>24, <1>25, <1>26,
        <1>27 DEF PageNext, ServerStep, StatusStep, ScanStep, UpdateStep

(* A page that has just been loaded, perhaps while a scan is running.       *)
LEMMA PageInitInv ==
    ASSUME PageInit
    PROVE  PageInv
<1> USE DEF PageInit, Idle
<1>1. PageTypeOK
  <2>1. srv \in [Servers -> States] /\ last \in [Servers -> States]
    BY DEF States
  <2>2. batch \in SUBSET Servers /\ event \in SUBSET Servers
    OBVIOUS
  <2>3. snap \in [Calls -> [Servers -> States]]
    BY DEF States
  <2>4. scans \in 0 .. MaxScans /\ told \in 0 .. MaxScans /\ updates \in 0 .. MaxUpdates
    BY ScanConstants DEF ScanConstants
  <2>5. call \in [Calls -> {"free", "sent", "served"}] /\ follow \in [Servers -> {"off", "wait", "late"}]
    OBVIOUS
  <2> HIDE DEF Idle
  <2>6. /\ controller \in BOOLEAN /\ scanRequestActive \in BOOLEAN /\ targets \in SUBSET Servers
        /\ scanCompletionPending \in BOOLEAN /\ scanActive \in BOOLEAN /\ timer \in BOOLEAN
        /\ overrides \in SUBSET Servers /\ restarting \in SUBSET Servers
        /\ selective \in BOOLEAN /\ scanDisabled \in BOOLEAN
    OBVIOUS
  <2>7. /\ post \in {"none", "sent", "running", "refused"}
        /\ target \in Servers \cup {"all", None} /\ orphan \in Servers \cup {"all", None}
        /\ due \in {"none", "asked", "accepted"} /\ stop \in {"none", "sent", "served"} /\ update \in Servers \cup {None}
    OBVIOUS
  <2> QED
    BY <2>1, <2>2, <2>3, <2>4, <2>5, <2>6, <2>7 DEF PageTypeOK
<1>2. RequestInv
    BY DEF RequestInv
<1>3. PromiseInv
    BY DEF PromiseInv
<1>4. BudgetInv
    BY ScanConstants DEF BudgetInv, ScanConstants
<1>5. ShownActivityPolled
    BY DEF ShownActivityPolled
<1> QED
    BY <1>1, <1>2, <1>3, <1>4, <1>5 DEF PageInv

(* The strengthened invariant of the page is inductive. *)
LEMMA PageInvariance ==
    PageSpec => []PageInv
<1>1. ASSUME PageInv, [PageNext]_pageVars PROVE PageInv'
  <2>1. RequestInv' /\ PromiseInv' /\ BudgetInv' /\ ShownActivityPolled'
    BY <1>1, RequestStep, PromiseStep, BudgetStep, ShownPolledStep DEF PageInv
  <2>2. PageTypeOK'
    BY <1>1, <2>1, PageTypeStep DEF PageInv
  <2> QED
    BY <2>1, <2>2 DEF PageInv
<1> QED
    BY <1>1, PageInitInv, PTL DEF PageSpec

(* The state of the status page keeps its types: no more scans are told of  *)
(* than were asked for.                                                     *)
THEOREM PageTypeCorrect ==
    PageSpec => []PageTypeOK
<1>1. PageInv => PageTypeOK
    BY DEF PageInv
<1> QED
    BY <1>1, PageInvariance, PTL

(* What the page shows as going on it polls for, however answers and events *)
(* overtake each other.                                                     *)
THEOREM ActivityIsPolled ==
    PageSpec => []ShownActivityPolled
<1>1. PageInv => ShownActivityPolled
    BY DEF PageInv
<1> QED
    BY <1>1, PageInvariance, PTL

(* The page never waits for a scan and for an update at the same time.      *)
THEOREM ScanOrUpdate ==
    PageSpec => []NoScanDuringUpdate
<1>1. PageInv => NoScanDuringUpdate
    BY DEF PageInv, RequestInv, NoScanDuringUpdate
<1> QED
    BY <1>1, PageInvariance, PTL

(* "Check updates finished" is told only of a full scan that the server has *)
(* accepted and that has neither failed nor been stopped or aborted by the  *)
(* page since, and once, whatever is refused, lost or answered late.        *)
THEOREM FinishIsTold ==
    PageSpec => FinishTold
<1>1. ASSUME PageInv, [PageNext]_pageVars, told' # told PROVE due = "accepted"
  <2>1. scanCompletionPending /\ ~controller
    <3> USE <1>1 DEF server, request, shown, marks, choice
    <3>1. CASE ServerStep
      BY <3>1 DEF ServerStep, ScanAccepted, OrphanAccepted, ScanRefused, OtherScan, StopServed, ServerDone,
          refreshRemoteStatusCache
    <3>2. CASE StatusStep
      BY <3>2 DEF StatusStep, StatusServed, StatusAnswered, StatusFails, upsertStatusResult, StreamSnapshot,
          AskStatus, Poll, applyStatusResults, updateScanPolling
    <3>3. CASE ScanStep
      BY <3>3 DEF ScanStep, toggleSelective, ScanAnswered, ScanFails, StopScan, ScanStopped, ScanAll, AllOffline,
          ScanSelected
    <3>4. CASE UpdateStep
      BY <3>4 DEF UpdateStep, UpdateAnswered, UpdateContainer, SelfUpdateLate, FollowEnds, FollowTick
    <3>5. CASE UNCHANGED pageVars
      BY <3>5 DEF pageVars
    <3> QED
      BY <3>1, <3>2, <3>3, <3>4, <3>5 DEF PageNext
  <2> QED
    BY <1>1, <2>1 DEF PageInv, PromiseInv
<1>2. PageInv /\ [PageNext]_pageVars => [told' # told => due = "accepted"]_pageVars
    BY <1>1
<1> QED
    BY <1>2, PageInvariance, PTL DEF PageSpec, FinishTold

=============================================================================
