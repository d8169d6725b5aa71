-------------------------- MODULE ScanControlProofs --------------------------
(***************************************************************************)
(* Proofs about ScanControl, for any number of requests, scheduler loops   *)
(* and servers: the types, the exclusion of scans and updates, the         *)
(* exactness of the remote scan counter, the bound on the steps that every *)
(* goroutine counts down (ScanAdvances), the stop button for clients that  *)
(* take turns, and the states that are left when nothing runs any more.    *)
(*                                                                         *)
(* The first three are not inductive alone.  The counter may only go down  *)
(* because a goroutine is counted, so the type of remoteScanRunning needs  *)
(* RemoteCounterExact; a holder of the slot must be the kind of goroutine  *)
(* that can release it (PcKinds); and a single-server scan must have been  *)
(* given a server (ScopeKinds).                                            *)
(***************************************************************************)
EXTENDS ScanControl, FiniteSetTheorems, TLAPS

(* Updates only wait or update, scans never do. *)
PcKinds ==
    /\ \A p \in Updates : pc[p] \in {"idle", "updating"}
    /\ \A p \in Scanners : pc[p] # "updating"

(* A scan on its way to the slot has a valid scope, and only the batch of   *)
(* all servers goes through the loop of runScan.                            *)
ScopeKinds ==
    \A p \in Scanners : /\ pc[p] \in {"mark", "acquire"} => scope[p] # "bad"
                        /\ pc[p] = "onesync" => scope[p] \in Remotes
                        /\ pc[p] = "loop" => scope[p] = "all"

IndInv == TypeOK /\ PcKinds /\ ScopeKinds /\ OperationExclusion /\ RemoteCounterExact

Counted == {p \in Procs : pc[p] \in CountedPc}

flags == <<scanRunning, updateRunning, remoteScanRunning>>

(* Only goroutine p moves. *)
Moves(p) == /\ pc' \in [Procs -> PcNames]
            /\ \A q \in Procs \ {p} : pc'[q] = pc[q]

(* Places that neither hold the slot nor are counted. *)
FreePc == PcNames \ (ScanPc \cup CountedPc \cup {"updating"})

(* What a step can do to the slot and the counter: nothing, or one          *)
(* goroutine takes or gives back the slot, or enters or leaves the count.   *)
Keep == UNCHANGED flags /\ \/ UNCHANGED pc
                           \/ \E p \in Scanners :
                                /\ Moves(p)
                                /\ \/ pc[p] \in FreePc /\ pc'[p] \in FreePc
                                   \/ pc[p] \in ScanPc /\ pc'[p] \in ScanPc
                                   \/ pc[p] \in CountedPc /\ pc'[p] \in CountedPc
TakeScan == /\ ~scanRunning /\ ~updateRunning /\ scanRunning' = TRUE
            /\ UNCHANGED <<updateRunning, remoteScanRunning>>
            /\ \E p \in Scanners : Moves(p) /\ pc[p] \in FreePc /\ pc'[p] \in ScanPc
GiveScan == /\ scanRunning' = FALSE /\ UNCHANGED <<updateRunning, remoteScanRunning>>
            /\ \E p \in Scanners : Moves(p) /\ pc[p] \in ScanPc /\ pc'[p] \in FreePc
TakeUpdate == /\ ~scanRunning /\ ~updateRunning /\ updateRunning' = TRUE
              /\ UNCHANGED <<scanRunning, remoteScanRunning>>
              /\ \E p \in Updates : Moves(p) /\ pc[p] = "idle" /\ pc'[p] = "updating"
GiveUpdate == /\ updateRunning' = FALSE /\ UNCHANGED <<scanRunning, remoteScanRunning>>
              /\ \E p \in Updates : Moves(p) /\ pc[p] = "updating" /\ pc'[p] = "idle"
Enter == /\ remoteScanRunning' = remoteScanRunning + 1
         /\ UNCHANGED <<scanRunning, updateRunning>>
         /\ \E p \in Scanners : Moves(p) /\ pc[p] \in FreePc /\ pc'[p] \in CountedPc
Leave == /\ remoteScanRunning' = remoteScanRunning - 1
         /\ UNCHANGED <<scanRunning, updateRunning>>
         /\ \E p \in Scanners : Moves(p) /\ pc[p] \in CountedPc /\ pc'[p] \in FreePc

ControlStep == Keep \/ TakeScan \/ GiveScan \/ TakeUpdate \/ GiveUpdate \/ Enter \/ Leave

-----------------------------------------------------------------------------
(* A jump of one goroutine moves it, and no other. *)
LEMMA GotoMoves ==
    ASSUME TypeOK, NEW p \in Procs, NEW l \in PcNames, Goto(p, l)
    PROVE  Moves(p) /\ pc'[p] = l
    BY DEF TypeOK, Goto, Moves

(* Every action of the controller is one of the seven control steps.        *)
LEMMA EveryStepIsAControlStep == TypeOK /\ [Next]_vars => ControlStep
<1> SUFFICES ASSUME TypeOK, [Next]_vars PROVE ControlStep
    OBVIOUS
<1> USE GotoMoves DEF ControlStep, flags, FreePc, PcNames, ScanPc, RemotePc, OnePc, CountedPc,
                      Procs, Scanners, shared, Return
<1>1. ASSUME NEW p \in Scanners, AcquireScan(p) PROVE TakeScan
    BY <1>1 DEF AcquireScan, TakeScan
<1>2. ASSUME NEW p \in Scanners, ScanInProgress(p) PROVE Keep
    BY <1>2 DEF ScanInProgress, Keep
<1>3. ASSUME NEW p \in Scanners, LocalStep(p) PROVE Keep \/ GiveScan
  <2>1. CASE ReleaseScan(p)
    BY <2>1 DEF ReleaseScan, GiveScan
  <2>2. CASE LocalCancelled(p) \/ \E s \in Locals : LocalMaintenance(p, s)
    BY <2>2 DEF LocalCancelled, LocalMaintenance, Keep
  <2>3. CASE \E s \in Locals : LocalStart(p, s)
    BY <2>3 DEF LocalStart, Keep
  <2>4. CASE LocalScanError(p) \/ LocalScanReportsError(p) \/ LocalScanDone(p)
    BY <2>4 DEF LocalScanError, LocalScanReportsError, LocalScanDone, AfterLocal, Keep
  <2>5. CASE LocalUpdateStart(p) \/ LocalUpdateDone(p) \/ LocalUpdateFailed(p)
    BY <2>5 DEF LocalUpdateStart, LocalUpdateDone, LocalUpdateFailed, AfterLocal, Keep
  <2>6. CASE StoreResults(p)
    BY <2>6 DEF StoreResults, Keep
  <2> QED
    BY <1>3, <2>1, <2>2, <2>3, <2>4, <2>5, <2>6 DEF LocalStep
<1>4. ASSUME NEW p \in Scanners, RemoteStep(p) PROVE Keep \/ Enter \/ Leave
  <2>1. CASE RemoteBatch(p)
    BY <2>1 DEF RemoteBatch, Enter
  <2>2. CASE RemoteBatchEnd(p)
    BY <2>2 DEF RemoteBatchEnd, Leave
  <2>3. CASE RemoteCancelled(p) \/ \E s \in Remotes : RemoteSkip(p, s)
    BY <2>3 DEF RemoteCancelled, RemoteSkip, Keep
  <2>4. CASE \E s \in Remotes : RemoteSyncPolicy(p, s)
    BY <2>4 DEF RemoteSyncPolicy, Keep
  <2>5. CASE RemoteStart(p) \/ RemoteError(p) \/ RemoteUpdateStart(p) \/ RemoteDone(p)
    BY <2>5 DEF RemoteStart, RemoteError, RemoteUpdateStart, RemoteDone, Keep
  <2> QED
    BY <1>4, <2>1, <2>2, <2>3, <2>4, <2>5 DEF RemoteStep
<1>5. ASSUME NEW p \in Manual, ManualStep(p) PROVE Keep \/ Enter \/ Leave
  <2>1. CASE RegisterCancel(p) \/ MarkTargets(p) \/ OneStart(p)
    BY <2>1 DEF RegisterCancel, MarkTargets, OneStart, Keep
  <2>2. CASE Cleanup(p) \/ ManualBatchEnd(p) \/ OneUpdateEnd(p)
    BY <2>2 DEF Cleanup, ManualBatchEnd, OneUpdateEnd, Keep
  <2>3. CASE OneCount(p)
    BY <2>3 DEF OneCount, Enter
  <2>4. CASE OneError(p) \/ OneDone(p) \/ OneUpdateStart(p)
    BY <2>4 DEF OneError, OneDone, OneUpdateStart, Leave
  <2> QED
    BY <1>5, <2>1, <2>2, <2>3, <2>4 DEF ManualStep
<1>6. ASSUME NEW p \in Updates, AcquireUpdate(p) PROVE TakeUpdate
    BY <1>6 DEF AcquireUpdate, TakeUpdate
<1>7. ASSUME NEW p \in Updates, ReleaseUpdate(p) PROVE GiveUpdate
    BY <1>7 DEF ReleaseUpdate, GiveUpdate
<1>8. ASSUME NEW p \in Manual, NEW sc, ScanRequest(p, sc) PROVE Keep
    BY <1>8 DEF ScanRequest, Keep
<1>9. ASSUME NEW p \in Sched, ScheduledScan(p) PROVE Keep
    BY <1>9 DEF ScheduledScan, Keep
<1>10. ASSUME NEW p \in Sched,
              StopSchedulerLoop(p) \/ SchedulerLoopReturns(p) \/ StartSchedulerLoop(p)
       PROVE Keep
    BY <1>10 DEF StopSchedulerLoop, SchedulerLoopReturns, StartSchedulerLoop, Keep
<1>11. CASE StopRequest \/ StopCancels
    BY <1>11 DEF StopRequest, StopCancels, Keep
<1>12. CASE \E s \in Servers : ToggleMaintenance(s) \/ ToggleOnline(s)
    BY <1>12 DEF ToggleMaintenance, ToggleOnline, Keep
<1>13. CASE UNCHANGED vars
    BY <1>13 DEF vars, Keep
<1>14. ASSUME NEW p \in Procs, Step(p) PROVE ControlStep
    BY <1>14, <1>1, <1>2, <1>3, <1>4, <1>5, <1>7 DEF Step, ReleaseUpdate
<1> QED
    BY <1>6, <1>8, <1>9, <1>10, <1>11, <1>12, <1>13, <1>14 DEF Next, Servers

-----------------------------------------------------------------------------
(* The set of counted goroutines is finite and, by one goroutine moving,    *)
(* stays the same, gains one element or loses one.                          *)
LEMMA CountedFinite == IsFiniteSet(Counted)
    BY ScanConstants, FS_Subset DEF Counted

(* So its size is a number. *)
LEMMA CountedNat == Cardinality(Counted) \in Nat
    BY CountedFinite, FS_CardinalityType

(* A move that neither enters nor leaves the counted places. *)
LEMMA CountKept ==
    ASSUME NEW p \in Procs, Moves(p), pc[p] \in CountedPc <=> pc'[p] \in CountedPc
    PROVE  Counted' = Counted
    BY DEF Counted, Moves

(* A goroutine that enters triggerRemoteScans or a single remote scan. *)
LEMMA CountUp ==
    ASSUME NEW p \in Procs, Moves(p), pc[p] \notin CountedPc, pc'[p] \in CountedPc
    PROVE  Cardinality(Counted') = Cardinality(Counted) + 1
<1>1. Counted' = Counted \cup {p} /\ p \notin Counted
    BY DEF Counted, Moves
<1> QED
    BY <1>1, CountedFinite, FS_AddElement

(* A goroutine that leaves it. *)
LEMMA CountDown ==
    ASSUME NEW p \in Procs, Moves(p), pc[p] \in CountedPc, pc'[p] \notin CountedPc
    PROVE  Cardinality(Counted') = Cardinality(Counted) - 1 /\ Cardinality(Counted) > 0
<1>1. Counted' = Counted \ {p} /\ p \in Counted
    BY DEF Counted, Moves
<1>2. Cardinality(Counted) # 0
    BY <1>1, CountedFinite, FS_EmptySet
<1>3. Cardinality(Counted \ {p}) = Cardinality(Counted) - 1
    BY <1>1, CountedFinite, FS_RemoveElement
<1>4. Cardinality(Counted) > 0
    BY <1>2, CountedNat
<1> QED
    BY <1>1, <1>3, <1>4

-----------------------------------------------------------------------------
(* No control step breaks the counter, and the counter stays a number.      *)
LEMMA CounterStep ==
    ASSUME TypeOK, RemoteCounterExact, ControlStep
    PROVE  RemoteCounterExact' /\ remoteScanRunning' \in Nat
<1> USE DEF FreePc, PcNames, ScanPc, RemotePc, OnePc, CountedPc
<1>1. remoteScanRunning = Cardinality(Counted)
    BY DEF RemoteCounterExact, Counted
<1>2. remoteScanRunning' = Cardinality(Counted')
  <2>1. CASE Keep
    <3>1. CASE UNCHANGED pc
        BY <2>1, <3>1, <1>1 DEF Keep, flags, Counted
    <3>2. CASE \E p \in Scanners : /\ Moves(p)
                                   /\ pc[p] \in CountedPc <=> pc'[p] \in CountedPc
        BY <2>1, <3>2, <1>1, CountKept DEF Keep, flags, Procs
    <3> QED
        BY <2>1, <3>1, <3>2 DEF Keep
  <2>2. CASE TakeScan \/ GiveScan \/ TakeUpdate \/ GiveUpdate
    <3>1. PICK p \in Procs : Moves(p) /\ (pc[p] \in CountedPc <=> pc'[p] \in CountedPc)
        BY <2>2 DEF TakeScan, GiveScan, TakeUpdate, GiveUpdate, Procs
    <3>2. remoteScanRunning' = remoteScanRunning
        BY <2>2 DEF TakeScan, GiveScan, TakeUpdate, GiveUpdate
    <3> QED
        BY <3>1, <3>2, <1>1, CountKept
  <2>3. CASE Enter
    BY <2>3, <1>1, CountUp DEF Enter, Procs
  <2>4. CASE Leave
    BY <2>4, <1>1, CountDown DEF Leave, Procs
  <2> QED
    BY <2>1, <2>2, <2>3, <2>4 DEF ControlStep
<1>3. Cardinality(Counted') \in Nat
  <2>1. IsFiniteSet(Counted')
    BY ScanConstants, FS_Subset DEF Counted
  <2> QED
    BY <2>1, FS_CardinalityType
<1> QED
    BY <1>2, <1>3 DEF RemoteCounterExact, Counted

(* No control step breaks the exclusion of scans and updates.               *)
LEMMA ExclusionStep ==
    ASSUME TypeOK, PcKinds, OperationExclusion, ControlStep
    PROVE  PcKinds' /\ OperationExclusion'
<1> USE ScanConstants
    DEF FreePc, PcNames, ScanPc, RemotePc, OnePc, CountedPc, Moves, Procs, Scanners, Holders,
        PcKinds, OperationExclusion, TypeOK
<1>1. CASE Keep
  <2>1. CASE UNCHANGED pc
    BY <1>1, <2>1 DEF Keep, flags
  <2>2. CASE ~UNCHANGED pc
    <3>1. PICK p \in Scanners : /\ Moves(p)
                               /\ \/ pc[p] \in FreePc /\ pc'[p] \in FreePc
                                  \/ pc[p] \in ScanPc /\ pc'[p] \in ScanPc
                                  \/ pc[p] \in CountedPc /\ pc'[p] \in CountedPc
        BY <1>1, <2>2 DEF Keep
    <3>2. \A q \in Procs : /\ pc'[q] \in ScanPc <=> pc[q] \in ScanPc
                           /\ pc'[q] = "updating" <=> pc[q] = "updating"
        BY <3>1
    <3>3. PcKinds'
        BY <3>1, <3>2
    <3> HIDE DEF Moves, FreePc, ScanPc
    <3> QED
        BY <1>1, <3>2, <3>3 DEF Keep, flags
  <2> QED
    BY <2>1, <2>2
<1>2. CASE TakeScan
    BY <1>2 DEF TakeScan
<1>3. CASE GiveScan
    BY <1>3 DEF GiveScan
<1>4. CASE TakeUpdate
    BY <1>4 DEF TakeUpdate
<1>5. CASE GiveUpdate
    BY <1>5 DEF GiveUpdate
<1>6. CASE Enter
    BY <1>6 DEF Enter
<1>7. CASE Leave
    BY <1>7 DEF Leave
<1> QED
    BY <1>1, <1>2, <1>3, <1>4, <1>5, <1>6, <1>7 DEF ControlStep

-----------------------------------------------------------------------------
(* A scan only goes for the slot with a scope that exists.                  *)
LEMMA ScopeStep ==
    ASSUME TypeOK, ScopeKinds, [Next]_vars
    PROVE  ScopeKinds'
<1> USE DEF TypeOK, ScopeKinds, Goto, Return, frame, PcNames, ScanPc, RemotePc, OnePc, Procs, Scanners
<1>1. ASSUME NEW p \in Scanners, AcquireScan(p) \/ ScanInProgress(p) PROVE ScopeKinds'
    BY <1>1 DEF AcquireScan, ScanInProgress
<1>2. ASSUME NEW p \in Scanners, LocalStep(p) PROVE ScopeKinds'
  <2>1. CASE LocalCancelled(p) \/ \E s \in Locals : LocalMaintenance(p, s) \/ LocalStart(p, s)
    BY <2>1 DEF LocalCancelled, LocalMaintenance, LocalStart
  <2>2. CASE LocalScanError(p) \/ LocalScanReportsError(p) \/ LocalScanDone(p)
    BY <2>2 DEF LocalScanError, LocalScanReportsError, LocalScanDone, AfterLocal
  <2>3. CASE LocalUpdateStart(p) \/ LocalUpdateDone(p) \/ LocalUpdateFailed(p)
    BY <2>3 DEF LocalUpdateStart, LocalUpdateDone, LocalUpdateFailed, AfterLocal
  <2>4. CASE StoreResults(p) \/ ReleaseScan(p)
    BY <2>4 DEF StoreResults, ReleaseScan
  <2> QED
    BY <1>2, <2>1, <2>2, <2>3, <2>4 DEF LocalStep
<1>3. ASSUME NEW p \in Scanners, RemoteStep(p) PROVE ScopeKinds'
  <2>1. CASE RemoteBatchEnd(p)
    BY <2>1 DEF RemoteBatchEnd
  <2>2. CASE RemoteBatch(p) \/ RemoteCancelled(p)
    BY <2>2 DEF RemoteBatch, RemoteCancelled
  <2>3. CASE \E s \in Remotes : RemoteSkip(p, s) \/ RemoteSyncPolicy(p, s)
    BY <2>3 DEF RemoteSkip, RemoteSyncPolicy
  <2>4. CASE RemoteStart(p) \/ RemoteError(p) \/ RemoteUpdateStart(p) \/ RemoteDone(p)
    BY <2>4 DEF RemoteStart, RemoteError, RemoteUpdateStart, RemoteDone
  <2> QED
    BY <1>3, <2>1, <2>2, <2>3, <2>4 DEF RemoteStep
<1>4. ASSUME NEW p \in Manual, ManualStep(p) PROVE ScopeKinds'
  <2>1. CASE RegisterCancel(p)
    BY <2>1 DEF RegisterCancel
  <2>2. CASE MarkTargets(p)
    BY <2>2 DEF MarkTargets
  <2>3. CASE Cleanup(p) \/ ManualBatchEnd(p)
    BY <2>3 DEF Cleanup, ManualBatchEnd
  <2>4. CASE OneStart(p) \/ OneCount(p) \/ OneError(p) \/ OneDone(p) \/ OneUpdateStart(p)
                \/ OneUpdateEnd(p)
    BY <2>4 DEF OneStart, OneCount, OneError, OneDone, OneUpdateStart, OneUpdateEnd
  <2> QED
    BY <1>4, <2>1, <2>2, <2>3, <2>4 DEF ManualStep
<1>5. ASSUME NEW p \in Updates, AcquireUpdate(p) \/ ReleaseUpdate(p) PROVE ScopeKinds'
    BY <1>5 DEF AcquireUpdate, ReleaseUpdate
<1>6. ASSUME NEW p \in Manual, NEW sc, ScanRequest(p, sc) PROVE ScopeKinds'
    BY <1>6 DEF ScanRequest
<1>7. ASSUME NEW p \in Sched, ScheduledScan(p) PROVE ScopeKinds'
    BY <1>7 DEF ScheduledScan
<1>8. ASSUME UNCHANGED <<pc, scope>> PROVE ScopeKinds'
    BY <1>8
<1>9. CASE UNCHANGED vars
    BY <1>8, <1>9 DEF vars
<1>10. CASE \E p \in Procs : Step(p)
    BY <1>10, <1>1, <1>2, <1>3, <1>4, <1>5 DEF Step, ReleaseUpdate
<1>11. ASSUME NEW p \in Sched,
              StopSchedulerLoop(p) \/ SchedulerLoopReturns(p) \/ StartSchedulerLoop(p)
       PROVE ScopeKinds'
    BY <1>8, <1>11 DEF StopSchedulerLoop, SchedulerLoopReturns, StartSchedulerLoop
<1>12. CASE StopRequest \/ StopCancels
    BY <1>8, <1>12 DEF StopRequest, StopCancels
<1>13. CASE \E s \in Servers : ToggleMaintenance(s) \/ ToggleOnline(s)
    BY <1>8, <1>13 DEF ToggleMaintenance, ToggleOnline
<1> HIDE DEF ScopeKinds, TypeOK
<1> QED
    BY <1>5, <1>6, <1>7, <1>9, <1>10, <1>11, <1>12, <1>13 DEF Next, Servers

(* Every action keeps the types; the slot, the counter and the program      *)
(* counters are covered by the control steps.                               *)
LEMMA TypeStep ==
    ASSUME TypeOK, ScopeKinds, RemoteCounterExact, [Next]_vars
    PROVE  TypeOK'
<1> DEFINE DataOK ==
        /\ scanCancel \in Manual \cup {None}
        /\ scanStates \in [Servers -> States]
        /\ lastScans \in [Names -> Results]
        /\ maint \in SUBSET Servers /\ online \in SUBSET Remotes /\ edits \in 0..MaxConfigEdits
        /\ scope \in [Scanners -> {"all", "bad"} \cup Servers]
        /\ todo \in [Scanners -> SUBSET Servers]
        /\ cur \in [Scanners -> Servers \cup {None}]
        /\ res \in [Scanners -> [Locals -> Results]]
        /\ ctxDone \in [Scanners -> BOOLEAN]
        /\ schedLoop \in SUBSET Sched
        /\ stopper \in Manual \cup {None, Stale}
<1>1. DataOK
    BY DEF TypeOK
<1>2. ControlStep
    BY EveryStepIsAControlStep
<1>3. remoteScanRunning' \in Nat
    BY <1>2, CounterStep
<1>4. scanRunning' \in BOOLEAN /\ updateRunning' \in BOOLEAN /\ pc' \in [Procs -> PcNames]
    BY <1>2 DEF TypeOK, ControlStep, Keep, TakeScan, GiveScan, TakeUpdate, GiveUpdate, Enter,
                Leave, Moves, flags
<1>5. DataOK'
  <2> USE <1>1, ScanConstants DEF Servers, Scanners, Procs, States, Active, Results, Names,
          setScanState, setAllPending, cancelRemaining, FailedState, KeepLocal, Return,
          shared, store, env, frame
  <2>1. ASSUME NEW p \in Scanners, AcquireScan(p) \/ ScanInProgress(p) PROVE DataOK'
    BY <2>1 DEF AcquireScan, ScanInProgress, ScopeKinds
  <2>2. ASSUME NEW p \in Scanners, LocalCancelled(p) PROVE DataOK'
    BY <2>2 DEF LocalCancelled
  <2>3. ASSUME NEW p \in Scanners, NEW s \in Locals, LocalMaintenance(p, s) PROVE DataOK'
    BY <2>3 DEF LocalMaintenance
  <2>4. ASSUME NEW p \in Scanners, NEW s \in Locals, LocalStart(p, s) PROVE DataOK'
    BY <2>4 DEF LocalStart
  <2>5. ASSUME NEW p \in Scanners, LocalScanError(p) PROVE DataOK'
    <3>1. scanStates' \in [Servers -> States]
        BY <2>5 DEF LocalScanError
    <3>2. lastScans' \in [Names -> Results] /\ res' \in [Scanners -> [Locals -> Results]]
        BY <2>5 DEF LocalScanError
    <3> QED
        BY <2>5, <3>1, <3>2 DEF LocalScanError
  <2>6. ASSUME NEW p \in Scanners, LocalScanReportsError(p) \/ LocalScanDone(p) PROVE DataOK'
    BY <2>6 DEF LocalScanReportsError, LocalScanDone
  <2>7. ASSUME NEW p \in Scanners, LocalUpdateStart(p) \/ LocalUpdateDone(p) PROVE DataOK'
    BY <2>7 DEF LocalUpdateStart, LocalUpdateDone
  <2>8. ASSUME NEW p \in Scanners, LocalUpdateFailed(p) PROVE DataOK'
    <3>1. scanStates' \in [Servers -> States]
        BY <2>8 DEF LocalUpdateFailed
    <3>2. lastScans' \in [Names -> Results] /\ res' \in [Scanners -> [Locals -> Results]]
        BY <2>8 DEF LocalUpdateFailed
    <3> QED
        BY <2>8, <3>1, <3>2 DEF LocalUpdateFailed
  <2>9. ASSUME NEW p \in Scanners, StoreResults(p) PROVE DataOK'
    BY <2>9 DEF StoreResults, NoResults
  <2>10. ASSUME NEW p \in Scanners, ReleaseScan(p) PROVE DataOK'
    BY <2>10 DEF ReleaseScan
  <2>11. ASSUME NEW p \in Scanners, RemoteBatch(p) \/ RemoteBatchEnd(p) PROVE DataOK'
    <3>1. CASE RemoteBatch(p)
        BY <2>11, <3>1 DEF RemoteBatch
    <3>2. CASE RemoteBatchEnd(p)
        BY <2>11, <3>2 DEF RemoteBatchEnd
    <3> QED
        BY <2>11, <3>1, <3>2
  <2>12. ASSUME NEW p \in Scanners, RemoteCancelled(p) PROVE DataOK'
    BY <2>12 DEF RemoteCancelled
  <2>13. ASSUME NEW p \in Scanners, NEW s \in Remotes, RemoteSkip(p, s) PROVE DataOK'
    BY <2>13 DEF RemoteSkip
  <2>14. ASSUME NEW p \in Scanners, NEW s \in Remotes, RemoteSyncPolicy(p, s) PROVE DataOK'
    BY <2>14 DEF RemoteSyncPolicy
  <2>15. ASSUME NEW p \in Scanners, RemoteStart(p) \/ RemoteUpdateStart(p) PROVE DataOK'
    BY <2>15 DEF RemoteStart, RemoteUpdateStart
  <2>16. ASSUME NEW p \in Scanners, RemoteError(p) \/ RemoteDone(p) PROVE DataOK'
    BY <2>16 DEF RemoteError, RemoteDone, Answers
  <2>17. ASSUME NEW p \in Manual, RegisterCancel(p) \/ MarkTargets(p) PROVE DataOK'
    BY <2>17 DEF RegisterCancel, MarkTargets
  <2>18. ASSUME NEW p \in Manual, Cleanup(p) \/ ManualBatchEnd(p) PROVE DataOK'
    <3>1. scope' \in [Scanners -> {"all", "bad"} \cup Servers]
        BY <2>18 DEF Cleanup, ManualBatchEnd
    <3>2. cur' \in [Scanners -> Servers \cup {None}]
        BY <2>18 DEF Cleanup, ManualBatchEnd
    <3> QED
        BY <2>18, <3>1, <3>2 DEF Cleanup, ManualBatchEnd
  <2>19. ASSUME NEW p \in Manual, OneStart(p) PROVE DataOK'
    BY <2>19 DEF OneStart, ScopeKinds
  <2>20. ASSUME NEW p \in Manual, OneCount(p) \/ OneUpdateStart(p) PROVE DataOK'
    BY <2>20 DEF OneCount, OneUpdateStart
  <2>21. ASSUME NEW p \in Manual, OneError(p) \/ OneDone(p) \/ OneUpdateEnd(p) PROVE DataOK'
    BY <2>21 DEF OneError, OneDone, OneUpdateEnd, Answers
  <2>22. ASSUME NEW p \in Updates, AcquireUpdate(p) \/ ReleaseUpdate(p) PROVE DataOK'
    BY <2>22 DEF AcquireUpdate, ReleaseUpdate
  <2>23. ASSUME NEW p \in Manual, NEW sc \in {"all", "bad"} \cup Servers, ScanRequest(p, sc) PROVE DataOK'
    BY <2>23 DEF ScanRequest
  <2>24. ASSUME NEW p \in Sched, ScheduledScan(p) PROVE DataOK'
    BY <2>24 DEF ScheduledScan
  <2>25. ASSUME NEW p \in Sched,
             StopSchedulerLoop(p) \/ SchedulerLoopReturns(p) \/ StartSchedulerLoop(p)
      PROVE DataOK'
    BY <2>25 DEF StopSchedulerLoop, SchedulerLoopReturns, StartSchedulerLoop
  <2>26. ASSUME StopRequest \/ StopCancels PROVE DataOK'
    BY <2>26 DEF StopRequest, StopCancels
  <2>27. ASSUME NEW s \in Servers, ToggleMaintenance(s) PROVE DataOK'
    BY <2>27 DEF ToggleMaintenance
  <2>28. ASSUME NEW s \in Remotes, ToggleOnline(s) PROVE DataOK'
    BY <2>28 DEF ToggleOnline
  <2>29. ASSUME UNCHANGED vars PROVE DataOK'
    BY <2>29 DEF vars
  <2> HIDE DEF DataOK
  <2>30. ASSUME NEW p \in Scanners, LocalStep(p) PROVE DataOK'
    BY <2>30, <2>2, <2>3, <2>4, <2>5, <2>6, <2>7, <2>8, <2>9, <2>10 DEF LocalStep
  <2>31. ASSUME NEW p \in Scanners, RemoteStep(p) PROVE DataOK'
    BY <2>31, <2>11, <2>12, <2>13, <2>14, <2>15, <2>16 DEF RemoteStep
  <2>32. ASSUME NEW p \in Manual, ManualStep(p) PROVE DataOK'
    BY <2>32, <2>17, <2>18, <2>19, <2>20, <2>21 DEF ManualStep
  <2>33. ASSUME NEW p \in Procs, Step(p) PROVE DataOK'
    BY <2>33, <2>1, <2>22, <2>30, <2>31, <2>32 DEF Step, ReleaseUpdate
  <2> QED
    BY <2>33, <2>22, <2>23, <2>24, <2>25, <2>26, <2>27, <2>28, <2>29 DEF Next
<1> QED
    BY <1>3, <1>4, <1>5 DEF TypeOK

-----------------------------------------------------------------------------
(* The controller starts in the invariant: no goroutine, both flags down.   *)
LEMMA InitInv == Init => IndInv
<1> SUFFICES ASSUME Init PROVE IndInv
    OBVIOUS
<1> USE ScanConstants DEF Init, Servers, Scanners, Procs
<1>1. TypeOK
  <2>1. scanStates \in [Servers -> States] /\ lastScans \in [Names -> Results]
    BY DEF States, Results, Names
  <2>2. pc \in [Procs -> PcNames]
    BY DEF PcNames
  <2>3. res \in [Scanners -> [Locals -> Results]]
    BY DEF NoResults, Results
  <2>4. schedLoop \in SUBSET Sched /\ maint \in SUBSET Servers /\ online \in SUBSET Remotes
    OBVIOUS
  <2>5. /\ scope \in [Scanners -> {"all", "bad"} \cup Servers]
        /\ todo \in [Scanners -> SUBSET Servers]
        /\ cur \in [Scanners -> Servers \cup {None}]
        /\ ctxDone \in [Scanners -> BOOLEAN]
    OBVIOUS
  <2>6. scanRunning \in BOOLEAN /\ updateRunning \in BOOLEAN
    OBVIOUS
  <2>7. remoteScanRunning \in Nat /\ edits \in 0..MaxConfigEdits
    BY ScanConstants DEF ScanConstants
  <2>8. scanCancel \in Manual \cup {None} /\ stopper \in Manual \cup {None, Stale}
    OBVIOUS
  <2> QED
    BY <2>1, <2>2, <2>3, <2>4, <2>5, <2>6, <2>7, <2>8 DEF TypeOK
<1>2. PcKinds /\ ScopeKinds /\ OperationExclusion
    BY DEF PcKinds, ScopeKinds, OperationExclusion, Holders, ScanPc
<1>3. Counted = {}
    BY DEF Counted, CountedPc, RemotePc
<1>4. RemoteCounterExact
    BY <1>3, FS_EmptySet DEF RemoteCounterExact, Counted
<1> QED
    BY <1>1, <1>2, <1>4 DEF IndInv

(* The strengthened invariant is inductive.                                 *)
THEOREM ScanInvariance == Spec => []IndInv
<1>1. ASSUME IndInv, [Next]_vars PROVE IndInv'
    BY <1>1, EveryStepIsAControlStep, CounterStep, ExclusionStep, ScopeStep, TypeStep DEF IndInv
<1> QED
    BY <1>1, InitInv, PTL DEF Spec

(* The variables of the scan controller keep their types, and the counter   *)
(* of remote scans (an atomic int32 in the code) never goes below zero.     *)
THEOREM TypeCorrect == Spec => []TypeOK
<1>1. IndInv => TypeOK
    BY DEF IndInv
<1> QED
    BY <1>1, ScanInvariance, PTL

(* Scans of local servers and container updates exclude each other, and no  *)
(* path leaves scanRunning or updateRunning up, however many requests and   *)
(* scheduler loops there are.                                               *)
THEOREM ExclusionCorrect == Spec => []OperationExclusion
<1>1. IndInv => OperationExclusion
    BY DEF IndInv
<1> QED
    BY <1>1, ScanInvariance, PTL

(* handleScanStop reads an exact count of the remote scans in progress.     *)
THEOREM CounterCorrect == Spec => []RemoteCounterExact
<1>1. IndInv => RemoteCounterExact
    BY DEF IndInv
<1> QED
    BY <1>1, ScanInvariance, PTL

-----------------------------------------------------------------------------
(* The measure of ScanAdvances: a goroutine that was started counts down.   *)

(* What StepsLeft depends on, for one goroutine. *)
Undisturbed(p) ==
    /\ pc'[p] = pc[p]
    /\ p \in Scanners => todo'[p] = todo[p] /\ scope'[p] = scope[p]

(* The servers left to a batch: taking one off leaves one less.             *)
LEMMA BatchSize ==
    ASSUME NEW S \in SUBSET Servers
    PROVE  /\ Cardinality(S) \in Nat
           /\ S # {} => Cardinality(S) > 0
           /\ \A s \in S : Cardinality(S \ {s}) = Cardinality(S) - 1
<1>1. IsFiniteSet(Servers)
    BY ScanConstants, FS_Union DEF Servers
<1>2. IsFiniteSet(S)
    BY <1>1, FS_Subset
<1>3. Cardinality(S) \in Nat
    BY <1>2, FS_CardinalityType
<1>4. S # {} => Cardinality(S) # 0
    BY <1>2, FS_EmptySet
<1>5. \A s \in S : Cardinality(S \ {s}) = Cardinality(S) - 1
    BY <1>2, FS_RemoveElement
<1> QED
    BY <1>3, <1>4, <1>5

(* A batch starts with a number of servers, and ends with none.             *)
LEMMA BatchBounds ==
    Cardinality(Locals) \in Nat /\ Cardinality(Remotes) \in Nat /\ Cardinality({}) = 0
    BY BatchSize, FS_EmptySet DEF Servers

(* The measure is a number.                                                 *)
LEMMA StepsLeftNat == TypeOK /\ PcKinds => \A p \in Procs : StepsLeft(p) \in Nat
<1> SUFFICES ASSUME TypeOK, PcKinds, NEW p \in Procs PROVE StepsLeft(p) \in Nat
    OBVIOUS
<1>1. CASE p \in Scanners
  <2>1. todo[p] \in SUBSET Servers /\ pc[p] \in PcNames /\ pc[p] # "updating"
    BY <1>1 DEF TypeOK, PcKinds, Procs
  <2>2. Cardinality(todo[p]) \in Nat
    BY <2>1, BatchSize
  <2> QED
    BY <2>1, <2>2, BatchBounds
    DEF StepsLeft, RemoteWork, LocalWork, PcNames, ScanPc, RemotePc, OnePc
<1>2. CASE p \in Updates
    BY <1>2 DEF PcKinds, StepsLeft
<1> QED
    BY <1>1, <1>2 DEF Procs

(* What leaves a goroutine where it is leaves its measure as it is.         *)
LEMMA StepsLeftKept ==
    ASSUME TypeOK, PcKinds, NEW p \in Procs, Undisturbed(p)
    PROVE  StepsLeft(p)' = StepsLeft(p)
<1>1. CASE p \in Scanners
    BY <1>1 DEF Undisturbed, StepsLeft, RemoteWork, LocalWork
<1>2. CASE p \in Updates
    BY <1>2 DEF Undisturbed, PcKinds, StepsLeft
<1> QED
    BY <1>1, <1>2 DEF Procs

(* A goroutine only moves itself.                                           *)
LEMMA OthersUndisturbed ==
    ASSUME TypeOK, NEW p \in Procs, Step(p), NEW q \in Procs, q # p
    PROVE  Undisturbed(q)
<1> USE DEF TypeOK, Undisturbed, Goto, Return, frame, Procs, Scanners
<1>1. ASSUME p \in Scanners, AcquireScan(p) \/ ScanInProgress(p) PROVE Undisturbed(q)
    BY <1>1 DEF AcquireScan, ScanInProgress
<1>2. ASSUME p \in Scanners, LocalStep(p) PROVE Undisturbed(q)
  <2>1. CASE LocalCancelled(p) \/ \E s \in Locals : LocalMaintenance(p, s) \/ LocalStart(p, s)
    BY <1>2, <2>1 DEF LocalCancelled, LocalMaintenance, LocalStart
  <2>2. CASE LocalScanError(p) \/ LocalScanReportsError(p) \/ LocalScanDone(p)
    BY <1>2, <2>2 DEF LocalScanError, LocalScanReportsError, LocalScanDone
  <2>3. CASE LocalUpdateStart(p) \/ LocalUpdateDone(p) \/ LocalUpdateFailed(p)
    BY <1>2, <2>3 DEF LocalUpdateStart, LocalUpdateDone, LocalUpdateFailed
  <2>4. CASE StoreResults(p) \/ ReleaseScan(p)
    BY <1>2, <2>4 DEF StoreResults, ReleaseScan
  <2> QED
    BY <1>2, <2>1, <2>2, <2>3, <2>4 DEF LocalStep
<1>3. ASSUME p \in Scanners, RemoteStep(p) PROVE Undisturbed(q)
  <2>1. CASE RemoteBatch(p) \/ RemoteCancelled(p) \/ RemoteBatchEnd(p)
    BY <1>3, <2>1 DEF RemoteBatch, RemoteCancelled, RemoteBatchEnd
  <2>2. CASE \E s \in Remotes : RemoteSkip(p, s) \/ RemoteSyncPolicy(p, s)
    BY <1>3, <2>2 DEF RemoteSkip, RemoteSyncPolicy
  <2>3. CASE RemoteStart(p) \/ RemoteError(p) \/ RemoteUpdateStart(p) \/ RemoteDone(p)
    BY <1>3, <2>3 DEF RemoteStart, RemoteError, RemoteUpdateStart, RemoteDone
  <2> QED
    BY <1>3, <2>1, <2>2, <2>3 DEF RemoteStep
<1>4. ASSUME p \in Manual, ManualStep(p) PROVE Undisturbed(q)
  <2>1. CASE RegisterCancel(p) \/ MarkTargets(p) \/ Cleanup(p) \/ ManualBatchEnd(p)
    BY <1>4, <2>1 DEF RegisterCancel, MarkTargets, Cleanup, ManualBatchEnd
  <2>2. CASE OneStart(p) \/ OneCount(p) \/ OneError(p) \/ OneDone(p) \/ OneUpdateStart(p)
                \/ OneUpdateEnd(p)
    BY <1>4, <2>2 DEF OneStart, OneCount, OneError, OneDone, OneUpdateStart, OneUpdateEnd
  <2> QED
    BY <1>4, <2>1, <2>2 DEF ManualStep
<1>5. ASSUME ReleaseUpdate(p) PROVE Undisturbed(q)
    BY <1>5 DEF ReleaseUpdate
<1> QED
    BY <1>1, <1>2, <1>3, <1>4, <1>5 DEF Step

(* Every step of a goroutine counts down: a server that is left out, failed *)
(* or cancelled is off the list, a scan that is refused goes on behind the  *)
(* local part, and a batch passes from its local to its remote part once.   *)
LEMMA StepCountsDown ==
    ASSUME TypeOK, ScopeKinds, NEW p \in Procs, Step(p)
    PROVE  StepsLeft(p)' < StepsLeft(p)
<1> USE BatchBounds DEF StepsLeft, RemoteWork, LocalWork, Goto, Return, frame
<1>1. ASSUME p \in Scanners
      PROVE  /\ pc \in [Procs -> PcNames] /\ todo \in [Scanners -> SUBSET Servers]
             /\ scope \in [Scanners -> {"all", "bad"} \cup Servers]
             /\ pc[p] = "loop" => scope[p] = "all"
             /\ Cardinality(todo[p]) \in Nat
             /\ todo[p] # {} => Cardinality(todo[p]) > 0
             /\ \A s \in todo[p] : Cardinality(todo[p] \ {s}) = Cardinality(todo[p]) - 1
    BY <1>1, BatchSize DEF TypeOK, ScopeKinds
<1>2. ASSUME p \in Scanners, AcquireScan(p) \/ ScanInProgress(p)
      PROVE  StepsLeft(p)' < StepsLeft(p)
  <2>1. CASE AcquireScan(p)
    BY <1>1, <1>2, <2>1 DEF AcquireScan
  <2>2. CASE ScanInProgress(p)
    BY <1>1, <1>2, <2>2 DEF ScanInProgress
  <2> QED
    BY <1>2, <2>1, <2>2
<1>3. ASSUME p \in Scanners, LocalStep(p) PROVE StepsLeft(p)' < StepsLeft(p)
  <2>1. CASE LocalCancelled(p)
    BY <1>1, <1>3, <2>1 DEF LocalCancelled
  <2>2. ASSUME NEW s \in Locals, LocalMaintenance(p, s) PROVE StepsLeft(p)' < StepsLeft(p)
    BY <1>1, <1>3, <2>2 DEF LocalMaintenance
  <2>3. ASSUME NEW s \in Locals, LocalStart(p, s) PROVE StepsLeft(p)' < StepsLeft(p)
    BY <1>1, <1>3, <2>3 DEF LocalStart
  <2>4. CASE LocalScanError(p) \/ LocalScanReportsError(p) \/ LocalScanDone(p)
    BY <1>1, <1>3, <2>4 DEF LocalScanError, LocalScanReportsError, LocalScanDone, AfterLocal
  <2>5. CASE LocalUpdateStart(p) \/ LocalUpdateDone(p) \/ LocalUpdateFailed(p)
    BY <1>1, <1>3, <2>5 DEF LocalUpdateStart, LocalUpdateDone, LocalUpdateFailed, AfterLocal
  <2>6. CASE StoreResults(p) \/ ReleaseScan(p)
    BY <1>1, <1>3, <2>6 DEF StoreResults, ReleaseScan
  <2> QED
    BY <1>3, <2>1, <2>2, <2>3, <2>4, <2>5, <2>6 DEF LocalStep
<1>4. ASSUME p \in Scanners, RemoteStep(p) PROVE StepsLeft(p)' < StepsLeft(p)
  <2>1. CASE RemoteBatch(p)
    BY <1>1, <1>4, <2>1 DEF RemoteBatch
  <2>2. CASE RemoteCancelled(p)
    BY <1>1, <1>4, <2>2 DEF RemoteCancelled
  <2>3. ASSUME NEW s \in Remotes, RemoteSkip(p, s) PROVE StepsLeft(p)' < StepsLeft(p)
    BY <1>1, <1>4, <2>3 DEF RemoteSkip
  <2>4. ASSUME NEW s \in Remotes, RemoteSyncPolicy(p, s) PROVE StepsLeft(p)' < StepsLeft(p)
    BY <1>1, <1>4, <2>4 DEF RemoteSyncPolicy
  <2>5. CASE RemoteStart(p) \/ RemoteError(p) \/ RemoteUpdateStart(p) \/ RemoteDone(p)
    BY <1>1, <1>4, <2>5 DEF RemoteStart, RemoteError, RemoteUpdateStart, RemoteDone
  <2>6. CASE RemoteBatchEnd(p)
    BY <1>1, <1>4, <2>6 DEF RemoteBatchEnd
  <2> QED
    BY <1>4, <2>1, <2>2, <2>3, <2>4, <2>5, <2>6 DEF RemoteStep
<1>5. ASSUME p \in Manual, ManualStep(p) PROVE StepsLeft(p)' < StepsLeft(p)
  <2>1. p \in Scanners
    BY <1>5 DEF Scanners
  <2>2. CASE RegisterCancel(p) \/ MarkTargets(p)
    BY <1>1, <2>1, <2>2 DEF RegisterCancel, MarkTargets
  <2>3. CASE Cleanup(p) \/ ManualBatchEnd(p)
    BY <1>1, <2>1, <2>3 DEF Cleanup, ManualBatchEnd
  <2>4. CASE OneStart(p) \/ OneCount(p)
    BY <1>1, <2>1, <2>4 DEF OneStart, OneCount
  <2>5. CASE OneError(p) \/ OneDone(p) \/ OneUpdateStart(p) \/ OneUpdateEnd(p)
    BY <1>1, <2>1, <2>5 DEF OneError, OneDone, OneUpdateStart, OneUpdateEnd
  <2> QED
    BY <1>5, <2>2, <2>3, <2>4, <2>5 DEF ManualStep
<1>6. ASSUME ReleaseUpdate(p) PROVE StepsLeft(p)' < StepsLeft(p)
    BY <1>6 DEF ReleaseUpdate, TypeOK
<1> HIDE DEF StepsLeft
<1> QED
    BY <1>2, <1>3, <1>4, <1>5, <1>6 DEF Step

(* Whatever is not a step of a goroutine that was started, a new request,   *)
(* the timer, the stop button, a changed configuration, leaves every        *)
(* started goroutine where it is.                                           *)
LEMMA WorldUndisturbing ==
    ASSUME TypeOK, [Next]_vars, NEW p \in Procs, pc[p] # "idle",
           \A q \in Procs : ~Step(q)
    PROVE  Undisturbed(p)
<1> USE DEF TypeOK, Undisturbed, Goto, frame, Procs, Scanners
<1>1. ASSUME NEW q \in Manual, NEW sc, ScanRequest(q, sc) PROVE Undisturbed(p)
    BY <1>1 DEF ScanRequest
<1>2. ASSUME NEW q \in Sched, ScheduledScan(q) PROVE Undisturbed(p)
    BY <1>2 DEF ScheduledScan
<1>3. ASSUME NEW q \in Sched,
             StopSchedulerLoop(q) \/ SchedulerLoopReturns(q) \/ StartSchedulerLoop(q)
      PROVE  Undisturbed(p)
    BY <1>3 DEF StopSchedulerLoop, SchedulerLoopReturns, StartSchedulerLoop
<1>4. ASSUME NEW q \in Updates, AcquireUpdate(q) PROVE Undisturbed(p)
    BY <1>4 DEF AcquireUpdate
<1>5. CASE StopRequest \/ StopCancels
    BY <1>5 DEF StopRequest, StopCancels
<1>6. ASSUME NEW s, ToggleMaintenance(s) \/ ToggleOnline(s) PROVE Undisturbed(p)
    BY <1>6 DEF ToggleMaintenance, ToggleOnline
<1>7. CASE UNCHANGED vars
    BY <1>7 DEF vars
<1> HIDE DEF Undisturbed, TypeOK
<1> QED
    BY <1>1, <1>2, <1>3, <1>4, <1>5, <1>6, <1>7 DEF Next

(* Every scan and every update counts down to its end, for any number of    *)
(* servers, and nothing around it sets it back: the safety half of          *)
(* ScanTerminates, without any fairness.                                    *)
THEOREM AdvanceCorrect == Spec => ScanAdvances
<1> DEFINE Advance(p) == /\ Step(p) => StepsLeft(p)' < StepsLeft(p)
                         /\ pc[p] # "idle" => StepsLeft(p)' <= StepsLeft(p)
<1> DEFINE Numbers == \A p \in Procs : StepsLeft(p) \in Nat
<1>0. (TypeOK /\ PcKinds)' => Numbers'
    BY StepsLeftNat, PTL
<1>1. ASSUME IndInv, [Next]_vars, NEW p \in Procs PROVE Advance(p)
  <2>1. TypeOK /\ PcKinds /\ ScopeKinds
    BY <1>1 DEF IndInv
  <2>2. TypeOK' /\ PcKinds'
    BY <1>1, EveryStepIsAControlStep, ExclusionStep, TypeStep DEF IndInv
  <2>3. StepsLeft(p) \in Nat
    BY <2>1, StepsLeftNat
  <2>4. StepsLeft(p)' \in Nat
    BY <2>2, <1>0
  <2>5. Step(p) => StepsLeft(p)' < StepsLeft(p)
    BY <2>1, StepCountsDown
  <2>6. ASSUME pc[p] # "idle", ~Step(p) PROVE StepsLeft(p)' <= StepsLeft(p)
    <3>1. Undisturbed(p)
        BY <1>1, <2>1, <2>6, OthersUndisturbed, WorldUndisturbing
    <3> QED
        BY <2>1, <2>3, <3>1, StepsLeftKept
  <2> QED
    BY <2>3, <2>4, <2>5, <2>6
<1>2. IndInv /\ [Next]_vars => [\A p \in Procs : Advance(p)]_vars
    BY <1>1
<1> QED
    BY <1>2, ScanInvariance, PTL DEF Spec, ScanAdvances

-----------------------------------------------------------------------------
(* The stop button.  handleScan publishes its cancel function in scanCancel *)
(* and clears it without looking whose it is.                               *)

(* Before a request has published its cancel function, or after it is done. *)
Unpublished == {"idle", "register"}

(* A step leaves scanCancel and what it stands for alone, or one request    *)
(* publishes its cancel function, or one request clears whatever is there.  *)
LEMMA CancelKinds ==
    ASSUME TypeOK, [Next]_vars
    PROVE  \/ /\ scanCancel' = scanCancel
              /\ \A q \in Manual : pc'[q] \in Unpublished <=> pc[q] \in Unpublished
           \/ \E p \in Manual : /\ scanCancel' = p
                                /\ Moves(p) /\ pc[p] = "register" /\ pc'[p] \notin Unpublished
           \/ \E p \in Manual : /\ scanCancel' = None
                                /\ Moves(p) /\ pc[p] \notin Unpublished /\ pc'[p] \in Unpublished
<1> DEFINE Kept == /\ scanCancel' = scanCancel
                   /\ \A q \in Manual : pc'[q] \in Unpublished <=> pc[q] \in Unpublished
           Published == \E p \in Manual :
                            /\ scanCancel' = p
                            /\ Moves(p) /\ pc[p] = "register" /\ pc'[p] \notin Unpublished
           Cleared == \E p \in Manual :
                            /\ scanCancel' = None
                            /\ Moves(p) /\ pc[p] \notin Unpublished /\ pc'[p] \in Unpublished
           Goal == Kept \/ Published \/ Cleared
<1> SUFFICES Goal
    OBVIOUS
<1> USE ScanConstants DEF TypeOK, Unpublished, Goto, Return, PcNames, ScanPc, RemotePc, OnePc, Procs, Scanners, shared
<1>1. ASSUME NEW p \in Scanners, AcquireScan(p) \/ ScanInProgress(p) PROVE Goal
    BY <1>1 DEF AcquireScan, ScanInProgress
<1>2. ASSUME NEW p \in Scanners, LocalStep(p) PROVE Goal
  <2>1. CASE LocalCancelled(p) \/ \E s \in Locals : LocalMaintenance(p, s) \/ LocalStart(p, s)
    BY <2>1 DEF LocalCancelled, LocalMaintenance, LocalStart
  <2>2. CASE LocalScanError(p) \/ LocalScanReportsError(p) \/ LocalScanDone(p)
    BY <2>2 DEF LocalScanError, LocalScanReportsError, LocalScanDone, AfterLocal
  <2>3. CASE LocalUpdateStart(p) \/ LocalUpdateDone(p) \/ LocalUpdateFailed(p)
    BY <2>3 DEF LocalUpdateStart, LocalUpdateDone, LocalUpdateFailed, AfterLocal
  <2>4. CASE StoreResults(p) \/ ReleaseScan(p)
    BY <2>4 DEF StoreResults, ReleaseScan
  <2> QED
    BY <1>2, <2>1, <2>2, <2>3, <2>4 DEF LocalStep
<1>3. ASSUME NEW p \in Scanners, RemoteStep(p) PROVE Goal
  <2>1. CASE RemoteBatchEnd(p)
    BY <2>1 DEF RemoteBatchEnd
  <2>2. CASE RemoteBatch(p) \/ RemoteCancelled(p)
    BY <2>2 DEF RemoteBatch, RemoteCancelled
  <2>3. CASE \E s \in Remotes : RemoteSkip(p, s) \/ RemoteSyncPolicy(p, s)
    BY <2>3 DEF RemoteSkip, RemoteSyncPolicy
  <2>4. CASE RemoteStart(p) \/ RemoteError(p) \/ RemoteUpdateStart(p) \/ RemoteDone(p)
    BY <2>4 DEF RemoteStart, RemoteError, RemoteUpdateStart, RemoteDone
  <2> QED
    BY <1>3, <2>1, <2>2, <2>3, <2>4 DEF RemoteStep
<1>4. ASSUME NEW p \in Manual, ManualStep(p) PROVE Goal
  <2>1. CASE RegisterCancel(p)
    BY <2>1 DEF RegisterCancel, Moves
  <2>2. CASE Cleanup(p) \/ ManualBatchEnd(p)
    <3>1. pc[p] \notin Unpublished /\ scanCancel' = None /\ Goto(p, "idle")
        BY <2>2 DEF Cleanup, ManualBatchEnd
    <3>2. Moves(p) /\ pc'[p] = "idle"
        BY <3>1, GotoMoves
    <3> QED
        BY <3>1, <3>2
  <2>3. CASE MarkTargets(p) \/ OneStart(p) \/ OneCount(p) \/ OneError(p) \/ OneDone(p)
                \/ OneUpdateStart(p) \/ OneUpdateEnd(p)
    BY <2>3 DEF MarkTargets, OneStart, OneCount, OneError, OneDone, OneUpdateStart, OneUpdateEnd
  <2> QED
    BY <1>4, <2>1, <2>2, <2>3 DEF ManualStep
<1>5. ASSUME NEW p \in Updates, AcquireUpdate(p) \/ ReleaseUpdate(p) PROVE Goal
    BY <1>5 DEF AcquireUpdate, ReleaseUpdate
<1>6. ASSUME NEW p \in Manual, NEW sc, ScanRequest(p, sc) PROVE Goal
    BY <1>6 DEF ScanRequest
<1>7. ASSUME NEW p \in Sched, ScheduledScan(p) PROVE Goal
    BY <1>7 DEF ScheduledScan
<1>8. ASSUME UNCHANGED <<pc, scanCancel>> PROVE Goal
    BY <1>8
<1>9. CASE UNCHANGED vars
    BY <1>8, <1>9 DEF vars
<1>10. CASE \E p \in Procs : Step(p)
    BY <1>10, <1>1, <1>2, <1>3, <1>4, <1>5 DEF Step, ReleaseUpdate
<1>11. ASSUME NEW p \in Sched,
              StopSchedulerLoop(p) \/ SchedulerLoopReturns(p) \/ StartSchedulerLoop(p)
       PROVE Goal
    BY <1>8, <1>11 DEF StopSchedulerLoop, SchedulerLoopReturns, StartSchedulerLoop
<1>12. CASE StopRequest \/ StopCancels
    BY <1>8, <1>12 DEF StopRequest, StopCancels
<1>13. CASE \E s \in Servers : ToggleMaintenance(s) \/ ToggleOnline(s)
    BY <1>8, <1>13 DEF ToggleMaintenance, ToggleOnline
<1> HIDE DEF Goal, TypeOK
<1> QED
    BY <1>5, <1>6, <1>7, <1>9, <1>10, <1>11, <1>12, <1>13 DEF Next, Servers

(* The published cancel function is the one of a request that is under way. *)
HandleInv == scanCancel # None => pc[scanCancel] \notin Unpublished

(* A request that is under way is the one whose function is published. *)
OwnInv == \A m \in Manual : pc[m] \notin Unpublished => scanCancel = m

(* No cancel function is left behind in scanCancel, whatever requests there *)
(* are and in whatever order they publish and clear it.                     *)
THEOREM HandleReleased == Spec => [](Quiescent => scanCancel = None)
<1>1. Init => HandleInv
    BY DEF Init, HandleInv
<1>2. ASSUME TypeOK, HandleInv, [Next]_vars PROVE HandleInv'
    BY <1>2, CancelKinds, ScanConstants DEF TypeOK, HandleInv, Moves, Procs, Scanners
<1>3. TypeOK /\ HandleInv => (Quiescent => scanCancel = None)
    BY DEF TypeOK, HandleInv, Quiescent, Unpublished, Procs, Scanners
<1> QED
    BY <1>1, <1>2, <1>3, TypeCorrect, PTL DEF Spec

(* Clients that take turns: a scan is asked for when no other manual scan   *)
(* is under way.                                                            *)
OneAtATime == \A p, q \in Manual : pc[p] # "idle" /\ pc[q] # "idle" => p = q

(* The stop button reaches the scans of clients that take turns, beside any *)
(* number of scheduler loops, updates and changes of the configuration:     *)
(* scanCancel holds the cancel function of the manual scan from its         *)
(* registration to its cleanup, and wherever the slot is held or the scan   *)
(* counted, handleScanStop uses it.  (When two clients overlap it is false: *)
(* the run scan_stop_two_clients; what it leaves out for a single client:   *)
(* scan_stop_batch and scan_stop_single.)                                   *)
THEOREM StopReachesTurns == Spec /\ []OneAtATime => []StopReachesWork
<1>1. Init => OwnInv
    BY DEF Init, OwnInv, Unpublished, Procs, Scanners
<1>2. ASSUME TypeOK, OneAtATime, OwnInv, [Next]_vars PROVE OwnInv'
    BY <1>2, CancelKinds DEF TypeOK, OwnInv, OneAtATime, Moves, Unpublished, Procs, Scanners
<1>3. ASSUME IndInv, OwnInv PROVE StopReachesWork
  <2>1. SUFFICES ASSUME NEW m \in Manual,
                        pc[m] \in ScanPc \cup RemotePc \cup {"onescan"}
                 PROVE  StopWorks
    BY <1>3 DEF StopReachesWork, OwnInv, Unpublished
  <2>2. m \in Procs /\ m \in Scanners
    BY DEF Procs, Scanners
  <2>3. scanCancel # None
    BY <1>3, <2>1, <2>2, ScanConstants DEF OwnInv, Unpublished, ScanPc, RemotePc
  <2>4. CASE pc[m] \in ScanPc
    BY <1>3, <2>2, <2>3, <2>4 DEF IndInv, OperationExclusion, StopWorks
  <2>5. CASE pc[m] \in CountedPc
    <3>1. m \in Counted
        BY <2>2, <2>5 DEF Counted
    <3>2. Cardinality(Counted) # 0
        BY <3>1, CountedFinite, FS_EmptySet
    <3>3. remoteScanRunning > 0
        BY <1>3, <3>2, CountedNat DEF IndInv, RemoteCounterExact, Counted
    <3> QED
        BY <2>3, <3>3 DEF StopWorks
  <2> QED
    BY <2>1, <2>4, <2>5 DEF CountedPc
<1>4. IndInv => TypeOK
    BY DEF IndInv
<1> QED
    BY <1>1, <1>2, <1>3, <1>4, ScanInvariance, PTL DEF Spec

-----------------------------------------------------------------------------
(* The states that are left.  A scan changes the states that are shown      *)
(* before it knows whether it is let in, and the end of runScan throws away *)
(* what is stored for the remote servers.  In a Calm history every state    *)
(* that is shown as active has a goroutine that is going to deal with it,   *)
(* and every server shown as done has its result in the store or a          *)
(* goroutine that is going to put one there.                                *)

LocalPc == {"loop", "scan", "update"}
LocalBusyPc == {"scan", "update"}
RemoteBusyPc == {"rsync", "rscan", "rupdate", "onecount", "onescan", "oneupdate"}

BusyPc == LocalBusyPc \cup RemoteBusyPc

(* Goroutine p is busy with server s, or is going to come to it. *)
Cares(p, s) ==
    \/ pc[p] \in BusyPc /\ s = cur[p]
    \/ /\ s \notin maint
       /\ \/ pc[p] = "acquire" /\ scope[p] \in {"all", s}
          \/ pc[p] \in LocalPc /\ scope[p] = "all" /\ (s \in todo[p] \/ s \in Remotes)
          \/ pc[p] \in {"endscan", "rstart"} /\ scope[p] = "all" /\ s \in Remotes
          \/ pc[p] \in RemotePc /\ s \in todo[p]

(* Where a scan is says which servers it can be about. *)
PlaceOK(p) ==
    /\ pc[p] \in LocalBusyPc => cur[p] \in Locals \ maint
    /\ pc[p] \in LocalBusyPc /\ scope[p] = "all" => cur[p] \notin todo[p]
    /\ pc[p] \in RemoteBusyPc => cur[p] \in Remotes \ maint
    /\ pc[p] \in {"mark", "acquire"} => scope[p] = "all" \/ scope[p] \in Locals \ maint
    /\ pc[p] = "onesync" => scope[p] \in Remotes \ maint
    /\ pc[p] \in {"loop", "rstart", "rend"} \cup RemotePc => scope[p] = "all"

(* The local part of a batch, and the servers it has been through. *)
Collecting(p) == pc[p] \in LocalPc /\ scope[p] = "all"
Passed(p, s) ==
    s \in Locals /\ s \notin todo[p] /\ ~(pc[p] \in LocalBusyPc /\ s = cur[p])

(* What a batch has collected for a server that is shown as done. *)
CollectedOK(p) ==
    Collecting(p) => \A s \in Locals : Passed(p, s) /\ scanStates[s] = "done" => res[p][s] = "ok"

(* The result that belongs to a server shown as done. *)
Good(s) == IF s \in Locals THEN {"ok"} ELSE Answers

(* Goroutine p is going to store a result for s. *)
Vouches(p, s) ==
    \/ Collecting(p) /\ Passed(p, s) /\ res[p][s] = "ok"
    \/ s \in Remotes /\ pc[p] \in {"endscan", "rstart"} \cup RemotePc /\ Cares(p, s)

SettledInv ==
    /\ \A p \in Scanners : PlaceOK(p) /\ CollectedOK(p)
    /\ \A s \in maint : scanStates[s] # "done"
    /\ \A s \in Servers : scanStates[s] \in Active => \E p \in Scanners : Cares(p, s)
    /\ \A s \in Servers : scanStates[s] = "done" =>
          lastScans[s] \in Good(s) \/ \E p \in Scanners : Vouches(p, s)

(* What a step of goroutine p does to the states: whatever it leaves active *)
(* it cares for, unless another one does; whatever it leaves as done has    *)
(* its result, or is as it was; and only the holder of the slot makes a     *)
(* local server done.                                                       *)
CareStep(p) ==
    \A s \in Servers : scanStates'[s] \in Active =>
        Cares(p, s)' \/ (scanStates[s] \in Active /\ ~Cares(p, s))
VouchStep(p) ==
    \A s \in Servers : scanStates'[s] = "done" =>
        \/ lastScans'[s] \in Good(s) \/ Vouches(p, s)'
        \/ /\ scanStates[s] = "done" /\ ~Vouches(p, s)
           /\ lastScans[s] \in Good(s) => lastScans'[s] \in Good(s)
DoneStep(p) ==
    \A s \in Servers : scanStates'[s] = "done" =>
        scanStates[s] = "done" \/ (s \notin maint /\ (s \in Locals => pc[p] \in ScanPc))

(* Goroutine p alone moves. *)
OnlyMoves(p) ==
    /\ maint' = maint
    /\ \A q \in Scanners \ {p} :
          /\ pc'[q] = pc[q] /\ scope'[q] = scope[q] /\ todo'[q] = todo[q]
          /\ cur'[q] = cur[q] /\ res'[q] = res[q]

MoveOK(p) == PlaceOK(p)' /\ CareStep(p) /\ VouchStep(p) /\ DoneStep(p) /\ CollectedOK(p)' /\ OnlyMoves(p)

(* A goroutine that goes on stays where its servers belong.                 *)
LEMMA PlaceStep ==
    ASSUME NEW p \in Scanners, IndInv, PlaceOK(p), maint' = maint,
           Step(p), ~ScanInProgress(p)
    PROVE  PlaceOK(p)' /\ OnlyMoves(p)
<1>1. TypeOK /\ ScopeKinds /\ p \in Procs /\ p \notin Updates
    BY ScanConstants DEF IndInv, Procs, Scanners
<1> USE <1>1, ScanConstants DEF TypeOK, ScopeKinds, Goto, Servers, PcNames, ScanPc, RemotePc, OnePc, shared, store, env, frame, BusyPc, LocalPc, LocalBusyPc, RemoteBusyPc, PlaceOK, OnlyMoves
<1>2. CASE AcquireScan(p)
  <2>1. CASE scope[p] = "all"
    <3>1. /\ pc' = [pc EXCEPT ![p] = "loop"] /\ todo' = [todo EXCEPT ![p] = Locals]
          /\ UNCHANGED <<cur, scope, res, maint>>
        BY <1>2, <2>1 DEF AcquireScan
    <3> QED
        BY <2>1, <3>1
  <2>2. CASE scope[p] # "all"
    <3>1. /\ pc[p] = "acquire" /\ pc' = [pc EXCEPT ![p] = "scan"]
          /\ cur' = [cur EXCEPT ![p] = scope[p]] /\ UNCHANGED <<todo, scope, res, maint>>
        BY <1>2, <2>2 DEF AcquireScan
    <3> QED
        BY <2>2, <3>1
  <2> QED
    BY <2>1, <2>2
<1>3. CASE LocalCancelled(p)
    BY <1>3 DEF LocalCancelled, cancelRemaining
<1>4. CASE \E s \in Locals : LocalMaintenance(p, s)
    BY <1>4 DEF LocalMaintenance
<1>5. CASE \E s \in Locals : LocalStart(p, s)
    BY <1>5 DEF LocalStart, setScanState
<1>6. CASE LocalScanError(p)
    BY <1>6 DEF LocalScanError, setScanState, FailedState, KeepLocal, AfterLocal
<1>7. CASE LocalScanReportsError(p)
    BY <1>7 DEF LocalScanReportsError, setScanState, KeepLocal, AfterLocal
<1>8. CASE LocalScanDone(p)
    BY <1>8 DEF LocalScanDone, setScanState, KeepLocal, AfterLocal
<1>9. CASE LocalUpdateStart(p)
    BY <1>9 DEF LocalUpdateStart, setScanState
<1>10. CASE LocalUpdateDone(p)
    BY <1>10 DEF LocalUpdateDone, setScanState, KeepLocal, AfterLocal
<1>11. CASE LocalUpdateFailed(p)
    BY <1>11 DEF LocalUpdateFailed, setScanState, FailedState, KeepLocal, AfterLocal
<1>12. CASE StoreResults(p)
    BY <1>12 DEF StoreResults
<1>13. CASE ReleaseScan(p)
    BY <1>13 DEF ReleaseScan
<1>14. CASE RemoteBatch(p)
    BY <1>14 DEF RemoteBatch
<1>15. CASE RemoteCancelled(p)
    BY <1>15 DEF RemoteCancelled, cancelRemaining
<1>16. CASE \E s \in Remotes : RemoteSkip(p, s)
    BY <1>16 DEF RemoteSkip, setScanState
<1>17. CASE \E s \in Remotes : RemoteSyncPolicy(p, s)
    BY <1>17 DEF RemoteSyncPolicy
<1>18. CASE RemoteStart(p)
    BY <1>18 DEF RemoteStart, setScanState
<1>19. CASE RemoteError(p)
    BY <1>19 DEF RemoteError, setScanState, FailedState
<1>20. CASE RemoteUpdateStart(p)
    BY <1>20 DEF RemoteUpdateStart, setScanState
<1>21. CASE RemoteDone(p)
    BY <1>21 DEF RemoteDone, setScanState
<1>22. CASE RemoteBatchEnd(p)
  <2>1. scope'[p] = scope[p]
    BY <1>22 DEF RemoteBatchEnd, Return
  <2>2. pc'[p] \in {"rend", "idle"}
    BY <1>22 DEF RemoteBatchEnd, Return
  <2>3. OnlyMoves(p)
    <3>1. /\ \E l \in PcNames : pc' = [pc EXCEPT ![p] = l]
          /\ \/ UNCHANGED <<scope, cur>>
             \/ scope' = [scope EXCEPT ![p] = "all"] /\ cur' = [cur EXCEPT ![p] = None]
          /\ UNCHANGED <<todo, res, maint>>
        BY <1>22 DEF RemoteBatchEnd, Return
    <3> QED
        BY <3>1 DEF Procs
  <2> QED
    BY <1>22, <2>1, <2>2, <2>3 DEF RemoteBatchEnd
<1>23. CASE RegisterCancel(p)
    BY <1>23 DEF RegisterCancel
<1>24. CASE MarkTargets(p)
    BY <1>24 DEF MarkTargets, setScanState, setAllPending
<1>25. CASE Cleanup(p)
    BY <1>25 DEF Cleanup, Return
<1>26. CASE ManualBatchEnd(p)
    BY <1>26 DEF ManualBatchEnd, Return
<1>27. CASE OneStart(p)
    BY <1>27 DEF OneStart, setScanState
<1>28. CASE OneCount(p)
    BY <1>28 DEF OneCount
<1>29. CASE OneError(p)
    BY <1>29 DEF OneError, setScanState, FailedState
<1>30. CASE OneDone(p)
    BY <1>30 DEF OneDone, setScanState
<1>31. CASE OneUpdateStart(p)
    BY <1>31 DEF OneUpdateStart, setScanState
<1>32. CASE OneUpdateEnd(p)
    BY <1>32 DEF OneUpdateEnd, setScanState, FailedState
<1>33. CASE ReleaseUpdate(p)
    BY <1>33 DEF ReleaseUpdate
<1> HIDE DEF PlaceOK, OnlyMoves, TypeOK
<1> QED
    BY <1>2, <1>3, <1>4, <1>5, <1>6, <1>7, <1>8, <1>9, <1>10, <1>11, <1>12, <1>13, <1>14, <1>15,
       <1>16, <1>17, <1>18, <1>19, <1>20, <1>21, <1>22, <1>23, <1>24, <1>25, <1>26, <1>27,
       <1>28, <1>29, <1>30, <1>31, <1>32, <1>33
    DEF Step, LocalStep, RemoteStep, ManualStep

(* What a goroutine leaves as active it is still going to deal with.        *)
LEMMA CareStepOK ==
    ASSUME NEW p \in Scanners, IndInv, PlaceOK(p), maint' = maint,
           Step(p), ~ScanInProgress(p)
    PROVE  CareStep(p)
<1>1. TypeOK /\ ScopeKinds /\ p \in Procs /\ p \notin Updates
    BY ScanConstants DEF IndInv, Procs, Scanners
<1> USE <1>1, ScanConstants DEF TypeOK, ScopeKinds, Goto, Servers, PcNames, ScanPc, RemotePc, OnePc, shared, store, env, frame, BusyPc, Cares, LocalPc, LocalBusyPc, RemoteBusyPc, PlaceOK, CareStep, Active, States
<1>2. CASE AcquireScan(p)
    BY <1>2 DEF AcquireScan
<1>3. CASE LocalCancelled(p)
    BY <1>3 DEF LocalCancelled, cancelRemaining
<1>4. CASE \E s \in Locals : LocalMaintenance(p, s)
    BY <1>4 DEF LocalMaintenance
<1>5. CASE \E s \in Locals : LocalStart(p, s)
    BY <1>5 DEF LocalStart, setScanState
<1>6. CASE LocalScanError(p)
    BY <1>6 DEF LocalScanError, setScanState, FailedState, KeepLocal, AfterLocal
<1>7. CASE LocalScanReportsError(p)
    BY <1>7 DEF LocalScanReportsError, setScanState, KeepLocal, AfterLocal
<1>8. CASE LocalScanDone(p)
    BY <1>8 DEF LocalScanDone, setScanState, KeepLocal, AfterLocal
<1>9. CASE LocalUpdateStart(p)
    BY <1>9 DEF LocalUpdateStart, setScanState
<1>10. CASE LocalUpdateDone(p)
    BY <1>10 DEF LocalUpdateDone, setScanState, KeepLocal, AfterLocal
<1>11. CASE LocalUpdateFailed(p)
    BY <1>11 DEF LocalUpdateFailed, setScanState, FailedState, KeepLocal, AfterLocal
<1>12. CASE StoreResults(p)
    BY <1>12 DEF StoreResults
<1>13. CASE ReleaseScan(p)
    BY <1>13 DEF ReleaseScan
<1>14. CASE RemoteBatch(p)
    BY <1>14 DEF RemoteBatch
<1>15. CASE RemoteCancelled(p)
    BY <1>15 DEF RemoteCancelled, cancelRemaining
<1>16. CASE \E s \in Remotes : RemoteSkip(p, s)
    BY <1>16 DEF RemoteSkip, setScanState
<1>17. CASE \E s \in Remotes : RemoteSyncPolicy(p, s)
    BY <1>17 DEF RemoteSyncPolicy
<1>18. CASE RemoteStart(p)
    BY <1>18 DEF RemoteStart, setScanState
<1>19. CASE RemoteError(p)
    BY <1>19 DEF RemoteError, setScanState, FailedState
<1>20. CASE RemoteUpdateStart(p)
    BY <1>20 DEF RemoteUpdateStart, setScanState
<1>21. CASE RemoteDone(p)
    BY <1>21 DEF RemoteDone, setScanState
<1>22. CASE RemoteBatchEnd(p)
    BY <1>22 DEF RemoteBatchEnd, Return
<1>23. CASE RegisterCancel(p)
    BY <1>23 DEF RegisterCancel
<1>24. CASE MarkTargets(p)
    BY <1>24 DEF MarkTargets, setScanState, setAllPending
<1>25. CASE Cleanup(p)
    BY <1>25 DEF Cleanup, Return
<1>26. CASE ManualBatchEnd(p)
    BY <1>26 DEF ManualBatchEnd, Return
<1>27. CASE OneStart(p)
    BY <1>27 DEF OneStart, setScanState
<1>28. CASE OneCount(p)
    BY <1>28 DEF OneCount
<1>29. CASE OneError(p)
    BY <1>29 DEF OneError, setScanState, FailedState
<1>30. CASE OneDone(p)
    BY <1>30 DEF OneDone, setScanState
<1>31. CASE OneUpdateStart(p)
    BY <1>31 DEF OneUpdateStart, setScanState
<1>32. CASE OneUpdateEnd(p)
    BY <1>32 DEF OneUpdateEnd, setScanState, FailedState
<1>33. CASE ReleaseUpdate(p)
    BY <1>33 DEF ReleaseUpdate
<1> HIDE DEF CareStep, TypeOK
<1> QED
    BY <1>2, <1>3, <1>4, <1>5, <1>6, <1>7, <1>8, <1>9, <1>10, <1>11, <1>12, <1>13, <1>14, <1>15,
       <1>16, <1>17, <1>18, <1>19, <1>20, <1>21, <1>22, <1>23, <1>24, <1>25, <1>26, <1>27,
       <1>28, <1>29, <1>30, <1>31, <1>32, <1>33
    DEF Step, LocalStep, RemoteStep, ManualStep

(* Only a server that is scanned becomes done.                              *)
LEMMA DoneStepOK ==
    ASSUME NEW p \in Scanners, IndInv, PlaceOK(p), maint' = maint,
           Step(p), ~ScanInProgress(p)
    PROVE  DoneStep(p)
<1>1. TypeOK /\ ScopeKinds /\ p \in Procs /\ p \notin Updates
    BY ScanConstants DEF IndInv, Procs, Scanners
<1> USE <1>1, ScanConstants DEF TypeOK, ScopeKinds, Goto, Servers, PcNames, ScanPc, RemotePc, OnePc, shared, store, env, frame, BusyPc, LocalBusyPc, RemoteBusyPc, PlaceOK, DoneStep, Active, States
<1>2. CASE AcquireScan(p)
    BY <1>2 DEF AcquireScan
<1>3. CASE LocalCancelled(p)
    BY <1>3 DEF LocalCancelled, cancelRemaining
<1>4. CASE \E s \in Locals : LocalMaintenance(p, s)
    BY <1>4 DEF LocalMaintenance
<1>5. CASE \E s \in Locals : LocalStart(p, s)
    BY <1>5 DEF LocalStart, setScanState
<1>6. CASE LocalScanError(p)
    BY <1>6 DEF LocalScanError, setScanState, FailedState, KeepLocal, AfterLocal
<1>7. CASE LocalScanReportsError(p)
    BY <1>7 DEF LocalScanReportsError, setScanState, KeepLocal, AfterLocal
<1>8. CASE LocalScanDone(p)
    BY <1>8 DEF LocalScanDone, setScanState, KeepLocal, AfterLocal
<1>9. CASE LocalUpdateStart(p)
    BY <1>9 DEF LocalUpdateStart, setScanState
<1>10. CASE LocalUpdateDone(p)
    BY <1>10 DEF LocalUpdateDone, setScanState, KeepLocal, AfterLocal
<1>11. CASE LocalUpdateFailed(p)
    BY <1>11 DEF LocalUpdateFailed, setScanState, FailedState, KeepLocal, AfterLocal
<1>12. CASE StoreResults(p)
    BY <1>12 DEF StoreResults
<1>13. CASE ReleaseScan(p)
    BY <1>13 DEF ReleaseScan
<1>14. CASE RemoteBatch(p)
    BY <1>14 DEF RemoteBatch
<1>15. CASE RemoteCancelled(p)
    BY <1>15 DEF RemoteCancelled, cancelRemaining
<1>16. CASE \E s \in Remotes : RemoteSkip(p, s)
    BY <1>16 DEF RemoteSkip, setScanState
<1>17. CASE \E s \in Remotes : RemoteSyncPolicy(p, s)
    BY <1>17 DEF RemoteSyncPolicy
<1>18. CASE RemoteStart(p)
    BY <1>18 DEF RemoteStart, setScanState
<1>19. CASE RemoteError(p)
    BY <1>19 DEF RemoteError, setScanState, FailedState
<1>20. CASE RemoteUpdateStart(p)
    BY <1>20 DEF RemoteUpdateStart, setScanState
<1>21. CASE RemoteDone(p)
    BY <1>21 DEF RemoteDone, setScanState
<1>22. CASE RemoteBatchEnd(p)
    BY <1>22 DEF RemoteBatchEnd, Return
<1>23. CASE RegisterCancel(p)
    BY <1>23 DEF RegisterCancel
<1>24. CASE MarkTargets(p)
    BY <1>24 DEF MarkTargets, setScanState, setAllPending
<1>25. CASE Cleanup(p)
    BY <1>25 DEF Cleanup, Return
<1>26. CASE ManualBatchEnd(p)
    BY <1>26 DEF ManualBatchEnd, Return
<1>27. CASE OneStart(p)
    BY <1>27 DEF OneStart, setScanState
<1>28. CASE OneCount(p)
    BY <1>28 DEF OneCount
<1>29. CASE OneError(p)
    BY <1>29 DEF OneError, setScanState, FailedState
<1>30. CASE OneDone(p)
    BY <1>30 DEF OneDone, setScanState
<1>31. CASE OneUpdateStart(p)
    BY <1>31 DEF OneUpdateStart, setScanState
<1>32. CASE OneUpdateEnd(p)
    BY <1>32 DEF OneUpdateEnd, setScanState, FailedState
<1>33. CASE ReleaseUpdate(p)
    BY <1>33 DEF ReleaseUpdate
<1> HIDE DEF DoneStep, TypeOK
<1> QED
    BY <1>2, <1>3, <1>4, <1>5, <1>6, <1>7, <1>8, <1>9, <1>10, <1>11, <1>12, <1>13, <1>14, <1>15,
       <1>16, <1>17, <1>18, <1>19, <1>20, <1>21, <1>22, <1>23, <1>24, <1>25, <1>26, <1>27,
       <1>28, <1>29, <1>30, <1>31, <1>32, <1>33
    DEF Step, LocalStep, RemoteStep, ManualStep

(* What a goroutine leaves as done is stored, or is going to be.            *)
LEMMA VouchStepOK ==
    ASSUME NEW p \in Scanners, IndInv, PlaceOK(p), CollectedOK(p),
           \A s \in maint : scanStates[s] # "done", maint' = maint,
           Step(p), ~ScanInProgress(p)
    PROVE  VouchStep(p) /\ CollectedOK(p)'
<1>1. TypeOK /\ ScopeKinds /\ p \in Procs /\ p \notin Updates
    BY ScanConstants DEF IndInv, Procs, Scanners
<1> USE <1>1, ScanConstants DEF TypeOK, ScopeKinds, Goto, Servers, PcNames, ScanPc, RemotePc, OnePc, shared, store, env, frame, BusyPc, Cares, LocalPc, LocalBusyPc, RemoteBusyPc, PlaceOK, VouchStep, CollectedOK, Collecting, Passed, Vouches, Good, Answers, Active, States, Names, Results
<1>2. CASE AcquireScan(p)
    BY <1>2 DEF AcquireScan
<1>3. CASE LocalCancelled(p)
    BY <1>3 DEF LocalCancelled, cancelRemaining
<1>4. CASE \E s \in Locals : LocalMaintenance(p, s)
    BY <1>4 DEF LocalMaintenance
<1>5. CASE \E s \in Locals : LocalStart(p, s)
    BY <1>5 DEF LocalStart, setScanState
<1>6. CASE LocalScanError(p)
    BY <1>6 DEF LocalScanError, setScanState, FailedState, KeepLocal, AfterLocal
<1>7. CASE LocalScanReportsError(p)
    BY <1>7 DEF LocalScanReportsError, setScanState, KeepLocal, AfterLocal
<1>8. CASE LocalScanDone(p)
    BY <1>8 DEF LocalScanDone, setScanState, KeepLocal, AfterLocal
<1>9. CASE LocalUpdateStart(p)
    BY <1>9 DEF LocalUpdateStart, setScanState
<1>10. CASE LocalUpdateDone(p)
    BY <1>10 DEF LocalUpdateDone, setScanState, KeepLocal, AfterLocal
<1>11. CASE LocalUpdateFailed(p)
    BY <1>11 DEF LocalUpdateFailed, setScanState, FailedState, KeepLocal, AfterLocal
<1>12. CASE StoreResults(p)
    BY <1>12 DEF StoreResults
<1>13. CASE ReleaseScan(p)
    BY <1>13 DEF ReleaseScan
<1>14. CASE RemoteBatch(p)
    BY <1>14 DEF RemoteBatch
<1>15. CASE RemoteCancelled(p)
    BY <1>15 DEF RemoteCancelled, cancelRemaining
<1>16. CASE \E s \in Remotes : RemoteSkip(p, s)
    BY <1>16 DEF RemoteSkip, setScanState
<1>17. CASE \E s \in Remotes : RemoteSyncPolicy(p, s)
    BY <1>17 DEF RemoteSyncPolicy
<1>18. CASE RemoteStart(p)
    BY <1>18 DEF RemoteStart, setScanState
<1>19. CASE RemoteError(p)
    BY <1>19 DEF RemoteError, setScanState, FailedState
<1>20. CASE RemoteUpdateStart(p)
    BY <1>20 DEF RemoteUpdateStart, setScanState
<1>21. CASE RemoteDone(p)
    BY <1>21 DEF RemoteDone, setScanState
<1>22. CASE RemoteBatchEnd(p)
    BY <1>22 DEF RemoteBatchEnd, Return
<1>23. CASE RegisterCancel(p)
    BY <1>23 DEF RegisterCancel
<1>24. CASE MarkTargets(p)
    BY <1>24 DEF MarkTargets, setScanState, setAllPending
<1>25. CASE Cleanup(p)
    BY <1>25 DEF Cleanup, Return
<1>26. CASE ManualBatchEnd(p)
    BY <1>26 DEF ManualBatchEnd, Return
<1>27. CASE OneStart(p)
    BY <1>27 DEF OneStart, setScanState
<1>28. CASE OneCount(p)
    BY <1>28 DEF OneCount
<1>29. CASE OneError(p)
    BY <1>29 DEF OneError, setScanState, FailedState
<1>30. CASE OneDone(p)
    BY <1>30 DEF OneDone, setScanState
<1>31. CASE OneUpdateStart(p)
    BY <1>31 DEF OneUpdateStart, setScanState
<1>32. CASE OneUpdateEnd(p)
    BY <1>32 DEF OneUpdateEnd, setScanState, FailedState
<1>33. CASE ReleaseUpdate(p)
    BY <1>33 DEF ReleaseUpdate
<1> HIDE DEF VouchStep, CollectedOK, TypeOK
<1> QED
    BY <1>2, <1>3, <1>4, <1>5, <1>6, <1>7, <1>8, <1>9, <1>10, <1>11, <1>12, <1>13, <1>14, <1>15,
       <1>16, <1>17, <1>18, <1>19, <1>20, <1>21, <1>22, <1>23, <1>24, <1>25, <1>26, <1>27,
       <1>28, <1>29, <1>30, <1>31, <1>32, <1>33
    DEF Step, LocalStep, RemoteStep, ManualStep

(* A step of one goroutine in a Calm history keeps the invariant.           *)
LEMMA MoveKeepsInv ==
    ASSUME IndInv, SettledInv, NEW p \in Scanners, MoveOK(p)
    PROVE  SettledInv'
<1>1. p \in Scanners /\ maint' = maint
    BY DEF MoveOK, OnlyMoves
<1>2. ASSUME NEW q \in Scanners, q # p
      PROVE  /\ (PlaceOK(q)' <=> PlaceOK(q))
             /\ (Collecting(q)' <=> Collecting(q))
             /\ \A s \in Servers : /\ (Cares(q, s)' <=> Cares(q, s))
                                  /\ (Passed(q, s)' <=> Passed(q, s))
                                  /\ (Vouches(q, s)' <=> Vouches(q, s))
  <2>1. /\ maint' = maint /\ pc'[q] = pc[q] /\ scope'[q] = scope[q] /\ todo'[q] = todo[q]
        /\ cur'[q] = cur[q] /\ res'[q] = res[q]
    BY <1>2 DEF MoveOK, OnlyMoves
  <2>2. (PlaceOK(q)' <=> PlaceOK(q))
    BY <2>1 DEF PlaceOK
  <2>3. (Collecting(q)' <=> Collecting(q))
    BY <2>1 DEF Collecting
  <2>4. \A s \in Servers : (Cares(q, s)' <=> Cares(q, s))
    BY <2>1 DEF Cares
  <2>5. \A s \in Servers : (Passed(q, s)' <=> Passed(q, s))
    BY <2>1 DEF Passed
  <2> QED
    BY <2>1, <2>2, <2>3, <2>4, <2>5 DEF Vouches
<1>3. \A q \in Scanners : PlaceOK(q)'
    BY <1>2 DEF MoveOK, SettledInv
<1>4. ASSUME NEW q \in Scanners PROVE CollectedOK(q)'
  <2>1. CASE q = p
    BY <2>1 DEF MoveOK
  <2>2. CASE q # p /\ Collecting(q)
    <3>1. pc[p] \notin ScanPc
        BY <2>2 DEF IndInv, OperationExclusion, Holders, Collecting, LocalPc, ScanPc, Procs
    <3>2. \A s \in Locals : scanStates'[s] = "done" => scanStates[s] = "done"
        BY <3>1 DEF MoveOK, DoneStep, Servers
    <3>3. res'[q] = res[q]
        BY <2>2 DEF MoveOK, OnlyMoves
    <3> QED
        BY <1>2, <2>2, <3>2, <3>3 DEF CollectedOK, SettledInv, Servers
  <2>3. CASE q # p /\ ~Collecting(q)
    BY <1>2, <2>3 DEF CollectedOK
  <2> QED
    BY <2>1, <2>2, <2>3
<1>5. \A s \in maint' : scanStates'[s] # "done"
    BY <1>1 DEF MoveOK, DoneStep, SettledInv, IndInv, TypeOK
<1>6. ASSUME NEW s \in Servers, scanStates'[s] \in Active
      PROVE  \E q \in Scanners : Cares(q, s)'
    BY <1>2, <1>6 DEF MoveOK, CareStep, SettledInv
<1>7. ASSUME NEW s \in Servers, scanStates'[s] = "done"
      PROVE  lastScans'[s] \in Good(s) \/ \E q \in Scanners : Vouches(q, s)'
    BY <1>2, <1>7 DEF MoveOK, VouchStep, SettledInv
<1>8. \A s \in Servers : Good(s)' = Good(s)
    BY DEF Good
<1> QED
    BY <1>3, <1>4, <1>5, <1>6, <1>7, <1>8 DEF SettledInv

(* What moves no goroutine and makes no server active or done keeps it too. *)
LEMMA QuietKeepsInv ==
    ASSUME SettledInv, UNCHANGED <<pc, frame, maint, lastScans>>,
           \A s \in Servers : \/ scanStates'[s] = scanStates[s]
                              \/ scanStates'[s] \notin Active \cup {"done"},
           maint \in SUBSET Servers
    PROVE  SettledInv'
<1>1. \A p \in Scanners : /\ (PlaceOK(p)' <=> PlaceOK(p))
                          /\ CollectedOK(p) => CollectedOK(p)'
                          /\ \A s \in Servers : /\ (Cares(p, s)' <=> Cares(p, s))
                                               /\ (Vouches(p, s)' <=> Vouches(p, s))
  <2>1. SUFFICES ASSUME NEW p \in Scanners
        PROVE /\ (PlaceOK(p)' <=> PlaceOK(p))
              /\ CollectedOK(p) => CollectedOK(p)'
              /\ \A s \in Servers : /\ (Cares(p, s)' <=> Cares(p, s))
                                   /\ (Vouches(p, s)' <=> Vouches(p, s))
    OBVIOUS
  <2>2. pc' = pc /\ scope' = scope /\ todo' = todo /\ cur' = cur /\ res' = res /\ maint' = maint
    BY DEF frame
  <2>3. (PlaceOK(p)' <=> PlaceOK(p))
    BY <2>2 DEF PlaceOK
  <2>4. (Collecting(p)' <=> Collecting(p)) /\ \A s : (Passed(p, s)' <=> Passed(p, s))
    BY <2>2 DEF Collecting, Passed
  <2>5. CollectedOK(p) => CollectedOK(p)'
    BY <2>2, <2>4 DEF CollectedOK, Servers
  <2>6. \A s \in Servers : (Cares(p, s)' <=> Cares(p, s))
    BY <2>2 DEF Cares
  <2>7. \A s \in Servers : (Vouches(p, s)' <=> Vouches(p, s))
    BY <2>2, <2>4, <2>6 DEF Vouches
  <2> QED
    BY <2>3, <2>5, <2>6, <2>7
<1>2. \A s \in Servers : Good(s)' = Good(s)
    BY DEF Good
<1>3. maint' = maint /\ lastScans' = lastScans
    OBVIOUS
<1> QED
    BY <1>1, <1>2, <1>3 DEF SettledInv

(* Every Calm step keeps the invariant.                                     *)
LEMMA SettledStep ==
    ASSUME IndInv, SettledInv, [Next]_vars, [Calm]_vars
    PROVE  SettledInv'
<1>1. TypeOK /\ maint \in SUBSET Servers
    BY DEF IndInv, TypeOK
<1>2. ASSUME NEW p \in Scanners, Step(p), ~UNCHANGED vars PROVE SettledInv'
  <2>1. maint' = maint /\ ~ScanInProgress(p)
    BY <1>2 DEF Calm
  <2>2. PlaceOK(p) /\ CollectedOK(p) /\ \A s \in maint : scanStates[s] # "done"
    BY DEF SettledInv
  <2>3. MoveOK(p)
    BY <1>2, <2>1, <2>2, PlaceStep, CareStepOK, DoneStepOK, VouchStepOK DEF MoveOK
  <2> QED
    BY <2>3, MoveKeepsInv
<1>3. ASSUME NEW p \in Scanners, pc[p] = "idle", maint' = maint,
             \/ \E sc \in {"all", "bad"} \cup Servers : p \in Manual /\ ScanRequest(p, sc)
             \/ ScheduledScan(p)
      PROVE  SettledInv'
  <2> USE <1>1, ScanConstants DEF TypeOK, Goto, PcNames, ScanPc, RemotePc, shared, store, env, frame, Procs, Scanners
  <2>1. pc'[p] \in {"register", "acquire"}
    BY <1>3 DEF ScanRequest, ScheduledScan
  <2>2. pc'[p] = "acquire" => scope'[p] = "all"
    BY <1>3 DEF ScanRequest, ScheduledScan
  <2>3. OnlyMoves(p)
    BY <1>3 DEF ScanRequest, ScheduledScan, OnlyMoves
  <2>4. \A s \in Servers : \/ scanStates'[s] = scanStates[s]
                           \/ scanStates'[s] = "idle"
                           \/ scanStates'[s] = "pending" /\ pc'[p] = "acquire" /\ s \notin maint
    BY <1>3 DEF ScanRequest, ScheduledScan, setAllPending
  <2>5. lastScans' = lastScans
    BY <1>3 DEF ScanRequest, ScheduledScan
  <2> HIDE DEF TypeOK
  <2>6. PlaceOK(p)' /\ CollectedOK(p)'
    BY <2>1, <2>2 DEF PlaceOK, LocalBusyPc, RemoteBusyPc, CollectedOK, Collecting, LocalPc
  <2>7. CareStep(p)
    BY <1>3, <2>2, <2>4 DEF CareStep, Cares, BusyPc, LocalBusyPc, RemoteBusyPc, LocalPc, Active
  <2>8. VouchStep(p) /\ DoneStep(p)
    BY <1>3, <2>4, <2>5 DEF VouchStep, DoneStep, Vouches, Collecting, LocalPc
  <2> QED
    BY <2>3, <2>6, <2>7, <2>8, MoveKeepsInv DEF MoveOK
<1>4. ASSUME UNCHANGED <<pc, frame, store, maint>> PROVE SettledInv'
    BY <1>1, <1>4, QuietKeepsInv DEF store
<1>5. CASE UNCHANGED vars
    BY <1>4, <1>5 DEF vars, env
<1>6. CASE StopRequest
    BY <1>4, <1>6 DEF StopRequest, env
<1>7. CASE StopCancels
    BY <1>1, <1>7, QuietKeepsInv DEF StopCancels, env, TypeOK, Active
<1>8. ASSUME NEW p \in Sched, StopSchedulerLoop(p) \/ SchedulerLoopReturns(p) \/ StartSchedulerLoop(p)
      PROVE  SettledInv'
    BY <1>4, <1>8 DEF StopSchedulerLoop, SchedulerLoopReturns, StartSchedulerLoop, env
<1>9. ASSUME NEW s \in Remotes, ToggleOnline(s) PROVE SettledInv'
    BY <1>4, <1>9 DEF ToggleOnline
<1>10. ASSUME NEW p \in Updates, AcquireUpdate(p) \/ ReleaseUpdate(p) PROVE SettledInv'
  <2>1. \A q \in Scanners : pc'[q] = pc[q]
    BY <1>1, <1>10, ScanConstants DEF AcquireUpdate, ReleaseUpdate, Goto, TypeOK, Procs, Scanners
  <2>2. UNCHANGED <<frame, store, maint>>
    BY <1>10 DEF AcquireUpdate, ReleaseUpdate, env
  <2> QED
    BY <2>1, <2>2 DEF SettledInv, PlaceOK, CollectedOK, Collecting, Passed, Cares, Vouches, Good, frame, store
<1>11. CASE ~UNCHANGED vars
  <2>1. maint' = maint
    BY <1>11 DEF Calm
  <2>2. ASSUME NEW s \in Servers, ToggleMaintenance(s) PROVE FALSE
    BY <1>1, <2>1, <2>2 DEF ToggleMaintenance
  <2>3. ASSUME NEW p \in Procs, Step(p) PROVE SettledInv'
    <3>1. CASE p \in Scanners
        BY <1>2, <1>11, <2>3, <3>1
    <3>2. CASE p \notin Scanners
        BY <1>10, <2>3, <3>2 DEF Step, ReleaseUpdate, Procs, Scanners
    <3> QED
        BY <3>1, <3>2
  <2>4. ASSUME NEW p \in Manual, NEW sc \in {"all", "bad"} \cup Servers, ScanRequest(p, sc)
        PROVE  SettledInv'
    BY <1>3, <2>1, <2>4 DEF ScanRequest, Scanners
  <2>5. ASSUME NEW p \in Sched, ScheduledScan(p) PROVE SettledInv'
    BY <1>3, <2>1, <2>5 DEF ScheduledScan, Scanners
  <2> QED
    BY <1>6, <1>7, <1>8, <1>9, <1>10, <1>11, <2>2, <2>3, <2>4, <2>5 DEF Next
<1> QED
    BY <1>5, <1>11

(* Once nothing runs any more, no server is left pending, scanning or       *)
(* updating, what is done has its result in the store, and scanCancel is    *)
(* empty: for any number of clients, scheduler loops, updates and servers,  *)
(* whatever the servers answered, whenever a scan was stopped and an agent  *)
(* came or went, provided that no scan was refused and no server changed    *)
(* its maintenance on the way (Calm; without either it is false).           *)
THEOREM SettledWhenCalm == Spec /\ [][Calm]_vars => []SettledStates
<1>1. Init => SettledInv
    BY DEF Init, SettledInv, PlaceOK, CollectedOK, Collecting, Active, LocalPc, LocalBusyPc,
           RemoteBusyPc, RemotePc, Procs, Scanners
<1>2. ASSUME IndInv, SettledInv, [Next]_vars, [Calm]_vars PROVE SettledInv'
    BY <1>2, SettledStep
<1>3. SettledInv /\ (Quiescent => scanCancel = None) => SettledStates
    BY DEF SettledInv, SettledStates, Quiescent, Cares, Vouches, Collecting, Good, LocalPc, BusyPc,
           LocalBusyPc, RemoteBusyPc, RemotePc, Procs, Scanners
<1> QED
    BY <1>1, <1>2, <1>3, ScanInvariance, HandleReleased, PTL DEF Spec

=============================================================================
