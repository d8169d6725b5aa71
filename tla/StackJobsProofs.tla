--------------------------- MODULE StackJobsProofs ---------------------------
(***************************************************************************)
(* Proofs about StackJobs, for any number of jobs, stacks and extend       *)
(* requests and for any budgets: type correctness, SucceededMeansRan,      *)
(* AtMostOnce, FilesKept and NoTimerLeftBehind, the distance of the two    *)
(* deadlines, and that controller and agent both implement the life of a   *)
(* job (JobLifecycle).                                                     *)
(*                                                                         *)
(* The invariant follows a request through the system: as long as the      *)
(* start request has not been taken by the agent (Unserved), nothing was   *)
(* run for it; what runs, runs in one place (Placed); what any of the four *)
(* variables that carry the verdict says is what the command did           *)
(* (Truthful); a timer is off once its job is being finished (Timers), and *)
(* until then the job is shown as running (Alive).                         *)
(***************************************************************************)
EXTENDS StackJobs, TLAPS

Unserved(j) ==
    /\ pc[j] = "none" => status[j] = "none"
    /\ status[j] = "none" => pc[j] = "none"
    /\ pc[j] \in {"none", "begin", "compose"} => net[j] = "none"
    /\ pc[j] \in {"none", "begin"} => compose[j] = "no" /\ runs[j] = 0
    /\ net[j] \in {"sent", "refused", "unsupported", "sync"} => compose[j] = "no" /\ runs[j] = 0
    /\ net[j] \in {"none", "sent", "refused", "unsupported", "sync"} =>
          apc[j] = "none" /\ astatus[j] = "none" /\ aresult[j] = "none" /\ ax[j] = 0

Placed(j) ==
    /\ pc[j] = "compose" => compose[j] = "running"
    /\ apc[j] \in {"compose", "sync"} => compose[j] = "running"
    /\ runs[j] <= 1

Truthful(j) ==
    /\ result[j] = "ok" => compose[j] = "ok"
    /\ aresult[j] = "ok" => compose[j] = "ok"
    /\ net[j] = "ok" => compose[j] = "ok"
    /\ status[j] = "succeeded" => result[j] = "ok"
    /\ astatus[j] = "succeeded" => aresult[j] = "ok"

Timers(j) ==
    /\ status[j] \in {"succeeded", "failed"} => pc[j] = "end"
    /\ pc[j] \in {"none", "finish", "end"} => timer[j] = "off"
    /\ astatus[j] \in {"succeeded", "failed"} => apc[j] = "none" /\ atimer[j] = "off"
    /\ apc[j] = "finish" => atimer[j] = "off"
    /\ apc[j] = "sync" => astatus[j] = "none"

(* A goroutine that is not done works for a job that is shown as running. *)
Alive(j) ==
    /\ pc[j] \notin {"none", "end"} => status[j] = "running"
    /\ apc[j] \in {"compose", "stop", "finish"} => astatus[j] = "running"

JobInv(j) == Unserved(j) /\ Placed(j) /\ Truthful(j) /\ Timers(j) /\ Alive(j)

ExtendKinds == \A e \in Extends : epc[e] # "idle" => ejob[e] \in Jobs

(* DeadlineSkew, made inductive: what is left of the controller's deadline  *)
(* while it starts the agent's job, and the distance of the two afterwards. *)
SkewInv(j) ==
    /\ pc[j] = "begin" /\ timer[j] = "armed" /\ Remote(j) =>
          left[j] = Budget + Grace + cx[j] * Extension
    /\ pc[j] = "start" /\ timer[j] = "armed" =>
          left[j] + StartTimeout = Budget + Grace + cx[j] * Extension + wait[j]
    /\ pc[j] = "none" => cx[j] = 0
    /\ pc[j] = "poll" => net[j] = "accepted"
    /\ apc[j] = "sync" => net[j] # "accepted"
    /\ net[j] = "accepted" /\ pc[j] \in {"start", "poll"} /\ timer[j] = "armed" /\ atimer[j] = "armed" =>
          aleft[j] + Grace + cx[j] * Extension <= left[j] + StartTimeout + ax[j] * Extension

IndInv == TypeOK /\ ExtendKinds /\ (\A j \in Jobs : JobInv(j)) /\ FilesKept

-----------------------------------------------------------------------------
(* Every step of the controller, the agent, the user and time keeps the types. *)
LEMMA TypeStep ==
    ASSUME TypeOK, ExtendKinds, [Next]_vars
    PROVE  TypeOK'
<1>1. ASSUME NEW i \in Jobs, NEW expired \in SUBSET Jobs, StartJob(i, expired) PROVE TypeOK'
  BY <1>1, StackConstants DEF StartJob, Busy, Finished, Goto, Remote, TypeOK, ExtendKinds, Status, Answer, Timer, Net, request, own, agent, command, extending
<1>2. ASSUME NEW i \in Jobs, BeginFails(i) PROVE TypeOK'
  BY <1>2, StackConstants DEF BeginFails, RunReturns, Goto, TypeOK, ExtendKinds, Status, Answer, Timer, Net, request, own, agent, command, extending
<1>3. ASSUME NEW i \in Jobs, BeginLocal(i) PROVE TypeOK'
  BY <1>3, StackConstants DEF BeginLocal, RunCompose, Goto, Remote, TypeOK, ExtendKinds, Status, Answer, Timer, Net, request, own, agent, command, extending
<1>4. ASSUME NEW i \in Jobs, BeginRemote(i) PROVE TypeOK'
  BY <1>4, StackConstants DEF BeginRemote, Goto, Remote, TypeOK, ExtendKinds, Status, Answer, Timer, Net, request, own, agent, command, extending
<1>5. ASSUME NEW i \in Jobs, StartTimesOut(i) PROVE TypeOK'
  BY <1>5, StackConstants DEF StartTimesOut, StartFails, RunReturns, Goto, TypeOK, ExtendKinds, Status, Answer, Timer, Net, request, own, agent, command, extending
<1>6. ASSUME NEW i \in Jobs, WaitTimesOut(i) PROVE TypeOK'
  BY <1>6, StackConstants DEF WaitTimesOut, RunReturns, Goto, TypeOK, ExtendKinds, Status, Answer, Timer, Net, request, own, agent, command, extending
<1>7. ASSUME NEW i \in Jobs, StopDeadline(i) PROVE TypeOK'
  BY <1>7, StackConstants DEF StopDeadline, Goto, TypeOK, ExtendKinds, Status, Answer, Timer, Net, request, own, agent, command, extending
<1>8. ASSUME NEW i \in Jobs, Finish(i) PROVE TypeOK'
  BY <1>8, StackConstants DEF Finish, Goto, TypeOK, ExtendKinds, Status, Answer, Timer, Net, request, own, agent, command, extending
<1>9. ASSUME NEW i \in Jobs, TimerFires(i) PROVE TypeOK'
  BY <1>9, StackConstants DEF TimerFires, Due, TypeOK, ExtendKinds, Status, Answer, Timer, Net, request, own, agent, command, extending
<1>10. ASSUME NEW i \in Jobs, StartAccepted(i) PROVE TypeOK'
  BY <1>10, StackConstants DEF StartAccepted, Goto, TypeOK, ExtendKinds, Status, Answer, Timer, Net, request, own, agent, command, extending
<1>11. ASSUME NEW i \in Jobs, StartRefused(i) PROVE TypeOK'
  BY <1>11, StackConstants DEF StartRefused, RunReturns, Goto, TypeOK, ExtendKinds, Status, Answer, Timer, Net, request, own, agent, command, extending
<1>12. ASSUME NEW i \in Jobs, StartUnsupported(i) PROVE TypeOK'
  BY <1>12, StackConstants DEF StartUnsupported, Goto, TypeOK, ExtendKinds, Status, Answer, Timer, Net, request, own, agent, command, extending
<1>13. ASSUME NEW i \in Jobs, StartFails(i) PROVE TypeOK'
  BY <1>13, StackConstants DEF StartFails, RunReturns, Goto, TypeOK, ExtendKinds, Status, Answer, Timer, Net, request, own, agent, command, extending
<1>14. ASSUME NEW i \in Jobs, PollAnswered(i) PROVE TypeOK'
  BY <1>14, StackConstants DEF PollAnswered, RunReturns, Goto, TypeOK, ExtendKinds, Status, Answer, Timer, Net, request, own, agent, command, extending
<1>15. ASSUME NEW i \in Jobs, SyncAnswered(i) PROVE TypeOK'
  BY <1>15, StackConstants DEF SyncAnswered, RunReturns, Goto, TypeOK, ExtendKinds, Status, Answer, Timer, Net, request, own, agent, command, extending
<1>16. ASSUME NEW i \in Jobs, SyncFails(i) PROVE TypeOK'
  BY <1>16, StackConstants DEF SyncFails, RunReturns, Goto, TypeOK, ExtendKinds, Status, Answer, Timer, Net, request, own, agent, command, extending
<1>17. ASSUME NEW i \in Jobs, NEW c \in {"ok", "failed"}, ComposeEnds(i, c) PROVE TypeOK'
  BY <1>17, StackConstants DEF ComposeEnds, RunReturns, Goto, Verdict, TypeOK, ExtendKinds, Status, Answer, Timer, Net, request, own, agent, command, extending
<1>18. ASSUME NEW i \in Jobs, NEW expired \in SUBSET Jobs, AgentAccepts(i, expired) PROVE TypeOK'
  BY <1>18, StackConstants DEF AgentAccepts, RunCompose, Busy, Finished, TypeOK, ExtendKinds, Status, Answer, Timer, Net, request, own, agent, command, extending
<1>19. ASSUME NEW i \in Jobs, NEW expired \in SUBSET Jobs, AgentRefuses(i, expired) PROVE TypeOK'
  BY <1>19, StackConstants DEF AgentRefuses, Busy, Finished, TypeOK, ExtendKinds, Status, Answer, Timer, Net, request, own, agent, command, extending
<1>20. ASSUME NEW i \in Jobs, AgentUnsupported(i) PROVE TypeOK'
  BY <1>20, StackConstants DEF AgentUnsupported, TypeOK, ExtendKinds, Status, Answer, Timer, Net, request, own, agent, command, extending
<1>21. ASSUME NEW i \in Jobs, AgentSync(i) PROVE TypeOK'
  BY <1>21, StackConstants DEF AgentSync, RunCompose, TypeOK, ExtendKinds, Status, Answer, Timer, Net, request, own, agent, command, extending
<1>22. ASSUME NEW i \in Jobs, AgentStopsDeadline(i) PROVE TypeOK'
  BY <1>22, StackConstants DEF AgentStopsDeadline, TypeOK, ExtendKinds, Status, Answer, Timer, Net, request, own, agent, command, extending
<1>23. ASSUME NEW i \in Jobs, AgentFinishes(i) PROVE TypeOK'
  BY <1>23, StackConstants DEF AgentFinishes, TypeOK, ExtendKinds, Status, Answer, Timer, Net, request, own, agent, command, extending
<1>24. ASSUME NEW i \in Jobs, AgentTimerFires(i) PROVE TypeOK'
  BY <1>24, StackConstants DEF AgentTimerFires, Due, TypeOK, ExtendKinds, Status, Answer, Timer, Net, request, own, agent, command, extending
<1>25. ASSUME NEW i \in Jobs, NEW c \in {"ok", "failed"}, AgentSyncEnds(i, c) PROVE TypeOK'
  BY <1>25, StackConstants DEF AgentSyncEnds, Verdict, TypeOK, ExtendKinds, Status, Answer, Timer, Net, request, own, agent, command, extending
<1>26. ASSUME NEW i \in Jobs, NEW c \in {"ok", "failed"}, AgentComposeEnds(i, c) PROVE TypeOK'
  BY <1>26, StackConstants DEF AgentComposeEnds, Verdict, TypeOK, ExtendKinds, Status, Answer, Timer, Net, request, own, agent, command, extending
<1>27. ASSUME NEW e \in Extends, NEW i \in Jobs, ExtendRequest(e, i) PROVE TypeOK'
  BY <1>27, StackConstants DEF ExtendRequest, TypeOK, ExtendKinds, Status, Answer, Timer, Net, request, own, agent, command, extending
<1>28. ASSUME NEW e \in Extends, ExtendAgent(e) PROVE TypeOK'
  <2>1. ejob[e] \in Jobs
    BY <1>28 DEF ExtendAgent, ExtendKinds
  <2>2. /\ left' \in [Jobs -> Nat] /\ aleft' \in [Jobs -> Nat]
        /\ cx' \in [Jobs -> Nat] /\ ax' \in [Jobs -> Nat]
    BY <1>28, <2>1, StackConstants DEF ExtendAgent, TypeOK, own, agent
  <2>3. epc' \in [Extends -> {"idle", "agent", "own"}] /\ ejob' \in [Extends -> Jobs \cup {NoJob}]
    BY <1>28 DEF ExtendAgent, EndExtend, TypeOK
  <2> QED
    BY <1>28, <2>2, <2>3 DEF ExtendAgent, TypeOK, Status, Answer, Timer, Net, request, own, agent, command, extending
<1>29. ASSUME NEW e \in Extends, ExtendFails(e) PROVE TypeOK'
  BY <1>29, StackConstants DEF ExtendFails, EndExtend, TypeOK, ExtendKinds, Status, Answer, Timer, Net, request, own, agent, command, extending
<1>30. ASSUME NEW e \in Extends, ExtendOwn(e) PROVE TypeOK'
  <2>1. ejob[e] \in Jobs
    BY <1>30 DEF ExtendOwn, ExtendKinds
  <2>2. /\ left' \in [Jobs -> Nat] /\ aleft' \in [Jobs -> Nat]
        /\ cx' \in [Jobs -> Nat] /\ ax' \in [Jobs -> Nat]
    <3>1. CASE timer[ejob[e]] = "armed"
      <4>1. /\ left[ejob[e]] \in Nat /\ cx[ejob[e]] \in Nat
        BY <2>1 DEF TypeOK
      <4>2. left[ejob[e]] + Extension \in Nat /\ cx[ejob[e]] + 1 \in Nat
        BY <4>1, StackConstants
      <4>3. /\ left' = [left EXCEPT ![ejob[e]] = left[ejob[e]] + Extension]
            /\ cx' = [cx EXCEPT ![ejob[e]] = cx[ejob[e]] + 1]
            /\ UNCHANGED <<aleft, ax>>
        BY <1>30, <3>1 DEF ExtendOwn, agent
      <4> QED
        BY <4>2, <4>3 DEF TypeOK
    <3>2. CASE timer[ejob[e]] # "armed"
      BY <1>30, <3>2 DEF ExtendOwn, TypeOK, own, agent
    <3> QED
      BY <3>1, <3>2
  <2>3. epc' \in [Extends -> {"idle", "agent", "own"}] /\ ejob' \in [Extends -> Jobs \cup {NoJob}]
    BY <1>30 DEF ExtendOwn, EndExtend, TypeOK
  <2> QED
    BY <1>30, <2>2, <2>3 DEF ExtendOwn, TypeOK, Status, Answer, Timer, Net, request, own, agent, command, extending
<1>31. ASSUME Tick PROVE TypeOK'
  BY <1>31, StackConstants DEF Tick, Due, LessLeft, TypeOK, ExtendKinds, Status, Answer, Timer, Net, request, own, agent, command, extending
<1>32. ASSUME AgentRestart PROVE TypeOK'
  BY <1>32, StackConstants DEF AgentRestart, Killed, TypeOK, ExtendKinds, Status, Answer, Timer, Net, request, own, agent, command, extending
<1>33. ASSUME ControllerRestart PROVE TypeOK'
  BY <1>33, StackConstants DEF ControllerRestart, Killed, TypeOK, ExtendKinds, Status, Answer, Timer, Net, request, own, agent, command, extending
<1>34. ASSUME UNCHANGED vars PROVE TypeOK'
  BY <1>34 DEF TypeOK, ExtendKinds, Status, Answer, Timer, Net, vars, request, own, agent, command, extending
<1>35. ASSUME NEW i \in Jobs, NEW expired \in SUBSET Jobs, StartConflict(i, expired) PROVE TypeOK'
  BY <1>35, StackConstants DEF StartConflict, Busy, Finished, TypeOK, ExtendKinds, Status, Answer, Timer, Net, request, own, agent, command, extending
<1> QED
  BY <1>1, <1>2, <1>3, <1>4, <1>5, <1>6, <1>7, <1>8, <1>9, <1>10, <1>11, <1>12, <1>13, <1>14, <1>15, <1>16, <1>17, <1>18, <1>19, <1>20, <1>21, <1>22, <1>23, <1>24, <1>25, <1>26, <1>27, <1>28, <1>29, <1>30, <1>31, <1>32, <1>33, <1>34, <1>35 DEF Next, ControllerStep, AnswerStep, CommandStep, AgentStep, AgentCommandStep

(* An extend request that is being served has a job in hand. *)
LEMMA ExtendKindsStep ==
    ASSUME TypeOK, ExtendKinds, [Next]_vars
    PROVE  ExtendKinds'
<1>1. ASSUME NEW i \in Jobs, NEW expired \in SUBSET Jobs, StartJob(i, expired) PROVE ExtendKinds'
  BY <1>1 DEF StartJob, Busy, Finished, Goto, Remote, TypeOK, ExtendKinds, request, own, agent, command, extending
<1>2. ASSUME NEW i \in Jobs, BeginFails(i) PROVE ExtendKinds'
  BY <1>2 DEF BeginFails, RunReturns, Goto, TypeOK, ExtendKinds, request, own, agent, command, extending
<1>3. ASSUME NEW i \in Jobs, BeginLocal(i) PROVE ExtendKinds'
  BY <1>3 DEF BeginLocal, RunCompose, Goto, Remote, TypeOK, ExtendKinds, request, own, agent, command, extending
<1>4. ASSUME NEW i \in Jobs, BeginRemote(i) PROVE ExtendKinds'
  BY <1>4 DEF BeginRemote, Goto, Remote, TypeOK, ExtendKinds, request, own, agent, command, extending
<1>5. ASSUME NEW i \in Jobs, StartTimesOut(i) PROVE ExtendKinds'
  BY <1>5 DEF StartTimesOut, StartFails, RunReturns, Goto, TypeOK, ExtendKinds, request, own, agent, command, extending
<1>6. ASSUME NEW i \in Jobs, WaitTimesOut(i) PROVE ExtendKinds'
  BY <1>6 DEF WaitTimesOut, RunReturns, Goto, TypeOK, ExtendKinds, request, own, agent, command, extending
<1>7. ASSUME NEW i \in Jobs, StopDeadline(i) PROVE ExtendKinds'
  BY <1>7 DEF StopDeadline, Goto, TypeOK, ExtendKinds, request, own, agent, command, extending
<1>8. ASSUME NEW i \in Jobs, Finish(i) PROVE ExtendKinds'
  BY <1>8 DEF Finish, Goto, TypeOK, ExtendKinds, request, own, agent, command, extending
<1>9. ASSUME NEW i \in Jobs, TimerFires(i) PROVE ExtendKinds'
  BY <1>9 DEF TimerFires, Due, TypeOK, ExtendKinds, request, own, agent, command, extending
<1>10. ASSUME NEW i \in Jobs, StartAccepted(i) PROVE ExtendKinds'
  BY <1>10 DEF StartAccepted, Goto, TypeOK, ExtendKinds, request, own, agent, command, extending
<1>11. ASSUME NEW i \in Jobs, StartRefused(i) PROVE ExtendKinds'
  BY <1>11 DEF StartRefused, RunReturns, Goto, TypeOK, ExtendKinds, request, own, agent, command, extending
<1>12. ASSUME NEW i \in Jobs, StartUnsupported(i) PROVE ExtendKinds'
  BY <1>12 DEF StartUnsupported, Goto, TypeOK, ExtendKinds, request, own, agent, command, extending
<1>13. ASSUME NEW i \in Jobs, StartFails(i) PROVE ExtendKinds'
  BY <1>13 DEF StartFails, RunReturns, Goto, TypeOK, ExtendKinds, request, own, agent, command, extending
<1>14. ASSUME NEW i \in Jobs, PollAnswered(i) PROVE ExtendKinds'
  BY <1>14 DEF PollAnswered, RunReturns, Goto, TypeOK, ExtendKinds, request, own, agent, command, extending
<1>15. ASSUME NEW i \in Jobs, SyncAnswered(i) PROVE ExtendKinds'
  BY <1>15 DEF SyncAnswered, RunReturns, Goto, TypeOK, ExtendKinds, request, own, agent, command, extending
<1>16. ASSUME NEW i \in Jobs, SyncFails(i) PROVE ExtendKinds'
  BY <1>16 DEF SyncFails, RunReturns, Goto, TypeOK, ExtendKinds, request, own, agent, command, extending
<1>17. ASSUME NEW i \in Jobs, NEW c \in {"ok", "failed"}, ComposeEnds(i, c) PROVE ExtendKinds'
  BY <1>17 DEF ComposeEnds, RunReturns, Goto, Verdict, TypeOK, ExtendKinds, request, own, agent, command, extending
<1>18. ASSUME NEW i \in Jobs, NEW expired \in SUBSET Jobs, AgentAccepts(i, expired) PROVE ExtendKinds'
  BY <1>18 DEF AgentAccepts, RunCompose, Busy, Finished, TypeOK, ExtendKinds, request, own, agent, command, extending
<1>19. ASSUME NEW i \in Jobs, NEW expired \in SUBSET Jobs, AgentRefuses(i, expired) PROVE ExtendKinds'
  BY <1>19 DEF AgentRefuses, Busy, Finished, TypeOK, ExtendKinds, request, own, agent, command, extending
<1>20. ASSUME NEW i \in Jobs, AgentUnsupported(i) PROVE ExtendKinds'
  BY <1>20 DEF AgentUnsupported, TypeOK, ExtendKinds, request, own, agent, command, extending
<1>21. ASSUME NEW i \in Jobs, AgentSync(i) PROVE ExtendKinds'
  BY <1>21 DEF AgentSync, RunCompose, TypeOK, ExtendKinds, request, own, agent, command, extending
<1>22. ASSUME NEW i \in Jobs, AgentStopsDeadline(i) PROVE ExtendKinds'
  BY <1>22 DEF AgentStopsDeadline, TypeOK, ExtendKinds, request, own, agent, command, extending
<1>23. ASSUME NEW i \in Jobs, AgentFinishes(i) PROVE ExtendKinds'
  BY <1>23 DEF AgentFinishes, TypeOK, ExtendKinds, request, own, agent, command, extending
<1>24. ASSUME NEW i \in Jobs, AgentTimerFires(i) PROVE ExtendKinds'
  BY <1>24 DEF AgentTimerFires, Due, TypeOK, ExtendKinds, request, own, agent, command, extending
<1>25. ASSUME NEW i \in Jobs, NEW c \in {"ok", "failed"}, AgentSyncEnds(i, c) PROVE ExtendKinds'
  BY <1>25 DEF AgentSyncEnds, Verdict, TypeOK, ExtendKinds, request, own, agent, command, extending
<1>26. ASSUME NEW i \in Jobs, NEW c \in {"ok", "failed"}, AgentComposeEnds(i, c) PROVE ExtendKinds'
  BY <1>26 DEF AgentComposeEnds, Verdict, TypeOK, ExtendKinds, request, own, agent, command, extending
<1>27. ASSUME NEW e \in Extends, NEW i \in Jobs, ExtendRequest(e, i) PROVE ExtendKinds'
  BY <1>27 DEF ExtendRequest, TypeOK, ExtendKinds, request, own, agent, command, extending
<1>28. ASSUME NEW e \in Extends, ExtendAgent(e) PROVE ExtendKinds'
  BY <1>28 DEF ExtendAgent, EndExtend, TypeOK, ExtendKinds, request, own, agent, command, extending
<1>29. ASSUME NEW e \in Extends, ExtendFails(e) PROVE ExtendKinds'
  BY <1>29 DEF ExtendFails, EndExtend, TypeOK, ExtendKinds, request, own, agent, command, extending
<1>30. ASSUME NEW e \in Extends, ExtendOwn(e) PROVE ExtendKinds'
  BY <1>30 DEF ExtendOwn, EndExtend, TypeOK, ExtendKinds, request, own, agent, command, extending
<1>31. ASSUME Tick PROVE ExtendKinds'
  BY <1>31 DEF Tick, Due, LessLeft, TypeOK, ExtendKinds, request, own, agent, command, extending
<1>32. ASSUME AgentRestart PROVE ExtendKinds'
  BY <1>32 DEF AgentRestart, Killed, TypeOK, ExtendKinds, request, own, agent, command, extending
<1>33. ASSUME ControllerRestart PROVE ExtendKinds'
  BY <1>33 DEF ControllerRestart, Killed, TypeOK, ExtendKinds, request, own, agent, command, extending
<1>34. ASSUME UNCHANGED vars PROVE ExtendKinds'
  BY <1>34 DEF TypeOK, ExtendKinds, vars, request, own, agent, command, extending
<1>35. ASSUME NEW i \in Jobs, NEW expired \in SUBSET Jobs, StartConflict(i, expired) PROVE ExtendKinds'
  BY <1>35 DEF StartConflict, Busy, Finished, TypeOK, ExtendKinds, request, own, agent, command, extending
<1> QED
  BY <1>1, <1>2, <1>3, <1>4, <1>5, <1>6, <1>7, <1>8, <1>9, <1>10, <1>11, <1>12, <1>13, <1>14, <1>15, <1>16, <1>17, <1>18, <1>19, <1>20, <1>21, <1>22, <1>23, <1>24, <1>25, <1>26, <1>27, <1>28, <1>29, <1>30, <1>31, <1>32, <1>33, <1>34, <1>35 DEF Next, ControllerStep, AnswerStep, CommandStep, AgentStep, AgentCommandStep

(* Every step keeps the invariant of every job. *)
LEMMA JobStep ==
    ASSUME TypeOK, ExtendKinds, \A i \in Jobs : JobInv(i), NEW j \in Jobs, [Next]_vars
    PROVE  JobInv(j)'
<1>1. ASSUME NEW i \in Jobs, NEW expired \in SUBSET Jobs, StartJob(i, expired) PROVE JobInv(j)'
  BY <1>1 DEF StartJob, Busy, Finished, Goto, Remote, TypeOK, ExtendKinds, JobInv, Unserved, Placed, Truthful, Timers, Alive, request, own, agent, command, extending
<1>2. ASSUME NEW i \in Jobs, BeginFails(i) PROVE JobInv(j)'
  BY <1>2 DEF BeginFails, RunReturns, Goto, TypeOK, ExtendKinds, JobInv, Unserved, Placed, Truthful, Timers, Alive, request, own, agent, command, extending
<1>3. ASSUME NEW i \in Jobs, BeginLocal(i) PROVE JobInv(j)'
  BY <1>3 DEF BeginLocal, RunCompose, Goto, Remote, TypeOK, ExtendKinds, JobInv, Unserved, Placed, Truthful, Timers, Alive, request, own, agent, command, extending
<1>4. ASSUME NEW i \in Jobs, BeginRemote(i) PROVE JobInv(j)'
  BY <1>4 DEF BeginRemote, Goto, Remote, TypeOK, ExtendKinds, JobInv, Unserved, Placed, Truthful, Timers, Alive, request, own, agent, command, extending
<1>5. ASSUME NEW i \in Jobs, StartTimesOut(i) PROVE JobInv(j)'
  BY <1>5 DEF StartTimesOut, StartFails, RunReturns, Goto, TypeOK, ExtendKinds, JobInv, Unserved, Placed, Truthful, Timers, Alive, request, own, agent, command, extending
<1>6. ASSUME NEW i \in Jobs, WaitTimesOut(i) PROVE JobInv(j)'
  BY <1>6 DEF WaitTimesOut, RunReturns, Goto, TypeOK, ExtendKinds, JobInv, Unserved, Placed, Truthful, Timers, Alive, request, own, agent, command, extending
<1>7. ASSUME NEW i \in Jobs, StopDeadline(i) PROVE JobInv(j)'
  BY <1>7 DEF StopDeadline, Goto, TypeOK, ExtendKinds, JobInv, Unserved, Placed, Truthful, Timers, Alive, request, own, agent, command, extending
<1>8. ASSUME NEW i \in Jobs, Finish(i) PROVE JobInv(j)'
  BY <1>8 DEF Finish, Goto, TypeOK, ExtendKinds, JobInv, Unserved, Placed, Truthful, Timers, Alive, request, own, agent, command, extending
<1>9. ASSUME NEW i \in Jobs, TimerFires(i) PROVE JobInv(j)'
  BY <1>9 DEF TimerFires, Due, TypeOK, ExtendKinds, JobInv, Unserved, Placed, Truthful, Timers, Alive, request, own, agent, command, extending
<1>10. ASSUME NEW i \in Jobs, StartAccepted(i) PROVE JobInv(j)'
  BY <1>10 DEF StartAccepted, Goto, TypeOK, ExtendKinds, JobInv, Unserved, Placed, Truthful, Timers, Alive, request, own, agent, command, extending
<1>11. ASSUME NEW i \in Jobs, StartRefused(i) PROVE JobInv(j)'
  BY <1>11 DEF StartRefused, RunReturns, Goto, TypeOK, ExtendKinds, JobInv, Unserved, Placed, Truthful, Timers, Alive, request, own, agent, command, extending
<1>12. ASSUME NEW i \in Jobs, StartUnsupported(i) PROVE JobInv(j)'
  BY <1>12 DEF StartUnsupported, Goto, TypeOK, ExtendKinds, JobInv, Unserved, Placed, Truthful, Timers, Alive, request, own, agent, command, extending
<1>13. ASSUME NEW i \in Jobs, StartFails(i) PROVE JobInv(j)'
  BY <1>13 DEF StartFails, RunReturns, Goto, TypeOK, ExtendKinds, JobInv, Unserved, Placed, Truthful, Timers, Alive, request, own, agent, command, extending
<1>14. ASSUME NEW i \in Jobs, PollAnswered(i) PROVE JobInv(j)'
  BY <1>14 DEF PollAnswered, RunReturns, Goto, TypeOK, ExtendKinds, JobInv, Unserved, Placed, Truthful, Timers, Alive, request, own, agent, command, extending
<1>15. ASSUME NEW i \in Jobs, SyncAnswered(i) PROVE JobInv(j)'
  BY <1>15 DEF SyncAnswered, RunReturns, Goto, TypeOK, ExtendKinds, JobInv, Unserved, Placed, Truthful, Timers, Alive, request, own, agent, command, extending
<1>16. ASSUME NEW i \in Jobs, SyncFails(i) PROVE JobInv(j)'
  BY <1>16 DEF SyncFails, RunReturns, Goto, TypeOK, ExtendKinds, JobInv, Unserved, Placed, Truthful, Timers, Alive, request, own, agent, command, extending
<1>17. ASSUME NEW i \in Jobs, NEW c \in {"ok", "failed"}, ComposeEnds(i, c) PROVE JobInv(j)'
  BY <1>17 DEF ComposeEnds, RunReturns, Goto, Verdict, TypeOK, ExtendKinds, JobInv, Unserved, Placed, Truthful, Timers, Alive, request, own, agent, command, extending
<1>18. ASSUME NEW i \in Jobs, NEW expired \in SUBSET Jobs, AgentAccepts(i, expired) PROVE JobInv(j)'
  BY <1>18 DEF AgentAccepts, RunCompose, Busy, Finished, TypeOK, ExtendKinds, JobInv, Unserved, Placed, Truthful, Timers, Alive, request, own, agent, command, extending
<1>19. ASSUME NEW i \in Jobs, NEW expired \in SUBSET Jobs, AgentRefuses(i, expired) PROVE JobInv(j)'
  BY <1>19 DEF AgentRefuses, Busy, Finished, TypeOK, ExtendKinds, JobInv, Unserved, Placed, Truthful, Timers, Alive, request, own, agent, command, extending
<1>20. ASSUME NEW i \in Jobs, AgentUnsupported(i) PROVE JobInv(j)'
  BY <1>20 DEF AgentUnsupported, TypeOK, ExtendKinds, JobInv, Unserved, Placed, Truthful, Timers, Alive, request, own, agent, command, extending
<1>21. ASSUME NEW i \in Jobs, AgentSync(i) PROVE JobInv(j)'
  BY <1>21 DEF AgentSync, RunCompose, TypeOK, ExtendKinds, JobInv, Unserved, Placed, Truthful, Timers, Alive, request, own, agent, command, extending
<1>22. ASSUME NEW i \in Jobs, AgentStopsDeadline(i) PROVE JobInv(j)'
  BY <1>22 DEF AgentStopsDeadline, TypeOK, ExtendKinds, JobInv, Unserved, Placed, Truthful, Timers, Alive, request, own, agent, command, extending
<1>23. ASSUME NEW i \in Jobs, AgentFinishes(i) PROVE JobInv(j)'
  BY <1>23 DEF AgentFinishes, TypeOK, ExtendKinds, JobInv, Unserved, Placed, Truthful, Timers, Alive, request, own, agent, command, extending
<1>24. ASSUME NEW i \in Jobs, AgentTimerFires(i) PROVE JobInv(j)'
  BY <1>24 DEF AgentTimerFires, Due, TypeOK, ExtendKinds, JobInv, Unserved, Placed, Truthful, Timers, Alive, request, own, agent, command, extending
<1>25. ASSUME NEW i \in Jobs, NEW c \in {"ok", "failed"}, AgentSyncEnds(i, c) PROVE JobInv(j)'
  BY <1>25 DEF AgentSyncEnds, Verdict, TypeOK, ExtendKinds, JobInv, Unserved, Placed, Truthful, Timers, Alive, request, own, agent, command, extending
<1>26. ASSUME NEW i \in Jobs, NEW c \in {"ok", "failed"}, AgentComposeEnds(i, c) PROVE JobInv(j)'
  BY <1>26 DEF AgentComposeEnds, Verdict, TypeOK, ExtendKinds, JobInv, Unserved, Placed, Truthful, Timers, Alive, request, own, agent, command, extending
<1>27. ASSUME NEW e \in Extends, NEW i \in Jobs, ExtendRequest(e, i) PROVE JobInv(j)'
  BY <1>27 DEF ExtendRequest, TypeOK, ExtendKinds, JobInv, Unserved, Placed, Truthful, Timers, Alive, request, own, agent, command, extending
<1>28. ASSUME NEW e \in Extends, ExtendAgent(e) PROVE JobInv(j)'
  BY <1>28 DEF ExtendAgent, EndExtend, TypeOK, ExtendKinds, JobInv, Unserved, Placed, Truthful, Timers, Alive, request, own, agent, command, extending
<1>29. ASSUME NEW e \in Extends, ExtendFails(e) PROVE JobInv(j)'
  BY <1>29 DEF ExtendFails, EndExtend, TypeOK, ExtendKinds, JobInv, Unserved, Placed, Truthful, Timers, Alive, request, own, agent, command, extending
<1>30. ASSUME NEW e \in Extends, ExtendOwn(e) PROVE JobInv(j)'
  BY <1>30 DEF ExtendOwn, EndExtend, TypeOK, ExtendKinds, JobInv, Unserved, Placed, Truthful, Timers, Alive, request, own, agent, command, extending
<1>31. ASSUME Tick PROVE JobInv(j)'
  BY <1>31 DEF Tick, Due, LessLeft, TypeOK, ExtendKinds, JobInv, Unserved, Placed, Truthful, Timers, Alive, request, own, agent, command, extending
<1>32. ASSUME AgentRestart PROVE JobInv(j)'
  BY <1>32 DEF AgentRestart, Killed, TypeOK, ExtendKinds, JobInv, Unserved, Placed, Truthful, Timers, Alive, request, own, agent, command, extending
<1>33. ASSUME ControllerRestart PROVE JobInv(j)'
  BY <1>33 DEF ControllerRestart, Killed, TypeOK, ExtendKinds, JobInv, Unserved, Placed, Truthful, Timers, Alive, request, own, agent, command, extending
<1>34. ASSUME UNCHANGED vars PROVE JobInv(j)'
  BY <1>34 DEF TypeOK, ExtendKinds, JobInv, Unserved, Placed, Truthful, Timers, Alive, vars, request, own, agent, command, extending
<1>35. ASSUME NEW i \in Jobs, NEW expired \in SUBSET Jobs, StartConflict(i, expired) PROVE JobInv(j)'
  BY <1>35 DEF StartConflict, Busy, Finished, TypeOK, ExtendKinds, JobInv, Unserved, Placed, Truthful, Timers, Alive, request, own, agent, command, extending
<1> QED
  BY <1>1, <1>2, <1>3, <1>4, <1>5, <1>6, <1>7, <1>8, <1>9, <1>10, <1>11, <1>12, <1>13, <1>14, <1>15, <1>16, <1>17, <1>18, <1>19, <1>20, <1>21, <1>22, <1>23, <1>24, <1>25, <1>26, <1>27, <1>28, <1>29, <1>30, <1>31, <1>32, <1>33, <1>34, <1>35 DEF Next, ControllerStep, AnswerStep, CommandStep, AgentStep, AgentCommandStep

(* The stack of a request never changes. *)
LEMMA TaskStays == ASSUME [Next]_vars PROVE task' = task
  BY DEF Next, vars, ControllerStep, AnswerStep, CommandStep, AgentStep, AgentCommandStep,
         StartJob, StartConflict, BeginFails, BeginLocal, BeginRemote, StartTimesOut, WaitTimesOut, StopDeadline,
         Finish, TimerFires, StartAccepted, StartRefused, StartUnsupported, StartFails,
         PollAnswered, SyncAnswered, SyncFails, ComposeEnds, RunReturns, AgentAccepts, AgentRefuses,
         AgentUnsupported, AgentSync, AgentStopsDeadline, AgentFinishes, AgentTimerFires,
         AgentSyncEnds, AgentComposeEnds, ExtendRequest, ExtendAgent, ExtendFails, ExtendOwn,
         Tick, AgentRestart, ControllerRestart, request, own, agent, command, extending

(* A command is started once and ends once: only a command that was never   *)
(* run is started, only one that is running ends.                           *)
LEMMA CommandLater ==
    ASSUME TypeOK, \A i \in Jobs : JobInv(i), NEW j \in Jobs, [Next]_vars
    PROVE  compose'[j] \in ControllerJobs!Later(compose[j])
<1>1. \/ UNCHANGED compose
      \/ \E i \in Jobs : \/ BeginLocal(i) \/ AgentSync(i) \/ CommandStep(i) \/ AgentCommandStep(i)
                         \/ \E expired \in SUBSET Jobs : AgentAccepts(i, expired)
      \/ AgentRestart \/ ControllerRestart
  BY DEF Next, vars, ControllerStep, AnswerStep, AgentStep,
         StartJob, StartConflict, BeginFails, BeginRemote, StartTimesOut, WaitTimesOut, StopDeadline,
         Finish, TimerFires, StartAccepted, StartRefused, StartUnsupported, StartFails,
         PollAnswered, SyncAnswered, SyncFails, RunReturns, AgentRefuses,
         AgentUnsupported, AgentStopsDeadline, AgentFinishes, AgentTimerFires,
         ExtendRequest, ExtendAgent, ExtendFails, ExtendOwn,
         Tick, request, own, agent, command, extending
<1>2. CASE UNCHANGED compose
  BY <1>2 DEF ControllerJobs!Later, TypeOK
<1>3. ASSUME NEW i \in Jobs, BeginLocal(i) \/ AgentSync(i) \/ \E expired \in SUBSET Jobs : AgentAccepts(i, expired)
      PROVE  compose'[j] \in ControllerJobs!Later(compose[j])
  BY <1>3 DEF BeginLocal, AgentSync, AgentAccepts, RunCompose, JobInv, Unserved, TypeOK, ControllerJobs!Later
<1>4. ASSUME NEW i \in Jobs, CommandStep(i) \/ AgentCommandStep(i)
      PROVE  compose'[j] \in ControllerJobs!Later(compose[j])
  BY <1>4 DEF CommandStep, ComposeEnds, AgentCommandStep, AgentSyncEnds, AgentComposeEnds, JobInv, Placed, TypeOK,
         ControllerJobs!Later
<1>5. CASE AgentRestart \/ ControllerRestart
  BY <1>5 DEF AgentRestart, ControllerRestart, Killed, JobInv, Placed, TypeOK, ControllerJobs!Later
<1> QED
  BY <1>1, <1>2, <1>3, <1>4, <1>5

(* The stored files: RunReturns removes them with the verdict "ok" only, and *)
(* by Truthful that verdict is what the command did.                         *)
LEMMA FilesStep ==
    ASSUME TypeOK, ExtendKinds, \A i \in Jobs : JobInv(i), FilesKept, [Next]_vars
    PROVE  FilesKept'
<1>1. task' = task
  BY TaskStays
<1>2. \A s \in stored \ stored' : \E j \in Jobs : task[j].stack = s /\ task[j].rm /\ compose'[j] = "ok"
  <2> SUFFICES ASSUME NEW s \in stored \ stored'
               PROVE  \E j \in Jobs : task[j].stack = s /\ task[j].rm /\ compose'[j] = "ok"
    OBVIOUS
  <2>1. \E j \in Jobs : \/ PollAnswered(j) \/ SyncAnswered(j) \/ CommandStep(j)
    BY DEF Next, vars, ControllerStep, AnswerStep, AgentStep, AgentCommandStep,
         StartJob, StartConflict, BeginFails, BeginLocal, BeginRemote, StartTimesOut, WaitTimesOut, StopDeadline,
         Finish, TimerFires, StartAccepted, StartRefused, StartUnsupported, StartFails,
         SyncFails, RunReturns, AgentAccepts, AgentRefuses,
         AgentUnsupported, AgentSync, AgentStopsDeadline, AgentFinishes, AgentTimerFires,
         AgentSyncEnds, AgentComposeEnds, ExtendRequest, ExtendAgent, ExtendFails, ExtendOwn,
         Tick, AgentRestart, ControllerRestart, request
  <2>2. PICK j \in Jobs : \/ PollAnswered(j) \/ SyncAnswered(j) \/ CommandStep(j)
    BY <2>1
  <2>3. CASE PollAnswered(j)
    BY <2>3 DEF PollAnswered, RunReturns, JobInv, Truthful, command
  <2>4. CASE SyncAnswered(j)
    BY <2>4 DEF SyncAnswered, RunReturns, JobInv, Truthful, command
  <2>5. CASE CommandStep(j)
    BY <2>5 DEF CommandStep, ComposeEnds, RunReturns, Verdict, TypeOK
  <2> QED
    BY <2>2, <2>3, <2>4, <2>5
<1>3. \A j \in Jobs : compose[j] = "ok" => compose'[j] = "ok"
  BY CommandLater DEF ControllerJobs!Later
<1> QED
  BY <1>1, <1>2, <1>3 DEF FilesKept, Stacks

(* Controller and agent start in the invariant: no request was served yet.  *)
LEMMA InitInv == Init => IndInv
  BY StackConstants DEF Init, IndInv, TypeOK, ExtendKinds, JobInv, Unserved, Placed, Truthful, Timers, Alive,
         FilesKept, Status, Answer, Timer, Net

(* The inductive invariant holds in every reachable state. *)
THEOREM JobInvariance == Spec => []IndInv
<1>1. IndInv /\ [Next]_vars => IndInv'
  BY TypeStep, ExtendKindsStep, JobStep, FilesStep DEF IndInv
<1> QED
  BY InitInv, <1>1, PTL DEF Spec

(* Every reachable state is well typed: in particular no countdown of a     *)
(* deadline passes below zero.                                              *)
THEOREM StackTypeCorrect == Spec => []TypeOK
<1>1. IndInv => TypeOK
  BY DEF IndInv
<1> QED
  BY JobInvariance, <1>1, PTL

(* A job that is reported as succeeded has run its command to a good end.   *)
THEOREM SuccessCorrect == Spec => []SucceededMeansRan
<1>1. IndInv => SucceededMeansRan
  BY DEF IndInv, JobInv, Truthful, SucceededMeansRan
<1> QED
  BY JobInvariance, <1>1, PTL

(* No request runs docker compose twice. *)
THEOREM AtMostOnceCorrect == Spec => []AtMostOnce
<1>1. IndInv => AtMostOnce
  BY DEF IndInv, JobInv, Placed, AtMostOnce
<1> QED
  BY JobInvariance, <1>1, PTL

(* Stored files disappear only after a successful rm. *)
THEOREM FilesCorrect == Spec => []FilesKept
<1>1. IndInv => FilesKept
  BY DEF IndInv
<1> QED
  BY JobInvariance, <1>1, PTL

(* No extension leaves a timer running for a job that is over. *)
THEOREM TimersCorrect == Spec => []NoTimerLeftBehind
<1>1. IndInv => NoTimerLeftBehind
  BY DEF IndInv, JobInv, Timers, NoTimerLeftBehind
<1> QED
  BY JobInvariance, <1>1, PTL

-----------------------------------------------------------------------------
(* Both managers keep to the life of a job *)

(* What a step does to the states the controller shows. *)
LEMMA ControllerManages ==
    ASSUME TypeOK, \A j \in Jobs : JobInv(j), [Next]_vars
    PROVE  ControllerJobs!Manager \/ UNCHANGED status
<1>1. \/ UNCHANGED status
      \/ \E j \in Jobs, expired \in SUBSET Jobs : StartJob(j, expired) \/ StartConflict(j, expired)
      \/ \E j \in Jobs : Finish(j)
      \/ ControllerRestart
  BY DEF Next, vars, ControllerStep, AnswerStep, CommandStep, AgentStep, AgentCommandStep,
         BeginFails, BeginLocal, BeginRemote, StartTimesOut, WaitTimesOut, StopDeadline,
         TimerFires, StartAccepted, StartRefused, StartUnsupported, StartFails,
         PollAnswered, SyncAnswered, SyncFails, ComposeEnds, RunReturns, AgentAccepts, AgentRefuses,
         AgentUnsupported, AgentSync, AgentStopsDeadline, AgentFinishes, AgentTimerFires,
         AgentSyncEnds, AgentComposeEnds, ExtendRequest, ExtendAgent, ExtendFails, ExtendOwn,
         Tick, AgentRestart, request, own, agent, command, extending
<1>2. ASSUME NEW j \in Jobs, NEW expired \in SUBSET Jobs, StartJob(j, expired)
      PROVE  ControllerJobs!Start(j)
  <2>1. expired \in SUBSET ControllerJobs!Over /\ j \notin expired
    BY <1>2 DEF StartJob, Finished, ControllerJobs!Over
  <2>2. status' = [ControllerJobs!Prune(expired) EXCEPT ![j] = "running"]
    BY <1>2, <2>1 DEF StartJob, ControllerJobs!Prune
  <2> QED
    BY <1>2, <2>1, <2>2 DEF StartJob, Busy, ControllerJobs!Start
<1>3. ASSUME NEW j \in Jobs, NEW expired \in SUBSET Jobs, StartConflict(j, expired)
      PROVE  ControllerJobs!Conflict
  BY <1>3 DEF StartConflict, Finished, ControllerJobs!Conflict, ControllerJobs!Over, ControllerJobs!Prune
<1>4. ASSUME NEW j \in Jobs, Finish(j) PROVE ControllerJobs!Finish(j)
  BY <1>4 DEF Finish, JobInv, Alive, Truthful, ControllerJobs!Finish
<1>5. CASE ControllerRestart
  BY <1>5 DEF ControllerRestart, ControllerJobs!Manager, ControllerJobs!Restart
<1> QED
  BY <1>1, <1>2, <1>3, <1>4, <1>5 DEF ControllerJobs!Manager

(* What a step does to the states the agent shows. *)
LEMMA AgentManages ==
    ASSUME TypeOK, \A j \in Jobs : JobInv(j), [Next]_vars
    PROVE  AgentJobs!Manager \/ UNCHANGED astatus
<1>1. \/ UNCHANGED astatus
      \/ \E j \in Jobs, expired \in SUBSET Jobs : AgentAccepts(j, expired) \/ AgentRefuses(j, expired)
      \/ \E j \in Jobs : AgentFinishes(j)
      \/ AgentRestart
  BY DEF Next, vars, ControllerStep, AnswerStep, CommandStep, AgentStep, AgentCommandStep,
         StartJob, StartConflict, BeginFails, BeginLocal, BeginRemote, StartTimesOut, WaitTimesOut, StopDeadline,
         Finish, TimerFires, StartAccepted, StartRefused, StartUnsupported, StartFails,
         PollAnswered, SyncAnswered, SyncFails, ComposeEnds, RunReturns,
         AgentUnsupported, AgentSync, AgentStopsDeadline, AgentTimerFires,
         AgentSyncEnds, AgentComposeEnds, ExtendRequest, ExtendAgent, ExtendFails, ExtendOwn,
         Tick, ControllerRestart, request, own, agent, command, extending
<1>2. ASSUME NEW j \in Jobs, NEW expired \in SUBSET Jobs, AgentAccepts(j, expired)
      PROVE  AgentJobs!Start(j)
  <2>1. expired \in SUBSET AgentJobs!Over /\ astatus[j] = "none" /\ j \notin expired
    BY <1>2 DEF AgentAccepts, Finished, AgentJobs!Over, JobInv, Unserved
  <2>2. astatus' = [AgentJobs!Prune(expired) EXCEPT ![j] = "running"]
    BY <1>2, <2>1 DEF AgentAccepts, AgentJobs!Prune
  <2> QED
    BY <1>2, <2>1, <2>2 DEF AgentAccepts, Busy, AgentJobs!Start
<1>3. ASSUME NEW j \in Jobs, NEW expired \in SUBSET Jobs, AgentRefuses(j, expired)
      PROVE  AgentJobs!Conflict
  BY <1>3 DEF AgentRefuses, Finished, AgentJobs!Conflict, AgentJobs!Over, AgentJobs!Prune
<1>4. ASSUME NEW j \in Jobs, AgentFinishes(j) PROVE AgentJobs!Finish(j)
  BY <1>4 DEF AgentFinishes, JobInv, Alive, Truthful, AgentJobs!Finish
<1>5. CASE AgentRestart
  BY <1>5 DEF AgentRestart, AgentJobs!Manager, AgentJobs!Restart
<1> QED
  BY <1>1, <1>2, <1>3, <1>4, <1>5 DEF AgentJobs!Manager

(* The controller implements the life of a job: one job per stack, one end  *)
(* that stays, success only after the one command has ended well.           *)
THEOREM ControllerRefines == Spec => ControllerJobs!Spec
<1>1. Init => ControllerJobs!Init
  BY DEF Init, ControllerJobs!Init
<1>2. IndInv /\ [Next]_vars => [ControllerJobs!Next]_ControllerJobs!vars
  BY ControllerManages, CommandLater, TaskStays DEF IndInv, ControllerJobs!Next
<1> QED
  BY <1>1, <1>2, JobInvariance, PTL DEF Spec, ControllerJobs!Spec

(* So does the agent, whenever a start request reaches it. *)
THEOREM AgentRefines == Spec => AgentJobs!Spec
<1>1. Init => AgentJobs!Init
  BY DEF Init, AgentJobs!Init
<1>2. IndInv /\ [Next]_vars => [AgentJobs!Next]_AgentJobs!vars
  <2> SUFFICES ASSUME IndInv, [Next]_vars PROVE AgentJobs!Next
    OBVIOUS
  <2>1. \A j \in Jobs : compose'[j] \in AgentJobs!Later(compose[j])
    BY CommandLater DEF IndInv, ControllerJobs!Later, AgentJobs!Later
  <2> QED
    BY <2>1, AgentManages, TaskStays DEF IndInv, AgentJobs!Next
<1> QED
  BY <1>1, <1>2, JobInvariance, PTL DEF Spec, AgentJobs!Spec

(* Both managers keep what JobLifecycle promises, over the same commands.   *)
THEOREM JobsManaged == Spec => JobsAreManaged
  BY ControllerRefines, AgentRefines DEF JobsAreManaged

-----------------------------------------------------------------------------
(* The two deadlines *)

(* One more extension. *)
LEMMA OneMore == ASSUME NEW n \in Nat PROVE (n + 1) * Extension = n * Extension + Extension /\ n * Extension \in Nat
  BY StackConstants, SMT

(* Every step keeps the distance of the deadlines. *)
LEMMA SkewStep ==
    ASSUME TypeOK, ExtendKinds, NEW j \in Jobs, JobInv(j), SkewInv(j), [Next]_vars
    PROVE  SkewInv(j)'
<1>1. ASSUME NEW i \in Jobs, NEW expired \in SUBSET Jobs, StartJob(i, expired) PROVE SkewInv(j)'
  BY <1>1, StackConstants, OneMore DEF StartJob, Busy, Finished, Goto, Remote, TypeOK, ExtendKinds, JobInv, Unserved, Timers, SkewInv, Remote, request, own, agent, command, extending
<1>2. ASSUME NEW i \in Jobs, BeginFails(i) PROVE SkewInv(j)'
  BY <1>2, StackConstants, OneMore DEF BeginFails, RunReturns, Goto, TypeOK, ExtendKinds, JobInv, Unserved, Timers, SkewInv, Remote, request, own, agent, command, extending
<1>3. ASSUME NEW i \in Jobs, BeginLocal(i) PROVE SkewInv(j)'
  BY <1>3, StackConstants, OneMore DEF BeginLocal, RunCompose, Goto, Remote, TypeOK, ExtendKinds, JobInv, Unserved, Timers, SkewInv, Remote, request, own, agent, command, extending
<1>4. ASSUME NEW i \in Jobs, BeginRemote(i) PROVE SkewInv(j)'
  BY <1>4, StackConstants, OneMore DEF BeginRemote, Goto, Remote, TypeOK, ExtendKinds, JobInv, Unserved, Timers, SkewInv, Remote, request, own, agent, command, extending
<1>5. ASSUME NEW i \in Jobs, StartTimesOut(i) PROVE SkewInv(j)'
  BY <1>5, StackConstants, OneMore DEF StartTimesOut, StartFails, RunReturns, Goto, TypeOK, ExtendKinds, JobInv, Unserved, Timers, SkewInv, Remote, request, own, agent, command, extending
<1>6. ASSUME NEW i \in Jobs, WaitTimesOut(i) PROVE SkewInv(j)'
  BY <1>6, StackConstants, OneMore DEF WaitTimesOut, RunReturns, Goto, TypeOK, ExtendKinds, JobInv, Unserved, Timers, SkewInv, Remote, request, own, agent, command, extending
<1>7. ASSUME NEW i \in Jobs, StopDeadline(i) PROVE SkewInv(j)'
  BY <1>7, StackConstants, OneMore DEF StopDeadline, Goto, TypeOK, ExtendKinds, JobInv, Unserved, Timers, SkewInv, Remote, request, own, agent, command, extending
<1>8. ASSUME NEW i \in Jobs, Finish(i) PROVE SkewInv(j)'
  BY <1>8, StackConstants, OneMore DEF Finish, Goto, TypeOK, ExtendKinds, JobInv, Unserved, Timers, SkewInv, Remote, request, own, agent, command, extending
<1>9. ASSUME NEW i \in Jobs, TimerFires(i) PROVE SkewInv(j)'
  BY <1>9, StackConstants, OneMore DEF TimerFires, Due, TypeOK, ExtendKinds, JobInv, Unserved, Timers, SkewInv, Remote, request, own, agent, command, extending
<1>10. ASSUME NEW i \in Jobs, StartAccepted(i) PROVE SkewInv(j)'
  BY <1>10, StackConstants, OneMore DEF StartAccepted, Goto, TypeOK, ExtendKinds, JobInv, Unserved, Timers, SkewInv, Remote, request, own, agent, command, extending
<1>11. ASSUME NEW i \in Jobs, StartRefused(i) PROVE SkewInv(j)'
  BY <1>11, StackConstants, OneMore DEF StartRefused, RunReturns, Goto, TypeOK, ExtendKinds, JobInv, Unserved, Timers, SkewInv, Remote, request, own, agent, command, extending
<1>12. ASSUME NEW i \in Jobs, StartUnsupported(i) PROVE SkewInv(j)'
  BY <1>12, StackConstants, OneMore DEF StartUnsupported, Goto, TypeOK, ExtendKinds, JobInv, Unserved, Timers, SkewInv, Remote, request, own, agent, command, extending
<1>13. ASSUME NEW i \in Jobs, StartFails(i) PROVE SkewInv(j)'
  BY <1>13, StackConstants, OneMore DEF StartFails, RunReturns, Goto, TypeOK, ExtendKinds, JobInv, Unserved, Timers, SkewInv, Remote, request, own, agent, command, extending
<1>14. ASSUME NEW i \in Jobs, PollAnswered(i) PROVE SkewInv(j)'
  BY <1>14, StackConstants, OneMore DEF PollAnswered, RunReturns, Goto, TypeOK, ExtendKinds, JobInv, Unserved, Timers, SkewInv, Remote, request, own, agent, command, extending
<1>15. ASSUME NEW i \in Jobs, SyncAnswered(i) PROVE SkewInv(j)'
  BY <1>15, StackConstants, OneMore DEF SyncAnswered, RunReturns, Goto, TypeOK, ExtendKinds, JobInv, Unserved, Timers, SkewInv, Remote, request, own, agent, command, extending
<1>16. ASSUME NEW i \in Jobs, SyncFails(i) PROVE SkewInv(j)'
  BY <1>16, StackConstants, OneMore DEF SyncFails, RunReturns, Goto, TypeOK, ExtendKinds, JobInv, Unserved, Timers, SkewInv, Remote, request, own, agent, command, extending
<1>17. ASSUME NEW i \in Jobs, NEW c \in {"ok", "failed"}, ComposeEnds(i, c) PROVE SkewInv(j)'
  BY <1>17, StackConstants, OneMore DEF ComposeEnds, RunReturns, Goto, Verdict, TypeOK, ExtendKinds, JobInv, Unserved, Timers, SkewInv, Remote, request, own, agent, command, extending
<1>18. ASSUME NEW i \in Jobs, NEW expired \in SUBSET Jobs, AgentAccepts(i, expired) PROVE SkewInv(j)'
  BY <1>18, StackConstants, OneMore DEF AgentAccepts, RunCompose, Busy, Finished, TypeOK, ExtendKinds, JobInv, Unserved, Timers, SkewInv, Remote, request, own, agent, command, extending
<1>19. ASSUME NEW i \in Jobs, NEW expired \in SUBSET Jobs, AgentRefuses(i, expired) PROVE SkewInv(j)'
  BY <1>19, StackConstants, OneMore DEF AgentRefuses, Busy, Finished, TypeOK, ExtendKinds, JobInv, Unserved, Timers, SkewInv, Remote, request, own, agent, command, extending
<1>20. ASSUME NEW i \in Jobs, AgentUnsupported(i) PROVE SkewInv(j)'
  BY <1>20, StackConstants, OneMore DEF AgentUnsupported, TypeOK, ExtendKinds, JobInv, Unserved, Timers, SkewInv, Remote, request, own, agent, command, extending
<1>21. ASSUME NEW i \in Jobs, AgentSync(i) PROVE SkewInv(j)'
  BY <1>21, StackConstants, OneMore DEF AgentSync, RunCompose, TypeOK, ExtendKinds, JobInv, Unserved, Timers, SkewInv, Remote, request, own, agent, command, extending
<1>22. ASSUME NEW i \in Jobs, AgentStopsDeadline(i) PROVE SkewInv(j)'
  BY <1>22, StackConstants, OneMore DEF AgentStopsDeadline, TypeOK, ExtendKinds, JobInv, Unserved, Timers, SkewInv, Remote, request, own, agent, command, extending
<1>23. ASSUME NEW i \in Jobs, AgentFinishes(i) PROVE SkewInv(j)'
  BY <1>23, StackConstants, OneMore DEF AgentFinishes, TypeOK, ExtendKinds, JobInv, Unserved, Timers, SkewInv, Remote, request, own, agent, command, extending
<1>24. ASSUME NEW i \in Jobs, AgentTimerFires(i) PROVE SkewInv(j)'
  BY <1>24, StackConstants, OneMore DEF AgentTimerFires, Due, TypeOK, ExtendKinds, JobInv, Unserved, Timers, SkewInv, Remote, request, own, agent, command, extending
<1>25. ASSUME NEW i \in Jobs, NEW c \in {"ok", "failed"}, AgentSyncEnds(i, c) PROVE SkewInv(j)'
  BY <1>25, StackConstants, OneMore DEF AgentSyncEnds, Verdict, TypeOK, ExtendKinds, JobInv, Unserved, Timers, SkewInv, Remote, request, own, agent, command, extending
<1>26. ASSUME NEW i \in Jobs, NEW c \in {"ok", "failed"}, AgentComposeEnds(i, c) PROVE SkewInv(j)'
  BY <1>26, StackConstants, OneMore DEF AgentComposeEnds, Verdict, TypeOK, ExtendKinds, JobInv, Unserved, Timers, SkewInv, Remote, request, own, agent, command, extending
<1>27. ASSUME NEW e \in Extends, NEW i \in Jobs, ExtendRequest(e, i) PROVE SkewInv(j)'
  BY <1>27, StackConstants, OneMore DEF ExtendRequest, TypeOK, ExtendKinds, JobInv, Unserved, Timers, SkewInv, Remote, request, own, agent, command, extending
<1>28. ASSUME NEW e \in Extends, ExtendAgent(e) PROVE SkewInv(j)'
  BY <1>28, StackConstants, OneMore DEF ExtendAgent, EndExtend, TypeOK, ExtendKinds, JobInv, Unserved, Timers, SkewInv, Remote, request, own, agent, command, extending
<1>29. ASSUME NEW e \in Extends, ExtendFails(e) PROVE SkewInv(j)'
  BY <1>29, StackConstants, OneMore DEF ExtendFails, EndExtend, TypeOK, ExtendKinds, JobInv, Unserved, Timers, SkewInv, Remote, request, own, agent, command, extending
<1>30. ASSUME NEW e \in Extends, ExtendOwn(e) PROVE SkewInv(j)'
  <2>1. ejob[e] \in Jobs
    BY <1>30 DEF ExtendOwn, ExtendKinds
  <2>2. CASE ejob[e] = j /\ timer[j] = "armed"
    <3>1. /\ left'[j] = left[j] + Extension
          /\ cx'[j] * Extension = cx[j] * Extension + Extension /\ cx[j] * Extension \in Nat
      BY <1>30, <2>2, OneMore DEF ExtendOwn, TypeOK
    <3>2. /\ UNCHANGED <<task, pc, timer, wait, net, apc, atimer, aleft, ax>>
          /\ pc[j] # "none" /\ left[j] \in Nat /\ aleft[j] \in Nat /\ wait[j] \in Nat
          /\ ax[j] * Extension \in Nat
      BY <1>30, <2>2, OneMore, StackConstants DEF ExtendOwn, TypeOK, JobInv, Timers, request, agent
    <3>3. pc[j] = "begin" /\ timer[j] = "armed" /\ Remote(j) =>
             left'[j] = Budget + Grace + cx'[j] * Extension
      <4>1. pc[j] = "begin" /\ timer[j] = "armed" /\ Remote(j) =>
               left[j] = Budget + Grace + cx[j] * Extension
        BY DEF SkewInv
      <4> QED
        BY <3>1, <3>2, <4>1, StackConstants
    <3>4. pc[j] = "start" /\ timer[j] = "armed" =>
             left'[j] + StartTimeout = Budget + Grace + cx'[j] * Extension + wait[j]
      <4>1. pc[j] = "start" /\ timer[j] = "armed" =>
               left[j] + StartTimeout = Budget + Grace + cx[j] * Extension + wait[j]
        BY DEF SkewInv
      <4> QED
        BY <3>1, <3>2, <4>1, StackConstants
    <3>5. net[j] = "accepted" /\ pc[j] \in {"start", "poll"} /\ timer[j] = "armed" /\ atimer[j] = "armed" =>
             aleft[j] + Grace + cx'[j] * Extension <= left'[j] + StartTimeout + ax[j] * Extension
      <4>1. net[j] = "accepted" /\ pc[j] \in {"start", "poll"} /\ timer[j] = "armed" /\ atimer[j] = "armed" =>
               aleft[j] + Grace + cx[j] * Extension <= left[j] + StartTimeout + ax[j] * Extension
        BY DEF SkewInv
      <4> QED
        BY <3>1, <3>2, <4>1, StackConstants
    <3> QED
      BY <3>2, <3>3, <3>4, <3>5 DEF SkewInv, Remote
  <2>3. CASE ~(ejob[e] = j /\ timer[j] = "armed")
    <3>1. left'[j] = left[j] /\ cx'[j] = cx[j]
      BY <1>30, <2>1, <2>3 DEF ExtendOwn, TypeOK
    <3> QED
      BY <1>30, <3>1 DEF ExtendOwn, SkewInv, Remote, request, agent
  <2> QED
    BY <2>2, <2>3
<1>31. ASSUME Tick PROVE SkewInv(j)'
  BY <1>31, StackConstants, OneMore DEF Tick, Due, LessLeft, TypeOK, ExtendKinds, JobInv, Unserved, Timers, SkewInv, Remote, request, own, agent, command, extending
<1>32. ASSUME AgentRestart PROVE SkewInv(j)'
  BY <1>32, StackConstants, OneMore DEF AgentRestart, Killed, TypeOK, ExtendKinds, JobInv, Unserved, Timers, SkewInv, Remote, request, own, agent, command, extending
<1>33. ASSUME ControllerRestart PROVE SkewInv(j)'
  BY <1>33, StackConstants, OneMore DEF ControllerRestart, Killed, TypeOK, ExtendKinds, JobInv, Unserved, Timers, SkewInv, Remote, request, own, agent, command, extending
<1>34. ASSUME UNCHANGED vars PROVE SkewInv(j)'
  BY <1>34 DEF TypeOK, ExtendKinds, JobInv, Unserved, Timers, SkewInv, Remote, vars, request, own, agent, command, extending
<1>35. ASSUME NEW i \in Jobs, NEW expired \in SUBSET Jobs, StartConflict(i, expired) PROVE SkewInv(j)'
  BY <1>35, StackConstants, OneMore DEF StartConflict, Busy, Finished, TypeOK, ExtendKinds, JobInv, Unserved, Timers, SkewInv, Remote, request, own, agent, command, extending
<1> QED
  BY <1>1, <1>2, <1>3, <1>4, <1>5, <1>6, <1>7, <1>8, <1>9, <1>10, <1>11, <1>12, <1>13, <1>14, <1>15, <1>16, <1>17, <1>18, <1>19, <1>20, <1>21, <1>22, <1>23, <1>24, <1>25, <1>26, <1>27, <1>28, <1>29, <1>30, <1>31, <1>32, <1>33, <1>34, <1>35 DEF Next, ControllerStep, AnswerStep, CommandStep, AgentStep, AgentCommandStep

(* The distance of the two deadlines is bounded in every reachable state, for *)
(* any budget, grace, timeout and extension.                                  *)
THEOREM SkewCorrect == Spec => []DeadlineSkew
<1> DEFINE Both == IndInv /\ \A j \in Jobs : SkewInv(j)
<1>1. Init => Both
  BY InitInv DEF Init, SkewInv
<1>2. Both /\ [Next]_vars => Both'
  <2> SUFFICES ASSUME Both, [Next]_vars PROVE Both'
    OBVIOUS
  <2>1. IndInv'
    BY TypeStep, ExtendKindsStep, JobStep, FilesStep DEF IndInv
  <2>2. \A j \in Jobs : SkewInv(j)'
    BY SkewStep DEF IndInv
  <2> QED
    BY <2>1, <2>2
<1>3. Both => DeadlineSkew
  BY DEF IndInv, SkewInv, DeadlineSkew, Together
<1> QED
  BY <1>1, <1>2, <1>3, PTL DEF Spec

=============================================================================
