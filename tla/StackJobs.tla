------------------------------ MODULE StackJobs ------------------------------
(***************************************************************************)
(* Stack jobs of internal/server/stack_jobs.go: a controller runs docker   *)
(* compose actions in the background, on its own host or by starting a job *)
(* on an agent and polling it.  Both sides run the same stackJobManager    *)
(* with a deadline per job that the user may extend.  A controller job     *)
(* starts at most one agent job, so both carry the same name here.         *)
(*                                                                         *)
(* Time passes in ticks and a timer is due when nothing is left of it; a   *)
(* tick waits for the timers that are due, and for a new job to read its   *)
(* files.  Calls to the agent may be lost, delivered late, or lose their   *)
(* answer; both sides may restart.                                         *)
(***************************************************************************)
EXTENDS Naturals, FiniteSets

CONSTANTS
    Jobs,         \* POST /api/stacks/jobs requests to the controller
    LocalStacks,  \* stacks of the controller's own host
    RemoteStacks, \* stacks of the agent's host
    Extends,      \* POST /api/stacks/jobs/extend requests in flight
    NoJob,        \* an extend request that is not being served
    Budget,       \* stackActionBudget, in ticks
    Grace,        \* remoteStackActionGraceDuration
    StartTimeout, \* stackJobStartTimeout
    Extension,    \* stackJobExtension
    MaxExtends,   \* bound on extend requests
    MaxRestarts   \* bound on restarts of either side

Stacks == LocalStacks \cup RemoteStacks

(* What a request asks for: its stack, whether the action is rm, and whether *)
(* the agent it meets is too old to have the job API.                        *)
Tasks == [stack : Stacks, rm : BOOLEAN, old : BOOLEAN]

ASSUME StackConstants ==
    /\ LocalStacks \cap RemoteStacks = {}
    /\ NoJob \notin Jobs
    /\ Budget \in Nat /\ Grace \in Nat /\ StartTimeout \in Nat /\ Extension \in Nat
    /\ MaxExtends \in Nat /\ MaxRestarts \in Nat

VARIABLES
    task,       \* what each request asks for
    stored,     \* stacks whose files are on the controller's disk
    status,     \* stackJob.status on the controller
    pc, result, \* where the job's goroutine is and what run returned
    timer, left,\* extendableDeadline: the timer and the ticks until the deadline
    wait,       \* ticks until the start request times out
    extendable, extender, \* jobs with stackJob.extendable, with extendRemote set
    net,        \* the start request and its answer
    astatus, apc, aresult, atimer, aleft, \* the same on the agent
    compose,    \* the docker compose command of the job
    runs,       \* how often it was run
    epc, ejob,  \* the extend requests
    cx, ax,     \* extensions of the controller's and of the agent's deadline
    extends, restarts

request == <<task, stored>>
own == <<status, pc, result, timer, left, wait, extendable, extender>>
agent == <<astatus, apc, aresult, atimer, aleft>>
command == <<compose, runs>>
extending == <<epc, ejob, cx, ax, extends>>
vars == <<request, own, net, agent, command, extending, restarts>>

Status == {"none", "running", "succeeded", "failed", "gone"}
Answer == {"none", "ok", "err"}
Timer == {"off", "armed", "fired"}
Net == {"none", "sent", "accepted", "refused", "unsupported", "sync", "working", "ok", "err"}

TypeOK ==
    /\ task \in [Jobs -> Tasks] /\ stored \in SUBSET Stacks
    /\ status \in [Jobs -> Status]
    /\ pc \in [Jobs -> {"none", "begin", "start", "poll", "sync", "compose", "stop", "finish", "end"}]
    /\ result \in [Jobs -> Answer] /\ timer \in [Jobs -> Timer]
    /\ left \in [Jobs -> Nat] /\ wait \in [Jobs -> 0..StartTimeout]
    /\ extendable \in SUBSET Jobs /\ extender \in SUBSET Jobs
    /\ net \in [Jobs -> Net]
    /\ astatus \in [Jobs -> Status] /\ apc \in [Jobs -> {"none", "compose", "sync", "stop", "finish"}]
    /\ aresult \in [Jobs -> Answer] /\ atimer \in [Jobs -> Timer] /\ aleft \in [Jobs -> Nat]
    /\ compose \in [Jobs -> {"no", "running", "ok", "failed"}] /\ runs \in [Jobs -> Nat]
    /\ epc \in [Extends -> {"idle", "agent", "own"}] /\ ejob \in [Extends -> Jobs \cup {NoJob}]
    /\ cx \in [Jobs -> Nat] /\ ax \in [Jobs -> Nat]
    /\ extends \in 0..MaxExtends /\ restarts \in 0..MaxRestarts

Init ==
    /\ task \in [Jobs -> Tasks] /\ stored = Stacks
    /\ status = [j \in Jobs |-> "none"] /\ pc = [j \in Jobs |-> "none"]
    /\ result = [j \in Jobs |-> "none"] /\ timer = [j \in Jobs |-> "off"]
    /\ left = [j \in Jobs |-> 0] /\ wait = [j \in Jobs |-> 0]
    /\ extendable = {} /\ extender = {}
    /\ net = [j \in Jobs |-> "none"]
    /\ astatus = [j \in Jobs |-> "none"] /\ apc = [j \in Jobs |-> "none"]
    /\ aresult = [j \in Jobs |-> "none"] /\ atimer = [j \in Jobs |-> "off"]
    /\ aleft = [j \in Jobs |-> 0]
    /\ compose = [j \in Jobs |-> "no"] /\ runs = [j \in Jobs |-> 0]
    /\ epc = [e \in Extends |-> "idle"] /\ ejob = [e \in Extends |-> NoJob]
    /\ cx = [j \in Jobs |-> 0] /\ ax = [j \in Jobs |-> 0]
    /\ extends = 0 /\ restarts = 0

Remote(j) == task[j].stack \in RemoteStacks
Finished(st) == {j \in Jobs : st[j] \in {"succeeded", "failed"}}
Busy(st, j) == \E i \in Jobs : st[i] = "running" /\ task[i].stack = task[j].stack

Goto(j, label) == pc' = [pc EXCEPT ![j] = label]
RunCompose(j) ==
    /\ compose' = [compose EXCEPT ![j] = "running"]
    /\ runs' = [runs EXCEPT ![j] = @ + 1]

-----------------------------------------------------------------------------
(* stackJobManager.start and the job's goroutine on the controller *)

(* Mutant: the deadline of a job on an agent has no grace. *)
StartJobNoGrace(j, expired) ==
    /\ status[j] = "none"
    /\ ~Busy(status, j)
    /\ expired \subseteq Finished(status)
    /\ status' = [i \in Jobs |-> IF i = j THEN "running"
                                 ELSE IF i \in expired THEN "gone" ELSE status[i]]
    /\ timer' = [timer EXCEPT ![j] = "armed"]
    /\ left' = [left EXCEPT ![j] = Budget]
    /\ extendable' = extendable \cup {j}
    /\ Goto(j, "begin")
    /\ UNCHANGED <<request, result, wait, extender, net, agent, command, extending, restarts>>

(* A stack with a running job answers 409.  Finished jobs that are older    *)
(* than the retention are dropped on the way.                               *)
StartJob(j, expired) ==
    /\ status[j] = "none"
    /\ ~Busy(status, j)
    /\ expired \subseteq Finished(status)
    /\ status' = [i \in Jobs |-> IF i = j THEN "running"
                                 ELSE IF i \in expired THEN "gone" ELSE status[i]]
    /\ timer' = [timer EXCEPT ![j] = "armed"]
    /\ left' = [left EXCEPT ![j] = IF Remote(j) THEN Budget + Grace ELSE Budget]
    /\ extendable' = extendable \cup {j}
    /\ Goto(j, "begin")
    /\ UNCHANGED <<request, result, wait, extender, net, agent, command, extending, restarts>>

(* The 409 itself: finished jobs are dropped before the stack is found to   *)
(* be busy.                                                                 *)
StartConflict(j, expired) ==
    /\ status[j] = "none"
    /\ Busy(status, j)
    /\ expired \subseteq Finished(status)
    /\ status' = [i \in Jobs |-> IF i \in expired THEN "gone" ELSE status[i]]
    /\ UNCHANGED <<request, pc, result, timer, left, wait, extendable, extender,
                   net, agent, command, extending, restarts>>

(* Mutant: an rm job removes the files whatever the command returned.       *)
RunReturnsAlwaysRemoves(j, r) ==
    /\ result' = [result EXCEPT ![j] = r]
    /\ \/ task[j].rm /\ stored' = stored \ {task[j].stack}
       \/ UNCHANGED stored
    /\ Goto(j, "stop")
    /\ UNCHANGED <<task, status, timer, left, wait, extendable, extender>>

(* executeStackAction returns: a successful rm also removes the stored      *)
(* files; that failing is only logged.                                      *)
RunReturns(j, r) ==
    /\ result' = [result EXCEPT ![j] = r]
    /\ \/ r = "ok" /\ task[j].rm /\ stored' = stored \ {task[j].stack}
       \/ UNCHANGED stored
    /\ Goto(j, "stop")
    /\ UNCHANGED <<task, status, timer, left, wait, extendable, extender>>

(* The stored files, the server or its address cannot be read. *)
BeginFails(j) ==
    /\ pc[j] = "begin"
    /\ RunReturns(j, "err")
    /\ UNCHANGED <<net, agent, command, extending, restarts>>

BeginLocal(j) ==
    /\ pc[j] = "begin" /\ ~Remote(j) /\ task[j].stack \in stored
    /\ RunCompose(j)
    /\ Goto(j, "compose")
    /\ UNCHANGED <<request, status, result, timer, left, wait, extendable, extender,
                   net, agent, extending, restarts>>

(* What a compose command that ended with c means for a job whose timer is t: *)
(* a job that has timed out fails, even if the command went through.          *)
Verdict(t, c) == IF t = "fired" \/ c = "failed" THEN "err" ELSE "ok"

ComposeEnds(j, c) ==
    /\ pc[j] = "compose"
    /\ compose' = [compose EXCEPT ![j] = c]
    /\ RunReturns(j, Verdict(timer[j], c))
    /\ UNCHANGED <<runs, net, agent, extending, restarts>>

StopDeadline(j) ==
    /\ pc[j] = "stop"
    /\ timer' = [timer EXCEPT ![j] = "off"]
    /\ Goto(j, "finish")
    /\ UNCHANGED <<request, status, result, left, wait, extendable, extender,
                   net, agent, command, extending, restarts>>

(* Mutant: the error of run is not looked at. *)
FinishIgnoresError(j) ==
    /\ pc[j] = "finish"
    /\ status' = [status EXCEPT ![j] = "succeeded"]
    /\ Goto(j, "end")
    /\ UNCHANGED <<request, result, timer, left, wait, extendable, extender,
                   net, agent, command, extending, restarts>>

Finish(j) ==
    /\ pc[j] = "finish"
    /\ status' = [status EXCEPT ![j] = IF result[j] = "ok" THEN "succeeded" ELSE "failed"]
    /\ Goto(j, "end")
    /\ UNCHANGED <<request, result, timer, left, wait, extendable, extender,
                   net, agent, command, extending, restarts>>

-----------------------------------------------------------------------------
(* runRemoteStackJob *)

BeginRemote(j) ==
    /\ pc[j] = "begin" /\ Remote(j) /\ task[j].stack \in stored
    /\ net' = [net EXCEPT ![j] = "sent"]
    /\ wait' = [wait EXCEPT ![j] = StartTimeout]
    /\ Goto(j, "start")
    /\ UNCHANGED <<request, status, result, timer, left, extendable, extender,
                   agent, command, extending, restarts>>

StartAccepted(j) ==
    /\ pc[j] = "start" /\ net[j] = "accepted"
    /\ extender' = extender \cup {j}
    /\ Goto(j, "poll")
    /\ UNCHANGED <<request, status, result, timer, left, wait, extendable,
                   net, agent, command, extending, restarts>>

StartRefused(j) ==
    /\ pc[j] = "start" /\ net[j] = "refused"
    /\ RunReturns(j, "err")
    /\ UNCHANGED <<net, agent, command, extending, restarts>>

(* An agent without the job API: the synchronous endpoint is used. *)
StartUnsupported(j) ==
    /\ pc[j] = "start" /\ net[j] = "unsupported"
    /\ extendable' = extendable \ {j}
    /\ net' = [net EXCEPT ![j] = "sync"]
    /\ Goto(j, "sync")
    /\ UNCHANGED <<request, status, result, timer, left, wait, extender,
                   agent, command, extending, restarts>>

(* Mutant: any failed start falls back to the synchronous endpoint. *)
StartFailsRetries(j) ==
    /\ pc[j] = "start"
    /\ net' = [net EXCEPT ![j] = "sync"]
    /\ Goto(j, "sync")
    /\ UNCHANGED <<request, status, result, timer, left, wait, extendable, extender,
                   agent, command, extending, restarts>>

(* The call failed, or its answer was lost. *)
StartFails(j) ==
    /\ pc[j] = "start"
    /\ RunReturns(j, "err")
    /\ UNCHANGED <<net, agent, command, extending, restarts>>

StartTimesOut(j) == (wait[j] = 0 \/ timer[j] = "fired") /\ StartFails(j)

(* The agent reports the end of the job, or that it does not know the job;  *)
(* a call that fails, or a job that is running, means another poll.         *)
PollAnswered(j) ==
    /\ pc[j] = "poll" /\ astatus[j] # "running"
    /\ RunReturns(j, IF astatus[j] = "succeeded" THEN "ok" ELSE "err")
    /\ UNCHANGED <<net, agent, command, extending, restarts>>

(* Mutant: the deadline is only looked at after a poll that was answered. *)
WaitTimesOutAfterAnswer(j) ==
    /\ pc[j] \in {"poll", "sync"} /\ timer[j] = "fired"
    /\ astatus[j] = "running"
    /\ RunReturns(j, "err")
    /\ UNCHANGED <<net, agent, command, extending, restarts>>

WaitTimesOut(j) ==
    /\ pc[j] \in {"poll", "sync"} /\ timer[j] = "fired"
    /\ RunReturns(j, "err")
    /\ UNCHANGED <<net, agent, command, extending, restarts>>

(* postRemoteStackAction *)
SyncAnswered(j) ==
    /\ pc[j] = "sync" /\ net[j] \in {"ok", "err"}
    /\ RunReturns(j, net[j])
    /\ UNCHANGED <<net, agent, command, extending, restarts>>

SyncFails(j) ==
    /\ pc[j] = "sync"
    /\ RunReturns(j, "err")
    /\ UNCHANGED <<net, agent, command, extending, restarts>>

-----------------------------------------------------------------------------
(* The agent: the same manager, with the compose command as the job *)

AgentAccepts(j, expired) ==
    /\ net[j] = "sent" /\ ~task[j].old /\ ~Busy(astatus, j)
    /\ expired \subseteq Finished(astatus)
    /\ astatus' = [i \in Jobs |-> IF i = j THEN "running"
                                  ELSE IF i \in expired THEN "gone" ELSE astatus[i]]
    /\ atimer' = [atimer EXCEPT ![j] = "armed"]
    /\ aleft' = [aleft EXCEPT ![j] = Budget]
    /\ apc' = [apc EXCEPT ![j] = "compose"]
    /\ RunCompose(j)
    /\ net' = [net EXCEPT ![j] = "accepted"]
    /\ UNCHANGED <<request, own, aresult, extending, restarts>>

AgentRefuses(j, expired) ==
    /\ net[j] = "sent" /\ ~task[j].old /\ Busy(astatus, j)
    /\ expired \subseteq Finished(astatus)
    /\ astatus' = [i \in Jobs |-> IF i \in expired THEN "gone" ELSE astatus[i]]
    /\ net' = [net EXCEPT ![j] = "refused"]
    /\ UNCHANGED <<request, own, apc, aresult, atimer, aleft, command, extending, restarts>>

AgentUnsupported(j) ==
    /\ net[j] = "sent" /\ task[j].old
    /\ net' = [net EXCEPT ![j] = "unsupported"]
    /\ UNCHANGED <<request, own, agent, command, extending, restarts>>

(* handleStackAction: no job, and a deadline that cannot be moved. *)
AgentSync(j) ==
    /\ net[j] = "sync"
    /\ RunCompose(j)
    /\ atimer' = [atimer EXCEPT ![j] = "armed"]
    /\ aleft' = [aleft EXCEPT ![j] = Budget]
    /\ apc' = [apc EXCEPT ![j] = "sync"]
    /\ net' = [net EXCEPT ![j] = "working"]
    /\ UNCHANGED <<request, own, astatus, aresult, extending, restarts>>

AgentSyncEnds(j, c) ==
    /\ apc[j] = "sync"
    /\ compose' = [compose EXCEPT ![j] = c]
    /\ net' = [net EXCEPT ![j] = Verdict(atimer[j], c)]
    /\ atimer' = [atimer EXCEPT ![j] = "off"]
    /\ apc' = [apc EXCEPT ![j] = "none"]
    /\ UNCHANGED <<request, own, astatus, aresult, aleft, runs, extending, restarts>>

AgentComposeEnds(j, c) ==
    /\ apc[j] = "compose"
    /\ compose' = [compose EXCEPT ![j] = c]
    /\ aresult' = [aresult EXCEPT ![j] = Verdict(atimer[j], c)]
    /\ apc' = [apc EXCEPT ![j] = "stop"]
    /\ UNCHANGED <<request, own, net, astatus, atimer, aleft, runs, extending, restarts>>

AgentStopsDeadline(j) ==
    /\ apc[j] = "stop"
    /\ atimer' = [atimer EXCEPT ![j] = "off"]
    /\ apc' = [apc EXCEPT ![j] = "finish"]
    /\ UNCHANGED <<request, own, net, astatus, aresult, aleft, command, extending, restarts>>

AgentFinishes(j) ==
    /\ apc[j] = "finish"
    /\ astatus' = [astatus EXCEPT ![j] = IF aresult[j] = "ok" THEN "succeeded" ELSE "failed"]
    /\ apc' = [apc EXCEPT ![j] = "none"]
    /\ UNCHANGED <<request, own, net, aresult, atimer, aleft, command, extending, restarts>>

-----------------------------------------------------------------------------
(* stackJob.extend *)

(* The job is looked at once; a finished or fixed one answers 409. *)
ExtendRequest(e, j) ==
    /\ epc[e] = "idle" /\ extends < MaxExtends
    /\ status[j] = "running" /\ j \in extendable
    /\ epc' = [epc EXCEPT ![e] = IF j \in extender THEN "agent" ELSE "own"]
    /\ ejob' = [ejob EXCEPT ![e] = j]
    /\ extends' = extends + 1
    /\ UNCHANGED <<request, own, net, agent, command, cx, ax, restarts>>

EndExtend(e) ==
    /\ epc' = [epc EXCEPT ![e] = "idle"]
    /\ ejob' = [ejob EXCEPT ![e] = NoJob]

(* The agent extends its own deadline; its answer arrives or is lost. *)
ExtendAgent(e) ==
    /\ epc[e] = "agent" /\ atimer[ejob[e]] = "armed" /\ astatus[ejob[e]] = "running"
    /\ aleft' = [aleft EXCEPT ![ejob[e]] = @ + Extension]
    /\ ax' = [ax EXCEPT ![ejob[e]] = @ + 1]
    /\ \/ epc' = [epc EXCEPT ![e] = "own"] /\ UNCHANGED ejob
       \/ EndExtend(e)
    /\ UNCHANGED <<request, own, net, astatus, apc, aresult, atimer, command,
                   cx, extends, restarts>>

(* The agent refuses, or the call does not reach it: 502. *)
ExtendFails(e) ==
    /\ epc[e] = "agent"
    /\ EndExtend(e)
    /\ UNCHANGED <<request, own, net, agent, command, cx, ax, extends, restarts>>

(* Mutant: the deadline is moved without asking the timer whether it still runs. *)
ExtendOwnAlways(e) ==
    /\ epc[e] = "own"
    /\ timer' = [timer EXCEPT ![ejob[e]] = "armed"]
    /\ left' = [left EXCEPT ![ejob[e]] = @ + Extension]
    /\ cx' = [cx EXCEPT ![ejob[e]] = @ + 1]
    /\ EndExtend(e)
    /\ UNCHANGED <<request, status, pc, result, wait, extendable, extender,
                   net, agent, command, ax, extends, restarts>>

(* extendableDeadline.Extend: a timer that has fired or was stopped stays so. *)
ExtendOwn(e) ==
    /\ epc[e] = "own"
    /\ IF timer[ejob[e]] = "armed"
       THEN /\ left' = [left EXCEPT ![ejob[e]] = @ + Extension]
            /\ cx' = [cx EXCEPT ![ejob[e]] = @ + 1]
       ELSE UNCHANGED <<left, cx>>
    /\ EndExtend(e)
    /\ UNCHANGED <<request, status, pc, result, timer, wait, extendable, extender,
                   net, agent, command, ax, extends, restarts>>

-----------------------------------------------------------------------------
(* Time *)

Due(t, l) == {j \in Jobs : t[j] = "armed" /\ l[j] = 0}
LessLeft(t, l) == [j \in Jobs |-> IF t[j] = "armed" THEN l[j] - 1 ELSE l[j]]

Tick ==
    /\ \E j \in Jobs : timer[j] = "armed" \/ atimer[j] = "armed"
    /\ Due(timer, left) = {} /\ Due(atimer, aleft) = {}
    /\ \A j \in Jobs : pc[j] # "begin" /\ (pc[j] = "start" => wait[j] > 0)
    /\ left' = LessLeft(timer, left)
    /\ aleft' = LessLeft(atimer, aleft)
    /\ wait' = [j \in Jobs |-> IF pc[j] = "start" THEN wait[j] - 1 ELSE wait[j]]
    /\ UNCHANGED <<request, status, pc, result, timer, extendable, extender, net,
                   astatus, apc, aresult, atimer, command, extending, restarts>>

TimerFires(j) ==
    /\ j \in Due(timer, left)
    /\ timer' = [timer EXCEPT ![j] = "fired"]
    /\ UNCHANGED <<request, status, pc, result, left, wait, extendable, extender,
                   net, agent, command, extending, restarts>>

AgentTimerFires(j) ==
    /\ j \in Due(atimer, aleft)
    /\ atimer' = [atimer EXCEPT ![j] = "fired"]
    /\ UNCHANGED <<request, own, net, astatus, apc, aresult, aleft, command, extending, restarts>>

-----------------------------------------------------------------------------
(* Restarts: the jobs are only in memory, and the compose commands are      *)
(* children of the process.                                                 *)

Killed(S) == [j \in Jobs |-> IF j \in S THEN "failed" ELSE compose[j]]

AgentRestart ==
    /\ restarts < MaxRestarts
    /\ restarts' = restarts + 1
    /\ compose' = Killed({j \in Jobs : apc[j] \in {"compose", "sync"}})
    /\ astatus' = [j \in Jobs |-> IF astatus[j] = "none" THEN "none" ELSE "gone"]
    /\ apc' = [j \in Jobs |-> "none"]
    /\ atimer' = [j \in Jobs |-> "off"]
    /\ UNCHANGED <<request, own, net, aresult, aleft, runs, extending>>

ControllerRestart ==
    /\ restarts < MaxRestarts
    /\ restarts' = restarts + 1
    /\ compose' = Killed({j \in Jobs : pc[j] = "compose"})
    /\ status' = [j \in Jobs |-> IF status[j] = "none" THEN "none" ELSE "gone"]
    /\ pc' = [j \in Jobs |-> IF pc[j] = "none" THEN "none" ELSE "end"]
    /\ timer' = [j \in Jobs |-> "off"]
    /\ epc' = [e \in Extends |-> "idle"] /\ ejob' = [e \in Extends |-> NoJob]
    /\ UNCHANGED <<request, result, left, wait, extendable, extender, net, agent, runs,
                   cx, ax, extends>>

-----------------------------------------------------------------------------
(* What the controller does by itself, whatever the agent does. *)
ControllerStep(j) ==
    \/ BeginFails(j) \/ BeginLocal(j) \/ BeginRemote(j)
    \/ StartTimesOut(j) \/ WaitTimesOut(j)
    \/ StopDeadline(j) \/ Finish(j) \/ TimerFires(j)

(* What the network brings it. *)
AnswerStep(j) ==
    \/ StartAccepted(j) \/ StartRefused(j) \/ StartUnsupported(j) \/ StartFails(j)
    \/ PollAnswered(j) \/ SyncAnswered(j) \/ SyncFails(j)

CommandStep(j) == \E c \in {"ok", "failed"} : ComposeEnds(j, c)

AgentCommandStep(j) == \E c \in {"ok", "failed"} : AgentSyncEnds(j, c) \/ AgentComposeEnds(j, c)

AgentStep(j) ==
    \/ \E expired \in SUBSET Jobs : AgentAccepts(j, expired) \/ AgentRefuses(j, expired)
    \/ AgentUnsupported(j) \/ AgentSync(j)
    \/ AgentStopsDeadline(j) \/ AgentFinishes(j) \/ AgentTimerFires(j)

Next ==
    \/ \E j \in Jobs : \/ \E expired \in SUBSET Jobs : StartJob(j, expired) \/ StartConflict(j, expired)
                       \/ ControllerStep(j) \/ AnswerStep(j) \/ CommandStep(j)
                       \/ AgentStep(j) \/ AgentCommandStep(j)
    \/ \E e \in Extends : \/ \E j \in Jobs : ExtendRequest(e, j)
                          \/ ExtendAgent(e) \/ ExtendFails(e) \/ ExtendOwn(e)
    \/ Tick \/ AgentRestart \/ ControllerRestart

Spec == Init /\ [][Next]_vars

(* The controller's goroutines run, time passes, timers go off, a command   *)
(* whose context was cancelled ends.  Nothing is assumed of the network or  *)
(* of a request to the agent, and no command has to end by itself.          *)
FairSpec ==
    /\ Spec
    /\ WF_vars(Tick)
    /\ \A j \in Jobs : /\ WF_vars(ControllerStep(j))
                       /\ WF_vars(timer[j] = "fired" /\ CommandStep(j))
                       /\ WF_vars(AgentTimerFires(j))

-----------------------------------------------------------------------------
(* Properties *)

(* A job is reported as succeeded only if its own compose command ended     *)
(* well: not when the agent restarted, dropped the job, or ran out of time. *)
SucceededMeansRan == \A j \in Jobs : status[j] = "succeeded" => compose[j] = "ok"

(* A request never runs docker compose twice, whatever call or answer was   *)
(* lost and whichever endpoint of the agent was used.                       *)
AtMostOnce == \A j \in Jobs : runs[j] <= 1

(* The stored files of a stack disappear only after an rm command for that  *)
(* stack has ended well.                                                    *)
FilesKept ==
    \A s \in Stacks \ stored :
        \E j \in Jobs : task[j].stack = s /\ task[j].rm /\ compose[j] = "ok"

(* An extension that races with the end of a job arms no timer for a job    *)
(* that is over.                                                            *)
NoTimerLeftBehind ==
    \A j \in Jobs : /\ status[j] \in {"succeeded", "failed"} => timer[j] = "off"
                    /\ astatus[j] \in {"succeeded", "failed"} => atimer[j] = "off"

Together(j) == pc[j] = "poll" /\ timer[j] = "armed" /\ atimer[j] = "armed"

(* How far the deadline of the agent can lie behind that of the controller: *)
(* by what the start request took beyond the grace, and by the extensions   *)
(* that reached only the agent (or, negatively, only the controller).       *)
DeadlineSkew ==
    \A j \in Jobs : Together(j) =>
        aleft[j] + Grace + cx[j] * Extension <= left[j] + StartTimeout + ax[j] * Extension

(* Both sides run the same manager, for the same commands. *)
ControllerJobs == INSTANCE JobLifecycle WITH stack <- [j \in Jobs |-> task[j].stack], command <- compose
AgentJobs == INSTANCE JobLifecycle WITH
    stack <- [j \in Jobs |-> task[j].stack], status <- astatus, command <- compose

(* What the controller says of a job follows the life of a job: one job per *)
(* stack at a time, one end that stays, success only after the command has  *)
(* run, once, to a good end, although the command may run on an agent whose *)
(* answers are lost or late and which may restart.  So does what the agent  *)
(* says, although a start request may reach it after the controller has     *)
(* given up and the synchronous endpoint runs commands beside its jobs.     *)
JobsAreManaged == ControllerJobs!Spec /\ AgentJobs!Spec

(* Every job comes to an end, even if the agent never answers again.        *)
JobsFinish == \A j \in Jobs : status[j] = "running" ~> status[j] # "running"

=============================================================================
