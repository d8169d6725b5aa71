---------------------------- MODULE JobLifecycle ----------------------------
(***************************************************************************)
(* What a stackJobManager (internal/server/stack_jobs.go) promises to      *)
(* whoever asks it for the state of a job: the job runs alone on its       *)
(* stack, ends once, and is never reported as anything but what it ended   *)
(* as; only the manager may forget it.  The docker compose command of a    *)
(* job is started at most once, and a job ends well only if its command    *)
(* has.                                                                    *)
(***************************************************************************)
CONSTANT Jobs

VARIABLES
    stack,    \* the stack of each job
    status,   \* stackJob.status; "none" before the job, "gone" when it was forgotten
    command   \* the docker compose command of each job

vars == <<stack, status, command>>

Init ==
    /\ status = [j \in Jobs |-> "none"]
    /\ command = [j \in Jobs |-> "no"]

Over == {j \in Jobs : status[j] \in {"succeeded", "failed"}}

(* Jobs that are over are forgotten some time later. *)
Prune(old) == [i \in Jobs |-> IF i \in old THEN "gone" ELSE status[i]]

Start(j) ==
    /\ status[j] = "none"
    /\ \A i \in Jobs : status[i] = "running" => stack[i] # stack[j]
    /\ \E old \in SUBSET Over : status' = [Prune(old) EXCEPT ![j] = "running"]

(* The stack is busy. *)
Conflict == \E old \in SUBSET Over : status' = Prune(old)

Finish(j) ==
    /\ status[j] = "running"
    /\ \/ command[j] = "ok" /\ status' = [status EXCEPT ![j] = "succeeded"]
       \/ status' = [status EXCEPT ![j] = "failed"]

Restart == status' = [j \in Jobs |-> IF status[j] = "none" THEN "none" ELSE "gone"]

(* A command is started once and ends once, also by being killed. *)
Later(c) ==
    CASE c = "no" -> {"no", "running"}
      [] c = "running" -> {"running", "ok", "failed"}
      [] OTHER -> {c}

Manager == (\E j \in Jobs : Start(j) \/ Finish(j)) \/ Conflict \/ Restart

Next ==
    /\ Manager \/ UNCHANGED status
    /\ \A j \in Jobs : command'[j] \in Later(command[j])
    /\ UNCHANGED stack

Spec == Init /\ [][Next]_vars

=============================================================================
