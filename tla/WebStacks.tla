------------------------------ MODULE WebStacks ------------------------------
(***************************************************************************)
(* The stack editor of the web interface and the jobs its buttons start    *)
(* (web/static/app.js).                                                    *)
(*                                                                         *)
(* The editor loads the files of a stack, keeps what it believes to be     *)
(* saved (stackModalSavedValues) beside what is typed, validates and saves *)
(* for the server that is selected by then, and runs actions.  An action   *)
(* is a job that is asked for, then polled.  Its row shows the action by   *)
(* an override of the status, which outlives the job until a refresh of    *)
(* the list finds the status changed or the override too old, and a        *)
(* warning offers more time.  There is one stack; Servers may have files   *)
(* for it.                                                                 *)
(***************************************************************************)
EXTENDS Integers, FiniteSets

CONSTANTS
    Servers, First,   \* containersSelectedScope, at first First
    Texts, Clean,  \* contents of docker-compose.yml; what each is once tabs are replaced and blanks trimmed
    Found,         \* bound: what a server may have at first
    MaxFailures,   \* STACK_JOB_MAX_POLL_FAILURES
    MaxMoves,      \* bound: changes of the selected server
    Slow,          \* bound: the callers whose jobs may come near their deadline and whose polls may fail
    None

(* Who waits for a job: the editor, or a button of the row. *)
Waits == {"modal", "row"}

Env == {"", "env"}
File == [compose: Texts, env: Env, has: BOOLEAN]
Values == [named: BOOLEAN, compose: Texts \cup {""}, env: Env, useEnv: BOOLEAN]

ASSUME StackConstants ==
    /\ First \in Servers /\ None \notin Servers /\ None \notin File /\ None \notin Values
    /\ Found \subseteq {None} \cup {f \in File : f.has <=> f.env # ""}
    /\ "" \notin Texts /\ Clean \in [Texts -> Texts \cup {""}] /\ Slow \subseteq Waits
    /\ MaxFailures \in Nat \ {0} /\ MaxMoves \in Nat

VARIABLES
    selected, moves, files,      \* containersSelectedScope and how often it moved; the server's files
    open, editing, loadFailed,   \* the dialog, editingStackName, stackModalLoadFailed
    phase, then, req,            \* stackModalLoading and -Saving; what follows a save; its server
    named, compose, env, envExists, envDelete,
    saved, home,                 \* stackModalSavedValues; the server known to have them
    operation,                   \* stackModalActionInProgress
    wait, scope, failures,       \* a job as the page waits for it
    slow,                        \* tracker.warnedDeadline and the warning
    job,                         \* the job at the server
    override, row                \* the entry of stackStatusOverrides; the row of the stack in stacksCache

editor == <<open, editing, loadFailed, phase, then, req, named, compose, env, envExists, envDelete,
            saved, home, operation>>
jobs == <<wait, scope, failures, slow, job>>
shown == <<override, row>>
vars == <<selected, moves, files, editor, jobs, shown>>

FlagTypes ==
    /\ open \in BOOLEAN /\ editing \in BOOLEAN /\ loadFailed \in BOOLEAN /\ operation \in BOOLEAN
    /\ named \in BOOLEAN /\ envExists \in BOOLEAN /\ envDelete \in BOOLEAN

CountTypes == moves \in 0 .. MaxMoves /\ failures \in [Waits -> 0 .. MaxFailures - 1]

DataTypes ==
    /\ selected \in Servers /\ files \in [Servers -> File \cup {None}]
    /\ phase \in {"idle", "loading", "validating", "saving", "refreshing"}
    /\ then \in {"close", "stay", "action"} /\ req \in Servers \cup {None}
    /\ compose \in Texts \cup {""} /\ env \in Env
    /\ saved \in Values \cup {None} /\ home \in Servers \cup {None}
    /\ wait \in [Waits -> {"idle", "sent", "poll", "refresh"}] /\ scope \in [Waits -> Servers \cup {None}]
    /\ slow \in [Waits -> {"no", "near", "toast", "warned", "extending"}]
    /\ job \in [Waits -> {"none", "running", "succeeded", "failed"}]
    /\ override \in {"none", "active", "completed"} /\ row \in {"absent", "status", "action"}

TypeOK == FlagTypes /\ CountTypes /\ DataTypes

Init ==
    /\ selected = First /\ moves = 0 /\ files \in [Servers -> Found]
    /\ open = FALSE /\ editing = FALSE /\ loadFailed = FALSE
    /\ named = FALSE /\ compose = "" /\ env = "" /\ envExists = FALSE /\ envDelete = FALSE
    /\ saved = None /\ home = None
    /\ phase = "idle" /\ then = "stay" /\ req = None /\ operation = FALSE
    /\ wait = [w \in Waits |-> "idle"] /\ scope = [w \in Waits |-> None]
    /\ failures = [w \in Waits |-> 0] /\ slow = [w \in Waits |-> "no"]
    /\ job = [w \in Waits |-> "none"]
    /\ override = "none" /\ row = "absent"

-----------------------------------------------------------------------------
(* The editor *)

(* shouldSaveStackEnv: an .env that exists is saved though it be empty.     *)
UseEnv(exists, delete, text) == ~delete /\ (exists \/ text # "")
shouldSaveStackEnv == UseEnv(envExists, envDelete, env)

getStackModalValues == [named |-> named, compose |-> compose, env |-> env, useEnv |-> shouldSaveStackEnv]

(* getStackModalChangedFields is not empty. *)
Changed == saved # None /\ getStackModalValues # saved

(* updateStackModalBusyState: what the user may touch. *)
Busy == phase # "idle" \/ operation

(* Mutant: an action does not lock the editor. *)
EnabledInAction == open /\ phase = "idle" /\ ~loadFailed

Enabled == open /\ ~Busy /\ ~loadFailed

(* openStackModal for a new stack, or up to the request for the files of    *)
(* the row whose button is clicked.                                         *)
openStackModal(edit) ==
    /\ ~open /\ ~operation /\ (edit => row # "absent")
    /\ open' = TRUE /\ editing' = edit /\ named' = edit
    /\ compose' = "" /\ env' = "" /\ envExists' = FALSE /\ envDelete' = FALSE /\ loadFailed' = FALSE
    /\ saved' = [named |-> edit, compose |-> "", env |-> "", useEnv |-> FALSE]
    /\ home' = None
    /\ phase' = IF edit THEN "loading" ELSE "idle"
    /\ req' = IF edit THEN selected ELSE None
    /\ UNCHANGED <<selected, moves, files, then, operation, jobs, shown>>

Loaded ==
    /\ phase = "loading" /\ phase' = "idle" /\ files[req] # None
    /\ LET f == files[req] IN
       /\ compose' = f.compose /\ env' = f.env /\ envExists' = f.has
       /\ saved' = [named |-> named, compose |-> f.compose, env |-> f.env, useEnv |-> f.has]
    /\ envDelete' = FALSE /\ home' = req /\ req' = None
    /\ UNCHANGED <<selected, moves, files, open, editing, loadFailed, then, named, operation, jobs, shown>>

LoadFails ==
    /\ phase = "loading" /\ phase' = "idle" /\ req' = None /\ loadFailed' = TRUE
    /\ UNCHANGED <<selected, moves, files, open, editing, then, named, compose, env, envExists, envDelete,
                   saved, home, operation, jobs, shown>>

(* What the user types; a change of .env takes its deletion back. *)
EditName ==
    /\ Enabled /\ ~editing /\ named' = ~named
    /\ UNCHANGED <<selected, moves, files, open, editing, loadFailed, phase, then, req, compose, env, envExists,
                   envDelete, saved, home, operation, jobs, shown>>

EditCompose(c) ==
    /\ Enabled /\ c # compose /\ compose' = c
    /\ UNCHANGED <<selected, moves, files, open, editing, loadFailed, phase, then, req, named, env, envExists,
                   envDelete, saved, home, operation, jobs, shown>>

EditEnv(e) ==
    /\ Enabled /\ e # env /\ env' = e /\ envDelete' = FALSE
    /\ UNCHANGED <<selected, moves, files, open, editing, loadFailed, phase, then, req, named, compose, envExists,
                   saved, home, operation, jobs, shown>>

(* The button that deletes .env, once it is confirmed, or takes that back.  *)
DeleteEnv ==
    /\ Enabled /\ (envExists \/ env # "")
    /\ envDelete' = ~envDelete
    /\ UNCHANGED <<selected, moves, files, open, editing, loadFailed, phase, then, req, named, compose, env, envExists,
                   saved, home, operation, jobs, shown>>

(* The dialog goes; what it holds is set anew when it opens again. *)
Close ==
    /\ open' = FALSE /\ editing' = FALSE /\ loadFailed' = FALSE
    /\ named' = FALSE /\ compose' = "" /\ env' = "" /\ envExists' = FALSE /\ envDelete' = FALSE
    /\ saved' = None /\ home' = None

(* closeStackModal, with unsaved changes only by Cancel. *)
closeStackModal(discardChanges) ==
    /\ open /\ ~Busy /\ (Changed => discardChanges)
    /\ Close
    /\ UNCHANGED <<selected, moves, files, phase, then, req, operation, jobs, shown>>

(* saveStackFromModal up to the validation, for the server that is selected *)
(* now: the text in the editor is replaced by its clean form.               *)
saveStackFromModal(next) ==
    /\ Enabled /\ named /\ compose # "" /\ Clean[compose] # ""
    /\ compose' = Clean[compose]
    /\ phase' = "validating" /\ req' = selected /\ then' = next
    /\ operation' = (next = "action")
    /\ UNCHANGED <<selected, moves, files, open, editing, loadFailed, named, env, envExists, envDelete,
                   saved, home, jobs, shown>>

(* A text of blanks is emptied and turned down; without a valid name, or    *)
(* without text, nothing happens.                                           *)
TurnedDown ==
    /\ Enabled /\ named /\ compose # "" /\ Clean[compose] = ""
    /\ compose' = ""
    /\ UNCHANGED <<selected, moves, files, open, editing, loadFailed, phase, then, req, named, env, envExists,
                   envDelete, saved, home, operation, jobs, shown>>

(* Mutant: the flag of the action stays. *)
NotSavedKeeps == phase' = "idle" /\ req' = None /\ then' = "stay" /\ UNCHANGED operation

(* The dialog is free again. *)
NotSaved == phase' = "idle" /\ req' = None /\ then' = "stay" /\ operation' = FALSE

Invalid ==
    /\ phase = "validating" /\ NotSaved
    /\ UNCHANGED <<selected, moves, files, open, editing, loadFailed, named, compose, env, envExists, envDelete,
                   saved, home, jobs, shown>>

Validated ==
    /\ phase = "validating" /\ phase' = "saving"
    /\ UNCHANGED <<selected, moves, files, open, editing, loadFailed, then, req, named, compose, env, envExists, envDelete,
                   saved, home, operation, jobs, shown>>

(* What the request stores: docker-compose.yml first, then .env. *)
Stored == [files EXCEPT ![req] = [compose |-> compose, env |-> IF shouldSaveStackEnv THEN env ELSE "",
                                  has |-> shouldSaveStackEnv]]
Half(f) == [compose |-> compose, env |-> IF f = None THEN "" ELSE f.env, has |-> f # None /\ f.has]
PartlyStored == [files EXCEPT ![req] = Half(@)]

(* The request fails before, between or after what the server stores. *)
SaveFails ==
    /\ phase = "saving" /\ NotSaved /\ home' = None
    /\ files' \in {files, PartlyStored, Stored}
    /\ UNCHANGED <<selected, moves, open, editing, loadFailed, named, compose, env, envExists, envDelete,
                   saved, jobs, shown>>

(* Mutant: the text of an .env that was deleted stays. *)
EnvAfterSaveKeeps == env

EnvAfterSave == IF envDelete THEN "" ELSE env

SaveAnswered ==
    /\ phase = "saving" /\ phase' = "refreshing"
    /\ files' = Stored /\ home' = req /\ req' = None
    /\ envExists' = shouldSaveStackEnv /\ env' = EnvAfterSave /\ envDelete' = FALSE
    /\ saved' = [named |-> named, compose |-> compose, env |-> EnvAfterSave,
                 useEnv |-> UseEnv(shouldSaveStackEnv, FALSE, EnvAfterSave)]
    /\ UNCHANGED <<selected, moves, open, editing, loadFailed, then, named, compose, operation, jobs, shown>>

-----------------------------------------------------------------------------
(* Jobs *)

(* maybeClearStackStatusOverride, when the row is drawn: the status may     *)
(* have changed since the action began, and an entry that is too old goes   *)
(* (five minutes after its action began, or 5 to 30 seconds after it was    *)
(* completed).                                                              *)
maybeClearStackStatusOverride == {override, "none"}

(* updateStackRow: whatever entry is left is shown instead of the status,   *)
(* that of a completed action too.                                          *)
updateStackRow(entry) == IF entry = "none" THEN "status" ELSE "action"

(* What renderStacks makes of entry and row.                                *)
renderStacks ==
    IF files[selected] = None
    THEN {<<override, "absent">>}
    ELSE {<<entry, updateStackRow(entry)>> : entry \in maybeClearStackStatusOverride}

(* refreshStacks: the list is drawn; it cannot be loaded, and the table is  *)
(* emptied; or another refresh is in flight, or the answer is of a server   *)
(* no longer selected, and nothing happens.                                 *)
refreshStacks == renderStacks \cup {<<override, "absent">>, shown}

Drawn(outcomes) == \E drawn \in outcomes : override' = drawn[1] /\ row' = drawn[2]

(* runStackAction of w, with what is in the table by then: a row shows the  *)
(* action at once, and the job is asked for at the server that is selected  *)
(* now.                                                                     *)
runStackAction(w, listed) ==
    /\ wait' = [wait EXCEPT ![w] = "sent"] /\ scope' = [scope EXCEPT ![w] = selected]
    /\ override' = "active" /\ row' = IF listed = "absent" THEN "absent" ELSE "action"

(* The list is refreshed: the save is over, and its caller goes on.         *)
Refreshed ==
    /\ phase = "refreshing" /\ phase' = "idle" /\ then' = "stay"
    /\ IF then = "close"
       THEN Close
       ELSE UNCHANGED <<open, editing, loadFailed, named, compose, env, envExists, envDelete, saved, home>>
    /\ \E drawn \in refreshStacks :
          IF then = "action"
          THEN runStackAction("modal", drawn[2])
          ELSE override' = drawn[1] /\ row' = drawn[2] /\ UNCHANGED <<wait, scope>>
    /\ UNCHANGED <<selected, moves, files, req, operation, failures, slow, job>>

(* A button of the row, once the last job it started is over. *)
RowAction ==
    /\ ~open /\ wait["row"] = "idle" /\ job["row"] # "running" /\ row # "absent"
    /\ runStackAction("row", row)
    /\ UNCHANGED <<selected, moves, files, editor, failures, slow, job>>

(* stackJobManager.start refuses a second job of the stack. *)
Free(w) == \A v \in Waits : ~(job[v] = "running" /\ scope[v] = scope[w])

(* The answer to the request; the loop of waitForStackJob begins, in which  *)
(* the next poll is always to come.                                         *)
JobStarted(w) ==
    /\ wait[w] = "sent" /\ Free(w) /\ job[w] # "running"
    /\ wait' = [wait EXCEPT ![w] = "poll"] /\ job' = [job EXCEPT ![w] = "running"]
    /\ UNCHANGED <<selected, moves, files, editor, scope, failures, slow, shown>>

(* A job of w as the server has it; one that is neither running nor waited  *)
(* for is of no further interest.                                           *)
Job(w, state, waits) ==
    /\ job' = [job EXCEPT ![w] = IF state = "running" \/ waits THEN state ELSE "none"]
    /\ scope' = [scope EXCEPT ![w] = IF state = "running" \/ waits THEN @ ELSE None]

(* waitForStackJob is left: its counter, its tracker and the warning go.    *)
Stopped(w, next) ==
    /\ wait' = [wait EXCEPT ![w] = next]
    /\ failures' = [failures EXCEPT ![w] = 0] /\ slow' = [slow EXCEPT ![w] = "no"]

(* The end of an action of w; that of the editor frees the dialog.          *)
Ends(w) == Stopped(w, "idle") /\ operation' = (operation /\ w # "modal")

(* Mutant: the entry of an action that has failed stays. *)
ActionFailedKeeps(w) == Ends(w) /\ UNCHANGED <<override, row>>

(* The entry goes, but the row is not drawn anew: it shows the action until *)
(* the next refresh.                                                        *)
ActionFailed(w) == Ends(w) /\ override' = "none" /\ UNCHANGED row

(* markStackStatusOverrideCompleted: the entry stays, from now on for some  *)
(* seconds at most, and the row shows it; the list is refreshed before the  *)
(* end.                                                                     *)
ActionDone(w) ==
    /\ Stopped(w, "refresh") /\ UNCHANGED <<operation, row>>
    /\ override' = IF override = "none" THEN "none" ELSE "completed"

ActionRefreshed(w) ==
    /\ wait[w] = "refresh" /\ Ends(w) /\ Drawn(refreshStacks)
    /\ UNCHANGED <<selected, moves, files, open, editing, loadFailed, phase, then, req, named, compose, env, envExists,
                   envDelete, saved, home, scope, job>>

(* The request is refused, fails, or its answer is lost. *)
JobNotStarted(w) ==
    /\ wait[w] = "sent" /\ ActionFailed(w)
    /\ Job(w, job[w], FALSE) \/ (Free(w) /\ Job(w, "running", FALSE))
    /\ UNCHANGED <<selected, moves, files, open, editing, loadFailed, phase, then, req, named, compose, env, envExists,
                   envDelete, saved, home>>

(* The server: a job ends, one of the row may be the removal of the stack;  *)
(* its deadline comes near; it is forgotten, with the server's process.     *)
JobEnds(w) ==
    /\ job[w] = "running"
    /\ \E verdict \in {"succeeded", "failed"} :
          /\ Job(w, verdict, wait[w] # "idle")
          /\ \/ UNCHANGED files
             \/ w = "row" /\ verdict = "succeeded" /\ files' = [files EXCEPT ![scope[w]] = None]
    /\ UNCHANGED <<selected, moves, editor, wait, failures, slow, shown>>

DeadlineNear(w) ==
    /\ w \in Slow
    /\ wait[w] = "poll" /\ job[w] = "running" /\ slow[w] = "no"
    /\ slow' = [slow EXCEPT ![w] = "near"]
    /\ UNCHANGED <<selected, moves, files, editor, wait, scope, failures, job, shown>>

JobForgotten(w) ==
    /\ job[w] # "none" /\ Job(w, "none", wait[w] # "idle")
    /\ UNCHANGED <<selected, moves, files, editor, wait, failures, slow, shown>>

(* maybeWarnSlowStackJob: once for every deadline. *)
maybeWarnSlowStackJob(w) == slow' = [slow EXCEPT ![w] = IF @ = "near" THEN "toast" ELSE @]

StillRunning(w) ==
    /\ wait[w] = "poll" /\ job[w] = "running"
    /\ failures' = [failures EXCEPT ![w] = 0] /\ maybeWarnSlowStackJob(w)
    /\ UNCHANGED <<selected, moves, files, editor, wait, scope, job, shown>>

(* The job is over, or the server no longer knows it (404). *)
JobOver(w) ==
    /\ wait[w] = "poll" /\ job[w] # "running" /\ Job(w, "none", FALSE)
    /\ IF job[w] = "succeeded" THEN ActionDone(w) ELSE ActionFailed(w)
    /\ UNCHANGED <<selected, moves, files, open, editing, loadFailed, phase, then, req, named, compose, env, envExists,
                   envDelete, saved, home>>

(* The failure that is one too many. *)
GivesUp(w) == failures[w] + 1 >= MaxFailures

PollFails(w) ==
    /\ w \in Slow /\ wait[w] = "poll" /\ ~GivesUp(w)
    /\ failures' = [failures EXCEPT ![w] = @ + 1]
    /\ UNCHANGED <<selected, moves, files, editor, wait, scope, slow, job, shown>>

(* Too many failures in a row, or the PIN is asked for. *)
PollGivesUp(w) ==
    /\ wait[w] = "poll" /\ ActionFailed(w)
    /\ Job(w, job[w], FALSE)
    /\ UNCHANGED <<selected, moves, files, open, editing, loadFailed, phase, then, req, named, compose, env, envExists,
                   envDelete, saved, home>>

(* The warning: its button asks for more time, or it is dismissed or times  *)
(* out.                                                                     *)
extendStackJob(w) ==
    /\ slow[w] = "toast" /\ slow' = [slow EXCEPT ![w] = "extending"]
    /\ UNCHANGED <<selected, moves, files, editor, wait, scope, failures, job, shown>>

Extended(w) ==
    /\ slow[w] = "extending"
    /\ \/ slow' = [slow EXCEPT ![w] = "warned"]
       \/ job[w] = "running" /\ slow' = [slow EXCEPT ![w] = "no"]
    /\ UNCHANGED <<selected, moves, files, editor, wait, scope, failures, job, shown>>

removeToast(w) ==
    /\ slow[w] = "toast" /\ slow' = [slow EXCEPT ![w] = "warned"]
    /\ UNCHANGED <<selected, moves, files, editor, wait, scope, failures, job, shown>>

(* The list is refreshed on its own, every six seconds. *)
AutoRefresh ==
    /\ Drawn(refreshStacks)
    /\ UNCHANGED <<selected, moves, files, editor, jobs>>

(* The user, or a change of the list of servers, moves the selection; the   *)
(* dialog covers the page for the user only, and only the user's click      *)
(* empties the table.                                                       *)
SelectServer(s) ==
    /\ s # selected /\ selected' = s
    /\ moves < MaxMoves /\ moves' = moves + 1
    /\ row' = row \/ (~open /\ row' = "absent")
    /\ UNCHANGED override /\ UNCHANGED <<files, editor, jobs>>

-----------------------------------------------------------------------------
EditorStep ==
    \/ \E b \in BOOLEAN : openStackModal(b) \/ closeStackModal(b)
    \/ Loaded \/ LoadFails \/ EditName \/ DeleteEnv
    \/ \E c \in Texts \cup {""} : EditCompose(c)
    \/ \E e \in Env : EditEnv(e)
    \/ TurnedDown \/ \E next \in {"close", "stay", "action"} : saveStackFromModal(next)
    \/ Invalid \/ Validated \/ SaveFails \/ SaveAnswered \/ Refreshed

JobStep(w) ==
    \/ JobStarted(w) \/ JobNotStarted(w) \/ JobEnds(w) \/ DeadlineNear(w) \/ JobForgotten(w)
    \/ StillRunning(w) \/ JobOver(w) \/ PollFails(w) \/ PollGivesUp(w)
    \/ ActionRefreshed(w) \/ extendStackJob(w) \/ Extended(w) \/ removeToast(w)

Next ==
    \/ EditorStep \/ \E w \in Waits : JobStep(w)
    \/ RowAction \/ AutoRefresh
    \/ \E s \in Servers : SelectServer(s)

Spec == Init /\ [][Next]_vars

(* What the dialog waits for comes: its requests are answered or fail, and  *)
(* a poll tells the end of a job, which has one, by its deadline if not     *)
(* before.                                                                  *)
DialogGoesOn ==
    \/ Loaded \/ LoadFails \/ Invalid \/ Validated \/ SaveFails \/ SaveAnswered \/ Refreshed
    \/ JobStarted("modal") \/ JobNotStarted("modal") \/ JobOver("modal") \/ ActionRefreshed("modal")

Fairness == WF_vars(DialogGoesOn) /\ WF_vars(JobEnds("modal"))

FairSpec == Spec /\ Fairness

-----------------------------------------------------------------------------
(* Properties *)

(* What is stored would read as what the editor shows. *)
Shown == [compose |-> compose, env |-> IF shouldSaveStackEnv THEN env ELSE "", has |-> shouldSaveStackEnv]

(* When the dialog would close without a word, its text is what the server  *)
(* has (or the stack was removed meanwhile): no edit, deletion of .env or   *)
(* undo is lost by a baseline that is wrong.  A save that failed may have   *)
(* been stored all the same.                                                *)
CleanMeansSaved ==
    open /\ ~Busy /\ ~loadFailed /\ ~Changed /\ home # None => files[home] \in {Shown, None}

(* While the page waits for an action of the editor, the files on the       *)
(* server it was sent to are what the editor shows: saved first, nothing    *)
(* edited since, as long as the selection has not moved in between.         *)
ActionRunsSaved ==
    wait["modal"] # "idle" /\ scope["modal"] = home => files[home] \in {Shown, None}

(* A warning offers more time only as long as its job is polled, and an     *)
(* override waits for the end of an action only as long as one is asked for *)
(* or polled: what is left over when none is, however the actions of editor *)
(* and row overlapped, failed or lost their answers, is an override on the  *)
(* short clock of a completed action.  And as long as there is an override, *)
(* the row, if it is in the table, shows it instead of the status.          *)
LeftoversExpire ==
    /\ \A w \in Waits : slow[w] = "toast" => wait[w] = "poll"
    /\ (\A w \in Waits : wait[w] \notin {"sent", "poll"}) => override # "active"
    /\ override # "none" /\ row # "absent" => row = "action"

(* The dialog never stays locked: whatever request fails or is lost, and    *)
(* whatever becomes of the job, loading, saving and action end.             *)
DialogFreed == Busy ~> ~Busy

=============================================================================
