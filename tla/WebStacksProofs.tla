-------------------------- MODULE WebStacksProofs --------------------------
(***************************************************************************)
(* Proofs about WebStacks, for any number of servers, texts and failed     *)
(* polls: the types, and the three safety invariants of the editor.        *)
(*                                                                         *)
(* None of the three is inductive.  CleanMeansSaved compares the text with *)
(* the files only when nothing is changed; behind it stands the baseline:  *)
(* what the editor believes to be saved is what the server would read back *)
(* (Baseline, with FilesRead).  ActionRunsSaved needs besides that a save  *)
(* that has succeeded leaves nothing changed (SaveInv) and that the dialog *)
(* stays locked until its action ends (WaitInv).  LeftoversExpire needs    *)
(* that a refresh, by whomever, makes no override active again (Redraws),  *)
(* that the tracker of a job goes with its polling, and that a row that is *)
(* drawn shows the override there is (ShownInv).                           *)
(***************************************************************************)
EXTENDS WebStacks, TLAPS

(* What a server would read back had it stored v. *)
Reading(v) == [compose |-> v.compose, env |-> IF v.useEnv THEN v.env ELSE "", has |-> v.useEnv]

(* A file that is not there has no text. *)
FilesRead == \A s \in Servers : files[s] # None /\ ~files[s].has => files[s].env = ""

(* The baseline of the editor is what its server has. *)
Baseline == home # None => saved # None /\ files[home] \in {Reading(saved), None}

Unchanged == getStackModalValues = saved

(* A request has its server, and a file to be saved has a text. *)
Requested ==
    /\ phase \in {"loading", "validating", "saving"} => req \in Servers
    /\ phase \in {"validating", "saving"} => compose # ""

(* The dialog while it loads or saves. *)
SaveInv ==
    /\ phase # "idle" => open
    /\ phase \in {"validating", "saving", "refreshing"} /\ then = "action" => operation
    /\ phase = "refreshing" => home # None /\ Unchanged

(* The dialog while it waits for its action. *)
WaitInv == wait["modal"] # "idle" => phase = "idle" /\ operation /\ open /\ home # None /\ Unchanged

(* A row in the table shows the override there is. *)
RowShows == override # "none" /\ row # "absent" => row = "action"

(* What is shown of actions. *)
ShownInv ==
    /\ \A w \in Waits : wait[w] # "poll" => slow[w] = "no"
    /\ override = "active" => \E w \in Waits : wait[w] \in {"sent", "poll"}
    /\ RowShows

EditorInv == FilesRead /\ Baseline /\ SaveInv /\ WaitInv
IndInv == TypeOK /\ Requested /\ EditorInv /\ ShownInv

-----------------------------------------------------------------------------
(* The types *)

(* The bounds are numbers. *)
LEMMA Bounds == MaxFailures \in Nat \ {0} /\ MaxMoves \in Nat
  BY StackConstants

(* The mark for no server is not one. *)
LEMMA NoServer == First \in Servers /\ None \notin Servers
  BY StackConstants

(* Trimming a text gives a text or nothing. *)
LEMMA CleanTexts == \A t \in Texts : Clean[t] \in Texts \cup {""}
  BY StackConstants

(* Whatever a refresh of the list draws, it keeps the override or ends it,  *)
(* and shows the one it keeps unless it leaves the row as it was.           *)
LEMMA Redraws ==
    ASSUME NEW drawn \in refreshStacks
    PROVE  /\ drawn[1] \in {override, "none"} /\ drawn[2] \in {row, "absent", "status", "action"}
           /\ RowShows /\ drawn[1] # "none" /\ drawn[2] # "absent" => drawn[2] = "action"
<1>1. CASE drawn \in {<<override, "absent">>, shown}
  BY <1>1 DEF shown, RowShows
<1>2. CASE drawn \in renderStacks
  BY <1>2 DEF renderStacks, updateStackRow, maybeClearStackStatusOverride
<1> QED
  BY <1>1, <1>2 DEF refreshStacks

(* The dialog is closed at first, and well typed. *)
LEMMA TypeInit == Init => TypeOK /\ Requested
<1>1. Init => FlagTypes
  BY DEF Init, FlagTypes
<1>2. Init => CountTypes
  <2>1. Init => moves = 0 /\ failures = [w \in Waits |-> 0]
    BY DEF Init
  <2> QED
    BY <2>1, Bounds DEF CountTypes
<1>3. Init => files \in [Servers -> File \cup {None}]
  BY StackConstants DEF Init
<1>4. Init => DataTypes
  BY <1>3, NoServer DEF Init, DataTypes, Env
<1>5. Init => Requested
  BY DEF Init, Requested
<1> QED
  BY <1>1, <1>2, <1>4, <1>5 DEF TypeOK

(* A request of the dialog has its server in every step. *)
LEMMA RequestedStep == Requested /\ DataTypes /\ [Next]_vars => Requested'
<1> SUFFICES ASSUME Requested, DataTypes, [Next]_vars PROVE Requested'
  OBVIOUS
<1> USE DEF DataTypes
<1>1. CASE Loaded
  BY <1>1 DEF Requested, Loaded, editor, jobs, shown
<1>2. CASE LoadFails
  BY <1>2 DEF Requested, LoadFails, editor, jobs, shown
<1>3. CASE EditName
  BY <1>3 DEF Requested, Enabled, Busy, EditName, editor, jobs, shown
<1>4. CASE TurnedDown
  BY <1>4 DEF Requested, Enabled, Busy, TurnedDown, editor, jobs, shown
<1>5. CASE DeleteEnv
  BY <1>5 DEF Requested, Enabled, Busy, DeleteEnv, editor, jobs, shown
<1>6. CASE Invalid
  BY <1>6 DEF Requested, NotSaved, Invalid, editor, jobs, shown
<1>7. CASE Validated
  BY <1>7 DEF Requested, Validated, editor, jobs, shown
<1>8. CASE SaveFails
  BY <1>8 DEF Requested, NotSaved, Stored, PartlyStored, shouldSaveStackEnv, UseEnv, File, SaveFails, editor, jobs, shown
<1>9. CASE SaveAnswered
  BY <1>9 DEF Requested, Stored, EnvAfterSave, UseEnv, shouldSaveStackEnv, File, SaveAnswered, editor, jobs, shown
<1>10. CASE Refreshed
  BY <1>10 DEF Requested, Close, runStackAction, Refreshed, editor, jobs, shown
<1>11. CASE RowAction
  BY <1>11 DEF Requested, runStackAction, RowAction, editor, jobs, shown
<1>12. CASE AutoRefresh
  BY <1>12 DEF Requested, AutoRefresh, editor, jobs, shown
<1>13. ASSUME NEW b \in BOOLEAN, openStackModal(b) PROVE Requested'
  BY <1>13 DEF Requested, openStackModal, editor, jobs, shown
<1>14. ASSUME NEW b \in BOOLEAN, closeStackModal(b) PROVE Requested'
  BY <1>14 DEF Requested, Close, Busy, closeStackModal, editor, jobs, shown
<1>15. ASSUME NEW c \in Texts \cup {""}, EditCompose(c) PROVE Requested'
  BY <1>15 DEF Requested, Enabled, Busy, EditCompose, editor, jobs, shown
<1>16. ASSUME NEW e \in Env, EditEnv(e) PROVE Requested'
  BY <1>16 DEF Requested, Enabled, Busy, EditEnv, editor, jobs, shown
<1>17. ASSUME NEW next \in {"close", "stay", "action"}, saveStackFromModal(next) PROVE Requested'
  BY <1>17 DEF Requested, Enabled, Busy, saveStackFromModal, editor, jobs, shown
<1>18. ASSUME NEW s \in Servers, SelectServer(s) PROVE Requested'
  BY <1>18 DEF Requested, SelectServer, editor, jobs, shown
<1>19. ASSUME NEW w \in Waits, JobStarted(w) PROVE Requested'
  BY <1>19 DEF Requested, JobStarted, editor, jobs, shown
<1>20. ASSUME NEW w \in Waits, JobNotStarted(w) PROVE Requested'
  BY <1>20 DEF Requested, Job, ActionFailed, Ends, Stopped, JobNotStarted, editor, jobs, shown
<1>21. ASSUME NEW w \in Waits, JobEnds(w) PROVE Requested'
  BY <1>21 DEF Requested, Job, JobEnds, editor, jobs, shown
<1>22. ASSUME NEW w \in Waits, DeadlineNear(w) PROVE Requested'
  BY <1>22 DEF Requested, DeadlineNear, editor, jobs, shown
<1>23. ASSUME NEW w \in Waits, JobForgotten(w) PROVE Requested'
  BY <1>23 DEF Requested, Job, JobForgotten, editor, jobs, shown
<1>24. ASSUME NEW w \in Waits, StillRunning(w) PROVE Requested'
  BY <1>24 DEF Requested, maybeWarnSlowStackJob, StillRunning, editor, jobs, shown
<1>25. ASSUME NEW w \in Waits, JobOver(w) PROVE Requested'
  BY <1>25 DEF Requested, Job, ActionDone, ActionFailed, Ends, Stopped, JobOver, editor, jobs, shown
<1>26. ASSUME NEW w \in Waits, PollFails(w) PROVE Requested'
  BY <1>26 DEF Requested, GivesUp, PollFails, editor, jobs, shown
<1>27. ASSUME NEW w \in Waits, PollGivesUp(w) PROVE Requested'
  BY <1>27 DEF Requested, Job, ActionFailed, Ends, Stopped, PollGivesUp, editor, jobs, shown
<1>28. ASSUME NEW w \in Waits, ActionRefreshed(w) PROVE Requested'
  BY <1>28 DEF Requested, Ends, Stopped, ActionRefreshed, editor, jobs, shown
<1>29. ASSUME NEW w \in Waits, extendStackJob(w) PROVE Requested'
  BY <1>29 DEF Requested, extendStackJob, editor, jobs, shown
<1>30. ASSUME NEW w \in Waits, Extended(w) PROVE Requested'
  BY <1>30 DEF Requested, Extended, editor, jobs, shown
<1>31. ASSUME NEW w \in Waits, removeToast(w) PROVE Requested'
  BY <1>31 DEF Requested, removeToast, editor, jobs, shown
<1>32. CASE UNCHANGED vars
  BY <1>32 DEF Requested, vars, editor, jobs, shown
<1> QED
  BY <1>1, <1>2, <1>3, <1>4, <1>5, <1>6, <1>7, <1>8, <1>9, <1>10, <1>11, <1>12, <1>13, <1>14, <1>15, <1>16, <1>17, <1>18, <1>19, <1>20, <1>21, <1>22, <1>23, <1>24, <1>25, <1>26, <1>27, <1>28, <1>29, <1>30, <1>31, <1>32 DEF Next, EditorStep, JobStep


(* What is loaded, and what a save stores, is a file. *)
LEMMA FileLoaded ==
    ASSUME DataTypes, Requested, phase = "loading", files[req] # None
    PROVE  files[req] \in File
  BY DEF DataTypes, Requested

(* A save that succeeds stores what the editor shows. *)
LEMMA FileStored ==
    ASSUME TypeOK, Requested, phase = "saving"
    PROVE  Shown \in File /\ Stored = [files EXCEPT ![req] = Shown]
<1>1. shouldSaveStackEnv \in BOOLEAN
  BY DEF shouldSaveStackEnv, UseEnv
<1>2. compose \in Texts /\ env \in Env
  BY DEF TypeOK, DataTypes, Requested
<1>3. Shown \in File
  BY <1>1, <1>2 DEF Shown, File, Env
<1> QED
  BY <1>3 DEF Stored, Shown

(* A save that fails half way stores the compose file alone. *)
LEMMA HalfStored ==
    ASSUME TypeOK, Requested, phase = "saving"
    PROVE  Half(files[req]) \in File /\ PartlyStored = [files EXCEPT ![req] = Half(files[req])]
<1>1. compose \in Texts /\ req \in Servers
  BY DEF TypeOK, DataTypes, Requested
<1>2. files[req] = None \/ (files[req].env \in Env /\ files[req].has \in BOOLEAN)
  BY <1>1 DEF TypeOK, DataTypes, File
<1>3. Half(files[req]) \in File
  BY <1>1, <1>2 DEF Half, File, Env
<1> QED
  BY <1>1, <1>3 DEF PartlyStored, TypeOK, DataTypes

(* The baseline after a save is well typed. *)
LEMMA SavedType ==
    ASSUME TypeOK, SaveAnswered
    PROVE  EnvAfterSave \in Env /\ saved' \in Values
<1>1. EnvAfterSave \in Env
  BY DEF EnvAfterSave, TypeOK, DataTypes, Env
<1>2. UseEnv(shouldSaveStackEnv, FALSE, EnvAfterSave) \in BOOLEAN
  BY DEF UseEnv
<1> QED
  BY <1>1, <1>2 DEF SaveAnswered, Values, TypeOK, FlagTypes, DataTypes

(* Every step keeps the types of the flags. *)
LEMMA FlagStep == TypeOK /\ Requested /\ [Next]_vars => FlagTypes'
<1> SUFFICES ASSUME FlagTypes, DataTypes, Requested, [Next]_vars PROVE FlagTypes'
  BY DEF TypeOK
<1>1. CASE Loaded
  <2>1. files[req] \in File
    BY <1>1, FileLoaded DEF Loaded
  <2> QED
    BY <1>1, <2>1 DEF FlagTypes, Loaded, File
<1>2. CASE LoadFails
  BY <1>2 DEF FlagTypes, LoadFails, editor, jobs, shown
<1>3. CASE EditName
  BY <1>3 DEF FlagTypes, Enabled, Busy, EditName, editor, jobs, shown
<1>4. CASE TurnedDown
  BY <1>4 DEF FlagTypes, Enabled, Busy, TurnedDown, editor, jobs, shown
<1>5. CASE DeleteEnv
  BY <1>5 DEF FlagTypes, Enabled, Busy, DeleteEnv, editor, jobs, shown
<1>6. CASE Invalid
  BY <1>6 DEF FlagTypes, NotSaved, Invalid, editor, jobs, shown
<1>7. CASE Validated
  BY <1>7 DEF FlagTypes, Validated, editor, jobs, shown
<1>8. CASE SaveFails
  BY <1>8 DEF FlagTypes, NotSaved, Stored, PartlyStored, shouldSaveStackEnv, UseEnv, File, SaveFails, editor, jobs, shown
<1>9. CASE SaveAnswered
  BY <1>9 DEF FlagTypes, Stored, EnvAfterSave, UseEnv, shouldSaveStackEnv, File, SaveAnswered, editor, jobs, shown
<1>10. CASE Refreshed
  BY <1>10 DEF FlagTypes, Close, runStackAction, Refreshed, editor, jobs, shown
<1>11. CASE RowAction
  BY <1>11 DEF FlagTypes, runStackAction, RowAction, editor, jobs, shown
<1>12. CASE AutoRefresh
  BY <1>12 DEF FlagTypes, AutoRefresh, editor, jobs, shown
<1>13. ASSUME NEW b \in BOOLEAN, openStackModal(b) PROVE FlagTypes'
  BY <1>13 DEF FlagTypes, openStackModal, editor, jobs, shown
<1>14. ASSUME NEW b \in BOOLEAN, closeStackModal(b) PROVE FlagTypes'
  BY <1>14 DEF FlagTypes, Close, Busy, closeStackModal, editor, jobs, shown
<1>15. ASSUME NEW c \in Texts \cup {""}, EditCompose(c) PROVE FlagTypes'
  BY <1>15 DEF FlagTypes, Enabled, Busy, EditCompose, editor, jobs, shown
<1>16. ASSUME NEW e \in Env, EditEnv(e) PROVE FlagTypes'
  BY <1>16 DEF FlagTypes, Enabled, Busy, EditEnv, editor, jobs, shown
<1>17. ASSUME NEW next \in {"close", "stay", "action"}, saveStackFromModal(next) PROVE FlagTypes'
  BY <1>17 DEF FlagTypes, Enabled, Busy, saveStackFromModal, editor, jobs, shown
<1>18. ASSUME NEW s \in Servers, SelectServer(s) PROVE FlagTypes'
  BY <1>18 DEF FlagTypes, SelectServer, editor, jobs, shown
<1>19. ASSUME NEW w \in Waits, JobStarted(w) PROVE FlagTypes'
  BY <1>19 DEF FlagTypes, JobStarted, editor, jobs, shown
<1>20. ASSUME NEW w \in Waits, JobNotStarted(w) PROVE FlagTypes'
  BY <1>20 DEF FlagTypes, Job, ActionFailed, Ends, Stopped, JobNotStarted, editor, jobs, shown
<1>21. ASSUME NEW w \in Waits, JobEnds(w) PROVE FlagTypes'
  BY <1>21 DEF FlagTypes, Job, JobEnds, editor, jobs, shown
<1>22. ASSUME NEW w \in Waits, DeadlineNear(w) PROVE FlagTypes'
  BY <1>22 DEF FlagTypes, DeadlineNear, editor, jobs, shown
<1>23. ASSUME NEW w \in Waits, JobForgotten(w) PROVE FlagTypes'
  BY <1>23 DEF FlagTypes, Job, JobForgotten, editor, jobs, shown
<1>24. ASSUME NEW w \in Waits, StillRunning(w) PROVE FlagTypes'
  BY <1>24 DEF FlagTypes, maybeWarnSlowStackJob, StillRunning, editor, jobs, shown
<1>25. ASSUME NEW w \in Waits, JobOver(w) PROVE FlagTypes'
  BY <1>25 DEF FlagTypes, Job, ActionDone, ActionFailed, Ends, Stopped, JobOver, editor, jobs, shown
<1>26. ASSUME NEW w \in Waits, PollFails(w) PROVE FlagTypes'
  BY <1>26 DEF FlagTypes, GivesUp, PollFails, editor, jobs, shown
<1>27. ASSUME NEW w \in Waits, PollGivesUp(w) PROVE FlagTypes'
  BY <1>27 DEF FlagTypes, Job, ActionFailed, Ends, Stopped, PollGivesUp, editor, jobs, shown
<1>28. ASSUME NEW w \in Waits, ActionRefreshed(w) PROVE FlagTypes'
  BY <1>28 DEF FlagTypes, Ends, Stopped, ActionRefreshed, editor, jobs, shown
<1>29. ASSUME NEW w \in Waits, extendStackJob(w) PROVE FlagTypes'
  BY <1>29 DEF FlagTypes, extendStackJob, editor, jobs, shown
<1>30. ASSUME NEW w \in Waits, Extended(w) PROVE FlagTypes'
  BY <1>30 DEF FlagTypes, Extended, editor, jobs, shown
<1>31. ASSUME NEW w \in Waits, removeToast(w) PROVE FlagTypes'
  BY <1>31 DEF FlagTypes, removeToast, editor, jobs, shown
<1>32. CASE UNCHANGED vars
  BY <1>32 DEF FlagTypes, vars, editor, jobs, shown
<1> QED
  BY <1>1, <1>2, <1>3, <1>4, <1>5, <1>6, <1>7, <1>8, <1>9, <1>10, <1>11, <1>12, <1>13, <1>14, <1>15, <1>16, <1>17, <1>18, <1>19, <1>20, <1>21, <1>22, <1>23, <1>24, <1>25, <1>26, <1>27, <1>28, <1>29, <1>30, <1>31, <1>32 DEF Next, EditorStep, JobStep


(* Every step keeps the types of the counters. *)
LEMMA CountStep == CountTypes /\ [Next]_vars => CountTypes'
<1> SUFFICES ASSUME CountTypes, [Next]_vars PROVE CountTypes'
  OBVIOUS
<1> USE Bounds
<1>1. CASE Loaded
  BY <1>1 DEF CountTypes, Loaded, editor, jobs, shown
<1>2. CASE LoadFails
  BY <1>2 DEF CountTypes, LoadFails, editor, jobs, shown
<1>3. CASE EditName
  BY <1>3 DEF CountTypes, Enabled, Busy, EditName, editor, jobs, shown
<1>4. CASE TurnedDown
  BY <1>4 DEF CountTypes, Enabled, Busy, TurnedDown, editor, jobs, shown
<1>5. CASE DeleteEnv
  BY <1>5 DEF CountTypes, Enabled, Busy, DeleteEnv, editor, jobs, shown
<1>6. CASE Invalid
  BY <1>6 DEF CountTypes, NotSaved, Invalid, editor, jobs, shown
<1>7. CASE Validated
  BY <1>7 DEF CountTypes, Validated, editor, jobs, shown
<1>8. CASE SaveFails
  BY <1>8 DEF CountTypes, NotSaved, Stored, PartlyStored, shouldSaveStackEnv, UseEnv, File, SaveFails, editor, jobs, shown
<1>9. CASE SaveAnswered
  BY <1>9 DEF CountTypes, Stored, EnvAfterSave, UseEnv, shouldSaveStackEnv, File, SaveAnswered, editor, jobs, shown
<1>10. CASE Refreshed
  BY <1>10 DEF CountTypes, Close, runStackAction, Refreshed, editor, jobs, shown
<1>11. CASE RowAction
  BY <1>11 DEF CountTypes, runStackAction, RowAction, editor, jobs, shown
<1>12. CASE AutoRefresh
  BY <1>12 DEF CountTypes, AutoRefresh, editor, jobs, shown
<1>13. ASSUME NEW b \in BOOLEAN, openStackModal(b) PROVE CountTypes'
  BY <1>13 DEF CountTypes, openStackModal, editor, jobs, shown
<1>14. ASSUME NEW b \in BOOLEAN, closeStackModal(b) PROVE CountTypes'
  BY <1>14 DEF CountTypes, Close, Busy, closeStackModal, editor, jobs, shown
<1>15. ASSUME NEW c \in Texts \cup {""}, EditCompose(c) PROVE CountTypes'
  BY <1>15 DEF CountTypes, Enabled, Busy, EditCompose, editor, jobs, shown
<1>16. ASSUME NEW e \in Env, EditEnv(e) PROVE CountTypes'
  BY <1>16 DEF CountTypes, Enabled, Busy, EditEnv, editor, jobs, shown
<1>17. ASSUME NEW next \in {"close", "stay", "action"}, saveStackFromModal(next) PROVE CountTypes'
  BY <1>17 DEF CountTypes, Enabled, Busy, saveStackFromModal, editor, jobs, shown
<1>18. ASSUME NEW s \in Servers, SelectServer(s) PROVE CountTypes'
  BY <1>18 DEF CountTypes, SelectServer, editor, jobs, shown
<1>19. ASSUME NEW w \in Waits, JobStarted(w) PROVE CountTypes'
  BY <1>19 DEF CountTypes, JobStarted, editor, jobs, shown
<1>20. ASSUME NEW w \in Waits, JobNotStarted(w) PROVE CountTypes'
  BY <1>20 DEF CountTypes, Job, ActionFailed, Ends, Stopped, JobNotStarted, editor, jobs, shown
<1>21. ASSUME NEW w \in Waits, JobEnds(w) PROVE CountTypes'
  BY <1>21 DEF CountTypes, Job, JobEnds, editor, jobs, shown
<1>22. ASSUME NEW w \in Waits, DeadlineNear(w) PROVE CountTypes'
  BY <1>22 DEF CountTypes, DeadlineNear, editor, jobs, shown
<1>23. ASSUME NEW w \in Waits, JobForgotten(w) PROVE CountTypes'
  BY <1>23 DEF CountTypes, Job, JobForgotten, editor, jobs, shown
<1>24. ASSUME NEW w \in Waits, StillRunning(w) PROVE CountTypes'
  BY <1>24 DEF CountTypes, maybeWarnSlowStackJob, StillRunning, editor, jobs, shown
<1>25. ASSUME NEW w \in Waits, JobOver(w) PROVE CountTypes'
  BY <1>25 DEF CountTypes, Job, ActionDone, ActionFailed, Ends, Stopped, JobOver, editor, jobs, shown
<1>26. ASSUME NEW w \in Waits, PollFails(w) PROVE CountTypes'
  BY <1>26 DEF CountTypes, GivesUp, PollFails, editor, jobs, shown
<1>27. ASSUME NEW w \in Waits, PollGivesUp(w) PROVE CountTypes'
  BY <1>27 DEF CountTypes, Job, ActionFailed, Ends, Stopped, PollGivesUp, editor, jobs, shown
<1>28. ASSUME NEW w \in Waits, ActionRefreshed(w) PROVE CountTypes'
  BY <1>28 DEF CountTypes, Ends, Stopped, ActionRefreshed, editor, jobs, shown
<1>29. ASSUME NEW w \in Waits, extendStackJob(w) PROVE CountTypes'
  BY <1>29 DEF CountTypes, extendStackJob, editor, jobs, shown
<1>30. ASSUME NEW w \in Waits, Extended(w) PROVE CountTypes'
  BY <1>30 DEF CountTypes, Extended, editor, jobs, shown
<1>31. ASSUME NEW w \in Waits, removeToast(w) PROVE CountTypes'
  BY <1>31 DEF CountTypes, removeToast, editor, jobs, shown
<1>32. CASE UNCHANGED vars
  BY <1>32 DEF CountTypes, vars, editor, jobs, shown
<1> QED
  BY <1>1, <1>2, <1>3, <1>4, <1>5, <1>6, <1>7, <1>8, <1>9, <1>10, <1>11, <1>12, <1>13, <1>14, <1>15, <1>16, <1>17, <1>18, <1>19, <1>20, <1>21, <1>22, <1>23, <1>24, <1>25, <1>26, <1>27, <1>28, <1>29, <1>30, <1>31, <1>32 DEF Next, EditorStep, JobStep


(* Every step keeps the types: the count of failed polls stays below the    *)
(* limit because PollFails gives way to PollGivesUp, and what a save stores *)
(* is a file.                                                               *)
LEMMA DataStep == TypeOK /\ Requested /\ [Next]_vars => DataTypes'
<1> SUFFICES ASSUME TypeOK, FlagTypes, DataTypes, Requested, [Next]_vars PROVE DataTypes'
  BY DEF TypeOK
<1>1. CASE Loaded
  <2>1. files[req] \in File
    BY <1>1, FileLoaded DEF Loaded
  <2>2. saved' \in Values
    BY <1>1, <2>1 DEF Loaded, FlagTypes, File, Values, Env
  <2>3. compose' \in Texts /\ env' \in Env /\ home' \in Servers
    BY <1>1, <2>1 DEF Loaded, File, Requested
  <2> QED
    BY <1>1, <2>2, <2>3 DEF DataTypes, Loaded, jobs, shown
<1>2. CASE LoadFails
  BY <1>2 DEF DataTypes, LoadFails, editor, jobs, shown
<1>3. CASE EditName
  BY <1>3 DEF DataTypes, Enabled, Busy, EditName, editor, jobs, shown
<1>4. CASE TurnedDown
  BY <1>4 DEF DataTypes, Enabled, Busy, TurnedDown, editor, jobs, shown
<1>5. CASE DeleteEnv
  BY <1>5 DEF DataTypes, Enabled, Busy, DeleteEnv, editor, jobs, shown
<1>6. CASE Invalid
  BY <1>6 DEF DataTypes, NotSaved, Invalid, editor, jobs, shown
<1>7. CASE Validated
  BY <1>7 DEF DataTypes, Validated, editor, jobs, shown
<1>8. CASE SaveFails
  <2>1. files' \in [Servers -> File \cup {None}]
    BY <1>8, FileStored, HalfStored DEF SaveFails, DataTypes
  <2> QED
    BY <1>8, <2>1 DEF DataTypes, SaveFails, NotSaved, jobs, shown
<1>9. CASE SaveAnswered
  <2>1. files' \in [Servers -> File \cup {None}]
    BY <1>9, FileStored DEF SaveAnswered, DataTypes
  <2>2. EnvAfterSave \in Env /\ saved' \in Values
    BY <1>9, SavedType
  <2> QED
    BY <1>9, <2>1, <2>2 DEF DataTypes, SaveAnswered, Requested, jobs, shown
<1>10. CASE Refreshed
  <2>1. PICK drawn \in refreshStacks :
          IF then = "action"
          THEN runStackAction("modal", drawn[2])
          ELSE override' = drawn[1] /\ row' = drawn[2] /\ UNCHANGED <<wait, scope>>
    BY <1>10 DEF Refreshed
  <2>2. /\ override' \in {"none", "active", "completed"} /\ row' \in {"absent", "status", "action"}
        /\ wait' \in [Waits -> {"idle", "sent", "poll", "refresh"}] /\ scope' \in [Waits -> Servers \cup {None}]
    BY <2>1, Redraws DEF runStackAction, DataTypes, Waits
  <2> QED
    BY <1>10, <2>2 DEF DataTypes, Close, Env, Refreshed
<1>11. CASE RowAction
  BY <1>11 DEF DataTypes, runStackAction, RowAction, editor, jobs, shown
<1>12. CASE AutoRefresh
  BY <1>12, Redraws DEF DataTypes, AutoRefresh, Drawn, editor, jobs
<1>13. ASSUME NEW b \in BOOLEAN, openStackModal(b) PROVE DataTypes'
  BY <1>13 DEF DataTypes, Values, Env, openStackModal, editor, jobs, shown
<1>14. ASSUME NEW b \in BOOLEAN, closeStackModal(b) PROVE DataTypes'
  BY <1>14 DEF DataTypes, Close, Busy, Env, closeStackModal, editor, jobs, shown
<1>15. ASSUME NEW c \in Texts \cup {""}, EditCompose(c) PROVE DataTypes'
  BY <1>15 DEF DataTypes, Enabled, Busy, EditCompose, editor, jobs, shown
<1>16. ASSUME NEW e \in Env, EditEnv(e) PROVE DataTypes'
  BY <1>16 DEF DataTypes, Enabled, Busy, Env, EditEnv, editor, jobs, shown
<1>17. ASSUME NEW next \in {"close", "stay", "action"}, saveStackFromModal(next) PROVE DataTypes'
  <2>1. compose' \in Texts \cup {""} /\ req' \in Servers
    BY <1>17, CleanTexts DEF saveStackFromModal, DataTypes
  <2> QED
    BY <1>17, <2>1 DEF DataTypes, saveStackFromModal, jobs, shown
<1>18. ASSUME NEW s \in Servers, SelectServer(s) PROVE DataTypes'
  BY <1>18 DEF DataTypes, SelectServer, editor, jobs, shown
<1>19. ASSUME NEW w \in Waits, JobStarted(w) PROVE DataTypes'
  BY <1>19 DEF DataTypes, JobStarted, editor, jobs, shown
<1>20. ASSUME NEW w \in Waits, JobNotStarted(w) PROVE DataTypes'
  BY <1>20 DEF DataTypes, Job, ActionFailed, Ends, Stopped, JobNotStarted, editor, jobs, shown
<1>21. ASSUME NEW w \in Waits, JobEnds(w) PROVE DataTypes'
  <2>1. files' \in [Servers -> File \cup {None}]
    BY <1>21 DEF JobEnds, DataTypes
  <2>2. job' \in [Waits -> {"none", "running", "succeeded", "failed"}] /\ scope' \in [Waits -> Servers \cup {None}]
    <3>1. PICK verdict \in {"succeeded", "failed"} : Job(w, verdict, wait[w] # "idle")
      BY <1>21 DEF JobEnds
    <3> QED
      BY <3>1 DEF Job, DataTypes
  <2> QED
    BY <1>21, <2>1, <2>2 DEF DataTypes, JobEnds, editor, shown
<1>22. ASSUME NEW w \in Waits, DeadlineNear(w) PROVE DataTypes'
  BY <1>22 DEF DataTypes, DeadlineNear, editor, jobs, shown
<1>23. ASSUME NEW w \in Waits, JobForgotten(w) PROVE DataTypes'
  BY <1>23 DEF DataTypes, Job, JobForgotten, editor, jobs, shown
<1>24. ASSUME NEW w \in Waits, StillRunning(w) PROVE DataTypes'
  BY <1>24 DEF DataTypes, maybeWarnSlowStackJob, StillRunning, editor, jobs, shown
<1>25. ASSUME NEW w \in Waits, JobOver(w) PROVE DataTypes'
  BY <1>25 DEF DataTypes, Job, ActionDone, ActionFailed, Ends, Stopped, JobOver, editor, jobs, shown
<1>26. ASSUME NEW w \in Waits, PollFails(w) PROVE DataTypes'
  BY <1>26 DEF DataTypes, GivesUp, PollFails, editor, jobs, shown
<1>27. ASSUME NEW w \in Waits, PollGivesUp(w) PROVE DataTypes'
  BY <1>27 DEF DataTypes, Job, ActionFailed, Ends, Stopped, PollGivesUp, editor, jobs, shown
<1>28. ASSUME NEW w \in Waits, ActionRefreshed(w) PROVE DataTypes'
  <2>1. override' \in {"none", "active", "completed"} /\ row' \in {"absent", "status", "action"}
    BY <1>28, Redraws DEF ActionRefreshed, Drawn, DataTypes
  <2> QED
    BY <1>28, <2>1 DEF DataTypes, Ends, Stopped, ActionRefreshed
<1>29. ASSUME NEW w \in Waits, extendStackJob(w) PROVE DataTypes'
  BY <1>29 DEF DataTypes, extendStackJob, editor, jobs, shown
<1>30. ASSUME NEW w \in Waits, Extended(w) PROVE DataTypes'
  <2>1. slow' \in [Waits -> {"no", "near", "toast", "warned", "extending"}]
    BY <1>30 DEF DataTypes, Extended
  <2> QED
    BY <1>30, <2>1 DEF DataTypes, Extended, editor, shown
<1>31. ASSUME NEW w \in Waits, removeToast(w) PROVE DataTypes'
  BY <1>31 DEF DataTypes, removeToast, editor, jobs, shown
<1>32. CASE UNCHANGED vars
  BY <1>32 DEF DataTypes, vars, editor, jobs, shown
<1> QED
  BY <1>1, <1>2, <1>3, <1>4, <1>5, <1>6, <1>7, <1>8, <1>9, <1>10, <1>11, <1>12, <1>13, <1>14, <1>15, <1>16, <1>17, <1>18, <1>19, <1>20, <1>21, <1>22, <1>23, <1>24, <1>25, <1>26, <1>27, <1>28, <1>29, <1>30, <1>31, <1>32 DEF Next, EditorStep, JobStep


(* Every step keeps the types. *)
LEMMA TypeStep == TypeOK /\ Requested /\ [Next]_vars => (TypeOK /\ Requested)'
  BY RequestedStep, FlagStep, CountStep, DataStep DEF TypeOK

(* Every state of editor, files, jobs and warnings is well typed: no save   *)
(* stores an empty docker-compose.yml, and no wait forgives more failed     *)
(* polls than the limit allows.                                             *)
THEOREM StackEditorTypeCorrect == Spec => []TypeOK
  BY TypeInit, TypeStep, PTL DEF Spec

-----------------------------------------------------------------------------
(* The files and the baseline *)

(* Who changes the files, and who changes what the editor believes of them. *)
LEMMA FilesChange ==
    ASSUME [Next]_vars
    PROVE  files' = files \/ SaveFails \/ SaveAnswered \/ \E w \in Waits : JobEnds(w)
<1>1. CASE Loaded
  BY <1>1 DEF Loaded, editor, jobs, shown
<1>2. CASE LoadFails
  BY <1>2 DEF LoadFails, editor, jobs, shown
<1>3. CASE EditName
  BY <1>3 DEF Enabled, Busy, EditName, editor, jobs, shown
<1>4. CASE TurnedDown
  BY <1>4 DEF Enabled, Busy, TurnedDown, editor, jobs, shown
<1>5. CASE DeleteEnv
  BY <1>5 DEF Enabled, Busy, DeleteEnv, editor, jobs, shown
<1>6. CASE Invalid
  BY <1>6 DEF NotSaved, Invalid, editor, jobs, shown
<1>7. CASE Validated
  BY <1>7 DEF Validated, editor, jobs, shown
<1>8. CASE SaveFails
  BY <1>8
<1>9. CASE SaveAnswered
  BY <1>9
<1>10. CASE Refreshed
  BY <1>10 DEF Close, runStackAction, Refreshed, editor, jobs, shown
<1>11. CASE RowAction
  BY <1>11 DEF runStackAction, RowAction, editor, jobs, shown
<1>12. CASE AutoRefresh
  BY <1>12 DEF AutoRefresh, editor, jobs, shown
<1>13. ASSUME NEW b \in BOOLEAN, openStackModal(b) PROVE files' = files
  BY <1>13 DEF openStackModal, editor, jobs, shown
<1>14. ASSUME NEW b \in BOOLEAN, closeStackModal(b) PROVE files' = files
  BY <1>14 DEF Close, Busy, closeStackModal, editor, jobs, shown
<1>15. ASSUME NEW c \in Texts \cup {""}, EditCompose(c) PROVE files' = files
  BY <1>15 DEF Enabled, Busy, EditCompose, editor, jobs, shown
<1>16. ASSUME NEW e \in Env, EditEnv(e) PROVE files' = files
  BY <1>16 DEF Enabled, Busy, EditEnv, editor, jobs, shown
<1>17. ASSUME NEW next \in {"close", "stay", "action"}, saveStackFromModal(next) PROVE files' = files
  BY <1>17 DEF Enabled, Busy, saveStackFromModal, editor, jobs, shown
<1>18. ASSUME NEW s \in Servers, SelectServer(s) PROVE files' = files
  BY <1>18 DEF SelectServer, editor, jobs, shown
<1>19. ASSUME NEW w \in Waits, JobStarted(w) PROVE files' = files
  BY <1>19 DEF JobStarted, editor, jobs, shown
<1>20. ASSUME NEW w \in Waits, JobNotStarted(w) PROVE files' = files
  BY <1>20 DEF Job, ActionFailed, Ends, Stopped, JobNotStarted, editor, jobs, shown
<1>21. ASSUME NEW w \in Waits, JobEnds(w) PROVE \E v \in Waits : JobEnds(v)
  BY <1>21
<1>22. ASSUME NEW w \in Waits, DeadlineNear(w) PROVE files' = files
  BY <1>22 DEF DeadlineNear, editor, jobs, shown
<1>23. ASSUME NEW w \in Waits, JobForgotten(w) PROVE files' = files
  BY <1>23 DEF Job, JobForgotten, editor, jobs, shown
<1>24. ASSUME NEW w \in Waits, StillRunning(w) PROVE files' = files
  BY <1>24 DEF maybeWarnSlowStackJob, StillRunning, editor, jobs, shown
<1>25. ASSUME NEW w \in Waits, JobOver(w) PROVE files' = files
  BY <1>25 DEF Job, ActionDone, ActionFailed, Ends, Stopped, JobOver, editor, jobs, shown
<1>26. ASSUME NEW w \in Waits, PollFails(w) PROVE files' = files
  BY <1>26 DEF GivesUp, PollFails, editor, jobs, shown
<1>27. ASSUME NEW w \in Waits, PollGivesUp(w) PROVE files' = files
  BY <1>27 DEF Job, ActionFailed, Ends, Stopped, PollGivesUp, editor, jobs, shown
<1>28. ASSUME NEW w \in Waits, ActionRefreshed(w) PROVE files' = files
  BY <1>28 DEF Ends, Stopped, ActionRefreshed, editor, jobs, shown
<1>29. ASSUME NEW w \in Waits, extendStackJob(w) PROVE files' = files
  BY <1>29 DEF extendStackJob, editor, jobs, shown
<1>30. ASSUME NEW w \in Waits, Extended(w) PROVE files' = files
  BY <1>30 DEF Extended, editor, jobs, shown
<1>31. ASSUME NEW w \in Waits, removeToast(w) PROVE files' = files
  BY <1>31 DEF removeToast, editor, jobs, shown
<1>32. CASE UNCHANGED vars
  BY <1>32 DEF vars, editor, jobs, shown
<1> QED
  BY <1>1, <1>2, <1>3, <1>4, <1>5, <1>6, <1>7, <1>8, <1>9, <1>10, <1>11, <1>12, <1>13, <1>14, <1>15, <1>16, <1>17, <1>18, <1>19, <1>20, <1>21, <1>22, <1>23, <1>24, <1>25, <1>26, <1>27, <1>28, <1>29, <1>30, <1>31, <1>32 DEF Next, EditorStep, JobStep


(* Only a load and a save change what the editor believes to be saved. *)
LEMMA BaselineChange ==
    ASSUME [Next]_vars
    PROVE  UNCHANGED <<home, saved>> \/ home' = None \/ Loaded \/ SaveAnswered
<1>1. CASE Loaded
  BY <1>1
<1>2. CASE LoadFails
  BY <1>2 DEF LoadFails, editor, jobs, shown
<1>3. CASE EditName
  BY <1>3 DEF Enabled, Busy, EditName, editor, jobs, shown
<1>4. CASE TurnedDown
  BY <1>4 DEF Enabled, Busy, TurnedDown, editor, jobs, shown
<1>5. CASE DeleteEnv
  BY <1>5 DEF Enabled, Busy, DeleteEnv, editor, jobs, shown
<1>6. CASE Invalid
  BY <1>6 DEF NotSaved, Invalid, editor, jobs, shown
<1>7. CASE Validated
  BY <1>7 DEF Validated, editor, jobs, shown
<1>8. CASE SaveFails
  BY <1>8 DEF NotSaved, Stored, PartlyStored, shouldSaveStackEnv, UseEnv, File, SaveFails, editor, jobs, shown
<1>9. CASE SaveAnswered
  BY <1>9
<1>10. CASE Refreshed
  BY <1>10 DEF Close, runStackAction, Refreshed, editor, jobs, shown
<1>11. CASE RowAction
  BY <1>11 DEF runStackAction, RowAction, editor, jobs, shown
<1>12. CASE AutoRefresh
  BY <1>12 DEF AutoRefresh, editor, jobs, shown
<1>13. ASSUME NEW b \in BOOLEAN, openStackModal(b) PROVE home' = None
  BY <1>13 DEF openStackModal, editor, jobs, shown
<1>14. ASSUME NEW b \in BOOLEAN, closeStackModal(b) PROVE home' = None
  BY <1>14 DEF Close, Busy, closeStackModal, editor, jobs, shown
<1>15. ASSUME NEW c \in Texts \cup {""}, EditCompose(c) PROVE UNCHANGED <<home, saved>>
  BY <1>15 DEF Enabled, Busy, EditCompose, editor, jobs, shown
<1>16. ASSUME NEW e \in Env, EditEnv(e) PROVE UNCHANGED <<home, saved>>
  BY <1>16 DEF Enabled, Busy, EditEnv, editor, jobs, shown
<1>17. ASSUME NEW next \in {"close", "stay", "action"}, saveStackFromModal(next) PROVE UNCHANGED <<home, saved>>
  BY <1>17 DEF Enabled, Busy, saveStackFromModal, editor, jobs, shown
<1>18. ASSUME NEW s \in Servers, SelectServer(s) PROVE UNCHANGED <<home, saved>>
  BY <1>18 DEF SelectServer, editor, jobs, shown
<1>19. ASSUME NEW w \in Waits, JobStarted(w) PROVE UNCHANGED <<home, saved>>
  BY <1>19 DEF JobStarted, editor, jobs, shown
<1>20. ASSUME NEW w \in Waits, JobNotStarted(w) PROVE UNCHANGED <<home, saved>>
  BY <1>20 DEF Job, ActionFailed, Ends, Stopped, JobNotStarted, editor, jobs, shown
<1>21. ASSUME NEW w \in Waits, JobEnds(w) PROVE UNCHANGED <<home, saved>>
  BY <1>21 DEF Job, JobEnds, editor, jobs, shown
<1>22. ASSUME NEW w \in Waits, DeadlineNear(w) PROVE UNCHANGED <<home, saved>>
  BY <1>22 DEF DeadlineNear, editor, jobs, shown
<1>23. ASSUME NEW w \in Waits, JobForgotten(w) PROVE UNCHANGED <<home, saved>>
  BY <1>23 DEF Job, JobForgotten, editor, jobs, shown
<1>24. ASSUME NEW w \in Waits, StillRunning(w) PROVE UNCHANGED <<home, saved>>
  BY <1>24 DEF maybeWarnSlowStackJob, StillRunning, editor, jobs, shown
<1>25. ASSUME NEW w \in Waits, JobOver(w) PROVE UNCHANGED <<home, saved>>
  BY <1>25 DEF Job, ActionDone, ActionFailed, Ends, Stopped, JobOver, editor, jobs, shown
<1>26. ASSUME NEW w \in Waits, PollFails(w) PROVE UNCHANGED <<home, saved>>
  BY <1>26 DEF GivesUp, PollFails, editor, jobs, shown
<1>27. ASSUME NEW w \in Waits, PollGivesUp(w) PROVE UNCHANGED <<home, saved>>
  BY <1>27 DEF Job, ActionFailed, Ends, Stopped, PollGivesUp, editor, jobs, shown
<1>28. ASSUME NEW w \in Waits, ActionRefreshed(w) PROVE UNCHANGED <<home, saved>>
  BY <1>28 DEF Ends, Stopped, ActionRefreshed, editor, jobs, shown
<1>29. ASSUME NEW w \in Waits, extendStackJob(w) PROVE UNCHANGED <<home, saved>>
  BY <1>29 DEF extendStackJob, editor, jobs, shown
<1>30. ASSUME NEW w \in Waits, Extended(w) PROVE UNCHANGED <<home, saved>>
  BY <1>30 DEF Extended, editor, jobs, shown
<1>31. ASSUME NEW w \in Waits, removeToast(w) PROVE UNCHANGED <<home, saved>>
  BY <1>31 DEF removeToast, editor, jobs, shown
<1>32. CASE UNCHANGED vars
  BY <1>32 DEF vars, editor, jobs, shown
<1> QED
  BY <1>1, <1>2, <1>3, <1>4, <1>5, <1>6, <1>7, <1>8, <1>9, <1>10, <1>11, <1>12, <1>13, <1>14, <1>15, <1>16, <1>17, <1>18, <1>19, <1>20, <1>21, <1>22, <1>23, <1>24, <1>25, <1>26, <1>27, <1>28, <1>29, <1>30, <1>31, <1>32 DEF Next, EditorStep, JobStep


(* What is stored reads as what is shown, and the new baseline as both.     *)
LEMMA SavedReads ==
    ASSUME SaveAnswered, FlagTypes
    PROVE  Reading(saved') = Shown /\ Unchanged'
<1>1. UseEnv(shouldSaveStackEnv, FALSE, EnvAfterSave) = shouldSaveStackEnv
  BY DEF UseEnv, shouldSaveStackEnv, EnvAfterSave
<1>2. saved' = [named |-> named, compose |-> compose, env |-> EnvAfterSave, useEnv |-> shouldSaveStackEnv]
  BY <1>1 DEF SaveAnswered
<1>3. shouldSaveStackEnv => EnvAfterSave = env
  BY DEF shouldSaveStackEnv, UseEnv, EnvAfterSave
<1>4. shouldSaveStackEnv' = shouldSaveStackEnv
  BY <1>1 DEF SaveAnswered, shouldSaveStackEnv, UseEnv
<1>5. Reading(saved') = Shown
  BY <1>2, <1>3 DEF Reading, Shown
<1>6. getStackModalValues' = [named |-> named, compose |-> compose, env |-> EnvAfterSave, useEnv |-> shouldSaveStackEnv]
  BY <1>4 DEF SaveAnswered, getStackModalValues
<1> QED
  BY <1>2, <1>5, <1>6 DEF Unchanged

(* A missing .env has no text, whatever is stored. *)
LEMMA FilesStep == TypeOK /\ Requested /\ FilesRead /\ [Next]_vars => FilesRead'
<1> SUFFICES ASSUME TypeOK, Requested, FilesRead, [Next]_vars PROVE FilesRead'
  OBVIOUS
<1>1. Shown.has \/ Shown.env = ""
  BY DEF Shown
<1>5. ASSUME phase = "saving" PROVE Half(files[req]).has \/ Half(files[req]).env = ""
  BY <1>5 DEF Half, FilesRead, Requested
<1>2. CASE files' = files
  BY <1>2 DEF FilesRead
<1>3. CASE SaveFails \/ SaveAnswered
  <2>1. \/ files' = files \/ files' = [files EXCEPT ![req] = Shown]
        \/ files' = [files EXCEPT ![req] = Half(files[req])]
    BY <1>3, FileStored, HalfStored DEF SaveFails, SaveAnswered
  <2>2. phase = "saving"
    BY <1>3 DEF SaveFails, SaveAnswered
  <2> QED
    BY <2>1, <2>2, <1>1, <1>5 DEF FilesRead, TypeOK, DataTypes
<1>4. ASSUME NEW w \in Waits, JobEnds(w) PROVE FilesRead'
  BY <1>4 DEF FilesRead, JobEnds, TypeOK, DataTypes
<1> QED
  BY <1>2, <1>3, <1>4, FilesChange

(* The baseline stays what the server has: an answer sets both, a failed    *)
(* save makes it uncertain, and a removal takes the files away.             *)
LEMMA BaselineStep ==
    TypeOK /\ Requested /\ FilesRead /\ Baseline /\ [Next]_vars => Baseline'
<1> SUFFICES ASSUME TypeOK, Requested, FilesRead, Baseline, [Next]_vars, home' # None PROVE Baseline'
  BY DEF Baseline
<1>1. CASE Loaded
  <2>1. files[req] \in File /\ req \in Servers
    BY <1>1, FileLoaded DEF Loaded, Requested, TypeOK
  <2>2. Reading(saved') = files[req]
    BY <1>1, <2>1 DEF Loaded, Reading, FilesRead, File
  <2>3. saved' \in Values
    BY <1>1, <2>1 DEF Loaded, TypeOK, FlagTypes, File, Values, Env
  <2> QED
    BY <1>1, <2>2, <2>3, StackConstants DEF Loaded, Baseline
<1>2. CASE SaveAnswered
  <2>1. saved' \in Values
    BY <1>2, SavedType
  <2> QED
    BY <1>2, <2>1, FileStored, SavedReads, StackConstants DEF SaveAnswered, Baseline, Requested, TypeOK, DataTypes
<1>3. CASE UNCHANGED <<home, saved>> /\ ~SaveAnswered /\ ~SaveFails
  BY <1>3, FilesChange DEF Baseline, JobEnds, TypeOK, DataTypes
<1>4. CASE SaveFails
  BY <1>4 DEF SaveFails, NotSaved
<1> QED
  BY <1>1, <1>2, <1>3, <1>4, BaselineChange

-----------------------------------------------------------------------------
(* The dialog *)

(* An editor that is left alone stays as changed or unchanged as it is. *)
LEMMA ValuesKept ==
    ASSUME UNCHANGED <<named, compose, env, envExists, envDelete, saved>>
    PROVE  Unchanged' = Unchanged
  BY DEF Unchanged, getStackModalValues, shouldSaveStackEnv, UseEnv

(* An action ends for its own caller only. *)
LEMMA ActionEnds ==
    ASSUME FlagTypes, DataTypes, NEW w \in Waits,
           JobNotStarted(w) \/ JobOver(w) \/ PollGivesUp(w) \/ ActionRefreshed(w)
    PROVE  /\ UNCHANGED <<phase, then, open, home, named, compose, env, envExists, envDelete, saved>>
           /\ \/ UNCHANGED operation /\ (wait'["modal"] # "idle" => wait["modal"] # "idle")
              \/ wait["modal"] # "idle" /\ wait'["modal"] = "idle"
<1>1. UNCHANGED <<phase, then, open, home, named, compose, env, envExists, envDelete, saved>>
  BY DEF JobNotStarted, JobOver, PollGivesUp, ActionRefreshed
<1>2. wait[w] # "idle"
  BY DEF JobNotStarted, JobOver, PollGivesUp, ActionRefreshed
<1>3. Ends(w) \/ (Stopped(w, "refresh") /\ UNCHANGED operation)
  BY DEF JobNotStarted, JobOver, PollGivesUp, ActionRefreshed, ActionFailed, ActionDone
<1>4. wait' = [wait EXCEPT ![w] = "idle"] \/ wait' = [wait EXCEPT ![w] = "refresh"]
  BY <1>3 DEF Ends, Stopped
<1>5. CASE w = "modal"
  <2>1. CASE Ends(w)
    BY <1>1, <1>2, <1>5, <2>1 DEF Ends, Stopped, DataTypes
  <2>2. CASE UNCHANGED operation
    BY <1>1, <1>2, <1>5, <2>2
  <2> QED
    BY <1>3, <2>1, <2>2
<1>6. CASE w # "modal"
  <2>1. operation' = operation
    BY <1>3, <1>6 DEF Ends, FlagTypes
  <2>2. wait'["modal"] = wait["modal"]
    BY <1>4, <1>6 DEF DataTypes, Waits
  <2> QED
    BY <1>1, <2>1, <2>2
<1> QED
  BY <1>5, <1>6

(* What a save has made equal stays so until the list is refreshed. *)
LEMMA SaveStep == TypeOK /\ Requested /\ SaveInv /\ WaitInv /\ [Next]_vars => SaveInv'
<1> SUFFICES ASSUME FlagTypes, DataTypes, Requested, SaveInv, WaitInv, [Next]_vars PROVE SaveInv'
  BY DEF TypeOK
<1>1. CASE Loaded
  BY <1>1 DEF SaveInv, Loaded, editor, jobs, shown
<1>2. CASE LoadFails
  BY <1>2 DEF SaveInv, LoadFails, editor, jobs, shown
<1>3. CASE EditName
  BY <1>3 DEF SaveInv, Enabled, Busy, EditName, editor, jobs, shown
<1>4. CASE TurnedDown
  BY <1>4 DEF SaveInv, Enabled, Busy, TurnedDown, editor, jobs, shown
<1>5. CASE DeleteEnv
  BY <1>5 DEF SaveInv, Enabled, Busy, DeleteEnv, editor, jobs, shown
<1>6. CASE Invalid
  BY <1>6 DEF SaveInv, NotSaved, Invalid, editor, jobs, shown
<1>7. CASE Validated
  BY <1>7 DEF SaveInv, Validated, editor, jobs, shown
<1>8. CASE SaveFails
  BY <1>8 DEF SaveInv, NotSaved, Stored, PartlyStored, shouldSaveStackEnv, UseEnv, File, SaveFails, editor, jobs, shown
<1>9. CASE SaveAnswered
  <2>1. home' # None
    BY <1>9, NoServer DEF Requested, SaveAnswered
  <2>2. Unchanged'
    BY <1>9, SavedReads
  <2>3. open' /\ (then' = "action" => operation')
    BY <1>9 DEF SaveInv, SaveAnswered
  <2> QED
    BY <1>9, <2>1, <2>2, <2>3 DEF SaveInv, SaveAnswered
<1>10. CASE Refreshed
  BY <1>10 DEF SaveInv, Close, runStackAction, Refreshed, editor, jobs, shown
<1>11. CASE RowAction
  BY <1>11, ValuesKept DEF SaveInv, runStackAction, RowAction, editor, jobs, shown
<1>12. CASE AutoRefresh
  BY <1>12, ValuesKept DEF SaveInv, AutoRefresh, editor, jobs, shown
<1>13. ASSUME NEW b \in BOOLEAN, openStackModal(b) PROVE SaveInv'
  BY <1>13 DEF SaveInv, openStackModal, editor, jobs, shown
<1>14. ASSUME NEW b \in BOOLEAN, closeStackModal(b) PROVE SaveInv'
  BY <1>14 DEF SaveInv, Close, Busy, closeStackModal, editor, jobs, shown
<1>15. ASSUME NEW c \in Texts \cup {""}, EditCompose(c) PROVE SaveInv'
  BY <1>15 DEF SaveInv, Enabled, Busy, EditCompose, editor, jobs, shown
<1>16. ASSUME NEW e \in Env, EditEnv(e) PROVE SaveInv'
  BY <1>16 DEF SaveInv, Enabled, Busy, EditEnv, editor, jobs, shown
<1>17. ASSUME NEW next \in {"close", "stay", "action"}, saveStackFromModal(next) PROVE SaveInv'
  BY <1>17 DEF SaveInv, Enabled, Busy, saveStackFromModal, editor, jobs, shown
<1>18. ASSUME NEW s \in Servers, SelectServer(s) PROVE SaveInv'
  BY <1>18, ValuesKept DEF SaveInv, SelectServer, editor, jobs, shown
<1>19. ASSUME NEW w \in Waits, JobStarted(w) PROVE SaveInv'
  BY <1>19, ValuesKept DEF SaveInv, JobStarted, editor, jobs, shown
<1>20. ASSUME NEW w \in Waits, JobNotStarted(w) PROVE SaveInv'
  BY <1>20, ActionEnds, ValuesKept DEF SaveInv, WaitInv
<1>21. ASSUME NEW w \in Waits, JobEnds(w) PROVE SaveInv'
  BY <1>21, ValuesKept DEF SaveInv, Job, JobEnds, editor, jobs, shown
<1>22. ASSUME NEW w \in Waits, DeadlineNear(w) PROVE SaveInv'
  BY <1>22, ValuesKept DEF SaveInv, DeadlineNear, editor, jobs, shown
<1>23. ASSUME NEW w \in Waits, JobForgotten(w) PROVE SaveInv'
  BY <1>23, ValuesKept DEF SaveInv, Job, JobForgotten, editor, jobs, shown
<1>24. ASSUME NEW w \in Waits, StillRunning(w) PROVE SaveInv'
  BY <1>24, ValuesKept DEF SaveInv, maybeWarnSlowStackJob, StillRunning, editor, jobs, shown
<1>25. ASSUME NEW w \in Waits, JobOver(w) PROVE SaveInv'
  BY <1>25, ActionEnds, ValuesKept DEF SaveInv, WaitInv
<1>26. ASSUME NEW w \in Waits, PollFails(w) PROVE SaveInv'
  BY <1>26, ValuesKept DEF SaveInv, GivesUp, PollFails, editor, jobs, shown
<1>27. ASSUME NEW w \in Waits, PollGivesUp(w) PROVE SaveInv'
  BY <1>27, ActionEnds, ValuesKept DEF SaveInv, WaitInv
<1>28. ASSUME NEW w \in Waits, ActionRefreshed(w) PROVE SaveInv'
  BY <1>28, ActionEnds, ValuesKept DEF SaveInv, WaitInv
<1>29. ASSUME NEW w \in Waits, extendStackJob(w) PROVE SaveInv'
  BY <1>29, ValuesKept DEF SaveInv, extendStackJob, editor, jobs, shown
<1>30. ASSUME NEW w \in Waits, Extended(w) PROVE SaveInv'
  BY <1>30, ValuesKept DEF SaveInv, Extended, editor, jobs, shown
<1>31. ASSUME NEW w \in Waits, removeToast(w) PROVE SaveInv'
  BY <1>31, ValuesKept DEF SaveInv, removeToast, editor, jobs, shown
<1>32. CASE UNCHANGED vars
  BY <1>32, ValuesKept DEF SaveInv, vars, editor, jobs, shown
<1> QED
  BY <1>1, <1>2, <1>3, <1>4, <1>5, <1>6, <1>7, <1>8, <1>9, <1>10, <1>11, <1>12, <1>13, <1>14, <1>15, <1>16, <1>17, <1>18, <1>19, <1>20, <1>21, <1>22, <1>23, <1>24, <1>25, <1>26, <1>27, <1>28, <1>29, <1>30, <1>31, <1>32 DEF Next, EditorStep, JobStep


(* The dialog stays locked as long as its action lasts. *)
LEMMA WaitStep == TypeOK /\ SaveInv /\ WaitInv /\ [Next]_vars => WaitInv'
<1> SUFFICES ASSUME FlagTypes, DataTypes, SaveInv, WaitInv, [Next]_vars PROVE WaitInv'
  BY DEF TypeOK
<1>1. CASE Loaded
  BY <1>1 DEF WaitInv, Loaded, editor, jobs, shown
<1>2. CASE LoadFails
  BY <1>2 DEF WaitInv, LoadFails, editor, jobs, shown
<1>3. CASE EditName
  BY <1>3 DEF WaitInv, Enabled, Busy, EditName, editor, jobs, shown
<1>4. CASE TurnedDown
  BY <1>4 DEF WaitInv, Enabled, Busy, TurnedDown, editor, jobs, shown
<1>5. CASE DeleteEnv
  BY <1>5 DEF WaitInv, Enabled, Busy, DeleteEnv, editor, jobs, shown
<1>6. CASE Invalid
  BY <1>6 DEF WaitInv, NotSaved, Invalid, editor, jobs, shown
<1>7. CASE Validated
  BY <1>7 DEF WaitInv, Validated, editor, jobs, shown
<1>8. CASE SaveFails
  BY <1>8 DEF WaitInv, NotSaved, Stored, PartlyStored, shouldSaveStackEnv, UseEnv, File, SaveFails, editor, jobs, shown
<1>9. CASE SaveAnswered
  BY <1>9 DEF WaitInv, Stored, EnvAfterSave, UseEnv, shouldSaveStackEnv, File, SaveAnswered, editor, jobs, shown
<1>10. CASE Refreshed
  <2>1. CASE then = "action"
    BY <1>10, <2>1, ValuesKept DEF Refreshed, SaveInv, WaitInv
  <2>2. CASE then # "action"
    BY <1>10, <2>2 DEF Refreshed, WaitInv
  <2> QED
    BY <2>1, <2>2
<1>11. CASE RowAction
  BY <1>11, ValuesKept DEF WaitInv, runStackAction, RowAction, editor, jobs, shown
<1>12. CASE AutoRefresh
  BY <1>12, ValuesKept DEF WaitInv, AutoRefresh, editor, jobs, shown
<1>13. ASSUME NEW b \in BOOLEAN, openStackModal(b) PROVE WaitInv'
  BY <1>13 DEF WaitInv, openStackModal, editor, jobs, shown
<1>14. ASSUME NEW b \in BOOLEAN, closeStackModal(b) PROVE WaitInv'
  BY <1>14 DEF WaitInv, Close, Busy, closeStackModal, editor, jobs, shown
<1>15. ASSUME NEW c \in Texts \cup {""}, EditCompose(c) PROVE WaitInv'
  BY <1>15 DEF WaitInv, Enabled, Busy, EditCompose, editor, jobs, shown
<1>16. ASSUME NEW e \in Env, EditEnv(e) PROVE WaitInv'
  BY <1>16 DEF WaitInv, Enabled, Busy, EditEnv, editor, jobs, shown
<1>17. ASSUME NEW next \in {"close", "stay", "action"}, saveStackFromModal(next) PROVE WaitInv'
  BY <1>17 DEF WaitInv, Enabled, Busy, saveStackFromModal, editor, jobs, shown
<1>18. ASSUME NEW s \in Servers, SelectServer(s) PROVE WaitInv'
  BY <1>18, ValuesKept DEF WaitInv, SelectServer, editor, jobs, shown
<1>19. ASSUME NEW w \in Waits, JobStarted(w) PROVE WaitInv'
  BY <1>19, ValuesKept DEF WaitInv, JobStarted, editor, jobs, shown
<1>20. ASSUME NEW w \in Waits, JobNotStarted(w) PROVE WaitInv'
  BY <1>20, ActionEnds, ValuesKept DEF WaitInv
<1>21. ASSUME NEW w \in Waits, JobEnds(w) PROVE WaitInv'
  BY <1>21, ValuesKept DEF WaitInv, Job, JobEnds, editor, jobs, shown
<1>22. ASSUME NEW w \in Waits, DeadlineNear(w) PROVE WaitInv'
  BY <1>22, ValuesKept DEF WaitInv, DeadlineNear, editor, jobs, shown
<1>23. ASSUME NEW w \in Waits, JobForgotten(w) PROVE WaitInv'
  BY <1>23, ValuesKept DEF WaitInv, Job, JobForgotten, editor, jobs, shown
<1>24. ASSUME NEW w \in Waits, StillRunning(w) PROVE WaitInv'
  BY <1>24, ValuesKept DEF WaitInv, maybeWarnSlowStackJob, StillRunning, editor, jobs, shown
<1>25. ASSUME NEW w \in Waits, JobOver(w) PROVE WaitInv'
  BY <1>25, ActionEnds, ValuesKept DEF WaitInv
<1>26. ASSUME NEW w \in Waits, PollFails(w) PROVE WaitInv'
  BY <1>26, ValuesKept DEF WaitInv, GivesUp, PollFails, editor, jobs, shown
<1>27. ASSUME NEW w \in Waits, PollGivesUp(w) PROVE WaitInv'
  BY <1>27, ActionEnds, ValuesKept DEF WaitInv
<1>28. ASSUME NEW w \in Waits, ActionRefreshed(w) PROVE WaitInv'
  BY <1>28, ActionEnds, ValuesKept DEF WaitInv
<1>29. ASSUME NEW w \in Waits, extendStackJob(w) PROVE WaitInv'
  BY <1>29, ValuesKept DEF WaitInv, extendStackJob, editor, jobs, shown
<1>30. ASSUME NEW w \in Waits, Extended(w) PROVE WaitInv'
  BY <1>30, ValuesKept DEF WaitInv, Extended, editor, jobs, shown
<1>31. ASSUME NEW w \in Waits, removeToast(w) PROVE WaitInv'
  BY <1>31, ValuesKept DEF WaitInv, removeToast, editor, jobs, shown
<1>32. CASE UNCHANGED vars
  BY <1>32, ValuesKept DEF WaitInv, vars, editor, jobs, shown
<1> QED
  BY <1>1, <1>2, <1>3, <1>4, <1>5, <1>6, <1>7, <1>8, <1>9, <1>10, <1>11, <1>12, <1>13, <1>14, <1>15, <1>16, <1>17, <1>18, <1>19, <1>20, <1>21, <1>22, <1>23, <1>24, <1>25, <1>26, <1>27, <1>28, <1>29, <1>30, <1>31, <1>32 DEF Next, EditorStep, JobStep


(* An action that is shown as going on is being polled. *)
LEMMA ShownStep == TypeOK /\ SaveInv /\ WaitInv /\ ShownInv /\ [Next]_vars => ShownInv'
<1> SUFFICES ASSUME DataTypes, WaitInv, ShownInv, [Next]_vars PROVE ShownInv'
  BY DEF TypeOK
<1> USE DEF DataTypes
<1>1. CASE Loaded
  BY <1>1 DEF ShownInv, RowShows, Loaded, editor, jobs, shown
<1>2. CASE LoadFails
  BY <1>2 DEF ShownInv, RowShows, LoadFails, editor, jobs, shown
<1>3. CASE EditName
  BY <1>3 DEF ShownInv, RowShows, Enabled, Busy, EditName, editor, jobs, shown
<1>4. CASE TurnedDown
  BY <1>4 DEF ShownInv, RowShows, Enabled, Busy, TurnedDown, editor, jobs, shown
<1>5. CASE DeleteEnv
  BY <1>5 DEF ShownInv, RowShows, Enabled, Busy, DeleteEnv, editor, jobs, shown
<1>6. CASE Invalid
  BY <1>6 DEF ShownInv, RowShows, NotSaved, Invalid, editor, jobs, shown
<1>7. CASE Validated
  BY <1>7 DEF ShownInv, RowShows, Validated, editor, jobs, shown
<1>8. CASE SaveFails
  BY <1>8 DEF ShownInv, RowShows, NotSaved, Stored, PartlyStored, shouldSaveStackEnv, UseEnv, File, SaveFails, editor, jobs, shown
<1>9. CASE SaveAnswered
  BY <1>9 DEF ShownInv, RowShows, Stored, EnvAfterSave, UseEnv, shouldSaveStackEnv, File, SaveAnswered, editor, jobs, shown
<1>10. CASE Refreshed
  <2>1. CASE then = "action"
    <3>1. wait["modal"] = "idle"
      BY <1>10 DEF Refreshed, WaitInv
    <3>2. wait' = [wait EXCEPT !["modal"] = "sent"] /\ slow' = slow /\ row' \in {"absent", "action"}
      BY <1>10, <2>1 DEF Refreshed, runStackAction
    <3> QED
      BY <3>1, <3>2 DEF ShownInv, RowShows, Waits
  <2>2. CASE then # "action"
    <3>1. override' \in {override, "none"} /\ RowShows' /\ wait' = wait /\ slow' = slow
      BY <1>10, <2>2, Redraws DEF Refreshed, ShownInv, RowShows
    <3> QED
      BY <3>1 DEF ShownInv
  <2> QED
    BY <2>1, <2>2
<1>11. CASE RowAction
  <2>1. /\ wait["row"] = "idle" /\ wait' = [wait EXCEPT !["row"] = "sent"] /\ slow' = slow
        /\ row' \in {"absent", "action"}
    BY <1>11 DEF RowAction, runStackAction
  <2> QED
    BY <2>1 DEF ShownInv, RowShows, Waits
<1>12. CASE AutoRefresh
  <2>1. override' \in {override, "none"} /\ RowShows' /\ wait' = wait /\ slow' = slow
    BY <1>12, Redraws DEF AutoRefresh, Drawn, ShownInv, RowShows, jobs
  <2> QED
    BY <2>1 DEF ShownInv
<1>13. ASSUME NEW b \in BOOLEAN, openStackModal(b) PROVE ShownInv'
  BY <1>13 DEF ShownInv, RowShows, openStackModal, editor, jobs, shown
<1>14. ASSUME NEW b \in BOOLEAN, closeStackModal(b) PROVE ShownInv'
  BY <1>14 DEF ShownInv, RowShows, Close, Busy, closeStackModal, editor, jobs, shown
<1>15. ASSUME NEW c \in Texts \cup {""}, EditCompose(c) PROVE ShownInv'
  BY <1>15 DEF ShownInv, RowShows, Enabled, Busy, EditCompose, editor, jobs, shown
<1>16. ASSUME NEW e \in Env, EditEnv(e) PROVE ShownInv'
  BY <1>16 DEF ShownInv, RowShows, Enabled, Busy, EditEnv, editor, jobs, shown
<1>17. ASSUME NEW next \in {"close", "stay", "action"}, saveStackFromModal(next) PROVE ShownInv'
  BY <1>17 DEF ShownInv, RowShows, Enabled, Busy, saveStackFromModal, editor, jobs, shown
<1>18. ASSUME NEW s \in Servers, SelectServer(s) PROVE ShownInv'
  BY <1>18 DEF ShownInv, RowShows, SelectServer, editor, jobs, shown
<1>19. ASSUME NEW w \in Waits, JobStarted(w) PROVE ShownInv'
  BY <1>19 DEF ShownInv, RowShows, JobStarted, editor, jobs, shown
<1>20. ASSUME NEW w \in Waits, JobNotStarted(w) PROVE ShownInv'
  BY <1>20 DEF ShownInv, RowShows, Job, ActionFailed, Ends, Stopped, JobNotStarted, editor, jobs, shown
<1>21. ASSUME NEW w \in Waits, JobEnds(w) PROVE ShownInv'
  BY <1>21 DEF ShownInv, RowShows, Job, JobEnds, editor, jobs, shown
<1>22. ASSUME NEW w \in Waits, DeadlineNear(w) PROVE ShownInv'
  BY <1>22 DEF ShownInv, RowShows, DeadlineNear, editor, jobs, shown
<1>23. ASSUME NEW w \in Waits, JobForgotten(w) PROVE ShownInv'
  BY <1>23 DEF ShownInv, RowShows, Job, JobForgotten, editor, jobs, shown
<1>24. ASSUME NEW w \in Waits, StillRunning(w) PROVE ShownInv'
  BY <1>24 DEF ShownInv, RowShows, maybeWarnSlowStackJob, StillRunning, editor, jobs, shown
<1>25. ASSUME NEW w \in Waits, JobOver(w) PROVE ShownInv'
  <2>1. /\ wait' = [wait EXCEPT ![w] = "refresh"] \/ wait' = [wait EXCEPT ![w] = "idle"]
        /\ slow' = [slow EXCEPT ![w] = "no"] /\ override' # "active" /\ RowShows'
    BY <1>25 DEF JobOver, ActionDone, ActionFailed, Ends, Stopped, ShownInv, RowShows
  <2> QED
    BY <2>1 DEF ShownInv
<1>26. ASSUME NEW w \in Waits, PollFails(w) PROVE ShownInv'
  BY <1>26 DEF ShownInv, RowShows, GivesUp, PollFails, editor, jobs, shown
<1>27. ASSUME NEW w \in Waits, PollGivesUp(w) PROVE ShownInv'
  BY <1>27 DEF ShownInv, RowShows, Job, ActionFailed, Ends, Stopped, PollGivesUp, editor, jobs, shown
<1>28. ASSUME NEW w \in Waits, ActionRefreshed(w) PROVE ShownInv'
  <2>1. override' \in {override, "none"} /\ RowShows' /\ wait[w] = "refresh"
    BY <1>28, Redraws DEF ActionRefreshed, Drawn, ShownInv, RowShows
  <2>2. wait' = [wait EXCEPT ![w] = "idle"] /\ slow' = [slow EXCEPT ![w] = "no"]
    BY <1>28 DEF ActionRefreshed, Ends, Stopped
  <2> QED
    BY <2>1, <2>2 DEF ShownInv
<1>29. ASSUME NEW w \in Waits, extendStackJob(w) PROVE ShownInv'
  BY <1>29 DEF ShownInv, RowShows, extendStackJob, editor, jobs, shown
<1>30. ASSUME NEW w \in Waits, Extended(w) PROVE ShownInv'
  BY <1>30 DEF ShownInv, RowShows, Extended, editor, jobs, shown
<1>31. ASSUME NEW w \in Waits, removeToast(w) PROVE ShownInv'
  BY <1>31 DEF ShownInv, RowShows, removeToast, editor, jobs, shown
<1>32. CASE UNCHANGED vars
  BY <1>32 DEF ShownInv, RowShows, vars, editor, jobs, shown
<1> QED
  BY <1>1, <1>2, <1>3, <1>4, <1>5, <1>6, <1>7, <1>8, <1>9, <1>10, <1>11, <1>12, <1>13, <1>14, <1>15, <1>16, <1>17, <1>18, <1>19, <1>20, <1>21, <1>22, <1>23, <1>24, <1>25, <1>26, <1>27, <1>28, <1>29, <1>30, <1>31, <1>32 DEF Next, EditorStep, JobStep

-----------------------------------------------------------------------------
(* The invariants *)

(* The dialog is closed at first. *)
LEMMA EditorInit == Init => EditorInv /\ ShownInv
<1> SUFFICES ASSUME Init PROVE EditorInv /\ ShownInv
  OBVIOUS
<1>1. FilesRead
  <2>1. files \in [Servers -> {None} \cup {f \in File : f.has <=> f.env # ""}]
    BY StackConstants DEF Init
  <2> QED
    BY <2>1 DEF FilesRead
<1>2. Baseline /\ SaveInv
  BY DEF Init, Baseline, SaveInv
<1>3. WaitInv /\ ShownInv
  BY DEF Init, WaitInv, ShownInv, RowShows, Waits
<1> QED
  BY <1>1, <1>2, <1>3 DEF EditorInv

(* Every step keeps the invariant. *)
LEMMA IndStep == IndInv /\ [Next]_vars => IndInv'
  BY TypeStep, FilesStep, BaselineStep, SaveStep, WaitStep, ShownStep DEF IndInv, EditorInv

(* So it always holds. *)
LEMMA Inductive == Spec => []IndInv
<1>1. Init => IndInv
  BY TypeInit, EditorInit DEF IndInv
<1> QED
  BY <1>1, IndStep, PTL DEF Spec

(* An editor without changes shows what the server would read back: its     *)
(* values are the baseline, and the baseline is what is stored.             *)
LEMMA CleanReads ==
    ASSUME TypeOK, Baseline, Unchanged, home # None
    PROVE  files[home] \in {Shown, None}
<1>1. Reading(getStackModalValues) = Shown
  BY DEF Reading, getStackModalValues, Shown
<1> QED
  BY <1>1 DEF Baseline, Unchanged

(* No edit is lost by a dialog that closes without a word: for any servers, *)
(* texts, failures and moves of the selection.                              *)
THEOREM StackEditorCleanCorrect == Spec => []CleanMeansSaved
<1>1. IndInv => CleanMeansSaved
  <2> SUFFICES ASSUME IndInv, ~Changed, home # None PROVE files[home] \in {Shown, None}
    BY DEF CleanMeansSaved
  <2>1. Unchanged
    BY DEF Changed, Unchanged, IndInv, EditorInv, Baseline
  <2> QED
    BY <2>1, CleanReads DEF IndInv, EditorInv
<1> QED
  BY <1>1, Inductive, PTL

(* An action of the editor runs what was saved before it.                   *)
THEOREM StackActionSavedCorrect == Spec => []ActionRunsSaved
<1>1. IndInv => ActionRunsSaved
  BY CleanReads DEF IndInv, EditorInv, WaitInv, ActionRunsSaved
<1> QED
  BY <1>1, Inductive, PTL

(* No warning outlives the polling of its job, and no override that waits   *)
(* for an action outlives the asking and polling: runStackAction and        *)
(* waitForStackJob leave at most a completed entry behind.                  *)
THEOREM StackShownCorrect == Spec => []LeftoversExpire
<1>1. IndInv => LeftoversExpire
  BY DEF IndInv, ShownInv, RowShows, LeftoversExpire
<1> QED
  BY <1>1, Inductive, PTL

=============================================================================
