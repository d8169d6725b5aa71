--------------------------- MODULE WebListsProofs ---------------------------
(***************************************************************************)
(* Proofs about WebLists, for any servers, lists of servers, menus and     *)
(* networks: the types, that each list implements ScopedRefresh, and the   *)
(* safety invariants.                                                      *)
(*                                                                         *)
(* The rows of a settled list are of the selected server because each list *)
(* implements ScopedRefresh (ListsScoped), and ScopedRefresh keeps that    *)
(* promise (ScopedSettled); the buttons of the rows need LabelInv besides. *)
(* The dialogs rest on PullInv and NetworkInv: the countdown of an earlier *)
(* pull is stopped before another one begins, and a request of an earlier  *)
(* dialog is aborted before another one opens.                             *)
(***************************************************************************)
EXTENDS WebLists, TLAPS

(* The list of kind k as a list of ScopedRefresh. *)
List(k) == INSTANCE ScopedRefresh WITH
    shown <- Shown(k), request <- flight[k], from <- rows[k].from

(* The buttons of a settled list act on the selected server. *)
LabelInv ==
    \A k \in Kinds : Shown(k) /\ flight[k] = None /\ rows[k] # Empty => rows[k].label = selected

(* No countdown runs while a pull is under way. *)
PullInv == act # None /\ act.what = "pull" => pullOpen /\ imagesPullInProgress /\ pullTimer = 0

(* What a dialog has asked for is what it was opened for. *)
NetworkInv ==
    modal # "none" => netFlight \in {title, None} /\ shownNetwork \in {title, None}

IndInv == TypeOK /\ LabelInv /\ TargetsListed /\ PullInv /\ NetworkInv

(* The types, in four parts. *)
PlaceTypes ==
    /\ servers \in SUBSET Servers /\ selected \in Servers \cup {None}
    /\ visible \in SUBSET Modes /\ view \in {"containers", "other"} /\ mode \in Modes
    /\ timers \in SUBSET {"containers", "stacks", "resources"}

ListTypes ==
    /\ rows \in [Kinds -> Row \cup {Empty}]
    /\ flight \in [Kinds -> Servers \cup {None}]
    /\ armed \in SUBSET Armed /\ image \in BOOLEAN
    /\ tableFlight \in Servers \cup {None}

ActTypes == act \in Action \cup {None}

DialogTypes ==
    /\ pullOpen \in BOOLEAN /\ imagesPullInProgress \in BOOLEAN /\ pullTimer \in 0 .. AutoClose
    /\ modal \in {"none", "details", "connect", "disconnect"}
    /\ title \in Networks \cup {None} /\ network \in Networks \cup {None} /\ shownNetwork \in Networks \cup {None}
    /\ netFlight \in Networks \cup {None}

(* TypeOK, part by part. *)
LEMMA TypeParts == TypeOK <=> PlaceTypes /\ ListTypes /\ ActTypes /\ DialogTypes
  BY DEF TypeOK, PlaceTypes, ListTypes, ActTypes, DialogTypes

-----------------------------------------------------------------------------
(* The helpers *)

(* The mark for nothing is no server, network or list. *)
LEMMA NoneApart == None \notin Servers /\ None \notin Networks /\ None \notin Kinds
  BY ListConstants, MenusAssumption

(* The countdown of the pull dialog starts at a number. *)
LEMMA AutoCloseNat == AutoClose \in Nat /\ 0 \in 0 .. AutoClose /\ AutoClose \in 0 .. AutoClose
<1>1. AutoClose \in Nat
  BY ListConstants
<1> QED
  BY <1>1

(* Every mode shows one of the five lists. *)
LEMMA KindOfKind == \A m \in Modes : KindOf(m) \in Kinds
  BY DEF KindOf, Kinds

(* What a row, or an empty list, is made of. *)
LEMMA RowFields ==
    ASSUME NEW r \in Row \cup {Empty}
    PROVE  r.from \in Servers \cup {None} /\ r.label \in Servers \cup {None} /\ r.item \in BOOLEAN
<1>1. CASE r \in Row
  BY <1>1 DEF Row
<1>2. CASE r = Empty
  BY <1>2 DEF Empty
<1> QED
  BY <1>1, <1>2

(* Clearing and drawing rows again keep the lists well typed, and what they *)
(* change of a row: a list that is cleared has no rows and no item; one     *)
(* that is drawn again has another server for its buttons.                  *)
LEMMA ClearedRows ==
    ASSUME NEW r \in [Kinds -> Row \cup {Empty}], NEW ks
    PROVE  /\ Cleared(r, ks) \in [Kinds -> Row \cup {Empty}]
           /\ \A k \in Kinds : Cleared(r, ks)[k] = IF k \in ks THEN Empty ELSE r[k]
  BY DEF Cleared

Redrawn(r) ==
    /\ r \in [Kinds -> Row \cup {Empty}]
    /\ \A k \in Kinds :
          /\ r[k].from = rows[k].from /\ r[k].item = rows[k].item
          /\ r[k] = Empty <=> rows[k] = Empty
          /\ r[k].label \in {rows[k].label, selected}

(* Drawing the containers anew changes their buttons, not their rows. *)
LEMMA RedrawnRow ==
    ASSUME PlaceTypes, ListTypes, NEW s \in Servers, s = selected, rows["containers"] # Empty
    PROVE  Redrawn([rows EXCEPT !["containers"].label = s])
<1> DEFINE r == [rows EXCEPT !["containers"].label = s]
<1>1. "containers" \in Kinds /\ rows["containers"] \in Row
  BY DEF ListTypes, Kinds
<1>2. /\ r["containers"] \in Row /\ r["containers"].label = selected
      /\ r["containers"].from = rows["containers"].from /\ r["containers"].item = rows["containers"].item
  BY <1>1 DEF ListTypes, Row
<1>3. r["containers"] # Empty
  BY <1>1, <1>2, NoneApart DEF Row, Empty
<1>4. \A k \in Kinds : k # "containers" => r[k] = rows[k]
  BY DEF ListTypes
<1>5. r \in [Kinds -> Row \cup {Empty}]
  BY <1>1, <1>2, <1>4 DEF ListTypes
<1> QED
  BY <1>2, <1>3, <1>4, <1>5 DEF Redrawn

(* So does every other redrawing of a row. *)
LEMMA RelabelledRows ==
    ASSUME PlaceTypes, ListTypes, NEW k
    PROVE  Redrawn(Relabelled(k))
<1>1. Redrawn(rows)
  BY DEF Redrawn, ListTypes
<1> QED
  BY <1>1, RedrawnRow DEF Relabelled, PlaceTypes

(* A refresh that is started does not replace one under way. *)
LEMMA RefreshingType ==
    ASSUME ListTypes, NEW ks, NEW s \in Servers \cup {None}
    PROVE  /\ Refreshing(ks, s) \in [Kinds -> Servers \cup {None}]
           /\ \A k \in Kinds : Refreshing(ks, s)[k] = IF k \in ks /\ flight[k] = None THEN s ELSE flight[k]
  BY DEF Refreshing, ListTypes

(* Only buttons that wait for a second click go on waiting. *)
LEMMA KeptArmed == ASSUME ListTypes, NEW k PROVE Kept(k) \in SUBSET armed /\ Kept(k) \in SUBSET Armed
  BY DEF Kept, ListTypes

(* A click that hits no confirm button disarms all of them. *)
LEMMA KeptNone == ASSUME ListTypes PROVE Kept(None) = {}
<1>1. \A a \in armed : a[1] \in Kinds
  BY DEF ListTypes, Armed
<1>2. None \notin Polled
  BY NoneApart DEF Polled, Kinds
<1> QED
  BY <1>1, <1>2, NoneApart DEF Kept

-----------------------------------------------------------------------------
(* The steps that neither move the page nor refresh a list: clicks on rows, *)
(* actions under way, the dialogs.                                          *)
Quiet ==
    \/ TableResources \/ \E on \in BOOLEAN : selectImageRow(on)
    \/ updateContainerRow \/ updateStackRow
    \/ \E what \in {"item", "all"} : toggleImagesConfirm(what) \/ ArmNetworks(what) \/ ArmVolumes(what)
    \/ \E what \in {"plain", "item"} : runContainerAction(what) \/ runStackAction(what)
    \/ runImagePrune \/ runImageRemove \/ runNetworkPrune \/ runNetworkRemove \/ runVolumePrune \/ runVolumeRemove
    \/ ActionFails
    \/ openImagesPullModal \/ closeImagesPullModal \/ runImagePull
    \/ PullFails \/ PullTick \/ cancelImagesPullAutoClose
    \/ \E n \in Networks :
          openNetworkDetailsModal(n) \/ openNetworkConnectModal(n) \/ openNetworkDisconnectModal(n)
    \/ NetworkAnswered \/ CloseDialog \/ runNetworkConnect \/ ConnectFails

(* They leave the place and the requests, and at most draw rows again. *)
LEMMA QuietEffect ==
    ASSUME PlaceTypes, ListTypes, Quiet
    PROVE  UNCHANGED <<place, flight>> /\ tableFlight' \in {tableFlight, None} /\ Redrawn(rows')
<1> DEFINE Goal == UNCHANGED <<place, flight>> /\ tableFlight' \in {tableFlight, None} /\ Redrawn(rows')
<1>0. Redrawn(rows)
  BY DEF Redrawn, ListTypes
<1>1. CASE TableResources
  <2>1. CASE rows' = rows
    BY <1>1, <2>1, <1>0 DEF TableResources
  <2>2. CASE rows' # rows
    <3>1. /\ tableFlight \in Servers /\ tableFlight = selected /\ rows["containers"] # Empty
          /\ rows' = [rows EXCEPT !["containers"] = [rows["containers"] EXCEPT !.label = tableFlight]]
      BY <1>1, <2>2 DEF TableResources, renderContainers, ListTypes
    <3>2. rows' = [rows EXCEPT !["containers"].label = tableFlight]
      BY <3>1
    <3> QED
      BY <1>1, <3>1, <3>2, RedrawnRow DEF TableResources
  <2> QED
    BY <2>1, <2>2
<1>2. ASSUME NEW on \in BOOLEAN, selectImageRow(on) PROVE Goal
  BY <1>2, RelabelledRows DEF selectImageRow, place, pull, dialogs
<1>3. CASE updateContainerRow
  BY <1>3, RelabelledRows DEF updateContainerRow, Arms, place, pull, dialogs
<1>4. CASE updateStackRow
  BY <1>4, RelabelledRows DEF updateStackRow, Arms, place, pull, dialogs
<1>5. ASSUME NEW what \in {"item", "all"}, toggleImagesConfirm(what) PROVE Goal
  BY <1>5, RelabelledRows DEF toggleImagesConfirm, Arms, place, pull, dialogs
<1>6. ASSUME NEW what \in {"item", "all"}, ArmNetworks(what) PROVE Goal
  BY <1>6, RelabelledRows DEF ArmNetworks, Arms, place, pull, dialogs
<1>7. ASSUME NEW what \in {"item", "all"}, ArmVolumes(what) PROVE Goal
  BY <1>7, RelabelledRows DEF ArmVolumes, Arms, place, pull, dialogs
<1>8. ASSUME NEW what \in {"plain", "item"}, runContainerAction(what) PROVE Goal
  BY <1>8, RelabelledRows DEF runContainerAction, Runs, place, pull, dialogs
<1>9. ASSUME NEW what \in {"plain", "item"}, runStackAction(what) PROVE Goal
  BY <1>9, RelabelledRows DEF runStackAction, Runs, place, pull, dialogs
<1>10. CASE runImagePrune
  BY <1>10, RelabelledRows DEF runImagePrune, Runs, place, pull, dialogs
<1>11. CASE runImageRemove
  BY <1>11, RelabelledRows DEF runImageRemove, Runs, place, pull, dialogs
<1>12. CASE runNetworkPrune
  BY <1>12, RelabelledRows DEF runNetworkPrune, Runs, place, pull, dialogs
<1>13. CASE runNetworkRemove
  BY <1>13, RelabelledRows DEF runNetworkRemove, Runs, place, pull, dialogs
<1>14. CASE runVolumePrune
  BY <1>14, RelabelledRows DEF runVolumePrune, Runs, place, pull, dialogs
<1>15. CASE runVolumeRemove
  BY <1>15, RelabelledRows DEF runVolumeRemove, Runs, place, pull, dialogs
<1>16. CASE ActionFails
  BY <1>16, <1>0 DEF ActionFails, place, pull, dialogs
<1>17. CASE openImagesPullModal
  BY <1>17, RelabelledRows DEF openImagesPullModal, place, dialogs
<1>18. CASE closeImagesPullModal
  BY <1>18, <1>0 DEF closeImagesPullModal, place, lists, dialogs
<1>19. CASE runImagePull
  BY <1>19, <1>0 DEF runImagePull, stopImagesPullAutoClose, place, lists, pull, dialogs
<1>20. CASE PullFails
  BY <1>20, <1>0 DEF PullFails, place, lists, pull, dialogs
<1>21. CASE PullTick
  BY <1>21, <1>0 DEF PullTick, place, lists, dialogs
<1>22. CASE cancelImagesPullAutoClose
  BY <1>22, <1>0 DEF cancelImagesPullAutoClose, place, lists, dialogs
<1>23. ASSUME NEW n \in Networks, openNetworkDetailsModal(n) PROVE Goal
  BY <1>23, RelabelledRows DEF openNetworkDetailsModal, DialogOpens, place, pull
<1>24. ASSUME NEW n \in Networks, openNetworkConnectModal(n) PROVE Goal
  BY <1>24, RelabelledRows DEF openNetworkConnectModal, DialogOpens, place, pull
<1>25. ASSUME NEW n \in Networks, openNetworkDisconnectModal(n) PROVE Goal
  BY <1>25, RelabelledRows DEF openNetworkDisconnectModal, DialogOpens, place, pull
<1>26. CASE NetworkAnswered
  BY <1>26, <1>0 DEF NetworkAnswered, place, lists, pull
<1>27. CASE CloseDialog
  BY <1>27, <1>0 DEF CloseDialog, place, lists, pull
<1>28. CASE runNetworkConnect
  BY <1>28, <1>0 DEF runNetworkConnect, place, lists, pull, dialogs
<1>29. CASE ConnectFails
  BY <1>29, <1>0 DEF ConnectFails, place, lists, pull, dialogs
<1> QED
  BY <1>1, <1>2, <1>3, <1>4, <1>5, <1>6, <1>7, <1>8, <1>9, <1>10, <1>11, <1>12, <1>13, <1>14, <1>15, <1>16, <1>17, <1>18, <1>19, <1>20, <1>21, <1>22, <1>23, <1>24, <1>25, <1>26, <1>27, <1>28, <1>29 DEF Quiet

(* The requests of actions, by a second click or the only one. *)
Running ==
    \/ \E what \in {"plain", "item"} : runContainerAction(what) \/ runStackAction(what)
    \/ runImagePrune \/ runImageRemove \/ runNetworkPrune \/ runNetworkRemove \/ runVolumePrune \/ runVolumeRemove

(* What a click that starts an action changes. *)
LEMMA RunsEffect ==
    ASSUME PlaceTypes, ListTypes, NEW k \in Kinds, NEW what \in {"plain", "item", "all"},
           NEW s \in Servers \cup {None}, Runs(k, what, s)
    PROVE  /\ act = None /\ act' \in [kind: Kinds, what: {"item", "all"}, scope: Servers \cup {None}]
           /\ armed' \subseteq armed /\ rows' \in {Relabelled(j) : j \in Kinds \cup {None}}
           /\ UNCHANGED <<image, pull, dialogs>>
  BY KeptArmed DEF Runs

(* The same for all the handlers that start one. *)
LEMMA RunningEffect ==
    ASSUME PlaceTypes, ListTypes, Running
    PROVE  /\ act = None /\ act' \in [kind: Kinds, what: {"item", "all"}, scope: Servers \cup {None}]
           /\ armed' \subseteq armed /\ rows' \in {Relabelled(j) : j \in Kinds \cup {None}}
           /\ UNCHANGED <<image, pull, dialogs>>
<1>1. selected \in Servers \cup {None} /\ rows["containers"].label \in Servers \cup {None}
  BY RowFields DEF PlaceTypes, ListTypes, Kinds
<1>2. PICK k \in Kinds, what \in {"plain", "item", "all"}, s \in Servers \cup {None} : Runs(k, what, s)
  BY <1>1 DEF Running, Kinds, runContainerAction, runStackAction, runImagePrune, runImageRemove,
              runNetworkPrune, runNetworkRemove, runVolumePrune, runVolumeRemove
<1> QED
  BY <1>2, RunsEffect

(* The steps that concern the lists and the place only. *)
ListOnly ==
    \/ TableResources \/ \E on \in BOOLEAN : selectImageRow(on)
    \/ updateContainerRow \/ updateStackRow
    \/ \E what \in {"item", "all"} : toggleImagesConfirm(what) \/ ArmNetworks(what) \/ ArmVolumes(what)
    \/ AnswerStep \/ \E k \in Kinds : ListStep(k)
    \/ \E s \in Servers : PickServer(s)
    \/ \E list \in ServerLists : updateContainersServerOptions(list)
    \/ \E next \in Modes : SwitchMode(next) \/ EnterContainers(next)
    \/ LeaveContainers \/ applyExperimentalFeatures \/ RefreshButton

(* The steps about lists leave action and dialogs alone, but may abort      *)
(* the request of a dialog.                                                 *)
LEMMA ListOnlyFrame ==
    ListOnly => UNCHANGED <<act, pull, modal, title, network, shownNetwork>> /\ netFlight' \in {netFlight, None}
<1> DEFINE Goal == UNCHANGED <<act, pull, modal, title, network, shownNetwork>> /\ netFlight' \in {netFlight, None}
<1> SUFFICES ASSUME ListOnly PROVE Goal
  OBVIOUS
<1>1. CASE \/ TableResources \/ \E on \in BOOLEAN : selectImageRow(on)
           \/ updateContainerRow \/ updateStackRow
           \/ \E what \in {"item", "all"} : toggleImagesConfirm(what) \/ ArmNetworks(what) \/ ArmVolumes(what)
  BY <1>1 DEF TableResources, selectImageRow, Arms, updateContainerRow, updateStackRow,
              toggleImagesConfirm, ArmNetworks, ArmVolumes, dialogs
<1>2. CASE AnswerStep
  BY <1>2 DEF AnswerStep, Answered, loadContainers, loadStacks, loadImages, loadNetworks, loadVolumes, dialogs
<1>3. CASE \E k \in Kinds : ListStep(k)
  BY <1>3 DEF ListStep, Outdated, Tick, dialogs
<1>4. CASE (\E s \in Servers : PickServer(s)) \/ \E list \in ServerLists : updateContainersServerOptions(list)
  BY <1>4 DEF PickServer, updateContainersServerOptions, dialogs
<1>5. CASE \E next \in Modes : SwitchMode(next) \/ EnterContainers(next)
  BY <1>5 DEF SwitchMode, EnterContainers, setContainersViewMode
<1>6. CASE LeaveContainers \/ applyExperimentalFeatures \/ RefreshButton
  BY <1>6 DEF LeaveContainers, applyExperimentalFeatures, RefreshButton, setContainersViewMode, dialogs
<1> QED
  BY <1>1, <1>2, <1>3, <1>4, <1>5, <1>6 DEF ListOnly

(* The steps that concern the dialogs and their requests only. *)
DialogOnly ==
    \/ closeImagesPullModal \/ runImagePull \/ PullFails \/ PullTick \/ cancelImagesPullAutoClose
    \/ NetworkAnswered \/ CloseDialog \/ runNetworkConnect \/ ConnectFails

(* The steps about dialogs leave the lists alone. *)
LEMMA DialogOnlyFrame == DialogOnly => UNCHANGED lists
  BY DEF DialogOnly, closeImagesPullModal, runImagePull, PullFails, PullTick, cancelImagesPullAutoClose,
         NetworkAnswered, CloseDialog, runNetworkConnect, ConnectFails

-----------------------------------------------------------------------------
(* The types *)

(* Every step keeps the types of servers, selection, view and mode. *)
LEMMA PlaceTypesStep == PlaceTypes /\ ListTypes /\ [Next]_vars => PlaceTypes'
<1> SUFFICES ASSUME PlaceTypes, ListTypes, [Next]_vars PROVE PlaceTypes'
  OBVIOUS
<1> USE DEF PlaceTypes
<1>1. CASE Quiet
  BY <1>1, QuietEffect DEF place
<1>2. ASSUME NEW r \in Row, r.label = r.from, loadContainers(r) PROVE PlaceTypes'
  BY <1>2 DEF loadContainers, Answered, clearContainersTable, renderContainers, refreshContainersTableResources, ClearTable, place
<1>3. ASSUME NEW r \in Row, r.label = r.from, loadStacks(r) PROVE PlaceTypes'
  BY <1>3 DEF loadStacks, Answered, clearStacksTable, renderStacks, ClearTable, place
<1>4. ASSUME NEW r \in Row, r.label = r.from, loadImages(r) PROVE PlaceTypes'
  BY <1>4 DEF loadImages, Answered, clearImagesTable, renderImages, ClearTable, place
<1>5. ASSUME NEW r \in Row, r.label = r.from, loadNetworks(r) PROVE PlaceTypes'
  BY <1>5 DEF loadNetworks, Answered, clearNetworksTable, renderNetworks, ClearTable, place
<1>6. ASSUME NEW r \in Row, r.label = r.from, loadVolumes(r) PROVE PlaceTypes'
  BY <1>6 DEF loadVolumes, Answered, clearVolumesTable, renderVolumes, ClearTable, place
<1>7. ASSUME NEW k \in Kinds, Outdated(k) PROVE PlaceTypes'
  BY <1>7 DEF Outdated, Rerun, ClearTable, place
<1>8. ASSUME NEW k \in Kinds, Tick(k) PROVE PlaceTypes'
  BY <1>8 DEF Tick, ClearTable, place
<1>9. ASSUME NEW s \in Servers, PickServer(s) PROVE PlaceTypes'
  BY <1>9 DEF PickServer
<1>10. ASSUME NEW list \in ServerLists, updateContainersServerOptions(list) PROVE PlaceTypes'
  BY <1>10, ListConstants DEF updateContainersServerOptions
<1>11. ASSUME NEW next \in Modes, SwitchMode(next) PROVE PlaceTypes'
  BY <1>11 DEF SwitchMode, setContainersViewMode, AfterClick, TimersOf
<1>12. ASSUME NEW next \in Modes, EnterContainers(next) PROVE PlaceTypes'
  BY <1>12 DEF EnterContainers, setContainersViewMode, AfterClick, TimersOf
<1>13. CASE LeaveContainers
  BY <1>13 DEF LeaveContainers, Left, AfterClick
<1>14. CASE applyExperimentalFeatures
  BY <1>14 DEF applyExperimentalFeatures, setContainersViewMode, TimersOf, Modes
<1>15. CASE RefreshButton
  BY <1>15 DEF RefreshButton, AfterClick, place
<1>16. CASE ActionDone
  BY <1>16 DEF ActionDone, place
<1>17. CASE PullDone
  BY <1>17 DEF PullDone, ClearTable, place
<1>18. CASE ConnectDone
  BY <1>18 DEF ConnectDone, ClearTable, place
<1>19. CASE UNCHANGED vars
  BY <1>19 DEF vars, place
<1> QED
  BY <1>1, <1>2, <1>3, <1>4, <1>5, <1>6, <1>7, <1>8, <1>9, <1>10, <1>11, <1>12, <1>13, <1>14, <1>15, <1>16, <1>17, <1>18, <1>19
  DEF Next, ListStep, AnswerStep, ActionStep, PageStep, PullStep, NetworkStep, Quiet

(* A change of mode starts a refresh of the selected server or none. *)
LEMMA FlightsOfType ==
    ASSUME PlaceTypes, ListTypes, NEW ks, NEW next \in Modes
    PROVE  FlightsOf(ks, next) \in [Kinds -> Servers \cup {None}]
<1>1. Refreshing(ks \cup {KindOf(next)}, selected) \in [Kinds -> Servers \cup {None}]
  BY RefreshingType DEF PlaceTypes
<1> QED
  BY <1>1 DEF FlightsOf, PlaceTypes

(* Every step keeps the types of the confirmations. *)
LEMMA ArmedTypesStep == PlaceTypes /\ ListTypes /\ [Next]_vars => armed' \in SUBSET Armed /\ image' \in BOOLEAN
<1> SUFFICES ASSUME PlaceTypes, ListTypes, [Next]_vars PROVE armed' \in SUBSET Armed /\ image' \in BOOLEAN
  OBVIOUS
<1> DEFINE Goal == armed' \in SUBSET Armed /\ image' \in BOOLEAN
<1>0. armed \in SUBSET Armed /\ image \in BOOLEAN
  BY DEF ListTypes
<1> HIDE DEF Goal
<1>1. CASE Running
  BY <1>0, <1>1, RunningEffect DEF Goal
<1>2. CASE DialogOnly
  BY <1>0, <1>2, DialogOnlyFrame DEF Goal, lists
<1>3. CASE TableResources
  BY <1>3, <1>0, KeptArmed DEF TableResources, renderContainers, Goal
<1>4. ASSUME NEW on \in BOOLEAN, selectImageRow(on) PROVE Goal
  BY <1>4, <1>0, KeptArmed DEF selectImageRow, Goal
<1>5. CASE updateContainerRow
  BY <1>5, <1>0, KeptArmed DEF updateContainerRow, Arms, Goal, Armed, Kinds
<1>6. CASE updateStackRow
  BY <1>6, <1>0, KeptArmed DEF updateStackRow, Arms, Goal, Armed, Kinds
<1>7. ASSUME NEW what \in {"item", "all"}, toggleImagesConfirm(what) PROVE Goal
  BY <1>7, <1>0, KeptArmed DEF toggleImagesConfirm, Arms, Goal, Armed, Kinds
<1>8. ASSUME NEW what \in {"item", "all"}, ArmNetworks(what) PROVE Goal
  BY <1>8, <1>0, KeptArmed DEF ArmNetworks, Arms, Goal, Armed, Kinds
<1>9. ASSUME NEW what \in {"item", "all"}, ArmVolumes(what) PROVE Goal
  BY <1>9, <1>0, KeptArmed DEF ArmVolumes, Arms, Goal, Armed, Kinds
<1>10. CASE ActionFails
  BY <1>10, <1>0, KeptArmed DEF ActionFails, Goal
<1>11. CASE openImagesPullModal
  BY <1>11, <1>0, KeptArmed DEF openImagesPullModal, Goal
<1>12. ASSUME NEW n \in Networks, openNetworkDetailsModal(n) PROVE Goal
  BY <1>12, <1>0, KeptArmed DEF openNetworkDetailsModal, DialogOpens, Goal
<1>13. ASSUME NEW n \in Networks, openNetworkConnectModal(n) PROVE Goal
  BY <1>13, <1>0, KeptArmed DEF openNetworkConnectModal, DialogOpens, Goal
<1>14. ASSUME NEW n \in Networks, openNetworkDisconnectModal(n) PROVE Goal
  BY <1>14, <1>0, KeptArmed DEF openNetworkDisconnectModal, DialogOpens, Goal
<1>15. ASSUME NEW r \in Row, r.label = r.from, loadContainers(r) PROVE Goal
  BY <1>15, <1>0, KeptArmed DEF loadContainers, Answered, clearContainersTable, renderContainers, refreshContainersTableResources, ClearTable, Goal, ArmedAfterClear, ImageAfterClear
<1>16. ASSUME NEW r \in Row, r.label = r.from, loadStacks(r) PROVE Goal
  BY <1>16, <1>0, KeptArmed DEF loadStacks, Answered, clearStacksTable, renderStacks, ClearTable, Goal, ArmedAfterClear, ImageAfterClear
<1>17. ASSUME NEW r \in Row, r.label = r.from, loadImages(r) PROVE Goal
  BY <1>17, <1>0, KeptArmed DEF loadImages, Answered, clearImagesTable, renderImages, ClearTable, Goal, ArmedAfterClear, ImageAfterClear
<1>18. ASSUME NEW r \in Row, r.label = r.from, loadNetworks(r) PROVE Goal
  BY <1>18, <1>0, KeptArmed DEF loadNetworks, Answered, clearNetworksTable, renderNetworks, ClearTable, Goal, ArmedAfterClear, ImageAfterClear
<1>19. ASSUME NEW r \in Row, r.label = r.from, loadVolumes(r) PROVE Goal
  BY <1>19, <1>0, KeptArmed DEF loadVolumes, Answered, clearVolumesTable, renderVolumes, ClearTable, Goal, ArmedAfterClear, ImageAfterClear
<1>20. ASSUME NEW k \in Kinds, Outdated(k) PROVE Goal
  BY <1>20, <1>0, KeptArmed DEF Outdated, Rerun, ClearTable, Goal, ArmedAfterClear, ImageAfterClear
<1>21. ASSUME NEW k \in Kinds, Tick(k) PROVE Goal
  BY <1>21, <1>0, KeptArmed DEF Tick, ClearTable, Goal, ArmedAfterClear, ImageAfterClear
<1>22. ASSUME NEW s \in Servers, PickServer(s) PROVE Goal
  BY <1>22, <1>0, KeptArmed DEF PickServer, Goal, ArmedAfterClear, ImageAfterClear
<1>23. ASSUME NEW list \in ServerLists, updateContainersServerOptions(list) PROVE Goal
  BY <1>23, <1>0, KeptArmed DEF updateContainersServerOptions, Goal, Armed, Kinds, ArmedAfterClear, ImageAfterClear
<1>24. ASSUME NEW next \in Modes, SwitchMode(next) PROVE Goal
  BY <1>24, <1>0, KeptArmed DEF SwitchMode, setContainersViewMode, AfterClick, Goal, ArmedAfterClear, ImageAfterClear
<1>25. ASSUME NEW next \in Modes, EnterContainers(next) PROVE Goal
  BY <1>25, <1>0, KeptArmed DEF EnterContainers, setContainersViewMode, AfterClick, Goal, ArmedAfterClear, ImageAfterClear
<1>26. CASE LeaveContainers
  BY <1>26, <1>0, KeptArmed DEF LeaveContainers, Left, AfterClick, Goal, ArmedAfterClear, ImageAfterClear
<1>27. CASE applyExperimentalFeatures
  BY <1>27, <1>0, KeptArmed DEF applyExperimentalFeatures, setContainersViewMode, Goal, ArmedAfterClear, ImageAfterClear
<1>28. CASE RefreshButton
  BY <1>28, <1>0, KeptArmed DEF RefreshButton, AfterClick, Goal, ArmedAfterClear, ImageAfterClear
<1>29. CASE ActionDone
  BY <1>29, <1>0, KeptArmed DEF ActionDone, Goal, ArmedAfterClear, ImageAfterClear
<1>30. CASE PullDone
  BY <1>30, <1>0, KeptArmed DEF PullDone, ClearTable, Goal, ArmedAfterClear, ImageAfterClear
<1>31. CASE ConnectDone
  BY <1>31, <1>0, KeptArmed DEF ConnectDone, ClearTable, Goal, ArmedAfterClear, ImageAfterClear
<1>32. CASE UNCHANGED vars
  BY <1>0, <1>32 DEF vars, lists, Goal
<1> QED
  BY <1>1, <1>2, <1>3, <1>4, <1>5, <1>6, <1>7, <1>8, <1>9, <1>10, <1>11, <1>12, <1>13, <1>14, <1>15, <1>16, <1>17, <1>18, <1>19, <1>20, <1>21, <1>22, <1>23, <1>24, <1>25, <1>26, <1>27, <1>28, <1>29, <1>30, <1>31, <1>32
  DEF Next, ListStep, AnswerStep, ActionStep, PageStep, PullStep, NetworkStep, Running, DialogOnly, Goal

(* The end of an action changes no more than the buttons of its own list. *)
LEMMA ActionDoneRows ==
    ASSUME PlaceTypes, ListTypes, ActTypes, act # None
    PROVE  LET r == [rows EXCEPT ![act.kind].label =
                        IF act.kind = "containers" /\ rows[act.kind].from = act.scope THEN act.scope ELSE @]
           IN /\ act.kind \in Kinds
              /\ r \in [Kinds -> Row \cup {Empty}]
              /\ \A k \in Kinds : r[k].from = rows[k].from /\ r[k].item = rows[k].item
              /\ \A k \in Kinds : k # act.kind => r[k] = rows[k]
<1> DEFINE new == IF act.kind = "containers" /\ rows[act.kind].from = act.scope THEN act.scope
                  ELSE rows[act.kind].label
           r == [rows EXCEPT ![act.kind].label = new]
<1>1. act.kind \in Kinds
  BY DEF ActTypes, Action
<1>2. /\ r[act.kind] \in Row \cup {Empty}
      /\ r[act.kind].from = rows[act.kind].from /\ r[act.kind].item = rows[act.kind].item
  <2>1. CASE rows[act.kind] \in Row
    BY <1>1, <2>1 DEF ListTypes, Row
  <2>2. CASE rows[act.kind] = Empty
    <3>1. new = None
      BY <2>2 DEF Empty
    <3>2. r[act.kind] = [rows[act.kind] EXCEPT !.label = new]
      BY <1>1 DEF ListTypes
    <3>3. [Empty EXCEPT !.label = None] = Empty
      <4> DEFINE Records == [from: {None}, label: {None}, item: BOOLEAN]
      <4>1. Empty \in Records /\ Empty.label = None
        BY DEF Empty
      <4> QED
        BY <4>1
    <3> QED
      BY <2>2, <3>1, <3>2, <3>3
  <2> QED
    BY <1>1, <2>1, <2>2 DEF ListTypes
<1>3. \A k \in Kinds : k # act.kind => r[k] = rows[k]
  BY DEF ListTypes
<1>4. r \in [Kinds -> Row \cup {Empty}]
  BY <1>1, <1>2, <1>3 DEF ListTypes
<1> QED
  BY <1>1, <1>2, <1>3, <1>4

(* Every step keeps the types of the rows. *)
LEMMA RowTypesStep ==
    PlaceTypes /\ ListTypes /\ ActTypes /\ [Next]_vars => rows' \in [Kinds -> Row \cup {Empty}]
<1> SUFFICES ASSUME PlaceTypes, ListTypes, ActTypes, [Next]_vars PROVE rows' \in [Kinds -> Row \cup {Empty}]
  OBVIOUS
<1>0. rows \in [Kinds -> Row \cup {Empty}] /\ \A k : Relabelled(k) \in [Kinds -> Row \cup {Empty}]
  BY RelabelledRows DEF Redrawn, ListTypes
<1>1. CASE Quiet
  BY <1>1, QuietEffect DEF Redrawn
<1>2. ASSUME NEW r \in Row, r.label = r.from, loadContainers(r) PROVE rows' \in [Kinds -> Row \cup {Empty}]
  BY <1>2, <1>0, ClearedRows DEF loadContainers, Answered, clearContainersTable, renderContainers, refreshContainersTableResources, ClearTable, place, pull, dialogs
<1>3. ASSUME NEW r \in Row, r.label = r.from, loadStacks(r) PROVE rows' \in [Kinds -> Row \cup {Empty}]
  BY <1>3, <1>0, ClearedRows DEF loadStacks, Answered, clearStacksTable, renderStacks, ClearTable, place, pull, dialogs
<1>4. ASSUME NEW r \in Row, r.label = r.from, loadImages(r) PROVE rows' \in [Kinds -> Row \cup {Empty}]
  BY <1>4, <1>0, ClearedRows DEF loadImages, Answered, clearImagesTable, renderImages, ClearTable, place, pull, dialogs
<1>5. ASSUME NEW r \in Row, r.label = r.from, loadNetworks(r) PROVE rows' \in [Kinds -> Row \cup {Empty}]
  BY <1>5, <1>0, ClearedRows DEF loadNetworks, Answered, clearNetworksTable, renderNetworks, ClearTable, place, pull, dialogs
<1>6. ASSUME NEW r \in Row, r.label = r.from, loadVolumes(r) PROVE rows' \in [Kinds -> Row \cup {Empty}]
  BY <1>6, <1>0, ClearedRows DEF loadVolumes, Answered, clearVolumesTable, renderVolumes, ClearTable, place, pull, dialogs
<1>7. ASSUME NEW k \in Kinds, Outdated(k) PROVE rows' \in [Kinds -> Row \cup {Empty}]
  BY <1>7, <1>0, ClearedRows DEF Outdated, Rerun, ClearTable, place, pull, dialogs
<1>8. ASSUME NEW k \in Kinds, Tick(k) PROVE rows' \in [Kinds -> Row \cup {Empty}]
  BY <1>8, <1>0, ClearedRows DEF Tick, ClearTable, place, pull, dialogs
<1>9. ASSUME NEW s \in Servers, PickServer(s) PROVE rows' \in [Kinds -> Row \cup {Empty}]
  BY <1>9, <1>0, ClearedRows DEF PickServer, pull, dialogs
<1>10. ASSUME NEW list \in ServerLists, updateContainersServerOptions(list) PROVE rows' \in [Kinds -> Row \cup {Empty}]
  BY <1>10, <1>0, ClearedRows DEF updateContainersServerOptions, pull, dialogs
<1>11. ASSUME NEW next \in Modes, SwitchMode(next) PROVE rows' \in [Kinds -> Row \cup {Empty}]
  BY <1>11, <1>0, ClearedRows DEF SwitchMode, setContainersViewMode, AfterClick, pull
<1>12. ASSUME NEW next \in Modes, EnterContainers(next) PROVE rows' \in [Kinds -> Row \cup {Empty}]
  BY <1>12, <1>0, ClearedRows DEF EnterContainers, setContainersViewMode, AfterClick, pull
<1>13. CASE LeaveContainers
  BY <1>13, <1>0, ClearedRows DEF LeaveContainers, Left, AfterClick, pull, dialogs
<1>14. CASE applyExperimentalFeatures
  BY <1>14, <1>0, ClearedRows DEF applyExperimentalFeatures, setContainersViewMode, pull
<1>15. CASE RefreshButton
  BY <1>15, <1>0, ClearedRows DEF RefreshButton, AfterClick, place, pull, dialogs
<1>16. CASE ActionDone
  <2> DEFINE r == [rows EXCEPT ![act.kind].label =
                      IF act.kind = "containers" /\ rows[act.kind].from = act.scope THEN act.scope ELSE @]
  <2>1. r \in [Kinds -> Row \cup {Empty}]
    BY <1>16, ActionDoneRows DEF ActionDone
  <2>2. rows' = Cleared(r, Emptied({act.kind}, selected))
    BY <1>16 DEF ActionDone
  <2> HIDE DEF r
  <2> QED
    BY <2>1, <2>2, ClearedRows
<1>17. CASE PullDone
  BY <1>17, <1>0, ClearedRows DEF PullDone, ClearTable, place, pull, dialogs
<1>18. CASE ConnectDone
  BY <1>18, <1>0, ClearedRows DEF ConnectDone, ClearTable, place, pull
<1>19. CASE UNCHANGED vars
  BY <1>0, <1>19 DEF vars, lists
<1> QED
  BY <1>1, <1>2, <1>3, <1>4, <1>5, <1>6, <1>7, <1>8, <1>9, <1>10, <1>11, <1>12, <1>13, <1>14, <1>15, <1>16, <1>17, <1>18, <1>19
  DEF Next, ListStep, AnswerStep, ActionStep, PageStep, PullStep, NetworkStep, Quiet

(* Every step keeps the types of the refreshes. *)
LEMMA FlightTypesStep ==
    PlaceTypes /\ ListTypes /\ ActTypes /\ [Next]_vars
        => flight' \in [Kinds -> Servers \cup {None}] /\ tableFlight' \in Servers \cup {None}
<1> SUFFICES ASSUME PlaceTypes, ListTypes, ActTypes, [Next]_vars
             PROVE  flight' \in [Kinds -> Servers \cup {None}] /\ tableFlight' \in Servers \cup {None}
  OBVIOUS
<1> DEFINE Goal == flight' \in [Kinds -> Servers \cup {None}] /\ tableFlight' \in Servers \cup {None}
<1>0. /\ flight \in [Kinds -> Servers \cup {None}] /\ tableFlight \in Servers \cup {None}
      /\ selected \in Servers \cup {None} /\ selected' \in Servers \cup {None}
  BY PlaceTypesStep DEF ListTypes, PlaceTypes
<1> HIDE DEF Goal
<1>1. CASE Quiet
  BY <1>0, <1>1, QuietEffect DEF Goal
<1>2. ASSUME NEW r \in Row, r.label = r.from, loadContainers(r) PROVE Goal
  BY <1>2, <1>0 DEF loadContainers, Answered, clearContainersTable, renderContainers, refreshContainersTableResources, ClearTable, Goal
<1>3. ASSUME NEW r \in Row, r.label = r.from, loadStacks(r) PROVE Goal
  BY <1>3, <1>0 DEF loadStacks, Answered, clearStacksTable, renderStacks, ClearTable, Goal
<1>4. ASSUME NEW r \in Row, r.label = r.from, loadImages(r) PROVE Goal
  BY <1>4, <1>0 DEF loadImages, Answered, clearImagesTable, renderImages, ClearTable, Goal
<1>5. ASSUME NEW r \in Row, r.label = r.from, loadNetworks(r) PROVE Goal
  BY <1>5, <1>0 DEF loadNetworks, Answered, clearNetworksTable, renderNetworks, ClearTable, Goal
<1>6. ASSUME NEW r \in Row, r.label = r.from, loadVolumes(r) PROVE Goal
  BY <1>6, <1>0 DEF loadVolumes, Answered, clearVolumesTable, renderVolumes, ClearTable, Goal
<1>7. ASSUME NEW k \in Kinds, Outdated(k) PROVE Goal
  BY <1>7, <1>0 DEF Outdated, Rerun, ClearTable, Goal
<1>8. ASSUME NEW k \in Kinds, Tick(k) PROVE Goal
  BY <1>8, <1>0, RefreshingType DEF Tick, ClearTable, Goal
<1>9. ASSUME NEW s \in Servers, PickServer(s) PROVE Goal
  BY <1>9, <1>0, RefreshingType DEF PickServer, Goal
<1>10. ASSUME NEW list \in ServerLists, updateContainersServerOptions(list) PROVE Goal
  BY <1>10, <1>0, RefreshingType DEF updateContainersServerOptions, Goal
<1>11. ASSUME NEW next \in Modes, SwitchMode(next) PROVE Goal
  BY <1>11, <1>0, FlightsOfType DEF SwitchMode, setContainersViewMode, AfterClick, Goal
<1>12. ASSUME NEW next \in Modes, EnterContainers(next) PROVE Goal
  BY <1>12, <1>0, FlightsOfType DEF EnterContainers, setContainersViewMode, AfterClick, Goal
<1>13. CASE LeaveContainers
  BY <1>13, <1>0 DEF LeaveContainers, Left, AfterClick, Goal
<1>14. CASE applyExperimentalFeatures
  BY <1>14, <1>0, FlightsOfType DEF applyExperimentalFeatures, setContainersViewMode, Goal, Modes
<1>15. CASE RefreshButton
  BY <1>15, <1>0, RefreshingType DEF RefreshButton, AfterClick, Goal
<1>16. CASE ActionDone
  BY <1>16, <1>0, RefreshingType DEF ActionDone, Goal
<1>17. CASE PullDone
  BY <1>17, <1>0, RefreshingType DEF PullDone, ClearTable, Goal
<1>18. CASE ConnectDone
  BY <1>18, <1>0, RefreshingType DEF ConnectDone, ClearTable, Goal
<1>19. CASE UNCHANGED vars
  BY <1>0, <1>19 DEF vars, lists, Goal
<1> QED
  BY <1>1, <1>2, <1>3, <1>4, <1>5, <1>6, <1>7, <1>8, <1>9, <1>10, <1>11, <1>12, <1>13, <1>14, <1>15, <1>16, <1>17, <1>18, <1>19
  DEF Next, ListStep, AnswerStep, ActionStep, PageStep, PullStep, NetworkStep, Quiet, Goal

(* Every step keeps the type of the action under way. *)
LEMMA ActTypesStep == ActTypes /\ PlaceTypes /\ ListTypes /\ [Next]_vars => ActTypes'
<1> SUFFICES ASSUME ActTypes, PlaceTypes, ListTypes, [Next]_vars PROVE ActTypes'
  OBVIOUS
<1>1. CASE ListOnly
  BY <1>1, ListOnlyFrame DEF ActTypes
<1>2. CASE Running
  BY <1>2, RunningEffect DEF ActTypes, Action
<1>3. CASE ActionFails
  BY <1>3 DEF ActionFails, ActTypes
<1>4. CASE openImagesPullModal
  BY <1>4 DEF openImagesPullModal, ActTypes
<1>5. CASE closeImagesPullModal
  BY <1>5 DEF closeImagesPullModal, ActTypes
<1>6. CASE runImagePull
  BY <1>6 DEF runImagePull, stopImagesPullAutoClose, ActTypes, Action, Kinds
<1>7. CASE PullFails
  BY <1>7 DEF PullFails, ActTypes
<1>8. CASE PullTick
  BY <1>8 DEF PullTick, ActTypes
<1>9. CASE cancelImagesPullAutoClose
  BY <1>9 DEF cancelImagesPullAutoClose, ActTypes
<1>10. ASSUME NEW n \in Networks, openNetworkDetailsModal(n) PROVE ActTypes'
  BY <1>10 DEF openNetworkDetailsModal, DialogOpens, ActTypes
<1>11. ASSUME NEW n \in Networks, openNetworkConnectModal(n) PROVE ActTypes'
  BY <1>11 DEF openNetworkConnectModal, DialogOpens, ActTypes
<1>12. ASSUME NEW n \in Networks, openNetworkDisconnectModal(n) PROVE ActTypes'
  BY <1>12 DEF openNetworkDisconnectModal, DialogOpens, ActTypes
<1>13. CASE NetworkAnswered
  BY <1>13 DEF NetworkAnswered, ActTypes
<1>14. CASE CloseDialog
  BY <1>14 DEF CloseDialog, ActTypes
<1>15. CASE runNetworkConnect
  BY <1>15 DEF runNetworkConnect, ActTypes, Action, Kinds
<1>16. CASE ConnectFails
  BY <1>16 DEF ConnectFails, ActTypes
<1>17. CASE ActionDone
  BY <1>17 DEF ActionDone, ActTypes
<1>18. CASE PullDone
  BY <1>18 DEF PullDone, ClearTable, ActTypes
<1>19. CASE ConnectDone
  BY <1>19 DEF ConnectDone, ClearTable, ActTypes
<1>20. CASE UNCHANGED vars
  BY <1>20 DEF vars, ActTypes
<1> QED
  BY <1>1, <1>2, <1>3, <1>4, <1>5, <1>6, <1>7, <1>8, <1>9, <1>10, <1>11, <1>12, <1>13, <1>14, <1>15, <1>16, <1>17, <1>18, <1>19, <1>20
  DEF Next, ListStep, AnswerStep, ActionStep, PageStep, PullStep, NetworkStep, ListOnly, Running

(* Every step keeps the types of the dialogs. *)
LEMMA DialogTypesStep == DialogTypes /\ PlaceTypes /\ ListTypes /\ [Next]_vars => DialogTypes'
<1> SUFFICES ASSUME DialogTypes, PlaceTypes, ListTypes, [Next]_vars PROVE DialogTypes'
  OBVIOUS
<1> USE AutoCloseNat DEF DialogTypes
<1>1. CASE ListOnly
  BY <1>1, ListOnlyFrame DEF pull
<1>2. CASE Running
  BY <1>2, RunningEffect DEF pull, dialogs
<1>3. CASE ActionFails
  BY <1>3 DEF ActionFails, pull, dialogs
<1>4. CASE openImagesPullModal
  BY <1>4 DEF openImagesPullModal, dialogs
<1>5. CASE closeImagesPullModal
  BY <1>5 DEF closeImagesPullModal, dialogs
<1>6. CASE runImagePull
  BY <1>6 DEF runImagePull, stopImagesPullAutoClose, pull, dialogs
<1>7. CASE PullFails
  BY <1>7 DEF PullFails, pull, dialogs
<1>8. CASE PullTick
  <2>1. pullTimer' \in 0 .. AutoClose
    BY <1>8 DEF PullTick
  <2>2. pullOpen' \in BOOLEAN
    BY <1>8 DEF PullTick
  <2> QED
    BY <1>8, <2>1, <2>2 DEF PullTick, dialogs
<1>9. CASE cancelImagesPullAutoClose
  BY <1>9 DEF cancelImagesPullAutoClose, dialogs
<1>10. ASSUME NEW n \in Networks, openNetworkDetailsModal(n) PROVE DialogTypes'
  BY <1>10 DEF openNetworkDetailsModal, DialogOpens, pull
<1>11. ASSUME NEW n \in Networks, openNetworkConnectModal(n) PROVE DialogTypes'
  BY <1>11 DEF openNetworkConnectModal, DialogOpens, pull
<1>12. ASSUME NEW n \in Networks, openNetworkDisconnectModal(n) PROVE DialogTypes'
  BY <1>12 DEF openNetworkDisconnectModal, DialogOpens, pull
<1>13. CASE NetworkAnswered
  BY <1>13 DEF NetworkAnswered, pull
<1>14. CASE CloseDialog
  BY <1>14 DEF CloseDialog, pull
<1>15. CASE runNetworkConnect
  BY <1>15 DEF runNetworkConnect, pull, dialogs
<1>16. CASE ConnectFails
  BY <1>16 DEF ConnectFails, pull, dialogs
<1>17. CASE ActionDone
  BY <1>17 DEF ActionDone, pull, dialogs
<1>18. CASE PullDone
  BY <1>18 DEF PullDone, ClearTable, pull, dialogs
<1>19. CASE ConnectDone
  BY <1>19 DEF ConnectDone, ClearTable, pull
<1>20. CASE UNCHANGED vars
  BY <1>20 DEF vars, pull, dialogs
<1> QED
  BY <1>1, <1>2, <1>3, <1>4, <1>5, <1>6, <1>7, <1>8, <1>9, <1>10, <1>11, <1>12, <1>13, <1>14, <1>15, <1>16, <1>17, <1>18, <1>19, <1>20
  DEF Next, ListStep, AnswerStep, ActionStep, PageStep, PullStep, NetworkStep, ListOnly, Running

(* Every step keeps the types. *)
LEMMA TypeStep == TypeOK /\ [Next]_vars => TypeOK'
<1> SUFFICES ASSUME TypeOK, [Next]_vars PROVE TypeOK'
  OBVIOUS
<1>1. PlaceTypes' /\ ListTypes' /\ ActTypes' /\ DialogTypes'
  BY TypeParts, PlaceTypesStep, ArmedTypesStep, RowTypesStep, FlightTypesStep, ActTypesStep, DialogTypesStep
  DEF ListTypes
<1> QED
  BY <1>1 DEF TypeOK, PlaceTypes, ListTypes, ActTypes, DialogTypes

(* The page is loaded well typed. *)
LEMMA TypeInit == Init => TypeOK
<1> SUFFICES ASSUME Init PROVE TypeOK
  OBVIOUS
<1>1. PlaceTypes
  BY ListConstants, MenusAssumption DEF Init, PlaceTypes, Modes
<1>2. ListTypes /\ ActTypes
  BY DEF Init, ListTypes, ActTypes
<1>3. DialogTypes
  BY AutoCloseNat DEF Init, DialogTypes
<1> QED
  BY <1>1, <1>2, <1>3, TypeParts

(* The state of the lists, of actions and of the dialogs is well typed. *)
THEOREM ListsTypeCorrect == Spec => []TypeOK
  BY TypeInit, TypeStep, PTL DEF Spec

-----------------------------------------------------------------------------
(* Each list implements ScopedRefresh *)

(* What the helpers do to the server of the rows of one list. *)
LEMMA Froms ==
    ASSUME PlaceTypes, ListTypes, NEW k \in Kinds
    PROVE  /\ \A ks : Cleared(rows, ks)[k].from = IF k \in ks THEN None ELSE rows[k].from
           /\ \A j, ks : Cleared(Relabelled(j), ks)[k].from = IF k \in ks THEN None ELSE rows[k].from
<1>1. rows \in [Kinds -> Row \cup {Empty}] /\ Empty.from = None
  BY DEF ListTypes, Empty
<1>2. \A j : Relabelled(j) \in [Kinds -> Row \cup {Empty}] /\ Relabelled(j)[k].from = rows[k].from
  BY RelabelledRows DEF Redrawn
<1> QED
  BY <1>1, <1>2, ClearedRows

(* What they do to its request. *)
LEMMA Requests ==
    ASSUME NEW k \in Kinds, NEW ks, NEW s
    PROVE  /\ Refreshing(ks, s)[k] = IF k \in ks /\ flight[k] = None THEN s ELSE flight[k]
           /\ k \in Emptied(ks, s) <=> s = None /\ k \in ks /\ flight[k] = None
  BY DEF Refreshing, Emptied

(* A step that a list does not notice. *)
LEMMA StaysImplements ==
    ASSUME NEW k \in Kinds, selected' = selected, Shown(k)' = Shown(k),
           flight'[k] = flight[k], rows'[k].from = rows[k].from
    PROVE  [List(k)!Next]_(List(k)!vars)
  BY DEF List!vars

(* The refresh of the lists ks for the server that stays selected. *)
LEMMA RefreshImplements ==
    ASSUME NEW k \in Kinds, NEW ks, selected' = selected, Shown(k)' = Shown(k),
           flight'[k] = Refreshing(ks, selected)[k],
           rows'[k].from = IF k \in Emptied(ks, selected) THEN None ELSE rows[k].from
    PROVE  [List(k)!Next]_(List(k)!vars)
<1>1. CASE k \in ks /\ flight[k] = None
  BY <1>1, Requests DEF List!Next, List!Refresh, List!Ask
<1>2. CASE ~(k \in ks /\ flight[k] = None)
  BY <1>2, Requests, StaysImplements
<1> QED
  BY <1>1, <1>2

(* The answer to the request of list j. *)
LEMMA AnswerImplements ==
    ASSUME PlaceTypes, ListTypes, NEW k \in Kinds, NEW j \in Kinds, NEW r \in Row,
           Answered(j, r), rows' = [rows EXCEPT ![j] = r] \/ rows' = Cleared(rows, {j})
    PROVE  [List(k)!Next]_(List(k)!vars)
<1>1. /\ selected' = selected /\ Shown(k)' = Shown(k)
      /\ flight[j] = selected /\ selected # None /\ r.from = selected /\ flight' = [flight EXCEPT ![j] = None]
  BY DEF Answered, place, Shown
<1>2. CASE k = j
  <2>1. flight'[k] = None /\ rows'[k].from \in {selected, None}
    BY <1>1, <1>2, Froms DEF ListTypes
  <2> QED
    BY <1>1, <1>2, <2>1 DEF List!Next, List!Answer
<1>3. CASE k # j
  <2>1. flight'[k] = flight[k] /\ rows'[k].from = rows[k].from
    BY <1>1, <1>3, Froms DEF ListTypes
  <2> QED
    BY <1>1, <2>1, StaysImplements
<1> QED
  BY <1>2, <1>3

(* Another server is selected; the lists ks, those on the screen, are       *)
(* refreshed for it.                                                        *)
LEMMA SelectImplements ==
    ASSUME NEW k \in Kinds, NEW ks, Shown(k)' = Shown(k), k \in ks <=> Shown(k),
           selected' \in Servers \cup {None}, selected' # selected,
           flight'[k] = Refreshing(ks, selected')[k],
           rows'[k].from \in {rows[k].from, None},
           k \in Emptied(ks, selected') => rows'[k].from = None
    PROVE  [List(k)!Next]_(List(k)!vars)
<1>1. CASE Shown(k)
  BY <1>1, Requests DEF List!Next, List!Select, List!Ask, List!Scopes
<1>2. CASE ~Shown(k)
  BY <1>2, Requests DEF List!Next, List!Select, List!Scopes
<1> QED
  BY <1>1, <1>2

(* setContainersViewMode(next, ks), beside which no list on the screen      *)
(* before and after it is refreshed for another reason.                     *)
LEMMA ModeImplements ==
    ASSUME PlaceTypes, ListTypes, NEW k \in Kinds, NEW next \in Modes, NEW ks,
           mode' = next, selected' = selected, flight' = FlightsOf(ks, next),
           rows'[k].from = IF k \in Emptied(ks \cup {KindOf(next)}, selected) THEN None ELSE rows[k].from
    PROVE  [List(k)!Next]_(List(k)!vars)
<1> DEFINE all == ks \cup {KindOf(next)}
           R == Refreshing(all, selected)[k]
           aborted == k = "networks" /\ next # "networks"
<1>1. R = IF k \in all /\ flight[k] = None THEN selected ELSE flight[k]
  BY Requests
<1>2. k \in Emptied(all, selected) <=> selected = None /\ k \in all /\ flight[k] = None
  BY Requests
<1>3. flight'[k] = IF aborted /\ R # None THEN IF R = selected THEN None ELSE selected ELSE R
  BY DEF FlightsOf, Refreshing
<1>4. Shown(k)' => k \in all /\ ~aborted
  BY DEF Shown, KindOf, Kinds
<1>5. Shown(k) \in BOOLEAN /\ Shown(k)' \in BOOLEAN
  BY DEF Shown
<1> HIDE DEF R, aborted, all
<1>6. CASE Shown(k)' /\ ~Shown(k)
  BY <1>1, <1>2, <1>3, <1>4, <1>6 DEF all, List!Next, List!Show, List!Ask
<1>7. CASE Shown(k) /\ ~Shown(k)'
  BY <1>1, <1>2, <1>3, <1>7 DEF all, List!Next, List!Hide
<1>8. CASE Shown(k)' = Shown(k) /\ ~aborted
  BY <1>3, <1>8, RefreshImplements DEF R, all
<1>9. CASE ~Shown(k)' /\ ~Shown(k) /\ aborted
  <2>1. CASE flight[k] # None
    BY <1>1, <1>2, <1>3, <1>5, <1>9, <2>1 DEF all, List!Next, List!Abort
  <2>2. CASE flight[k] = None /\ selected = None
    BY <1>1, <1>2, <1>3, <1>5, <1>9, <2>2, RefreshImplements DEF R, all
  <2>3. CASE flight[k] = None /\ selected # None
    BY <1>1, <1>2, <1>3, <1>5, <1>9, <2>3, StaysImplements DEF all
  <2> QED
    BY <2>1, <2>2, <2>3
<1> QED
  BY <1>4, <1>5, <1>6, <1>7, <1>8, <1>9

(* Every step of the page is a step of each list, or none it notices. *)
LEMMA ListStepImplements ==
    ASSUME TypeOK, [Next]_vars, NEW k \in Kinds
    PROVE  [List(k)!Next]_(List(k)!vars)
<1> DEFINE Goal == [List(k)!Next]_(List(k)!vars)
<1>0. /\ PlaceTypes /\ ListTypes /\ ActTypes
      /\ selected \in Servers \cup {None} /\ selected' \in Servers \cup {None} /\ flight[k] \in Servers \cup {None}
  BY TypeParts, PlaceTypesStep DEF PlaceTypes, ListTypes
<1> USE <1>0, NoneApart
<1> HIDE DEF Goal
<1>1. CASE Quiet
  <2>1. UNCHANGED <<place, flight>> /\ rows'[k].from = rows[k].from
    BY <1>1, QuietEffect DEF Redrawn
  <2> QED
    BY <2>1, StaysImplements DEF Goal, place, Shown
<1>2. ASSUME NEW r \in Row, r.label = r.from, loadContainers(r) PROVE Goal
  <2>1. rows' = [rows EXCEPT !["containers"] = r] \/ rows' = Cleared(rows, {"containers"})
    BY <1>2 DEF loadContainers, clearContainersTable, renderContainers, ClearTable
  <2> QED
    BY <1>2, <2>1, AnswerImplements DEF Goal, loadContainers, Kinds
<1>3. ASSUME NEW r \in Row, r.label = r.from, loadStacks(r) PROVE Goal
  <2>1. rows' = [rows EXCEPT !["stacks"] = r] \/ rows' = Cleared(rows, {"stacks"})
    BY <1>3 DEF loadStacks, clearStacksTable, renderStacks, ClearTable
  <2> QED
    BY <1>3, <2>1, AnswerImplements DEF Goal, loadStacks, Kinds
<1>4. ASSUME NEW r \in Row, r.label = r.from, loadImages(r) PROVE Goal
  <2>1. rows' = [rows EXCEPT !["images"] = r] \/ rows' = Cleared(rows, {"images"})
    BY <1>4 DEF loadImages, clearImagesTable, renderImages, ClearTable
  <2> QED
    BY <1>4, <2>1, AnswerImplements DEF Goal, loadImages, Kinds
<1>5. ASSUME NEW r \in Row, r.label = r.from, loadNetworks(r) PROVE Goal
  <2>1. rows' = [rows EXCEPT !["networks"] = r] \/ rows' = Cleared(rows, {"networks"})
    BY <1>5 DEF loadNetworks, clearNetworksTable, renderNetworks, ClearTable
  <2> QED
    BY <1>5, <2>1, AnswerImplements DEF Goal, loadNetworks, Kinds
<1>6. ASSUME NEW r \in Row, r.label = r.from, loadVolumes(r) PROVE Goal
  <2>1. rows' = [rows EXCEPT !["volumes"] = r] \/ rows' = Cleared(rows, {"volumes"})
    BY <1>6 DEF loadVolumes, clearVolumesTable, renderVolumes, ClearTable
  <2> QED
    BY <1>6, <2>1, AnswerImplements DEF Goal, loadVolumes, Kinds
<1>7. ASSUME NEW j \in Kinds, Outdated(j) PROVE Goal
  <2>1. selected' = selected /\ Shown(k)' = Shown(k)
    BY <1>7 DEF Outdated, place, Shown
  <2>2. flight' = [flight EXCEPT ![j] = selected] /\ flight[j] # None /\ flight[j] # selected
    BY <1>7 DEF Outdated, Rerun
  <2>3. rows'[k].from = IF k = j /\ selected = None THEN None ELSE rows[k].from
    BY <1>7, Froms DEF Outdated, ClearTable
  <2>4. CASE k = j
    BY <2>1, <2>2, <2>3, <2>4 DEF Goal, ListTypes, List!Next, List!Outdated
  <2>5. CASE k # j
    BY <2>1, <2>2, <2>3, <2>5, StaysImplements DEF Goal, ListTypes
  <2> QED
    BY <2>4, <2>5
<1>8. ASSUME NEW j \in Kinds, Tick(j) PROVE Goal
  <2>1. selected' = selected /\ Shown(k)' = Shown(k) /\ flight' = Refreshing({j}, selected) /\ flight[j] = None
    BY <1>8 DEF Tick, place, Shown
  <2>2. rows'[k].from = IF k \in Emptied({j}, selected) THEN None ELSE rows[k].from
    BY <1>8, Froms, Requests DEF Tick, ClearTable
  <2> QED
    BY <2>1, <2>2, RefreshImplements DEF Goal
<1>9. ASSUME NEW s \in Servers, PickServer(s) PROVE Goal
  <2>1. /\ Shown(k)' = Shown(k) /\ (k \in {KindOf(mode)} <=> Shown(k))
        /\ selected' = s /\ flight' = Refreshing({KindOf(mode)}, s)
    BY <1>9 DEF PickServer, Page, Shown
  <2>2. k \notin Emptied({KindOf(mode)}, s)
    BY Requests
  <2>3. CASE s = selected
    <3>1. rows'[k].from = rows[k].from
      BY <1>9, <2>3, Froms DEF PickServer
    <3> QED
      BY <2>1, <2>2, <2>3, <3>1, RefreshImplements DEF Goal
  <2>4. CASE s # selected
    <3>1. rows'[k].from \in {rows[k].from, None}
      BY <1>9, Froms DEF PickServer
    <3> QED
      BY <2>1, <2>2, <2>4, <3>1, SelectImplements DEF Goal
  <2> QED
    BY <2>3, <2>4
<1>10. ASSUME NEW list \in ServerLists, updateContainersServerOptions(list) PROVE Goal
  <2> DEFINE ks == IF view = "containers" THEN {KindOf(mode)} ELSE {}
  <2>1. /\ Shown(k)' = Shown(k) /\ (k \in ks <=> Shown(k))
        /\ flight' = Refreshing(ks, selected')
    BY <1>10 DEF updateContainersServerOptions, Shown
  <2>2. rows'[k].from = IF k \in Emptied(ks, selected') THEN None ELSE rows[k].from
    BY <1>10, Froms DEF updateContainersServerOptions
  <2> HIDE DEF ks
  <2>3. CASE selected' = selected
    BY <2>1, <2>2, <2>3, RefreshImplements DEF Goal
  <2>4. CASE selected' # selected
    BY <2>1, <2>2, <2>4, SelectImplements DEF Goal
  <2> QED
    BY <2>3, <2>4
<1>11. ASSUME NEW next \in Modes, SwitchMode(next) PROVE Goal
  <2>1. mode' = next /\ selected' = selected /\ flight' = FlightsOf({}, next)
    BY <1>11 DEF SwitchMode, setContainersViewMode
  <2>2. rows'[k].from = IF k \in Emptied({} \cup {KindOf(next)}, selected) THEN None ELSE rows[k].from
    BY <1>11, Froms, Requests DEF SwitchMode, AfterClick
  <2> QED
    BY <2>1, <2>2, ModeImplements DEF Goal
<1>12. ASSUME NEW next \in Modes, EnterContainers(next) PROVE Goal
  <2>1. mode' = next /\ selected' = selected /\ flight' = FlightsOf({KindOf(mode)}, next)
    BY <1>12 DEF EnterContainers, setContainersViewMode
  <2>2. rows'[k].from = IF k \in Emptied({KindOf(mode)} \cup {KindOf(next)}, selected) THEN None ELSE rows[k].from
    BY <1>12, Froms, Requests DEF EnterContainers, AfterClick
  <2> QED
    BY <2>1, <2>2, ModeImplements DEF Goal
<1>13. CASE LeaveContainers
  <2>1. selected' = selected /\ flight' = flight /\ ~Shown(k)'
    BY <1>13 DEF LeaveContainers, Left, Shown
  <2>2. rows'[k].from = rows[k].from
    BY <1>13, Froms, Requests DEF LeaveContainers, AfterClick
  <2>3. CASE Shown(k)
    BY <2>1, <2>2, <2>3 DEF Goal, List!Next, List!Hide
  <2>4. CASE ~Shown(k)
    BY <2>1, <2>2, <2>4, StaysImplements DEF Goal, Shown
  <2> QED
    BY <2>3, <2>4
<1>14. CASE applyExperimentalFeatures
  <2> DEFINE ks == IF view = "containers" THEN {KindOf(mode)} ELSE {}
  <2>1. mode' = "table" /\ selected' = selected /\ flight' = FlightsOf(ks, "table")
    BY <1>14 DEF applyExperimentalFeatures, setContainersViewMode
  <2>2. KindOf("table") = "containers" /\ "table" \in Modes
    BY DEF KindOf, Kinds, Modes
  <2>3. rows'[k].from = IF k \in Emptied(ks \cup {KindOf("table")}, selected) THEN None ELSE rows[k].from
    BY <1>14, <2>2, Froms, Requests DEF applyExperimentalFeatures
  <2> HIDE DEF ks
  <2> QED
    BY <2>1, <2>2, <2>3, ModeImplements DEF Goal
<1>15. CASE RefreshButton
  <2>1. selected' = selected /\ Shown(k)' = Shown(k) /\ flight' = Refreshing({KindOf(mode)}, selected)
    BY <1>15 DEF RefreshButton, place, Shown
  <2>2. rows'[k].from = IF k \in Emptied({KindOf(mode)}, selected) THEN None ELSE rows[k].from
    BY <1>15, Froms DEF RefreshButton, AfterClick
  <2> QED
    BY <2>1, <2>2, RefreshImplements DEF Goal
<1>16. CASE ActionDone
  <2> DEFINE r == [rows EXCEPT ![act.kind].label =
                      IF act.kind = "containers" /\ rows[act.kind].from = act.scope THEN act.scope ELSE @]
             e == Emptied({act.kind}, selected)
  <2>1. selected' = selected /\ Shown(k)' = Shown(k) /\ flight' = Refreshing({act.kind}, selected)
    BY <1>16 DEF ActionDone, place, Shown
  <2>2. r \in [Kinds -> Row \cup {Empty}] /\ r[k].from = rows[k].from
    BY <1>16, ActionDoneRows DEF ActionDone
  <2>3. rows' = Cleared(r, e)
    BY <1>16 DEF ActionDone
  <2> HIDE DEF r
  <2>4. rows'[k].from = IF k \in e THEN None ELSE rows[k].from
    BY <2>2, <2>3, ClearedRows DEF Empty
  <2> QED
    BY <2>1, <2>4, RefreshImplements DEF Goal
<1>17. CASE PullDone
  <2>1. selected' = selected /\ Shown(k)' = Shown(k) /\ flight' = Refreshing({"images"}, selected)
    BY <1>17 DEF PullDone, place, Shown
  <2>2. rows'[k].from = IF k \in Emptied({"images"}, selected) THEN None ELSE rows[k].from
    BY <1>17, Froms, Requests DEF PullDone, ClearTable
  <2> QED
    BY <2>1, <2>2, RefreshImplements DEF Goal
<1>18. CASE ConnectDone
  <2>1. selected' = selected /\ Shown(k)' = Shown(k) /\ flight' = Refreshing({"networks"}, selected)
    BY <1>18 DEF ConnectDone, place, Shown
  <2>2. rows'[k].from = IF k \in Emptied({"networks"}, selected) THEN None ELSE rows[k].from
    BY <1>18, Froms, Requests DEF ConnectDone, ClearTable
  <2> QED
    BY <2>1, <2>2, RefreshImplements DEF Goal
<1>19. CASE UNCHANGED vars
  BY <1>19, StaysImplements DEF Goal, vars, place, lists, Shown
<1> QED
  BY <1>1, <1>2, <1>3, <1>4, <1>5, <1>6, <1>7, <1>8, <1>9, <1>10, <1>11, <1>12, <1>13, <1>14, <1>15, <1>16, <1>17, <1>18, <1>19
  DEF Next, ListStep, AnswerStep, ActionStep, PageStep, PullStep, NetworkStep, Quiet, Goal

(* The page is loaded with lists in their abstract initial state. *)
LEMMA ListInit == ASSUME Init, NEW k \in Kinds PROVE List(k)!Init
<1>1. selected \in Servers \cup {None}
  BY TypeInit DEF TypeOK
<1>2. ~Shown(k) /\ flight[k] = None /\ rows[k].from = None
  BY DEF Init, Shown, Empty
<1> QED
  BY <1>1, <1>2 DEF List!Init, List!Scopes, Shown

(* The refinement: each of the five lists of the page is a list as          *)
(* ScopedRefresh describes it, whatever is picked, switched, armed, pulled  *)
(* or removed while requests are under way.                                 *)
THEOREM ListsScoped == Spec => ListsAreScoped
<1>1. Init => ContainersList!Init
  BY ListInit DEF ContainersList!Init, ContainersList!Scopes, List!Init, List!Scopes, Kinds
<1>2. TypeOK /\ [Next]_vars => [ContainersList!Next]_(ContainersList!vars)
  <2> SUFFICES ASSUME TypeOK, [Next]_vars PROVE [ContainersList!Next]_(ContainersList!vars)
    OBVIOUS
  <2>1. [List("containers")!Next]_(List("containers")!vars)
    BY ListStepImplements DEF Kinds
  <2> QED
    BY <2>1 DEF ContainersList!Next, ContainersList!vars, ContainersList!Select, ContainersList!Show, ContainersList!Hide, ContainersList!Refresh, ContainersList!Answer, ContainersList!Outdated, ContainersList!Abort, ContainersList!Ask, ContainersList!Scopes,
            List!Next, List!vars, List!Select, List!Show, List!Hide, List!Refresh, List!Answer, List!Outdated, List!Abort, List!Ask, List!Scopes
<1>3. Spec => ContainersList!Spec
  BY <1>1, <1>2, ListsTypeCorrect, PTL DEF Spec, ContainersList!Spec
<1>4. Init => StacksList!Init
  BY ListInit DEF StacksList!Init, StacksList!Scopes, List!Init, List!Scopes, Kinds
<1>5. TypeOK /\ [Next]_vars => [StacksList!Next]_(StacksList!vars)
  <2> SUFFICES ASSUME TypeOK, [Next]_vars PROVE [StacksList!Next]_(StacksList!vars)
    OBVIOUS
  <2>1. [List("stacks")!Next]_(List("stacks")!vars)
    BY ListStepImplements DEF Kinds
  <2> QED
    BY <2>1 DEF StacksList!Next, StacksList!vars, StacksList!Select, StacksList!Show, StacksList!Hide, StacksList!Refresh, StacksList!Answer, StacksList!Outdated, StacksList!Abort, StacksList!Ask, StacksList!Scopes,
            List!Next, List!vars, List!Select, List!Show, List!Hide, List!Refresh, List!Answer, List!Outdated, List!Abort, List!Ask, List!Scopes
<1>6. Spec => StacksList!Spec
  BY <1>4, <1>5, ListsTypeCorrect, PTL DEF Spec, StacksList!Spec
<1>7. Init => ImagesList!Init
  BY ListInit DEF ImagesList!Init, ImagesList!Scopes, List!Init, List!Scopes, Kinds
<1>8. TypeOK /\ [Next]_vars => [ImagesList!Next]_(ImagesList!vars)
  <2> SUFFICES ASSUME TypeOK, [Next]_vars PROVE [ImagesList!Next]_(ImagesList!vars)
    OBVIOUS
  <2>1. [List("images")!Next]_(List("images")!vars)
    BY ListStepImplements DEF Kinds
  <2> QED
    BY <2>1 DEF ImagesList!Next, ImagesList!vars, ImagesList!Select, ImagesList!Show, ImagesList!Hide, ImagesList!Refresh, ImagesList!Answer, ImagesList!Outdated, ImagesList!Abort, ImagesList!Ask, ImagesList!Scopes,
            List!Next, List!vars, List!Select, List!Show, List!Hide, List!Refresh, List!Answer, List!Outdated, List!Abort, List!Ask, List!Scopes
<1>9. Spec => ImagesList!Spec
  BY <1>7, <1>8, ListsTypeCorrect, PTL DEF Spec, ImagesList!Spec
<1>10. Init => NetworksList!Init
  BY ListInit DEF NetworksList!Init, NetworksList!Scopes, List!Init, List!Scopes, Kinds
<1>11. TypeOK /\ [Next]_vars => [NetworksList!Next]_(NetworksList!vars)
  <2> SUFFICES ASSUME TypeOK, [Next]_vars PROVE [NetworksList!Next]_(NetworksList!vars)
    OBVIOUS
  <2>1. [List("networks")!Next]_(List("networks")!vars)
    BY ListStepImplements DEF Kinds
  <2> QED
    BY <2>1 DEF NetworksList!Next, NetworksList!vars, NetworksList!Select, NetworksList!Show, NetworksList!Hide, NetworksList!Refresh, NetworksList!Answer, NetworksList!Outdated, NetworksList!Abort, NetworksList!Ask, NetworksList!Scopes,
            List!Next, List!vars, List!Select, List!Show, List!Hide, List!Refresh, List!Answer, List!Outdated, List!Abort, List!Ask, List!Scopes
<1>12. Spec => NetworksList!Spec
  BY <1>10, <1>11, ListsTypeCorrect, PTL DEF Spec, NetworksList!Spec
<1>13. Init => VolumesList!Init
  BY ListInit DEF VolumesList!Init, VolumesList!Scopes, List!Init, List!Scopes, Kinds
<1>14. TypeOK /\ [Next]_vars => [VolumesList!Next]_(VolumesList!vars)
  <2> SUFFICES ASSUME TypeOK, [Next]_vars PROVE [VolumesList!Next]_(VolumesList!vars)
    OBVIOUS
  <2>1. [List("volumes")!Next]_(List("volumes")!vars)
    BY ListStepImplements DEF Kinds
  <2> QED
    BY <2>1 DEF VolumesList!Next, VolumesList!vars, VolumesList!Select, VolumesList!Show, VolumesList!Hide, VolumesList!Refresh, VolumesList!Answer, VolumesList!Outdated, VolumesList!Abort, VolumesList!Ask, VolumesList!Scopes,
            List!Next, List!vars, List!Select, List!Show, List!Hide, List!Refresh, List!Answer, List!Outdated, List!Abort, List!Ask, List!Scopes
<1>15. Spec => VolumesList!Spec
  BY <1>13, <1>14, ListsTypeCorrect, PTL DEF Spec, VolumesList!Spec
<1> QED
  BY <1>3, <1>6, <1>9, <1>12, <1>15 DEF ListsAreScoped

-----------------------------------------------------------------------------
(* What ScopedRefresh guarantees of a list *)

(* The abstract list keeps its types. *)
LEMMA ScopedTypeStep ==
    ASSUME NEW k \in Kinds PROVE List(k)!TypeOK /\ [List(k)!Next]_(List(k)!vars) => List(k)!TypeOK'
<1> SUFFICES ASSUME List(k)!TypeOK, [List(k)!Next]_(List(k)!vars) PROVE List(k)!TypeOK'
  OBVIOUS
<1>0. Shown(k)' \in BOOLEAN
  BY DEF Shown
<1>1. CASE List(k)!Select \/ List(k)!Show \/ List(k)!Refresh
  BY <1>0, <1>1 DEF List!TypeOK, List!Scopes, List!Select, List!Show, List!Refresh, List!Ask
<1>2. CASE List(k)!Hide \/ List(k)!Answer \/ List(k)!Outdated \/ List(k)!Abort
  BY <1>0, <1>2 DEF List!TypeOK, List!Scopes, List!Hide, List!Answer, List!Outdated, List!Abort
<1>3. CASE UNCHANGED List(k)!vars
  BY <1>3 DEF List!TypeOK, List!Scopes, List!vars
<1> QED
  BY <1>1, <1>2, <1>3 DEF List!Next

(* A list on the screen is settled or has its request under way: selecting, *)
(* showing and an answer that came too late each start the next request, or *)
(* empty a list without a server.                                           *)
LEMMA ScopedSettledStep ==
    ASSUME NEW k \in Kinds PROVE List(k)!Settled /\ [List(k)!Next]_(List(k)!vars) => List(k)!Settled'
<1> SUFFICES ASSUME List(k)!Settled, [List(k)!Next]_(List(k)!vars) PROVE List(k)!Settled'
  OBVIOUS
<1>1. CASE List(k)!Select
  BY <1>1 DEF List!Settled, List!Select, List!Ask
<1>2. CASE List(k)!Show \/ List(k)!Refresh
  BY <1>2 DEF List!Settled, List!Show, List!Refresh, List!Ask
<1>3. CASE List(k)!Hide
  BY <1>3 DEF List!Settled, List!Hide
<1>4. CASE List(k)!Answer \/ List(k)!Outdated \/ List(k)!Abort
  BY <1>4 DEF List!Settled, List!Answer, List!Outdated, List!Abort
<1>5. CASE UNCHANGED List(k)!vars
  BY <1>5 DEF List!Settled, List!vars
<1> QED
  BY <1>1, <1>2, <1>3, <1>4, <1>5 DEF List!Next

(* The state of a list of ScopedRefresh is well typed. *)
THEOREM ScopedTypeCorrect == ASSUME NEW k \in Kinds PROVE List(k)!Spec => []List(k)!TypeOK
<1>1. List(k)!Init => List(k)!TypeOK
  BY DEF List!Init, List!TypeOK, List!Scopes
<1> QED
  BY <1>1, ScopedTypeStep, PTL DEF List!Spec

(* The promise of runScopedRefresh: rows on the screen with no request      *)
(* under way are rows of the selected server.                               *)
THEOREM ScopedSettled == ASSUME NEW k \in Kinds PROVE List(k)!Spec => []List(k)!Settled
<1>1. List(k)!Init => List(k)!Settled
  BY DEF List!Init, List!Settled
<1> QED
  BY <1>1, ScopedSettledStep, PTL DEF List!Spec

-----------------------------------------------------------------------------
(* The other invariants *)

(* What clearing leaves of a list, after a click or without one. *)
LEMMA ClearedOne ==
    ASSUME PlaceTypes, ListTypes, NEW k \in Kinds
    PROVE  /\ \A ks : Cleared(rows, ks)[k] = IF k \in ks THEN Empty ELSE rows[k]
           /\ \A ks : Cleared(Relabelled(None), ks)[k] = IF k \in ks THEN Empty ELSE Relabelled(None)[k]
  BY ClearedRows, RelabelledRows DEF Redrawn, ListTypes

(* The rows of a settled list have buttons for the selected server: a step  *)
(* that shows or refreshes a list starts a request or empties the list.     *)
LEMMA LabelStep == LabelInv /\ TypeOK /\ [Next]_vars => LabelInv'
<1> SUFFICES ASSUME LabelInv, TypeOK, [Next]_vars, NEW k \in Kinds,
                    Shown(k)', flight'[k] = None, rows'[k] # Empty
             PROVE  rows'[k].label = selected'
  BY DEF LabelInv, Shown
<1> DEFINE Goal == rows'[k].label = selected'
<1>0. PlaceTypes /\ ListTypes /\ ActTypes
  BY TypeParts
<1>p. Shown(k) /\ flight[k] = None /\ rows[k] # Empty => rows[k].label = selected
  BY DEF LabelInv
<1>r. ASSUME NEW ks, k \in ks, flight'[k] = Refreshing(ks, selected')[k] PROVE k \in Emptied(ks, selected')
  BY <1>r, Requests
<1> USE <1>0, NoneApart
<1> HIDE DEF Goal
<1>1. CASE Quiet
  <2>1. /\ UNCHANGED <<place, flight>> /\ rows[k] # Empty /\ rows'[k].label \in {rows[k].label, selected}
    BY <1>1, QuietEffect DEF Redrawn
  <2> QED
    BY <2>1, <1>p DEF Goal, place, Shown
<1>2. ASSUME NEW r \in Row, r.label = r.from, loadContainers(r) PROVE Goal
  <2>1. rows' = [rows EXCEPT !["containers"] = r] \/ rows' = Cleared(rows, {"containers"})
    BY <1>2 DEF loadContainers, clearContainersTable, renderContainers, ClearTable
  <2>2. CASE k = "containers"
    BY <1>2, <2>1, <2>2, ClearedOne DEF Goal, loadContainers, Answered, place, ListTypes
  <2>3. CASE k # "containers"
    BY <1>2, <2>1, <2>3, <1>p, ClearedOne DEF Goal, loadContainers, Answered, place, ListTypes, Shown
  <2> QED
    BY <2>2, <2>3
<1>3. ASSUME NEW r \in Row, r.label = r.from, loadStacks(r) PROVE Goal
  <2>1. rows' = [rows EXCEPT !["stacks"] = r] \/ rows' = Cleared(rows, {"stacks"})
    BY <1>3 DEF loadStacks, clearStacksTable, renderStacks, ClearTable
  <2>2. CASE k = "stacks"
    BY <1>3, <2>1, <2>2, ClearedOne DEF Goal, loadStacks, Answered, place, ListTypes
  <2>3. CASE k # "stacks"
    BY <1>3, <2>1, <2>3, <1>p, ClearedOne DEF Goal, loadStacks, Answered, place, ListTypes, Shown
  <2> QED
    BY <2>2, <2>3
<1>4. ASSUME NEW r \in Row, r.label = r.from, loadImages(r) PROVE Goal
  <2>1. rows' = [rows EXCEPT !["images"] = r] \/ rows' = Cleared(rows, {"images"})
    BY <1>4 DEF loadImages, clearImagesTable, renderImages, ClearTable
  <2>2. CASE k = "images"
    BY <1>4, <2>1, <2>2, ClearedOne DEF Goal, loadImages, Answered, place, ListTypes
  <2>3. CASE k # "images"
    BY <1>4, <2>1, <2>3, <1>p, ClearedOne DEF Goal, loadImages, Answered, place, ListTypes, Shown
  <2> QED
    BY <2>2, <2>3
<1>5. ASSUME NEW r \in Row, r.label = r.from, loadNetworks(r) PROVE Goal
  <2>1. rows' = [rows EXCEPT !["networks"] = r] \/ rows' = Cleared(rows, {"networks"})
    BY <1>5 DEF loadNetworks, clearNetworksTable, renderNetworks, ClearTable
  <2>2. CASE k = "networks"
    BY <1>5, <2>1, <2>2, ClearedOne DEF Goal, loadNetworks, Answered, place, ListTypes
  <2>3. CASE k # "networks"
    BY <1>5, <2>1, <2>3, <1>p, ClearedOne DEF Goal, loadNetworks, Answered, place, ListTypes, Shown
  <2> QED
    BY <2>2, <2>3
<1>6. ASSUME NEW r \in Row, r.label = r.from, loadVolumes(r) PROVE Goal
  <2>1. rows' = [rows EXCEPT !["volumes"] = r] \/ rows' = Cleared(rows, {"volumes"})
    BY <1>6 DEF loadVolumes, clearVolumesTable, renderVolumes, ClearTable
  <2>2. CASE k = "volumes"
    BY <1>6, <2>1, <2>2, ClearedOne DEF Goal, loadVolumes, Answered, place, ListTypes
  <2>3. CASE k # "volumes"
    BY <1>6, <2>1, <2>3, <1>p, ClearedOne DEF Goal, loadVolumes, Answered, place, ListTypes, Shown
  <2> QED
    BY <2>2, <2>3
<1>7. ASSUME NEW j \in Kinds, Outdated(j) PROVE Goal
  <2>1. selected' = selected /\ Shown(k) /\ flight' = [flight EXCEPT ![j] = selected]
    BY <1>7 DEF Outdated, Rerun, place, Shown
  <2>2. rows'[k] = IF k = j /\ selected = None THEN Empty ELSE rows[k]
    BY <1>7, ClearedOne DEF Outdated, ClearTable
  <2>3. CASE k = j
    BY <2>1, <2>2, <2>3 DEF ListTypes
  <2>4. CASE k # j
    BY <2>1, <2>2, <2>4, <1>p DEF Goal, ListTypes
  <2> QED
    BY <2>3, <2>4
<1>8. ASSUME NEW j \in Kinds, Tick(j) PROVE Goal
  <2>1. selected' = selected /\ Shown(k) /\ flight' = Refreshing({j}, selected)
    BY <1>8 DEF Tick, place, Shown
  <2>2. CASE k = j
    <3>1. k \in Emptied({j}, selected)
      BY <2>1, <2>2, <1>r
    <3> QED
      BY <1>8, <2>2, <3>1, ClearedOne, Requests DEF Tick, ClearTable
  <2>3. CASE k # j
    <3>1. flight'[k] = flight[k]
      BY <2>1, <2>3, Requests
    <3>2. rows'[k] = rows[k]
      BY <1>8, <2>3, ClearedOne DEF Tick, ClearTable
    <3> QED
      BY <2>1, <3>1, <3>2, <1>p DEF Goal
  <2> QED
    BY <2>2, <2>3
<1>9. ASSUME NEW s \in Servers, PickServer(s) PROVE Goal
  <2>1. k \in {KindOf(mode)} /\ selected' = s /\ flight' = Refreshing({KindOf(mode)}, s)
    BY <1>9 DEF PickServer, Page, Shown
  <2>2. k \notin Emptied({KindOf(mode)}, s)
    BY Requests
  <2> QED
    BY <2>1, <2>2, <1>r
<1>10. ASSUME NEW list \in ServerLists, updateContainersServerOptions(list) PROVE Goal
  <2> DEFINE ks == IF view = "containers" THEN {KindOf(mode)} ELSE {}
  <2>1. k \in ks /\ flight' = Refreshing(ks, selected')
    BY <1>10 DEF updateContainersServerOptions, Shown
  <2>2. rows' = Cleared(rows, Emptied(ks, selected'))
    BY <1>10 DEF updateContainersServerOptions
  <2> HIDE DEF ks
  <2>3. k \in Emptied(ks, selected')
    BY <2>1, <1>r
  <2> QED
    BY <2>2, <2>3, ClearedOne
<1>11. ASSUME NEW next \in Modes, SwitchMode(next) PROVE Goal
  <2>1. /\ selected' = selected /\ mode' = next /\ flight' = FlightsOf({}, next)
        /\ rows' = Cleared(Relabelled(None), Emptied({} \cup {KindOf(next)}, selected))
    BY <1>11 DEF SwitchMode, setContainersViewMode, AfterClick, Emptied
  <2>2. k = KindOf(next) /\ (k = "networks" => next = "networks")
    BY <2>1 DEF Shown, KindOf, Kinds
  <2>3. flight'[k] = Refreshing({} \cup {KindOf(next)}, selected)[k]
    BY <2>1, <2>2 DEF FlightsOf, Refreshing
  <2>4. k \in Emptied({} \cup {KindOf(next)}, selected)
    BY <2>1, <2>2, <2>3, <1>r
  <2> QED
    BY <2>1, <2>4, ClearedOne
<1>12. ASSUME NEW next \in Modes, EnterContainers(next) PROVE Goal
  <2>1. /\ selected' = selected /\ mode' = next /\ flight' = FlightsOf({KindOf(mode)}, next)
        /\ rows' = Cleared(Relabelled(None), Emptied({KindOf(mode)} \cup {KindOf(next)}, selected))
    BY <1>12 DEF EnterContainers, setContainersViewMode, AfterClick, Emptied
  <2>2. k = KindOf(next) /\ (k = "networks" => next = "networks")
    BY <2>1 DEF Shown, KindOf, Kinds
  <2>3. flight'[k] = Refreshing({KindOf(mode)} \cup {KindOf(next)}, selected)[k]
    BY <2>1, <2>2 DEF FlightsOf, Refreshing
  <2>4. k \in Emptied({KindOf(mode)} \cup {KindOf(next)}, selected)
    BY <2>1, <2>2, <2>3, <1>r
  <2> QED
    BY <2>1, <2>4, ClearedOne
<1>13. CASE LeaveContainers
  BY <1>13 DEF LeaveContainers, Left, Shown
<1>14. CASE applyExperimentalFeatures
  <2> DEFINE ks == IF view = "containers" THEN {KindOf(mode)} ELSE {}
  <2>1. /\ selected' = selected /\ mode' = "table" /\ flight' = FlightsOf(ks, "table")
        /\ rows' = Cleared(rows, Emptied(ks \cup {KindOf("table")}, selected))
    BY <1>14 DEF applyExperimentalFeatures, setContainersViewMode, Emptied, KindOf, Kinds
  <2>2. k = KindOf("table") /\ (k = "networks" => "table" = "networks")
    BY <2>1 DEF Shown, KindOf, Kinds
  <2>3. flight'[k] = Refreshing(ks \cup {KindOf("table")}, selected)[k]
    BY <2>1, <2>2 DEF FlightsOf, Refreshing
  <2>4. k \in Emptied(ks \cup {KindOf("table")}, selected)
    BY <2>1, <2>2, <2>3, <1>r
  <2> QED
    BY <2>1, <2>4, ClearedOne
<1>15. CASE RefreshButton
  <2>1. /\ selected' = selected /\ k \in {KindOf(mode)} /\ flight' = Refreshing({KindOf(mode)}, selected)
        /\ rows' = Cleared(Relabelled(None), Emptied({KindOf(mode)}, selected))
    BY <1>15 DEF RefreshButton, AfterClick, place, Shown
  <2>2. k \in Emptied({KindOf(mode)}, selected)
    BY <2>1, <1>r
  <2> QED
    BY <2>1, <2>2, ClearedOne
<1>16. CASE ActionDone
  <2> DEFINE r == [rows EXCEPT ![act.kind].label =
                      IF act.kind = "containers" /\ rows[act.kind].from = act.scope THEN act.scope ELSE @]
             e == Emptied({act.kind}, selected)
  <2>1. selected' = selected /\ Shown(k) /\ flight' = Refreshing({act.kind}, selected)
    BY <1>16 DEF ActionDone, place, Shown
  <2>2. r \in [Kinds -> Row \cup {Empty}] /\ (k # act.kind => r[k] = rows[k])
    BY <1>16, ActionDoneRows DEF ActionDone
  <2>3. rows' = Cleared(r, e)
    BY <1>16 DEF ActionDone
  <2> HIDE DEF r
  <2>4. rows'[k] = IF k \in e THEN Empty ELSE r[k]
    BY <2>2, <2>3, ClearedRows
  <2>5. CASE k = act.kind
    <3>1. k \in e
      BY <2>1, <2>5, <1>r
    <3> QED
      BY <2>4, <3>1
  <2>6. CASE k # act.kind
    <3>1. k \notin e /\ flight'[k] = flight[k]
      BY <2>1, <2>6, Requests
    <3> QED
      BY <2>1, <2>2, <2>4, <2>6, <3>1, <1>p DEF Goal
  <2> QED
    BY <2>5, <2>6
<1>17. CASE PullDone
  <2>1. selected' = selected /\ Shown(k) /\ flight' = Refreshing({"images"}, selected)
    BY <1>17 DEF PullDone, place, Shown
  <2>2. CASE k = "images"
    <3>1. k \in Emptied({"images"}, selected)
      BY <2>1, <2>2, <1>r
    <3> QED
      BY <1>17, <2>2, <3>1, ClearedOne, Requests DEF PullDone, ClearTable
  <2>3. CASE k # "images"
    <3>1. flight'[k] = flight[k]
      BY <2>1, <2>3, Requests
    <3>2. rows'[k] = rows[k]
      BY <1>17, <2>3, ClearedOne DEF PullDone, ClearTable
    <3> QED
      BY <2>1, <3>1, <3>2, <1>p DEF Goal
  <2> QED
    BY <2>2, <2>3
<1>18. CASE ConnectDone
  <2>1. selected' = selected /\ Shown(k) /\ flight' = Refreshing({"networks"}, selected)
    BY <1>18 DEF ConnectDone, place, Shown
  <2>2. CASE k = "networks"
    <3>1. k \in Emptied({"networks"}, selected)
      BY <2>1, <2>2, <1>r
    <3> QED
      BY <1>18, <2>2, <3>1, ClearedOne, Requests DEF ConnectDone, ClearTable
  <2>3. CASE k # "networks"
    <3>1. flight'[k] = flight[k]
      BY <2>1, <2>3, Requests
    <3>2. rows'[k] = rows[k]
      BY <1>18, <2>3, ClearedOne DEF ConnectDone, ClearTable
    <3> QED
      BY <2>1, <3>1, <3>2, <1>p DEF Goal
  <2> QED
    BY <2>2, <2>3
<1>19. CASE UNCHANGED vars
  BY <1>19, <1>p DEF Goal, vars, place, lists, Shown
<1> QED
  BY <1>1, <1>2, <1>3, <1>4, <1>5, <1>6, <1>7, <1>8, <1>9, <1>10, <1>11, <1>12, <1>13, <1>14, <1>15, <1>16, <1>17, <1>18, <1>19
  DEF Next, ListStep, AnswerStep, ActionStep, PageStep, PullStep, NetworkStep, Quiet, Goal

(* What clearing and drawing again leave of the item of a list. *)
LEMMA Items ==
    ASSUME PlaceTypes, ListTypes, NEW k \in Kinds
    PROVE  /\ \A j : Relabelled(j)[k].item = rows[k].item
           /\ \A ks : k \notin ks => Cleared(rows, ks)[k].item = rows[k].item
           /\ \A ks : k \notin ks => Cleared(Relabelled(None), ks)[k].item = rows[k].item
  BY ClearedOne, RelabelledRows DEF Redrawn

(* A list that is emptied takes its selection and confirmations along. *)
LEMMA ClearTableTargets ==
    ASSUME TargetsListed, PlaceTypes, ListTypes, NEW k \in Kinds, ClearTable(k)
    PROVE  TargetsListed'
<1>1. {"images", "networks", "volumes"} \subseteq Kinds
  BY DEF Kinds
<1>2. \A j \in Kinds : j # k => rows'[j].item = rows[j].item
  BY Items DEF ClearTable
<1>3. image' => image /\ k # "images"
  BY DEF ClearTable, ImageAfterClear
<1>4. \A j \in {"networks", "volumes"} : <<j, "item">> \in armed' => <<j, "item">> \in armed /\ j # k
  BY DEF ClearTable, ArmedAfterClear
<1> QED
  BY <1>1, <1>2, <1>3, <1>4 DEF TargetsListed

(* What is armed or selected for an item goes with the item. *)
LEMMA TargetsStep == TargetsListed /\ TypeOK /\ [Next]_vars => TargetsListed'
<1> SUFFICES ASSUME TargetsListed, TypeOK, [Next]_vars PROVE TargetsListed'
  OBVIOUS
<1>0. PlaceTypes /\ ListTypes /\ ActTypes /\ {"images", "networks", "volumes"} \subseteq Kinds
  BY TypeParts DEF Kinds
<1>p. /\ image => rows["images"].item
      /\ <<"networks", "item">> \in armed => rows["networks"].item
      /\ <<"volumes", "item">> \in armed => rows["volumes"].item
  BY DEF TargetsListed
<1>g. ASSUME /\ image' => rows'["images"].item
             /\ <<"networks", "item">> \in armed' => rows'["networks"].item
             /\ <<"volumes", "item">> \in armed' => rows'["volumes"].item
      PROVE  TargetsListed'
  BY <1>g DEF TargetsListed
<1>n. Kept(None) = {} /\ \A k : Kept(k) \subseteq armed
  BY <1>0, KeptNone, KeptArmed
<1> USE <1>0
<1>1. CASE Running
  BY <1>1, <1>p, <1>g, RunningEffect, Items
<1>2. CASE DialogOnly
  BY <1>2, <1>p, <1>g, DialogOnlyFrame DEF lists
<1>3. CASE TableResources
  BY <1>3, <1>p, <1>g DEF TableResources, renderContainers, ListTypes
<1>4. ASSUME NEW on \in BOOLEAN, selectImageRow(on) PROVE TargetsListed'
  BY <1>4, <1>p, <1>g, <1>n, Items DEF selectImageRow
<1>5. CASE updateContainerRow
  BY <1>5, <1>p, <1>g, <1>n, Items DEF updateContainerRow, Arms, Offered
<1>6. CASE updateStackRow
  BY <1>6, <1>p, <1>g, <1>n, Items DEF updateStackRow, Arms, Offered
<1>7. ASSUME NEW what \in {"item", "all"}, toggleImagesConfirm(what) PROVE TargetsListed'
  BY <1>7, <1>p, <1>g, Items DEF toggleImagesConfirm, Arms, Offered
<1>8. ASSUME NEW what \in {"item", "all"}, ArmNetworks(what) PROVE TargetsListed'
  BY <1>8, <1>p, <1>g, Items DEF ArmNetworks, Arms, Offered
<1>9. ASSUME NEW what \in {"item", "all"}, ArmVolumes(what) PROVE TargetsListed'
  BY <1>9, <1>p, <1>g, Items DEF ArmVolumes, Arms, Offered
<1>10. CASE ActionFails
  BY <1>10, <1>p, <1>g DEF ActionFails
<1>11. CASE openImagesPullModal
  BY <1>11, <1>p, <1>g, <1>n, Items DEF openImagesPullModal
<1>12. ASSUME NEW n \in Networks, openNetworkDetailsModal(n) PROVE TargetsListed'
  BY <1>12, <1>p, <1>g, <1>n, Items DEF openNetworkDetailsModal, DialogOpens
<1>13. ASSUME NEW n \in Networks, openNetworkConnectModal(n) PROVE TargetsListed'
  BY <1>13, <1>p, <1>g, <1>n, Items DEF openNetworkConnectModal, DialogOpens
<1>14. ASSUME NEW n \in Networks, openNetworkDisconnectModal(n) PROVE TargetsListed'
  BY <1>14, <1>p, <1>g, <1>n, Items DEF openNetworkDisconnectModal, DialogOpens
<1>15. ASSUME NEW r \in Row, r.label = r.from, loadContainers(r) PROVE TargetsListed'
  BY <1>15, <1>p, <1>g, Items, ClearedOne DEF loadContainers, Answered, clearContainersTable, renderContainers, refreshContainersTableResources, ClearTable, ArmedAfterClear, ImageAfterClear, ListTypes
<1>16. ASSUME NEW r \in Row, r.label = r.from, loadStacks(r) PROVE TargetsListed'
  BY <1>16, <1>p, <1>g, Items, ClearedOne DEF loadStacks, Answered, clearStacksTable, renderStacks, ClearTable, ArmedAfterClear, ImageAfterClear, ListTypes
<1>17. ASSUME NEW r \in Row, r.label = r.from, loadImages(r) PROVE TargetsListed'
  <2>1. CASE clearImagesTable
    BY <2>1, ClearTableTargets DEF clearImagesTable
  <2>2. CASE renderImages(r)
    <3>1. rows'["images"] = r /\ rows'["networks"] = rows["networks"] /\ rows'["volumes"] = rows["volumes"]
      BY <2>2 DEF renderImages, ListTypes
    <3>2. armed' = armed /\ (image' => r.item)
      BY <2>2 DEF renderImages
    <3> QED
      BY <3>1, <3>2, <1>p, <1>g
  <2> QED
    BY <1>17, <2>1, <2>2 DEF loadImages
<1>18. ASSUME NEW r \in Row, r.label = r.from, loadNetworks(r) PROVE TargetsListed'
  BY <1>18, <1>p, <1>g, Items, ClearedOne DEF loadNetworks, Answered, clearNetworksTable, renderNetworks, ClearTable, ArmedAfterClear, ImageAfterClear, ListTypes
<1>19. ASSUME NEW r \in Row, r.label = r.from, loadVolumes(r) PROVE TargetsListed'
  BY <1>19, <1>p, <1>g, Items, ClearedOne DEF loadVolumes, Answered, clearVolumesTable, renderVolumes, ClearTable, ArmedAfterClear, ImageAfterClear, ListTypes
<1>20. ASSUME NEW k \in Kinds, Outdated(k) PROVE TargetsListed'
  <2>1. CASE rows' = rows /\ armed' = armed /\ image' = image
    BY <2>1, <1>p, <1>g
  <2>2. CASE ~(rows' = rows /\ armed' = armed /\ image' = image)
    BY <1>20, <2>2, ClearTableTargets DEF Outdated
  <2> QED
    BY <2>1, <2>2
<1>21. ASSUME NEW k \in Kinds, Tick(k) PROVE TargetsListed'
  <2>1. CASE rows' = rows /\ armed' = armed /\ image' = image
    BY <2>1, <1>p, <1>g
  <2>2. CASE ~(rows' = rows /\ armed' = armed /\ image' = image)
    BY <1>21, <2>2, ClearTableTargets DEF Tick
  <2> QED
    BY <2>1, <2>2
<1>22. ASSUME NEW s \in Servers, PickServer(s) PROVE TargetsListed'
  BY <1>22, <1>p, <1>g, <1>n, Items, ClearedOne DEF PickServer, ImageAfterClear
<1>23. ASSUME NEW list \in ServerLists, updateContainersServerOptions(list) PROVE TargetsListed'
  BY <1>23, <1>p, <1>g, Items, ClearedOne DEF updateContainersServerOptions, ArmedAfterClear, ImageAfterClear
<1>24. ASSUME NEW next \in Modes, SwitchMode(next) PROVE TargetsListed'
  BY <1>24, <1>p, <1>g, <1>n, Items, ClearedOne DEF SwitchMode, setContainersViewMode, AfterClick, ImageAfterClear
<1>25. ASSUME NEW next \in Modes, EnterContainers(next) PROVE TargetsListed'
  BY <1>25, <1>p, <1>g, <1>n, Items, ClearedOne DEF EnterContainers, setContainersViewMode, AfterClick, ImageAfterClear
<1>26. CASE LeaveContainers
  BY <1>26, <1>p, <1>g, <1>n, Items, ClearedOne DEF LeaveContainers, Left, AfterClick, ImageAfterClear
<1>27. CASE applyExperimentalFeatures
  BY <1>27, <1>p, <1>g, Items, ClearedOne DEF applyExperimentalFeatures, setContainersViewMode, ArmedAfterClear, ImageAfterClear
<1>28. CASE RefreshButton
  BY <1>28, <1>p, <1>g, <1>n, Items, ClearedOne DEF RefreshButton, AfterClick, ImageAfterClear
<1>29. CASE ActionDone
  <2> DEFINE r == [rows EXCEPT ![act.kind].label =
                      IF act.kind = "containers" /\ rows[act.kind].from = act.scope THEN act.scope ELSE @]
             e == Emptied({act.kind}, selected)
  <2>1. r \in [Kinds -> Row \cup {Empty}] /\ \A k \in Kinds : r[k].item = rows[k].item
    BY <1>29, ActionDoneRows DEF ActionDone
  <2>2. rows' = Cleared(r, e)
    BY <1>29 DEF ActionDone
  <2> HIDE DEF r
  <2>3. \A k \in Kinds : k \notin e => rows'[k].item = rows[k].item
    BY <2>1, <2>2, ClearedRows
  <2>4. image' => image /\ "images" \notin e
    BY <1>29 DEF ActionDone, ImageAfterClear
  <2>5. \A k \in {"networks", "volumes"} : <<k, "item">> \in armed' => <<k, "item">> \in armed /\ k \notin e
    BY <1>29 DEF ActionDone, ArmedAfterClear
  <2> QED
    BY <2>3, <2>4, <2>5, <1>p, <1>g
<1>30. CASE PullDone
  <2>1. CASE rows' = rows /\ armed' = armed /\ image' = image
    BY <2>1, <1>p, <1>g
  <2>2. CASE ~(rows' = rows /\ armed' = armed /\ image' = image)
    BY <1>30, <2>2, ClearTableTargets DEF PullDone
  <2> QED
    BY <2>1, <2>2
<1>31. CASE ConnectDone
  <2>1. CASE rows' = rows /\ armed' = armed /\ image' = image
    BY <2>1, <1>p, <1>g
  <2>2. CASE ~(rows' = rows /\ armed' = armed /\ image' = image)
    BY <1>31, <2>2, ClearTableTargets DEF ConnectDone
  <2> QED
    BY <2>1, <2>2
<1>32. CASE UNCHANGED vars
  BY <1>32, <1>p, <1>g DEF vars, lists
<1> QED
  BY <1>1, <1>2, <1>3, <1>4, <1>5, <1>6, <1>7, <1>8, <1>9, <1>10, <1>11, <1>12, <1>13, <1>14, <1>15, <1>16, <1>17, <1>18, <1>19, <1>20, <1>21, <1>22, <1>23, <1>24, <1>25, <1>26, <1>27, <1>28, <1>29, <1>30, <1>31, <1>32
  DEF Next, ListStep, AnswerStep, ActionStep, PageStep, PullStep, NetworkStep, Running, DialogOnly

(* The dialog of a pull stays open and locked, and no countdown runs. *)
LEMMA PullStepInv == PullInv /\ TypeOK /\ [Next]_vars => PullInv'
<1> SUFFICES ASSUME PullInv, TypeOK, [Next]_vars PROVE PullInv'
  OBVIOUS
<1> USE TypeParts DEF PullInv
<1>1. CASE ListOnly
  BY <1>1, ListOnlyFrame DEF pull
<1>2. CASE Running
  BY <1>2, RunningEffect
<1>3. CASE ActionFails
  BY <1>3 DEF ActionFails, pull
<1>4. CASE openImagesPullModal
  BY <1>4 DEF openImagesPullModal
<1>5. CASE closeImagesPullModal
  BY <1>5 DEF closeImagesPullModal
<1>6. CASE runImagePull
  BY <1>6 DEF runImagePull, stopImagesPullAutoClose, pull
<1>7. CASE PullFails
  BY <1>7 DEF PullFails, pull
<1>8. CASE PullTick
  BY <1>8 DEF PullTick, DialogTypes
<1>9. CASE cancelImagesPullAutoClose
  BY <1>9 DEF cancelImagesPullAutoClose, DialogTypes
<1>10. ASSUME NEW n \in Networks, openNetworkDetailsModal(n) PROVE PullInv'
  BY <1>10 DEF openNetworkDetailsModal, DialogOpens, pull
<1>11. ASSUME NEW n \in Networks, openNetworkConnectModal(n) PROVE PullInv'
  BY <1>11 DEF openNetworkConnectModal, DialogOpens, pull
<1>12. ASSUME NEW n \in Networks, openNetworkDisconnectModal(n) PROVE PullInv'
  BY <1>12 DEF openNetworkDisconnectModal, DialogOpens, pull
<1>13. CASE NetworkAnswered
  BY <1>13 DEF NetworkAnswered, pull
<1>14. CASE CloseDialog
  BY <1>14 DEF CloseDialog, pull
<1>15. CASE runNetworkConnect
  BY <1>15 DEF runNetworkConnect, pull
<1>16. CASE ConnectFails
  BY <1>16 DEF ConnectFails, pull
<1>17. CASE ActionDone
  BY <1>17 DEF ActionDone, pull
<1>18. CASE PullDone
  BY <1>18 DEF PullDone, ClearTable, pull
<1>19. CASE ConnectDone
  BY <1>19 DEF ConnectDone, ClearTable, pull
<1>20. CASE UNCHANGED vars
  BY <1>20 DEF vars, pull
<1> QED
  BY <1>1, <1>2, <1>3, <1>4, <1>5, <1>6, <1>7, <1>8, <1>9, <1>10, <1>11, <1>12, <1>13, <1>14, <1>15, <1>16, <1>17, <1>18, <1>19, <1>20
  DEF Next, ListStep, AnswerStep, ActionStep, PageStep, PullStep, NetworkStep, ListOnly, Running

(* A dialog of a network has asked for its own network. *)
LEMMA NetworkStepInv == NetworkInv /\ TypeOK /\ [Next]_vars => NetworkInv'
<1> SUFFICES ASSUME NetworkInv, TypeOK, [Next]_vars PROVE NetworkInv'
  OBVIOUS
<1> USE TypeParts DEF NetworkInv
<1>1. CASE ListOnly
  BY <1>1, ListOnlyFrame
<1>2. CASE Running
  BY <1>2, RunningEffect DEF dialogs
<1>3. CASE ActionFails
  BY <1>3 DEF ActionFails, dialogs
<1>4. CASE openImagesPullModal
  BY <1>4 DEF openImagesPullModal, dialogs
<1>5. CASE closeImagesPullModal
  BY <1>5 DEF closeImagesPullModal, dialogs
<1>6. CASE runImagePull
  BY <1>6 DEF runImagePull, stopImagesPullAutoClose, dialogs
<1>7. CASE PullFails
  BY <1>7 DEF PullFails, dialogs
<1>8. CASE PullTick
  BY <1>8 DEF PullTick, dialogs
<1>9. CASE cancelImagesPullAutoClose
  BY <1>9 DEF cancelImagesPullAutoClose, dialogs
<1>10. ASSUME NEW n \in Networks, openNetworkDetailsModal(n) PROVE NetworkInv'
  BY <1>10 DEF openNetworkDetailsModal, DialogOpens
<1>11. ASSUME NEW n \in Networks, openNetworkConnectModal(n) PROVE NetworkInv'
  BY <1>11 DEF openNetworkConnectModal, DialogOpens
<1>12. ASSUME NEW n \in Networks, openNetworkDisconnectModal(n) PROVE NetworkInv'
  BY <1>12 DEF openNetworkDisconnectModal, DialogOpens
<1>13. CASE NetworkAnswered
  BY <1>13 DEF NetworkAnswered
<1>14. CASE CloseDialog
  BY <1>14 DEF CloseDialog
<1>15. CASE runNetworkConnect
  BY <1>15 DEF runNetworkConnect, dialogs
<1>16. CASE ConnectFails
  BY <1>16 DEF ConnectFails, dialogs
<1>17. CASE ActionDone
  BY <1>17 DEF ActionDone, dialogs
<1>18. CASE PullDone
  BY <1>18 DEF PullDone, ClearTable, dialogs
<1>19. CASE ConnectDone
  BY <1>19 DEF ConnectDone, ClearTable
<1>20. CASE UNCHANGED vars
  BY <1>20 DEF vars, dialogs
<1> QED
  BY <1>1, <1>2, <1>3, <1>4, <1>5, <1>6, <1>7, <1>8, <1>9, <1>10, <1>11, <1>12, <1>13, <1>14, <1>15, <1>16, <1>17, <1>18, <1>19, <1>20
  DEF Next, ListStep, AnswerStep, ActionStep, PageStep, PullStep, NetworkStep, ListOnly, Running

-----------------------------------------------------------------------------
(* The theorems *)

SettledFroms == \A k \in Kinds : List(k)!Settled

(* The page is loaded in the invariant. *)
LEMMA IndInit == Init => IndInv /\ SettledFroms
<1> SUFFICES ASSUME Init PROVE IndInv /\ SettledFroms
  OBVIOUS
<1>1. LabelInv /\ PullInv /\ NetworkInv
  BY DEF Init, LabelInv, PullInv, NetworkInv, Shown
<1>2. TargetsListed
  BY DEF Init, TargetsListed
<1>3. SettledFroms
  BY ListInit DEF SettledFroms, List!Init, List!Settled
<1> QED
  BY <1>1, <1>2, <1>3, TypeInit DEF IndInv

(* Every step keeps the invariant. *)
LEMMA IndStep == IndInv /\ SettledFroms /\ [Next]_vars => IndInv' /\ SettledFroms'
<1> SUFFICES ASSUME IndInv, SettledFroms, [Next]_vars PROVE IndInv' /\ SettledFroms'
  OBVIOUS
<1>1. IndInv'
  BY TypeParts, TypeStep, LabelStep, TargetsStep, PullStepInv, NetworkStepInv DEF IndInv
<1>2. SettledFroms'
  <2> SUFFICES ASSUME NEW k \in Kinds PROVE List(k)!Settled'
    BY DEF SettledFroms
  <2>1. [List(k)!Next]_(List(k)!vars)
    BY ListStepImplements DEF IndInv
  <2>2. List(k)!Settled
    BY DEF SettledFroms
  <2> QED
    BY <2>1, <2>2, ScopedSettledStep
<1> QED
  BY <1>1, <1>2

(* So it always holds. *)
LEMMA Inductive == Spec => [](IndInv /\ SettledFroms)
  BY IndInit, IndStep, PTL DEF Spec

(* Rows and buttons of a list on the screen are of the selected server once *)
(* no refresh of it is under way: the rows since every list implements      *)
(* ScopedRefresh, the buttons by LabelInv.                                  *)
THEOREM RowsSettled == Spec => []SettledRows
<1>1. IndInv /\ SettledFroms => SettledRows
  <2> SUFFICES ASSUME IndInv, SettledFroms, NEW k \in Kinds, Shown(k), flight[k] = None, rows[k] # Empty
               PROVE  rows[k].from = selected /\ rows[k].label = selected
    BY DEF SettledRows
  <2>1. rows[k].from # None
    BY NoneApart, TypeParts DEF IndInv, ListTypes, Row
  <2>2. rows[k].from = selected
    BY <2>1 DEF SettledFroms, List!Settled
  <2> QED
    BY <2>2 DEF IndInv, LabelInv
<1> QED
  BY <1>1, Inductive, PTL

(* A second click removes what is in the list. *)
THEOREM TargetsAreListed == Spec => []TargetsListed
<1>1. IndInv => TargetsListed
  BY DEF IndInv
<1> QED
  BY <1>1, Inductive, PTL

(* A pull keeps its dialog, and a dialog of a network shows that network,   *)
(* whichever answers and countdowns of earlier ones come late.              *)
THEOREM DialogsAreTrue == Spec => []DialogsTrue
<1>1. IndInv => DialogsTrue
  BY DEF IndInv, PullInv, NetworkInv, DialogsTrue, PullShown, DetailsOfTitle
<1> QED
  BY <1>1, Inductive, PTL

=============================================================================
