------------------------------ MODULE WebLists ------------------------------
(***************************************************************************)
(* The lists of containers, stacks, images, networks and volumes of the    *)
(* web interface (web/static/app.js), for the server that is selected.     *)
(*                                                                         *)
(* A list is fetched for one server and shown when the answer comes; the   *)
(* user meanwhile picks another server, another list or another view,      *)
(* arms a button that asks for a second click, or sends an action.  What   *)
(* the model knows of a list is the server it came from and whether a      *)
(* certain item is in it; ids of containers belong to one server, names of *)
(* stacks, volumes and networks may be met on several.                     *)
(***************************************************************************)
EXTENDS Naturals, FiniteSets

CONSTANTS
    Servers,
    ServerLists,   \* lists of servers the configuration may hold
    Menus,         \* modes that "Menu visibility" may offer, table always
    Networks,      \* networks whose dialogs may be opened
    AutoClose,     \* seconds until the pull dialog closes by itself
    None

ASSUME ListConstants ==
    /\ None \notin Servers \cup Networks
    /\ ServerLists \subseteq SUBSET Servers /\ Servers \in ServerLists
    /\ AutoClose \in Nat \ {0}

Kinds == {"containers", "stacks", "images", "networks", "volumes"}
Polled == {"containers", "stacks"}
Modes == (Kinds \ {"containers"}) \cup {"table", "resources"}
Armed == Kinds \X {"item", "all"}

ASSUME MenusAssumption == Menus \subseteq SUBSET Modes /\ None \notin Kinds

VARIABLES
    servers, selected,       \* cachedLocals and cachedRemotes; containersSelectedScope
    visible, view, mode,     \* experimental_features, currentView, containersViewMode
    rows,                    \* the lists on the page
    flight,                  \* the refresh of each list that is under way
    armed,                   \* ...Confirming: the buttons that wait for a second click
    image,                   \* imagesSelectedId is the item
    timers,                  \* intervals that refresh lists
    tableFlight,             \* the request for the resources of the table
    act,                     \* the action under way, at most one at a time
    pullOpen, imagesPullInProgress, pullTimer,
    modal, title, network, shownNetwork, netFlight

lists == <<rows, flight, armed, image, tableFlight>>
place == <<servers, selected, visible, view, mode, timers>>
pull == <<pullOpen, imagesPullInProgress, pullTimer>>
dialogs == <<modal, title, network, shownNetwork, netFlight>>
vars == <<place, lists, act, pull, dialogs>>

(* A list: its server, the server its buttons act on, whether the item is   *)
(* in it (of containers and stacks always, when there are any).             *)
Row == [from: Servers, label: Servers, item: BOOLEAN]
Empty == [from |-> None, label |-> None, item |-> FALSE]

(* An action under way; its server is kept where the answer goes to rows of *)
(* that server.                                                             *)
Action == [kind: Kinds, what: {"item", "all", "pull", "connect", "disconnect"}, scope: Servers \cup {None}]

TypeOK ==
    /\ servers \in SUBSET Servers /\ selected \in Servers \cup {None}
    /\ visible \in SUBSET Modes /\ view \in {"containers", "other"} /\ mode \in Modes
    /\ rows \in [Kinds -> Row \cup {Empty}]
    /\ flight \in [Kinds -> Servers \cup {None}]
    /\ armed \in SUBSET Armed /\ image \in BOOLEAN
    /\ timers \in SUBSET {"containers", "stacks", "resources"}
    /\ tableFlight \in Servers \cup {None}
    /\ act \in Action \cup {None}
    /\ pullOpen \in BOOLEAN /\ imagesPullInProgress \in BOOLEAN /\ pullTimer \in 0 .. AutoClose
    /\ modal \in {"none", "details", "connect", "disconnect"}
    /\ title \in Networks \cup {None} /\ network \in Networks \cup {None} /\ shownNetwork \in Networks \cup {None}
    /\ netFlight \in Networks \cup {None}

Init ==
    /\ servers \in ServerLists
    /\ IF servers = {} THEN selected = None ELSE selected \in servers
    /\ visible \in Menus /\ view = "other" /\ mode = "table"
    /\ rows = [k \in Kinds |-> Empty] /\ flight = [k \in Kinds |-> None]
    /\ armed = {} /\ image = FALSE /\ timers = {}
    /\ tableFlight = None
    /\ act = None
    /\ pullOpen = FALSE /\ imagesPullInProgress = FALSE /\ pullTimer = 0
    /\ modal = "none" /\ title = None /\ network = None /\ shownNetwork = None /\ netFlight = None

-----------------------------------------------------------------------------
(* Refreshes *)

KindOf(m) == IF m \in Kinds THEN m ELSE "containers"

(* runScopedRefresh for the kinds ks: one that is under way goes on, and    *)
(* the new one is dropped.                                                  *)
Refreshing(ks, scope) ==
    [k \in Kinds |-> IF k \in ks /\ flight[k] = None THEN scope ELSE flight[k]]

(* Without a server the list is emptied on the spot. *)
Emptied(ks, scope) == IF scope = None THEN {k \in ks : flight[k] = None} ELSE {}

(* The lists of kinds ks are emptied.  What is armed there goes with the    *)
(* rows, except for the stacks; the selected image goes too.                *)
Cleared(r, ks) == [k \in Kinds |-> IF k \in ks THEN Empty ELSE r[k]]
ArmedAfterClear(a, ks) == {b \in a : b[1] \notin ks \/ b[1] = "stacks"}
ImageAfterClear(ks) == image /\ "images" \notin ks

ClearTable(k) ==
    rows' = Cleared(rows, {k}) /\ armed' = ArmedAfterClear(armed, {k}) /\ image' = ImageAfterClear({k})

clearContainersTable == ClearTable("containers")
clearStacksTable == ClearTable("stacks")
clearImagesTable == ClearTable("images")
clearNetworksTable == ClearTable("networks")
clearVolumesTable == ClearTable("volumes")

(* The list r that is to be shown of kind k. *)
renderContainers(r) ==
    /\ rows' = [rows EXCEPT !["containers"] = r]
    /\ \E gone \in BOOLEAN : armed' = IF gone THEN armed \ {<<"containers", "item">>} ELSE armed
    /\ UNCHANGED image

renderStacks(r) == rows' = [rows EXCEPT !["stacks"] = r] /\ UNCHANGED <<armed, image>>

(* Mutant: the selected image is kept when it is no longer in the list. *)
renderImagesKeeps(r) == rows' = [rows EXCEPT !["images"] = r] /\ UNCHANGED <<armed, image>>

renderImages(r) ==
    /\ rows' = [rows EXCEPT !["images"] = r]
    /\ image' = (image /\ r.item) /\ UNCHANGED armed

(* What is armed for an item that is no longer in the list is dropped. *)
renderNetworks(r) ==
    /\ rows' = [rows EXCEPT !["networks"] = r]
    /\ armed' = IF r.item THEN armed ELSE armed \ {<<"networks", "item">>}
    /\ UNCHANGED image

renderVolumes(r) ==
    /\ rows' = [rows EXCEPT !["volumes"] = r]
    /\ armed' = IF r.item THEN armed ELSE armed \ {<<"volumes", "item">>}
    /\ UNCHANGED image

(* After a list of containers, while the table is shown, its resources are  *)
(* asked for, one request at a time.                                        *)
refreshContainersTableResources ==
    tableFlight' = IF view = "containers" /\ mode = "table" /\ tableFlight = None THEN selected ELSE tableFlight

(* The answer for the server that is still selected: a list, an empty one   *)
(* or an error.                                                             *)
Answered(k, r) ==
    /\ flight[k] # None /\ flight[k] = selected /\ r.from = selected
    /\ flight' = [flight EXCEPT ![k] = None]
    /\ UNCHANGED <<place, act, pull, dialogs>>

loadContainers(r) ==
    /\ Answered("containers", r) /\ r.item
    /\ \/ clearContainersTable /\ UNCHANGED tableFlight
       \/ renderContainers(r) /\ refreshContainersTableResources

loadStacks(r) ==
    /\ Answered("stacks", r) /\ r.item /\ UNCHANGED tableFlight
    /\ clearStacksTable \/ renderStacks(r)

loadImages(r) ==
    /\ Answered("images", r) /\ UNCHANGED tableFlight
    /\ clearImagesTable \/ renderImages(r)

loadNetworks(r) ==
    /\ Answered("networks", r) /\ UNCHANGED tableFlight
    /\ clearNetworksTable \/ renderNetworks(r)

loadVolumes(r) ==
    /\ Answered("volumes", r) /\ UNCHANGED tableFlight
    /\ clearVolumesTable \/ renderVolumes(r)

(* Mutant: no other refresh follows. *)
RerunNot(k) == flight' = [flight EXCEPT ![k] = None]

(* runScopedRefresh starts another one when the selection has changed. *)
Rerun(k) == flight' = [flight EXCEPT ![k] = selected]

(* The answer for a server that is no longer selected is dropped. *)
Outdated(k) ==
    /\ flight[k] # None /\ flight[k] # selected
    /\ Rerun(k)
    /\ IF selected = None THEN ClearTable(k) ELSE UNCHANGED <<rows, armed, image>>
    /\ UNCHANGED <<place, tableFlight, act, pull, dialogs>>

(* The intervals. *)
Tick(k) ==
    /\ k \in timers /\ flight[k] = None
    /\ flight' = Refreshing({k}, selected)
    /\ IF selected = None THEN ClearTable(k) ELSE UNCHANGED <<rows, armed, image>>
    /\ UNCHANGED <<place, tableFlight, act, pull, dialogs>>

(* The newest answer for the table draws the rows there are again.          *)
TableResources ==
    /\ tableFlight # None /\ tableFlight' = None
    /\ \/ UNCHANGED <<rows, armed, image>>
       \/ /\ view = "containers" /\ mode = "table" /\ selected = tableFlight
          /\ rows["containers"] # Empty
          /\ renderContainers([rows["containers"] EXCEPT !.label = tableFlight])
    /\ UNCHANGED <<place, flight, act, pull, dialogs>>

-----------------------------------------------------------------------------
(* Clicks.  A dialog covers the page.                                       *)

Page == view = "containers" /\ modal = "none" /\ ~pullOpen

(* The listeners of the document: a click disarms what does not belong to   *)
(* the button that was hit, a confirm button of kind k, or None.            *)
Kept(k) == {a \in armed : a[1] = k \/ (k \in Polled /\ a[1] \in Polled)}

(* clearContainersKillConfirmations draws the rows again for the server     *)
(* that is selected now.                                                    *)
Relabelled(k) ==
    IF <<"containers", "item">> \in armed \ Kept(k) /\ selected # None /\ rows["containers"] # Empty
    THEN [rows EXCEPT !["containers"].label = selected] ELSE rows

(* The user picks a server in the menu. *)
PickServer(s) ==
    LET ks == {KindOf(mode)} IN
    /\ Page /\ s \in servers
    /\ selected' = s
    /\ flight' = Refreshing(ks, s)
    /\ LET cs == IF s = selected THEN {} ELSE ks IN
       rows' = Cleared(Relabelled(None), cs) /\ image' = ImageAfterClear(cs)
    /\ armed' = Kept(None)
    /\ UNCHANGED <<servers, visible, view, mode, timers, tableFlight, act, pull, dialogs>>

(* The list of servers is read again: a selection that is gone is replaced, *)
(* the rows stay until the answer for the new one.                          *)
updateContainersServerOptions(list) ==
    LET ks == IF view = "containers" THEN {KindOf(mode)} ELSE {} IN
    /\ servers' = list
    /\ selected' \in (IF selected \in list THEN {selected} ELSE IF list = {} THEN {None} ELSE list)
    /\ flight' = Refreshing(ks, selected')
    /\ LET e == Emptied(ks, selected') IN
       rows' = Cleared(rows, e) /\ armed' = ArmedAfterClear(armed, e) /\ image' = ImageAfterClear(e)
    /\ UNCHANGED <<visible, view, mode, timers, tableFlight, act, pull, dialogs>>

(* The intervals that run in mode m. *)
TimersOf(m) ==
    CASE m = "table" -> {"containers"}
      [] m = "stacks" -> {"stacks"}
      [] m = "resources" -> {"resources"}
      [] OTHER -> {}

(* The requests that setContainersViewMode(next) leaves: those of ks are    *)
(* started; outside the networks mode the request for them is aborted,      *)
(* which ends the refresh as any answer does.                               *)
FlightsOf(ks, next) ==
    LET f == Refreshing(ks \cup {KindOf(next)}, selected) IN
    IF next = "networks" \/ f["networks"] = None THEN f
    ELSE [f EXCEPT !["networks"] = IF f["networks"] = selected THEN None ELSE selected]

setContainersViewMode(next, ks) ==
    /\ mode' = next /\ timers' = TimersOf(next)
    /\ flight' = FlightsOf(ks, next)
    /\ netFlight' = IF next = "networks" THEN netFlight ELSE None
    /\ UNCHANGED <<servers, selected, tableFlight>>

(* What the lists look like after a click that also refreshes the kinds ks. *)
AfterClick(ks) ==
    LET e == Emptied(ks, selected) IN
    /\ rows' = Cleared(Relabelled(None), e)
    /\ armed' = Kept(None) /\ image' = ImageAfterClear(e)

SwitchMode(next) ==
    /\ Page /\ next \in visible \cup {"table"} /\ next # mode
    /\ setContainersViewMode(next, {}) /\ AfterClick({KindOf(next)})
    /\ UNCHANGED <<visible, view, act, pull, modal, title, network, shownNetwork>>

(* setView("containers"): the features are applied first, with the mode of  *)
(* the last visit.                                                          *)
EnterContainers(next) ==
    /\ view = "other" /\ modal = "none" /\ ~pullOpen
    /\ next \in visible \cup {"table"}
    /\ view' = "containers"
    /\ setContainersViewMode(next, {KindOf(mode)}) /\ AfterClick({KindOf(mode), KindOf(next)})
    /\ UNCHANGED <<visible, act, pull, modal, title, network, shownNetwork>>

Left == view' = "other" /\ timers' = {}

LeaveContainers ==
    /\ Page /\ Left
    /\ AfterClick({})
    /\ UNCHANGED <<servers, selected, visible, mode, flight, tableFlight, act, pull, dialogs>>

(* applyExperimentalFeatures with a configuration that hides the mode. *)
applyExperimentalFeatures ==
    /\ mode # "table" /\ visible' = visible \ {mode}
    /\ setContainersViewMode("table", IF view = "containers" THEN {KindOf(mode)} ELSE {})
    /\ LET ks == IF view = "containers" THEN {KindOf(mode), "containers"} ELSE {"containers"}
           e == Emptied(ks, selected)
       IN rows' = Cleared(rows, e) /\ armed' = ArmedAfterClear(armed, e) /\ image' = ImageAfterClear(e)
    /\ UNCHANGED <<view, act, pull, modal, title, network, shownNetwork>>

(* The refresh button of the top bar. *)
RefreshButton ==
    /\ Page /\ flight[KindOf(mode)] = None
    /\ flight' = Refreshing({KindOf(mode)}, selected) /\ AfterClick({KindOf(mode)})
    /\ UNCHANGED <<place, tableFlight, act, pull, dialogs>>

(* selectImageRow, and a click beside the rows (clearImagesSelection). *)
selectImageRow(on) ==
    /\ Page /\ mode = "images" /\ image # on
    /\ on => rows["images"].item
    /\ image' = on
    /\ armed' = Kept(None) /\ rows' = Relabelled(None)
    /\ UNCHANGED <<place, flight, tableFlight, act, pull, dialogs>>

-----------------------------------------------------------------------------
(* Actions *)

(* The button for what is there and enabled. *)
Offered(k, what) ==
    /\ Page /\ KindOf(mode) = k /\ mode # "resources"
    /\ CASE what = "all" -> k \in {"images", "networks", "volumes"}
         [] what = "plain" -> k \in Polled /\ rows[k].item
         [] OTHER -> IF k = "images" THEN image ELSE rows[k].item

(* The first click. *)
Arms(k, what, a) ==
    /\ Offered(k, what) /\ <<k, what>> \notin armed
    /\ armed' = a \cup {<<k, what>>} /\ rows' = Relabelled(k)
    /\ UNCHANGED <<place, flight, image, tableFlight, act, pull, dialogs>>

(* Several rows of containers and stacks may be armed, of the other lists   *)
(* one button.                                                              *)
updateContainerRow == Arms("containers", "item", Kept("containers"))
updateStackRow == Arms("stacks", "item", Kept("stacks"))
toggleImagesConfirm(what) == Arms("images", what, {})
ArmNetworks(what) == Arms("networks", what, {})
ArmVolumes(what) == Arms("volumes", what, {})

(* The second click, or the only one, sends the action to server s. *)
Runs(k, what, s) ==
    LET hit == IF what = "plain" THEN None ELSE k IN
    /\ Offered(k, what)
    /\ what # "plain" => <<k, what>> \in armed
    /\ act = None /\ s # None
    /\ act' = [kind |-> k, what |-> IF what = "plain" THEN "item" ELSE what,
               scope |-> IF k = "containers" THEN s ELSE None]
    /\ armed' = {a \in Kept(hit) : a # <<k, what>> /\ ~(k = "stacks" /\ a[1] = k)}
    /\ rows' = Relabelled(hit)
    /\ UNCHANGED <<place, flight, image, tableFlight, pull, dialogs>>

(* The row of a container knows its server; all else goes to the server     *)
(* that is selected.                                                        *)
runContainerAction(what) == Runs("containers", what, rows["containers"].label)
runStackAction(what) == Runs("stacks", what, selected)
runImagePrune == Runs("images", "all", selected)
runImageRemove == Runs("images", "item", selected)
runNetworkPrune == Runs("networks", "all", selected)
runNetworkRemove == Runs("networks", "item", selected)
runVolumePrune == Runs("volumes", "all", selected)
runVolumeRemove == Runs("volumes", "item", selected)

(* The action was carried out: the page asks for the list again, unless a   *)
(* refresh is under way.                                                    *)
ActionDone ==
    LET k == act.kind IN
    /\ act # None /\ act.what \in {"item", "all"}
    /\ act' = None
    /\ flight' = Refreshing({k}, selected)
    /\ LET e == Emptied({k}, selected) IN
       /\ rows' = Cleared([rows EXCEPT ![k].label =
                              IF k = "containers" /\ rows[k].from = act.scope THEN act.scope ELSE @], e)
       /\ armed' = ArmedAfterClear(IF k \in {"networks", "volumes"} /\ act.what = "item"
                                   THEN {a \in armed : a[1] # k} ELSE armed, e)
       /\ image' = IF k = "images" /\ act.what = "item" THEN FALSE ELSE ImageAfterClear(e)
    /\ UNCHANGED <<place, tableFlight, pull, dialogs>>

(* It was refused or failed: no refresh. *)
ActionFails ==
    /\ act # None /\ act.what \in {"item", "all"}
    /\ act' = None
    /\ armed' = IF act.kind \in {"networks", "volumes"} /\ act.what = "item"
                THEN {a \in armed : a[1] # act.kind} ELSE armed
    /\ UNCHANGED <<place, rows, flight, image, tableFlight, pull, dialogs>>

-----------------------------------------------------------------------------
(* The dialog that pulls an image *)

openImagesPullModal ==
    /\ Page /\ mode = "images" /\ ~imagesPullInProgress
    /\ pullOpen' = TRUE /\ imagesPullInProgress' = FALSE /\ UNCHANGED pullTimer
    /\ armed' = Kept(None) /\ rows' = Relabelled(None)
    /\ UNCHANGED <<place, flight, image, tableFlight, act, dialogs>>

closeImagesPullModal ==
    /\ pullOpen /\ ~imagesPullInProgress
    /\ pullOpen' = FALSE /\ pullTimer' = 0 /\ UNCHANGED imagesPullInProgress
    /\ UNCHANGED <<place, lists, act, dialogs>>

stopImagesPullAutoClose == pullTimer' = 0

runImagePull ==
    /\ pullOpen /\ ~imagesPullInProgress /\ selected # None
    /\ act = None
    /\ stopImagesPullAutoClose /\ imagesPullInProgress' = TRUE /\ UNCHANGED pullOpen
    /\ act' = [kind |-> "images", what |-> "pull", scope |-> None]
    /\ UNCHANGED <<place, lists, dialogs>>

(* startImagesPullAutoClose, then the list is refreshed. *)
PullDone ==
    /\ act # None /\ act.what = "pull" /\ act' = None
    /\ pullTimer' = AutoClose /\ imagesPullInProgress' = FALSE /\ UNCHANGED pullOpen
    /\ flight' = Refreshing({"images"}, selected)
    /\ IF selected = None /\ flight["images"] = None THEN ClearTable("images") ELSE UNCHANGED <<rows, armed, image>>
    /\ UNCHANGED <<place, tableFlight, dialogs>>

PullFails ==
    /\ act # None /\ act.what = "pull" /\ act' = None
    /\ pullTimer' = 0 /\ imagesPullInProgress' = FALSE /\ UNCHANGED pullOpen
    /\ UNCHANGED <<place, lists, dialogs>>

(* startImagesPullAutoClose: the countdown ends in closeImagesPullModal. *)
PullTick ==
    /\ pullTimer > 0 /\ pullTimer' = pullTimer - 1
    /\ imagesPullInProgress' = FALSE
    /\ pullOpen' = (pullOpen /\ pullTimer' > 0)
    /\ UNCHANGED <<place, lists, act, dialogs>>

(* A click or a key in the dialog. *)
cancelImagesPullAutoClose ==
    /\ pullOpen /\ pullTimer > 0
    /\ pullTimer' = 0 /\ imagesPullInProgress' = FALSE /\ UNCHANGED pullOpen
    /\ UNCHANGED <<place, lists, act, dialogs>>

-----------------------------------------------------------------------------
(* The dialogs of a network *)

(* A dialog for network n, which aborts what an earlier one has asked for.  *)
DialogOpens(m, n) ==
    /\ Page /\ mode = "networks" /\ rows["networks"] # Empty
    /\ modal' = m /\ title' = n /\ netFlight' = n
    /\ armed' = Kept(None) /\ rows' = Relabelled(None)
    /\ UNCHANGED <<place, flight, image, tableFlight, act, pull>>

(* Mutant: the dialog goes on showing the network of the last time. *)
openNetworkDetailsModalKeeps(n) ==
    DialogOpens("details", n) /\ UNCHANGED <<network, shownNetwork>>

openNetworkDetailsModal(n) ==
    DialogOpens("details", n) /\ shownNetwork' = None /\ UNCHANGED network

(* openNetworkConnectModal and openNetworkDisconnectModal ask for the       *)
(* containers of the server (fetchNetworkContainers).                       *)
openNetworkConnectModal(n) ==
    DialogOpens("connect", n) /\ shownNetwork' = None /\ network' = n

openNetworkDisconnectModal(n) ==
    DialogOpens("disconnect", n) /\ shownNetwork' = None /\ network' = n

(* The answer fills the dialog; an earlier request was aborted. *)
NetworkAnswered ==
    /\ netFlight # None /\ netFlight' = None
    /\ shownNetwork' \in {netFlight, None}
    /\ UNCHANGED <<place, lists, act, pull, modal, title, network>>

(* The dialog is closed by the user, with the request of its own. *)
CloseDialog ==
    /\ modal # "none" /\ modal' = "none"
    /\ network' = IF modal = "details" THEN network ELSE None
    /\ netFlight' = None /\ title' = None
    /\ UNCHANGED <<place, lists, act, pull, shownNetwork>>

(* runNetworkConnect and runNetworkDisconnect, to the server that is        *)
(* selected by then.                                                        *)
runNetworkConnect ==
    /\ modal \in {"connect", "disconnect"} /\ network # None /\ shownNetwork = title
    /\ selected # None /\ act = None
    /\ act' = [kind |-> "networks", what |-> modal, scope |-> None]
    /\ UNCHANGED <<place, lists, pull, dialogs>>

(* The answer closes the dialog and forgets the network, the one of another *)
(* dialog too that was opened meanwhile.                                    *)
ConnectDone ==
    /\ act # None /\ act.what \in {"connect", "disconnect"} /\ act' = None
    /\ modal' = IF modal = act.what THEN "none" ELSE modal
    /\ title' = IF modal = act.what THEN None ELSE title
    /\ network' = None /\ netFlight' = IF modal = "details" THEN netFlight ELSE None
    /\ flight' = Refreshing({"networks"}, selected)
    /\ IF selected = None /\ flight["networks"] = None THEN ClearTable("networks") ELSE UNCHANGED <<rows, armed, image>>
    /\ UNCHANGED <<place, tableFlight, pull, shownNetwork>>

ConnectFails ==
    /\ act # None /\ act.what \in {"connect", "disconnect"} /\ act' = None
    /\ UNCHANGED <<place, lists, pull, dialogs>>

-----------------------------------------------------------------------------
ListStep(k) ==
    \/ Outdated(k) \/ Tick(k)

AnswerStep ==
    \E r \in Row :
        /\ r.label = r.from
        /\ loadContainers(r) \/ loadStacks(r) \/ loadImages(r) \/ loadNetworks(r) \/ loadVolumes(r)

ActionStep ==
    \/ updateContainerRow \/ updateStackRow
    \/ \E what \in {"item", "all"} : toggleImagesConfirm(what) \/ ArmNetworks(what) \/ ArmVolumes(what)
    \/ \E what \in {"plain", "item"} : runContainerAction(what) \/ runStackAction(what)
    \/ runImagePrune \/ runImageRemove \/ runNetworkPrune \/ runNetworkRemove \/ runVolumePrune \/ runVolumeRemove
    \/ ActionDone \/ ActionFails

PageStep ==
    \/ TableResources
    \/ \E s \in Servers : PickServer(s)
    \/ \E list \in ServerLists : updateContainersServerOptions(list)
    \/ \E next \in Modes : SwitchMode(next) \/ EnterContainers(next)
    \/ LeaveContainers \/ applyExperimentalFeatures \/ RefreshButton
    \/ \E on \in BOOLEAN : selectImageRow(on)

PullStep ==
    \/ openImagesPullModal \/ closeImagesPullModal \/ runImagePull
    \/ PullDone \/ PullFails \/ PullTick \/ cancelImagesPullAutoClose

NetworkStep ==
    \/ \E n \in Networks :
          openNetworkDetailsModal(n) \/ openNetworkConnectModal(n) \/ openNetworkDisconnectModal(n)
    \/ NetworkAnswered \/ CloseDialog \/ runNetworkConnect \/ ConnectDone \/ ConnectFails

Next == (\E k \in Kinds : ListStep(k)) \/ AnswerStep \/ ActionStep \/ PageStep \/ PullStep \/ NetworkStep

Spec == Init /\ [][Next]_vars

-----------------------------------------------------------------------------
(* Properties *)

Shown(k) == view = "containers" /\ KindOf(mode) = k

(* The list on the screen belongs to the server that is selected, and so do *)
(* its buttons, as soon as no refresh of it is under way: whatever was      *)
(* picked, switched or removed while requests were on their way.            *)
SettledRows ==
    \A k \in Kinds :
        Shown(k) /\ flight[k] = None /\ rows[k] # Empty => rows[k].from = selected /\ rows[k].label = selected

(* Every list is an instance of what runScopedRefresh promises. *)
ContainersList == INSTANCE ScopedRefresh WITH
    shown <- Shown("containers"), request <- flight["containers"], from <- rows["containers"].from
StacksList == INSTANCE ScopedRefresh WITH
    shown <- Shown("stacks"), request <- flight["stacks"], from <- rows["stacks"].from
ImagesList == INSTANCE ScopedRefresh WITH
    shown <- Shown("images"), request <- flight["images"], from <- rows["images"].from
NetworksList == INSTANCE ScopedRefresh WITH
    shown <- Shown("networks"), request <- flight["networks"], from <- rows["networks"].from
VolumesList == INSTANCE ScopedRefresh WITH
    shown <- Shown("volumes"), request <- flight["volumes"], from <- rows["volumes"].from

(* Each of the five lists, through switches of modes and views, aborted     *)
(* requests, actions and intervals, behaves as the one list of              *)
(* ScopedRefresh does.                                                      *)
ListsAreScoped ==
    /\ ContainersList!Spec /\ StacksList!Spec /\ ImagesList!Spec
    /\ NetworksList!Spec /\ VolumesList!Spec

(* What a second click would remove is in the list: an answer in between    *)
(* that no longer has the item disarms the button or the selection.         *)
TargetsListed ==
    /\ image => rows["images"].item
    /\ \A k \in {"networks", "volumes"} : <<k, "item">> \in armed => rows[k].item

(* While a pull is under way its dialog stays open and locked: no countdown *)
(* of an earlier pull unlocks or closes it.                                 *)
PullShown == act # None /\ act.what = "pull" => pullOpen /\ imagesPullInProgress

(* The dialog of a network shows that network. *)
DetailsOfTitle == modal # "none" /\ shownNetwork # None => shownNetwork = title

(* A dialog tells the truth about what it was opened for, whichever answers *)
(* and countdowns of an earlier one come late.                              *)
DialogsTrue == PullShown /\ DetailsOfTitle

=============================================================================
