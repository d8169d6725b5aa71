----------------------------- MODULE WebStreams -----------------------------
(***************************************************************************)
(* The shell and log panels of the web interface and the PIN guard of the  *)
(* page (web/static/app.js).                                               *)
(*                                                                         *)
(* A click on a container opens a session of a panel: a ticket is asked    *)
(* for, then a WebSocket is made.  The page goes on meanwhile: the user    *)
(* clicks on another container, leaves the panel, the session of the PIN   *)
(* ends.  connectionAttempt, a counter in the code, appears here as the    *)
(* session that made its present value, or None once it has moved on.      *)
(***************************************************************************)
EXTENDS Naturals, FiniteSets

CONSTANTS
    Containers,
    Sockets,      \* sessions of panels, each with its WebSocket
    Tokens,       \* PIN sessions
    Calls,        \* calls of fetchJSON that are under way at the same time
    None

ASSUME StreamConstants ==
    None \notin Containers \cup Sockets \cup Tokens

VARIABLES
    sessions, given,             \* server: sessions that are valid, that were given out
    pinGuardEnabled, pinGuardUnlocked, submitting, token,
    promise, init, logout,       \* pinUnlockPromise; how far init() has come; a logout under way
    call, callToken,             \* a call and the session it was made with
    view, mode, listed,          \* currentView, containersViewMode, containersCache
    selected, attempt, socket,   \* per panel: selected container, connectionAttempt, socket
    session,                     \* the sessions: how far, of what, with which PIN session
    streamActive, paused, shown, pending, termText

pin == <<sessions, given, pinGuardEnabled, pinGuardUnlocked, submitting, token, promise, init, logout, call, callToken>>
log == <<streamActive, paused, shown, pending>>
panels == <<selected, attempt, socket, session, log, termText>>
vars == <<pin, view, mode, listed, panels>>

Panels == {"shell", "logs"}
Live == {"connecting", "open"}

(* A session that is over and that the page does not know any more. *)
Free == [state |-> "free", panel |-> "shell", container |-> None, token |-> None]

TypeOK ==
    /\ sessions \in SUBSET given /\ given \in SUBSET Tokens
    /\ pinGuardEnabled \in BOOLEAN /\ pinGuardUnlocked \in BOOLEAN /\ submitting \in BOOLEAN
    /\ token \in given \cup {None} /\ promise \in BOOLEAN /\ logout \in BOOLEAN
    /\ init \in {"start", "locked", "loading", "done"}
    /\ call \in [Calls -> {"idle", "sent", "ok", "denied"}]
    /\ callToken \in [Calls -> Tokens \cup {None}]
    /\ view \in {"containers", "other"} /\ mode \in Panels \cup {"table"}
    /\ listed \in SUBSET Containers
    /\ selected \in [Panels -> Containers \cup {None}]
    /\ attempt \in [Panels -> Sockets \cup {None}] /\ socket \in [Panels -> Sockets \cup {None}]
    /\ session \in [Sockets -> [state: {"free", "ticket", "closing", "closed"} \cup Live, panel: Panels,
                                container: Containers \cup {None}, token: Tokens \cup {None}]]
    /\ streamActive \in BOOLEAN /\ paused \in BOOLEAN
    /\ shown \in SUBSET Containers /\ pending \in SUBSET Containers
    /\ termText \in SUBSET Containers

Init ==
    /\ given \in {{}} \cup {{t} : t \in Tokens} /\ sessions \in SUBSET given
    /\ token \in given \cup {None}
    /\ pinGuardEnabled = FALSE /\ pinGuardUnlocked = TRUE /\ submitting = FALSE
    /\ promise = FALSE /\ init = "start" /\ logout = FALSE
    /\ call = [c \in Calls |-> "idle"] /\ callToken = [c \in Calls |-> None]
    /\ view = "other" /\ mode = "table" /\ listed = {}
    /\ selected = [p \in Panels |-> None]
    /\ attempt = [p \in Panels |-> None] /\ socket = [p \in Panels |-> None]
    /\ session = [i \in Sockets |-> Free]
    /\ streamActive = FALSE /\ paused = FALSE
    /\ shown = {} /\ pending = {} /\ termText = {}

-----------------------------------------------------------------------------
(* Closing the sessions of a set of panels.  Both closeContainers...Session *)
(* functions move connectionAttempt on and close the socket of the panel.   *)

(* The page calls close() on the WebSocket of session s and forgets it: the *)
(* close event is still to come, unless it has come already.                *)
Closed(s) == IF s.state \in Live THEN [s EXCEPT !.state = "closing", !.token = None] ELSE Free

Closing(ps) ==
    /\ attempt' = [p \in Panels |-> IF p \in ps THEN None ELSE attempt[p]]
    /\ socket' = [p \in Panels |-> IF p \in ps THEN None ELSE socket[p]]
    /\ session' = [i \in Sockets |-> IF \E p \in ps : socket[p] = i THEN Closed(session[i]) ELSE session[i]]

(* The terminal goes with the session. *)
closeContainersShellSession == termText' = {}

(* The buffer goes, and with it what a pause holds back. *)
closeContainersLogsSession ==
    /\ streamActive' = FALSE
    /\ shown' = {} /\ pending' = {}

CloseBoth ==
    /\ Closing(Panels) /\ closeContainersShellSession /\ closeContainersLogsSession

-----------------------------------------------------------------------------
(* PIN guard *)

resolvePinUnlock ==
    /\ promise' = FALSE
    /\ init' = IF promise /\ init = "locked" THEN "loading" ELSE init

(* Mutant: the streams stay open behind the lock screen. *)
LockedKeeps ==
    /\ pinGuardUnlocked' = FALSE
    /\ promise' = TRUE /\ UNCHANGED <<init, submitting>>
    /\ UNCHANGED panels

(* setPinGuardState(true, false) shows the overlay and ends the streams. *)
Locked ==
    /\ pinGuardUnlocked' = FALSE
    /\ promise' = TRUE /\ UNCHANGED <<init, submitting>>
    /\ CloseBoth /\ UNCHANGED <<selected, paused>>

Unlocked == pinGuardUnlocked' = TRUE /\ submitting' = FALSE /\ resolvePinUnlock

Still == UNCHANGED <<view, mode, listed>>

activatePinGuardLock ==
    IF pinGuardEnabled
    THEN token' = None /\ Locked
    ELSE UNCHANGED <<token, pinGuardUnlocked, promise, init, submitting, panels>>

(* init(): the status of the guard decides whether the stored session is    *)
(* kept; a status that cannot be had counts as no guard at all.             *)
bootstrapPinGuard ==
    /\ init = "start"
    /\ \E enabled \in BOOLEAN :
          LET unlocked == ~enabled \/ token \in sessions IN
          /\ pinGuardEnabled' = enabled /\ pinGuardUnlocked' = unlocked
          /\ token' = IF unlocked THEN token ELSE None
          /\ promise' = ~unlocked
          /\ init' = IF unlocked THEN "loading" ELSE "locked"
    /\ UNCHANGED <<sessions, given, submitting, logout, call, callToken, panels>> /\ Still

submitPinGuard ==
    /\ pinGuardEnabled /\ ~pinGuardUnlocked /\ ~submitting
    /\ submitting' = TRUE
    /\ UNCHANGED <<logout, sessions, given, pinGuardEnabled, pinGuardUnlocked, token, promise, init, call, callToken, panels>>
    /\ Still

PinAccepted(t) ==
    /\ submitting /\ t \notin given
    /\ given' = given \cup {t} /\ sessions' = sessions \cup {t}
    /\ token' = t /\ Unlocked
    /\ UNCHANGED <<logout, pinGuardEnabled, call, callToken, panels>> /\ Still

PinRefused ==
    /\ submitting /\ submitting' = FALSE
    /\ UNCHANGED <<logout, sessions, given, pinGuardEnabled, pinGuardUnlocked, token, promise, init, call, callToken, panels>>
    /\ Still

(* The lock button: the logout reaches the server or not, and the page is   *)
(* locked when it is answered.                                              *)
lockPinGuardSession ==
    /\ pinGuardEnabled /\ pinGuardUnlocked /\ init = "done" /\ ~logout
    /\ logout' = TRUE /\ sessions' \in {sessions, sessions \ {token}}
    /\ UNCHANGED <<given, pinGuardEnabled, pinGuardUnlocked, submitting, token, promise, init, call, callToken, panels>>
    /\ Still

LogoutAnswered ==
    /\ logout /\ logout' = FALSE
    /\ token' = None /\ Locked
    /\ UNCHANGED <<sessions, given, pinGuardEnabled, call, callToken>> /\ Still

SessionEnds(t) ==
    /\ t \in sessions /\ sessions' = sessions \ {t}
    /\ UNCHANGED <<logout, given, pinGuardEnabled, pinGuardUnlocked, submitting, token, promise, init, call, callToken, panels>>
    /\ Still

(* init() loads what it needs and is done. *)
InitLoaded ==
    /\ init = "loading" /\ init' = "done"
    /\ UNCHANGED <<logout, sessions, given, pinGuardEnabled, pinGuardUnlocked, submitting, token, promise, call, callToken, panels>>
    /\ Still

(* fetchJSON: sent with the session of that moment, served, answered later. *)
fetchJSON(c) ==
    /\ init = "done" /\ call[c] = "idle"
    /\ call' = [call EXCEPT ![c] = "sent"] /\ callToken' = [callToken EXCEPT ![c] = token]
    /\ UNCHANGED <<logout, sessions, given, pinGuardEnabled, pinGuardUnlocked, submitting, token, promise, init, panels>>
    /\ Still

Served(c) ==
    /\ call[c] = "sent"
    /\ call' = [call EXCEPT ![c] = IF callToken[c] \in sessions THEN "ok" ELSE "denied"]
    /\ callToken' = [callToken EXCEPT ![c] = None]
    /\ UNCHANGED <<logout, sessions, given, pinGuardEnabled, pinGuardUnlocked, submitting, token, promise, init, panels>>
    /\ Still

Answered(c) ==
    /\ call[c] = "ok" /\ call' = [call EXCEPT ![c] = "idle"]
    /\ UNCHANGED <<logout, sessions, given, pinGuardEnabled, pinGuardUnlocked, submitting, token, promise, init, callToken, panels>>
    /\ Still

Denied(c) ==
    /\ call[c] = "denied" /\ call' = [call EXCEPT ![c] = "idle"]
    /\ activatePinGuardLock
    /\ UNCHANGED <<logout, sessions, given, pinGuardEnabled, callToken>> /\ Still

-----------------------------------------------------------------------------
(* Lists, panels and views.  Behind the overlay the user reaches none.      *)

User == init = "done" /\ (pinGuardEnabled => pinGuardUnlocked)

(* The panels whose selected container has gone from a list that is not empty. *)
Missing(list) == {p \in Panels : p = mode /\ list # {} /\ selected[p] # None /\ selected[p] \notin list}

(* renderContainersShellList and renderContainersLogsList. *)
renderLists(list) ==
    /\ selected' = [p \in Panels |-> IF p \in Missing(list) THEN None ELSE selected[p]]
    /\ Closing(Missing(list))
    /\ IF "shell" \in Missing(list) THEN closeContainersShellSession ELSE UNCHANGED termText
    /\ IF "logs" \in Missing(list) THEN closeContainersLogsSession
       ELSE UNCHANGED <<streamActive, shown, pending>>

(* renderContainers with the answer of the server; an error or an empty     *)
(* list clears the table and leaves the panels.                             *)
renderContainers(list) ==
    /\ init = "done" /\ list # {}
    /\ listed' = list /\ renderLists(list)
    /\ UNCHANGED <<pin, view, mode, paused>>

clearContainersTable ==
    /\ init = "done" /\ listed # {} /\ listed' = {}
    /\ UNCHANGED <<pin, view, mode, panels>>

(* What is selected when the list of mode next is shown again. *)
Reselected(next) ==
    [p \in Panels |-> IF p = next /\ listed # {} /\ selected[p] \notin listed THEN None ELSE selected[p]]

(* Mutant: the shell stays connected when the logs are shown. *)
ModeClosesLogs(next) ==
    /\ Closing({"logs"}) /\ UNCHANGED termText
    /\ closeContainersLogsSession
    /\ paused' \in (IF next = "table" THEN {paused, FALSE} ELSE {FALSE})

(* A panel is left with its session; a new look at the logs starts afresh.  *)
ModeCloses(next) ==
    /\ IF next = "shell" THEN Closing({"logs"}) /\ UNCHANGED termText
       ELSE Closing(Panels) /\ closeContainersShellSession
    /\ closeContainersLogsSession
    /\ paused' \in (IF next = "table" THEN {paused, FALSE} ELSE {FALSE})

(* setContainersViewMode by the user, or by a configuration that hides the  *)
(* panel; the other six modes are "table" here.                             *)
setContainersViewMode(next) ==
    /\ init = "done" /\ view = "containers" /\ (User \/ next = "table")
    /\ mode' = next /\ selected' = Reselected(next) /\ ModeCloses(next)
    /\ UNCHANGED <<pin, view, listed>>

(* setView into the containers view: nothing is selected. *)
EnterContainers(next) ==
    /\ User /\ view = "other"
    /\ view' = "containers" /\ mode' = next
    /\ selected' = [p \in Panels |-> None] /\ ModeCloses(next)
    /\ UNCHANGED <<pin, listed>>

LeaveContainers ==
    /\ User /\ view = "containers" /\ view' = "other"
    /\ CloseBoth /\ paused' = FALSE
    /\ UNCHANGED <<pin, mode, listed, selected>>

-----------------------------------------------------------------------------
(* Sessions of a panel *)

(* A session i of panel p for container c asks for its ticket. *)
Asks(p, i, c) ==
    /\ attempt' = [attempt EXCEPT ![p] = i]
    /\ socket' = [socket EXCEPT ![p] = None]
    /\ session' = [j \in Sockets |->
          IF j = i THEN [state |-> "ticket", panel |-> p, container |-> c, token |-> token]
          ELSE IF j = socket[p] THEN Closed(session[j]) ELSE session[j]]

(* openContainersShell up to the ticket. *)
openContainersShell(i, c) ==
    /\ User /\ view = "containers" /\ mode = "shell" /\ c \in listed /\ session[i] = Free
    /\ selected' = [selected EXCEPT !["shell"] = c]
    /\ Asks("shell", i, c)
    /\ termText' = {c}
    /\ UNCHANGED <<pin, view, mode, listed, log>>

ContainerNotRunning(c) ==
    /\ User /\ view = "containers" /\ mode = "shell" /\ c \in listed
    /\ selected' = [selected EXCEPT !["shell"] = c]
    /\ Closing({"shell"}) /\ closeContainersShellSession
    /\ UNCHANGED <<pin, view, mode, listed, log>>

(* openContainersLogs up to the ticket, by a click on a container or on the *)
(* timestamps button.                                                       *)
openContainersLogs(i, c) ==
    /\ User /\ view = "containers" /\ mode = "logs" /\ c \in listed /\ session[i] = Free
    /\ selected' = [selected EXCEPT !["logs"] = c]
    /\ Asks("logs", i, c)
    /\ streamActive' = FALSE /\ paused' = FALSE
    /\ shown' = {c} /\ pending' = {}
    /\ UNCHANGED <<pin, view, mode, listed, termText>>

(* Mutant: an answer that comes late is used all the same. *)
WantedAlways(i) == selected[session[i].panel] = session[i].container /\ mode = session[i].panel

(* What is asked when the ticket has come. *)
Wanted(i) == attempt[session[i].panel] = i /\ selected[session[i].panel] = session[i].container /\ mode = session[i].panel

(* createPinAuthenticatedWebSocket returns a WebSocket. *)
TicketGranted(i) ==
    /\ session[i].state = "ticket" /\ session[i].token \in sessions \cup {None}
    /\ IF Wanted(i)
       THEN /\ socket' = [socket EXCEPT ![session[i].panel] = i]
            /\ session' = [session EXCEPT ![i].state = "connecting"]
       ELSE UNCHANGED socket /\ session' = [session EXCEPT ![i] = Free]
    /\ UNCHANGED <<pin, view, mode, listed, selected, attempt, log, termText>>

(* It throws: the session is over (the page is locked by then), or the      *)
(* call fails.                                                              *)
TicketDenied(i) ==
    /\ session[i].state = "ticket" /\ session[i].token \notin sessions \cup {None}
    /\ pinGuardEnabled
    /\ token' = None /\ pinGuardUnlocked' = FALSE /\ promise' = TRUE
    /\ attempt' = [p \in Panels |-> None] /\ socket' = [p \in Panels |-> None]
    /\ session' = [j \in Sockets |->
          IF j = i THEN Free
          ELSE IF \E p \in Panels : socket[p] = j THEN Closed(session[j]) ELSE session[j]]
    /\ closeContainersShellSession /\ closeContainersLogsSession
    /\ UNCHANGED <<logout, sessions, given, pinGuardEnabled, submitting, init, call, callToken>>
    /\ UNCHANGED <<selected, paused>> /\ Still

TicketFails(i) ==
    /\ session[i].state = "ticket"
    /\ session' = [session EXCEPT ![i] = Free]
    /\ IF session[i].panel = "shell" /\ attempt["shell"] = i /\ selected["shell"] = session[i].container
       THEN attempt' = [attempt EXCEPT !["shell"] = None] /\ closeContainersShellSession
       ELSE UNCHANGED <<attempt, termText>>
    /\ UNCHANGED <<pin, view, mode, listed, selected, socket, log>>

(* Mutant: the listeners of a panel take every event of its sockets. *)
HeardAlways(p, i) == session[i].panel = p

(* The test every listener starts with: the event is of the socket that the *)
(* panel has now.                                                           *)
Heard(p, i) == socket[p] = i

(* Events of a WebSocket.  One that the page has closed or replaced still   *)
(* has its close event to come; messages of it are dropped by the browser.  *)
SocketOpen(i) ==
    /\ session[i].state = "connecting" /\ session' = [session EXCEPT ![i].state = "open"]
    /\ streamActive' = (streamActive \/ Heard("logs", i))
    /\ UNCHANGED <<pin, view, mode, listed, selected, attempt, socket, paused, shown, pending, termText>>

(* appendContainersLogs: into the log, or held back by a pause. *)
appendContainersLogs(c) ==
    /\ shown' = IF paused THEN shown ELSE shown \cup {c}
    /\ pending' = IF paused THEN pending \cup {c} ELSE pending

(* What the terminal, or the placeholder in its stead, tells of session i. *)
WriteShell(i) == termText' = IF Heard("shell", i) THEN termText \cup {session[i].container} ELSE termText

SocketMessage(i) ==
    /\ session[i].state = "open"
    /\ IF Heard("logs", i) THEN appendContainersLogs(session[i].container) ELSE UNCHANGED <<shown, pending>>
    /\ WriteShell(i)
    /\ UNCHANGED <<pin, view, mode, listed, selected, attempt, socket, session, streamActive, paused>>

(* The close event, alone or behind an error event: the other side closes,  *)
(* the connection breaks, or the page has closed the socket.  The panel     *)
(* that listens says so, "[logs disconnected]" in the log or "Shell         *)
(* disconnected.", the log not if the last close was to be silent           *)
(* (silentClose, a choice here).                                            *)
SocketClosed(i) ==
    /\ session[i].state \in Live \cup {"closing"}
    /\ session' = [session EXCEPT ![i] = IF @.state = "closing" THEN Free ELSE [@ EXCEPT !.state = "closed"]]
    /\ IF Heard("logs", i)
       THEN /\ streamActive' = FALSE
            /\ UNCHANGED <<shown, pending>> \/ appendContainersLogs(session[i].container)
       ELSE UNCHANGED <<streamActive, shown, pending>>
    /\ WriteShell(i)
    /\ UNCHANGED <<pin, view, mode, listed, selected, attempt, socket, paused>>

(* The pause button, and the button that empties the log. *)
setContainersLogsPaused ==
    /\ User /\ mode = "logs" /\ view = "containers"
    /\ paused' = ~paused
    /\ shown' = IF paused THEN shown \cup pending ELSE shown
    /\ pending' = IF paused THEN {} ELSE pending
    /\ UNCHANGED <<pin, view, mode, listed, selected, attempt, socket, session, streamActive, termText>>

resetContainersLogsBuffer ==
    /\ User /\ mode = "logs" /\ view = "containers" /\ shown \cup pending # {}
    /\ shown' = {} /\ pending' = {}
    /\ UNCHANGED <<pin, view, mode, listed, selected, attempt, socket, session, streamActive, paused, termText>>

-----------------------------------------------------------------------------
PinStep ==
    \/ bootstrapPinGuard \/ InitLoaded \/ submitPinGuard \/ PinRefused \/ lockPinGuardSession \/ LogoutAnswered
    \/ \E t \in Tokens : PinAccepted(t) \/ SessionEnds(t)
    \/ \E c \in Calls : fetchJSON(c) \/ Served(c) \/ Denied(c) \/ Answered(c)

PanelStep ==
    \/ \E list \in SUBSET Containers : renderContainers(list)
    \/ clearContainersTable \/ LeaveContainers
    \/ \E next \in Panels \cup {"table"} : setContainersViewMode(next) \/ EnterContainers(next)
    \/ setContainersLogsPaused \/ resetContainersLogsBuffer
    \/ \E c \in Containers : ContainerNotRunning(c)

SocketStep(i) ==
    \/ \E c \in Containers :
          openContainersShell(i, c) \/ openContainersLogs(i, c)
    \/ TicketGranted(i) \/ TicketDenied(i) \/ TicketFails(i)
    \/ SocketOpen(i) \/ SocketMessage(i) \/ SocketClosed(i)

Next == PinStep \/ PanelStep \/ \E i \in Sockets : SocketStep(i)

Spec == Init /\ [][Next]_vars

-----------------------------------------------------------------------------
(* Properties *)

(* No session is left behind: a WebSocket that connects or is open is the   *)
(* one its panel knows, however the answers to the tickets overtake clicks. *)
NoSocketLeftBehind == \A i \in Sockets : session[i].state \in Live => socket[session[i].panel] = i

(* The socket of a panel belongs to the container that is selected there,   *)
(* and the panel is on the screen.                                          *)
SocketOfSelection ==
    \A p \in Panels :
        socket[p] # None =>
            /\ selected[p] = session[socket[p]].container /\ session[socket[p]].panel = p
            /\ mode = p /\ view = "containers"

(* What a panel shows, and what a pause holds back, is of the selected      *)
(* container: no line of another container slips in, and no notice of the   *)
(* end of a socket that was closed or replaced, whenever its event comes.   *)
TextOfSelection ==
    /\ shown \cup pending \subseteq {selected["logs"]}
    /\ termText \subseteq {selected["shell"]}

(* Behind the lock screen nothing is connected. *)
LockedQuiet == ~pinGuardUnlocked => \A i \in Sockets : session[i].state \notin Live

=============================================================================
