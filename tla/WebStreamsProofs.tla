-------------------------- MODULE WebStreamsProofs --------------------------
(***************************************************************************)
(* Proofs about WebStreams, for any containers, sessions of panels, PIN    *)
(* sessions and calls: the types and the four safety invariants.           *)
(*                                                                         *)
(* No invariant is inductive by itself.  That no socket is left behind     *)
(* rests on what connectionAttempt protects: the socket of a panel belongs *)
(* to its present attempt (SocketInv), so a ticket of the present attempt  *)
(* finds the panel without a socket.  That nothing is connected behind the *)
(* lock rests on attempts: a locked page has none (AttemptInv), so tickets *)
(* that come late find nobody who wants them.  That text is of the         *)
(* selected container needs that the selection of a panel on the screen is *)
(* in the list (SelectionInv): otherwise showing the list again would take *)
(* the selection away from under an open session.                          *)
(***************************************************************************)
EXTENDS WebStreams, TLAPS

(* The guard: without a PIN the page is never locked, and a logout is of a  *)
(* page that has one and has been loaded.                                   *)
GuardInv ==
    /\ ~pinGuardEnabled => pinGuardUnlocked
    /\ logout => pinGuardEnabled /\ init # "start"

(* A session that goes on is of a container. *)
SessionInv == \A i \in Sockets : session[i].state # "free" => session[i].container # None

(* A panel that waits for a ticket or has a socket is on the screen of a    *)
(* page that is loaded and not locked.                                      *)
AttemptInv ==
    \A p \in Panels :
        attempt[p] # None => mode = p /\ view = "containers" /\ init = "done" /\ pinGuardUnlocked

(* The socket of a panel is that of its present attempt, past the ticket,   *)
(* and of the selected container.                                           *)
SocketInv ==
    \A p \in Panels :
        socket[p] # None =>
            /\ attempt[p] = socket[p]
            /\ session[socket[p]].state \in Live \cup {"closed"}
            /\ session[socket[p]].panel = p /\ session[socket[p]].container = selected[p]

(* The selection of the panel on the screen is in the list there is. *)
SelectionInv ==
    \A p \in Panels : mode = p /\ listed # {} => selected[p] \in listed \cup {None}

(* A terminal with text is on the screen. *)
TermInv == termText # {} => mode = "shell" /\ view = "containers"

PanelInv == AttemptInv /\ SocketInv /\ SelectionInv /\ TermInv /\ NoSocketLeftBehind /\ TextOfSelection
IndInv == TypeOK /\ SessionInv /\ GuardInv /\ PanelInv

-----------------------------------------------------------------------------
(* The types, in three parts *)

GuardTypes ==
    /\ sessions \in SUBSET given /\ given \in SUBSET Tokens
    /\ pinGuardEnabled \in BOOLEAN /\ pinGuardUnlocked \in BOOLEAN /\ submitting \in BOOLEAN
    /\ token \in given \cup {None} /\ promise \in BOOLEAN /\ logout \in BOOLEAN
    /\ init \in {"start", "locked", "loading", "done"}

CallTypes ==
    /\ call \in [Calls -> {"idle", "sent", "ok", "denied"}]
    /\ callToken \in [Calls -> Tokens \cup {None}]

Session == [state: {"free", "ticket", "closing", "closed"} \cup Live, panel: Panels,
            container: Containers \cup {None}, token: Tokens \cup {None}]

PanelTypes ==
    /\ view \in {"containers", "other"} /\ mode \in Panels \cup {"table"}
    /\ listed \in SUBSET Containers
    /\ selected \in [Panels -> Containers \cup {None}]
    /\ attempt \in [Panels -> Sockets \cup {None}] /\ socket \in [Panels -> Sockets \cup {None}]
    /\ session \in [Sockets -> Session]

TextTypes ==
    /\ streamActive \in BOOLEAN /\ paused \in BOOLEAN
    /\ shown \in SUBSET Containers /\ pending \in SUBSET Containers
    /\ termText \in SUBSET Containers

(* TypeOK, part by part. *)
LEMMA TypeParts == TypeOK <=> GuardTypes /\ CallTypes /\ PanelTypes /\ TextTypes
  BY DEF TypeOK, GuardTypes, CallTypes, PanelTypes, TextTypes, Session

(* The mark for nothing is no container, socket or session. *)
LEMMA NoneApart == None \notin Containers /\ None \notin Sockets /\ None \notin Tokens
  BY StreamConstants

(* A socket that is not in use is well typed. *)
LEMMA FreeType == Free \in Session
  BY DEF Free, Session, Panels

(* A socket that the page closes is well typed, is of its container and     *)
(* connects no more.                                                        *)
LEMMA ClosedType ==
    ASSUME NEW s \in Session
    PROVE  /\ Closed(s) \in Session /\ Closed(s).state \notin Live
           /\ Closed(s).state # "free" => s.state # "free" /\ Closed(s).container = s.container
  BY FreeType DEF Closed, Free, Session, Live

(* The steps of the guard that touch no panel. *)
QuietPin ==
    \/ bootstrapPinGuard \/ InitLoaded \/ submitPinGuard \/ PinRefused \/ lockPinGuardSession
    \/ \E t \in Tokens : PinAccepted(t) \/ SessionEnds(t)
    \/ \E c \in Calls : fetchJSON(c) \/ Served(c) \/ Answered(c)

(* The steps of the PIN page that leave the panels alone. *)
LEMMA QuietPinFrame == QuietPin => UNCHANGED <<view, mode, listed, panels>>
  BY DEF QuietPin, bootstrapPinGuard, InitLoaded, submitPinGuard, PinRefused, lockPinGuardSession,
         PinAccepted, SessionEnds, fetchJSON, Served, Answered, Still

(* Closing panels keeps the types. *)
LEMMA ClosingTypes ==
    ASSUME PanelTypes, NEW ps \in SUBSET Panels, Closing(ps)
    PROVE  /\ attempt' \in [Panels -> Sockets \cup {None}] /\ socket' \in [Panels -> Sockets \cup {None}]
           /\ session' \in [Sockets -> Session]
  BY ClosedType DEF PanelTypes, Closing

(* Every step keeps the types of guard, lock and sessions. *)
LEMMA GuardTypesStep == GuardTypes /\ PanelTypes /\ [Next]_vars => GuardTypes'
<1> SUFFICES ASSUME GuardTypes, PanelTypes, [Next]_vars PROVE GuardTypes'
  OBVIOUS
<1>1. CASE bootstrapPinGuard
  BY <1>1 DEF bootstrapPinGuard, panels, Still, log, GuardTypes
<1>2. CASE InitLoaded
  BY <1>2 DEF InitLoaded, panels, Still, log, GuardTypes
<1>3. CASE submitPinGuard
  BY <1>3 DEF submitPinGuard, panels, Still, log, GuardTypes
<1>4. CASE PinRefused
  BY <1>4 DEF PinRefused, panels, Still, log, GuardTypes
<1>5. CASE lockPinGuardSession
  BY <1>5 DEF lockPinGuardSession, panels, Still, log, GuardTypes
<1>6. CASE LogoutAnswered
  BY <1>6 DEF LogoutAnswered, Locked, CloseBoth, closeContainersShellSession, closeContainersLogsSession, Still, GuardTypes
<1>7. ASSUME NEW t \in Tokens, PinAccepted(t) PROVE GuardTypes'
  BY <1>7 DEF PinAccepted, Unlocked, resolvePinUnlock, panels, Still, log, GuardTypes
<1>8. ASSUME NEW t \in Tokens, SessionEnds(t) PROVE GuardTypes'
  BY <1>8 DEF SessionEnds, panels, Still, log, GuardTypes
<1>9. ASSUME NEW c \in Calls, fetchJSON(c) PROVE GuardTypes'
  BY <1>9 DEF fetchJSON, panels, Still, log, GuardTypes
<1>10. ASSUME NEW c \in Calls, Served(c) PROVE GuardTypes'
  BY <1>10 DEF Served, panels, Still, log, GuardTypes
<1>11. ASSUME NEW c \in Calls, Denied(c) PROVE GuardTypes'
  BY <1>11 DEF Denied, activatePinGuardLock, Locked, CloseBoth, closeContainersShellSession, closeContainersLogsSession, panels, Still, log, GuardTypes
<1>12. ASSUME NEW c \in Calls, Answered(c) PROVE GuardTypes'
  BY <1>12 DEF Answered, panels, Still, log, GuardTypes
<1>13. ASSUME NEW list \in SUBSET Containers, renderContainers(list) PROVE GuardTypes'
  BY <1>13 DEF renderContainers, renderLists, Missing, closeContainersShellSession, closeContainersLogsSession, pin, GuardTypes
<1>14. CASE clearContainersTable
  BY <1>14 DEF clearContainersTable, pin, panels, log, GuardTypes
<1>15. CASE LeaveContainers
  BY <1>15 DEF LeaveContainers, User, CloseBoth, closeContainersShellSession, closeContainersLogsSession, pin, GuardTypes
<1>16. ASSUME NEW next \in Panels \cup {"table"}, setContainersViewMode(next) PROVE GuardTypes'
  BY <1>16 DEF setContainersViewMode, ModeCloses, Reselected, User, closeContainersShellSession, closeContainersLogsSession, pin, GuardTypes
<1>17. ASSUME NEW next \in Panels \cup {"table"}, EnterContainers(next) PROVE GuardTypes'
  BY <1>17 DEF EnterContainers, ModeCloses, User, closeContainersShellSession, closeContainersLogsSession, pin, GuardTypes
<1>18. CASE setContainersLogsPaused
  BY <1>18 DEF setContainersLogsPaused, pin, GuardTypes
<1>19. CASE resetContainersLogsBuffer
  BY <1>19 DEF resetContainersLogsBuffer, pin, GuardTypes
<1>20. ASSUME NEW c \in Containers, ContainerNotRunning(c) PROVE GuardTypes'
  BY <1>20 DEF ContainerNotRunning, User, closeContainersShellSession, pin, log, GuardTypes
<1>21. ASSUME NEW i \in Sockets, NEW c \in Containers, openContainersShell(i, c) PROVE GuardTypes'
  BY <1>21 DEF openContainersShell, User, Asks, pin, log, GuardTypes
<1>22. ASSUME NEW i \in Sockets, NEW c \in Containers, openContainersLogs(i, c) PROVE GuardTypes'
  BY <1>22 DEF openContainersLogs, User, Asks, pin, GuardTypes
<1>23. ASSUME NEW i \in Sockets, TicketGranted(i) PROVE GuardTypes'
  BY <1>23 DEF TicketGranted, Wanted, pin, log, GuardTypes
<1>24. ASSUME NEW i \in Sockets, TicketDenied(i) PROVE GuardTypes'
  BY <1>24 DEF TicketDenied, closeContainersShellSession, closeContainersLogsSession, Still, GuardTypes
<1>25. ASSUME NEW i \in Sockets, TicketFails(i) PROVE GuardTypes'
  BY <1>25 DEF TicketFails, closeContainersShellSession, pin, log, GuardTypes
<1>26. ASSUME NEW i \in Sockets, SocketOpen(i) PROVE GuardTypes'
  BY <1>26 DEF SocketOpen, pin, GuardTypes
<1>27. ASSUME NEW i \in Sockets, SocketMessage(i) PROVE GuardTypes'
  BY <1>27 DEF SocketMessage, appendContainersLogs, pin, GuardTypes
<1>28. ASSUME NEW i \in Sockets, SocketClosed(i) PROVE GuardTypes'
  BY <1>28 DEF SocketClosed, appendContainersLogs, pin, GuardTypes
<1>29. CASE UNCHANGED vars
  BY <1>29 DEF vars, pin, GuardTypes
<1> QED
  BY <1>1, <1>2, <1>3, <1>4, <1>5, <1>6, <1>7, <1>8, <1>9, <1>10, <1>11, <1>12, <1>13, <1>14, <1>15, <1>16, <1>17, <1>18, <1>19, <1>20, <1>21, <1>22, <1>23, <1>24, <1>25, <1>26, <1>27, <1>28, <1>29 DEF Next, PinStep, PanelStep, SocketStep

(* Every step keeps the types of the calls. *)
LEMMA CallTypesStep == CallTypes /\ GuardTypes /\ [Next]_vars => CallTypes'
<1> SUFFICES ASSUME CallTypes, GuardTypes, [Next]_vars PROVE CallTypes'
  OBVIOUS
<1>1. CASE bootstrapPinGuard
  BY <1>1 DEF bootstrapPinGuard, panels, Still, log, CallTypes, GuardTypes
<1>2. CASE InitLoaded
  BY <1>2 DEF InitLoaded, panels, Still, log, CallTypes, GuardTypes
<1>3. CASE submitPinGuard
  BY <1>3 DEF submitPinGuard, panels, Still, log, CallTypes, GuardTypes
<1>4. CASE PinRefused
  BY <1>4 DEF PinRefused, panels, Still, log, CallTypes, GuardTypes
<1>5. CASE lockPinGuardSession
  BY <1>5 DEF lockPinGuardSession, panels, Still, log, CallTypes, GuardTypes
<1>6. CASE LogoutAnswered
  BY <1>6 DEF LogoutAnswered, Locked, CloseBoth, closeContainersShellSession, closeContainersLogsSession, Still, CallTypes, GuardTypes
<1>7. ASSUME NEW t \in Tokens, PinAccepted(t) PROVE CallTypes'
  BY <1>7 DEF PinAccepted, Unlocked, resolvePinUnlock, panels, Still, log, CallTypes, GuardTypes
<1>8. ASSUME NEW t \in Tokens, SessionEnds(t) PROVE CallTypes'
  BY <1>8 DEF SessionEnds, panels, Still, log, CallTypes, GuardTypes
<1>9. ASSUME NEW c \in Calls, fetchJSON(c) PROVE CallTypes'
  BY <1>9 DEF fetchJSON, panels, Still, log, CallTypes, GuardTypes
<1>10. ASSUME NEW c \in Calls, Served(c) PROVE CallTypes'
  BY <1>10 DEF Served, panels, Still, log, CallTypes, GuardTypes
<1>11. ASSUME NEW c \in Calls, Denied(c) PROVE CallTypes'
  BY <1>11 DEF Denied, activatePinGuardLock, Locked, CloseBoth, closeContainersShellSession, closeContainersLogsSession, panels, Still, log, CallTypes, GuardTypes
<1>12. ASSUME NEW c \in Calls, Answered(c) PROVE CallTypes'
  BY <1>12 DEF Answered, panels, Still, log, CallTypes, GuardTypes
<1>13. ASSUME NEW list \in SUBSET Containers, renderContainers(list) PROVE CallTypes'
  BY <1>13 DEF renderContainers, renderLists, Missing, closeContainersShellSession, closeContainersLogsSession, pin, CallTypes, GuardTypes
<1>14. CASE clearContainersTable
  BY <1>14 DEF clearContainersTable, pin, panels, log, CallTypes, GuardTypes
<1>15. CASE LeaveContainers
  BY <1>15 DEF LeaveContainers, User, CloseBoth, closeContainersShellSession, closeContainersLogsSession, pin, CallTypes, GuardTypes
<1>16. ASSUME NEW next \in Panels \cup {"table"}, setContainersViewMode(next) PROVE CallTypes'
  BY <1>16 DEF setContainersViewMode, ModeCloses, Reselected, User, closeContainersShellSession, closeContainersLogsSession, pin, CallTypes, GuardTypes
<1>17. ASSUME NEW next \in Panels \cup {"table"}, EnterContainers(next) PROVE CallTypes'
  BY <1>17 DEF EnterContainers, ModeCloses, User, closeContainersShellSession, closeContainersLogsSession, pin, CallTypes, GuardTypes
<1>18. CASE setContainersLogsPaused
  BY <1>18 DEF setContainersLogsPaused, pin, CallTypes, GuardTypes
<1>19. CASE resetContainersLogsBuffer
  BY <1>19 DEF resetContainersLogsBuffer, pin, CallTypes, GuardTypes
<1>20. ASSUME NEW c \in Containers, ContainerNotRunning(c) PROVE CallTypes'
  BY <1>20 DEF ContainerNotRunning, User, closeContainersShellSession, pin, log, CallTypes, GuardTypes
<1>21. ASSUME NEW i \in Sockets, NEW c \in Containers, openContainersShell(i, c) PROVE CallTypes'
  BY <1>21 DEF openContainersShell, User, Asks, pin, log, CallTypes, GuardTypes
<1>22. ASSUME NEW i \in Sockets, NEW c \in Containers, openContainersLogs(i, c) PROVE CallTypes'
  BY <1>22 DEF openContainersLogs, User, Asks, pin, CallTypes, GuardTypes
<1>23. ASSUME NEW i \in Sockets, TicketGranted(i) PROVE CallTypes'
  BY <1>23 DEF TicketGranted, Wanted, pin, log, CallTypes, GuardTypes
<1>24. ASSUME NEW i \in Sockets, TicketDenied(i) PROVE CallTypes'
  BY <1>24 DEF TicketDenied, closeContainersShellSession, closeContainersLogsSession, Still, CallTypes, GuardTypes
<1>25. ASSUME NEW i \in Sockets, TicketFails(i) PROVE CallTypes'
  BY <1>25 DEF TicketFails, closeContainersShellSession, pin, log, CallTypes, GuardTypes
<1>26. ASSUME NEW i \in Sockets, SocketOpen(i) PROVE CallTypes'
  BY <1>26 DEF SocketOpen, pin, CallTypes, GuardTypes
<1>27. ASSUME NEW i \in Sockets, SocketMessage(i) PROVE CallTypes'
  BY <1>27 DEF SocketMessage, appendContainersLogs, pin, CallTypes, GuardTypes
<1>28. ASSUME NEW i \in Sockets, SocketClosed(i) PROVE CallTypes'
  BY <1>28 DEF SocketClosed, appendContainersLogs, pin, CallTypes, GuardTypes
<1>29. CASE UNCHANGED vars
  BY <1>29 DEF vars, pin, CallTypes, GuardTypes
<1> QED
  BY <1>1, <1>2, <1>3, <1>4, <1>5, <1>6, <1>7, <1>8, <1>9, <1>10, <1>11, <1>12, <1>13, <1>14, <1>15, <1>16, <1>17, <1>18, <1>19, <1>20, <1>21, <1>22, <1>23, <1>24, <1>25, <1>26, <1>27, <1>28, <1>29 DEF Next, PinStep, PanelStep, SocketStep

(* Every step keeps the types of the panels. *)
LEMMA PanelTypesStep == PanelTypes /\ GuardTypes /\ [Next]_vars => PanelTypes'
<1> SUFFICES ASSUME PanelTypes, GuardTypes, [Next]_vars PROVE PanelTypes'
  OBVIOUS
<1>1. CASE QuietPin
  BY <1>1, QuietPinFrame DEF panels, log, PanelTypes, Panels
<1>2. CASE LogoutAnswered
  BY <1>2, ClosingTypes DEF LogoutAnswered, Locked, CloseBoth, closeContainersShellSession, closeContainersLogsSession, Still, PanelTypes, Panels
<1>3. ASSUME NEW c \in Calls, Denied(c) PROVE PanelTypes'
  BY <1>3, ClosingTypes DEF Denied, activatePinGuardLock, Locked, CloseBoth, closeContainersShellSession, closeContainersLogsSession, panels, Still, log, PanelTypes, Panels
<1>4. ASSUME NEW list \in SUBSET Containers, renderContainers(list) PROVE PanelTypes'
  BY <1>4, ClosingTypes DEF renderContainers, renderLists, Missing, closeContainersShellSession, closeContainersLogsSession, pin, PanelTypes, Panels
<1>5. CASE clearContainersTable
  BY <1>5 DEF clearContainersTable, pin, panels, log, PanelTypes, Panels
<1>6. CASE LeaveContainers
  BY <1>6, ClosingTypes DEF LeaveContainers, User, CloseBoth, closeContainersShellSession, closeContainersLogsSession, pin, PanelTypes, Panels
<1>7. ASSUME NEW next \in Panels \cup {"table"}, setContainersViewMode(next) PROVE PanelTypes'
  BY <1>7, ClosingTypes DEF setContainersViewMode, ModeCloses, Reselected, User, closeContainersShellSession, closeContainersLogsSession, pin, PanelTypes, Panels
<1>8. ASSUME NEW next \in Panels \cup {"table"}, EnterContainers(next) PROVE PanelTypes'
  BY <1>8, ClosingTypes DEF EnterContainers, ModeCloses, User, closeContainersShellSession, closeContainersLogsSession, pin, PanelTypes, Panels
<1>9. CASE setContainersLogsPaused
  BY <1>9 DEF setContainersLogsPaused, pin, PanelTypes, Panels
<1>10. CASE resetContainersLogsBuffer
  BY <1>10 DEF resetContainersLogsBuffer, pin, PanelTypes, Panels
<1>11. ASSUME NEW c \in Containers, ContainerNotRunning(c) PROVE PanelTypes'
  BY <1>11, ClosingTypes DEF ContainerNotRunning, User, closeContainersShellSession, pin, log, PanelTypes, Panels
<1>12. ASSUME NEW i \in Sockets, NEW c \in Containers, openContainersShell(i, c) PROVE PanelTypes'
  BY <1>12, FreeType, ClosedType DEF openContainersShell, User, Asks, pin, log, PanelTypes, Panels, Session, Live, GuardTypes
<1>13. ASSUME NEW i \in Sockets, NEW c \in Containers, openContainersLogs(i, c) PROVE PanelTypes'
  BY <1>13, FreeType, ClosedType DEF openContainersLogs, User, Asks, pin, PanelTypes, Panels, Session, Live, GuardTypes
<1>14. ASSUME NEW i \in Sockets, TicketGranted(i) PROVE PanelTypes'
  BY <1>14, FreeType DEF TicketGranted, Wanted, pin, log, PanelTypes, Panels, Session, Live
<1>15. ASSUME NEW i \in Sockets, TicketDenied(i) PROVE PanelTypes'
  BY <1>15, FreeType, ClosedType DEF TicketDenied, closeContainersShellSession, closeContainersLogsSession, Still, PanelTypes, Panels
<1>16. ASSUME NEW i \in Sockets, TicketFails(i) PROVE PanelTypes'
  BY <1>16, FreeType DEF TicketFails, closeContainersShellSession, pin, log, PanelTypes, Panels
<1>17. ASSUME NEW i \in Sockets, SocketOpen(i) PROVE PanelTypes'
  BY <1>17 DEF SocketOpen, pin, PanelTypes, Panels, Session, Live
<1>18. ASSUME NEW i \in Sockets, SocketMessage(i) PROVE PanelTypes'
  BY <1>18 DEF SocketMessage, appendContainersLogs, pin, PanelTypes, Panels
<1>19. ASSUME NEW i \in Sockets, SocketClosed(i) PROVE PanelTypes'
  BY <1>19, FreeType DEF SocketClosed, pin, PanelTypes, Panels, Session, Live
<1>20. CASE UNCHANGED vars
  BY <1>20 DEF vars, panels, log, PanelTypes, Panels
<1> QED
  BY <1>1, <1>2, <1>3, <1>4, <1>5, <1>6, <1>7, <1>8, <1>9, <1>10, <1>11, <1>12, <1>13, <1>14, <1>15, <1>16, <1>17, <1>18, <1>19, <1>20 DEF Next, PinStep, PanelStep, SocketStep, QuietPin

(* Closing panels keeps what the sessions are of. *)
LEMMA ClosingSession ==
    ASSUME SessionInv, PanelTypes, NEW ps \in SUBSET Panels, Closing(ps)
    PROVE  SessionInv'
<1> SUFFICES ASSUME NEW i \in Sockets, session'[i].state # "free" PROVE session'[i].container # None
  BY DEF SessionInv
<1>1. CASE session'[i] = session[i]
  BY <1>1 DEF SessionInv
<1>2. CASE session'[i] = Closed(session[i])
  BY <1>2, ClosedType DEF SessionInv, PanelTypes
<1> QED
  BY <1>1, <1>2 DEF Closing

(* A panel is only connected to a container. *)
LEMMA SessionStep == SessionInv /\ PanelTypes /\ [Next]_vars => SessionInv'
<1> SUFFICES ASSUME SessionInv, PanelTypes, [Next]_vars PROVE SessionInv'
  OBVIOUS
<1> USE NoneApart DEF SessionInv, PanelTypes
<1>1. CASE QuietPin
  BY <1>1, QuietPinFrame DEF panels, log, Free
<1>2. CASE LogoutAnswered
  BY <1>2, ClosingSession DEF LogoutAnswered, Locked, CloseBoth, closeContainersShellSession, closeContainersLogsSession, Still
<1>3. ASSUME NEW c \in Calls, Denied(c) PROVE SessionInv'
  BY <1>3, ClosingSession DEF Denied, activatePinGuardLock, Locked, CloseBoth, closeContainersShellSession, closeContainersLogsSession, panels, Still, log
<1>4. ASSUME NEW list \in SUBSET Containers, renderContainers(list) PROVE SessionInv'
  BY <1>4, ClosingSession DEF renderContainers, renderLists, Missing, closeContainersShellSession, closeContainersLogsSession, pin
<1>5. CASE clearContainersTable
  BY <1>5 DEF clearContainersTable, pin, panels, log, Free
<1>6. CASE LeaveContainers
  BY <1>6, ClosingSession DEF LeaveContainers, User, CloseBoth, closeContainersShellSession, closeContainersLogsSession, pin
<1>7. ASSUME NEW next \in Panels \cup {"table"}, setContainersViewMode(next) PROVE SessionInv'
  <2>1. \E ps \in SUBSET Panels : Closing(ps)
    <3>1. Closing({"logs"}) \/ Closing(Panels)
      BY <1>7 DEF setContainersViewMode, ModeCloses
    <3> QED
      BY <3>1 DEF Panels
  <2> QED
    BY <2>1, ClosingSession
<1>8. ASSUME NEW next \in Panels \cup {"table"}, EnterContainers(next) PROVE SessionInv'
  <2>1. \E ps \in SUBSET Panels : Closing(ps)
    <3>1. Closing({"logs"}) \/ Closing(Panels)
      BY <1>8 DEF EnterContainers, ModeCloses
    <3> QED
      BY <3>1 DEF Panels
  <2> QED
    BY <2>1, ClosingSession
<1>9. CASE setContainersLogsPaused
  BY <1>9 DEF setContainersLogsPaused, pin, Free
<1>10. CASE resetContainersLogsBuffer
  BY <1>10 DEF resetContainersLogsBuffer, pin, Free
<1>11. ASSUME NEW c \in Containers, ContainerNotRunning(c) PROVE SessionInv'
  BY <1>11, ClosingSession DEF ContainerNotRunning, User, closeContainersShellSession, pin, log
<1>12. ASSUME NEW i \in Sockets, NEW c \in Containers, openContainersShell(i, c) PROVE SessionInv'
  BY <1>12, ClosedType DEF openContainersShell, User, Asks, pin, log, Free
<1>13. ASSUME NEW i \in Sockets, NEW c \in Containers, openContainersLogs(i, c) PROVE SessionInv'
  BY <1>13, ClosedType DEF openContainersLogs, User, Asks, pin, Free
<1>14. ASSUME NEW i \in Sockets, TicketGranted(i) PROVE SessionInv'
  BY <1>14 DEF TicketGranted, Wanted, pin, log, Free, Session, Live
<1>15. ASSUME NEW i \in Sockets, TicketDenied(i) PROVE SessionInv'
  BY <1>15, ClosedType DEF TicketDenied, closeContainersShellSession, closeContainersLogsSession, Still, Free
<1>16. ASSUME NEW i \in Sockets, TicketFails(i) PROVE SessionInv'
  BY <1>16 DEF TicketFails, closeContainersShellSession, pin, log, Free, Session, Live
<1>17. ASSUME NEW i \in Sockets, SocketOpen(i) PROVE SessionInv'
  BY <1>17 DEF SocketOpen, pin, Free, Session, Live
<1>18. ASSUME NEW i \in Sockets, SocketMessage(i) PROVE SessionInv'
  BY <1>18 DEF SocketMessage, appendContainersLogs, pin, Free
<1>19. ASSUME NEW i \in Sockets, SocketClosed(i) PROVE SessionInv'
  BY <1>19 DEF SocketClosed, Free, Session, Live
<1>20. CASE UNCHANGED vars
  BY <1>20 DEF vars, panels, log, Free
<1> QED
  BY <1>1, <1>2, <1>3, <1>4, <1>5, <1>6, <1>7, <1>8, <1>9, <1>10, <1>11, <1>12, <1>13, <1>14, <1>15, <1>16, <1>17, <1>18, <1>19, <1>20 DEF Next, PinStep, PanelStep, SocketStep, QuietPin

(* Every step keeps the types of what is shown. *)
LEMMA TextTypesStep == TextTypes /\ PanelTypes /\ SessionInv /\ [Next]_vars => TextTypes'
<1> SUFFICES ASSUME TextTypes, PanelTypes, SessionInv, [Next]_vars PROVE TextTypes'
  OBVIOUS
<1>1. CASE QuietPin
  BY <1>1, QuietPinFrame DEF panels, log, TextTypes, PanelTypes, Panels
<1>2. CASE LogoutAnswered
  BY <1>2 DEF LogoutAnswered, Locked, CloseBoth, closeContainersShellSession, closeContainersLogsSession, Still, TextTypes, PanelTypes, Panels
<1>3. ASSUME NEW c \in Calls, Denied(c) PROVE TextTypes'
  BY <1>3 DEF Denied, activatePinGuardLock, Locked, CloseBoth, closeContainersShellSession, closeContainersLogsSession, panels, Still, log, TextTypes, PanelTypes, Panels
<1>4. ASSUME NEW list \in SUBSET Containers, renderContainers(list) PROVE TextTypes'
  BY <1>4 DEF renderContainers, renderLists, Missing, closeContainersShellSession, closeContainersLogsSession, pin, TextTypes, PanelTypes, Panels
<1>5. CASE clearContainersTable
  BY <1>5 DEF clearContainersTable, pin, panels, log, TextTypes, PanelTypes, Panels
<1>6. CASE LeaveContainers
  BY <1>6 DEF LeaveContainers, User, CloseBoth, closeContainersShellSession, closeContainersLogsSession, pin, TextTypes, PanelTypes, Panels
<1>7. ASSUME NEW next \in Panels \cup {"table"}, setContainersViewMode(next) PROVE TextTypes'
  BY <1>7 DEF setContainersViewMode, ModeCloses, Reselected, User, closeContainersShellSession, closeContainersLogsSession, pin, TextTypes, PanelTypes, Panels
<1>8. ASSUME NEW next \in Panels \cup {"table"}, EnterContainers(next) PROVE TextTypes'
  BY <1>8 DEF EnterContainers, ModeCloses, User, closeContainersShellSession, closeContainersLogsSession, pin, TextTypes, PanelTypes, Panels
<1>9. CASE setContainersLogsPaused
  BY <1>9 DEF setContainersLogsPaused, pin, TextTypes, PanelTypes, Panels
<1>10. CASE resetContainersLogsBuffer
  BY <1>10 DEF resetContainersLogsBuffer, pin, TextTypes, PanelTypes, Panels
<1>11. ASSUME NEW c \in Containers, ContainerNotRunning(c) PROVE TextTypes'
  BY <1>11 DEF ContainerNotRunning, User, closeContainersShellSession, pin, log, TextTypes, PanelTypes, Panels
<1>12. ASSUME NEW i \in Sockets, NEW c \in Containers, openContainersShell(i, c) PROVE TextTypes'
  BY <1>12 DEF openContainersShell, User, Asks, pin, log, TextTypes, PanelTypes, Panels
<1>13. ASSUME NEW i \in Sockets, NEW c \in Containers, openContainersLogs(i, c) PROVE TextTypes'
  BY <1>13 DEF openContainersLogs, User, Asks, pin, TextTypes, PanelTypes, Panels
<1>14. ASSUME NEW i \in Sockets, TicketGranted(i) PROVE TextTypes'
  BY <1>14 DEF TicketGranted, Wanted, pin, log, TextTypes, PanelTypes, Panels
<1>15. ASSUME NEW i \in Sockets, TicketDenied(i) PROVE TextTypes'
  BY <1>15 DEF TicketDenied, closeContainersShellSession, closeContainersLogsSession, Still, TextTypes, PanelTypes, Panels
<1>16. ASSUME NEW i \in Sockets, TicketFails(i) PROVE TextTypes'
  BY <1>16 DEF TicketFails, closeContainersShellSession, pin, log, TextTypes, PanelTypes, Panels
<1>17. ASSUME NEW i \in Sockets, SocketOpen(i) PROVE TextTypes'
  BY <1>17 DEF SocketOpen, pin, TextTypes, PanelTypes, Panels
<1>18. ASSUME NEW i \in Sockets, SocketMessage(i) PROVE TextTypes'
  BY <1>18 DEF SocketMessage, WriteShell, appendContainersLogs, pin, TextTypes, PanelTypes, Panels, Session, SessionInv, Live
<1>19. ASSUME NEW i \in Sockets, SocketClosed(i) PROVE TextTypes'
  <2>1. session[i].container \in Containers
    BY <1>19 DEF SocketClosed, SessionInv, PanelTypes, Session, Live
  <2> QED
    BY <1>19, <2>1 DEF SocketClosed, WriteShell, appendContainersLogs, pin, TextTypes, PanelTypes, Panels
<1>20. CASE UNCHANGED vars
  BY <1>20 DEF vars, panels, log, TextTypes, PanelTypes, Panels
<1> QED
  BY <1>1, <1>2, <1>3, <1>4, <1>5, <1>6, <1>7, <1>8, <1>9, <1>10, <1>11, <1>12, <1>13, <1>14, <1>15, <1>16, <1>17, <1>18, <1>19, <1>20 DEF Next, PinStep, PanelStep, SocketStep, QuietPin

-----------------------------------------------------------------------------
(* The guard and the panels *)

(* A page without a PIN is never locked. *)
LEMMA GuardStep == GuardInv /\ GuardTypes /\ [Next]_vars => GuardInv'
<1> SUFFICES ASSUME GuardInv, GuardTypes, [Next]_vars PROVE GuardInv'
  OBVIOUS
<1>1. CASE bootstrapPinGuard
  BY <1>1 DEF bootstrapPinGuard, panels, Still, log, GuardInv, GuardTypes
<1>2. CASE InitLoaded
  BY <1>2 DEF InitLoaded, panels, Still, log, GuardInv, GuardTypes
<1>3. CASE submitPinGuard
  BY <1>3 DEF submitPinGuard, panels, Still, log, GuardInv, GuardTypes
<1>4. CASE PinRefused
  BY <1>4 DEF PinRefused, panels, Still, log, GuardInv, GuardTypes
<1>5. CASE lockPinGuardSession
  BY <1>5 DEF lockPinGuardSession, panels, Still, log, GuardInv, GuardTypes
<1>6. CASE LogoutAnswered
  BY <1>6 DEF LogoutAnswered, Locked, CloseBoth, closeContainersShellSession, closeContainersLogsSession, Still, GuardInv, GuardTypes
<1>7. ASSUME NEW t \in Tokens, PinAccepted(t) PROVE GuardInv'
  BY <1>7 DEF PinAccepted, Unlocked, resolvePinUnlock, panels, Still, log, GuardInv, GuardTypes
<1>8. ASSUME NEW t \in Tokens, SessionEnds(t) PROVE GuardInv'
  BY <1>8 DEF SessionEnds, panels, Still, log, GuardInv, GuardTypes
<1>9. ASSUME NEW c \in Calls, fetchJSON(c) PROVE GuardInv'
  BY <1>9 DEF fetchJSON, panels, Still, log, GuardInv, GuardTypes
<1>10. ASSUME NEW c \in Calls, Served(c) PROVE GuardInv'
  BY <1>10 DEF Served, panels, Still, log, GuardInv, GuardTypes
<1>11. ASSUME NEW c \in Calls, Denied(c) PROVE GuardInv'
  BY <1>11 DEF Denied, activatePinGuardLock, Locked, CloseBoth, closeContainersShellSession, closeContainersLogsSession, panels, Still, log, GuardInv, GuardTypes
<1>12. ASSUME NEW c \in Calls, Answered(c) PROVE GuardInv'
  BY <1>12 DEF Answered, panels, Still, log, GuardInv, GuardTypes
<1>13. ASSUME NEW list \in SUBSET Containers, renderContainers(list) PROVE GuardInv'
  BY <1>13 DEF renderContainers, renderLists, Missing, closeContainersShellSession, closeContainersLogsSession, pin, GuardInv, GuardTypes
<1>14. CASE clearContainersTable
  BY <1>14 DEF clearContainersTable, pin, panels, log, GuardInv, GuardTypes
<1>15. CASE LeaveContainers
  BY <1>15 DEF LeaveContainers, User, CloseBoth, closeContainersShellSession, closeContainersLogsSession, pin, GuardInv, GuardTypes
<1>16. ASSUME NEW next \in Panels \cup {"table"}, setContainersViewMode(next) PROVE GuardInv'
  BY <1>16 DEF setContainersViewMode, ModeCloses, Reselected, User, closeContainersShellSession, closeContainersLogsSession, pin, GuardInv, GuardTypes
<1>17. ASSUME NEW next \in Panels \cup {"table"}, EnterContainers(next) PROVE GuardInv'
  BY <1>17 DEF EnterContainers, ModeCloses, User, closeContainersShellSession, closeContainersLogsSession, pin, GuardInv, GuardTypes
<1>18. CASE setContainersLogsPaused
  BY <1>18 DEF setContainersLogsPaused, pin, GuardInv, GuardTypes
<1>19. CASE resetContainersLogsBuffer
  BY <1>19 DEF resetContainersLogsBuffer, pin, GuardInv, GuardTypes
<1>20. ASSUME NEW c \in Containers, ContainerNotRunning(c) PROVE GuardInv'
  BY <1>20 DEF ContainerNotRunning, User, closeContainersShellSession, pin, log, GuardInv, GuardTypes
<1>21. ASSUME NEW i \in Sockets, NEW c \in Containers, openContainersShell(i, c) PROVE GuardInv'
  BY <1>21 DEF openContainersShell, User, Asks, pin, log, GuardInv, GuardTypes
<1>22. ASSUME NEW i \in Sockets, NEW c \in Containers, openContainersLogs(i, c) PROVE GuardInv'
  BY <1>22 DEF openContainersLogs, User, Asks, pin, GuardInv, GuardTypes
<1>23. ASSUME NEW i \in Sockets, TicketGranted(i) PROVE GuardInv'
  BY <1>23 DEF TicketGranted, Wanted, pin, log, GuardInv, GuardTypes
<1>24. ASSUME NEW i \in Sockets, TicketDenied(i) PROVE GuardInv'
  BY <1>24 DEF TicketDenied, closeContainersShellSession, closeContainersLogsSession, Still, GuardInv, GuardTypes
<1>25. ASSUME NEW i \in Sockets, TicketFails(i) PROVE GuardInv'
  BY <1>25 DEF TicketFails, closeContainersShellSession, pin, log, GuardInv, GuardTypes
<1>26. ASSUME NEW i \in Sockets, SocketOpen(i) PROVE GuardInv'
  BY <1>26 DEF SocketOpen, pin, GuardInv, GuardTypes
<1>27. ASSUME NEW i \in Sockets, SocketMessage(i) PROVE GuardInv'
  BY <1>27 DEF SocketMessage, appendContainersLogs, pin, GuardInv, GuardTypes
<1>28. ASSUME NEW i \in Sockets, SocketClosed(i) PROVE GuardInv'
  BY <1>28 DEF SocketClosed, appendContainersLogs, pin, GuardInv, GuardTypes
<1>29. CASE UNCHANGED vars
  BY <1>29 DEF vars, pin, GuardInv, GuardTypes
<1> QED
  BY <1>1, <1>2, <1>3, <1>4, <1>5, <1>6, <1>7, <1>8, <1>9, <1>10, <1>11, <1>12, <1>13, <1>14, <1>15, <1>16, <1>17, <1>18, <1>19, <1>20, <1>21, <1>22, <1>23, <1>24, <1>25, <1>26, <1>27, <1>28, <1>29 DEF Next, PinStep, PanelStep, SocketStep

(* A panel that is left, hidden or locked away gives up its attempt. *)
LEMMA AttemptStep == AttemptInv /\ SocketInv /\ GuardInv /\ TypeOK /\ [Next]_vars => AttemptInv'
<1> SUFFICES ASSUME AttemptInv, SocketInv, GuardInv, TypeOK, [Next]_vars PROVE AttemptInv'
  OBVIOUS
<1> USE TypeParts DEF AttemptInv, GuardInv
<1>1. CASE bootstrapPinGuard
  BY <1>1 DEF bootstrapPinGuard, panels, Still, log, GuardTypes, PanelTypes, Panels
<1>2. CASE InitLoaded
  BY <1>2 DEF InitLoaded, panels, Still, log, GuardTypes, PanelTypes, Panels
<1>3. CASE submitPinGuard
  BY <1>3 DEF submitPinGuard, panels, Still, log, GuardTypes, PanelTypes, Panels
<1>4. CASE PinRefused
  BY <1>4 DEF PinRefused, panels, Still, log, GuardTypes, PanelTypes, Panels
<1>5. CASE lockPinGuardSession
  BY <1>5 DEF lockPinGuardSession, panels, Still, log, GuardTypes, PanelTypes, Panels
<1>6. CASE LogoutAnswered
  BY <1>6 DEF LogoutAnswered, Locked, CloseBoth, closeContainersShellSession, closeContainersLogsSession, Still, GuardTypes, PanelTypes, Panels, Closing
<1>7. ASSUME NEW t \in Tokens, PinAccepted(t) PROVE AttemptInv'
  BY <1>7 DEF PinAccepted, Unlocked, resolvePinUnlock, panels, Still, log, GuardTypes, PanelTypes, Panels
<1>8. ASSUME NEW t \in Tokens, SessionEnds(t) PROVE AttemptInv'
  BY <1>8 DEF SessionEnds, panels, Still, log, GuardTypes, PanelTypes, Panels
<1>9. ASSUME NEW c \in Calls, fetchJSON(c) PROVE AttemptInv'
  BY <1>9 DEF fetchJSON, panels, Still, log, GuardTypes, PanelTypes, Panels
<1>10. ASSUME NEW c \in Calls, Served(c) PROVE AttemptInv'
  BY <1>10 DEF Served, panels, Still, log, GuardTypes, PanelTypes, Panels
<1>11. ASSUME NEW c \in Calls, Denied(c) PROVE AttemptInv'
  BY <1>11 DEF Denied, activatePinGuardLock, Locked, CloseBoth, closeContainersShellSession, closeContainersLogsSession, panels, Still, log, GuardTypes, PanelTypes, Panels, Closing
<1>12. ASSUME NEW c \in Calls, Answered(c) PROVE AttemptInv'
  BY <1>12 DEF Answered, panels, Still, log, GuardTypes, PanelTypes, Panels
<1>13. ASSUME NEW list \in SUBSET Containers, renderContainers(list) PROVE AttemptInv'
  BY <1>13 DEF renderContainers, renderLists, Missing, closeContainersShellSession, closeContainersLogsSession, pin, GuardTypes, PanelTypes, Panels, Closing
<1>14. CASE clearContainersTable
  BY <1>14 DEF clearContainersTable, pin, panels, log, GuardTypes, PanelTypes, Panels
<1>15. CASE LeaveContainers
  BY <1>15 DEF LeaveContainers, User, CloseBoth, closeContainersShellSession, closeContainersLogsSession, pin, GuardTypes, PanelTypes, Panels, Closing
<1>16. ASSUME NEW next \in Panels \cup {"table"}, setContainersViewMode(next) PROVE AttemptInv'
  BY <1>16 DEF setContainersViewMode, ModeCloses, Reselected, User, closeContainersShellSession, closeContainersLogsSession, pin, GuardTypes, PanelTypes, Panels, Closing
<1>17. ASSUME NEW next \in Panels \cup {"table"}, EnterContainers(next) PROVE AttemptInv'
  BY <1>17 DEF EnterContainers, ModeCloses, User, closeContainersShellSession, closeContainersLogsSession, pin, GuardTypes, PanelTypes, Panels, Closing
<1>18. CASE setContainersLogsPaused
  BY <1>18 DEF setContainersLogsPaused, pin, GuardTypes, PanelTypes, Panels
<1>19. CASE resetContainersLogsBuffer
  BY <1>19 DEF resetContainersLogsBuffer, pin, GuardTypes, PanelTypes, Panels
<1>20. ASSUME NEW c \in Containers, ContainerNotRunning(c) PROVE AttemptInv'
  BY <1>20 DEF ContainerNotRunning, User, closeContainersShellSession, pin, log, GuardTypes, PanelTypes, Panels, Closing
<1>21. ASSUME NEW i \in Sockets, NEW c \in Containers, openContainersShell(i, c) PROVE AttemptInv'
  BY <1>21 DEF openContainersShell, User, Asks, pin, log, GuardTypes, PanelTypes, Panels
<1>22. ASSUME NEW i \in Sockets, NEW c \in Containers, openContainersLogs(i, c) PROVE AttemptInv'
  BY <1>22 DEF openContainersLogs, User, Asks, pin, GuardTypes, PanelTypes, Panels
<1>23. ASSUME NEW i \in Sockets, TicketGranted(i) PROVE AttemptInv'
  BY <1>23 DEF TicketGranted, Wanted, pin, log, GuardTypes, PanelTypes, Panels
<1>24. ASSUME NEW i \in Sockets, TicketDenied(i) PROVE AttemptInv'
  BY <1>24 DEF TicketDenied, closeContainersShellSession, closeContainersLogsSession, Still, GuardTypes, PanelTypes, Panels
<1>25. ASSUME NEW i \in Sockets, TicketFails(i) PROVE AttemptInv'
  BY <1>25 DEF TicketFails, closeContainersShellSession, pin, log, GuardTypes, PanelTypes, Panels
<1>26. ASSUME NEW i \in Sockets, SocketOpen(i) PROVE AttemptInv'
  BY <1>26 DEF SocketOpen, pin, GuardTypes, PanelTypes, Panels
<1>27. ASSUME NEW i \in Sockets, SocketMessage(i) PROVE AttemptInv'
  BY <1>27 DEF SocketMessage, appendContainersLogs, pin, GuardTypes, PanelTypes, Panels
<1>28. ASSUME NEW i \in Sockets, SocketClosed(i) PROVE AttemptInv'
  BY <1>28 DEF SocketClosed, appendContainersLogs, pin, GuardTypes, PanelTypes, Panels
<1>29. CASE UNCHANGED vars
  BY <1>29 DEF vars, pin, panels, GuardTypes, PanelTypes, Panels
<1> QED
  BY <1>1, <1>2, <1>3, <1>4, <1>5, <1>6, <1>7, <1>8, <1>9, <1>10, <1>11, <1>12, <1>13, <1>14, <1>15, <1>16, <1>17, <1>18, <1>19, <1>20, <1>21, <1>22, <1>23, <1>24, <1>25, <1>26, <1>27, <1>28, <1>29 DEF Next, PinStep, PanelStep, SocketStep

(* Closing the sessions of some panels leaves the others as they are: the   *)
(* sockets of two panels are two, since a session is of one panel.          *)
LEMMA ClosingOthers ==
    ASSUME PanelTypes, SocketInv, NEW ps \in SUBSET Panels, Closing(ps)
    PROVE  /\ \A p \in ps : attempt'[p] = None /\ socket'[p] = None
           /\ \A p \in Panels \ ps : attempt'[p] = attempt[p] /\ socket'[p] = socket[p]
           /\ \A p \in Panels \ ps : socket[p] # None => session'[socket[p]] = session[socket[p]]
<1>1. \A p \in Panels : p \in ps => attempt'[p] = None /\ socket'[p] = None
  BY DEF Closing
<1>2. \A p \in Panels : p \notin ps => attempt'[p] = attempt[p] /\ socket'[p] = socket[p]
  BY DEF Closing
<1>3. ASSUME NEW p \in Panels, p \notin ps, socket[p] # None PROVE session'[socket[p]] = session[socket[p]]
  <2>1. socket[p] \in Sockets
    BY <1>3 DEF PanelTypes
  <2>2. ~\E q \in ps : socket[q] = socket[p]
    BY <1>3 DEF SocketInv
  <2> QED
    BY <2>1, <2>2 DEF Closing
<1> QED
  BY <1>1, <1>2, <1>3

(* Closing a panel closes the socket it knows, and there is no other. *)
LEMMA ClosingLeavesNone ==
    ASSUME PanelTypes, SocketInv, NoSocketLeftBehind, NEW ps \in SUBSET Panels, Closing(ps)
    PROVE  NoSocketLeftBehind'
<1> SUFFICES ASSUME NEW i \in Sockets, session'[i].state \in Live PROVE socket'[session'[i].panel] = i
  BY DEF NoSocketLeftBehind
<1>1. session'[i] = session[i] /\ \A p \in ps : socket[p] # i
  BY ClosedType DEF Closing, PanelTypes
<1>2. socket[session[i].panel] = i /\ session[i].panel \in Panels
  BY <1>1 DEF NoSocketLeftBehind, PanelTypes, Session
<1> QED
  BY <1>1, <1>2, ClosingOthers

(* No step opens a socket that its panel does not know. *)
LEMMA LeftBehindStep == NoSocketLeftBehind /\ SocketInv /\ TypeOK /\ [Next]_vars => NoSocketLeftBehind'
<1> SUFFICES ASSUME NoSocketLeftBehind, SocketInv, TypeOK, [Next]_vars PROVE NoSocketLeftBehind'
  OBVIOUS
<1> USE TypeParts
<1>1. CASE QuietPin
  BY <1>1, QuietPinFrame DEF panels, log, NoSocketLeftBehind, PanelTypes, Panels, Session, Live
<1>2. CASE LogoutAnswered
  BY <1>2, ClosingLeavesNone DEF LogoutAnswered, Locked, CloseBoth, closeContainersShellSession, closeContainersLogsSession, Still, NoSocketLeftBehind, PanelTypes, Panels, Session, Live
<1>3. ASSUME NEW c \in Calls, Denied(c) PROVE NoSocketLeftBehind'
  BY <1>3, ClosingLeavesNone DEF Denied, activatePinGuardLock, Locked, CloseBoth, closeContainersShellSession, closeContainersLogsSession, panels, Still, log, NoSocketLeftBehind, PanelTypes, Panels, Session, Live
<1>4. ASSUME NEW list \in SUBSET Containers, renderContainers(list) PROVE NoSocketLeftBehind'
  BY <1>4, ClosingLeavesNone DEF renderContainers, renderLists, Missing, closeContainersShellSession, closeContainersLogsSession, pin, NoSocketLeftBehind, PanelTypes, Panels, Session, Live
<1>5. CASE clearContainersTable
  BY <1>5 DEF clearContainersTable, pin, panels, log, NoSocketLeftBehind, PanelTypes, Panels, Session, Live
<1>6. CASE LeaveContainers
  BY <1>6, ClosingLeavesNone DEF LeaveContainers, User, CloseBoth, closeContainersShellSession, closeContainersLogsSession, pin, NoSocketLeftBehind, PanelTypes, Panels, Session, Live
<1>7. ASSUME NEW next \in Panels \cup {"table"}, setContainersViewMode(next) PROVE NoSocketLeftBehind'
  BY <1>7, ClosingLeavesNone DEF setContainersViewMode, ModeCloses, Reselected, User, closeContainersShellSession, closeContainersLogsSession, pin, NoSocketLeftBehind, PanelTypes, Panels, Session, Live
<1>8. ASSUME NEW next \in Panels \cup {"table"}, EnterContainers(next) PROVE NoSocketLeftBehind'
  BY <1>8, ClosingLeavesNone DEF EnterContainers, ModeCloses, User, closeContainersShellSession, closeContainersLogsSession, pin, NoSocketLeftBehind, PanelTypes, Panels, Session, Live
<1>9. CASE setContainersLogsPaused
  BY <1>9 DEF setContainersLogsPaused, pin, NoSocketLeftBehind, PanelTypes, Panels, Session, Live
<1>10. CASE resetContainersLogsBuffer
  BY <1>10 DEF resetContainersLogsBuffer, pin, NoSocketLeftBehind, PanelTypes, Panels, Session, Live
<1>11. ASSUME NEW c \in Containers, ContainerNotRunning(c) PROVE NoSocketLeftBehind'
  BY <1>11, ClosingLeavesNone DEF ContainerNotRunning, User, closeContainersShellSession, pin, log, NoSocketLeftBehind, PanelTypes, Panels, Session, Live
<1>12. ASSUME NEW i \in Sockets, NEW c \in Containers, openContainersShell(i, c) PROVE NoSocketLeftBehind'
  BY <1>12, NoneApart, ClosedType DEF openContainersShell, User, Asks, pin, log, NoSocketLeftBehind, PanelTypes, Panels, Session, Live, SocketInv, Free
<1>13. ASSUME NEW i \in Sockets, NEW c \in Containers, openContainersLogs(i, c) PROVE NoSocketLeftBehind'
  BY <1>13, NoneApart, ClosedType DEF openContainersLogs, User, Asks, pin, NoSocketLeftBehind, PanelTypes, Panels, Session, Live, SocketInv, Free
<1>14. ASSUME NEW i \in Sockets, TicketGranted(i) PROVE NoSocketLeftBehind'
  BY <1>14, NoneApart DEF TicketGranted, Wanted, pin, log, NoSocketLeftBehind, PanelTypes, Panels, Session, Live, SocketInv, Free
<1>15. ASSUME NEW i \in Sockets, TicketDenied(i) PROVE NoSocketLeftBehind'
  BY <1>15, NoneApart, ClosedType DEF TicketDenied, closeContainersShellSession, closeContainersLogsSession, Still, NoSocketLeftBehind, PanelTypes, Panels, Session, Live, SocketInv, Free
<1>16. ASSUME NEW i \in Sockets, TicketFails(i) PROVE NoSocketLeftBehind'
  BY <1>16, NoneApart DEF TicketFails, closeContainersShellSession, pin, log, NoSocketLeftBehind, PanelTypes, Panels, Session, Live, SocketInv, Free
<1>17. ASSUME NEW i \in Sockets, SocketOpen(i) PROVE NoSocketLeftBehind'
  BY <1>17 DEF SocketOpen, pin, NoSocketLeftBehind, PanelTypes, Panels, Session, Live
<1>18. ASSUME NEW i \in Sockets, SocketMessage(i) PROVE NoSocketLeftBehind'
  BY <1>18 DEF SocketMessage, appendContainersLogs, pin, NoSocketLeftBehind, PanelTypes, Panels, Session, Live
<1>19. ASSUME NEW i \in Sockets, SocketClosed(i) PROVE NoSocketLeftBehind'
  BY <1>19 DEF SocketClosed, Free, NoSocketLeftBehind, PanelTypes, Panels, Session, Live
<1>20. CASE UNCHANGED vars
  BY <1>20 DEF vars, panels, log, NoSocketLeftBehind, PanelTypes, Panels, Session, Live
<1> QED
  BY <1>1, <1>2, <1>3, <1>4, <1>5, <1>6, <1>7, <1>8, <1>9, <1>10, <1>11, <1>12, <1>13, <1>14, <1>15, <1>16, <1>17, <1>18, <1>19, <1>20 DEF Next, PinStep, PanelStep, SocketStep, QuietPin

(* The socket of a panel stays that of its present attempt. *)
LEMMA SocketStepInv == SocketInv /\ AttemptInv /\ SelectionInv /\ TypeOK /\ [Next]_vars => SocketInv'
<1> SUFFICES ASSUME SocketInv, AttemptInv, SelectionInv, TypeOK, [Next]_vars PROVE SocketInv'
  OBVIOUS
<1> USE TypeParts
<1>1. CASE QuietPin
  BY <1>1, QuietPinFrame DEF panels, log, SocketInv, PanelTypes, Panels, Session, Live
<1>2. CASE LogoutAnswered
  BY <1>2, ClosingOthers DEF LogoutAnswered, Locked, CloseBoth, closeContainersShellSession, closeContainersLogsSession, Still, SocketInv, PanelTypes, Panels, Session, Live
<1>3. ASSUME NEW c \in Calls, Denied(c) PROVE SocketInv'
  BY <1>3, ClosingOthers DEF Denied, activatePinGuardLock, Locked, CloseBoth, closeContainersShellSession, closeContainersLogsSession, panels, Still, log, SocketInv, PanelTypes, Panels, Session, Live
<1>4. ASSUME NEW list \in SUBSET Containers, renderContainers(list) PROVE SocketInv'
  BY <1>4, ClosingOthers DEF renderContainers, renderLists, Missing, closeContainersShellSession, closeContainersLogsSession, pin, SocketInv, PanelTypes, Panels, Session, Live
<1>5. CASE clearContainersTable
  BY <1>5 DEF clearContainersTable, pin, panels, log, SocketInv, PanelTypes, Panels, Session, Live
<1>6. CASE LeaveContainers
  BY <1>6, ClosingOthers DEF LeaveContainers, User, CloseBoth, closeContainersShellSession, closeContainersLogsSession, pin, SocketInv, PanelTypes, Panels, Session, Live
<1>7. ASSUME NEW next \in Panels \cup {"table"}, setContainersViewMode(next) PROVE SocketInv'
  <2>1. CASE next = "shell"
    <3>1. socket'["logs"] = None
      BY <1>7, <2>1, ClosingOthers DEF setContainersViewMode, ModeCloses, Panels
    <3>2. CASE socket["shell"] = None
      BY <1>7, <2>1, <3>1, <3>2, ClosingOthers DEF setContainersViewMode, ModeCloses, SocketInv, Panels
    <3>3. CASE socket["shell"] # None
      <4>1. mode = "shell"
        BY <3>3, NoneApart DEF SocketInv, AttemptInv, Panels
      <4>2. selected'["shell"] = selected["shell"]
        BY <1>7, <4>1 DEF setContainersViewMode, Reselected, SelectionInv, Panels, PanelTypes
      <4>3. /\ attempt'["shell"] = attempt["shell"] /\ socket'["shell"] = socket["shell"]
            /\ session'[socket["shell"]] = session[socket["shell"]]
        BY <1>7, <2>1, <3>3, ClosingOthers DEF setContainersViewMode, ModeCloses, Panels
      <4> QED
        BY <3>1, <3>3, <4>2, <4>3 DEF SocketInv, Panels
    <3> QED
      BY <3>2, <3>3
  <2>2. CASE next # "shell"
    <3>1. \A p \in Panels : socket'[p] = None
      BY <1>7, <2>2, ClosingOthers DEF setContainersViewMode, ModeCloses
    <3> QED
      BY <3>1 DEF SocketInv
  <2> QED
    BY <2>1, <2>2
<1>8. ASSUME NEW next \in Panels \cup {"table"}, EnterContainers(next) PROVE SocketInv'
  <2>1. CASE next = "shell"
    <3>1. attempt["shell"] = None /\ socket["shell"] = None
      BY <1>8 DEF EnterContainers, AttemptInv, SocketInv, Panels
    <3>2. socket'["shell"] = None /\ socket'["logs"] = None
      BY <1>8, <2>1, <3>1, ClosingOthers DEF EnterContainers, ModeCloses, Panels
    <3> QED
      BY <3>2 DEF SocketInv, Panels
  <2>2. CASE next # "shell"
    <3>1. \A p \in Panels : socket'[p] = None
      BY <1>8, <2>2, ClosingOthers DEF EnterContainers, ModeCloses
    <3> QED
      BY <3>1 DEF SocketInv
  <2> QED
    BY <2>1, <2>2
<1>9. CASE setContainersLogsPaused
  BY <1>9 DEF setContainersLogsPaused, pin, SocketInv, PanelTypes, Panels, Session, Live
<1>10. CASE resetContainersLogsBuffer
  BY <1>10 DEF resetContainersLogsBuffer, pin, SocketInv, PanelTypes, Panels, Session, Live
<1>11. ASSUME NEW c \in Containers, ContainerNotRunning(c) PROVE SocketInv'
  BY <1>11, ClosingOthers DEF ContainerNotRunning, User, closeContainersShellSession, pin, log, SocketInv, PanelTypes, Panels, Session, Live
<1>12. ASSUME NEW i \in Sockets, NEW c \in Containers, openContainersShell(i, c) PROVE SocketInv'
  BY <1>12, NoneApart DEF openContainersShell, User, Asks, pin, log, SocketInv, PanelTypes, Panels, Session, Live, Free
<1>13. ASSUME NEW i \in Sockets, NEW c \in Containers, openContainersLogs(i, c) PROVE SocketInv'
  BY <1>13, NoneApart DEF openContainersLogs, User, Asks, pin, SocketInv, PanelTypes, Panels, Session, Live, Free
<1>14. ASSUME NEW i \in Sockets, TicketGranted(i) PROVE SocketInv'
  BY <1>14, NoneApart DEF TicketGranted, Wanted, pin, log, SocketInv, PanelTypes, Panels, Session, Live, Free
<1>15. ASSUME NEW i \in Sockets, TicketDenied(i) PROVE SocketInv'
  BY <1>15, NoneApart DEF TicketDenied, closeContainersShellSession, closeContainersLogsSession, Still, SocketInv, PanelTypes, Panels, Session, Live, Free
<1>16. ASSUME NEW i \in Sockets, TicketFails(i) PROVE SocketInv'
  BY <1>16, NoneApart DEF TicketFails, closeContainersShellSession, pin, log, SocketInv, PanelTypes, Panels, Session, Live, Free
<1>17. ASSUME NEW i \in Sockets, SocketOpen(i) PROVE SocketInv'
  BY <1>17 DEF SocketOpen, pin, SocketInv, PanelTypes, Panels, Session, Live
<1>18. ASSUME NEW i \in Sockets, SocketMessage(i) PROVE SocketInv'
  BY <1>18 DEF SocketMessage, appendContainersLogs, pin, SocketInv, PanelTypes, Panels, Session, Live
<1>19. ASSUME NEW i \in Sockets, SocketClosed(i) PROVE SocketInv'
  BY <1>19 DEF SocketClosed, appendContainersLogs, pin, SocketInv, PanelTypes, Panels, Session, Live
<1>20. CASE UNCHANGED vars
  BY <1>20 DEF vars, panels, log, SocketInv, PanelTypes, Panels, Session, Live
<1> QED
  BY <1>1, <1>2, <1>3, <1>4, <1>5, <1>6, <1>7, <1>8, <1>9, <1>10, <1>11, <1>12, <1>13, <1>14, <1>15, <1>16, <1>17, <1>18, <1>19, <1>20 DEF Next, PinStep, PanelStep, SocketStep, QuietPin

(* A selection goes with its list. *)
LEMMA SelectionStep == SelectionInv /\ TypeOK /\ [Next]_vars => SelectionInv'
<1> SUFFICES ASSUME SelectionInv, TypeOK, [Next]_vars PROVE SelectionInv'
  OBVIOUS
<1> USE TypeParts
<1>1. CASE QuietPin
  BY <1>1, QuietPinFrame DEF panels, log, SelectionInv, PanelTypes, Panels
<1>2. CASE LogoutAnswered
  BY <1>2 DEF LogoutAnswered, Locked, CloseBoth, closeContainersShellSession, closeContainersLogsSession, Still, SelectionInv, PanelTypes, Panels
<1>3. ASSUME NEW c \in Calls, Denied(c) PROVE SelectionInv'
  BY <1>3 DEF Denied, activatePinGuardLock, Locked, CloseBoth, closeContainersShellSession, closeContainersLogsSession, panels, Still, log, SelectionInv, PanelTypes, Panels
<1>4. ASSUME NEW list \in SUBSET Containers, renderContainers(list) PROVE SelectionInv'
  BY <1>4 DEF renderContainers, renderLists, Missing, closeContainersShellSession, closeContainersLogsSession, pin, SelectionInv, PanelTypes, Panels
<1>5. CASE clearContainersTable
  BY <1>5 DEF clearContainersTable, pin, panels, log, SelectionInv, PanelTypes, Panels
<1>6. CASE LeaveContainers
  BY <1>6 DEF LeaveContainers, User, CloseBoth, closeContainersShellSession, closeContainersLogsSession, pin, SelectionInv, PanelTypes, Panels
<1>7. ASSUME NEW next \in Panels \cup {"table"}, setContainersViewMode(next) PROVE SelectionInv'
  BY <1>7 DEF setContainersViewMode, ModeCloses, Reselected, User, closeContainersShellSession, closeContainersLogsSession, pin, SelectionInv, PanelTypes, Panels
<1>8. ASSUME NEW next \in Panels \cup {"table"}, EnterContainers(next) PROVE SelectionInv'
  BY <1>8 DEF EnterContainers, ModeCloses, User, closeContainersShellSession, closeContainersLogsSession, pin, SelectionInv, PanelTypes, Panels
<1>9. CASE setContainersLogsPaused
  BY <1>9 DEF setContainersLogsPaused, pin, SelectionInv, PanelTypes, Panels
<1>10. CASE resetContainersLogsBuffer
  BY <1>10 DEF resetContainersLogsBuffer, pin, SelectionInv, PanelTypes, Panels
<1>11. ASSUME NEW c \in Containers, ContainerNotRunning(c) PROVE SelectionInv'
  BY <1>11 DEF ContainerNotRunning, User, closeContainersShellSession, pin, log, SelectionInv, PanelTypes, Panels
<1>12. ASSUME NEW i \in Sockets, NEW c \in Containers, openContainersShell(i, c) PROVE SelectionInv'
  BY <1>12 DEF openContainersShell, User, Asks, pin, log, SelectionInv, PanelTypes, Panels
<1>13. ASSUME NEW i \in Sockets, NEW c \in Containers, openContainersLogs(i, c) PROVE SelectionInv'
  BY <1>13 DEF openContainersLogs, User, Asks, pin, SelectionInv, PanelTypes, Panels
<1>14. ASSUME NEW i \in Sockets, TicketGranted(i) PROVE SelectionInv'
  BY <1>14 DEF TicketGranted, Wanted, pin, log, SelectionInv, PanelTypes, Panels
<1>15. ASSUME NEW i \in Sockets, TicketDenied(i) PROVE SelectionInv'
  BY <1>15 DEF TicketDenied, closeContainersShellSession, closeContainersLogsSession, Still, SelectionInv, PanelTypes, Panels
<1>16. ASSUME NEW i \in Sockets, TicketFails(i) PROVE SelectionInv'
  BY <1>16 DEF TicketFails, closeContainersShellSession, pin, log, SelectionInv, PanelTypes, Panels
<1>17. ASSUME NEW i \in Sockets, SocketOpen(i) PROVE SelectionInv'
  BY <1>17 DEF SocketOpen, pin, SelectionInv, PanelTypes, Panels
<1>18. ASSUME NEW i \in Sockets, SocketMessage(i) PROVE SelectionInv'
  BY <1>18 DEF SocketMessage, appendContainersLogs, pin, SelectionInv, PanelTypes, Panels
<1>19. ASSUME NEW i \in Sockets, SocketClosed(i) PROVE SelectionInv'
  BY <1>19 DEF SocketClosed, appendContainersLogs, pin, SelectionInv, PanelTypes, Panels
<1>20. CASE UNCHANGED vars
  BY <1>20 DEF vars, panels, log, SelectionInv, PanelTypes, Panels
<1> QED
  BY <1>1, <1>2, <1>3, <1>4, <1>5, <1>6, <1>7, <1>8, <1>9, <1>10, <1>11, <1>12, <1>13, <1>14, <1>15, <1>16, <1>17, <1>18, <1>19, <1>20 DEF Next, PinStep, PanelStep, SocketStep, QuietPin

(* A terminal that leaves the screen is cleared. *)
LEMMA TermStep == TermInv /\ SocketInv /\ AttemptInv /\ TypeOK /\ [Next]_vars => TermInv'
<1> SUFFICES ASSUME TermInv, SocketInv, AttemptInv, TypeOK, [Next]_vars PROVE TermInv'
  OBVIOUS
<1> USE TypeParts
<1>1. CASE QuietPin
  BY <1>1, QuietPinFrame DEF panels, log, TermInv, PanelTypes, Panels
<1>2. CASE LogoutAnswered
  BY <1>2 DEF LogoutAnswered, Locked, CloseBoth, closeContainersShellSession, closeContainersLogsSession, Still, TermInv, PanelTypes, Panels
<1>3. ASSUME NEW c \in Calls, Denied(c) PROVE TermInv'
  BY <1>3 DEF Denied, activatePinGuardLock, Locked, CloseBoth, closeContainersShellSession, closeContainersLogsSession, panels, Still, log, TermInv, PanelTypes, Panels
<1>4. ASSUME NEW list \in SUBSET Containers, renderContainers(list) PROVE TermInv'
  BY <1>4 DEF renderContainers, renderLists, Missing, closeContainersShellSession, closeContainersLogsSession, pin, TermInv, PanelTypes, Panels
<1>5. CASE clearContainersTable
  BY <1>5 DEF clearContainersTable, pin, panels, log, TermInv, PanelTypes, Panels
<1>6. CASE LeaveContainers
  BY <1>6 DEF LeaveContainers, User, CloseBoth, closeContainersShellSession, closeContainersLogsSession, pin, TermInv, PanelTypes, Panels
<1>7. ASSUME NEW next \in Panels \cup {"table"}, setContainersViewMode(next) PROVE TermInv'
  BY <1>7 DEF setContainersViewMode, ModeCloses, Reselected, User, closeContainersShellSession, closeContainersLogsSession, pin, TermInv, PanelTypes, Panels
<1>8. ASSUME NEW next \in Panels \cup {"table"}, EnterContainers(next) PROVE TermInv'
  BY <1>8 DEF EnterContainers, ModeCloses, User, closeContainersShellSession, closeContainersLogsSession, pin, TermInv, PanelTypes, Panels
<1>9. CASE setContainersLogsPaused
  BY <1>9 DEF setContainersLogsPaused, pin, TermInv, PanelTypes, Panels
<1>10. CASE resetContainersLogsBuffer
  BY <1>10 DEF resetContainersLogsBuffer, pin, TermInv, PanelTypes, Panels
<1>11. ASSUME NEW c \in Containers, ContainerNotRunning(c) PROVE TermInv'
  BY <1>11 DEF ContainerNotRunning, User, closeContainersShellSession, pin, log, TermInv, PanelTypes, Panels
<1>12. ASSUME NEW i \in Sockets, NEW c \in Containers, openContainersShell(i, c) PROVE TermInv'
  BY <1>12 DEF openContainersShell, User, Asks, pin, log, TermInv, PanelTypes, Panels
<1>13. ASSUME NEW i \in Sockets, NEW c \in Containers, openContainersLogs(i, c) PROVE TermInv'
  BY <1>13 DEF openContainersLogs, User, Asks, pin, TermInv, PanelTypes, Panels
<1>14. ASSUME NEW i \in Sockets, TicketGranted(i) PROVE TermInv'
  BY <1>14 DEF TicketGranted, Wanted, pin, log, TermInv, PanelTypes, Panels
<1>15. ASSUME NEW i \in Sockets, TicketDenied(i) PROVE TermInv'
  BY <1>15 DEF TicketDenied, closeContainersShellSession, closeContainersLogsSession, Still, TermInv, PanelTypes, Panels
<1>16. ASSUME NEW i \in Sockets, TicketFails(i) PROVE TermInv'
  BY <1>16 DEF TicketFails, closeContainersShellSession, pin, log, TermInv, PanelTypes, Panels
<1>17. ASSUME NEW i \in Sockets, SocketOpen(i) PROVE TermInv'
  BY <1>17 DEF SocketOpen, pin, TermInv, PanelTypes, Panels
<1>18. ASSUME NEW i \in Sockets, SocketMessage(i) PROVE TermInv'
  BY <1>18, NoneApart DEF SocketMessage, Heard, WriteShell, appendContainersLogs, pin, TermInv, PanelTypes, Panels, SocketInv, AttemptInv
<1>19. ASSUME NEW i \in Sockets, SocketClosed(i) PROVE TermInv'
  BY <1>19, NoneApart DEF SocketClosed, Heard, WriteShell, pin, TermInv, PanelTypes, Panels, SocketInv, AttemptInv
<1>20. CASE UNCHANGED vars
  BY <1>20 DEF vars, panels, log, TermInv, PanelTypes, Panels
<1> QED
  BY <1>1, <1>2, <1>3, <1>4, <1>5, <1>6, <1>7, <1>8, <1>9, <1>10, <1>11, <1>12, <1>13, <1>14, <1>15, <1>16, <1>17, <1>18, <1>19, <1>20 DEF Next, PinStep, PanelStep, SocketStep, QuietPin

(* No step adds text of a container that is not selected. *)
LEMMA TextStep == TextOfSelection /\ TermInv /\ SelectionInv /\ SocketInv /\ TypeOK /\ [Next]_vars => TextOfSelection'
<1> SUFFICES ASSUME TextOfSelection, TermInv, SelectionInv, SocketInv, TypeOK, [Next]_vars PROVE TextOfSelection'
  OBVIOUS
<1> USE TypeParts, NoneApart
<1>1. CASE QuietPin
  BY <1>1, QuietPinFrame DEF panels, log, TextOfSelection, PanelTypes, Panels
<1>2. CASE LogoutAnswered
  BY <1>2 DEF LogoutAnswered, Locked, CloseBoth, closeContainersShellSession, closeContainersLogsSession, Still, TextOfSelection, PanelTypes, Panels
<1>3. ASSUME NEW c \in Calls, Denied(c) PROVE TextOfSelection'
  BY <1>3 DEF Denied, activatePinGuardLock, Locked, CloseBoth, closeContainersShellSession, closeContainersLogsSession, panels, Still, log, TextOfSelection, PanelTypes, Panels
<1>4. ASSUME NEW list \in SUBSET Containers, renderContainers(list) PROVE TextOfSelection'
  BY <1>4 DEF renderContainers, renderLists, Missing, closeContainersShellSession, closeContainersLogsSession, pin, TextOfSelection, PanelTypes, Panels
<1>5. CASE clearContainersTable
  BY <1>5 DEF clearContainersTable, pin, panels, log, TextOfSelection, PanelTypes, Panels
<1>6. CASE LeaveContainers
  BY <1>6 DEF LeaveContainers, User, CloseBoth, closeContainersShellSession, closeContainersLogsSession, pin, TextOfSelection, PanelTypes, Panels
<1>7. ASSUME NEW next \in Panels \cup {"table"}, setContainersViewMode(next) PROVE TextOfSelection'
  BY <1>7 DEF setContainersViewMode, ModeCloses, Reselected, User, closeContainersShellSession, closeContainersLogsSession, pin, TextOfSelection, PanelTypes, Panels, TermInv, SelectionInv, TextTypes
<1>8. ASSUME NEW next \in Panels \cup {"table"}, EnterContainers(next) PROVE TextOfSelection'
  BY <1>8 DEF EnterContainers, ModeCloses, User, closeContainersShellSession, closeContainersLogsSession, pin, TextOfSelection, PanelTypes, Panels, TermInv
<1>9. CASE setContainersLogsPaused
  BY <1>9 DEF setContainersLogsPaused, pin, TextOfSelection, PanelTypes, Panels
<1>10. CASE resetContainersLogsBuffer
  BY <1>10 DEF resetContainersLogsBuffer, pin, TextOfSelection, PanelTypes, Panels
<1>11. ASSUME NEW c \in Containers, ContainerNotRunning(c) PROVE TextOfSelection'
  BY <1>11 DEF ContainerNotRunning, User, closeContainersShellSession, pin, log, TextOfSelection, PanelTypes, Panels
<1>12. ASSUME NEW i \in Sockets, NEW c \in Containers, openContainersShell(i, c) PROVE TextOfSelection'
  BY <1>12 DEF openContainersShell, User, Asks, pin, log, TextOfSelection, PanelTypes, Panels
<1>13. ASSUME NEW i \in Sockets, NEW c \in Containers, openContainersLogs(i, c) PROVE TextOfSelection'
  BY <1>13 DEF openContainersLogs, User, Asks, pin, TextOfSelection, PanelTypes, Panels
<1>14. ASSUME NEW i \in Sockets, TicketGranted(i) PROVE TextOfSelection'
  BY <1>14 DEF TicketGranted, Wanted, pin, log, TextOfSelection, PanelTypes, Panels
<1>15. ASSUME NEW i \in Sockets, TicketDenied(i) PROVE TextOfSelection'
  BY <1>15 DEF TicketDenied, closeContainersShellSession, closeContainersLogsSession, Still, TextOfSelection, PanelTypes, Panels
<1>16. ASSUME NEW i \in Sockets, TicketFails(i) PROVE TextOfSelection'
  BY <1>16 DEF TicketFails, closeContainersShellSession, pin, log, TextOfSelection, PanelTypes, Panels
<1>17. ASSUME NEW i \in Sockets, SocketOpen(i) PROVE TextOfSelection'
  BY <1>17 DEF SocketOpen, pin, TextOfSelection, PanelTypes, Panels
<1>18. ASSUME NEW i \in Sockets, SocketMessage(i) PROVE TextOfSelection'
  BY <1>18 DEF SocketMessage, Heard, WriteShell, appendContainersLogs, pin, TextOfSelection, PanelTypes, Panels, SocketInv
<1>19. ASSUME NEW i \in Sockets, SocketClosed(i) PROVE TextOfSelection'
  BY <1>19 DEF SocketClosed, Heard, WriteShell, appendContainersLogs, pin, TextOfSelection, PanelTypes, Panels, SocketInv
<1>20. CASE UNCHANGED vars
  BY <1>20 DEF vars, panels, log, TextOfSelection, PanelTypes, Panels
<1> QED
  BY <1>1, <1>2, <1>3, <1>4, <1>5, <1>6, <1>7, <1>8, <1>9, <1>10, <1>11, <1>12, <1>13, <1>14, <1>15, <1>16, <1>17, <1>18, <1>19, <1>20 DEF Next, PinStep, PanelStep, SocketStep, QuietPin

-----------------------------------------------------------------------------
(* The theorems *)

(* The page is loaded in the invariant. *)
LEMMA IndInit == Init => IndInv
<1> SUFFICES ASSUME Init PROVE IndInv
  OBVIOUS
<1>1. GuardTypes /\ CallTypes
  BY DEF Init, GuardTypes, CallTypes
<1>2. PanelTypes /\ TextTypes
  BY FreeType DEF Init, PanelTypes, TextTypes, Panels
<1>3. SessionInv /\ NoSocketLeftBehind
  BY DEF Init, SessionInv, NoSocketLeftBehind, Free, Live
<1>4. GuardInv /\ AttemptInv /\ SocketInv /\ SelectionInv /\ TermInv /\ TextOfSelection
  BY DEF Init, GuardInv, AttemptInv, SocketInv, SelectionInv, TermInv, TextOfSelection
<1> QED
  BY <1>1, <1>2, <1>3, <1>4, TypeParts DEF IndInv, PanelInv

(* Every step keeps the types. *)
LEMMA TypeStep == TypeOK /\ SessionInv /\ [Next]_vars => TypeOK' /\ SessionInv'
<1> SUFFICES ASSUME TypeOK, SessionInv, [Next]_vars PROVE TypeOK' /\ SessionInv'
  OBVIOUS
<1>1. GuardTypes' /\ CallTypes' /\ PanelTypes' /\ TextTypes' /\ SessionInv'
  BY TypeParts, GuardTypesStep, CallTypesStep, PanelTypesStep, TextTypesStep, SessionStep
<1> QED
  BY <1>1 DEF TypeOK, GuardTypes, CallTypes, PanelTypes, TextTypes, Session

(* Every step keeps the invariant. *)
LEMMA IndStep == IndInv /\ [Next]_vars => IndInv'
  BY TypeParts, TypeStep, GuardStep, AttemptStep, SocketStepInv, SelectionStep, TermStep, LeftBehindStep, TextStep
  DEF IndInv, PanelInv

(* So it always holds. *)
LEMMA Inductive == Spec => []IndInv
  BY IndInit, IndStep, PTL DEF Spec

(* The state of the guard and of the panels is well typed. *)
THEOREM StreamsTypeCorrect == Spec => []TypeOK
<1>1. IndInv => TypeOK
  BY DEF IndInv
<1> QED
  BY <1>1, Inductive, PTL

(* No WebSocket goes on that its panel has forgotten, for any number of     *)
(* clicks that overtake the answers to the tickets before them.             *)
THEOREM NoSocketLeft == Spec => []NoSocketLeftBehind
<1>1. IndInv => NoSocketLeftBehind
  BY DEF IndInv, PanelInv
<1> QED
  BY <1>1, Inductive, PTL

(* What a panel is connected to is what is selected and on the screen.      *)
THEOREM SocketSelected == Spec => []SocketOfSelection
<1>1. IndInv => SocketOfSelection
  BY DEF IndInv, PanelInv, SocketInv, AttemptInv, SocketOfSelection
<1> QED
  BY <1>1, Inductive, PTL

(* No line of another container is ever shown or held back by a pause.      *)
THEOREM TextSelected == Spec => []TextOfSelection
<1>1. IndInv => TextOfSelection
  BY DEF IndInv, PanelInv
<1> QED
  BY <1>1, Inductive, PTL

(* A page that is locked has nothing connected, whichever tickets, calls    *)
(* and logouts are answered after it was locked.                            *)
THEOREM LockedIsQuiet == Spec => []LockedQuiet
<1>1. IndInv => LockedQuiet
  <2> SUFFICES ASSUME IndInv, ~pinGuardUnlocked, NEW i \in Sockets, session[i].state \in Live PROVE FALSE
    BY DEF LockedQuiet
  <2>1. session[i].panel \in Panels /\ socket[session[i].panel] = i
    BY TypeParts DEF IndInv, PanelInv, NoSocketLeftBehind, PanelTypes, Session
  <2>2. attempt[session[i].panel] = i
    BY <2>1, NoneApart DEF IndInv, PanelInv, SocketInv
  <2> QED
    BY <2>1, <2>2, NoneApart DEF IndInv, PanelInv, AttemptInv
<1> QED
  BY <1>1, Inductive, PTL

=============================================================================
