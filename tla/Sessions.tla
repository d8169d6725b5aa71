------------------------------ MODULE Sessions ------------------------------
(***************************************************************************)
(* PIN sessions, WebSocket tickets and the streams that live on them       *)
(* (internal/server/pin_guard.go, stream_security.go, ws_proxy.go,         *)
(* containers_logs.go, containers_shell.go and handleServersStream).       *)
(*                                                                         *)
(* A session is a token in pinSessions with a channel Done that is closed  *)
(* when the token is deleted.  A stream is admitted by a session or by a   *)
(* ticket, takes one of the streams the process allows (event streams do   *)
(* not), opens the client's connection and a source, and runs two pumps    *)
(* between them; a guard per connection closes it when the session is      *)
(* over.  Whether a PIN is right is a choice of the environment.           *)
(***************************************************************************)
EXTENDS Naturals, FiniteSets

CONSTANTS
    Tokens, Tickets,  \* session tokens and tickets, random and never reused
    Streams,          \* requests for a stream
    NoToken,
    MaxStreams,       \* maxContainerStreams
    IdleAge,          \* pinSessionIdleMaxAge
    TicketAge,        \* pinWebSocketTicketAge
    MaxTime           \* bound on time

ASSUME SessionConstants ==
    /\ IsFiniteSet(Streams) /\ NoToken \notin Tokens
    /\ MaxStreams \in Nat /\ IdleAge \in Nat /\ TicketAge \in Nat /\ MaxTime \in Nat

VARIABLES
    now,
    made,             \* tokens ever given out
    table, lastSeen,  \* pinSessions
    closed,           \* tokens whose Done is closed
    ticket,           \* state of every ticket
    owner, expires,   \* its session and its end
    admitted,         \* how many streams a ticket has admitted
    activeStreams,
    kind, token, pc,  \* what a stream is, its session and where its handler is
    conn, source,     \* the client's connection; log reader, exec or agent's connection
    watch, rwatch,    \* what the guards of the two connections wait for
    up, down          \* the pumps from client to source and back

session == <<made, table, lastSeen, closed>>
tickets == <<ticket, owner, expires, admitted>>
wires == <<conn, source, watch, rwatch, up, down>>
stream == <<kind, token, pc, activeStreams, wires>>
vars == <<now, session, tickets, stream>>

Kinds == {"logs", "shell", "remote", "events"}
Wire == {"none", "open", "closed"}
Guard == {"off", "session", "over", "never"}
(* Where the handler of a container stream holds one of MaxStreams. *)
Holding == {"reserved", "upgraded", "opening", "open", "closing"}

TypeOK ==
    /\ now \in 0..MaxTime
    /\ made \in SUBSET Tokens /\ table \in SUBSET made /\ closed \in SUBSET made
    /\ lastSeen \in [Tokens -> Nat]
    /\ ticket \in [Tickets -> {"new", "asked", "valid", "gone"}]
    /\ owner \in [Tickets -> Tokens \cup {NoToken}]
    /\ expires \in [Tickets -> Nat] /\ admitted \in [Tickets -> Nat]
    /\ activeStreams \in 0..MaxStreams
    /\ kind \in [Streams -> Kinds]
    /\ token \in [Streams -> Tokens \cup {NoToken}]
    /\ pc \in [Streams -> {"idle", "admitted", "done"} \cup Holding]
    /\ conn \in [Streams -> Wire] /\ source \in [Streams -> Wire]
    /\ watch \in [Streams -> Guard] /\ rwatch \in [Streams -> Guard]
    /\ up \in [Streams -> BOOLEAN] /\ down \in [Streams -> BOOLEAN]

Init ==
    /\ now = 0
    /\ made = {} /\ table = {} /\ closed = {} /\ lastSeen = [t \in Tokens |-> 0]
    /\ ticket = [k \in Tickets |-> "new"] /\ owner = [k \in Tickets |-> NoToken]
    /\ expires = [k \in Tickets |-> 0] /\ admitted = [k \in Tickets |-> 0]
    /\ activeStreams = 0
    /\ kind = [p \in Streams |-> "logs"] /\ token = [p \in Streams |-> NoToken]
    /\ pc = [p \in Streams |-> "idle"]
    /\ conn = [p \in Streams |-> "none"] /\ source = [p \in Streams |-> "none"]
    /\ watch = [p \in Streams |-> "off"] /\ rwatch = [p \in Streams |-> "off"]
    /\ up = [p \in Streams |-> FALSE] /\ down = [p \in Streams |-> FALSE]

Tick ==
    /\ now < MaxTime /\ now' = now + 1
    /\ UNCHANGED <<session, tickets, stream>>

-----------------------------------------------------------------------------
(* Sessions *)

Expired == {t \in table : now - lastSeen[t] > IdleAge}

(* What pruneExpiredPinSessionsLocked leaves and closes. *)
Kept == table \ Expired

(* Mutant: sessions are dropped without closing their channels. *)
ClosedByPruningForgets == closed
ClosedByPruning == closed \cup Expired

(* Tickets are looked at only if there are sessions. *)
PrunedTickets == {k \in Tickets : table # {} /\ ticket[k] = "valid" /\ expires[k] <= now}
Pruned(k) == IF k \in PrunedTickets THEN "gone" ELSE ticket[k]

(* handlePinVerify with the right PIN: createPinSession. *)
Verify(t) ==
    /\ t \notin made
    /\ made' = made \cup {t}
    /\ table' = Kept \cup {t} /\ closed' = ClosedByPruning
    /\ lastSeen' = [lastSeen EXCEPT ![t] = now]
    /\ ticket' = [k \in Tickets |-> Pruned(k)]
    /\ UNCHANGED <<now, owner, expires, admitted, stream>>

(* pinSessionAuthorized, on any request that names the token. *)
Authorized(t) ==
    /\ t \in made
    /\ table' = Kept /\ closed' = ClosedByPruning
    /\ lastSeen' = [lastSeen EXCEPT ![t] = IF t \in Kept THEN now ELSE @]
    /\ UNCHANGED made

Request(t) ==
    /\ Authorized(t)
    /\ ticket' = [k \in Tickets |-> Pruned(k)]
    /\ UNCHANGED <<now, owner, expires, admitted, stream>>

(* revokePinSession *)
Logout(t) ==
    /\ t \in made
    /\ closed' = closed \cup ({t} \cap table)
    /\ table' = table \ {t}
    /\ ticket' = [k \in Tickets |-> IF ticket[k] = "valid" /\ owner[k] = t THEN "gone" ELSE ticket[k]]
    /\ UNCHANGED <<now, made, lastSeen, owner, expires, admitted, stream>>

(* handlePinWebSocketTicket checks the session, and then, in a second       *)
(* critical section, creates the ticket: the session may be over by then.   *)
TicketAsked(k, t) ==
    /\ ticket[k] = "new"
    /\ Authorized(t) /\ t \in Kept
    /\ ticket' = [j \in Tickets |-> IF j = k THEN "asked" ELSE Pruned(j)]
    /\ owner' = [owner EXCEPT ![k] = t]
    /\ UNCHANGED <<now, expires, admitted, stream>>

TicketIssued(k) ==
    /\ ticket[k] = "asked"
    /\ table' = Kept /\ closed' = ClosedByPruning
    /\ ticket' = [j \in Tickets |-> IF j = k THEN "valid" ELSE Pruned(j)]
    /\ expires' = [expires EXCEPT ![k] = now + TicketAge]
    /\ UNCHANGED <<now, made, lastSeen, owner, admitted, stream>>

-----------------------------------------------------------------------------
(* Admission of a stream *)

Admit(p, d, t) ==
    /\ pc[p] = "idle"
    /\ kind' = [kind EXCEPT ![p] = d] /\ token' = [token EXCEPT ![p] = t]
    /\ pc' = [pc EXCEPT ![p] = "admitted"]
    /\ UNCHANGED <<activeStreams, wires>>

(* pinRequestAuthorized with the token of a session. *)
StreamBySession(p, d, t) ==
    /\ Authorized(t) /\ t \in Kept
    /\ Admit(p, d, t)
    /\ ticket' = [k \in Tickets |-> Pruned(k)]
    /\ UNCHANGED <<now, owner, expires, admitted>>

(* Mutant: the ticket is kept until it expires. *)
ConsumedNot(k) == [j \in Tickets |-> Pruned(j)]

(* consumePinWebSocketTicketSession deletes the ticket, good or not. *)
Consumed(k) == [j \in Tickets |-> IF j = k THEN "gone" ELSE Pruned(j)]

StreamByTicket(p, d, k) ==
    /\ d # "events"
    /\ ticket[k] = "valid" /\ expires[k] > now /\ owner[k] \in Kept
    /\ Admit(p, d, owner[k])
    /\ ticket' = Consumed(k)
    /\ admitted' = [admitted EXCEPT ![k] = @ + 1]
    /\ table' = Kept /\ closed' = ClosedByPruning
    /\ UNCHANGED <<now, made, lastSeen, owner, expires>>

TicketRefused(k) ==
    /\ ticket[k] = "valid" /\ (expires[k] <= now \/ owner[k] \notin Kept)
    /\ ticket' = Consumed(k)
    /\ table' = Kept /\ closed' = ClosedByPruning
    /\ UNCHANGED <<now, made, lastSeen, owner, expires, admitted, stream>>

(* reserveContainerStream *)
Reserve(p) ==
    /\ pc[p] = "admitted" /\ kind[p] # "events"
    /\ activeStreams < MaxStreams
    /\ activeStreams' = activeStreams + 1
    /\ pc' = [pc EXCEPT ![p] = "reserved"]
    /\ UNCHANGED <<now, session, tickets, kind, token, wires>>

TooManyStreams(p) ==
    /\ pc[p] = "admitted" /\ kind[p] # "events"
    /\ activeStreams >= MaxStreams
    /\ pc' = [pc EXCEPT ![p] = "done"]
    /\ UNCHANGED <<now, session, tickets, kind, token, activeStreams, wires>>

(* The feature is off, a parameter is missing, the server is unknown or the *)
(* upgrade fails: the handler returns and releases.                         *)
Rejected(p) ==
    /\ pc[p] = "reserved"
    /\ activeStreams' = activeStreams - 1
    /\ pc' = [pc EXCEPT ![p] = "done"]
    /\ UNCHANGED <<now, session, tickets, kind, token, wires>>

-----------------------------------------------------------------------------
(* Connections *)

Goto(p, label) == pc' = [pc EXCEPT ![p] = label]
Same == UNCHANGED <<now, session, tickets, kind, token>>

(* The connection of the client is up; an event stream has it from the start. *)
Upgrade(p) ==
    /\ pc[p] = IF kind[p] = "events" THEN "admitted" ELSE "reserved"
    /\ Goto(p, "upgraded")
    /\ conn' = [conn EXCEPT ![p] = "open"]
    /\ UNCHANGED <<activeStreams, source, watch, rwatch, up, down>> /\ Same

(* Mutant: no channel for a session that is over already. *)
pinSessionDoneNil(t) == IF t \in table THEN "session" ELSE "never"

(* pinSessionDone: the channel of the session, or one that is closed. *)
pinSessionDone(t) == IF t \in table THEN "session" ELSE "over"

(* protectContainerStream for the client's connection; an event stream      *)
(* waits for the channel itself.                                            *)
Protect(p) ==
    /\ pc[p] = "upgraded"
    /\ Goto(p, IF kind[p] = "events" THEN "open" ELSE "opening")
    /\ watch' = [watch EXCEPT ![p] = pinSessionDone(token[p])]
    /\ UNCHANGED <<activeStreams, conn, source, rwatch, up, down>> /\ Same

(* The log reader, the exec or the agent's connection is there, the latter  *)
(* with a guard of its own, and the pumps run.                              *)
OpenSource(p) ==
    /\ pc[p] = "opening"
    /\ Goto(p, "open")
    /\ source' = [source EXCEPT ![p] = "open"]
    /\ rwatch' = [rwatch EXCEPT ![p] = IF kind[p] = "remote" THEN pinSessionDone(token[p]) ELSE @]
    /\ up' = [up EXCEPT ![p] = TRUE] /\ down' = [down EXCEPT ![p] = TRUE]
    /\ UNCHANGED <<activeStreams, conn, watch>> /\ Same

OpenFails(p) ==
    /\ pc[p] = "opening"
    /\ Goto(p, "closing")
    /\ UNCHANGED <<activeStreams, wires>> /\ Same

Over(p, w) == w = "over" \/ (w = "session" /\ token[p] \in closed)

(* The goroutine of protectContainerStream closes the connection. *)
GuardFires(p) ==
    /\ kind[p] # "events"
    /\ Over(p, watch[p])
    /\ watch' = [watch EXCEPT ![p] = "off"] /\ conn' = [conn EXCEPT ![p] = "closed"]
    /\ UNCHANGED <<pc, activeStreams, source, rwatch, up, down>> /\ Same

SourceGuardFires(p) ==
    /\ Over(p, rwatch[p])
    /\ rwatch' = [rwatch EXCEPT ![p] = "off"] /\ source' = [source EXCEPT ![p] = "closed"]
    /\ UNCHANGED <<pc, activeStreams, conn, watch, up, down>> /\ Same

(* The client goes away, or misses its pongs. *)
ClientCloses(p) ==
    /\ conn[p] = "open"
    /\ conn' = [conn EXCEPT ![p] = "closed"]
    /\ UNCHANGED <<pc, activeStreams, source, watch, rwatch, up, down>> /\ Same

(* The log ends, the shell exits, the agent goes away. *)
SourceEnds(p) ==
    /\ source[p] = "open"
    /\ source' = [source EXCEPT ![p] = "closed"]
    /\ UNCHANGED <<pc, activeStreams, conn, watch, rwatch, up, down>> /\ Same

-----------------------------------------------------------------------------
(* Pumps *)

(* Mutant: the log reader is not told that the client has gone. *)
UpEndsAlone(p) ==
    /\ up[p] /\ conn[p] = "closed"
    /\ up' = [up EXCEPT ![p] = FALSE]
    /\ UNCHANGED <<pc, activeStreams, conn, source, watch, rwatch, down>> /\ Same

(* The pump that reads from the client fails to read, which ends the        *)
(* source: by closeBoth, by cancelling the log reader's context, by         *)
(* closing the exec.                                                        *)
UpEnds(p) ==
    /\ up[p] /\ conn[p] = "closed"
    /\ up' = [up EXCEPT ![p] = FALSE] /\ source' = [source EXCEPT ![p] = "closed"]
    /\ UNCHANGED <<pc, activeStreams, conn, watch, rwatch, down>> /\ Same

(* It fails to write what the client has sent; a log has nothing to write to. *)
UpWriteFails(p) ==
    /\ up[p] /\ source[p] = "closed" /\ kind[p] # "logs"
    /\ up' = [up EXCEPT ![p] = FALSE]
    /\ conn' = [conn EXCEPT ![p] = IF kind[p] = "remote" THEN "closed" ELSE @]
    /\ UNCHANGED <<pc, activeStreams, source, watch, rwatch, down>> /\ Same

(* The pump to the client ends; for an agent closeBoth follows. *)
DownStops(p) ==
    /\ down' = [down EXCEPT ![p] = FALSE]
    /\ conn' = [conn EXCEPT ![p] = IF kind[p] = "remote" THEN "closed" ELSE @]
    /\ source' = [source EXCEPT ![p] = IF kind[p] = "remote" THEN "closed" ELSE @]
    /\ UNCHANGED <<pc, activeStreams, watch, rwatch, up>> /\ Same

(* It has nothing more to read, or fails to write what it has read. *)
DownEnds(p) == down[p] /\ source[p] = "closed" /\ DownStops(p)
DownWriteFails(p) == down[p] /\ conn[p] = "closed" /\ DownStops(p)

(* What the handler waits for: the copy of the log, both pumps of a shell,  *)
(* closeBoth of a proxy, the channel or the client of an event stream.      *)
Waits(p) ==
    CASE kind[p] = "logs" -> ~down[p]
      [] kind[p] = "shell" -> ~up[p] /\ ~down[p]
      [] kind[p] = "remote" -> ~up[p] \/ ~down[p]
      [] kind[p] = "events" -> Over(p, watch[p]) \/ conn[p] = "closed"

HandlerEnds(p) ==
    /\ pc[p] = "open" /\ Waits(p)
    /\ Goto(p, "closing")
    /\ UNCHANGED <<activeStreams, wires>> /\ Same

(* Mutant: the stream is not released. *)
HandlerReturnsKeeps(p) ==
    /\ pc[p] = "closing"
    /\ Goto(p, "done")
    /\ UNCHANGED activeStreams
    /\ conn' = [conn EXCEPT ![p] = "closed"]
    /\ source' = [source EXCEPT ![p] = IF @ = "open" THEN "closed" ELSE @]
    /\ watch' = [watch EXCEPT ![p] = "off"] /\ rwatch' = [rwatch EXCEPT ![p] = "off"]
    /\ UNCHANGED <<up, down>> /\ Same

(* The deferred calls: source, guards, connection, release. *)
HandlerReturns(p) ==
    /\ pc[p] = "closing"
    /\ Goto(p, "done")
    /\ activeStreams' = IF kind[p] = "events" THEN activeStreams ELSE activeStreams - 1
    /\ conn' = [conn EXCEPT ![p] = "closed"]
    /\ source' = [source EXCEPT ![p] = IF @ = "open" THEN "closed" ELSE @]
    /\ watch' = [watch EXCEPT ![p] = "off"] /\ rwatch' = [rwatch EXCEPT ![p] = "off"]
    /\ UNCHANGED <<up, down>> /\ Same

-----------------------------------------------------------------------------
HandlerStep(p) ==
    \/ Reserve(p) \/ TooManyStreams(p) \/ Upgrade(p) \/ Protect(p) \/ OpenSource(p)
    \/ HandlerEnds(p) \/ HandlerReturns(p)

GuardStep(p) == GuardFires(p) \/ SourceGuardFires(p)

PumpStep(p) == UpEnds(p) \/ DownEnds(p)

Next ==
    \/ Tick
    \/ \E t \in Tokens : Verify(t) \/ Request(t) \/ Logout(t)
    \/ \E k \in Tickets, t \in Tokens : TicketAsked(k, t)
    \/ \E k \in Tickets : TicketIssued(k) \/ TicketRefused(k)
    \/ \E p \in Streams, d \in Kinds :
          \/ \E t \in Tokens : StreamBySession(p, d, t)
          \/ \E k \in Tickets : StreamByTicket(p, d, k)
    \/ \E p \in Streams :
          \/ HandlerStep(p) \/ GuardStep(p) \/ PumpStep(p)
          \/ Rejected(p) \/ OpenFails(p) \/ UpWriteFails(p) \/ DownWriteFails(p)
          \/ ClientCloses(p) \/ SourceEnds(p)

Spec == Init /\ [][Next]_vars

(* The goroutines of a stream run; calls to the engine and the agent return *)
(* (a dial has a timeout), and a write that stalls fails after 30 s.        *)
FairSpec ==
    /\ Spec
    /\ \A p \in Streams :
          WF_vars(HandlerStep(p)) /\ WF_vars(GuardStep(p)) /\ WF_vars(UpEnds(p)) /\ WF_vars(DownEnds(p))

-----------------------------------------------------------------------------
(* Properties *)

(* "Shell and Logs share a limit of 64 active connections" (security.md:25):*)
(* the counter is the number of handlers that hold a stream, on every way   *)
(* through them, and never above the limit.                                 *)
StreamCountExact ==
    /\ activeStreams = Cardinality({p \in Streams : pc[p] \in Holding /\ kind[p] # "events"})
    /\ activeStreams <= MaxStreams

(* A ticket is "single-use" (security.md:23): it admits one stream.         *)
TicketOnce == \A k \in Tickets : admitted[k] <= 1

(* A session that is no longer in the table has its channel closed, once:   *)
(* close of a channel that is closed already would end the process.         *)
SessionChannels == closed = made \ table

(* No stream is missed when a session ends, not even one that ends between  *)
(* admission and protectContainerStream: a protected connection of a        *)
(* session that is over is closed or about to be closed by its guard.       *)
NoStreamMissed ==
    \A p \in Streams :
        pc[p] \in {"opening", "open"} /\ token[p] \notin table =>
            conn[p] = "closed" \/ Over(p, watch[p])

Settled(p) == pc[p] = "done" /\ ~up[p] /\ ~down[p] /\ conn[p] # "open" /\ source[p] # "open"

(* "Logout closes WebSockets and SSE streams associated with the revoked    *)
(* session" (security.md:25), and so do expiry and a client that leaves:    *)
(* the handler returns and no pump and no connection is left behind.        *)
StreamsEnd ==
    \A p \in Streams : token[p] \in closed \/ conn[p] = "closed" ~> Settled(p)

=============================================================================
