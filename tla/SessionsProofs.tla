--------------------------- MODULE SessionsProofs ---------------------------
(***************************************************************************)
(* Proofs about Sessions, for any number of sessions, tickets and streams, *)
(* any limit and any ages: type correctness, StreamCountExact, TicketOnce, *)
(* SessionChannels and NoStreamMissed.                                     *)
(*                                                                         *)
(* Types and counter need each other: a handler that releases must hold a  *)
(* stream, or the counter would fall below zero.  NoStreamMissed needs     *)
(* that an admitted stream has a token that was given out (Bound), that a  *)
(* protected connection is closed or has a guard (Guarded), and            *)
(* SessionChannels, which turns a missing session into a closed channel.   *)
(***************************************************************************)
EXTENDS Sessions, FiniteSetTheorems, TLAPS

Held == {p \in Streams : pc[p] \in Holding /\ kind[p] # "events"}

Bound ==
    \A p \in Streams :
        /\ pc[p] # "idle" => token[p] \in made
        /\ pc[p] = "reserved" => kind[p] # "events"

Guarded ==
    \A p \in Streams :
        pc[p] \in {"opening", "open"} => conn[p] = "closed" \/ watch[p] \in {"session", "over"}

Unused ==
    \A k \in Tickets :
        /\ admitted[k] <= 1
        /\ ticket[k] # "gone" => admitted[k] = 0

-----------------------------------------------------------------------------
(* The three things a step may do to the counter. *)
Keeps == Held' = Held /\ activeStreams' = activeStreams
Takes(p) == p \notin Held /\ Held' = Held \cup {p} /\ activeStreams' = activeStreams + 1 /\ activeStreams < MaxStreams
Gives(p) == p \in Held /\ Held' = Held \ {p} /\ activeStreams' = activeStreams - 1

(* A step takes one stream, gives one back, or does neither. *)
LEMMA CountStep ==
    ASSUME TypeOK, Bound, [Next]_vars
    PROVE  Keeps \/ \E p \in Streams : Takes(p) \/ Gives(p)
<1>1. ASSUME Tick PROVE Keeps
  BY <1>1 DEF Tick, TypeOK, Bound, Holding, Held, Keeps, Takes, Gives, session, tickets, stream, wires
<1>2. ASSUME NEW t \in Tokens, Verify(t) PROVE Keeps
  BY <1>2 DEF Verify, Kept, Expired, ClosedByPruning, Pruned, TypeOK, Bound, Holding, Held, Keeps, Takes, Gives, session, tickets, stream, wires
<1>3. ASSUME NEW t \in Tokens, Request(t) PROVE Keeps
  BY <1>3 DEF Request, Authorized, Kept, Expired, ClosedByPruning, Pruned, TypeOK, Bound, Holding, Held, Keeps, Takes, Gives, session, tickets, stream, wires
<1>4. ASSUME NEW t \in Tokens, Logout(t) PROVE Keeps
  BY <1>4 DEF Logout, TypeOK, Bound, Holding, Held, Keeps, Takes, Gives, session, tickets, stream, wires
<1>5. ASSUME NEW k \in Tickets, NEW t \in Tokens, TicketAsked(k, t) PROVE Keeps
  BY <1>5 DEF TicketAsked, Authorized, Kept, Expired, ClosedByPruning, Pruned, TypeOK, Bound, Holding, Held, Keeps, Takes, Gives, session, tickets, stream, wires
<1>6. ASSUME NEW k \in Tickets, TicketIssued(k) PROVE Keeps
  BY <1>6 DEF TicketIssued, Kept, Expired, ClosedByPruning, Pruned, TypeOK, Bound, Holding, Held, Keeps, Takes, Gives, session, tickets, stream, wires
<1>7. ASSUME NEW k \in Tickets, TicketRefused(k) PROVE Keeps
  BY <1>7 DEF TicketRefused, Consumed, Kept, Expired, ClosedByPruning, Pruned, TypeOK, Bound, Holding, Held, Keeps, Takes, Gives, session, tickets, stream, wires
<1>8. ASSUME NEW p \in Streams, NEW d \in Kinds, NEW t \in Tokens, StreamBySession(p, d, t) PROVE Keeps
  BY <1>8 DEF StreamBySession, Authorized, Admit, Kept, Expired, ClosedByPruning, Pruned, TypeOK, Bound, Holding, Held, Keeps, Takes, Gives, session, tickets, stream, wires
<1>9. ASSUME NEW p \in Streams, NEW d \in Kinds, NEW k \in Tickets, StreamByTicket(p, d, k) PROVE Keeps
  BY <1>9 DEF StreamByTicket, Admit, Consumed, Kept, Expired, ClosedByPruning, Pruned, TypeOK, Bound, Holding, Held, Keeps, Takes, Gives, session, tickets, stream, wires
<1>10. ASSUME NEW p \in Streams, Reserve(p) PROVE Takes(p)
  BY <1>10 DEF Reserve, TypeOK, Bound, Holding, Held, Keeps, Takes, Gives, session, tickets, stream, wires
<1>11. ASSUME NEW p \in Streams, TooManyStreams(p) PROVE Keeps
  BY <1>11 DEF TooManyStreams, TypeOK, Bound, Holding, Held, Keeps, Takes, Gives, session, tickets, stream, wires
<1>12. ASSUME NEW p \in Streams, Rejected(p) PROVE Gives(p)
  BY <1>12 DEF Rejected, TypeOK, Bound, Holding, Held, Keeps, Takes, Gives, session, tickets, stream, wires
<1>13. ASSUME NEW p \in Streams, Upgrade(p) PROVE Keeps
  BY <1>13 DEF Upgrade, Goto, Same, TypeOK, Bound, Holding, Held, Keeps, Takes, Gives, session, tickets, stream, wires
<1>14. ASSUME NEW p \in Streams, Protect(p) PROVE Keeps
  BY <1>14 DEF Protect, pinSessionDone, Goto, Same, TypeOK, Bound, Holding, Held, Keeps, Takes, Gives, session, tickets, stream, wires
<1>15. ASSUME NEW p \in Streams, OpenSource(p) PROVE Keeps
  BY <1>15 DEF OpenSource, pinSessionDone, Goto, Same, TypeOK, Bound, Holding, Held, Keeps, Takes, Gives, session, tickets, stream, wires
<1>16. ASSUME NEW p \in Streams, OpenFails(p) PROVE Keeps
  BY <1>16 DEF OpenFails, Goto, Same, TypeOK, Bound, Holding, Held, Keeps, Takes, Gives, session, tickets, stream, wires
<1>17. ASSUME NEW p \in Streams, GuardFires(p) PROVE Keeps
  BY <1>17 DEF GuardFires, Same, TypeOK, Bound, Holding, Held, Keeps, Takes, Gives, session, tickets, stream, wires
<1>18. ASSUME NEW p \in Streams, SourceGuardFires(p) PROVE Keeps
  BY <1>18 DEF SourceGuardFires, Same, TypeOK, Bound, Holding, Held, Keeps, Takes, Gives, session, tickets, stream, wires
<1>19. ASSUME NEW p \in Streams, ClientCloses(p) PROVE Keeps
  BY <1>19 DEF ClientCloses, Same, TypeOK, Bound, Holding, Held, Keeps, Takes, Gives, session, tickets, stream, wires
<1>20. ASSUME NEW p \in Streams, SourceEnds(p) PROVE Keeps
  BY <1>20 DEF SourceEnds, Same, TypeOK, Bound, Holding, Held, Keeps, Takes, Gives, session, tickets, stream, wires
<1>21. ASSUME NEW p \in Streams, UpEnds(p) PROVE Keeps
  BY <1>21 DEF UpEnds, Same, TypeOK, Bound, Holding, Held, Keeps, Takes, Gives, session, tickets, stream, wires
<1>22. ASSUME NEW p \in Streams, UpWriteFails(p) PROVE Keeps
  BY <1>22 DEF UpWriteFails, Same, TypeOK, Bound, Holding, Held, Keeps, Takes, Gives, session, tickets, stream, wires
<1>23. ASSUME NEW p \in Streams, DownEnds(p) PROVE Keeps
  BY <1>23 DEF DownEnds, DownStops, Same, TypeOK, Bound, Holding, Held, Keeps, Takes, Gives, session, tickets, stream, wires
<1>24. ASSUME NEW p \in Streams, DownWriteFails(p) PROVE Keeps
  BY <1>24 DEF DownWriteFails, DownStops, Same, TypeOK, Bound, Holding, Held, Keeps, Takes, Gives, session, tickets, stream, wires
<1>25. ASSUME NEW p \in Streams, HandlerEnds(p) PROVE Keeps
  BY <1>25 DEF HandlerEnds, Goto, Same, TypeOK, Bound, Holding, Held, Keeps, Takes, Gives, session, tickets, stream, wires
<1>26. ASSUME NEW p \in Streams, HandlerReturns(p) PROVE Keeps \/ Gives(p)
  BY <1>26 DEF HandlerReturns, Goto, Same, TypeOK, Bound, Holding, Held, Keeps, Takes, Gives, session, tickets, stream, wires
<1>27. ASSUME UNCHANGED vars PROVE Keeps
  BY <1>27 DEF vars, TypeOK, Bound, Holding, Held, Keeps, Takes, Gives, session, tickets, stream, wires
<1> QED
  BY <1>1, <1>2, <1>3, <1>4, <1>5, <1>6, <1>7, <1>8, <1>9, <1>10, <1>11, <1>12, <1>13, <1>14, <1>15, <1>16, <1>17, <1>18, <1>19, <1>20, <1>21, <1>22, <1>23, <1>24, <1>25, <1>26, <1>27 DEF Next, HandlerStep, GuardStep, PumpStep

(* The counter stays the number of handlers that hold a stream. *)
LEMMA CountKept ==
    ASSUME TypeOK, Bound, StreamCountExact, [Next]_vars
    PROVE  StreamCountExact' /\ activeStreams' \in 0..MaxStreams
<1> USE SessionConstants
<1>1. IsFiniteSet(Held)
  BY FS_Subset DEF Held
<1>2. activeStreams = Cardinality(Held)
  BY DEF StreamCountExact, Held
<1>3. CASE Keeps
  BY <1>2, <1>3 DEF Keeps, StreamCountExact, Held, TypeOK
<1>4. ASSUME NEW p \in Streams, Takes(p) PROVE activeStreams' = Cardinality(Held') /\ activeStreams' \in 0..MaxStreams
  <2>1. Cardinality(Held \cup {p}) = Cardinality(Held) + 1
    BY <1>1, <1>4, FS_AddElement DEF Takes
  <2> QED
    BY <2>1, <1>2, <1>4 DEF Takes, TypeOK
<1>5. ASSUME NEW p \in Streams, Gives(p) PROVE activeStreams' = Cardinality(Held') /\ activeStreams' \in 0..MaxStreams
  <2>1. Cardinality(Held \ {p}) = Cardinality(Held) - 1
    BY <1>1, <1>5, FS_RemoveElement DEF Gives
  <2>2. Cardinality(Held \ {p}) \in Nat
    BY <1>1, FS_RemoveElement, FS_CardinalityType
  <2> QED
    BY <2>1, <2>2, <1>2, <1>5 DEF Gives, TypeOK
<1> QED
  BY <1>3, <1>4, <1>5, CountStep DEF StreamCountExact, Held

(* Every step of sessions, tickets and streams keeps the types. *)
LEMMA TypeStep ==
    ASSUME TypeOK, Bound, activeStreams' \in 0..MaxStreams, [Next]_vars
    PROVE  TypeOK'
<1>1. ASSUME Tick PROVE TypeOK'
  BY <1>1, SessionConstants DEF Tick, TypeOK, Kinds, Wire, Guard, Holding, session, tickets, stream, wires
<1>2. ASSUME NEW t \in Tokens, Verify(t) PROVE TypeOK'
  BY <1>2, SessionConstants DEF Verify, Kept, Expired, ClosedByPruning, Pruned, TypeOK, Kinds, Wire, Guard, Holding, session, tickets, stream, wires
<1>3. ASSUME NEW t \in Tokens, Request(t) PROVE TypeOK'
  BY <1>3, SessionConstants DEF Request, Authorized, Kept, Expired, ClosedByPruning, Pruned, TypeOK, Kinds, Wire, Guard, Holding, session, tickets, stream, wires
<1>4. ASSUME NEW t \in Tokens, Logout(t) PROVE TypeOK'
  BY <1>4, SessionConstants DEF Logout, TypeOK, Kinds, Wire, Guard, Holding, session, tickets, stream, wires
<1>5. ASSUME NEW k \in Tickets, NEW t \in Tokens, TicketAsked(k, t) PROVE TypeOK'
  BY <1>5, SessionConstants DEF TicketAsked, Authorized, Kept, Expired, ClosedByPruning, Pruned, TypeOK, Kinds, Wire, Guard, Holding, session, tickets, stream, wires
<1>6. ASSUME NEW k \in Tickets, TicketIssued(k) PROVE TypeOK'
  BY <1>6, SessionConstants DEF TicketIssued, Kept, Expired, ClosedByPruning, Pruned, TypeOK, Kinds, Wire, Guard, Holding, session, tickets, stream, wires
<1>7. ASSUME NEW k \in Tickets, TicketRefused(k) PROVE TypeOK'
  BY <1>7, SessionConstants DEF TicketRefused, Consumed, Kept, Expired, ClosedByPruning, Pruned, TypeOK, Kinds, Wire, Guard, Holding, session, tickets, stream, wires
<1>8. ASSUME NEW p \in Streams, NEW d \in Kinds, NEW t \in Tokens, StreamBySession(p, d, t) PROVE TypeOK'
  BY <1>8, SessionConstants DEF StreamBySession, Authorized, Admit, Kept, Expired, ClosedByPruning, Pruned, TypeOK, Kinds, Wire, Guard, Holding, session, tickets, stream, wires
<1>9. ASSUME NEW p \in Streams, NEW d \in Kinds, NEW k \in Tickets, StreamByTicket(p, d, k) PROVE TypeOK'
  BY <1>9, SessionConstants DEF StreamByTicket, Admit, Consumed, Kept, Expired, ClosedByPruning, Pruned, TypeOK, Kinds, Wire, Guard, Holding, session, tickets, stream, wires
<1>10. ASSUME NEW p \in Streams, Reserve(p) PROVE TypeOK'
  BY <1>10, SessionConstants DEF Reserve, TypeOK, Kinds, Wire, Guard, Holding, session, tickets, stream, wires
<1>11. ASSUME NEW p \in Streams, TooManyStreams(p) PROVE TypeOK'
  BY <1>11, SessionConstants DEF TooManyStreams, TypeOK, Kinds, Wire, Guard, Holding, session, tickets, stream, wires
<1>12. ASSUME NEW p \in Streams, Rejected(p) PROVE TypeOK'
  BY <1>12, SessionConstants DEF Rejected, TypeOK, Kinds, Wire, Guard, Holding, session, tickets, stream, wires
<1>13. ASSUME NEW p \in Streams, Upgrade(p) PROVE TypeOK'
  BY <1>13, SessionConstants DEF Upgrade, Goto, Same, TypeOK, Kinds, Wire, Guard, Holding, session, tickets, stream, wires
<1>14. ASSUME NEW p \in Streams, Protect(p) PROVE TypeOK'
  BY <1>14, SessionConstants DEF Protect, pinSessionDone, Goto, Same, TypeOK, Kinds, Wire, Guard, Holding, session, tickets, stream, wires
<1>15. ASSUME NEW p \in Streams, OpenSource(p) PROVE TypeOK'
  BY <1>15, SessionConstants DEF OpenSource, pinSessionDone, Goto, Same, TypeOK, Kinds, Wire, Guard, Holding, session, tickets, stream, wires
<1>16. ASSUME NEW p \in Streams, OpenFails(p) PROVE TypeOK'
  BY <1>16, SessionConstants DEF OpenFails, Goto, Same, TypeOK, Kinds, Wire, Guard, Holding, session, tickets, stream, wires
<1>17. ASSUME NEW p \in Streams, GuardFires(p) PROVE TypeOK'
  BY <1>17, SessionConstants DEF GuardFires, Same, TypeOK, Kinds, Wire, Guard, Holding, session, tickets, stream, wires
<1>18. ASSUME NEW p \in Streams, SourceGuardFires(p) PROVE TypeOK'
  BY <1>18, SessionConstants DEF SourceGuardFires, Same, TypeOK, Kinds, Wire, Guard, Holding, session, tickets, stream, wires
<1>19. ASSUME NEW p \in Streams, ClientCloses(p) PROVE TypeOK'
  BY <1>19, SessionConstants DEF ClientCloses, Same, TypeOK, Kinds, Wire, Guard, Holding, session, tickets, stream, wires
<1>20. ASSUME NEW p \in Streams, SourceEnds(p) PROVE TypeOK'
  BY <1>20, SessionConstants DEF SourceEnds, Same, TypeOK, Kinds, Wire, Guard, Holding, session, tickets, stream, wires
<1>21. ASSUME NEW p \in Streams, UpEnds(p) PROVE TypeOK'
  BY <1>21, SessionConstants DEF UpEnds, Same, TypeOK, Kinds, Wire, Guard, Holding, session, tickets, stream, wires
<1>22. ASSUME NEW p \in Streams, UpWriteFails(p) PROVE TypeOK'
  BY <1>22, SessionConstants DEF UpWriteFails, Same, TypeOK, Kinds, Wire, Guard, Holding, session, tickets, stream, wires
<1>23. ASSUME NEW p \in Streams, DownEnds(p) PROVE TypeOK'
  BY <1>23, SessionConstants DEF DownEnds, DownStops, Same, TypeOK, Kinds, Wire, Guard, Holding, session, tickets, stream, wires
<1>24. ASSUME NEW p \in Streams, DownWriteFails(p) PROVE TypeOK'
  BY <1>24, SessionConstants DEF DownWriteFails, DownStops, Same, TypeOK, Kinds, Wire, Guard, Holding, session, tickets, stream, wires
<1>25. ASSUME NEW p \in Streams, HandlerEnds(p) PROVE TypeOK'
  BY <1>25, SessionConstants DEF HandlerEnds, Goto, Same, TypeOK, Kinds, Wire, Guard, Holding, session, tickets, stream, wires
<1>26. ASSUME NEW p \in Streams, HandlerReturns(p) PROVE TypeOK'
  BY <1>26, SessionConstants DEF HandlerReturns, Goto, Same, TypeOK, Kinds, Wire, Guard, Holding, session, tickets, stream, wires
<1>27. ASSUME UNCHANGED vars PROVE TypeOK'
  BY <1>27 DEF vars, TypeOK, Kinds, Wire, Guard, Holding, session, tickets, stream, wires
<1> QED
  BY <1>1, <1>2, <1>3, <1>4, <1>5, <1>6, <1>7, <1>8, <1>9, <1>10, <1>11, <1>12, <1>13, <1>14, <1>15, <1>16, <1>17, <1>18, <1>19, <1>20, <1>21, <1>22, <1>23, <1>24, <1>25, <1>26, <1>27 DEF Next, HandlerStep, GuardStep, PumpStep

(* A token leaves the table exactly when its channel is closed. *)
LEMMA ChannelStep ==
    ASSUME TypeOK, SessionChannels, [Next]_vars
    PROVE  SessionChannels'
<1>1. ASSUME Tick PROVE SessionChannels'
  BY <1>1 DEF Tick, TypeOK, SessionChannels, session, tickets, stream, wires
<1>2. ASSUME NEW t \in Tokens, Verify(t) PROVE SessionChannels'
  BY <1>2 DEF Verify, Kept, Expired, ClosedByPruning, Pruned, TypeOK, SessionChannels, session, tickets, stream, wires
<1>3. ASSUME NEW t \in Tokens, Request(t) PROVE SessionChannels'
  BY <1>3 DEF Request, Authorized, Kept, Expired, ClosedByPruning, Pruned, TypeOK, SessionChannels, session, tickets, stream, wires
<1>4. ASSUME NEW t \in Tokens, Logout(t) PROVE SessionChannels'
  BY <1>4 DEF Logout, TypeOK, SessionChannels, session, tickets, stream, wires
<1>5. ASSUME NEW k \in Tickets, NEW t \in Tokens, TicketAsked(k, t) PROVE SessionChannels'
  BY <1>5 DEF TicketAsked, Authorized, Kept, Expired, ClosedByPruning, Pruned, TypeOK, SessionChannels, session, tickets, stream, wires
<1>6. ASSUME NEW k \in Tickets, TicketIssued(k) PROVE SessionChannels'
  BY <1>6 DEF TicketIssued, Kept, Expired, ClosedByPruning, Pruned, TypeOK, SessionChannels, session, tickets, stream, wires
<1>7. ASSUME NEW k \in Tickets, TicketRefused(k) PROVE SessionChannels'
  BY <1>7 DEF TicketRefused, Consumed, Kept, Expired, ClosedByPruning, Pruned, TypeOK, SessionChannels, session, tickets, stream, wires
<1>8. ASSUME NEW p \in Streams, NEW d \in Kinds, NEW t \in Tokens, StreamBySession(p, d, t) PROVE SessionChannels'
  BY <1>8 DEF StreamBySession, Authorized, Admit, Kept, Expired, ClosedByPruning, Pruned, TypeOK, SessionChannels, session, tickets, stream, wires
<1>9. ASSUME NEW p \in Streams, NEW d \in Kinds, NEW k \in Tickets, StreamByTicket(p, d, k) PROVE SessionChannels'
  BY <1>9 DEF StreamByTicket, Admit, Consumed, Kept, Expired, ClosedByPruning, Pruned, TypeOK, SessionChannels, session, tickets, stream, wires
<1>10. ASSUME NEW p \in Streams, Reserve(p) PROVE SessionChannels'
  BY <1>10 DEF Reserve, TypeOK, SessionChannels, session, tickets, stream, wires
<1>11. ASSUME NEW p \in Streams, TooManyStreams(p) PROVE SessionChannels'
  BY <1>11 DEF TooManyStreams, TypeOK, SessionChannels, session, tickets, stream, wires
<1>12. ASSUME NEW p \in Streams, Rejected(p) PROVE SessionChannels'
  BY <1>12 DEF Rejected, TypeOK, SessionChannels, session, tickets, stream, wires
<1>13. ASSUME NEW p \in Streams, Upgrade(p) PROVE SessionChannels'
  BY <1>13 DEF Upgrade, Goto, Same, TypeOK, SessionChannels, session, tickets, stream, wires
<1>14. ASSUME NEW p \in Streams, Protect(p) PROVE SessionChannels'
  BY <1>14 DEF Protect, pinSessionDone, Goto, Same, TypeOK, SessionChannels, session, tickets, stream, wires
<1>15. ASSUME NEW p \in Streams, OpenSource(p) PROVE SessionChannels'
  BY <1>15 DEF OpenSource, pinSessionDone, Goto, Same, TypeOK, SessionChannels, session, tickets, stream, wires
<1>16. ASSUME NEW p \in Streams, OpenFails(p) PROVE SessionChannels'
  BY <1>16 DEF OpenFails, Goto, Same, TypeOK, SessionChannels, session, tickets, stream, wires
<1>17. ASSUME NEW p \in Streams, GuardFires(p) PROVE SessionChannels'
  BY <1>17 DEF GuardFires, Same, TypeOK, SessionChannels, session, tickets, stream, wires
<1>18. ASSUME NEW p \in Streams, SourceGuardFires(p) PROVE SessionChannels'
  BY <1>18 DEF SourceGuardFires, Same, TypeOK, SessionChannels, session, tickets, stream, wires
<1>19. ASSUME NEW p \in Streams, ClientCloses(p) PROVE SessionChannels'
  BY <1>19 DEF ClientCloses, Same, TypeOK, SessionChannels, session, tickets, stream, wires
<1>20. ASSUME NEW p \in Streams, SourceEnds(p) PROVE SessionChannels'
  BY <1>20 DEF SourceEnds, Same, TypeOK, SessionChannels, session, tickets, stream, wires
<1>21. ASSUME NEW p \in Streams, UpEnds(p) PROVE SessionChannels'
  BY <1>21 DEF UpEnds, Same, TypeOK, SessionChannels, session, tickets, stream, wires
<1>22. ASSUME NEW p \in Streams, UpWriteFails(p) PROVE SessionChannels'
  BY <1>22 DEF UpWriteFails, Same, TypeOK, SessionChannels, session, tickets, stream, wires
<1>23. ASSUME NEW p \in Streams, DownEnds(p) PROVE SessionChannels'
  BY <1>23 DEF DownEnds, DownStops, Same, TypeOK, SessionChannels, session, tickets, stream, wires
<1>24. ASSUME NEW p \in Streams, DownWriteFails(p) PROVE SessionChannels'
  BY <1>24 DEF DownWriteFails, DownStops, Same, TypeOK, SessionChannels, session, tickets, stream, wires
<1>25. ASSUME NEW p \in Streams, HandlerEnds(p) PROVE SessionChannels'
  BY <1>25 DEF HandlerEnds, Goto, Same, TypeOK, SessionChannels, session, tickets, stream, wires
<1>26. ASSUME NEW p \in Streams, HandlerReturns(p) PROVE SessionChannels'
  BY <1>26 DEF HandlerReturns, Goto, Same, TypeOK, SessionChannels, session, tickets, stream, wires
<1>27. ASSUME UNCHANGED vars PROVE SessionChannels'
  BY <1>27 DEF vars, TypeOK, SessionChannels, session, tickets, stream, wires
<1> QED
  BY <1>1, <1>2, <1>3, <1>4, <1>5, <1>6, <1>7, <1>8, <1>9, <1>10, <1>11, <1>12, <1>13, <1>14, <1>15, <1>16, <1>17, <1>18, <1>19, <1>20, <1>21, <1>22, <1>23, <1>24, <1>25, <1>26, <1>27 DEF Next, HandlerStep, GuardStep, PumpStep

(* A stream is admitted for a token that was given out. *)
LEMMA BoundStep ==
    ASSUME TypeOK, Bound, [Next]_vars
    PROVE  Bound'
<1>1. ASSUME Tick PROVE Bound'
  BY <1>1 DEF Tick, TypeOK, Holding, Bound, session, tickets, stream, wires
<1>2. ASSUME NEW t \in Tokens, Verify(t) PROVE Bound'
  BY <1>2 DEF Verify, Kept, Expired, ClosedByPruning, Pruned, TypeOK, Holding, Bound, session, tickets, stream, wires
<1>3. ASSUME NEW t \in Tokens, Request(t) PROVE Bound'
  BY <1>3 DEF Request, Authorized, Kept, Expired, ClosedByPruning, Pruned, TypeOK, Holding, Bound, session, tickets, stream, wires
<1>4. ASSUME NEW t \in Tokens, Logout(t) PROVE Bound'
  BY <1>4 DEF Logout, TypeOK, Holding, Bound, session, tickets, stream, wires
<1>5. ASSUME NEW k \in Tickets, NEW t \in Tokens, TicketAsked(k, t) PROVE Bound'
  BY <1>5 DEF TicketAsked, Authorized, Kept, Expired, ClosedByPruning, Pruned, TypeOK, Holding, Bound, session, tickets, stream, wires
<1>6. ASSUME NEW k \in Tickets, TicketIssued(k) PROVE Bound'
  BY <1>6 DEF TicketIssued, Kept, Expired, ClosedByPruning, Pruned, TypeOK, Holding, Bound, session, tickets, stream, wires
<1>7. ASSUME NEW k \in Tickets, TicketRefused(k) PROVE Bound'
  BY <1>7 DEF TicketRefused, Consumed, Kept, Expired, ClosedByPruning, Pruned, TypeOK, Holding, Bound, session, tickets, stream, wires
<1>8. ASSUME NEW p \in Streams, NEW d \in Kinds, NEW t \in Tokens, StreamBySession(p, d, t) PROVE Bound'
  BY <1>8 DEF StreamBySession, Authorized, Admit, Kept, Expired, ClosedByPruning, Pruned, TypeOK, Holding, Bound, session, tickets, stream, wires
<1>9. ASSUME NEW p \in Streams, NEW d \in Kinds, NEW k \in Tickets, StreamByTicket(p, d, k) PROVE Bound'
  BY <1>9 DEF StreamByTicket, Admit, Consumed, Kept, Expired, ClosedByPruning, Pruned, TypeOK, Holding, Bound, session, tickets, stream, wires
<1>10. ASSUME NEW p \in Streams, Reserve(p) PROVE Bound'
  BY <1>10 DEF Reserve, TypeOK, Holding, Bound, session, tickets, stream, wires
<1>11. ASSUME NEW p \in Streams, TooManyStreams(p) PROVE Bound'
  BY <1>11 DEF TooManyStreams, TypeOK, Holding, Bound, session, tickets, stream, wires
<1>12. ASSUME NEW p \in Streams, Rejected(p) PROVE Bound'
  BY <1>12 DEF Rejected, TypeOK, Holding, Bound, session, tickets, stream, wires
<1>13. ASSUME NEW p \in Streams, Upgrade(p) PROVE Bound'
  BY <1>13 DEF Upgrade, Goto, Same, TypeOK, Holding, Bound, session, tickets, stream, wires
<1>14. ASSUME NEW p \in Streams, Protect(p) PROVE Bound'
  BY <1>14 DEF Protect, pinSessionDone, Goto, Same, TypeOK, Holding, Bound, session, tickets, stream, wires
<1>15. ASSUME NEW p \in Streams, OpenSource(p) PROVE Bound'
  BY <1>15 DEF OpenSource, pinSessionDone, Goto, Same, TypeOK, Holding, Bound, session, tickets, stream, wires
<1>16. ASSUME NEW p \in Streams, OpenFails(p) PROVE Bound'
  BY <1>16 DEF OpenFails, Goto, Same, TypeOK, Holding, Bound, session, tickets, stream, wires
<1>17. ASSUME NEW p \in Streams, GuardFires(p) PROVE Bound'
  BY <1>17 DEF GuardFires, Same, TypeOK, Holding, Bound, session, tickets, stream, wires
<1>18. ASSUME NEW p \in Streams, SourceGuardFires(p) PROVE Bound'
  BY <1>18 DEF SourceGuardFires, Same, TypeOK, Holding, Bound, session, tickets, stream, wires
<1>19. ASSUME NEW p \in Streams, ClientCloses(p) PROVE Bound'
  BY <1>19 DEF ClientCloses, Same, TypeOK, Holding, Bound, session, tickets, stream, wires
<1>20. ASSUME NEW p \in Streams, SourceEnds(p) PROVE Bound'
  BY <1>20 DEF SourceEnds, Same, TypeOK, Holding, Bound, session, tickets, stream, wires
<1>21. ASSUME NEW p \in Streams, UpEnds(p) PROVE Bound'
  BY <1>21 DEF UpEnds, Same, TypeOK, Holding, Bound, session, tickets, stream, wires
<1>22. ASSUME NEW p \in Streams, UpWriteFails(p) PROVE Bound'
  BY <1>22 DEF UpWriteFails, Same, TypeOK, Holding, Bound, session, tickets, stream, wires
<1>23. ASSUME NEW p \in Streams, DownEnds(p) PROVE Bound'
  BY <1>23 DEF DownEnds, DownStops, Same, TypeOK, Holding, Bound, session, tickets, stream, wires
<1>24. ASSUME NEW p \in Streams, DownWriteFails(p) PROVE Bound'
  BY <1>24 DEF DownWriteFails, DownStops, Same, TypeOK, Holding, Bound, session, tickets, stream, wires
<1>25. ASSUME NEW p \in Streams, HandlerEnds(p) PROVE Bound'
  BY <1>25 DEF HandlerEnds, Goto, Same, TypeOK, Holding, Bound, session, tickets, stream, wires
<1>26. ASSUME NEW p \in Streams, HandlerReturns(p) PROVE Bound'
  BY <1>26 DEF HandlerReturns, Goto, Same, TypeOK, Holding, Bound, session, tickets, stream, wires
<1>27. ASSUME UNCHANGED vars PROVE Bound'
  BY <1>27 DEF vars, TypeOK, Holding, Bound, session, tickets, stream, wires
<1> QED
  BY <1>1, <1>2, <1>3, <1>4, <1>5, <1>6, <1>7, <1>8, <1>9, <1>10, <1>11, <1>12, <1>13, <1>14, <1>15, <1>16, <1>17, <1>18, <1>19, <1>20, <1>21, <1>22, <1>23, <1>24, <1>25, <1>26, <1>27 DEF Next, HandlerStep, GuardStep, PumpStep

(* A ticket that admits a stream is gone. *)
LEMMA UnusedStep ==
    ASSUME TypeOK, Unused, [Next]_vars
    PROVE  Unused'
<1>1. ASSUME Tick PROVE Unused'
  BY <1>1 DEF Tick, TypeOK, Unused, PrunedTickets, session, tickets, stream, wires
<1>2. ASSUME NEW t \in Tokens, Verify(t) PROVE Unused'
  BY <1>2 DEF Verify, Kept, Expired, ClosedByPruning, Pruned, TypeOK, Unused, PrunedTickets, session, tickets, stream, wires
<1>3. ASSUME NEW t \in Tokens, Request(t) PROVE Unused'
  BY <1>3 DEF Request, Authorized, Kept, Expired, ClosedByPruning, Pruned, TypeOK, Unused, PrunedTickets, session, tickets, stream, wires
<1>4. ASSUME NEW t \in Tokens, Logout(t) PROVE Unused'
  BY <1>4 DEF Logout, TypeOK, Unused, PrunedTickets, session, tickets, stream, wires
<1>5. ASSUME NEW k \in Tickets, NEW t \in Tokens, TicketAsked(k, t) PROVE Unused'
  BY <1>5 DEF TicketAsked, Authorized, Kept, Expired, ClosedByPruning, Pruned, TypeOK, Unused, PrunedTickets, session, tickets, stream, wires
<1>6. ASSUME NEW k \in Tickets, TicketIssued(k) PROVE Unused'
  BY <1>6 DEF TicketIssued, Kept, Expired, ClosedByPruning, Pruned, TypeOK, Unused, PrunedTickets, session, tickets, stream, wires
<1>7. ASSUME NEW k \in Tickets, TicketRefused(k) PROVE Unused'
  BY <1>7 DEF TicketRefused, Consumed, Kept, Expired, ClosedByPruning, Pruned, TypeOK, Unused, PrunedTickets, session, tickets, stream, wires
<1>8. ASSUME NEW p \in Streams, NEW d \in Kinds, NEW t \in Tokens, StreamBySession(p, d, t) PROVE Unused'
  BY <1>8 DEF StreamBySession, Authorized, Admit, Kept, Expired, ClosedByPruning, Pruned, TypeOK, Unused, PrunedTickets, session, tickets, stream, wires
<1>9. ASSUME NEW p \in Streams, NEW d \in Kinds, NEW k \in Tickets, StreamByTicket(p, d, k) PROVE Unused'
  BY <1>9 DEF StreamByTicket, Admit, Consumed, Kept, Expired, ClosedByPruning, Pruned, TypeOK, Unused, PrunedTickets, session, tickets, stream, wires
<1>10. ASSUME NEW p \in Streams, Reserve(p) PROVE Unused'
  BY <1>10 DEF Reserve, TypeOK, Unused, PrunedTickets, session, tickets, stream, wires
<1>11. ASSUME NEW p \in Streams, TooManyStreams(p) PROVE Unused'
  BY <1>11 DEF TooManyStreams, TypeOK, Unused, PrunedTickets, session, tickets, stream, wires
<1>12. ASSUME NEW p \in Streams, Rejected(p) PROVE Unused'
  BY <1>12 DEF Rejected, TypeOK, Unused, PrunedTickets, session, tickets, stream, wires
<1>13. ASSUME NEW p \in Streams, Upgrade(p) PROVE Unused'
  BY <1>13 DEF Upgrade, Goto, Same, TypeOK, Unused, PrunedTickets, session, tickets, stream, wires
<1>14. ASSUME NEW p \in Streams, Protect(p) PROVE Unused'
  BY <1>14 DEF Protect, pinSessionDone, Goto, Same, TypeOK, Unused, PrunedTickets, session, tickets, stream, wires
<1>15. ASSUME NEW p \in Streams, OpenSource(p) PROVE Unused'
  BY <1>15 DEF OpenSource, pinSessionDone, Goto, Same, TypeOK, Unused, PrunedTickets, session, tickets, stream, wires
<1>16. ASSUME NEW p \in Streams, OpenFails(p) PROVE Unused'
  BY <1>16 DEF OpenFails, Goto, Same, TypeOK, Unused, PrunedTickets, session, tickets, stream, wires
<1>17. ASSUME NEW p \in Streams, GuardFires(p) PROVE Unused'
  BY <1>17 DEF GuardFires, Same, TypeOK, Unused, PrunedTickets, session, tickets, stream, wires
<1>18. ASSUME NEW p \in Streams, SourceGuardFires(p) PROVE Unused'
  BY <1>18 DEF SourceGuardFires, Same, TypeOK, Unused, PrunedTickets, session, tickets, stream, wires
<1>19. ASSUME NEW p \in Streams, ClientCloses(p) PROVE Unused'
  BY <1>19 DEF ClientCloses, Same, TypeOK, Unused, PrunedTickets, session, tickets, stream, wires
<1>20. ASSUME NEW p \in Streams, SourceEnds(p) PROVE Unused'
  BY <1>20 DEF SourceEnds, Same, TypeOK, Unused, PrunedTickets, session, tickets, stream, wires
<1>21. ASSUME NEW p \in Streams, UpEnds(p) PROVE Unused'
  BY <1>21 DEF UpEnds, Same, TypeOK, Unused, PrunedTickets, session, tickets, stream, wires
<1>22. ASSUME NEW p \in Streams, UpWriteFails(p) PROVE Unused'
  BY <1>22 DEF UpWriteFails, Same, TypeOK, Unused, PrunedTickets, session, tickets, stream, wires
<1>23. ASSUME NEW p \in Streams, DownEnds(p) PROVE Unused'
  BY <1>23 DEF DownEnds, DownStops, Same, TypeOK, Unused, PrunedTickets, session, tickets, stream, wires
<1>24. ASSUME NEW p \in Streams, DownWriteFails(p) PROVE Unused'
  BY <1>24 DEF DownWriteFails, DownStops, Same, TypeOK, Unused, PrunedTickets, session, tickets, stream, wires
<1>25. ASSUME NEW p \in Streams, HandlerEnds(p) PROVE Unused'
  BY <1>25 DEF HandlerEnds, Goto, Same, TypeOK, Unused, PrunedTickets, session, tickets, stream, wires
<1>26. ASSUME NEW p \in Streams, HandlerReturns(p) PROVE Unused'
  BY <1>26 DEF HandlerReturns, Goto, Same, TypeOK, Unused, PrunedTickets, session, tickets, stream, wires
<1>27. ASSUME UNCHANGED vars PROVE Unused'
  BY <1>27 DEF vars, TypeOK, Unused, PrunedTickets, session, tickets, stream, wires
<1> QED
  BY <1>1, <1>2, <1>3, <1>4, <1>5, <1>6, <1>7, <1>8, <1>9, <1>10, <1>11, <1>12, <1>13, <1>14, <1>15, <1>16, <1>17, <1>18, <1>19, <1>20, <1>21, <1>22, <1>23, <1>24, <1>25, <1>26, <1>27 DEF Next, HandlerStep, GuardStep, PumpStep

(* No step leaves a protected connection without its guard. *)
LEMMA GuardedStep ==
    ASSUME TypeOK, Guarded, [Next]_vars
    PROVE  Guarded'
<1>1. ASSUME Tick PROVE Guarded'
  BY <1>1 DEF Tick, TypeOK, Holding, Guarded, Over, session, tickets, stream, wires
<1>2. ASSUME NEW t \in Tokens, Verify(t) PROVE Guarded'
  BY <1>2 DEF Verify, Kept, Expired, ClosedByPruning, Pruned, TypeOK, Holding, Guarded, Over, session, tickets, stream, wires
<1>3. ASSUME NEW t \in Tokens, Request(t) PROVE Guarded'
  BY <1>3 DEF Request, Authorized, Kept, Expired, ClosedByPruning, Pruned, TypeOK, Holding, Guarded, Over, session, tickets, stream, wires
<1>4. ASSUME NEW t \in Tokens, Logout(t) PROVE Guarded'
  BY <1>4 DEF Logout, TypeOK, Holding, Guarded, Over, session, tickets, stream, wires
<1>5. ASSUME NEW k \in Tickets, NEW t \in Tokens, TicketAsked(k, t) PROVE Guarded'
  BY <1>5 DEF TicketAsked, Authorized, Kept, Expired, ClosedByPruning, Pruned, TypeOK, Holding, Guarded, Over, session, tickets, stream, wires
<1>6. ASSUME NEW k \in Tickets, TicketIssued(k) PROVE Guarded'
  BY <1>6 DEF TicketIssued, Kept, Expired, ClosedByPruning, Pruned, TypeOK, Holding, Guarded, Over, session, tickets, stream, wires
<1>7. ASSUME NEW k \in Tickets, TicketRefused(k) PROVE Guarded'
  BY <1>7 DEF TicketRefused, Consumed, Kept, Expired, ClosedByPruning, Pruned, TypeOK, Holding, Guarded, Over, session, tickets, stream, wires
<1>8. ASSUME NEW p \in Streams, NEW d \in Kinds, NEW t \in Tokens, StreamBySession(p, d, t) PROVE Guarded'
  BY <1>8 DEF StreamBySession, Authorized, Admit, Kept, Expired, ClosedByPruning, Pruned, TypeOK, Holding, Guarded, Over, session, tickets, stream, wires
<1>9. ASSUME NEW p \in Streams, NEW d \in Kinds, NEW k \in Tickets, StreamByTicket(p, d, k) PROVE Guarded'
  BY <1>9 DEF StreamByTicket, Admit, Consumed, Kept, Expired, ClosedByPruning, Pruned, TypeOK, Holding, Guarded, Over, session, tickets, stream, wires
<1>10. ASSUME NEW p \in Streams, Reserve(p) PROVE Guarded'
  BY <1>10 DEF Reserve, TypeOK, Holding, Guarded, Over, session, tickets, stream, wires
<1>11. ASSUME NEW p \in Streams, TooManyStreams(p) PROVE Guarded'
  BY <1>11 DEF TooManyStreams, TypeOK, Holding, Guarded, Over, session, tickets, stream, wires
<1>12. ASSUME NEW p \in Streams, Rejected(p) PROVE Guarded'
  BY <1>12 DEF Rejected, TypeOK, Holding, Guarded, Over, session, tickets, stream, wires
<1>13. ASSUME NEW p \in Streams, Upgrade(p) PROVE Guarded'
  BY <1>13 DEF Upgrade, Goto, Same, TypeOK, Holding, Guarded, Over, session, tickets, stream, wires
<1>14. ASSUME NEW p \in Streams, Protect(p) PROVE Guarded'
  BY <1>14 DEF Protect, pinSessionDone, Goto, Same, TypeOK, Holding, Guarded, Over, session, tickets, stream, wires
<1>15. ASSUME NEW p \in Streams, OpenSource(p) PROVE Guarded'
  BY <1>15 DEF OpenSource, pinSessionDone, Goto, Same, TypeOK, Holding, Guarded, Over, session, tickets, stream, wires
<1>16. ASSUME NEW p \in Streams, OpenFails(p) PROVE Guarded'
  BY <1>16 DEF OpenFails, Goto, Same, TypeOK, Holding, Guarded, Over, session, tickets, stream, wires
<1>17. ASSUME NEW p \in Streams, GuardFires(p) PROVE Guarded'
  BY <1>17 DEF GuardFires, Same, TypeOK, Holding, Guarded, Over, session, tickets, stream, wires
<1>18. ASSUME NEW p \in Streams, SourceGuardFires(p) PROVE Guarded'
  BY <1>18 DEF SourceGuardFires, Same, TypeOK, Holding, Guarded, Over, session, tickets, stream, wires
<1>19. ASSUME NEW p \in Streams, ClientCloses(p) PROVE Guarded'
  BY <1>19 DEF ClientCloses, Same, TypeOK, Holding, Guarded, Over, session, tickets, stream, wires
<1>20. ASSUME NEW p \in Streams, SourceEnds(p) PROVE Guarded'
  BY <1>20 DEF SourceEnds, Same, TypeOK, Holding, Guarded, Over, session, tickets, stream, wires
<1>21. ASSUME NEW p \in Streams, UpEnds(p) PROVE Guarded'
  BY <1>21 DEF UpEnds, Same, TypeOK, Holding, Guarded, Over, session, tickets, stream, wires
<1>22. ASSUME NEW p \in Streams, UpWriteFails(p) PROVE Guarded'
  BY <1>22 DEF UpWriteFails, Same, TypeOK, Holding, Guarded, Over, session, tickets, stream, wires
<1>23. ASSUME NEW p \in Streams, DownEnds(p) PROVE Guarded'
  BY <1>23 DEF DownEnds, DownStops, Same, TypeOK, Holding, Guarded, Over, session, tickets, stream, wires
<1>24. ASSUME NEW p \in Streams, DownWriteFails(p) PROVE Guarded'
  BY <1>24 DEF DownWriteFails, DownStops, Same, TypeOK, Holding, Guarded, Over, session, tickets, stream, wires
<1>25. ASSUME NEW p \in Streams, HandlerEnds(p) PROVE Guarded'
  BY <1>25 DEF HandlerEnds, Goto, Same, TypeOK, Holding, Guarded, Over, session, tickets, stream, wires
<1>26. ASSUME NEW p \in Streams, HandlerReturns(p) PROVE Guarded'
  BY <1>26 DEF HandlerReturns, Goto, Same, TypeOK, Holding, Guarded, Over, session, tickets, stream, wires
<1>27. ASSUME UNCHANGED vars PROVE Guarded'
  BY <1>27 DEF vars, TypeOK, Holding, Guarded, Over, session, tickets, stream, wires
<1> QED
  BY <1>1, <1>2, <1>3, <1>4, <1>5, <1>6, <1>7, <1>8, <1>9, <1>10, <1>11, <1>12, <1>13, <1>14, <1>15, <1>16, <1>17, <1>18, <1>19, <1>20, <1>21, <1>22, <1>23, <1>24, <1>25, <1>26, <1>27 DEF Next, HandlerStep, GuardStep, PumpStep

IndInv ==
    TypeOK /\ StreamCountExact /\ SessionChannels /\ Bound /\ Unused /\ Guarded

(* There is neither a session nor a stream at the start. *)
LEMMA InitInv == Init => IndInv
<1> SUFFICES ASSUME Init PROVE IndInv
  OBVIOUS
<1>1. TypeOK
  BY SessionConstants DEF Init, TypeOK, Kinds, Wire, Guard, Holding
<1>2. {p \in Streams : pc[p] \in Holding /\ kind[p] # "events"} = {}
  BY DEF Init, Holding
<1>3. StreamCountExact
  BY <1>2, FS_EmptySet, SessionConstants DEF Init, StreamCountExact
<1>4. SessionChannels /\ Bound /\ Unused /\ Guarded
  BY DEF Init, SessionChannels, Bound, Unused, Guarded
<1> QED
  BY <1>1, <1>3, <1>4 DEF IndInv

(* The invariant is inductive. *)
LEMMA StepInv == IndInv /\ [Next]_vars => IndInv'
<1> SUFFICES ASSUME IndInv, [Next]_vars PROVE IndInv'
  OBVIOUS
<1>1. StreamCountExact' /\ activeStreams' \in 0..MaxStreams
  BY CountKept DEF IndInv
<1>2. TypeOK'
  BY <1>1, TypeStep DEF IndInv
<1>3. SessionChannels' /\ Bound' /\ Unused' /\ Guarded'
  BY ChannelStep, BoundStep, UnusedStep, GuardedStep DEF IndInv
<1> QED
  BY <1>1, <1>2, <1>3 DEF IndInv

(* Sessions, tickets and streams keep their types; in particular no release *)
(* makes the counter negative.                                              *)
THEOREM SessionTypeCorrect == Spec => []TypeOK
<1>1. IndInv => TypeOK
  BY DEF IndInv
<1> QED
  BY <1>1, InitInv, StepInv, PTL DEF Spec

(* The limit of streams is kept and none is lost, on every way through the  *)
(* handlers.                                                                *)
THEOREM CountCorrect == Spec => []StreamCountExact
<1>1. IndInv => StreamCountExact
  BY DEF IndInv
<1> QED
  BY <1>1, InitInv, StepInv, PTL DEF Spec

(* A ticket admits at most one stream. *)
THEOREM TicketCorrect == Spec => []TicketOnce
<1>1. IndInv => TicketOnce
  BY DEF IndInv, Unused, TicketOnce
<1> QED
  BY <1>1, InitInv, StepInv, PTL DEF Spec

(* No channel is closed twice or left open. *)
THEOREM ChannelsCorrect == Spec => []SessionChannels
<1>1. IndInv => SessionChannels
  BY DEF IndInv
<1> QED
  BY <1>1, InitInv, StepInv, PTL DEF Spec

(* The end of a session reaches every stream that was opened on it, however *)
(* the two interleave.                                                      *)
THEOREM MissedCorrect == Spec => []NoStreamMissed
<1>1. IndInv => NoStreamMissed
  BY DEF IndInv, SessionChannels, Bound, Guarded, NoStreamMissed, Over
<1> QED
  BY <1>1, InitInv, StepInv, PTL DEF Spec

=============================================================================
