\* One session, one ticket and two streams of which one may be a container's.
SPECIFICATION FairSpec
CONSTANTS
    Tokens = {t1}
    Tickets = {k1}
    Streams = {p1, p2}
    NoToken = NoToken
    MaxStreams = 1
    IdleAge = 1
    TicketAge = 1
    MaxTime = 2
INVARIANTS
    StreamCountExact
    TicketOnce
    SessionChannels
    NoStreamMissed
PROPERTY
    StreamsEnd
CHECK_DEADLOCK FALSE
