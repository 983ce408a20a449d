\* Two shards with mailboxes of two commands each.
CONSTANTS
    a = a
    b = b
    c = c
    d = d
    Calls <- MCCalls
    Rooms <- MCRooms
    roomOf <- MCRoomOf
    Departures <- MCDepartures
    ShardCount = 2
    QueueSize = 2
SPECIFICATION FairSpec
INVARIANTS TypeOK AloneMeansDrained
PROPERTIES EveryCallReturns CloseReturns LanesSpec AcceptedIsServed
CHECK_DEADLOCK FALSE
