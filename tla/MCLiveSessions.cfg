\* Two connections of a client and its shop connection, entering one at a time.
CONSTANTS
    first = first
    second = second
    third = third
    home = home
    Conns = {first, second, third}
    Hosts <- Home
    hostOf <- OneHost
    Shops = {third}
    Serial = TRUE
SPECIFICATION FairSpec
INVARIANTS TypeOK OneOwner
PROPERTIES PresenceOutlivesOwner OnlyShopsBlockDepartures
CHECK_DEADLOCK FALSE
