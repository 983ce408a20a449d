\* A connection of a client and its shop connection.
CONSTANTS
    first = first
    second = second
    third = third
    home = home
    Conns = {first, third}
    Hosts <- Home
    hostOf <- OneHost
    Shops = {third}
    Serial = TRUE
SPECIFICATION FairSpec
PROPERTY DepartureEnds
CHECK_DEADLOCK FALSE
