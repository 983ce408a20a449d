\* A client that enters with one connection at a time.
CONSTANTS
    first = first
    second = second
    third = third
    home = home
    Conns = {first, second, third}
    Hosts <- Home
    hostOf <- OneHost
    Shops = {third}
    Serial = TRUE
SPECIFICATION Spec
INVARIANT RoomIsProjected
CHECK_DEADLOCK FALSE
