\* Connections of one host that are bound at the same time.
CONSTANTS
    first = first
    second = second
    third = third
    home = home
    Conns = {first, second, third}
    Hosts <- Home
    hostOf <- OneHost
    Shops = {third}
    Serial = FALSE
SPECIFICATION Spec
INVARIANT OneOwner
CHECK_DEADLOCK FALSE
