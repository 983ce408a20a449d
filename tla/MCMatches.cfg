\* Two players, two games in a row, of two maps or with a boss.
CONSTANTS
    Players = {1, 2}
    SeatCount = 2
    Teams = {1, 2}
    AdventureLimit = 2
    Backgrounds = {0}
    Types <- AllTypes
    MapRules <- BothRules
    Stages = 2
    NPCs = {1}
    MaxGames = 2
    Busy = {2}
    Claims = {FALSE}
    Refusals = {1}
    StoreFails = TRUE
SPECIFICATION Spec
INVARIANTS TypeOK PaidOnce PlayersAreCounted NoLeak
PROPERTIES EveryPlayerIsPaid RoundsEnd
CHECK_DEADLOCK FALSE
