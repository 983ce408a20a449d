\* One adventure of two players on one map; sessions are never busy, the store never refuses.
CONSTANTS
    Players = {1, 2}
    SeatCount = 2
    Teams = {1, 2}
    AdventureLimit = 2
    Backgrounds = {0}
    Types = {"adventure"}
    MapRules = {}
    Stages = 1
    NPCs = {1}
    MaxGames = 1
    Busy = {}
    Claims = {FALSE, TRUE}
    Refusals = {}
    StoreFails = FALSE
SPECIFICATION Spec
PROPERTY VictorySurvivesDeparture
CHECK_DEADLOCK FALSE
