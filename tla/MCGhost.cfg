\* One room, and lobby presences that vanish under a player in it.
CONSTANTS
    Players = {1, 2}
    SeatCount = 2
    Teams = {1, 2}
    AdventureLimit = 2
    Backgrounds = {0}
    RoomIDs = {1}
    SettingChoices <- OneMap
    RuleChoices = {FALSE}
    StartOptions <- OrdinaryStarts
    MaxGames = 0
SPECIFICATION GhostSpec
INVARIANT DepartureLeavesNoGhost
