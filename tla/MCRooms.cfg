\* One room of three seats, with seat locks, every start option and weddings.
CONSTANTS
    Players = {1, 2, 3}
    SeatCount = 3
    Teams = {1, 2}
    AdventureLimit = 2
    Backgrounds = {0}
    RoomIDs = {1}
    SettingChoices <- EveryMap
    RuleChoices = {FALSE, TRUE}
    StartOptions <- AllStarts
    MaxGames = 1
SPECIFICATION Spec
INVARIANT RoomsSound
PROPERTY WeddingKeepsPair
