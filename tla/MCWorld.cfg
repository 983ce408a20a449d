\* Three players compete for two rooms of two seats.
CONSTANTS
    Players = {1, 2, 3}
    SeatCount = 2
    Teams = {1, 2}
    AdventureLimit = 2
    Backgrounds = {0}
    RoomIDs = {1, 2}
    SettingChoices <- OneMap
    RuleChoices = {FALSE}
    StartOptions <- OrdinaryStarts
    MaxGames = 2
SPECIFICATION Spec
INVARIANTS TypeOK MembershipAgrees NoGhostRoom LobbyAgrees PresenceAgrees GamesDistinct
PROPERTIES MatchLifecycle MatchKeepsRoster
