\* Every rule: two players against one, who may be an AI player; a boss party; a duel with layers.
CONSTANTS
    Fighters = {1, 2, 3}
    TeamIDs = {1, 3}
    Bosses = {101}
    BaseHP = 3
    Repair = 2
    Damages = {1, 2}
    Pieces = 2
    GemTarget = 1
    HitLimit = 3
    Hits <- MCHits
    Lineups <- MCLineups
    GemValues = {1, 2}
    MaxKills <- MCMaxKills
    MaxStored = 1
SPECIFICATION Spec
INVARIANTS TypeOK OpenRoundGoesOn VerdictSound TheDeadStayOut LayersAgree
PROPERTIES VerdictLocked LosersAreBeaten LossesAreFinal OneKillPerLife
CHECK_DEADLOCK FALSE
