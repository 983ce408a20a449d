\* Three accounts with one coin each and four operations at a time.
CONSTANTS
    Accounts = {1, 2, 3}
    Operations <- MCOperations
    Touches <- MCTouches
    Gain <- MCGain
    Kind <- MCKind
    Purse = 1
SPECIFICATION Spec
INVARIANTS TypeOK AnswersAreTrue ShowsOnlyStored
PROPERTIES LedgerSpec EveryOperationEnds
CHECK_DEADLOCK FALSE
