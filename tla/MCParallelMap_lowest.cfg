\* A lower item passed over: LowestError does not hold (README, section 6).
SPECIFICATION FairSpec
CONSTANTS
    N = 2
    Limit = 2
INVARIANT LowestError
CHECK_DEADLOCK FALSE
