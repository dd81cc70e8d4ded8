\* Four items over three workers, every set of failing items.
SPECIFICATION FairSpec
CONSTANTS
    N = 4
    Limit = 3
INVARIANTS ThawedAlone ItemsRunOnce ResultIsRight
PROPERTY Returns
CHECK_DEADLOCK FALSE
