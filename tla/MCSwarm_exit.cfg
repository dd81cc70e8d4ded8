\* An agent launched while exit() stops the others: ExitAlwaysReturns does not
\* hold (README, section 6).
CONSTANTS
    Agent = {a1, a2}
    Main = Main
    Chan = Chan
    Nobody = Nobody
    MaxPending = 1
SPECIFICATION FairSpec
PROPERTY ExitAlwaysReturns
CHECK_DEADLOCK FALSE
