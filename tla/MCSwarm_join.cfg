\* Two agents: main launches one and that one, or main, launches the other.
CONSTANTS
    Agent = {a1, a2}
    Main = Main
    Chan = Chan
    Nobody = Nobody
    MaxPending = 1
SPECIFICATION FairSpec
INVARIANTS AllJoined CutIsWithheld EarlyErrorsReported
PROPERTIES StoppedAgentsEnd ExitReturns
CHECK_DEADLOCK FALSE
