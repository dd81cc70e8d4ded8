\* Three runs interleaving on one key: chains of up to three versions.
CONSTANTS
    Key = {k1}
    Val = {v1, v2}
    Run = {r1, r2, r3}
    NoRun = NoRun
    Absent = Absent
    Live = Live
    MaxAgents = 1
SYMMETRY Symmetric
SPECIFICATION Spec
INVARIANTS ChainCompact RunStateMatchesThreads
PROPERTY ImplementsJournal
