\* A request (r1), the top level (r2) and two agents, three threads at most:
\* one run with two agents, nested or not, and two runs with an agent of either.
CONSTANTS
    Key = {k1}
    Run = {r1, r2}
    NoRun = NoRun
    Val = {r1, r2, NoRun}
    MaxAgents = 2
    Absent = Absent
    Live = Live
    Agent = {a1, a2}
    Preamble = r2
    MaxSignals = 1
    MaxThreads = 3
SPECIFICATION FairSpec
INVARIANTS OutcomeIsRight ThreadsKeepRunOpen UndoneLeavesNoEntry UndoneLeavesNoSignal
PROPERTY RunsResolve
CHECK_DEADLOCK FALSE
