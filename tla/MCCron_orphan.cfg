\* Two registrations of one name: NoOrphanJob does not hold (README, section 6).
CONSTANTS
    Job = {j1, j2}
    Name = {n1}
    NoJob = NoJob
    MaxRegistrars = 2
    MaxTicks = 3
SPECIFICATION FairSpec
INVARIANT NoOrphanJob
