\* Two registrations of one name or of two, both inside schedule() at once if they like.
CONSTANTS
    Job = {j1, j2}
    Name = {n1, n2}
    NoJob = NoJob
    MaxRegistrars = 2
    MaxTicks = 3
SPECIFICATION FairSpec
INVARIANTS OrphansOverlapped StartedOnce
PROPERTIES KeepsFiring CancelledEnds
