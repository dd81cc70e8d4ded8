SPECIFICATION Spec
CONSTANTS
    Fixed = {f1, f2}
    Extra = {x1, x2}
    Submitter = {s1, s2}
    MaxQueued = 2
INVARIANTS
    CountersExact
    NoLostWakeup
    JobsGetThreads
PROPERTIES
    Settles
