\* Equal values and deltas: UndoSparesOthers does not hold (README, section 6).
SPECIFICATION StateSpec
CONSTANTS
    r1 = r1
    r2 = r2
    t1 = t1
    t2 = t2
    t3 = t3
    Request = {r1, r2}
    Outside = Outside
    Key = {k1}
    Absent = Absent
    Text = {t1, t2, t3}
    Writes <- OwnTextsAndNumbers
    Step = {1}
    MaxOps <- ThreeTwoTwo
PROPERTY UndoSparesOthers
CHECK_DEADLOCK FALSE
