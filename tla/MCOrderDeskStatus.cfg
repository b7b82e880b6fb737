SPECIFICATION Spec
CONSTANTS
    Items = {x, y}
    Absent = Absent
    MaxCalls = 2
    MaxEdits = 1
    MaxClicks = 3
INVARIANT
    AllSentIsDone
CHECK_DEADLOCK FALSE
