SPECIFICATION Spec
CONSTANTS
    Sessions <- ThreeSessions
    Absent = Absent
    Empty = Empty
    Broken = Broken
    MaxKills = 2
    s1 = s1
    s2 = s2
    s3 = s3
INVARIANTS
    TornHasCause
    AloneIsAnswered
PROPERTIES
    TornForEver
CHECK_DEADLOCK FALSE
