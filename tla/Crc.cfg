SPECIFICATION Spec
CONSTANTS
    MaxLen = 2
INVARIANTS
    CrcIsRemainder
    ChangeIsSeen
CHECK_DEADLOCK FALSE
