\* Three IN URBs of which two may wait, four bytes of data, two unlinks.
SPECIFICATION Spec
CONSTANTS
    Length = 2
    MaxPending = 2
    MaxBuffered = 2
    MaxUrbs = 3
    MaxUnlinks = 2
    MaxBytes = 4
INVARIANT UrbsAnswered
PROPERTY NoneForgotten
CHECK_DEADLOCK FALSE
