SPECIFICATION Spec
CONSTANTS
    MaxHeld = 4
INVARIANTS
    ClientIsSafe
    HeldIsAlive
    NothingLeaks
CHECK_DEADLOCK FALSE
