\* Two process lifetimes: start, up to three settings changes with writes,
\* clock ticks, timer timeouts, the final flush, a restart or a crash at
\* any point (also inside a file write); every file open may fail.
\* After the last lifetime the process exits, so a final state without
\* successors is expected.
CONSTANTS
    MaxChanges = 3
    MaxRuns = 1
    Window = 2
    OpenCanFail = TRUE
SPECIFICATION Spec
INVARIANT TypeOK
INVARIANT NoRequestedWriteLost
PROPERTY WriteEventuallyPersisted
CHECK_DEADLOCK FALSE
