\* Two writes inside one timer window, no failures, one lifetime.
CONSTANTS
    MaxChanges = 2
    MaxRuns = 0
    Window = 2
    OpenCanFail = FALSE
SPECIFICATION Spec
PROPERTY DebounceAfterInactivity
CHECK_DEADLOCK FALSE
