\* Opens never fail, so only a crash inside a write can damage a file.
CONSTANTS
    MaxChanges = 2
    MaxRuns = 1
    Window = 1
    OpenCanFail = FALSE
SPECIFICATION Spec
PROPERTY SavedSettingsLoaded
CHECK_DEADLOCK FALSE
