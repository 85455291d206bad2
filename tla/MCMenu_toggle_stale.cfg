\* The owner disables or re-enables the selected checkable item through
\* actionChanged.
CONSTANTS
    Skip = 1
    ItemHeight = 2
    SeparatorHeight = 1
    WidthMin = 4
    WidthMax = 9
    PadLeft = 1
    PadRight = 1
    ArrowWidth = 1
    ShortcutWidth = 2
    ToggleWidth = 3
    ToggleShift = 1
    MaxActions = 2
    ActionChoices <- MCActionChoices
    ActionVariants <- MCActionVariants
    ForceWidths <- MCNoForceWidths
    Positions <- MCPointer
SPECIFICATION Spec
INVARIANT ToggleStyleConsistent
