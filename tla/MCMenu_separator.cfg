\* Enter on a keyboard-opened menu whose first item is a separator.
CONSTANTS
    Skip = 1
    ItemHeight = 2
    SeparatorHeight = 1
    WidthMin = 4
    WidthMax = 9
    PadLeft = 1
    PadRight = 1
    ArrowWidth = 1
    ShortcutWidth = 2
    ToggleWidth = 3
    ToggleShift = 1
    MaxActions = 3
    ActionChoices <- MCActionChoices
    ActionVariants <- MCNoVariants
    ForceWidths <- MCNoForceWidths
    Positions <- MCPointer
SPECIFICATION Spec
INVARIANT SeparatorNeverTriggered
