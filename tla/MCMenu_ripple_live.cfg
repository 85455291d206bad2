\* Stopped ripples are destroyed by later paints.
CONSTANTS
    Skip = 1
    ItemHeight = 2
    SeparatorHeight = 1
    WidthMin = 4
    WidthMax = 9
    PadLeft = 1
    PadRight = 1
    ArrowWidth = 1
    ShortcutWidth = 2
    ToggleWidth = 3
    ToggleShift = 1
    MaxActions = 2
    ActionChoices <- MCActionChoices
    ActionVariants <- MCNoVariants
    ForceWidths <- MCNoForceWidths
    Positions <- MCPointer
SPECIFICATION FairSpec
PROPERTY RippleEventuallyFreed
