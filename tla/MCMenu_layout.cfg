\* Hit testing, keyboard navigation, menu geometry and text elision over
\* every action list reachable by appends, clears, action changes and
\* forced widths above widthMax.
CONSTANTS
    Skip = 1
    ItemHeight = 2
    SeparatorHeight = 1
    WidthMin = 4
    WidthMax = 9
    PadLeft = 1
    PadRight = 1
    ArrowWidth = 1
    ShortcutWidth = 2
    ToggleWidth = 3
    ToggleShift = 1
    MaxActions = 3
    ActionChoices <- MCActionChoices
    ActionVariants <- MCActionVariants
    ForceWidths <- MCForceWidthsOverMax
    Positions <- MCOutside
SPECIFICATION Spec
INVARIANT HitTestMatchesGeometry
INVARIANT KeyNavMatchesReference
INVARIANT GeometryMatchesActions
INVARIANT TextElidedOnlyPastMax
