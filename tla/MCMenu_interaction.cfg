\* Selection, press, release and toggle styles over every interleaving of
\* pointer, keyboard and owner calls, action changes and a forced width;
\* Menu refines MenuSelection over all of them.
CONSTANTS
    Skip = 1
    ItemHeight = 2
    SeparatorHeight = 1
    WidthMin = 4
    WidthMax = 9
    PadLeft = 1
    PadRight = 1
    ArrowWidth = 1
    ShortcutWidth = 2
    ToggleWidth = 3
    ToggleShift = 1
    MaxActions = 2
    ActionChoices <- MCActionChoices
    ActionVariants <- MCActionVariants
    ForceWidths <- MCForceWidth
    Positions <- MCPointer
SPECIFICATION Spec
INVARIANT TypeOK
 
INVARIANT MouseSelectionNotSeparator
INVARIANT NoStaleHover
PROPERTY MenuSelectionRefined

