------------------------------- MODULE MCMenu -------------------------------
(* Model values for Menu: a small style and four kinds of QAction.         *)
EXTENDS Menu

Item(tw, sc, sub, chk, en) ==
    [separator |-> FALSE, textWidth |-> tw, shortcut |-> sc,
     submenu |-> sub, checkable |-> chk, enabled |-> en]

Sep == [separator |-> TRUE, textWidth |-> 0, shortcut |-> FALSE,
        submenu |-> FALSE, checkable |-> FALSE, enabled |-> TRUE]
SubItem == Item(2, FALSE, TRUE, FALSE, TRUE)    \* opens a submenu
CheckItem == Item(2, FALSE, FALSE, TRUE, TRUE)  \* checkable, with a toggle
WideItem == Item(5, TRUE, FALSE, TRUE, FALSE)   \* disabled, shortcut, wider than widthMax

MCActionChoices == {Sep, SubItem, CheckItem, WideItem}

\* setEnabled / setText / setCheckable on an existing action
MCActionVariants ==
    MCActionChoices \cup
    {Item(2, FALSE, FALSE, TRUE, FALSE),   \* CheckItem disabled
     Item(5, TRUE, FALSE, TRUE, TRUE),     \* WideItem enabled
     Item(2, FALSE, FALSE, FALSE, TRUE),   \* CheckItem no longer checkable
     Item(0, FALSE, TRUE, FALSE, TRUE)}    \* SubItem with its text cleared

MCNoVariants == {}
MCNoForceWidths == {}
MCPositions == -1 .. 8
MCOutside == {-1}
MCPointer == {-1, 0, 1, 2, 4, 6}
MCForceWidth == {12}
\* forced widths above widthMax: the wide item's need lies below one and
\* above the other, so addAction's std::clamp gets lo > hi both ways
MCForceWidthsOverMax == {12, 14}

\* The menu implements the abstract selection machine of MenuSelection.
Selection == INSTANCE MenuSelection
    WITH MaxCount <- MaxActions, count <- Len(actions), sel <- selected,
         pr <- pressed, trig <- triggered.idx

\* Every step of the menu, whichever handler takes it, is a step of the
\* abstract selection machine: indices stay valid, a press presses the
\* selection, and a release triggers only the item still pressed and
\* selected.
MenuSelectionRefined == Selection!Spec
=============================================================================
