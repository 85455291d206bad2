-------------------------------- MODULE Menu --------------------------------
(***************************************************************************)
(* The popup-menu widget Ui::Menu (src/ui/widgets/menu.cpp).              *)
(*                                                                         *)
(* The menu owns an ordered list of QActions and, parallel to it, one     *)
(* ActionData per action (submenu flag, toggle view, ripple animation).   *)
(* It tracks the selected and the pressed item (0-based, -1 for none),    *)
(* whether the selection follows the mouse, its own width and height,     *)
(* and fires the "triggered" callback to its owner.  Every handler runs   *)
(* on the UI thread, so each action below is one whole handler.           *)
(*                                                                         *)
(* Geometry is kept along the vertical axis only: the pointer is a local  *)
(* y coordinate (the menu sits at the origin), x is always inside.        *)
(* Text is abstracted to its measured width; 0 stands for empty text.     *)
(***************************************************************************)
EXTENDS Integers, Sequences, SequencesExt

CONSTANTS
    Skip,            \* _st.skip: padding strip above and below the items
    ItemHeight,      \* _itemHeight
    SeparatorHeight, \* _separatorHeight
    WidthMin, WidthMax,                  \* _st.widthMin, _st.widthMax
    PadLeft, PadRight,                   \* _st.itemPadding left / right
    ArrowWidth, ShortcutWidth,           \* _st.arrow.width(), shortcut text
    ToggleWidth, ToggleShift,            \* toggle size, _st.itemToggleShift
    ActionChoices,   \* QActions the owner may append
    ActionVariants,  \* what a QAction may turn into when it emits changed()
    ForceWidths,     \* values the owner may pass to setForceWidth
    Positions,       \* pointer y positions, inside and outside the menu
    MaxActions       \* bound: length of the action list

ASSUME WidthMin <= WidthMax

Mouse == "Mouse"
Keyboard == "Keyboard"
Sources == {Mouse, Keyboard}   \* TriggeredSource
Keys == {"Enter", "Forward", "Up", "Down"}  \* Forward: Right, or Left in RTL
NoTrigger == [idx |-> -1, src |-> "none"]

VARIABLES
    actions,        \* _actions: the QActions' properties
    data,           \* _actionsData
    selected,       \* _selected
    pressed,        \* _pressed
    mouseSelection, \* _mouseSelection
    childShown,     \* _childShown, set by the owning PopupMenu
    cursor,         \* QCursor::pos(), mapped to the menu's y axis
    width, height,  \* the widget's size
    forceWidth,     \* _forceWidth
    triggered       \* the _triggeredCallback fired by the last step

vars == <<actions, data, selected, pressed, mouseSelection, childShown,
          cursor, width, height, forceWidth, triggered>>

Act(acts, i) == acts[i + 1]        \* 0-based indexing as in the code
ActionHeight(a) == IF a.separator THEN SeparatorHeight ELSE ItemHeight
Selectable(acts, i) ==
    0 <= i /\ i < Len(acts) /\ Act(acts, i).enabled /\ ~Act(acts, i).separator

-----------------------------------------------------------------------------
(* Layout: processAction and the width rule.                               *)

\* goodw of processAction: the width the item asks for
GoodWidth(a) ==
    PadLeft + a.textWidth + PadRight
    + (IF a.submenu THEN PadRight + ArrowWidth
       ELSE IF a.shortcut THEN PadRight + ShortcutWidth ELSE 0)
    + (IF a.checkable THEN PadRight + ToggleWidth - ToggleShift ELSE 0)

\* std::clamp(v, lo, hi) as libstdc++ computes it
StdClamp(v, lo, hi) == IF v < lo THEN lo ELSE IF hi < v THEN hi ELSE v

\* Defect: the item's need is not capped at widthMax.
ProcessWidthNoMax(a, w) ==
    IF a.separator \/ a.textWidth = 0 THEN w
    ELSE IF GoodWidth(a) > w THEN GoodWidth(a) ELSE w

ProcessWidth(a, w) ==
    IF a.separator \/ a.textWidth = 0 THEN w
    ELSE StdClamp(GoodWidth(a), w, WidthMax)

\* Defect: the text width is taken from the width before the clamp.
ProcessDataUnclamped(a, d, w) ==
    IF a.separator \/ a.textWidth = 0 THEN d
    ELSE [d EXCEPT !.toggle = IF a.checkable
                              THEN IF @ = "none" THEN "normal" ELSE @
                              ELSE "none",
                   !.textWidth = w - (GoodWidth(a) - a.textWidth)]

\* processAction's effect on the item's ActionData, given the running
\* width w: the toggle view, and data.textWidth, the room left for the
\* text (its elision width) once the clamped width is known.  An empty
\* text or a separator keeps its old textWidth.
ProcessData(a, d, w) ==
    IF a.separator \/ a.textWidth = 0 THEN d
    ELSE [d EXCEPT !.toggle = IF a.checkable
                              THEN IF @ = "none" THEN "normal" ELSE @
                              ELSE "none",
                   !.textWidth = ProcessWidth(a, w) - (GoodWidth(a) - a.textWidth)]

NewData(a) == [hasSubmenu |-> a.submenu, toggle |-> "none", textWidth |-> 0,
               rippleObj |-> FALSE, rippleHeld |-> 0, rippleHiding |-> FALSE]

ActionsWidth(acts) == FoldLeft(LAMBDA w, a : ProcessWidth(a, w), WidthMin, acts)

-----------------------------------------------------------------------------
(* Hit testing and keyboard navigation, as the code's loops compute them.  *)

\* the while loop of updateSelected over local y - skip
\* Defect: the scan stops one row early (top < p instead of top <= p).
HitScanEarly(acts, p) ==
    LET RECURSIVE Scan(_, _)
        Scan(sel, top) ==
            IF top >= p THEN sel
            ELSE IF sel + 1 < Len(acts)
                 THEN Scan(sel + 1, top + ActionHeight(Act(acts, sel + 1)))
                 ELSE sel + 1
    IN Scan(-1, 0)

HitScan(acts, p) ==
    LET RECURSIVE Scan(_, _)
        Scan(sel, top) ==
            IF top > p THEN sel
            ELSE IF sel + 1 < Len(acts)
                 THEN Scan(sel + 1, top + ActionHeight(Act(acts, sel + 1)))
                 ELSE sel + 1
    IN Scan(-1, 0)

HitTarget(acts, y) ==
    LET s == HitScan(acts, y - Skip)
    IN IF Selectable(acts, s) THEN s ELSE -1

\* the do/while loop of handleKeyPress for Up (delta = -1) and Down (+1)
\* Defect: from no selection both directions start the scan at item 0.
NavTargetStartZero(acts, sel, delta) ==
    LET n == Len(acts)
        start == IF sel < 0 \/ sel >= n THEN 0 ELSE sel
        Wrap(i) == IF i < 0 THEN i + n ELSE IF i >= n THEN i - n ELSE i
        RECURSIVE Loop(_)
        Loop(cur) == LET nx == Wrap(cur + delta)
                     IN IF nx # start /\ ~Selectable(acts, nx)
                        THEN Loop(nx) ELSE nx
    IN Loop(start)

NavTarget(acts, sel, delta) ==
    LET n == Len(acts)
        start == IF sel < 0 \/ sel >= n
                 THEN (IF delta > 0 THEN n - 1 ELSE 0) ELSE sel
        Wrap(i) == IF i < 0 THEN i + n ELSE IF i >= n THEN i - n ELSE i
        RECURSIVE Loop(_)
        Loop(cur) == LET nx == Wrap(cur + delta)
                     IN IF nx # start /\ ~Selectable(acts, nx)
                        THEN Loop(nx) ELSE nx
    IN Loop(start)

-----------------------------------------------------------------------------
(* The interaction state as one record, so that handlers that call one    *)
(* another compose as in the code.                                         *)

Cur == [acts |-> actions, data |-> data, sel |-> selected, pr |-> pressed,
        msel |-> mouseSelection, trig |-> NoTrigger]

Commit(st) ==
    /\ actions' = st.acts
    /\ data' = st.data
    /\ selected' = st.sel
    /\ pressed' = st.pr
    /\ mouseSelection' = st.msel
    /\ triggered' = st.trig

\* toggle->setStyle(_st.itemToggle) for item i unless it is still `other`
ToggleRest(st, i, other) ==
    IF i >= 0 /\ i # other /\ st.data[i + 1].toggle # "none"
    THEN [st EXCEPT !.data[i + 1].toggle = "normal"] ELSE st

\* toggle->setStyle(_st.itemToggleOver) for item i if it is enabled
ToggleOver(st, i) ==
    IF i >= 0 /\ st.data[i + 1].toggle # "none" /\ Act(st.acts, i).enabled
    THEN [st EXCEPT !.data[i + 1].toggle = "over"] ELSE st

\* Defect: the previously selected item's toggle keeps its hover style.
SetSelectedNoRest(st, s) ==
    LET v == IF s >= Len(st.acts) THEN -1 ELSE s
    IN IF st.sel = v THEN st
       ELSE ToggleOver([st EXCEPT !.sel = v], v)

SetSelected(st, s) ==
    LET v == IF s >= Len(st.acts) THEN -1 ELSE s
    IN IF st.sel = v THEN st
       ELSE ToggleOver([ToggleRest(st, st.sel, st.pr) EXCEPT !.sel = v], v)

SetPressed(st, p) ==
    LET v == IF p >= Len(st.acts) THEN -1 ELSE p
    IN IF st.pr = v THEN st
       ELSE ToggleOver([ToggleRest(st, st.pr, st.sel) EXCEPT !.pr = v], v)

UpdateSelected(st, y) ==
    IF ~st.msel THEN st ELSE SetSelected(st, HitTarget(st.acts, y))

ClearSelection(st) == SetSelected([st EXCEPT !.msel = FALSE], -1)

ClearMouseSelection(st, child) ==
    IF st.msel /\ ~child THEN ClearSelection(st) ELSE st

InInner(y, h) == Skip <= y /\ y < h - Skip   \* rect() minus the skip strips
InRect(y, h) == 0 <= y /\ y < h

\* Defect: _mouseSelection is raised after updateSelected has run.
HandleMouseMoveLateFlag(st, y, child, h) ==
    IF InInner(y, h) THEN [UpdateSelected(st, y) EXCEPT !.msel = TRUE]
    ELSE ClearMouseSelection(st, child)

HandleMouseMove(st, y, child, h) ==
    IF InInner(y, h) THEN UpdateSelected([st EXCEPT !.msel = TRUE], y)
    ELSE ClearMouseSelection(st, child)

\* Defect: the trigger fires without checking that the pressed item is
\* still the selected one.
ItemReleasedAnySelection(st, src) ==
    IF st.pr < 0 \/ st.pr >= Len(st.acts) THEN st
    ELSE LET p == st.pr
             s1 == SetPressed(st, -1)
             s2 == IF src = Mouse /\ s1.data[p + 1].rippleObj
                   THEN [s1 EXCEPT
                          !.data[p + 1].rippleHeld = 0,
                          !.data[p + 1].rippleHiding = TRUE]
                   ELSE s1
         IN [s2 EXCEPT !.trig = [idx |-> p, src |-> src]]

ItemReleased(st, src) ==
    IF st.pr < 0 \/ st.pr >= Len(st.acts) THEN st
    ELSE LET p == st.pr
             s1 == SetPressed(st, -1)
             s2 == IF src = Mouse /\ s1.data[p + 1].rippleObj
                   THEN [s1 EXCEPT
                          !.data[p + 1].rippleHeld = 0,
                          !.data[p + 1].rippleHiding = TRUE]
                   ELSE s1
         IN IF p = s2.sel THEN [s2 EXCEPT !.trig = [idx |-> p, src |-> src]]
            ELSE s2

\* itemPressed: a mouse press adds a ripple to the pressed item;
\* RippleAnimation::add stops the item's last ripple before adding one, so
\* an item holds at most one unstopped ripple.
ItemPressed(st, src) ==
    IF src = Mouse /\ ~st.msel THEN st
    ELSE IF ~(st.sel >= 0 /\ st.sel < Len(st.acts) /\ Act(st.acts, st.sel).enabled)
    THEN st
    ELSE LET s1 == SetPressed(st, st.sel)
         IN IF src = Mouse
            THEN [s1 EXCEPT !.data[s1.pr + 1].rippleObj = TRUE,
                            !.data[s1.pr + 1].rippleHiding =
                                @ \/ s1.data[s1.pr + 1].rippleHeld = 1,
                            !.data[s1.pr + 1].rippleHeld = 1]
            ELSE ItemReleased(s1, Keyboard)

HandleKeyPress(st, key) ==
    LET n == Len(st.acts) IN
    CASE key = "Enter" -> ItemPressed(st, Keyboard)
      [] key = "Forward" ->
            IF st.sel >= 0 /\ st.data[st.sel + 1].hasSubmenu
            THEN ItemPressed(st, Keyboard)
            ELSE IF st.sel < 0 /\ n > 0
                 THEN SetSelected([st EXCEPT !.msel = FALSE], 0)
                 ELSE st
      [] key \in {"Up", "Down"} ->
            IF n = 0 THEN st
            ELSE LET t == NavTarget(st.acts, st.sel, IF key = "Down" THEN 1 ELSE -1)
                 IN IF Selectable(st.acts, t)
                    THEN SetSelected([st EXCEPT !.msel = FALSE], t)
                    ELSE st

-----------------------------------------------------------------------------
(* Handlers.                                                               *)

Init ==
    /\ actions = <<>>
    /\ data = <<>>
    /\ selected = -1
    /\ pressed = -1
    /\ mouseSelection = FALSE
    /\ childShown = FALSE
    /\ cursor \in Positions
    /\ forceWidth = 0
    /\ width = WidthMin          \* init(): resize(widthMin, skip * 2)
    /\ height = 2 * Skip
    /\ triggered = NoTrigger

\* addAction(action, icon, iconOver), with the trailing updateSelected
AddAction(a) ==
    /\ Len(actions) < MaxActions
    /\ LET acts == Append(actions, a)
           startWidth == IF width > WidthMin THEN width ELSE WidthMin
           st == [Cur EXCEPT !.acts = acts,
                             !.data = Append(data, ProcessData(a, NewData(a),
                                                               startWidth))]
           newWidth == ProcessWidth(a, startWidth)
       IN /\ Commit(UpdateSelected(st, cursor))
          /\ width' = IF forceWidth # 0 THEN forceWidth ELSE newWidth
          /\ height' = height + ActionHeight(a)
    /\ UNCHANGED <<childShown, cursor, forceWidth>>

\* Defect: clearActions() drops the actions without resetting the indices.
ClearActionsKeepIndices ==
    /\ Commit([Cur EXCEPT !.acts = <<>>, !.data = <<>>])
    /\ width' = IF forceWidth # 0 THEN forceWidth ELSE WidthMin
    /\ height' = 2 * Skip
    /\ UNCHANGED <<childShown, cursor, forceWidth>>

\* Defect: clearActions() forgets _actionsData.clear().
ClearActionsKeepData ==
    /\ LET st == SetPressed(SetSelected(Cur, -1), -1)
       IN Commit([st EXCEPT !.acts = <<>>])
    /\ width' = IF forceWidth # 0 THEN forceWidth ELSE WidthMin
    /\ height' = 2 * Skip
    /\ UNCHANGED <<childShown, cursor, forceWidth>>

\* clearActions(): selection and press reset before the lists are dropped
ClearActions ==
    /\ LET st == SetPressed(SetSelected(Cur, -1), -1)
       IN Commit([st EXCEPT !.acts = <<>>, !.data = <<>>])
    /\ width' = IF forceWidth # 0 THEN forceWidth ELSE WidthMin
    /\ height' = 2 * Skip
    /\ UNCHANGED <<childShown, cursor, forceWidth>>

\* finishAnimating(): every ripple is dropped
FinishAnimating ==
    /\ data' = [i \in DOMAIN data |->
                  [data[i] EXCEPT !.rippleObj = FALSE, !.rippleHeld = 0,
                                  !.rippleHiding = FALSE]]
    /\ triggered' = NoTrigger
    /\ UNCHANGED <<actions, selected, pressed, mouseSelection, childShown,
                   cursor, width, height, forceWidth>>

\* QAction::changed -> actionChanged(): every item is laid out again from
\* widthMin; the selection and press are left as they are
ActionChanged(i, a) ==
    /\ i \in 0 .. Len(actions) - 1
    /\ a.separator = Act(actions, i).separator
    /\ a.submenu = Act(actions, i).submenu
    /\ a # Act(actions, i)
    /\ LET acts == [actions EXCEPT ![i + 1] = a]
           newWidth == ActionsWidth(acts)
       IN /\ actions' = acts
          /\ data' = [j \in DOMAIN data |->
                        ProcessData(acts[j], data[j],
                                    ActionsWidth(SubSeq(acts, 1, j - 1)))]
          /\ width' = IF newWidth # width /\ forceWidth = 0
                      THEN newWidth ELSE width
    /\ triggered' = NoTrigger
    /\ UNCHANGED <<selected, pressed, mouseSelection, childShown, cursor,
                   height, forceWidth>>

\* setShowSource(source)
SetShowSource(src) ==
    /\ LET st == [Cur EXCEPT !.msel = (src = Mouse)]
       IN Commit(SetSelected(st, IF src = Mouse \/ actions = <<>> THEN -1 ELSE 0))
    /\ UNCHANGED <<childShown, cursor, width, height, forceWidth>>

\* setForceWidth(forceWidth)
SetForceWidth(w) ==
    /\ forceWidth' = w
    /\ width' = w
    /\ triggered' = NoTrigger
    /\ UNCHANGED <<actions, data, selected, pressed, mouseSelection,
                   childShown, cursor, height>>

\* setChildShown(shown), called by the owning PopupMenu around a submenu
SetChildShown(b) ==
    /\ childShown' = b
    /\ triggered' = NoTrigger
    /\ UNCHANGED <<actions, data, selected, pressed, mouseSelection, cursor,
                   width, height, forceWidth>>

\* mouseMoveEvent -> handleMouseMove
MouseMove(y) ==
    /\ cursor' = y
    /\ Commit(HandleMouseMove(Cur, y, childShown, height))
    /\ UNCHANGED <<childShown, width, height, forceWidth>>

\* mousePressEvent -> handleMousePress
MousePress(y) ==
    /\ cursor' = y
    /\ LET st == HandleMouseMove(Cur, y, childShown, height)
       IN Commit(IF InRect(y, height) THEN ItemPressed(st, Mouse) ELSE st)
    /\ UNCHANGED <<childShown, width, height, forceWidth>>

\* mouseReleaseEvent -> handleMouseRelease
MouseRelease(y) ==
    /\ cursor' = y
    /\ Commit(ItemReleased(HandleMouseMove(Cur, y, childShown, height), Mouse))
    /\ UNCHANGED <<childShown, width, height, forceWidth>>

\* enterEventHook: the pointer enters at y
MouseEnter(y) ==
    /\ InRect(y, height)
    /\ cursor' = y
    /\ Commit(IF InInner(y, height) THEN Cur
              ELSE ClearMouseSelection(Cur, childShown))
    /\ UNCHANGED <<childShown, width, height, forceWidth>>

\* leaveEventHook: the pointer has left, to y
MouseLeave(y) ==
    /\ ~InRect(y, height)
    /\ cursor' = y
    /\ Commit(ClearMouseSelection(Cur, childShown))
    /\ UNCHANGED <<childShown, width, height, forceWidth>>

\* keyPressEvent -> handleKeyPress, when no key-press delegate consumed it
KeyPress(key) ==
    /\ Commit(HandleKeyPress(Cur, key))
    /\ UNCHANGED <<childShown, cursor, width, height, forceWidth>>

\* The ripple of item i finishes hiding (RippleAnimation's own timer).
RippleHidden(i) ==
    /\ i \in DOMAIN data
    /\ data[i].rippleHiding
    /\ data' = [data EXCEPT ![i].rippleHiding = FALSE]
    /\ triggered' = NoTrigger
    /\ UNCHANGED <<actions, selected, pressed, mouseSelection, childShown,
                   cursor, width, height, forceWidth>>

\* Defect: paintEvent never destroys an empty ripple.
PaintKeepRipple(i) ==
    /\ i \in DOMAIN data
    /\ UNCHANGED data
    /\ triggered' = NoTrigger
    /\ UNCHANGED <<actions, selected, pressed, mouseSelection, childShown,
                   cursor, width, height, forceWidth>>

\* paintEvent with a clip over item i: an empty ripple is destroyed
Paint(i) ==
    /\ i \in DOMAIN data
    /\ data' = IF data[i].rippleObj /\ data[i].rippleHeld = 0
                  /\ ~data[i].rippleHiding
               THEN [data EXCEPT ![i].rippleObj = FALSE] ELSE data
    /\ triggered' = NoTrigger
    /\ UNCHANGED <<actions, selected, pressed, mouseSelection, childShown,
                   cursor, width, height, forceWidth>>

Next ==
    \/ \E a \in ActionChoices : AddAction(a)
    \/ ClearActions
    \/ FinishAnimating
    \/ \E i \in 0 .. MaxActions - 1, a \in ActionVariants : ActionChanged(i, a)
    \/ \E src \in Sources : SetShowSource(src)
    \/ \E w \in ForceWidths : SetForceWidth(w)
    \/ \E b \in BOOLEAN : SetChildShown(b)
    \/ \E y \in Positions :
          MouseMove(y) \/ MousePress(y) \/ MouseRelease(y)
          \/ MouseEnter(y) \/ MouseLeave(y)
    \/ \E key \in Keys : KeyPress(key)
    \/ \E i \in 1 .. MaxActions : RippleHidden(i) \/ Paint(i)

\* The ripple's own animation timer and the repaint it requests run on the
\* event loop, which keeps turning while the menu is shown.
Fairness ==
    \A i \in 1 .. MaxActions : WF_vars(RippleHidden(i)) /\ WF_vars(Paint(i))

Spec == Init /\ [][Next]_vars
FairSpec == Spec /\ Fairness

-----------------------------------------------------------------------------
(* Properties.                                                             *)

ActionRecords == [separator : BOOLEAN, textWidth : Nat, shortcut : BOOLEAN,
                  submenu : BOOLEAN, checkable : BOOLEAN, enabled : BOOLEAN]
DataRecords == [hasSubmenu : BOOLEAN, toggle : {"none", "normal", "over"},
                textWidth : Int,
                rippleObj : BOOLEAN, rippleHeld : 0 .. 1,
                rippleHiding : BOOLEAN]

TypeOK ==
    /\ actions \in Seq(ActionRecords)
    /\ data \in Seq(DataRecords)
    /\ Len(data) = Len(actions)
    /\ selected \in Int /\ pressed \in Int
    /\ mouseSelection \in BOOLEAN /\ childShown \in BOOLEAN
    /\ cursor \in Positions
    /\ width \in Nat /\ height \in Nat /\ forceWidth \in Nat
    /\ triggered \in [idx : Int, src : Sources \cup {"none"}]

\* The selected and the pressed index are always -1 or index an existing
\* action, through appends, clearActions and every event handler.
IndicesValid ==
    /\ selected \in -1 .. Len(actions) - 1
    /\ pressed \in -1 .. Len(actions) - 1

\* While the selection follows the mouse, it is never a separator: every
\* path that sets _mouseSelection (handleMouseMove, setShowSource) and every
\* later append re-runs the hit test, and the keyboard paths that may select
\* a separator clear _mouseSelection first.
MouseSelectionNotSeparator ==
    mouseSelection /\ selected >= 0 => ~Act(actions, selected).separator

\* Reference geometry: the top of item i is the skip strip plus the heights
\* of the items before it.
RefItemTop(acts, i) ==
    Skip + FoldLeft(LAMBDA s, a : s + ActionHeight(a), 0, SubSeq(acts, 1, i))

\* updateSelected's linear scan selects, for every pointer position, exactly
\* the item whose vertical span contains it when that item is selectable,
\* and nothing otherwise (spec, testable property 3).
HitTestMatchesGeometry ==
    \A y \in -1 .. 2 * Skip + MaxActions * ItemHeight :
        LET span == {i \in 0 .. Len(actions) - 1 :
                       RefItemTop(actions, i) <= y
                       /\ y < RefItemTop(actions, i) + ActionHeight(Act(actions, i))}
        IN HitTarget(actions, y) =
              IF \E i \in span : Selectable(actions, i)
              THEN CHOOSE i \in span : TRUE ELSE -1

\* Up/Down navigation with wrap-around lands, from any selection, on the
\* nearest selectable item in that direction (Down from nothing: the first,
\* Up from nothing: the last) and on a non-selectable item only when no item
\* is selectable (spec, testable property 2).
KeyNavMatchesReference ==
    LET n == Len(actions)
        S == {i \in 0 .. n - 1 : Selectable(actions, i)}
        Dist(from, i, d) == LET k == ((i - from) * d) % n IN IF k = 0 THEN n ELSE k
        From(sel, d) == IF sel < 0 THEN (IF d > 0 THEN n - 1 ELSE 0) ELSE sel
    IN n > 0 /\ S # {} =>
         \A sel \in -1 .. n - 1, d \in {-1, 1} :
            NavTarget(actions, sel, d) =
               CHOOSE i \in S : \A j \in S :
                  Dist(From(sel, d), i, d) <= Dist(From(sel, d), j, d)

\* Reference width: the widest item's need clamped to widthMax, but never
\* less than widthMin; the height is the skip strips plus every item.
RefWidth(acts) ==
    LET needs == {IF GoodWidth(acts[i]) < WidthMax THEN GoodWidth(acts[i])
                  ELSE WidthMax :
                    i \in {j \in DOMAIN acts : ~acts[j].separator
                                               /\ acts[j].textWidth # 0}}
    IN CHOOSE w \in needs \cup {WidthMin} :
         \A v \in needs \cup {WidthMin} : w >= v

\* The menu's size always equals the layout rule over its current actions
\* (or the forced width), whether reached by appends computed incrementally,
\* by actionChanged's full recomputation or by setForceWidth.
GeometryMatchesActions ==
    /\ width = IF forceWidth # 0 THEN forceWidth ELSE RefWidth(actions)
    /\ height = 2 * Skip
                + FoldLeft(LAMBDA s, a : s + ActionHeight(a), 0, actions)

\* processAction elides an item's text (data.textWidth, the room left for
\* it, below the text's own maxWidth) only when the item asks for more
\* than widthMax: whether addAction laid it out from the menu's current,
\* possibly forced, width (where std::clamp may get lo > hi) or
\* actionChanged laid it out again from widthMin.
TextElidedOnlyPastMax ==
    \A i \in DOMAIN actions :
        /\ ~actions[i].separator /\ actions[i].textWidth # 0
        /\ data[i].textWidth < actions[i].textWidth
        => GoodWidth(actions[i]) > WidthMax

\* No toggle is left in hover style once its item is neither selected nor
\* pressed: setSelected and setPressed each hand the style back to rest,
\* except that neither rests an item the other still holds; clearActions,
\* actionChanged and the mouse paths must never leave an orphan hover.
NoStaleHover ==
    \A i \in DOMAIN data :
        data[i].toggle = "over" => i - 1 \in {selected, pressed}

\* A toggle shows its hover style exactly when its item is selected or
\* pressed and enabled, as setSelected and setPressed hand the style over.
ToggleStyleConsistent ==
    \A i \in DOMAIN data :
        data[i].toggle # "none" =>
           (data[i].toggle = "over"
              <=> (i - 1 \in {selected, pressed} /\ actions[i].enabled))

\* An unstopped ripple is only shown on the item the mouse holds pressed:
\* every mouse press is answered by the lastStop() of its release.
RippleHeldOnlyWhilePressed ==
    \A i \in DOMAIN data : data[i].rippleHeld > 0 => pressed = i - 1

\* The triggered callback never fires for a separator (separators are not
\* selectable).
SeparatorNeverTriggered ==
    triggered.idx >= 0 => ~Act(actions, triggered.idx).separator

\* The triggered callback only fires for an action that is enabled when it
\* fires: itemPressed requires isEnabled(), and itemReleased must not fire
\* for an action the owner disabled while it was held pressed.
TriggerOnlyEnabled ==
    triggered.idx >= 0 => Act(actions, triggered.idx).enabled

\* Once a ripple has stopped and finished hiding, its object is destroyed
\* by a later paint, unless the item is pressed again.
RippleEventuallyFreed ==
    \A i \in 1 .. MaxActions :
        (i \in DOMAIN data /\ data[i].rippleObj /\ data[i].rippleHeld = 0)
          ~> (i \notin DOMAIN data \/ ~data[i].rippleObj \/ data[i].rippleHeld > 0)
=============================================================================
