----------------------------- MODULE WindowHelper -----------------------------
(***************************************************************************)
(* One borderless window and its Ui::Platform::WindowHelper on Windows     *)
(* (ui/platform/win/ui_window_win.cpp).                                    *)
(*                                                                         *)
(* Window messages are handled synchronously, and a handler that calls a  *)
(* Win32 function may receive further messages before that call returns: *)
(* SetWindowPos in updateMargins sends WM_WINDOWPOSCHANGED and WM_SIZE    *)
(* back to the same handler.  As in Menu, every handler is an operator    *)
(* from a state record to the SET of its possible outcomes, so nested     *)
(* calls compose as they do in the C++; each action commits one outcome.  *)
(*                                                                         *)
(* Qt's own view of the window state, QWindow::windowState(), is updated  *)
(* from a queue of platform notifications that Qt delivers later; the     *)
(* handler reads it (line 218) and the system menu is refreshed from the  *)
(* windowStateChanged signal (line 135).                                  *)
(***************************************************************************)
EXTENDS Integers, Sequences

CONSTANTS
    SystemMenu,   \* the ids of the window's system menu items, in order
    MenuCanFail,  \* whether GetMenuItemInfo / SetMenuItemInfo may fail
    MaxQueue,     \* bound: pending platform state notifications in Qt
    MaxDepth      \* bound: nesting of WM_SIZE inside SetWindowPos

\* Qt::WindowNoState, Qt::WindowMaximized, Qt::WindowMinimized; the same
\* names stand for SIZE_RESTORED, SIZE_MAXIMIZED and SIZE_MINIMIZED.
States == {"normal", "maximized", "minimized"}

\* The Qt window state that each WM_COMMAND system command requests.
CommandState == [SC_MINIMIZE |-> "minimized", SC_MAXIMIZE |-> "maximized",
                 SC_RESTORE |-> "normal"]

VARIABLES
    placement,  \* GetWindowPlacement().showCmd / WS_MAXIMIZE, WS_MINIMIZE
    visible,    \* the window is shown (WM_SHOWWINDOW)
    qtState,    \* _window->windowHandle()->windowState()
    qtQueue,    \* platform state changes Qt has not delivered yet
    menu,       \* menu[i]: item i of _menu has MFS_DISABLED
    delta,      \* !_marginsDelta.isNull()
    shadow,     \* _shadow is "shown" or "hidden"
    shrinks,    \* SetWindowPos shrinks since _marginsDelta was last computed
    menuComplete \* ghost: the last updateSystemMenu ran to the last item

vars == <<placement, visible, qtState, qtQueue, menu, delta,
          shadow, shrinks, menuComplete>>

MenuIndices == 1 .. Len(SystemMenu)

Cur == [placement |-> placement, visible |-> visible, qtState |-> qtState,
        qtQueue |-> qtQueue, menu |-> menu, delta |-> delta,
        shadow |-> shadow, shrinks |-> shrinks, menuComplete |-> menuComplete,
        updating |-> FALSE, depth |-> 0]

Commit(s) ==
    /\ placement' = s.placement /\ visible' = s.visible
    /\ qtState' = s.qtState /\ qtQueue' = s.qtQueue /\ menu' = s.menu
    /\ delta' = s.delta /\ shadow' = s.shadow
    /\ shrinks' = s.shrinks /\ menuComplete' = s.menuComplete

-----------------------------------------------------------------------------
(* updateSystemMenu(state)                                                 *)

\* The command disabled for a window state (lines 401-405).
MenuToDisable(state) ==
    CASE state = "maximized" -> "SC_MAXIMIZE"
      [] state = "minimized" -> "SC_MINIMIZE"
      [] OTHER               -> "SC_RESTORE"

\* Defect: fState keeps the old MFS_DISABLED bit instead of clearing it.
ItemDisabledNoClear(id, disabled, state) ==
    IF id \in {"separator", "none", "SC_CLOSE"} THEN disabled
    ELSE \/ disabled
         \/ id = MenuToDisable(state)
         \/ id \notin {"SC_MINIMIZE", "SC_MAXIMIZE", "SC_RESTORE"}

\* The new MFS_DISABLED bit of one item; separators, id 0 and SC_CLOSE are
\* skipped.
ItemDisabled(id, disabled, state) ==
    IF id \in {"separator", "none", "SC_CLOSE"} THEN disabled
    ELSE id = MenuToDisable(state)
         \/ id \notin {"SC_MINIMIZE", "SC_MAXIMIZE", "SC_RESTORE"}

\* The loop breaks at the first item whose Get/SetMenuItemInfo fails;
\* stop = Len + 1 is a loop that ran to the end.
UpdateSystemMenu(s, state) ==
    LET Stops == IF MenuCanFail THEN 1 .. Len(SystemMenu) + 1
                 ELSE {Len(SystemMenu) + 1}
    IN { [s EXCEPT !.menu = [i \in MenuIndices |->
                     IF i < stop THEN ItemDisabled(SystemMenu[i], s.menu[i], state)
                     ELSE s.menu[i]],
                   !.menuComplete = (stop = Len(SystemMenu) + 1)]
         : stop \in Stops }

-----------------------------------------------------------------------------
(* Message handlers                                                        *)

\* WM_WINDOWPOSCHANGING / WM_WINDOWPOSCHANGED: a maximized or minimized
\* window hides its shadow; otherwise the shadow is moved and resized.
WindowPosChanged(s) ==
    IF s.placement \in {"maximized", "minimized"}
    THEN [s EXCEPT !.shadow = "hidden"] ELSE s

\* Defect: WM_SHOWWINDOW shows the shadow without looking at the style.
ShowWindowMsgNoStyle(s, shown) ==
    [s EXCEPT !.shadow = IF shown THEN "shown" ELSE "hidden"]

\* WM_SHOWWINDOW: shown unless the style has WS_MAXIMIZE or WS_MINIMIZE.
ShowWindowMsg(s, shown) ==
    [s EXCEPT !.shadow = IF shown /\ s.placement = "normal"
                         THEN "shown" ELSE "hidden"]

RECURSIVE UpdateMargins(_), WmSize(_, _)

\* SetWindowPos shrinks the window by _marginsDelta; Windows answers with
\* WM_WINDOWPOSCHANGED and a WM_SIZE of SIZE_RESTORED before it returns.
SetWindowPos(s) ==
    LET t == [s EXCEPT !.shrinks = @ + 1, !.depth = @ + 1]
    IN IF t.depth > MaxDepth THEN {t}
       ELSE WmSize(WindowPosChanged(t), "normal")

\* Defect: updateMargins without the _updatingMargins guard.
UpdateMarginsNoGuard(s) ==
    IF s.placement = "maximized" THEN {[s EXCEPT !.delta = TRUE, !.shrinks = 0]}
    ELSE IF s.delta
         THEN { [u EXCEPT !.delta = FALSE] : u \in SetWindowPos(s) }
         ELSE {s}

\* updateMargins(): a maximized window records the gap to the monitor's
\* work area; a window that had one is shrunk back by it, once.
UpdateMargins(s) ==
    IF s.updating THEN {s}
    ELSE LET t == [s EXCEPT !.updating = TRUE]
             Body == IF t.placement = "maximized"
                     THEN {[t EXCEPT !.delta = TRUE, !.shrinks = 0]}
                     ELSE IF t.delta
                          THEN { [u EXCEPT !.delta = FALSE] : u \in SetWindowPos(t) }
                          ELSE {t}
         IN { [u EXCEPT !.updating = FALSE] : u \in Body }

\* WM_SIZE with SIZE_MAXIMIZED, SIZE_RESTORED or SIZE_MINIMIZED: emit
\* windowStateChanged (whose slot refreshes the system menu) unless a
\* restore finds Qt already in WindowNoState; update the margins and the
\* shadow.
WmSize(s, size) ==
    LET emitted == IF size # "normal" \/ s.qtState # "normal"
                   THEN UpdateSystemMenu(s, size) ELSE {s}
    IN UNION { { [v EXCEPT !.shadow = IF size = "normal" THEN "shown"
                                      ELSE "hidden"]
                 : v \in UpdateMargins(u) } : u \in emitted }

\* The window moves to a new placement: WM_WINDOWPOSCHANGING (old
\* placement), WM_WINDOWPOSCHANGED and WM_SIZE (new one), then Qt's own
\* window procedure queues the platform state change.
ChangePlacement(s, p) ==
    LET t == WindowPosChanged([WindowPosChanged(s) EXCEPT !.placement = p])
    IN { [u EXCEPT !.qtQueue = Append(@, p)] : u \in WmSize(t, p) }

\* QWindow::setWindowStates: the platform window changes first, then Qt
\* stores the state and emits windowStateChanged if it differs.
SetWindowState(s, st) ==
    LET changed == IF st # s.placement THEN ChangePlacement(s, st) ELSE {s}
    IN UNION { IF st # u.qtState
               THEN UpdateSystemMenu([u EXCEPT !.qtState = st], st)
               ELSE {u} : u \in changed }

-----------------------------------------------------------------------------

\* The constructor's init(): updateMargins(), then updateSystemMenu().
Init ==
    LET s0 == [placement |-> "normal", visible |-> TRUE,
               qtState |-> "normal", qtQueue |-> <<>>,
               menu |-> [i \in MenuIndices |-> FALSE], delta |-> FALSE,
               shadow |-> "shown", shrinks |-> 0, menuComplete |-> FALSE,
               updating |-> FALSE, depth |-> 0]
    IN \E s \in UNION { UpdateSystemMenu(u, "normal") : u \in UpdateMargins(s0) } :
          /\ placement = s.placement /\ visible = s.visible
          /\ qtState = s.qtState /\ qtQueue = s.qtQueue /\ menu = s.menu
          /\ delta = s.delta /\ shadow = s.shadow /\ shrinks = s.shrinks
          /\ menuComplete = s.menuComplete

\* The user or the shell maximizes, minimizes or restores the window
\* (caption double-click, snap, taskbar): Windows sends the messages.
OsChangePlacement(p) ==
    /\ visible /\ p # placement /\ Len(qtQueue) < MaxQueue
    /\ \E s \in ChangePlacement(Cur, p) : Commit(s)

\* WM_COMMAND with a system command from the system menu (lines 301-318).
Command(cmd) ==
    /\ visible /\ Len(qtQueue) < MaxQueue
    /\ \E s \in SetWindowState(Cur, CommandState[cmd]) : Commit(s)

\* WM_COMMAND SC_CLOSE: _window->close() hides the window.
Close ==
    /\ visible
    /\ Commit([ShowWindowMsg(Cur, FALSE) EXCEPT !.visible = FALSE])

\* The window is shown again: WM_SHOWWINDOW with wParam TRUE.
Show ==
    /\ ~visible
    /\ Commit([ShowWindowMsg(Cur, TRUE) EXCEPT !.visible = TRUE])

\* WM_NCRBUTTONUP sends WM_SYSCOMMAND SC_MOUSEMENU, which refreshes the
\* menu from Qt's current window state before TrackPopupMenu.
MouseMenu ==
    /\ visible
    /\ \E s \in UpdateSystemMenu(Cur, qtState) : Commit(s)

\* Qt delivers a queued platform state change; windowStateChanged is
\* emitted only when the state differs.
QtDeliver ==
    /\ qtQueue # <<>>
    /\ LET st == Head(qtQueue)
           s == [Cur EXCEPT !.qtQueue = Tail(@), !.qtState = st]
       IN IF st # qtState
          THEN \E u \in UpdateSystemMenu(s, st) : Commit(u)
          ELSE Commit(s)

Next ==
    \/ \E p \in States : OsChangePlacement(p)
    \/ \E cmd \in DOMAIN CommandState : Command(cmd)
    \/ Close \/ Show \/ MouseMenu \/ QtDeliver

Spec == Init /\ [][Next]_vars

-----------------------------------------------------------------------------

TypeOK ==
    /\ placement \in States /\ qtState \in States /\ visible \in BOOLEAN
    /\ qtQueue \in Seq(States) /\ Len(qtQueue) <= MaxQueue
    /\ menu \in [MenuIndices -> BOOLEAN]
    /\ delta \in BOOLEAN
    /\ shadow \in {"shown", "hidden"} /\ shrinks \in Nat
    /\ menuComplete \in BOOLEAN

\* The _updatingMargins guard makes the WM_SIZE that SetWindowPos sends
\* back a no-op for the margins: a restored window is shrunk by
\* _marginsDelta at most once per maximize, never twice by a nested call.
ShrinkOncePerMaximize == shrinks <= 1

\* Once Qt has delivered every platform state change, and the last
\* updateSystemMenu went through every item, the system menu matches the
\* window's placement: the command for the current state is disabled and
\* the other two of Minimize, Maximize, Restore are enabled.  The loop
\* breaks at a failing Get/SetMenuItemInfo (line 411) and leaves the later
\* items as an earlier state set them; WM_SIZE skips the signal on a
\* restore when Qt's windowState() is stale, and SC_MOUSEMENU refreshes
\* from the stale state.  This states that one complete update repairs
\* any earlier partial one, and that it runs with the current state.
SystemMenuRepaired ==
    LET Disabled == [normal |-> "SC_RESTORE", maximized |-> "SC_MAXIMIZE",
                     minimized |-> "SC_MINIMIZE"]
    IN qtQueue = <<>> /\ menuComplete =>
        \A i \in MenuIndices :
            SystemMenu[i] \in {"SC_MINIMIZE", "SC_MAXIMIZE", "SC_RESTORE"}
                => (menu[i] <=> SystemMenu[i] = Disabled[placement])

\* The shadow of a visible window is shown exactly when the window is
\* neither maximized nor minimized, whatever order WM_WINDOWPOSCHANGING,
\* WM_WINDOWPOSCHANGED, WM_SIZE and WM_SHOWWINDOW arrived in.
ShadowMatchesPlacement ==
    visible => (shadow = "shown" <=> placement = "normal")
=============================================================================
