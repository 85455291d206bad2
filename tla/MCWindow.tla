------------------------------ MODULE MCWindow ------------------------------
(* The Windows window layer: the process-wide NativeFilter registry and    *)
(* one window's WindowHelper, their steps interleaved by the event loop.   *)
(* The registry's windows stand for the other helpers of the process; the  *)
(* helper's own HWND stays registered while it lives.                      *)
EXTENDS Naturals

CONSTANTS
    SystemMenu, MenuCanFail, MaxQueue, MaxDepth,   \* of WindowHelper
    Helpers, Handles                               \* of WindowRegistry

VARIABLES placement, visible, qtState, qtQueue, menu, delta, shadow, shrinks,
          menuComplete
VARIABLES windowByHandle, alive, handleOf, windows

Helper == INSTANCE WindowHelper
Registry == INSTANCE WindowRegistry

helperVars == <<placement, visible, qtState, qtQueue, menu, delta, shadow,
               shrinks, menuComplete>>
registryVars == <<windowByHandle, alive, handleOf, windows>>

\* The system menu Windows gives a WS_OVERLAPPEDWINDOW window.
SystemMenuDefault ==
    <<"SC_RESTORE", "SC_MOVE", "SC_SIZE", "SC_MINIMIZE", "SC_MAXIMIZE",
      "separator", "SC_CLOSE">>

Init == Helper!Init /\ Registry!Init

Next ==
    \/ Helper!Next /\ UNCHANGED registryVars
    \/ Registry!Next /\ UNCHANGED helperVars

Spec == Init /\ [][Next]_<<helperVars, registryVars>>

\* The helper's nested WM_SIZE from SetWindowPos never shrinks a restored
\* window a second time (the _updatingMargins guard of updateMargins).
ShrinkOncePerMaximize == Helper!ShrinkOncePerMaximize

\* Once Qt has delivered its state notifications and the last
\* updateSystemMenu reached every item, exactly the command of the current
\* placement is disabled, whatever earlier updates broke off.
SystemMenuRepaired == Helper!SystemMenuRepaired

\* The shadow of a visible window is shown exactly in the normal placement
\* (WM_SHOWWINDOW, WM_SIZE and the window state slot together).
ShadowMatchesPlacement == Helper!ShadowMatchesPlacement

\* nativeEventFilter delivers every existing window's messages to its own
\* live helper and to no other, across helper construction and destruction.
MessagesReachOwner == Registry!MessagesReachOwner
=============================================================================
