---------------------------- MODULE WindowRegistry ----------------------------
(***************************************************************************)
(* WindowHelper::NativeFilter, the process-wide filter that routes every  *)
(* native window message to the WindowHelper of its HWND                   *)
(* (ui/platform/win/ui_window_win.cpp), together with the helpers'        *)
(* constructor and destructor that register and unregister them.          *)
(*                                                                         *)
(* Windows reuses the value of a destroyed HWND for a later window, and   *)
(* the allocator may put a new WindowHelper at the address of a destroyed *)
(* one: both are drawn from small sets of model values.                   *)
(***************************************************************************)
EXTENDS FiniteSets, TLC

CONSTANTS
    Helpers,   \* addresses a WindowHelper can live at
    Handles    \* HWND values

VARIABLES
    windowByHandle,  \* NativeFilter::_windowByHandle, HWND -> helper
    alive,           \* helpers constructed and not yet destroyed
    handleOf,        \* WindowHelper::_handle of every helper ever built
    windows          \* HWNDs of the existing native windows

vars == <<windowByHandle, alive, handleOf, windows>>

\* base::flat_map::emplace leaves an existing entry in place.
Emplace(f, k, v) == IF k \in DOMAIN f THEN f ELSE f @@ (k :> v)

\* base::flat_map::remove.
Remove(f, k) == [x \in DOMAIN f \ {k} |-> f[x]]

\* nativeEventFilter(): the helper a message to hwnd is handed to, if any.
RouteOf(hwnd) == IF hwnd \in DOMAIN windowByHandle
                 THEN {windowByHandle[hwnd]} ELSE {}

Init ==
    /\ windowByHandle = [x \in {} |-> x]
    /\ alive = {}
    /\ handleOf = [x \in {} |-> x]
    /\ windows = {}

\* A window is created, GetWindowHandle() gives its new HWND, and the
\* WindowHelper constructor registers itself under it.
Create(h) ==
    /\ h \notin alive
    /\ \E hwnd \in Handles \ windows :
         /\ windows' = windows \cup {hwnd}
         /\ handleOf' = (h :> hwnd) @@ handleOf
         /\ windowByHandle' = Emplace(windowByHandle, hwnd, h)
    /\ alive' = alive \cup {h}

\* Defect: the destructor does not unregister the handle.
DestroyKeepEntry(h) ==
    /\ h \in alive
    /\ alive' = alive \ {h}
    /\ windows' = windows \ {handleOf[h]}
    /\ UNCHANGED <<windowByHandle, handleOf>>

\* ~WindowHelper unregisters _handle; the window that owns the helper then
\* destroys its native window, which frees the HWND.
Destroy(h) ==
    /\ h \in alive
    /\ windowByHandle' = Remove(windowByHandle, handleOf[h])
    /\ alive' = alive \ {h}
    /\ windows' = windows \ {handleOf[h]}
    /\ UNCHANGED handleOf

Next == \E h \in Helpers : Create(h) \/ Destroy(h)

Spec == Init /\ [][Next]_vars

-----------------------------------------------------------------------------

TypeOK ==
    /\ alive \subseteq Helpers /\ windows \subseteq Handles
    /\ DOMAIN windowByHandle \subseteq Handles
    /\ \A x \in DOMAIN windowByHandle : windowByHandle[x] \in Helpers
    /\ DOMAIN handleOf \subseteq Helpers
    /\ \A x \in DOMAIN handleOf : handleOf[x] \in Handles

\* Every message to a helper's window reaches that helper and no other:
\* after any sequence of constructions and destructions, with HWND values
\* and helper addresses reused, the filter routes each existing window's
\* HWND to the live helper whose _handle it is, and routes nothing for an
\* HWND no live helper owns.
MessagesReachOwner ==
    \A hwnd \in Handles :
        RouteOf(hwnd) = {h \in alive : handleOf[h] = hwnd}
=============================================================================
