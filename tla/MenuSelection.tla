---------------------------- MODULE MenuSelection ----------------------------
(***************************************************************************)
(* What the menu promises about selection, press and trigger, in the      *)
(* terms of the interaction state machine of spec section 4.1, without    *)
(* geometry, styles or animations.  Menu implements it under the mapping  *)
(* in MCMenu (count <- Len(actions), sel <- selected, pr <- pressed,       *)
(* trig <- triggered.idx).                                                 *)
(*                                                                         *)
(*  - selection and press are -1 or an index of the current list;         *)
(*  - a press presses the current selection;                              *)
(*  - a release clears the press and fires the trigger only for the item  *)
(*    that is still both pressed and selected;                            *)
(*  - the keyboard presses and releases the selection in one step;        *)
(*  - clearing resets both indices.                                       *)
(***************************************************************************)
EXTENDS Integers

CONSTANT MaxCount

VARIABLES count, sel, pr, trig

vars == <<count, sel, pr, trig>>

Indices(n) == {-1} \cup 0 .. n - 1

Init == count = 0 /\ sel = -1 /\ pr = -1 /\ trig = -1

\* The owner appends an item; the hover may move to any item.
Append ==
    /\ count < MaxCount
    /\ count' = count + 1
    /\ sel' \in Indices(count + 1)
    /\ trig' = -1
    /\ UNCHANGED pr

\* The owner clears the list.
Clear == count' = 0 /\ sel' = -1 /\ pr' = -1 /\ trig' = -1

\* An item's properties change, or nothing observable happens.
Change == trig' = -1 /\ UNCHANGED <<count, sel, pr>>

\* The selection moves (pointer, arrows, show source, leaving the menu).
Select ==
    /\ sel' \in Indices(count)
    /\ trig' = -1
    /\ UNCHANGED <<count, pr>>

\* A mouse press after the hover moved: the selection is pressed, or the
\* press is refused.
Press ==
    /\ sel' \in Indices(count)
    /\ pr' \in {pr} \cup ({sel'} \ {-1})
    /\ trig' = -1
    /\ UNCHANGED count

\* A mouse release after the hover moved.
Release ==
    /\ sel' \in Indices(count)
    /\ pr' = -1
    /\ trig' = IF pr # -1 /\ pr = sel' THEN pr ELSE -1
    /\ UNCHANGED count

\* Enter or Right on the selection: press and release at once.
Activate ==
    /\ sel # -1
    /\ pr' = -1 /\ trig' = sel
    /\ UNCHANGED <<count, sel>>

Next == Append \/ Clear \/ Change \/ Select \/ Press \/ Release \/ Activate

Spec == Init /\ [][Next]_vars
=============================================================================
