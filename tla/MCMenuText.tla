------------------------------ MODULE MCMenuText ------------------------------
(* Every item text of up to MaxLen characters over Alphabet, built one    *)
(* character at a time, is checked against the reference definitions.    *)
EXTENDS MenuText

CONSTANTS Alphabet, MaxLen

\* An ampersand, two letters and a tab.
MCAlphabet == {Amp, "a", "b", Tab}

VARIABLE itemText

Init == itemText = <<>>

\* The owner sets an item text one character longer.
Extend == \E c \in Alphabet : Len(itemText) < MaxLen /\ itemText' = Append(itemText, c)

Spec == Init /\ [][Extend]_itemText

\* Every text reached splits and parses as the reference states.
TextParsedAsReference == ProcessTextCorrect(itemText)
=============================================================================
