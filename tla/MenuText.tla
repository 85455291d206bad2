------------------------------- MODULE MenuText -------------------------------
(***************************************************************************)
(* The text of a menu item (ui/widgets/menu.cpp): processAction() splits   *)
(* QAction::text() at tab characters into the label and the shortcut, and *)
(* ParseMenuItem() turns the label's ampersand accelerators into underline *)
(* entities: "&x" underlines x, "&&" is a literal ampersand, a trailing    *)
(* '&' is dropped.  A string is a sequence of one-character strings; the  *)
(* result is the label text and the sequence of underline offsets         *)
(* (0-based, in characters of the result text, each of length 1).         *)
(***************************************************************************)
EXTENDS Integers, Sequences, FiniteSets, SequencesExt

Amp == "&"
Tab == "\t"

RECURSIVE ParseFrom(_, _, _)

\* Defect: the underline is placed after the character it belongs to.
ParseFromOffByOne(s, afterAmpersand, result) ==
    IF s = <<>> THEN result
    ELSE LET ch == Head(s) IN
         IF afterAmpersand /\ ch # Amp
         THEN ParseFrom(Tail(s), FALSE,
                        [text |-> Append(result.text, ch),
                         underlines |-> Append(result.underlines,
                                               Len(result.text) + 1)])
         ELSE IF ~afterAmpersand /\ ch = Amp
         THEN ParseFrom(Tail(s), TRUE, result)
         ELSE ParseFrom(Tail(s), FALSE, [result EXCEPT !.text = Append(@, ch)])

\* The loop of ParseMenuItem() from the given character on.  After an
\* ampersand a second one is appended as text; any other character gets
\* an underline at the current text size and is appended.  An ampersand
\* outside that state only sets afterAmpersand.
ParseFrom(s, afterAmpersand, result) ==
    IF s = <<>> THEN result
    ELSE LET ch == Head(s) IN
         IF afterAmpersand /\ ch # Amp
         THEN ParseFrom(Tail(s), FALSE,
                        [text |-> Append(result.text, ch),
                         underlines |-> Append(result.underlines,
                                               Len(result.text))])
         ELSE IF ~afterAmpersand /\ ch = Amp
         THEN ParseFrom(Tail(s), TRUE, result)
         ELSE ParseFrom(Tail(s), FALSE, [result EXCEPT !.text = Append(@, ch)])

ParseMenuItem(s) == ParseFrom(s, FALSE, [text |-> <<>>, underlines |-> <<>>])

\* action->text().split('\t'): the part before the first tab is the label,
\* the part between the first and a second tab the shortcut; anything
\* after a second tab is dropped.
Tabs(s) == {i \in DOMAIN s : s[i] = Tab}

ActionText(s) ==
    IF Tabs(s) = {} THEN s ELSE SubSeq(s, 1, Min(Tabs(s)) - 1)

ActionShortcut(s) ==
    IF Tabs(s) = {} THEN <<>>
    ELSE LET first == Min(Tabs(s))
             rest == Tabs(s) \ {first}
         IN SubSeq(s, first + 1, IF rest = {} THEN Len(s) ELSE Min(rest) - 1)

\* The text branch of processAction(): an empty text has no label and no
\* shortcut (a separator takes the same branch, see Menu).
ProcessText(s) ==
    IF s = <<>>
    THEN [label |-> [text |-> <<>>, underlines |-> <<>>], shortcut |-> <<>>]
    ELSE [label |-> ParseMenuItem(ActionText(s)),
          shortcut |-> ActionShortcut(s)]

-----------------------------------------------------------------------------
(* Reference definitions, stated over positions instead of a scan.        *)

\* Length of the run of ampersands that ends just before position i.
AmpRunBefore(s, i) ==
    CHOOSE k \in 0 .. i - 1 :
        /\ \A m \in i - k .. i - 1 : s[m] = Amp
        /\ k = i - 1 \/ s[i - k - 1] # Amp

\* An ampersand that starts an accelerator: preceded by an even run.
IsPrefixAmp(s, i) == s[i] = Amp /\ AmpRunBefore(s, i) % 2 = 0

Kept(s) == {i \in DOMAIN s : ~IsPrefixAmp(s, i)}

RefLabel(s) ==
    LET order == SetToSortSeq(Kept(s), <)
        under == {j \in Kept(s) : j > 1 /\ IsPrefixAmp(s, j - 1) /\ s[j] # Amp}
        offset(j) == Cardinality({k \in Kept(s) : k < j})
    IN [text |-> [n \in 1 .. Len(order) |-> s[order[n]]],
        underlines |-> SetToSortSeq({offset(j) : j \in under}, <)]

\* s = label \o <<Tab>> \o shortcut \o (nothing or a tab and the rest).
RefSplit(s) ==
    IF Tabs(s) = {} THEN [label |-> s, shortcut |-> <<>>]
    ELSE CHOOSE r \in [label : {SubSeq(s, 1, n) : n \in 0 .. Len(s)},
                       shortcut : {SubSeq(s, a, b) : a \in 1 .. Len(s) + 1,
                                                     b \in 0 .. Len(s)}] :
           /\ Tab \notin ToSet(r.label) /\ Tab \notin ToSet(r.shortcut)
           /\ \E tail \in {SubSeq(s, n, Len(s)) : n \in 1 .. Len(s) + 1} :
                /\ tail = <<>> \/ Head(tail) = Tab
                /\ s = r.label \o <<Tab>> \o r.shortcut \o tail

\* The text of every item is its label parsed by ParseMenuItem() and the
\* shortcut after the first tab, both as the reference definitions state
\* them: escaped ampersands stay, accelerator ampersands go, and each
\* underline points at the character that followed its ampersand.
ProcessTextCorrect(s) ==
    ProcessText(s) = [label |-> RefLabel(RefSplit(s).label),
                      shortcut |-> RefSplit(s).shortcut]
=============================================================================
