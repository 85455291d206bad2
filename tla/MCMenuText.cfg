\* Item texts of up to five characters over an ampersand, a letter, a
\* second letter and a tab: every run of ampersands up to five, accelerators
\* at every position, and texts with zero, one or two tabs.
CONSTANTS
    Alphabet <- MCAlphabet
    MaxLen = 5
SPECIFICATION Spec
INVARIANT TextParsedAsReference
CHECK_DEADLOCK FALSE
