\* One window helper with the default Windows system menu, whose update
\* may break off at any item; three helper addresses and three HWND values
\* in the registry, so both are reused.
CONSTANTS
    SystemMenu <- SystemMenuDefault
    MenuCanFail = TRUE
    MaxQueue = 3
    MaxDepth = 2
    Helpers = {h1, h2, h3}
    Handles = {w1, w2, w3}
SPECIFICATION Spec
INVARIANT ShrinkOncePerMaximize
INVARIANT SystemMenuRepaired
INVARIANT ShadowMatchesPlacement
INVARIANT MessagesReachOwner
