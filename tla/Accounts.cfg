\* Two users sign in in two tabs of one browser.
CONSTANTS
    Users = {alice, bob}
    Tabs = {a, b}
    None = None
    MaxAge = 1
    MaxLogins = 2
    MaxTime = 4
    MaxChanges = 1
    MaxFaults = 1

SPECIFICATION Spec
SYMMETRY Symmetry

INVARIANTS
    RevocationBounded
    InternalTextSurvives
    NoStaleNonce

CHECK_DEADLOCK FALSE
