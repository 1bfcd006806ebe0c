\* Overlapping logins, refreshes, replays and logouts.
CONSTANTS
    Requests = {q1, q2}
    NoRequest = NoRequest
    MaxTokens = 3
\* A deactivated user without tokens has no request to make: that is no deadlock.
CHECK_DEADLOCK FALSE
SPECIFICATION Spec
INVARIANTS
    TypeOK
    OneLivePerLogin
    ReplacementsFormLines
    DeactivationEndsLogins
    UniqueAddress
PROPERTIES
    ImplementsLogins
SYMMETRY Symmetry
