\* A logout that loses the row lock to a refresh.
CONSTANTS
    Requests = {q1, q2}
    NoRequest = NoRequest
    MaxTokens = 2
\* A deactivated user without tokens has no request to make: that is no deadlock.
CHECK_DEADLOCK FALSE
SPECIFICATION Spec
INVARIANT LogoutEndsLogin
SYMMETRY Symmetry
