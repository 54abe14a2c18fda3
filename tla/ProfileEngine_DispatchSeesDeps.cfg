\* One evaluation, checked against spec S4 (DispatchSeesDeps).
CONSTANTS
    a = a  b = b  u = u  x = x  NoOut = NoOut
    Names <- MCNames
    ValidNames <- MCValidNames
    Unnamed = u
    NoOutput = NoOut
    Profiles <- MCProfiles
SPECIFICATION Spec
INVARIANT DispatchSeesDeps
CHECK_DEADLOCK FALSE
