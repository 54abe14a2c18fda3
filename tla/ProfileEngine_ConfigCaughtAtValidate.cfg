\* One evaluation, checked against the spec's ConfigCaughtAtValidate.
CONSTANTS
    a = a  b = b  u = u  x = x  NoOut = NoOut
    Names <- MCNames
    ValidNames <- MCValidNames
    Unnamed = u
    NoOutput = NoOut
    Profiles <- MCProfiles
SPECIFICATION Spec
INVARIANT ConfigCaughtAtValidate
CHECK_DEADLOCK FALSE
