\* Safety of one evaluation.  An evaluation ends, so a final state is no
\* deadlock.
CONSTANTS
    a = a  b = b  u = u  x = x  NoOut = NoOut
    Names <- MCNames
    ValidNames <- MCValidNames
    Unnamed = u
    NoOutput = NoOut
    Profiles <- MCProfiles
SPECIFICATION Spec
INVARIANT TypeOK HistoryMatchesCalls CallsFollowDeclaration EInv DInv
PROPERTY ImplementsAbstract
CHECK_DEADLOCK FALSE
