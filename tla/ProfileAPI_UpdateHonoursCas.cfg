\* Update requests with and without cas on every path: is a cas in the
\* request body checked against the stored profile?
CONSTANTS
    Segs <- MCSegs
    CasValues <- MCCasValues
    Limits <- MCLimits
    NoEntry = NoEntry
    NoCas = NoCas
    NoKey = NoKey
    NoPath = NoPath
SPECIFICATION Spec
PROPERTY UpdateHonoursCas
