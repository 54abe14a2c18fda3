\* PrimaryResumes on every kind of storage, without crashes.
CONSTANTS
    k1 = k1
    k2 = k2
    NoKey = NoKey
    Keys <- MCKeys
    MaxCrashes = 0
SPECIFICATION FairSpec
PROPERTY PrimaryResumes
CHECK_DEADLOCK FALSE
