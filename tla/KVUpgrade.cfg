\* The upgrade of a KV mount on transactional and plain storage, with and
\* without storage errors, under crashes of the primary: safety on every
\* behaviour, progress on those without storage errors.
CONSTANTS
    k1 = k1
    k2 = k2
    NoKey = NoKey
    Keys <- MCKeys
    MaxCrashes = 2
SPECIFICATION FairSpec
INVARIANT TypeOK DataNeverLost DoneMeansUpgraded ServedSeesUpgraded WritesNotReadOnly KInv
PROPERTY UpgradeCompletes
\* The upgrade ends: once the canary is done and the crashes are spent,
\* no step is enabled.
CHECK_DEADLOCK FALSE
