\* Both modes of the plugin, in and out of metadata mode, with and without
\* a cross-plugin backend: what the instance map hands out.
CONSTANTS
    i1 = i1
    i2 = i2
    r1 = r1
    r2 = r2
    NoId = NoId
    Single = Single
    Ids <- MCIds
    Rpcs <- MCRpcs
SPECIFICATION Spec
INVARIANT TypeOK InstancesLive TenantIsolation NoBackendLost PInv
\* Once every ID has been set up and cleaned up, no RPC finds an instance
\* and the server only answers errors: nothing is left to change.
CHECK_DEADLOCK FALSE
