\* Three exchanges, two permits, one slot in the pool; upstream named by domain or address.
\* Or one exchange in detail.
SPECIFICATION MCSpec
CONSTANTS
    Exchanges = {e1, e2, e3}
    Conns = {k1, k2, k3, k4}
    None = None
    NULL = NULL
    MaxActive = 2
    MaxResolvers = 1
    PoolCapacity = 1
PROPERTIES
    
    CancelledUploadEnds
INVARIANTS
    
    CleanReuse
    
