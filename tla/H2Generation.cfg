\* Two exchanges, two permits, one slot of the pool, generations of one or two streams.
SPECIFICATION LiveSpec
CONSTANTS
    Exchanges = {x1, x2}
    Gens = {g1, g2}
    None = None
    MaxActive = 2
    PoolCapacity = 1
    StreamLimits = {1, 2}
INVARIANTS
    SocketsPaidFor
PROPERTIES
    DispatchOnlyWhileOffered
    RetiredForGood
    SlotsComeBack
