SPECIFICATION Spec
CONSTANTS
    alice = alice
    bob = bob
    carol = carol
    fileA = fileA
    Conns = {alice, bob, carol}
    Slots = {alice, bob, carol}
    NoSlot = NoSlot
    Files = {fileA}
    None = None
    Sweeper = Sweeper
    Everyone = Everyone
    Star = Star
    Sweepable = {}
    Targets = {Everyone}
    NameOf <- DistinctNames
    OwnerOf <- SentByAlice
SYMMETRY ReceiverSymmetry
INVARIANTS
    ChunksOnlyToAccepters
CHECK_DEADLOCK FALSE
