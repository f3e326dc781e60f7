SPECIFICATION FairSpec
CONSTANTS
    alice = alice
    bob = bob
    carol = carol
    fileA = fileA
    Conns = {alice, bob}
    Slots = {alice, bob}
    NoSlot = NoSlot
    Files = {fileA}
    None = None
    Sweeper = Sweeper
    Everyone = Everyone
    Star = Star
    Sweepable = {alice, bob}
    Targets = {bob, Everyone}
    NameOf <- DistinctNames
    OwnerOf <- SentByAlice
INVARIANTS
    TypeOK
    LegsDieWithSender
    AckCleansTransfer
    NameReturned
    LegReportedOnce
PROPERTIES
    AbandonedPeerIsTold
CHECK_DEADLOCK FALSE
