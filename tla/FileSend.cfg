SPECIFICATION FairFlowSpec
CONSTANTS
    alice = alice
    bob = bob
    carol = carol
    Sender = alice
    Receivers = {bob, carol}
    Everyone = Everyone
    Targets = {bob, Everyone}
    Chunks = 2
    AutoAccept = {carol}
    MayLeave = {alice, bob}
    Overtaken = {carol}
INVARIANTS
    FlowTypeOK
    DeliveredMeansSaved
    BrokenOnlyAtStart
    RefusedMeansNotSaved
    UnsentMeansNotSaved
PROPERTIES
    ReceiverLearns
    ReceiverLetsGo
    KeepsPromise
CHECK_DEADLOCK FALSE
