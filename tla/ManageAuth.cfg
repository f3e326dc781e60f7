SPECIFICATION FairSpec
CONSTANTS
    Requests = {r1, r2}
    DevBypassAuth = FALSE
INVARIANTS
    TypeOK
    SingleFlight
    RetriedOnce
    RenewalNeverStops
PROPERTIES
    SignedOutStartsNoRefresh
    RequestsSettle
    ShellNeedsSession
