SPECIFICATION FairSpec
CONSTANTS
    alice = alice
    bob = bob
    carol = carol
    Sender = alice
    Receivers = {bob}
    Everyone = Everyone
    Targets = {bob}
    Chunks = 1
    AutoAccept = {}
    MayLeave = {}
PROPERTIES
    SenderLearns
CHECK_DEADLOCK FALSE
