SPECIFICATION FairFlowSpec
CONSTANTS
    alice = alice
    bob = bob
    carol = carol
    Sender = alice
    Receivers = {bob}
    Everyone = Everyone
    Targets = {bob}
    Chunks = 1
    AutoAccept = {bob}
    MayLeave = {}
    Overtaken = {bob}
PROPERTIES
    ReceiverLearns
CHECK_DEADLOCK FALSE
