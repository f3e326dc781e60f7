SPECIFICATION Spec
CONSTANTS
    alice = alice
    bob = bob
    carol = carol
    Sender = alice
    Receivers = {bob}
    Everyone = Everyone
    Targets = {bob}
    Chunks = 2
    AutoAccept = {}
    MayLeave = {}
INVARIANTS
    CompleteComesLast
CHECK_DEADLOCK FALSE
