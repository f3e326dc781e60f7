SPECIFICATION FairSpec
CONSTANTS
    ask = ask
    order = order
    answer1 = answer1
    answer2 = answer2
    answer3 = answer3
    Commands = {job}
    Results = {answer1, answer2, answer3}
    Issued = {ask, order}
    CommandOf <- TwoCommands
    Files = {file}
    Reconnects = TRUE
INVARIANTS
    TypeOK
    HeartbeatFollowsSession
    LostTransfersTold
    SendFlushes
PROPERTIES
    BreakIsNoticed
    ResultsArePrinted
