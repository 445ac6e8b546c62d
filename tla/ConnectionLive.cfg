SPECIFICATION FairSpec
PROPERTY ClosesInTheEnd
CONSTANTS
    Msgs = {m1}
    NoMsg = NoMsg
    MaxPackets = 0
    SlowLimit = 100
CHECK_DEADLOCK FALSE
