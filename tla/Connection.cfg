SPECIFICATION Spec
SYMMETRY MessageSymmetry
INVARIANTS NothingDangles OnceOnly
CONSTANTS
    Msgs = {m1, m2}
    NoMsg = NoMsg
    MaxPackets = 1
    SlowLimit = 100
CHECK_DEADLOCK FALSE
