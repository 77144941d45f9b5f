CONSTANTS
    Capacity = 2
    NumPackets = 4
    Active = TRUE
    Garbage = Garbage
SPECIFICATION Spec
INVARIANTS TypeOK FifoNoLoss
PROPERTIES EveryAcceptedOutput
