CONSTANTS
    Values <- MCValues
    Garbage = Garbage
    InitCapacity = 2
    MaxCapacity = 4
SPECIFICATION Spec
INVARIANTS
    TypeOK
PROPERTIES
    ImplementsRingBuffer
