\* A fifo of 8 bytes and messages of 3: like 2048 and 136, the fifo is not
\* a whole number of messages, so a full fifo ends in a partial one.
CONSTANTS
    FifoSize = 8
    MsgSize = 3
    NumMsgs = 5
SPECIFICATION Spec
INVARIANT
    WholeMessages
CHECK_DEADLOCK FALSE
