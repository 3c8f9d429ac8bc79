SPECIFICATION Spec
CONSTANTS
    SeqMod = 16
    MaxPacketAge = 6
    MaxNackPackets = 2
    MaxNackRetries = 2
    TsMod = 8
    MaxItems = 3
    MaxRetransmissionDelay = 1
    Blank = Blank
    MaxDropout = 5
    MaxMisorder = 4
    Delayed = TRUE
    MaxDelay = 5
    FirstSeq = 9
    Jumps <- MCJumps
    FirstTs = 5
    Plans <- MCPlans

CHECK_DEADLOCK FALSE
INVARIANTS LossesAreChased GapsMatchDrops OutputsUnambiguous NackListIsSound BufferIsExact SentIsKept WaitingConsumerIsServed
PROPERTIES NacksEnd
