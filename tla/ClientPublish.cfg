\* Three publishes, two of them PublishWithReply, through a pubAckChan of
\* capacity 1: tokens, acks, lost acks, timeouts and Close.
CONSTANTS
    p1 = p1  p2 = p2  p3 = p3
    Guids <- MC_Guids
    SyncGuids <- MC_TwoGuids
    MaxPubAcksInflight = 1
SPECIFICATION FairSpec
INVARIANTS TypeOK PubAckFlowControl
PROPERTY PublishReturns
CHECK_DEADLOCK FALSE
