\* One PublishWithReply: its ack and its timeout race.
CONSTANTS
    p1 = p1  p2 = p2  p3 = p3
    Guids <- MC_OneGuid
    SyncGuids <- MC_OneGuid
    MaxPubAcksInflight = 1
SPECIFICATION Spec
INVARIANT AckHandlerOnce
CHECK_DEADLOCK FALSE
