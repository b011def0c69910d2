\* One durable subscriber: create, close, reconnect, re-attach with
\* durable redelivery, acks, ack-timer redelivery, unsubscribe, with one
\* nc.Publish of delivery or redelivery failing.
CONSTANTS
    c1 = c1  c2 = c2  s1 = s1  s2 = s2  s3 = s3  g1 = g1
    None = None
    Clients <- MC_Clients
    SubIds <- MC_OneSub
    Groups <- MC_Groups
    MaxSeq = 2
    MaxMsgs = 2
    MaxTime = 2
    AckWait = 1
    MaxInFlights = {1, 2}
    StartPositions = {"First", "SequenceStart"}
    Durability = {TRUE}
    MaxFailedHB = 1
    Width = 3
    MaxSendErrs = 1
SPECIFICATION Spec
INVARIANTS MonotonicDelivery NoSkippedMessage
CHECK_DEADLOCK FALSE
