\* A durable re-attaches with a new ackInbox the subStore does not index.
CONSTANTS
    c1 = c1  c2 = c2  s1 = s1  s2 = s2  s3 = s3  g1 = g1
    None = None
    Clients <- MC_Clients
    SubIds <- MC_OneSub
    Groups = {}
    MaxSeq = 1
    MaxMsgs = 2
    MaxTime = 1
    AckWait = 1
    MaxInFlights = {1}
    StartPositions = {"First"}
    Durability = {TRUE}
    MaxFailedHB = 1
    Width = 3
    MaxSendErrs = 0
SPECIFICATION Spec
INVARIANT AckRoutable
CHECK_DEADLOCK FALSE
