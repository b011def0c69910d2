\* A new durable asking for SequenceStart 2 on a channel holding 1 and 2.
CONSTANTS
    c1 = c1  c2 = c2  s1 = s1  s2 = s2  s3 = s3  g1 = g1
    None = None
    Clients <- MC_Clients
    SubIds <- MC_OneSub
    Groups = {}
    MaxSeq = 2
    MaxMsgs = 2
    MaxTime = 0
    AckWait = 1
    MaxInFlights = {2}
    StartPositions = {"SequenceStart"}
    Durability = {TRUE}
    MaxFailedHB = 1
    Width = 3
    MaxSendErrs = 0
SPECIFICATION Spec
INVARIANT StartRespected
CHECK_DEADLOCK FALSE
