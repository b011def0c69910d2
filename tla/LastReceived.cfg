\* A plain subscriber asking for LastReceived on an empty channel.
CONSTANTS
    c1 = c1  c2 = c2  s1 = s1  s2 = s2  s3 = s3  g1 = g1
    None = None
    Clients <- MC_Clients
    SubIds <- MC_OneSub
    Groups = {}
    MaxSeq = 1
    MaxMsgs = 2
    MaxTime = 0
    AckWait = 1
    MaxInFlights = {1}
    StartPositions = {"LastReceived"}
    Durability = {FALSE}
    MaxFailedHB = 1
    Width = 3
    MaxSendErrs = 0
SPECIFICATION FairSpec
PROPERTY EventuallyDelivered
CHECK_DEADLOCK FALSE
