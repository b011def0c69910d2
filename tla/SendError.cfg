\* One plain subscriber that auto-acks, under the fairness of FairSpec,
\* and one nc.Publish of delivery that the transport refuses.
CONSTANTS
    c1 = c1  c2 = c2  s1 = s1  s2 = s2  s3 = s3  g1 = g1
    None = None
    Clients <- MC_Clients
    SubIds <- MC_OneSub
    Groups = {}
    MaxSeq = 2
    MaxMsgs = 2
    MaxTime = 1
    AckWait = 1
    MaxInFlights = {1}
    StartPositions = {"First"}
    Durability = {FALSE}
    MaxFailedHB = 1
    Width = 3
    MaxSendErrs = 1
SPECIFICATION FairSpec
PROPERTY EventuallyDelivered
CHECK_DEADLOCK FALSE
