\* Publish/subscribe race: a publish between the two halves of a First
\* subscribe, then the start position rewinds lastSent.
CONSTANTS
    c1 = c1  c2 = c2  s1 = s1  s2 = s2  s3 = s3  g1 = g1
    None = None
    Clients <- MC_Clients
    SubIds <- MC_Subs
    Groups = {}
    MaxSeq = 2
    MaxMsgs = 2
    MaxTime = 0
    AckWait = 1
    MaxInFlights = {2}
    StartPositions = {"First"}
    Durability = {FALSE}
    MaxFailedHB = 1
    Width = 3
    MaxSendErrs = 0
SPECIFICATION Spec
INVARIANT MonotonicDelivery
CHECK_DEADLOCK FALSE
