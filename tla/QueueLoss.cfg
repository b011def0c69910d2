\* A queue member leaves with a message in flight.
CONSTANTS
    c1 = c1  c2 = c2  s1 = s1  s2 = s2  s3 = s3  g1 = g1
    None = None
    Clients <- MC_Clients
    SubIds <- MC_Subs
    Groups <- MC_Groups
    MaxSeq = 2
    MaxMsgs = 2
    MaxTime = 2
    AckWait = 1
    MaxInFlights = {1}
    StartPositions = {"First"}
    Durability = {FALSE}
    MaxFailedHB = 1
    Width = 3
    MaxSendErrs = 0
SPECIFICATION Spec
INVARIANT QueueNoLoss
CHECK_DEADLOCK FALSE
