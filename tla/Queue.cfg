\* Queue group of two members with maxInFlight 1 or 2, joining from
\* LastReceived (every start position feeds a member from the group's
\* lastSent): load balancing, group stall and resume, redelivery to
\* the best member (timers expire at t = 1).
CONSTANTS
    c1 = c1  c2 = c2  s1 = s1  s2 = s2  s3 = s3  g1 = g1
    None = None
    Clients <- MC_Clients
    SubIds <- MC_Subs
    Groups <- MC_Groups
    MaxSeq = 2
    MaxMsgs = 2
    MaxTime = 1
    AckWait = 1
    MaxInFlights = {1, 2}
    StartPositions = {"LastReceived"}
    Durability = {FALSE}
    MaxFailedHB = 1
    Width = 3
    MaxSendErrs = 0
SPECIFICATION Spec
INVARIANTS TypeOK InFlightCap QueueNoLostWakeup QueueExclusive
CHECK_DEADLOCK FALSE
