\* Three messages in flight with distinct timestamps: an orphaned timer
\* fires while sub.ackTimer is nil and Reset is called on nil.
CONSTANTS
    c1 = c1  c2 = c2  s1 = s1  s2 = s2  s3 = s3  g1 = g1
    None = None
    Clients <- MC_Clients
    SubIds <- MC_OneSub
    Groups = {}
    MaxSeq = 3
    MaxMsgs = 3
    MaxTime = 3
    AckWait = 2
    MaxInFlights = {3}
    StartPositions = {"NewOnly"}
    Durability = {FALSE}
    MaxFailedHB = 1
    Width = 3
    MaxSendErrs = 0
SPECIFICATION Spec
INVARIANT NoPanic
CHECK_DEADLOCK FALSE
