\* One durable subscriber of one client that unsubscribes or closes,
\* reconnects, re-attaches and closes again.  MaxFailedHB is large so that
\* the heartbeat close, which also leaves subs bound, is reached only in
\* longer behaviours than the re-attach ones.
CONSTANTS
    c1 = c1  c2 = c2  s1 = s1  s2 = s2  s3 = s3  g1 = g1
    None = None
    Clients <- MC_Clients
    SubIds <- MC_OneSub
    Groups = {}
    MaxSeq = 1
    MaxMsgs = 2
    MaxTime = 0
    AckWait = 1
    MaxInFlights = {1}
    StartPositions = {"First"}
    Durability = {TRUE}
    MaxFailedHB = 9
    Width = 3
    MaxSendErrs = 0
SPECIFICATION Spec
INVARIANT BindingHeld
CHECK_DEADLOCK FALSE
