\* At-least-once delivery to one plain subscriber that auto-acks: publish,
\* every start position but LastReceived, acks, ack-timer redelivery,
\* unsubscribe, close and heartbeats, under the fairness of FairSpec.
CONSTANTS
    c1 = c1  c2 = c2  s1 = s1  s2 = s2  s3 = s3  g1 = g1
    None = None
    Clients <- MC_Clients
    SubIds <- MC_OneSub
    Groups = {}
    MaxSeq = 3
    MaxMsgs = 3
    MaxTime = 1
    AckWait = 1
    MaxInFlights = {1, 2}
    StartPositions = {"NewOnly", "First", "SequenceStart", "TimeDeltaStart"}
    Durability = {FALSE}
    MaxFailedHB = 1
    Width = 3
    MaxSendErrs = 0
SPECIFICATION FairSpec
INVARIANTS TypeOK InFlightCap NoLostWakeup
PROPERTY EventuallyDelivered
CHECK_DEADLOCK FALSE
