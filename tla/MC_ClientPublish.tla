-------------------------- MODULE MC_ClientPublish --------------------------
EXTENDS ClientPublish

CONSTANTS p1, p2, p3

MC_Guids == {p1, p2, p3}
MC_TwoGuids == {p1, p2}
MC_OneGuid == {p1}
=============================================================================
