--------------------------- MODULE MC_StanServer ---------------------------
(* Model values and bounds for checking StanServer with TLC. *)
EXTENDS StanServer

CONSTANTS c1, c2, s1, s2, s3, g1

MC_Clients == {c1}
MC_TwoClients == {c1, c2}
MC_Subs == {s1, s2}
MC_OneSub == {s1}
MC_ThreeSubs == {s1, s2, s3}
MC_Groups == {g1}
=============================================================================
