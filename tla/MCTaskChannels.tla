--------------------------- MODULE MCTaskChannels ---------------------------
(***************************************************************************)
(* Three nodes; a generation of an asset led by node 1, and a signature    *)
(* that node 3 leads with node 2.                                          *)
(***************************************************************************)
EXTENDS TaskChannels

MCLeader == [c \in Channel |-> IF c = "generate" THEN 1 ELSE 3]
MCParticipants == [c \in Channel |-> IF c = "generate" THEN <<1, 2, 3>> ELSE <<3, 2>>]
=============================================================================
