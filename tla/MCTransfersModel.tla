--------------------------- MODULE MCTransfersModel -------------------------
(* Instance of TransfersModel for TLC: one to three transfers.  The cfg files say *)
(* which are sync, temporary or folder transfers and whether thresholds are       *)
(* exceeded.                                                                      *)
EXTENDS TransfersModel

Tags1 == {1}
Tags2 == 1..2
Tags3 == 1..3
None == {}
First == {1}
Second == {2}
Third == {3}

\* A bound on the notifications of the second and the third transfer, which TLC needs:
\* start, update and end of one, start and end of the other.
FewerOfOthers == nn[2] <= 3 /\ nn[3] <= 2
=============================================================================
