-------------------------- MODULE MCTransferThread --------------------------
(* Instance of TransferThread for TLC: three transfers.  The cfg files choose   *)
(* which of them are uploads, sync, temporary and folder transfers.             *)
EXTENDS TransferThread

Tags3 == 1..3
Tags2 == 1..2
None == {}
First == {1}
Second == {2}
Third == {3}
FirstTwo == {1, 2}
=============================================================================
