--------------------------- MODULE MCLinkProcessor ---------------------------
(* Instance of LinkProcessor for TLC: two lists, with links of each kind.       *)
EXTENDS LinkProcessor

TwoLists == {<<1, 2, 3>>, <<4, 5>>}
TheFolders == {2, 4}
TheSets == {3}
=============================================================================
