---------------------------- MODULE MCSetManager ----------------------------
(* Instance of SetManager for TLC: a fetch, two downloads and an import of Sets *)
(* of two or three elements, or two fetches.                                    *)
EXTENDS SetManager

FourElements == 1..4
Requests2 == 1..2
Requests4 == 1..4
AllKinds == <<"fetch", "downloadLink", "download", "import">>
Fetches == <<"fetch", "fetch">>
Sets2 == <<{1, 2}, {3, 4}>>
Sets4 == <<{1, 2}, {3, 4}, {1, 2}, {2, 3, 4}>>
Everything2 == <<{}, {}>>
Choice4 == <<{}, {4, 1}, {}, {3, 4}>>
NotElements == {"fetch", "folder", "copy"}
NoFailures == {}
=============================================================================
