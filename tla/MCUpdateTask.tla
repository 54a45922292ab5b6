---------------------------- MODULE MCUpdateTask ----------------------------
(* Instance of UpdateTask for TLC: releases of two or three files; which of them   *)
(* is the executable is chosen by the cfg files.                                  *)
EXTENDS UpdateTask

Files3 == 1..3
Versions2 == 1..2
Versions3 == 1..3

\* Every release renews the executable; file 1 or 2 changes only in release 3.
Late == CHOOSE f \in Files : f # Exec
Releases == [v \in Versions |-> [f \in Files |-> IF f = Late /\ v = 2 THEN 1 ELSE v]]
AllNew == [v \in Versions |-> [f \in Files |-> v]]
=============================================================================
