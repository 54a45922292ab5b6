----------------------------- MODULE AtomicUpdate -----------------------------
(***************************************************************************)
(* What an updater promises to whoever starts the application: the files   *)
(* of a release are exchanged all at once or not at all, and only for the  *)
(* release that was the latest one when its list was read.                 *)
(***************************************************************************)
EXTENDS Integers

CONSTANTS Files, Versions, Release

VARIABLES
  server,     \* the latest release
  installed   \* the content of every file of the application

AtomicInit == server \in Versions /\ installed = Release[1]

\* A new release is published; nothing is installed.
Publish == server' \in Versions /\ server' > server /\ UNCHANGED installed

\* The whole of a published release replaces an older one.
Install ==
  \E v \in Versions :
    /\ v <= server
    /\ installed # Release[v]
    /\ installed' = Release[v]
    /\ UNCHANGED server

AtomicSpec == AtomicInit /\ [][Publish \/ Install]_<<server, installed>>
=============================================================================
