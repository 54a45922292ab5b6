----------------------------- MODULE OneAtATime -----------------------------
(***************************************************************************)
(* What a queue of requests promises to whoever makes them: they are dealt *)
(* with in the order in which they were made, one after the other, and     *)
(* each is over only when the user is told that it is done or has failed.  *)
(***************************************************************************)
EXTENDS Sequences

CONSTANT Requests

VARIABLES
  waiting,  \* the requests to come, in order
  served,   \* the request that is dealt with, if there is one
  status    \* how far each request is

LineInit ==
  /\ waiting = <<>> /\ served = {}
  /\ status = [r \in Requests |-> "new"]

Request(r) ==
  /\ status[r] = "new"
  /\ status' = [status EXCEPT ![r] = "pending"]
  /\ waiting' = Append(waiting, r)
  /\ UNCHANGED served

\* The next one is taken up when nothing is being dealt with.
Take ==
  /\ served = {} /\ waiting # <<>>
  /\ served' = {Head(waiting)} /\ waiting' = Tail(waiting)
  /\ UNCHANGED status

End(r, how) ==
  /\ served = {r} /\ status[r] = "pending"
  /\ served' = {} /\ status' = [status EXCEPT ![r] = how]
  /\ UNCHANGED waiting

LineNext ==
  \/ \E r \in Requests : Request(r)
  \/ Take
  \/ \E r \in Requests, how \in {"done", "failed"} : End(r, how)

LineSpec == LineInit /\ [][LineNext]_<<waiting, served, status>>
=============================================================================
