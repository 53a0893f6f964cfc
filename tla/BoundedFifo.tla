------------------------------ MODULE BoundedFifo ------------------------------
(***************************************************************************)
(* What byte_ring.h promises: a queue of Capacity bytes.  A byte that finds *)
(* no room is gone and the bytes already waiting stay untouched; the rest   *)
(* come out once each, in the order they went in.                           *)
(***************************************************************************)
EXTENDS Naturals, Sequences

CONSTANTS Capacity, Bytes

VARIABLES
  queue,
  accepted,    \* the byte that went in last
  delivered    \* the byte that came out last

Init == queue = <<>> /\ accepted \in Bytes /\ delivered \in Bytes

Put ==
  /\ Len(queue) < Capacity
  /\ accepted' \in Bytes /\ queue' = Append(queue, accepted')
  /\ delivered' = delivered

Take ==
  /\ queue # <<>>
  /\ delivered' = Head(queue) /\ queue' = Tail(queue)
  /\ accepted' = accepted

Next == Put \/ Take

Spec == Init /\ [][Next]_<<queue, accepted, delivered>>
=============================================================================
