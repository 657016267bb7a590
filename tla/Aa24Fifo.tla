------------------------------ MODULE Aa24Fifo ------------------------------
(***************************************************************************)
(* What a lane of localworker/aa24_ipc.go promises, as Aa24Ipc uses it: a  *)
(* bounded queue of whole records, read in the order they were written.    *)
(***************************************************************************)
EXTENDS Integers, Sequences

CONSTANTS Records, Capacity, Nothing

VARIABLES
  queue,      \* the records written and not yet read
  delivered   \* the record last read

Init == queue = <<>> /\ delivered = Nothing

Put == \E r \in Records :
         /\ Len(queue) < Capacity
         /\ queue' = Append(queue, r)
         /\ UNCHANGED delivered

Take ==
  /\ queue # <<>>
  /\ queue' = Tail(queue)
  /\ delivered' = Head(queue)

Next == Put \/ Take
Spec == Init /\ [][Next]_<<queue, delivered>>
=============================================================================
