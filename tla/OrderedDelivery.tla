-------------------------- MODULE OrderedDelivery --------------------------
(***************************************************************************)
(* What the outgoing queue, the socket and the reader at its other end     *)
(* promise together: messages, numbered as they are sent, are delivered    *)
(* once each, in order, and only after they were sent.  The tail may never *)
(* be delivered, since a connection can be lost.                           *)
(***************************************************************************)
EXTENDS Naturals, Sequences

VARIABLES
  sent,       \* number of messages sent
  delivered   \* the messages delivered

Init == sent = 0 /\ delivered = <<>>

Send == sent' = sent + 1 /\ UNCHANGED delivered

Deliver ==
  /\ Len(delivered) < sent
  /\ delivered' = Append(delivered, Len(delivered) + 1)
  /\ UNCHANGED sent

Next == Send \/ Deliver

Spec == Init /\ [][Next]_<<sent, delivered>>
=============================================================================
