----------------------------- MODULE StreamFifo -----------------------------
(***************************************************************************)
(* What a sensor stream promises its two users: a bounded first-in         *)
(* first-out queue of captured frames.  Frames are numbered in capture     *)
(* order.  The two users share no lock, so the producer learns of a        *)
(* delivery only some time after it: "known" counts the deliveries it has  *)
(* learned of, and the queue is full when all its places are taken as far  *)
(* as the producer knows.  A frame offered to a queue that is not full is  *)
(* accepted; one offered to a full queue is dropped only under a policy    *)
(* that may drop the newest, and otherwise waits.                          *)
(*                                                                         *)
(* SpscRing implements this specification with two indices, one array and  *)
(* no lock.                                                                *)
(***************************************************************************)
EXTENDS Naturals, Sequences

CONSTANT Room  \* frames the queue can hold

VARIABLES mayDropNewest, \* configuration: the policy drops the arriving frame
          offered,    \* frames whose fate has been decided
          queue,      \* accepted and not yet delivered, oldest first
          delivered,  \* handed to the consumer, in order
          known       \* deliveries the producer has learned of

vars == <<mayDropNewest, offered, queue, delivered, known>>

\* Places taken, as far as a producer knows that has learned of k deliveries.
Taken(k) == Len(delivered) + Len(queue) - k

Init == mayDropNewest \in BOOLEAN /\ offered = 0 /\ queue = << >> /\ delivered = << >> /\ known = 0

\* The producer learns of deliveries.
Learn ==
    /\ known' \in known .. Len(delivered)
    /\ UNCHANGED <<mayDropNewest, offered, queue, delivered>>

\* The next captured frame joins the queue.
Accept ==
    /\ Taken(known) < Room
    /\ queue' = Append(queue, offered)
    /\ offered' = offered + 1
    /\ UNCHANGED <<mayDropNewest, delivered, known>>

\* The next captured frame finds the queue full and is dropped.
DropNewest ==
    /\ mayDropNewest
    /\ known' \in known .. Len(delivered)
    /\ Taken(known') = Room
    /\ offered' = offered + 1
    /\ UNCHANGED <<mayDropNewest, queue, delivered>>

\* The consumer takes the oldest frame.
Deliver ==
    /\ queue # << >>
    /\ delivered' = Append(delivered, Head(queue))
    /\ queue' = Tail(queue)
    /\ UNCHANGED <<mayDropNewest, offered, known>>

Next == Learn \/ Accept \/ DropNewest \/ Deliver

Spec == Init /\ [][Next]_vars
=============================================================================
