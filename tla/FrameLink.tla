------------------------------ MODULE FrameLink ------------------------------
(***************************************************************************)
(* One direction of the bridge: send_data of src/network_bridge.cpp frames *)
(* the topics' messages with one sequence counter and the wall clock;      *)
(* receive_data of the peer decodes them (src/protocol/frame_codec.cpp),   *)
(* rejects what is damaged or older than what it has seen, and publishes.  *)
(*                                                                         *)
(* In between is a datagram network: a frame may be lost, delivered late,  *)
(* in any order, more than once, or with damaged bits.  The frames on the  *)
(* wire are a set that only grows, and a frame never delivered is a lost   *)
(* one.  Either side may restart.                                          *)
(***************************************************************************)
EXTENDS Naturals, FiniteSets

CONSTANTS Topics,
          MaxSends,     \* bound: frames sent
          MaxClock,     \* bound: readings of the sender's wall clock
          MaxRestarts,  \* bound: restarts of the sender
          MaxDamaged    \* bound: damaged frames on the wire

ASSUME BoundsAssumption ==
    /\ MaxSends \in Nat /\ MaxClock \in Nat /\ MaxRestarts \in Nat
    /\ MaxDamaged \in Nat

VARIABLES
    tx_sequence_, clock,  \* sender: next sequence, wall clock
    setBack,              \* sender: the wall clock has been set back
    life, sends,          \* sender: restarts so far, frames sent so far
    net,                  \* frames on the wire
    last_,                \* receiver: the FrameDecoder's state for stream key 0
    publishers_,          \* receiver: topics with a publisher
    shown                 \* history: per topic, the newest frame published

vars == <<tx_sequence_, clock, setBack, life, sends, net, last_, publishers_, shown>>

sender   == <<tx_sequence_, clock, setBack, life, sends>>
receiver == <<last_, publishers_, shown>>

\* A frame: n and life say where it comes from, the rest is what the peer reads.
\* intact: both CRCs match, which damage of the bits does not survive.
FrameOf(n, lf, seq, ts, topic) ==
    [n |-> n, life |-> lf, sequence |-> seq, timestamp |-> ts, topic |-> topic, intact |-> TRUE]

NoHistory == [seen |-> FALSE, sequence |-> 0, timestamp |-> 0]

Init ==
    /\ tx_sequence_ = 0 /\ clock = 0 /\ setBack = FALSE /\ life = 0 /\ sends = 0
    /\ net = {}
    /\ last_ = NoHistory /\ publishers_ = {}
    /\ shown = [t \in Topics |-> 0]

-----------------------------------------------------------------------------
(* Sender                                                                  *)

\* send_data for a topic with data on a ready interface.
Send(topic) ==
    /\ sends < MaxSends
    /\ sends' = sends + 1
    /\ net' = net \cup {FrameOf(sends + 1, life, tx_sequence_, clock, topic)}
    /\ tx_sequence_' = tx_sequence_ + 1
    /\ UNCHANGED <<clock, setBack, life, receiver>>

\* encode_frame throws on an oversized payload: its sequence number is used up.
SendTooLarge ==
    /\ sends < MaxSends
    /\ sends' = sends + 1
    /\ tx_sequence_' = tx_sequence_ + 1
    /\ UNCHANGED <<clock, setBack, life, net, receiver>>

\* system_clock::now() moves on, or is set back.
ClockMoves ==
    /\ clock' \in 0 .. MaxClock /\ clock' # clock
    /\ setBack' = (setBack \/ clock' < clock)

Tick ==
    /\ ClockMoves
    /\ UNCHANGED <<tx_sequence_, life, sends, net, receiver>>

\* The sending process is restarted, which takes time.
SenderRestart ==
    /\ life < MaxRestarts
    /\ ClockMoves
    /\ life' = life + 1
    /\ tx_sequence_' = 0
    /\ UNCHANGED <<sends, net, receiver>>

\* Bits of a frame are damaged on the wire, those of its sequence included.
Corrupt ==
    /\ Cardinality({f \in net : ~f.intact}) < MaxDamaged
    /\ \E f \in net, s \in 0 .. MaxSends :
         net' = net \cup {[f EXCEPT !.sequence = s, !.intact = FALSE]}
    /\ UNCHANGED <<sender, receiver>>

-----------------------------------------------------------------------------
(* Receiver                                                                *)

\* Test seeding: only the sequence is compared.
InOrderSequenceOnly(f) == last_.seen => f.sequence >= last_.sequence

\* The history checks of FrameDecoder::decode.
InOrder(f) ==
    last_.seen => f.sequence >= last_.sequence /\ f.timestamp >= last_.timestamp

\* receive_data: decode_header first, the history next, then publish.  A frame
\* that fails a check is counted and forgotten.
Receive(f) ==
    /\ f.intact /\ InOrder(f)
    /\ last_' = [seen |-> TRUE, sequence |-> f.sequence, timestamp |-> f.timestamp]
    /\ publishers_' = publishers_ \cup {f.topic}
    /\ shown' = [shown EXCEPT ![f.topic] = f.n]
    /\ UNCHANGED <<sender, net>>

\* The receiving process is restarted.  A reconnection (check_network_health closes
\* the interface and opens it again) resets nothing of the decoder.
ReceiverRestart ==
    /\ last_' = NoHistory /\ publishers_' = {}
    /\ shown' = [t \in Topics |-> 0]
    /\ UNCHANGED <<sender, net>>

Next ==
    \/ \E t \in Topics : Send(t)
    \/ SendTooLarge \/ Tick \/ SenderRestart \/ Corrupt
    \/ \E f \in net : Receive(f)
    \/ ReceiverRestart

Spec == Init /\ [][Next]_vars

-----------------------------------------------------------------------------
(* Properties                                                              *)

Frames ==
    [n : 1 .. MaxSends, life : 0 .. MaxRestarts, sequence : 0 .. MaxSends,
     timestamp : 0 .. MaxClock, topic : Topics, intact : BOOLEAN]

\* Counters stay within the bounds, and only known topics have publishers.
TypeOK ==
    /\ tx_sequence_ \in Nat /\ tx_sequence_ <= sends /\ setBack \in BOOLEAN
    /\ clock \in 0 .. MaxClock /\ life \in 0 .. MaxRestarts /\ sends \in 0 .. MaxSends
    /\ net \subseteq Frames
    /\ last_ \in [seen : BOOLEAN, sequence : 0 .. MaxSends, timestamp : 0 .. MaxClock]
    /\ publishers_ \subseteq Topics
    /\ shown \in [Topics -> 0 .. MaxSends]

\* What the order of frames rests on: one life of the sender, or a steady clock.
Orderly == life = 0 \/ ~setBack

\* A receiver publishes every topic in the order of sending, whatever the network
\* does.  Sequence numbers keep it so for one life of the sender even if the clock
\* is set back, and timestamps across restarts: a late frame of an earlier life
\* never follows one of a later life.
PublishedInSendOrder ==
    [][Orderly => \A t \in Topics : shown'[t] >= shown[t] \/ ReceiverRestart]_vars

\* The decoder's history is that of a frame that was really sent: a damaged header
\* can not make the receiver reject the stream from then on.
HistoryIsGenuine ==
    last_.seen => \E f \in net : /\ f.intact
                                 /\ f.sequence = last_.sequence
                                 /\ f.timestamp = last_.timestamp
=============================================================================
