----------------------------- MODULE LinkProofs -----------------------------
(***************************************************************************)
(* Proofs about what comes out of a connection.                            *)
(*                                                                         *)
(* FrameLink, for every set of topics, every number of frames, restarts    *)
(* and damaged copies: sequence numbers order the frames of one life of    *)
(* the sender, timestamps order its lives as long as the clock is not set  *)
(* back.  Together they order all frames, so a frame that passes both      *)
(* checks against the last accepted one was not sent before it.            *)
(*                                                                         *)
(* TcpWire, for every byte stream, every size of a byte and every limit:   *)
(* both parsers find the frames of the reference, and what one orderly     *)
(* writer sends is what is delivered.                                      *)
(***************************************************************************)
EXTENDS FrameLink, TcpWire, Integers, TLAPS, SequenceTheorems, NaturalsInduction, WellFoundedInduction

Sent == {f \in net : f.intact}

\* Every frame on the wire is in the sender's past.
Past ==
    \A f \in Sent :
        /\ f.n <= sends /\ f.life <= life
        /\ f.life = life => f.sequence < tx_sequence_
        /\ ~setBack => f.timestamp <= clock /\ (f.life < life => f.timestamp < clock)

\* Sequences order a life, timestamps order the lives.
Ordered ==
    \A f, g \in Sent :
        /\ f.n < g.n => /\ f.life = g.life => f.sequence < g.sequence
                        /\ ~setBack /\ f.life # g.life => f.timestamp < g.timestamp

\* The decoder remembers a sent frame, and nothing published is newer than it.
History ==
    /\ last_.seen =>
         \E f \in Sent : /\ f.sequence = last_.sequence /\ f.timestamp = last_.timestamp
                         /\ Orderly => \A t \in Topics : shown[t] <= f.n
    /\ ~last_.seen => \A t \in Topics : shown[t] = 0

\* The inductive invariant.
IInv == TypeOK /\ Past /\ Ordered /\ History

-----------------------------------------------------------------------------
LEMMA HistoryType ==
    ASSUME NEW b \in BOOLEAN, NEW s \in 0 .. MaxSends, NEW c \in 0 .. MaxClock
    PROVE  [seen |-> b, sequence |-> s, timestamp |-> c]
             \in [seen : BOOLEAN, sequence : 0 .. MaxSends, timestamp : 0 .. MaxClock]
OBVIOUS

LEMMA NoHistoryType ==
    /\ NoHistory \in [seen : BOOLEAN, sequence : 0 .. MaxSends, timestamp : 0 .. MaxClock]
    /\ ~NoHistory.seen
BY HistoryType, BoundsAssumption DEF NoHistory

LEMMA NothingShownType == [t \in Topics |-> 0] \in [Topics -> 0 .. MaxSends]
BY BoundsAssumption

LEMMA InitIInv == Init => IInv
<1> SUFFICES ASSUME Init PROVE IInv
  OBVIOUS
<1>1. TypeOK
  <2>1. tx_sequence_ \in Nat /\ tx_sequence_ <= sends /\ clock \in 0 .. MaxClock
        /\ life \in 0 .. MaxRestarts /\ sends \in 0 .. MaxSends
    BY BoundsAssumption DEF Init
  <2>2. net \subseteq Frames /\ publishers_ \subseteq Topics /\ setBack \in BOOLEAN
    BY Zenon DEF Init
  <2> QED BY <2>1, <2>2, NoHistoryType, NothingShownType DEF Init, TypeOK
<1>2. Past /\ Ordered
  BY DEF Init, Past, Ordered, Sent
<1>3. History
  BY NoHistoryType DEF Init, History
<1> QED BY <1>1, <1>2, <1>3 DEF IInv

\* A step that leaves the intact frames and the receiver's history alone.
LEMMA HistoryKept ==
    ASSUME History, Sent \subseteq Sent', UNCHANGED <<last_, shown>>, Orderly' => Orderly
    PROVE  History'
BY DEF History

LEMMA SendIInv ==
    ASSUME IInv, NEW t \in Topics, Send(t) PROVE IInv'
<1> DEFINE new == FrameOf(sends + 1, life, tx_sequence_, clock, t)
<1>1. /\ sends < MaxSends /\ sends' = sends + 1 /\ net' = net \cup {new}
      /\ tx_sequence_' = tx_sequence_ + 1
      /\ UNCHANGED <<clock, setBack, life, last_, publishers_, shown>>
  BY DEF Send, receiver
<1>2. /\ new \in Frames /\ new.n = sends + 1 /\ new.life = life /\ new.intact
      /\ new.sequence = tx_sequence_ /\ new.timestamp = clock
  BY <1>1, BoundsAssumption DEF IInv, TypeOK, Frames, FrameOf
<1> HIDE DEF new
<1>3. Sent' = Sent \cup {new}
  BY <1>1, <1>2 DEF Sent
<1>4. TypeOK'
  BY <1>1, <1>2, BoundsAssumption DEF IInv, TypeOK
<1>5. \A f \in Sent : f \in Frames
  BY DEF Sent, IInv, TypeOK
<1>6. Past'
  BY <1>1, <1>2, <1>3, <1>5, BoundsAssumption DEF IInv, Past, TypeOK, Frames
<1>7. Ordered'
  BY <1>1, <1>2, <1>3, <1>5, BoundsAssumption DEF IInv, Past, Ordered, TypeOK, Frames
<1>8. History'
  BY <1>1, <1>3, HistoryKept DEF IInv, Orderly
<1> QED BY <1>4, <1>6, <1>7, <1>8 DEF IInv

\* The clock stays in its range, and it goes on unless it is set back.
LEMMA ClockMovesOn ==
    ASSUME TypeOK, ClockMoves
    PROVE  /\ clock' \in 0 .. MaxClock /\ setBack' \in BOOLEAN
           /\ ~setBack' => ~setBack /\ clock' > clock
<1>1. clock' \in 0 .. MaxClock /\ clock' # clock /\ setBack' = (setBack \/ clock' < clock)
  BY DEF ClockMoves
<1>2. ~(clock' < clock) => clock' > clock
  BY <1>1, BoundsAssumption DEF TypeOK
<1>3. setBack' \in BOOLEAN
  BY <1>1, Zenon
<1>4. ~setBack' => ~setBack /\ ~(clock' < clock)
  BY <1>1, Zenon
<1> QED BY <1>1, <1>2, <1>3, <1>4, Zenon

LEMMA SenderIInv ==
    ASSUME IInv, SendTooLarge \/ Tick \/ SenderRestart PROVE IInv'
<1>1. UNCHANGED <<net, last_, publishers_, shown>> /\ Sent' = Sent
  BY DEF SendTooLarge, Tick, SenderRestart, receiver, Sent
<1>2. TypeOK'
  BY <1>1, BoundsAssumption, ClockMovesOn DEF IInv, TypeOK, SendTooLarge, Tick, SenderRestart
<1>3. \A f \in Sent : f \in Frames
  BY DEF Sent, IInv, TypeOK
<1>4. Past'
  <2>1. CASE SendTooLarge
    BY <2>1, <1>1, <1>3, BoundsAssumption DEF SendTooLarge, IInv, Past, TypeOK, Frames
  <2>2. CASE Tick
    BY <2>2, <1>1, <1>3, BoundsAssumption, ClockMovesOn DEF Tick, IInv, Past, TypeOK, Frames
  <2>3. CASE SenderRestart
    BY <2>3, <1>1, <1>3, BoundsAssumption, ClockMovesOn DEF SenderRestart, IInv, Past, TypeOK, Frames
  <2> QED BY <2>1, <2>2, <2>3
<1>5. Ordered'
  BY <1>1, ClockMovesOn DEF IInv, Ordered, SendTooLarge, Tick, SenderRestart
<1>6. History'
  <2>1. Orderly' => Orderly
    BY BoundsAssumption, ClockMovesOn DEF IInv, TypeOK, Orderly, SendTooLarge, Tick, SenderRestart
  <2> QED BY <1>1, <2>1, HistoryKept DEF IInv
<1> QED BY <1>2, <1>4, <1>5, <1>6 DEF IInv

LEMMA CorruptIInv == ASSUME IInv, Corrupt PROVE IInv'
<1>1. PICK f \in net, s \in 0 .. MaxSends :
        net' = net \cup {[f EXCEPT !.sequence = s, !.intact = FALSE]}
  BY DEF Corrupt
<1>2. [f EXCEPT !.sequence = s, !.intact = FALSE] \in Frames
      /\ ~[f EXCEPT !.sequence = s, !.intact = FALSE].intact
  BY DEF IInv, TypeOK, Frames
<1>3. UNCHANGED <<tx_sequence_, clock, setBack, life, sends, last_, publishers_, shown>>
  BY DEF Corrupt, sender, receiver
<1>4. Sent' = Sent
  BY <1>1, <1>2 DEF Sent
<1>5. TypeOK'
  BY <1>1, <1>2, <1>3 DEF IInv, TypeOK
<1>6. Past' /\ Ordered'
  BY <1>3, <1>4 DEF IInv, Past, Ordered
<1>7. History'
  BY <1>3, <1>4, HistoryKept DEF IInv, Orderly
<1> QED BY <1>5, <1>6, <1>7 DEF IInv

\* The heart of the matter: a frame that passes both checks is not older than any
\* frame published so far.
LEMMA PassesAreNewer ==
    ASSUME IInv, Orderly, NEW g \in net, g.intact, InOrder(g), NEW t \in Topics
    PROVE  shown[t] <= g.n
<1>1. g \in Sent /\ g \in Frames
  BY DEF Sent, IInv, TypeOK
<1>2. CASE last_.seen
  <2>1. PICK f \in Sent : /\ f.sequence = last_.sequence /\ f.timestamp = last_.timestamp
                          /\ \A u \in Topics : shown[u] <= f.n
    BY <1>2 DEF IInv, History
  <2>2. f \in Frames /\ shown[t] \in 0 .. MaxSends
    BY DEF Sent, IInv, TypeOK
  <2>3. g.sequence >= f.sequence /\ g.timestamp >= f.timestamp
    BY <1>2, <2>1 DEF InOrder
  <2>4. ~(g.n < f.n)
    BY <1>1, <2>1, <2>2, <2>3, BoundsAssumption DEF IInv, TypeOK, Past, Ordered, Orderly, Frames
  <2> QED BY <1>1, <2>1, <2>2, <2>4, BoundsAssumption DEF Frames
<1>3. CASE ~last_.seen
  BY <1>1, <1>3, BoundsAssumption DEF IInv, History, Frames
<1> QED BY <1>2, <1>3

LEMMA ReceiveIInv == ASSUME IInv, NEW g \in net, Receive(g) PROVE IInv'
<1>1. /\ g.intact /\ InOrder(g) /\ UNCHANGED <<tx_sequence_, clock, setBack, life, sends, net>>
      /\ last_' = [seen |-> TRUE, sequence |-> g.sequence, timestamp |-> g.timestamp]
      /\ publishers_' = publishers_ \cup {g.topic}
      /\ shown' = [shown EXCEPT ![g.topic] = g.n]
  BY DEF Receive, sender
<1>2. g \in Sent /\ g \in Frames /\ Sent' = Sent
  BY <1>1 DEF Sent, IInv, TypeOK
<1>3. TypeOK'
  <2>1. /\ g.sequence \in 0 .. MaxSends /\ g.timestamp \in 0 .. MaxClock
        /\ g.topic \in Topics /\ g.n \in 0 .. MaxSends
    BY <1>2, BoundsAssumption DEF Frames
  <2>2. last_' \in [seen : BOOLEAN, sequence : 0 .. MaxSends, timestamp : 0 .. MaxClock]
    BY <1>1, <2>1, HistoryType
  <2> QED BY <1>1, <2>1, <2>2 DEF IInv, TypeOK
<1>4. Past' /\ Ordered'
  BY <1>1, <1>2 DEF IInv, Past, Ordered
<1>5. Orderly => \A t \in Topics : shown[t] <= g.n
  BY <1>1, PassesAreNewer
<1>6. Orderly' => \A t \in Topics : shown'[t] <= g.n
  BY <1>1, <1>2, <1>5, BoundsAssumption DEF IInv, TypeOK, Frames, Orderly
<1>7. History'
  BY <1>1, <1>2, <1>6 DEF History
<1> QED BY <1>3, <1>4, <1>7 DEF IInv

LEMMA ReceiverRestartIInv == ASSUME IInv, ReceiverRestart PROVE IInv'
<1>1. UNCHANGED <<tx_sequence_, clock, setBack, life, sends, net>> /\ Sent' = Sent
  BY DEF ReceiverRestart, sender, Sent
<1>2. TypeOK'
  BY <1>1, NoHistoryType, NothingShownType DEF IInv, TypeOK, ReceiverRestart
<1>3. Past' /\ Ordered'
  BY <1>1 DEF IInv, Past, Ordered
<1>4. History'
  BY NoHistoryType DEF History, ReceiverRestart
<1> QED BY <1>2, <1>3, <1>4 DEF IInv

LEMMA NextIInv == IInv /\ [Next]_vars => IInv'
<1> SUFFICES ASSUME IInv, [Next]_vars PROVE IInv'
  OBVIOUS
<1>1. CASE UNCHANGED vars
  BY <1>1 DEF vars, IInv, TypeOK, Past, Ordered, History, Sent, Orderly
<1> QED BY <1>1, SendIInv, SenderIInv, CorruptIInv, ReceiveIInv, ReceiverRestartIInv DEF Next

LEMMA Inductive == Spec => []IInv
BY InitIInv, NextIInv, PTL DEF Spec

-----------------------------------------------------------------------------
\* Counters stay within bounds and publishers belong to topics, for all bounds.
THEOREM LinkTypeCorrect == Spec => []TypeOK
<1>1. IInv => TypeOK
  BY DEF IInv
<1> QED BY <1>1, Inductive, PTL

\* The sequence and timestamp checks of FrameDecoder::decode keep every topic in
\* the order of sending, across loss, delay, repetition, damage and restarts.
THEOREM LinkPublishedInSendOrder ==
    Spec => PublishedInSendOrder
<1>1. ASSUME IInv, [Next]_vars
      PROVE  [Orderly => \A t \in Topics : shown'[t] >= shown[t] \/ ReceiverRestart]_vars
  <2> SUFFICES ASSUME Orderly
               PROVE  \A t \in Topics : shown'[t] >= shown[t] \/ ReceiverRestart
    OBVIOUS
  <2>1. \A t \in Topics : shown[t] \in Nat
    BY <1>1, BoundsAssumption DEF IInv, TypeOK
  <2>2. CASE \E g \in net : Receive(g)
    <3>1. PICK g \in net : Receive(g)
      BY <2>2
    <3>2. \A t \in Topics : shown[t] <= g.n
      BY <1>1, <3>1, PassesAreNewer DEF Receive
    <3>3. g.n \in Nat
      BY <1>1, BoundsAssumption DEF IInv, TypeOK, Frames
    <3>4. shown \in [Topics -> Nat] /\ shown' = [shown EXCEPT ![g.topic] = g.n]
      BY <1>1, <3>1, BoundsAssumption DEF IInv, TypeOK, Receive
    <3> QED BY <2>1, <3>2, <3>3, <3>4
  <2>3. CASE UNCHANGED shown
    BY <2>1, <2>3
  <2>4. CASE ReceiverRestart
    BY <2>4
  <2> QED BY <1>1, <2>2, <2>3, <2>4
          DEF Next, vars, Send, SendTooLarge, Tick, SenderRestart, Corrupt, receiver
<1> QED BY <1>1, Inductive, PTL DEF Spec, PublishedInSendOrder

\* A damaged frame never becomes the history others are compared with.
THEOREM LinkHistoryIsGenuine == Spec => []HistoryIsGenuine
<1>1. IInv => HistoryIsGenuine
  BY DEF IInv, History, HistoryIsGenuine, Sent
<1> QED BY <1>1, Inductive, PTL

-----------------------------------------------------------------------------
(* The reference parser                                                    *)

\* A non-empty set of naturals has a least element.
LEMMA LeastNatural ==
    ASSUME NEW T \in SUBSET Nat, T # {}
    PROVE  \E x \in T : \A y \in T : x <= y
<1>1. PICK x \in T : \A y \in T : ~(<<y, x>> \in OpToRel(<, Nat))
  BY NatLessThanWellFounded, WFMin, Zenon
<1>2. ASSUME NEW y \in T PROVE x <= y
  <2>1. ~(y < x)
    BY <1>1 DEF OpToRel
  <2> QED BY <2>1
<1> QED BY <1>2

\* From the end of a stream to its beginning.
LEMMA Downwards ==
    ASSUME NEW n \in Nat, NEW S,
           \A i \in 1 .. n : (\A j \in i + 1 .. n : j \in S) => i \in S
    PROVE  \A i \in 1 .. n : i \in S
<1> DEFINE T == {k \in Nat : k < n /\ n - k \notin S}
<1>1. SUFFICES ASSUME T # {} PROVE FALSE
  <2>1. ASSUME NEW i \in 1 .. n, i \notin S PROVE FALSE
    <3>1. n - i \in T
      BY <2>1
    <3> QED BY <1>1, <3>1
  <2> QED BY <2>1
<1>2. PICK k \in T : \A j \in T : k <= j
  BY <1>1, LeastNatural
<1>3. n - k \in 1 .. n /\ n - k \notin S
  OBVIOUS
<1>4. ASSUME NEW j \in n - k + 1 .. n PROVE j \in S
  <2>1. n - j \in Nat /\ n - j < k /\ n - j < n /\ n - (n - j) = j
    BY <1>3
  <2>2. n - j \notin T
    BY <1>2, <2>1
  <2> QED BY <2>1, <2>2
<1> QED BY <1>3, <1>4

\* Two digits make a number below Base * Base.
LEMMA TwoDigits ==
    ASSUME NEW a \in Bytes, NEW b \in Bytes
    PROVE  a + Base * b \in Nat /\ a + Base * b < Base * Base
<1>1. Base \in Nat /\ Base > 0
  BY WireAssumption
<1>2. PICK c \in Nat : c = Base - 1 /\ b <= c /\ a <= c /\ b \in Nat /\ a \in Nat
  BY <1>1 DEF Bytes
<1>3. Base * b \in Nat /\ Base * c \in Nat /\ Base * b <= Base * c
  BY <1>1, <1>2
<1>4. Base * c = Base * Base - Base /\ Base * Base \in Nat
  BY <1>1, <1>2
<1> QED BY <1>1, <1>2, <1>3, <1>4

LEMMA SizeFacts ==
    ASSUME NEW s \in Seq(Bytes), NEW m \in 1 .. Len(s) - 3, NEW little \in BOOLEAN
    PROVE  SizeAt(s, m, little) \in Nat /\ SizeAt(s, m, little) < Base * Base
<1>1. PICK a \in Bytes, b \in Bytes : a = s[m + 2] /\ b = s[m + 3]
  OBVIOUS
<1>2. /\ a + Base * b \in Nat /\ a + Base * b < Base * Base
      /\ b + Base * a \in Nat /\ b + Base * a < Base * Base
  BY TwoDigits
<1>3. a \in Nat /\ b \in Nat /\ Base * a \in Nat /\ Base * a + b = b + Base * a
  BY WireAssumption, SMTT(30) DEF Bytes
<1> QED BY <1>1, <1>2, <1>3 DEF SizeAt

LEMMA MarkFacts ==
    ASSUME NEW s \in Seq(Bytes), NEW i \in 1 .. Len(s) + 1, Marks(s, i) # {}
    PROVE  /\ FirstMark(s, i) \in Marks(s, i) /\ \A y \in Marks(s, i) : FirstMark(s, i) <= y
           /\ FirstMark(s, i) \in i .. Len(s) - 3
<1>1. Marks(s, i) \in SUBSET Nat
  BY DEF Marks
<1>2. \E x \in Marks(s, i) : \A y \in Marks(s, i) : x <= y
  BY <1>1, LeastNatural
<1>3. /\ FirstMark(s, i) \in Marks(s, i) /\ \A y \in Marks(s, i) : FirstMark(s, i) <= y
  BY <1>2, Zenon DEF FirstMark
<1> QED BY <1>3 DEF Marks

\* What the reference makes of place i, given what f makes of the places after it.
FromStep(f, s, i, little, limit) ==
    LET m    == FirstMark(s, i)
        size == SizeAt(s, m, little)
    IN  IF Marks(s, i) = {} THEN << >>
        ELSE IF size > limit THEN f[m + 4]
        ELSE IF m + 3 + size > Len(s) THEN << >>
        ELSE <<SubSeq(s, m + 4, m + 3 + size)>> \o f[m + 4 + size]

IsFrom(f, s, little, limit, first) ==
    f = [i \in first .. Len(s) + 1 |-> FromStep(f, s, i, little, limit)]

LEMMA FromChosen ==
    ASSUME NEW s, NEW little, NEW limit
    PROVE  FramesFrom(s, little, limit) = CHOOSE f : IsFrom(f, s, little, limit, 1)
BY DEF FramesFrom, IsFrom, FromStep

LEMMA FromLocal ==
    ASSUME NEW s \in Seq(Bytes), NEW little \in BOOLEAN, NEW limit \in Nat, NEW i \in 1 .. Len(s) + 1,
           NEW f, NEW g, \A j \in i + 1 .. Len(s) + 1 : f[j] = g[j]
    PROVE  FromStep(f, s, i, little, limit) = FromStep(g, s, i, little, limit)
<1>0. PICK n \in Nat : n = Len(s)
  OBVIOUS
<1>1. CASE Marks(s, i) = {}
  BY <1>1 DEF FromStep
<1>2. CASE Marks(s, i) # {}
  <2>1. PICK m \in i .. n - 3 : m = FirstMark(s, i)
    BY <1>0, <1>2, MarkFacts
  <2>2. PICK size \in Nat : size = SizeAt(s, m, little)
    BY <1>0, <2>1, SizeFacts
  <2>3. m + 4 \in i + 1 .. n + 1 /\ (m + 3 + size <= n => m + 4 + size \in i + 1 .. n + 1)
    BY <1>0, <2>1, <2>2, SMTT(30)
  <2>4. f[m + 4] = g[m + 4] /\ (m + 3 + size <= n => f[m + 4 + size] = g[m + 4 + size])
    BY <1>0, <2>3
  <2>5. ~(m + 3 + size > n) => m + 3 + size <= n
    BY <1>0, <2>1, <2>2
  <2> QED BY <1>0, <1>2, <2>1, <2>2, <2>4, <2>5 DEF FromStep
<1> QED BY <1>1, <1>2

LEMMA FromExists ==
    ASSUME NEW s \in Seq(Bytes), NEW little \in BOOLEAN, NEW limit \in Nat
    PROVE  \E f : IsFrom(f, s, little, limit, 1)
<1> DEFINE Step(f, i) == FromStep(f, s, i, little, limit)
<1>0. PICK n \in Nat : n = Len(s)
  OBVIOUS
<1> DEFINE S == {i \in 1 .. n + 1 : \E f : IsFrom(f, s, little, limit, i)}
<1>1. ASSUME NEW i \in 1 .. n + 1, \A j \in i + 1 .. n + 1 : j \in S PROVE i \in S
  <2>1. PICK g : i = n + 1 \/ IsFrom(g, s, little, limit, i + 1)
    <3>1. i = n + 1 \/ i + 1 \in i + 1 .. n + 1
      BY <1>0
    <3> QED BY <1>1, <3>1
  <2> DEFINE f == [j \in i .. n + 1 |-> IF j = i THEN Step(g, i) ELSE g[j]]
  <2>2. ASSUME NEW j \in i + 1 .. n + 1 PROVE f[j] = g[j]
    <3>1. j \in i .. n + 1 /\ j # i
      BY <1>0
    <3> QED BY <3>1
  <2>3. f[i] = Step(g, i)
    <3>1. i \in i .. n + 1
      BY <1>0
    <3> QED BY <3>1
  <2>4. f = [j \in i .. n + 1 |-> f[j]]
    OBVIOUS
  <2> HIDE DEF f
  <2>5. ASSUME NEW j \in i .. n + 1 PROVE f[j] = Step(f, j)
    <3>1. j \in 1 .. Len(s) + 1 /\ \A k \in j + 1 .. Len(s) + 1 : k \in i + 1 .. n + 1
      BY <1>0
    <3>2. Step(f, j) = Step(g, j)
      BY <2>2, <3>1, FromLocal
    <3>3. CASE j = i
      BY <2>3, <3>2, <3>3
    <3>4. CASE j # i
      <4>1. j \in i + 1 .. Len(s) + 1 /\ i # n + 1 /\ j \in i + 1 .. n + 1
        BY <1>0, <3>4
      <4>2. g[j] = Step(g, j)
        BY <2>1, <4>1 DEF IsFrom
      <4> QED BY <2>2, <3>2, <4>1, <4>2
    <3> QED BY <3>3, <3>4
  <2>6. f = [j \in i .. n + 1 |-> Step(f, j)]
    BY <2>4, <2>5
  <2>7. IsFrom(f, s, little, limit, i)
    BY <1>0, <2>6 DEF IsFrom
  <2> QED BY <2>7
<1>2. \A i \in 1 .. n + 1 : i \in S
  <2>1. n + 1 \in Nat
    BY <1>0
  <2> HIDE DEF S
  <2> QED BY <1>1, <2>1, Downwards
<1>3. 1 \in S
  BY <1>0, <1>2
<1> QED BY <1>3

\* The recursion of the reference, unfolded at a place.
LEMMA FromAt ==
    ASSUME NEW s \in Seq(Bytes), NEW little \in BOOLEAN, NEW limit \in Nat, NEW i \in 1 .. Len(s) + 1
    PROVE  FramesFrom(s, little, limit)[i] = FromStep(FramesFrom(s, little, limit), s, i, little, limit)
<1>1. PICK f : f = FramesFrom(s, little, limit)
  OBVIOUS
<1>2. IsFrom(f, s, little, limit, 1)
  BY <1>1, FromChosen, FromExists, Zenon
<1>3. f[i] = FromStep(f, s, i, little, limit)
  BY <1>2 DEF IsFrom
<1> QED BY <1>1, <1>3

LEMMA SubSeqAt ==
    ASSUME NEW S, NEW h \in Seq(S), NEW a \in Nat \ {0}, NEW b \in Nat, b <= Len(h), a <= b + 1
    PROVE  /\ SubSeq(h, a, b) \in Seq(S) /\ Len(SubSeq(h, a, b)) = b + 1 - a
           /\ \A k \in 1 .. b + 1 - a : SubSeq(h, a, b)[k] = h[a + k - 1]
<1>1. \A k \in a .. b : h[k] \in S
  OBVIOUS
<1>2. /\ SubSeq(h, a, b) \in Seq(S) /\ Len(SubSeq(h, a, b)) = IF a <= b THEN b - a + 1 ELSE 0
      /\ \A k \in 1 .. b - a + 1 : SubSeq(h, a, b)[k] = h[a + k - 1]
  BY <1>1, SubSeqProperties
<1>3. 1 .. b + 1 - a = 1 .. b - a + 1
  OBVIOUS
<1>4. Len(SubSeq(h, a, b)) = b + 1 - a
  BY <1>2
<1> QED BY <1>2, <1>3, <1>4

\* Its results are messages.
LEMMA FromTyped ==
    ASSUME NEW s \in Seq(Bytes), NEW little \in BOOLEAN, NEW limit \in Nat, NEW i \in 1 .. Len(s) + 1
    PROVE  FramesFrom(s, little, limit)[i] \in Seq(Seq(Bytes))
<1>a. PICK f : f = FramesFrom(s, little, limit)
  OBVIOUS
<1>0. PICK n \in Nat : n = Len(s) /\ f = FramesFrom(s, little, limit)
  BY <1>a
<1> DEFINE S == {j \in 1 .. n + 1 : f[j] \in Seq(Seq(Bytes))}
<1>1. ASSUME NEW j \in 1 .. n + 1, \A k \in j + 1 .. n + 1 : k \in S PROVE j \in S
  <2>1. f[j] = FromStep(f, s, j, little, limit)
    BY <1>0, FromAt
  <2>2. CASE Marks(s, j) = {}
    <3>1. f[j] = << >>
      BY <2>1, <2>2, Zenon DEF FromStep
    <3>2. << >> \in Seq(Seq(Bytes))
      OBVIOUS
    <3> QED BY <3>1, <3>2
  <2>3. CASE Marks(s, j) # {}
    <3>1. PICK m \in j .. n - 3 : m = FirstMark(s, j)
      BY <1>0, <2>3, MarkFacts
    <3>2. PICK size \in Nat : size = SizeAt(s, m, little)
      BY <1>0, <3>1, SizeFacts
    <3>3. f[m + 4] \in Seq(Seq(Bytes))
      <4>1. m + 4 \in j + 1 .. n + 1
        BY <1>0, <3>1
      <4> QED BY <1>1, <4>1
    <3>4. ASSUME m + 3 + size <= n
          PROVE  <<SubSeq(s, m + 4, m + 3 + size)>> \o f[m + 4 + size] \in Seq(Seq(Bytes))
      <4>1. m + 4 + size \in j + 1 .. n + 1
        BY <1>0, <3>1, <3>2, <3>4, SMTT(30)
      <4>2. PICK h \in Seq(Seq(Bytes)) : h = f[m + 4 + size]
        BY <1>1, <4>1
      <4>3. PICK d \in Seq(Bytes) : d = SubSeq(s, m + 4, m + 3 + size)
        <5>1. PICK a \in Nat \ {0}, b \in Nat : a = m + 4 /\ b = m + 3 + size /\ b <= n /\ a <= b + 1
          BY <3>4
        <5>2. b <= Len(s)
          BY <1>0, <5>1
        <5>3. SubSeq(s, a, b) \in Seq(Bytes)
          BY <5>1, <5>2, SubSeqAt
        <5> QED BY <5>1, <5>3
      <4>4. <<d>> \o h \in Seq(Seq(Bytes))
        OBVIOUS
      <4> QED BY <4>2, <4>3, <4>4
    <3>5. f[j] \in Seq(Seq(Bytes))
      <4>1. CASE size > limit
        BY <2>1, <2>3, <3>1, <3>2, <3>3, <4>1 DEF FromStep
      <4>2. CASE ~(size > limit) /\ m + 3 + size > n
        BY <1>0, <2>1, <2>3, <3>1, <3>2, <4>2 DEF FromStep
      <4>3. CASE ~(size > limit) /\ ~(m + 3 + size > n)
        <5>1. m + 3 + size <= n
          BY <1>0, <3>1, <3>2, <4>3
        <5>2. f[j] = <<SubSeq(s, m + 4, m + 3 + size)>> \o f[m + 4 + size]
          BY <1>0, <2>1, <2>3, <3>1, <3>2, <4>3 DEF FromStep
        <5> QED BY <3>4, <5>1, <5>2
      <4> QED BY <4>1, <4>2, <4>3
    <3> QED BY <3>5
  <2> QED BY <2>2, <2>3
<1>2. \A j \in 1 .. n + 1 : j \in S
  <2>1. n + 1 \in Nat
    BY <1>0
  <2> HIDE DEF S
  <2> QED BY <1>1, <2>1, Downwards
<1> QED BY <1>0, <1>2

\* Places before the same headers have the same frames after them.
LEMMA SameMarks ==
    ASSUME NEW s \in Seq(Bytes), NEW little \in BOOLEAN, NEW limit \in Nat,
           NEW i \in 1 .. Len(s) + 1, NEW j \in 1 .. Len(s) + 1, Marks(s, i) = Marks(s, j)
    PROVE  FramesFrom(s, little, limit)[i] = FramesFrom(s, little, limit)[j]
<1>1. PICK f : f = FramesFrom(s, little, limit)
  OBVIOUS
<1>2. FirstMark(s, i) = FirstMark(s, j)
  BY Zenon DEF FirstMark
<1>3. FromStep(f, s, i, little, limit) = FromStep(f, s, j, little, limit)
  BY <1>2, Zenon DEF FromStep
<1>4. f[i] = FromStep(f, s, i, little, limit) /\ f[j] = FromStep(f, s, j, little, limit)
  BY <1>1, FromAt
<1> QED BY <1>1, <1>3, <1>4

\* A byte that starts no frame.
LEMMA SkipByte ==
    ASSUME NEW s \in Seq(Bytes), NEW little \in BOOLEAN, NEW limit \in Nat, NEW i \in 1 .. Len(s),
           i < Len(s) => ~(s[i] = AB /\ s[i + 1] = CD)
    PROVE  FramesFrom(s, little, limit)[i] = FramesFrom(s, little, limit)[i + 1]
<1>1. i \in 1 .. Len(s) + 1 /\ i + 1 \in 1 .. Len(s) + 1
  OBVIOUS
<1>2. Marks(s, i) = Marks(s, i + 1)
  <2>1. ASSUME NEW m \in Marks(s, i) PROVE m \in Marks(s, i + 1)
    <3>1. m # i
      BY DEF Marks
    <3> QED BY <3>1 DEF Marks
  <2>2. ASSUME NEW m \in Marks(s, i + 1) PROVE m \in Marks(s, i)
    BY DEF Marks
  <2> QED BY <2>1, <2>2
<1> QED BY <1>1, <1>2, SameMarks

\* At a complete header.
LEMMA AtMark ==
    ASSUME NEW s \in Seq(Bytes), NEW little \in BOOLEAN, NEW limit \in Nat, NEW i \in 1 .. Len(s) - 3,
           s[i] = AB, s[i + 1] = CD, NEW size \in Nat, size = SizeAt(s, i, little)
    PROVE  FramesFrom(s, little, limit)[i] =
             IF size > limit THEN FramesFrom(s, little, limit)[i + 4]
             ELSE IF i + 3 + size > Len(s) THEN << >>
             ELSE <<SubSeq(s, i + 4, i + 3 + size)>> \o FramesFrom(s, little, limit)[i + 4 + size]
<1>a. PICK f : f = FramesFrom(s, little, limit)
  OBVIOUS
<1>0. PICK n \in Nat : n = Len(s) /\ f = FramesFrom(s, little, limit)
  BY <1>a
<1>1. i \in Marks(s, i) /\ i \in 1 .. n + 1
  BY <1>0 DEF Marks
<1>2. FirstMark(s, i) = i
  <2>1. FirstMark(s, i) \in i .. n - 3 /\ FirstMark(s, i) <= i
    BY <1>0, <1>1, MarkFacts
  <2> QED BY <2>1
<1>3. f[i] = FromStep(f, s, i, little, limit)
  BY <1>0, <1>1, FromAt
<1>4. FromStep(f, s, i, little, limit) =
        IF size > limit THEN f[i + 4]
        ELSE IF i + 3 + size > n THEN << >>
        ELSE <<SubSeq(s, i + 4, i + 3 + size)>> \o f[i + 4 + size]
  BY <1>0, <1>1, <1>2 DEF FromStep
<1> QED BY <1>0, <1>3, <1>4

LEMMA AtImpossible ==
    ASSUME NEW s \in Seq(Bytes), NEW little \in BOOLEAN, NEW limit \in Nat, NEW i \in 1 .. Len(s) - 3,
           s[i] = AB, s[i + 1] = CD, NEW size \in Nat, size = SizeAt(s, i, little),
           size > limit
    PROVE  FramesFrom(s, little, limit)[i] = FramesFrom(s, little, limit)[i + 4]
BY AtMark, ZenonT(60)

LEMMA AtUnfinished ==
    ASSUME NEW s \in Seq(Bytes), NEW little \in BOOLEAN, NEW limit \in Nat, NEW i \in 1 .. Len(s) - 3,
           s[i] = AB, s[i + 1] = CD, NEW size \in Nat, size = SizeAt(s, i, little),
           ~(size > limit), i + 3 + size > Len(s)
    PROVE  FramesFrom(s, little, limit)[i] = << >>
BY AtMark, ZenonT(60)

First(d, w) == <<d>> \o w

LEMMA AtFrame ==
    ASSUME NEW s \in Seq(Bytes), NEW little \in BOOLEAN, NEW limit \in Nat, NEW i \in 1 .. Len(s) - 3,
           s[i] = AB, s[i + 1] = CD, NEW size \in Nat, size = SizeAt(s, i, little),
           ~(size > limit), ~(i + 3 + size > Len(s))
    PROVE  FramesFrom(s, little, limit)[i] =
             First(SubSeq(s, i + 4, i + 3 + size), FramesFrom(s, little, limit)[i + 4 + size])
BY AtMark, ZenonT(60) DEF First

-----------------------------------------------------------------------------
(* The parsers, byte by byte                                               *)

Extends(u, s) == Len(s) <= Len(u) /\ \A j \in 1 .. Len(s) : u[j] = s[j]

HeaderAt(s, i) == s[i] = AB /\ s[i + 1] = CD

\* A parser that has read s is before place i: what it holds is what follows from there.
Pending(x, s, i, little, limit) ==
    /\ i \in 1 .. Len(s) + 1
    /\ x.state = 0 => i = Len(s) + 1 /\ x.bytes = << >> /\ x.payload_size = 0
    /\ x.state = 1 => i = Len(s) /\ s[i] = AB /\ x.bytes = << >> /\ x.payload_size = 0
    /\ x.state = 2 => /\ Len(x.bytes) \in {0, 1} /\ i + 1 + Len(x.bytes) = Len(s) /\ HeaderAt(s, i)
                      /\ Len(x.bytes) = 1 => x.bytes[1] = s[i + 2]
                      /\ x.payload_size = 0
    /\ x.state = 3 => /\ i + 3 + Len(x.bytes) = Len(s) /\ HeaderAt(s, i)
                      /\ x.payload_size = SizeAt(s, i, little) /\ x.payload_size <= limit
                      /\ Len(x.bytes) < x.payload_size
                      /\ \A k \in 1 .. Len(x.bytes) : x.bytes[k] = s[i + 3 + k]

ParserTyped(x) ==
    /\ x.state \in 0 .. 3 /\ x.bytes \in Seq(Bytes) /\ x.out \in Seq(Seq(Bytes)) /\ x.payload_size \in Nat

\* However s goes on, the reference finds what the parser has put out after its first
\* messages, and then what it finds from place i on.
Continues(x, s, i, before, little, limit) ==
    \A u \in Seq(Bytes) : Extends(u, s) =>
        before \o Reference(u, little, limit) = x.out \o FramesFrom(u, little, limit)[i]

Parsed(x, s, before, little, limit) ==
    /\ ParserTyped(x)
    /\ \E i \in 1 .. Len(s) + 1 :
          Pending(x, s, i, little, limit) /\ Continues(x, s, i, before, little, limit)

\* Then the reference finds in s itself what the parser has put out.
LEMMA ParsedIsReference ==
    ASSUME NEW s \in Seq(Bytes), NEW x, NEW before, NEW little \in BOOLEAN, NEW limit \in Nat,
           Parsed(x, s, before, little, limit)
    PROVE  before \o Reference(s, little, limit) = x.out
<1>0. PICK n \in Nat : n = Len(s)
  OBVIOUS
<1>1. PICK i \in 1 .. n + 1 : Pending(x, s, i, little, limit) /\ Continues(x, s, i, before, little, limit)
  BY <1>0 DEF Parsed
<1>2. ParserTyped(x)
  BY DEF Parsed
<1>3. before \o Reference(s, little, limit) = x.out \o FramesFrom(s, little, limit)[i]
  <2>1. Extends(s, s)
    BY <1>0 DEF Extends
  <2> QED BY <1>1, <2>1 DEF Continues
<1>4. FramesFrom(s, little, limit)[i] = << >>
  <2>1. CASE x.state # 3
    <3>1. i > n - 3
      <4>1. x.state = 0 \/ x.state = 1 \/ x.state = 2
        BY <1>2, <2>1 DEF ParserTyped
      <4>2. x.state = 0 \/ x.state = 1 => i = n + 1 \/ i = n
        BY <1>0, <1>1 DEF Pending
      <4>3. x.state = 2 => \E k \in {0, 1} : i + 1 + k = n
        BY <1>0, <1>1 DEF Pending
      <4> QED BY <4>1, <4>2, <4>3
    <3>2. Marks(s, i) = {}
      BY <1>0, <3>1 DEF Marks
    <3>3. FramesFrom(s, little, limit)[i] = FromStep(FramesFrom(s, little, limit), s, i, little, limit)
      BY <1>0, FromAt
    <3> QED BY <3>2, <3>3, Zenon DEF FromStep
  <2>2. CASE x.state = 3
    <3>1. PICK k \in Nat : k = Len(x.bytes)
      BY <1>2 DEF ParserTyped
    <3>2. PICK size \in Nat : size = x.payload_size
      BY <1>2 DEF ParserTyped
    <3>3. i + 3 + k = n /\ k < size
      BY <1>0, <1>1, <2>2, <3>1, <3>2 DEF Pending
    <3>4. size = SizeAt(s, i, little) /\ size <= limit /\ s[i] = AB /\ s[i + 1] = CD
      BY <1>1, <2>2, <3>2 DEF Pending, HeaderAt
    <3>5. i \in 1 .. n - 3 /\ i + 3 + size > n
      BY <3>3
    <3>6. i \in 1 .. Len(s) - 3 /\ i + 3 + size > Len(s)
      BY <1>0, <3>5
    <3>7. ~(size > limit)
      BY <3>4
    <3> QED BY <3>4, <3>6, <3>7, AtUnfinished
  <2> QED BY <2>1, <2>2
<1>5. x.out \in Seq(Seq(Bytes))
  BY <1>2 DEF ParserTyped
<1> QED BY <1>3, <1>4, <1>5

LEMMA Appended ==
    ASSUME NEW s \in Seq(Bytes), NEW b \in Bytes
    PROVE  /\ Append(s, b) \in Seq(Bytes) /\ Len(Append(s, b)) = Len(s) + 1 /\ Append(s, b)[Len(s) + 1] = b
           /\ \A j \in 1 .. Len(s) : Append(s, b)[j] = s[j]
OBVIOUS

\* What goes on from s and b goes on from s.
LEMMA ExtendsFacts ==
    ASSUME NEW s \in Seq(Bytes), NEW b \in Bytes, NEW u \in Seq(Bytes), Extends(u, Append(s, b))
    PROVE  /\ Extends(u, s) /\ Len(s) + 1 <= Len(u) /\ u[Len(s) + 1] = b
<1>0. PICK n \in Nat : n = Len(s)
  OBVIOUS
<1>1. PICK v \in Seq(Bytes) :
        n = Len(s) /\ v = Append(s, b) /\ Len(v) = n + 1 /\ v[n + 1] = b /\ \A j \in 1 .. n : v[j] = s[j]
  BY <1>0, Appended
<1>2. n + 1 <= Len(u) /\ \A j \in 1 .. n + 1 : u[j] = v[j]
  BY <1>1 DEF Extends
<1>3. n + 1 \in 1 .. n + 1 /\ n <= Len(u) /\ \A j \in 1 .. n : j \in 1 .. n + 1
  BY <1>1, <1>2
<1> QED BY <1>1, <1>2, <1>3 DEF Extends

\* A header and its length are the same in whatever goes on from s.
LEMMA HeaderSame ==
    ASSUME NEW s \in Seq(Bytes), NEW u \in Seq(Bytes), Extends(u, s), NEW little, NEW i \in 1 .. Len(s) - 3
    PROVE  /\ SizeAt(u, i, little) = SizeAt(s, i, little) /\ i \in 1 .. Len(u) - 3
           /\ HeaderAt(u, i) <=> HeaderAt(s, i)
<1>0. PICK n \in Nat, k \in Nat : n = Len(s) /\ k = Len(u)
  OBVIOUS
<1>1. n <= k /\ \A j \in 1 .. n : u[j] = s[j]
  BY <1>0 DEF Extends
<1>2. i \in 1 .. n - 3
  BY <1>0
<1>3. i \in 1 .. n /\ i + 1 \in 1 .. n /\ i + 2 \in 1 .. n /\ i + 3 \in 1 .. n /\ i \in 1 .. k - 3
  BY <1>1, <1>2
<1>4. u[i] = s[i] /\ u[i + 1] = s[i + 1] /\ u[i + 2] = s[i + 2] /\ u[i + 3] = s[i + 3]
  BY <1>1, <1>3
<1> QED BY <1>0, <1>3, <1>4 DEF SizeAt, HeaderAt

\* Nothing new is found between i and j.
LEMMA FindsNothing ==
    ASSUME NEW s \in Seq(Bytes), NEW b \in Bytes, NEW x, NEW y, NEW i, NEW j, NEW before, NEW little, NEW limit,
           Continues(x, s, i, before, little, limit), y.out = x.out,
           \A u \in Seq(Bytes) : Extends(u, Append(s, b)) =>
               FramesFrom(u, little, limit)[i] = FramesFrom(u, little, limit)[j]
    PROVE  Continues(y, Append(s, b), j, before, little, limit)
<1> SUFFICES ASSUME NEW u \in Seq(Bytes), Extends(u, Append(s, b))
             PROVE  before \o Reference(u, little, limit) = y.out \o FramesFrom(u, little, limit)[j]
  BY DEF Continues
<1>1. Extends(u, s)
  BY ExtendsFacts
<1>2. before \o Reference(u, little, limit) = x.out \o FramesFrom(u, little, limit)[i]
  BY <1>1, Zenon DEF Continues
<1>3. FramesFrom(u, little, limit)[i] = FramesFrom(u, little, limit)[j]
  OBVIOUS
<1> QED BY <1>2, <1>3, Zenon

Associates(a, b, c) == (a \o b) \o c = a \o (b \o c)

LEMMA Joined ==
    ASSUME NEW M, NEW a \in Seq(M), NEW b \in Seq(M), NEW c \in Seq(M)
    PROVE  Associates(a, b, c)
BY ConcatAssociative DEF Associates

LEMMA AppendThen ==
    ASSUME NEW M, NEW o \in Seq(M), NEW w \in Seq(M), NEW d \in M
    PROVE  o \o First(d, w) = Append(o, d) \o w
<1>1. <<d>> \in Seq(M) /\ Append(o, d) = o \o <<d>>
  OBVIOUS
<1>2. Associates(o, <<d>>, w)
  BY <1>1, Joined, Zenon
<1> QED BY <1>1, <1>2, Zenon DEF Associates, First

\* A message is found between i and j.
LEMMA FindsMessage ==
    ASSUME NEW s \in Seq(Bytes), NEW b \in Bytes, NEW x, NEW y, NEW i, NEW j, NEW before, NEW little, NEW limit,
           Continues(x, s, i, before, little, limit), x.out \in Seq(Seq(Bytes)),
           NEW d \in Seq(Bytes), y.out = Append(x.out, d),
           \A u \in Seq(Bytes) : Extends(u, Append(s, b)) =>
               /\ FramesFrom(u, little, limit)[i] = First(d, FramesFrom(u, little, limit)[j])
               /\ FramesFrom(u, little, limit)[j] \in Seq(Seq(Bytes))
    PROVE  Continues(y, Append(s, b), j, before, little, limit)
<1> SUFFICES ASSUME NEW u \in Seq(Bytes), Extends(u, Append(s, b))
             PROVE  before \o Reference(u, little, limit) = y.out \o FramesFrom(u, little, limit)[j]
  BY DEF Continues
<1>1. Extends(u, s)
  BY ExtendsFacts
<1>2. before \o Reference(u, little, limit) = x.out \o FramesFrom(u, little, limit)[i]
  BY <1>1, Zenon DEF Continues
<1>3. PICK M : M = Seq(Bytes)
  OBVIOUS
<1>4. PICK o \in Seq(M), w \in Seq(M) :
        o = x.out /\ w = FramesFrom(u, little, limit)[j] /\ FramesFrom(u, little, limit)[i] = First(d, w)
  BY <1>3
<1>5. d \in M
  BY <1>3
<1>6. o \o First(d, w) = Append(o, d) \o w
  BY <1>5, AppendThen, ZenonT(60)
<1>7. FramesFrom(u, little, limit)[i] = First(d, w) /\ y.out = Append(o, d)
  BY <1>4
<1> QED BY <1>2, <1>4, <1>6, <1>7, Zenon

\* How one byte b takes a parser from x to y: what receive_thread and feed_byte share.
Same(x, y) == y.bytes = x.bytes /\ y.payload_size = x.payload_size /\ y.out = x.out
Cleared(y) == y.state = 0 /\ y.bytes = << >> /\ y.payload_size = 0

Looks(x, y, b) ==
    /\ x.state \in {0, 1} /\ Same(x, y)
    /\ b = AB => y.state = 1
    /\ b = CD => y.state = IF x.state = 0 THEN 0 ELSE 2
    /\ b \notin {AB, CD} => y.state = 0

Sizes(x, y, b, little, limit) ==
    /\ x.state = 2 /\ Len(x.bytes) = 1
    /\ LET size == PacketLength(little, Append(x.bytes, b))
       IN  \/ size > limit /\ Cleared(y) /\ y.out = x.out
           \/ ~(size > limit) /\ size = 0 /\ Cleared(y) /\ y.out = Append(x.out, << >>)
           \/ /\ ~(size > limit) /\ size # 0 /\ y.state = 3 /\ y.bytes = << >> /\ y.payload_size = size
              /\ y.out = x.out

Fills(x, y, b) ==
    /\ x.state = 3
    /\ \/ Len(x.bytes) + 1 = x.payload_size /\ Cleared(y) /\ y.out = Append(x.out, Append(x.bytes, b))
       \/ /\ Len(x.bytes) + 1 # x.payload_size /\ y.state = 3 /\ y.bytes = Append(x.bytes, b)
          /\ y.payload_size = x.payload_size /\ y.out = x.out

FirstDigit(x, y, b) ==
    /\ x.state = 2 /\ Len(x.bytes) = 0 /\ y.state = 2 /\ y.bytes = Append(x.bytes, b)
    /\ y.payload_size = x.payload_size /\ y.out = x.out

Moves(x, y, b, little, limit) ==
    Looks(x, y, b) \/ FirstDigit(x, y, b) \/ Sizes(x, y, b, little, limit) \/ Fills(x, y, b)

LEMMA ParsedIf ==
    ASSUME NEW s \in Seq(Bytes), NEW y, NEW before, NEW little, NEW limit, ParserTyped(y),
           NEW j, Pending(y, s, j, little, limit), Continues(y, s, j, before, little, limit)
    PROVE  Parsed(y, s, before, little, limit)
<1>1. j \in 1 .. Len(s) + 1
  BY DEF Pending
<1> QED BY <1>1 DEF Parsed

LEMMA LooksParsed ==
    ASSUME NEW s \in Seq(Bytes), NEW b \in Bytes, NEW x, NEW y, NEW before, NEW little \in BOOLEAN, NEW limit \in Nat,
           Parsed(x, s, before, little, limit), Looks(x, y, b)
    PROVE  Parsed(y, Append(s, b), before, little, limit)
<1>0. PICK n \in Nat : n = Len(s)
  OBVIOUS
<1>1. PICK v \in Seq(Bytes) :
        /\ v = Append(s, b) /\ Len(v) = n + 1 /\ v[n + 1] = b /\ \A j \in 1 .. n : v[j] = s[j]
  BY <1>0, Appended
<1>2. PICK i \in 1 .. n + 1 : Pending(x, s, i, little, limit) /\ Continues(x, s, i, before, little, limit)
  BY <1>0 DEF Parsed
<1>3. /\ (x.state = 0 /\ i = n + 1) \/ (x.state = 1 /\ i = n /\ s[n] = AB /\ n \in 1 .. n)
      /\ x.bytes = << >> /\ x.payload_size = 0 /\ x.out \in Seq(Seq(Bytes))
  BY <1>0, <1>2 DEF Looks, Pending, Parsed, ParserTyped
<1>4. y.bytes = << >> /\ y.payload_size = 0 /\ y.out = x.out
  BY <1>3 DEF Looks, Same
<1>5. ASSUME NEW u \in Seq(Bytes), Extends(u, v)
      PROVE  /\ Extends(u, s) /\ n + 1 \in 1 .. Len(u) /\ u[n + 1] = b
             /\ x.state = 1 => n \in 1 .. Len(u) /\ u[n] = AB
  <2>1. Extends(u, s) /\ n + 1 <= Len(u) /\ u[n + 1] = b
    BY <1>0, <1>1, <1>5, ExtendsFacts
  <2>2. PICK k \in Nat : k = Len(u)
    OBVIOUS
  <2>3. n + 1 \in 1 .. k /\ (x.state = 1 => n \in 1 .. k)
    BY <1>3, <2>1, <2>2
  <2>4. \A j \in 1 .. n : u[j] = s[j]
    BY <1>0, <2>1 DEF Extends
  <2> QED BY <1>3, <2>1, <2>2, <2>3, <2>4
<1>6. AB # CD
  BY WireAssumption
<1>7. CASE b = AB
  <2>1. y.state = 1 /\ ParserTyped(y)
    BY <1>3, <1>4, <1>7 DEF Looks, ParserTyped
  <2>2. Pending(y, v, n + 1, little, limit)
    BY <1>1, <1>4, <1>7, <2>1 DEF Pending
  <2>3. ASSUME NEW u \in Seq(Bytes), Extends(u, v)
        PROVE  FramesFrom(u, little, limit)[i] = FramesFrom(u, little, limit)[n + 1]
    <3>1. CASE i = n + 1
      BY <3>1
    <3>2. CASE i # n + 1
      <4>1. i = n /\ n \in 1 .. Len(u) /\ u[n + 1] # CD
        BY <1>3, <1>5, <1>6, <1>7, <2>3, <3>2
      <4>2. FramesFrom(u, little, limit)[n] = FramesFrom(u, little, limit)[n + 1]
        BY <4>1, SkipByte
      <4> QED BY <4>1, <4>2
    <3> QED BY <3>1, <3>2
  <2>4. Continues(y, v, n + 1, before, little, limit)
    BY <1>1, <1>2, <1>4, <2>3, FindsNothing
  <2> QED BY <1>1, <2>1, <2>2, <2>4, ParsedIf
<1>8. CASE b = CD /\ x.state = 1
  <2>1. y.state = 2 /\ ParserTyped(y)
    BY <1>3, <1>4, <1>8 DEF Looks, ParserTyped
  <2>2. Pending(y, v, i, little, limit)
    <3>1. i = n /\ s[n] = AB /\ n \in 1 .. n
      BY <1>3, <1>8
    <3>2. HeaderAt(v, i) /\ Len(y.bytes) = 0 /\ i + 1 + 0 = n + 1 /\ i \in 1 .. n + 1 + 1
      BY <1>1, <1>4, <1>8, <3>1 DEF HeaderAt
    <3> QED BY <1>1, <1>4, <2>1, <3>2 DEF Pending
  <2>3. Continues(y, v, i, before, little, limit)
    BY <1>1, <1>2, <1>4, FindsNothing
  <2> QED BY <1>1, <2>1, <2>2, <2>3, ParsedIf
<1>9. CASE b # AB /\ ~(b = CD /\ x.state = 1)
  <2>1. y.state = 0 /\ ParserTyped(y)
    BY <1>3, <1>4, <1>9 DEF Looks, ParserTyped
  <2>2. Pending(y, v, n + 2, little, limit)
    BY <1>1, <1>4, <2>1 DEF Pending
  <2>3. ASSUME NEW u \in Seq(Bytes), Extends(u, v)
        PROVE  FramesFrom(u, little, limit)[i] = FramesFrom(u, little, limit)[n + 2]
    <3>1. n + 1 \in 1 .. Len(u) /\ u[n + 1] # AB
      BY <1>5, <1>9, <2>3
    <3>2. FramesFrom(u, little, limit)[n + 1] = FramesFrom(u, little, limit)[n + 1 + 1]
      BY <3>1, SkipByte
    <3>3. CASE i = n + 1
      BY <3>2, <3>3
    <3>4. CASE i # n + 1
      <4>1. i = n /\ x.state = 1 /\ n \in 1 .. Len(u) /\ u[n + 1] # CD
        BY <1>3, <1>5, <1>9, <2>3, <3>4
      <4>2. FramesFrom(u, little, limit)[n] = FramesFrom(u, little, limit)[n + 1]
        BY <4>1, SkipByte
      <4> QED BY <3>2, <4>1, <4>2
    <3> QED BY <3>3, <3>4
  <2>4. Continues(y, v, n + 2, before, little, limit)
    BY <1>1, <1>2, <1>4, <2>3, FindsNothing
  <2> QED BY <1>1, <2>1, <2>2, <2>4, ParsedIf
<1> QED BY <1>3, <1>7, <1>8, <1>9

\* The first digit of a length.
LEMMA FirstDigitParsed ==
    ASSUME NEW s \in Seq(Bytes), NEW b \in Bytes, NEW x, NEW y, NEW before, NEW little \in BOOLEAN, NEW limit \in Nat,
           Parsed(x, s, before, little, limit), FirstDigit(x, y, b)
    PROVE  Parsed(y, Append(s, b), before, little, limit)
<1>0. PICK n \in Nat : n = Len(s)
  OBVIOUS
<1>1. PICK v \in Seq(Bytes) :
        /\ v = Append(s, b) /\ Len(v) = n + 1 /\ v[n + 1] = b /\ \A j \in 1 .. n : v[j] = s[j]
  BY <1>0, Appended
<1>2. PICK i \in 1 .. n + 1 : Pending(x, s, i, little, limit) /\ Continues(x, s, i, before, little, limit)
  BY <1>0 DEF Parsed
<1>3. PICK bytes \in Seq(Bytes) : bytes = x.bytes /\ Len(bytes) = 0
  BY DEF FirstDigit, Parsed, ParserTyped
<1>4. i + 1 = n /\ HeaderAt(s, i) /\ x.payload_size = 0
  <2>1. i + 1 + Len(x.bytes) = n /\ HeaderAt(s, i) /\ x.payload_size = 0
    BY <1>0, <1>2 DEF FirstDigit, Pending
  <2>2. i + 1 + 0 = n
    BY <1>3, <2>1
  <2> QED BY <2>1, <2>2
<1>5. PICK c \in Seq(Bytes) : c = Append(bytes, b) /\ Len(c) = 1 /\ c[1] = b
  <2>1. Append(bytes, b) \in Seq(Bytes) /\ Len(Append(bytes, b)) = 0 + 1 /\ Append(bytes, b)[0 + 1] = b
    BY <1>3, Appended
  <2>2. 0 + 1 = 1
    OBVIOUS
  <2> QED BY <2>1, <2>2, Zenon
<1>6. y.state = 2 /\ y.bytes = c /\ y.payload_size = 0 /\ y.out = x.out
  BY <1>3, <1>4, <1>5 DEF FirstDigit
<1>7. ParserTyped(y)
  <2>1. x.out \in Seq(Seq(Bytes))
    BY DEF Parsed, ParserTyped
  <2> QED BY <1>6, <2>1 DEF ParserTyped
<1>8. Pending(y, v, i, little, limit)
  <2>1. i \in 1 .. n /\ i + 1 \in 1 .. n /\ i \in 1 .. n + 1 + 1 /\ i + 2 = n + 1 /\ i + 1 + 1 = n + 1
    BY <1>4
  <2>2. HeaderAt(v, i) /\ c[1] = v[i + 2]
    BY <1>1, <1>4, <1>5, <2>1 DEF HeaderAt
  <2> QED BY <1>1, <1>5, <1>6, <2>1, <2>2 DEF Pending
<1>9. Continues(y, v, i, before, little, limit)
  BY <1>1, <1>2, <1>6, FindsNothing
<1> QED BY <1>1, <1>7, <1>8, <1>9, ParsedIf

\* The second digit: the length is known.
LEMMA SizesParsed ==
    ASSUME NEW s \in Seq(Bytes), NEW b \in Bytes, NEW x, NEW y, NEW before, NEW little \in BOOLEAN, NEW limit \in Nat,
           Parsed(x, s, before, little, limit), Sizes(x, y, b, little, limit)
    PROVE  Parsed(y, Append(s, b), before, little, limit)
<1>0. PICK n \in Nat : n = Len(s)
  OBVIOUS
<1>1. PICK v \in Seq(Bytes) :
        /\ v = Append(s, b) /\ Len(v) = n + 1 /\ v[n + 1] = b /\ \A j \in 1 .. n : v[j] = s[j]
  BY <1>0, Appended
<1>2. PICK i \in 1 .. n + 1 : Pending(x, s, i, little, limit) /\ Continues(x, s, i, before, little, limit)
  BY <1>0 DEF Parsed
<1>3. PICK bytes \in Seq(Bytes) : bytes = x.bytes /\ Len(bytes) = 1
  BY DEF Sizes, Parsed, ParserTyped
<1>4. i + 2 = n /\ HeaderAt(s, i) /\ bytes[1] = s[i + 2]
  <2>1. /\ i + 1 + Len(x.bytes) = n /\ HeaderAt(s, i) /\ (Len(x.bytes) = 1 => x.bytes[1] = s[i + 2])
    BY <1>0, <1>2 DEF Sizes, Pending
  <2>2. i + 1 + 1 = n
    BY <1>3, <2>1
  <2> QED BY <1>3, <2>1, <2>2
<1>5. /\ i \in 1 .. n /\ i + 1 \in 1 .. n /\ i + 2 \in 1 .. n /\ i + 3 = n + 1 /\ i \in 1 .. n + 1 - 3
      /\ i + 4 = n + 2 /\ i \in 1 .. n + 1 + 1
  BY <1>4, SMTT(30)
<1>6. HeaderAt(v, i) /\ v[i + 2] = bytes[1] /\ v[i + 3] = b
  BY <1>1, <1>4, <1>5 DEF HeaderAt
<1>7. PICK size : size = SizeAt(v, i, little)
  OBVIOUS
<1>8. i \in 1 .. Len(v) - 3 /\ size \in Nat
  <2>1. i \in 1 .. Len(v) - 3
    BY <1>1, <1>5
  <2> QED BY <1>7, <2>1, SizeFacts
<1>9. size = PacketLength(little, Append(x.bytes, b))
  <2>1. PICK c \in Seq(Bytes) : c = Append(bytes, b) /\ c[1] = bytes[1] /\ c[2] = b
    <3>1. /\ Append(bytes, b) \in Seq(Bytes) /\ Append(bytes, b)[Len(bytes) + 1] = b
          /\ \A j \in 1 .. Len(bytes) : Append(bytes, b)[j] = bytes[j]
      BY Appended
    <3>2. 1 \in 1 .. Len(bytes) /\ Len(bytes) + 1 = 2
      BY <1>3
    <3>3. Append(bytes, b)[1] = bytes[1] /\ Append(bytes, b)[2] = b
      BY <3>1, <3>2, Zenon
    <3> QED BY <3>1, <3>3, Zenon
  <2> QED BY <1>3, <1>6, <1>7, <2>1 DEF SizeAt, PacketLength, BigEndian
<1>10. x.out \in Seq(Seq(Bytes))
  BY DEF Parsed, ParserTyped
<1>11. ASSUME NEW u \in Seq(Bytes), Extends(u, v)
       PROVE  i \in 1 .. Len(u) - 3 /\ u[i] = AB /\ u[i + 1] = CD /\ size = SizeAt(u, i, little)
  BY <1>6, <1>7, <1>8, <1>11, HeaderSame DEF HeaderAt
<1>12. CASE size > limit /\ Cleared(y) /\ y.out = x.out
  <2>1. ParserTyped(y) /\ Pending(y, v, n + 2, little, limit)
    BY <1>1, <1>10, <1>12 DEF ParserTyped, Pending, Cleared
  <2>2. ASSUME NEW u \in Seq(Bytes), Extends(u, v)
        PROVE  FramesFrom(u, little, limit)[i] = FramesFrom(u, little, limit)[n + 2]
    <3>1. FramesFrom(u, little, limit)[i] = FramesFrom(u, little, limit)[i + 4]
      BY <1>8, <1>11, <1>12, <2>2, AtImpossible
    <3> QED BY <1>5, <3>1
  <2>3. Continues(y, v, n + 2, before, little, limit)
    BY <1>1, <1>2, <1>12, <2>2, FindsNothing
  <2> QED BY <1>1, <2>1, <2>3, ParsedIf
<1>13. CASE ~(size > limit) /\ size = 0 /\ Cleared(y) /\ y.out = Append(x.out, << >>)
  <2>0. Append(x.out, << >>) \in Seq(Seq(Bytes))
    BY <1>10
  <2>1. ParserTyped(y) /\ Pending(y, v, n + 2, little, limit)
    BY <1>1, <1>13, <2>0 DEF ParserTyped, Pending, Cleared
  <2>e. << >> \in Seq(Bytes)
    OBVIOUS
  <2>d. PICK d \in Seq(Bytes) : d = << >>
    BY <2>e, Zenon
  <2>2. ASSUME NEW u \in Seq(Bytes), Extends(u, v)
        PROVE  /\ FramesFrom(u, little, limit)[i] = First(d, FramesFrom(u, little, limit)[n + 2])
               /\ FramesFrom(u, little, limit)[n + 2] \in Seq(Seq(Bytes))
    <3>1. PICK k \in Nat : k = Len(u) /\ i \in 1 .. k - 3
      BY <1>11, <2>2
    <3>2. ~(i + 3 + size > k) /\ i + 3 + size = i + 3 /\ i + 4 + size = n + 2 /\ n + 2 \in 1 .. k + 1
      BY <1>5, <1>13, <3>1
    <3>3. SubSeq(u, i + 4, i + 3) = << >>
      BY <3>1
    <3>4. FramesFrom(u, little, limit)[i] =
            First(SubSeq(u, i + 4, i + 3 + size), FramesFrom(u, little, limit)[i + 4 + size])
      <4>1. ~(i + 3 + size > Len(u)) /\ ~(size > limit)
        BY <1>13, <3>1, <3>2
      <4>2. i \in 1 .. Len(u) - 3 /\ u[i] = AB /\ u[i + 1] = CD /\ size = SizeAt(u, i, little)
        BY <1>11, <2>2
      <4> QED BY <1>8, <4>1, <4>2, AtFrame, SMTT(30)
    <3>5. FramesFrom(u, little, limit)[n + 2] \in Seq(Seq(Bytes))
      BY <3>1, <3>2, FromTyped
    <3>6. SubSeq(u, i + 4, i + 3 + size) = d
      BY <2>d, <3>2, <3>3
    <3> QED BY <3>2, <3>4, <3>5, <3>6
  <2>3. Continues(y, v, n + 2, before, little, limit)
    <3>1. y.out = Append(x.out, d)
      BY <1>13, <2>d, Zenon
    <3>2. Continues(x, s, i, before, little, limit)
      BY <1>2
    <3>3. \A u \in Seq(Bytes) : Extends(u, Append(s, b)) =>
              /\ FramesFrom(u, little, limit)[i] = First(d, FramesFrom(u, little, limit)[n + 2])
              /\ FramesFrom(u, little, limit)[n + 2] \in Seq(Seq(Bytes))
      BY <1>1, <2>2, Zenon
    <3> HIDE <1>13, <2>d
    <3>4. Continues(y, Append(s, b), n + 2, before, little, limit)
      BY <1>10, <3>1, <3>2, <3>3, FindsMessage, Zenon
    <3> QED BY <1>1, <3>4, Zenon
  <2> QED BY <1>1, <2>1, <2>3, ParsedIf
<1>14. CASE /\ ~(size > limit) /\ size # 0 /\ y.state = 3 /\ y.bytes = << >> /\ y.payload_size = size
            /\ y.out = x.out
  <2>1. ParserTyped(y)
    BY <1>8, <1>10, <1>14 DEF ParserTyped
  <2>2. Pending(y, v, i, little, limit)
    <3>1. Len(y.bytes) = 0 /\ size <= limit /\ 0 < size /\ i + 3 + 0 = n + 1
      BY <1>5, <1>8, <1>14
    <3> QED BY <1>1, <1>5, <1>6, <1>7, <1>14, <3>1 DEF Pending
  <2>3. Continues(y, v, i, before, little, limit)
    BY <1>1, <1>2, <1>14, FindsNothing
  <2> QED BY <1>1, <2>1, <2>2, <2>3, ParsedIf
<1> QED BY <1>9, <1>12, <1>13, <1>14 DEF Sizes

\* A byte of the data: the last one completes the message.
LEMMA FillsParsed ==
    ASSUME NEW s \in Seq(Bytes), NEW b \in Bytes, NEW x, NEW y, NEW before, NEW little \in BOOLEAN, NEW limit \in Nat,
           Parsed(x, s, before, little, limit), Fills(x, y, b)
    PROVE  Parsed(y, Append(s, b), before, little, limit)
<1>0. PICK n \in Nat : n = Len(s)
  OBVIOUS
<1>1. PICK v \in Seq(Bytes) :
        /\ v = Append(s, b) /\ Len(v) = n + 1 /\ v[n + 1] = b /\ \A j \in 1 .. n : v[j] = s[j]
  BY <1>0, Appended
<1>2. PICK i \in 1 .. n + 1 : Pending(x, s, i, little, limit) /\ Continues(x, s, i, before, little, limit)
  BY <1>0 DEF Parsed
<1>3. PICK h \in Seq(Bytes), size \in Nat : h = x.bytes /\ size = x.payload_size
  BY DEF Parsed, ParserTyped
<1>4. PICK a \in Nat : a = Len(h)
  OBVIOUS
<1>5. /\ i + 3 + a = n /\ HeaderAt(s, i) /\ size = SizeAt(s, i, little) /\ size <= limit /\ a < size
      /\ \A k \in 1 .. a : h[k] = s[i + 3 + k]
  BY <1>0, <1>2, <1>3, <1>4 DEF Fills, Pending
<1>6. PICK d \in Seq(Bytes) :
        d = Append(h, b) /\ Len(d) = a + 1 /\ d[a + 1] = b /\ \A k \in 1 .. a : d[k] = h[k]
  <2>1. /\ Append(h, b) \in Seq(Bytes) /\ Len(Append(h, b)) = a + 1 /\ Append(h, b)[a + 1] = b
        /\ \A k \in 1 .. a : Append(h, b)[k] = h[k]
    BY <1>4, Appended
  <2> QED BY <2>1, Zenon
<1>7. /\ i \in 1 .. n - 3 /\ i \in 1 .. n + 1 - 3 /\ i + 3 + (a + 1) = n + 1 /\ i \in 1 .. n + 1 + 1
      /\ \A k \in 1 .. a : i + 3 + k \in 1 .. n
      /\ \A k \in 1 .. a + 1 : k = a + 1 \/ k \in 1 .. a
  BY <1>5
<1>8. \A k \in 1 .. a + 1 : d[k] = v[i + 3 + k]
  BY <1>1, <1>5, <1>6, <1>7
<1>9. Extends(v, s)
  <2>1. n <= n + 1
    OBVIOUS
  <2> QED BY <1>0, <1>1, <2>1 DEF Extends
<1>10. SizeAt(v, i, little) = size /\ HeaderAt(v, i)
  BY <1>0, <1>5, <1>7, <1>9, HeaderSame, SMTT(30)
<1>11. x.out \in Seq(Seq(Bytes))
  BY DEF Parsed, ParserTyped
<1>12. CASE a + 1 # size
  <2>1. y.state = 3 /\ y.bytes = d /\ y.payload_size = size /\ y.out = x.out
    BY <1>3, <1>4, <1>6, <1>12 DEF Fills
  <2>2. ParserTyped(y)
    BY <1>11, <2>1 DEF ParserTyped
  <2>3. Pending(y, v, i, little, limit)
    <3>1. a + 1 < size
      BY <1>5, <1>12
    <3>2. /\ i + 3 + Len(y.bytes) = Len(v) /\ HeaderAt(v, i)
          /\ y.payload_size = SizeAt(v, i, little) /\ y.payload_size <= limit
      BY <1>1, <1>5, <1>6, <1>7, <1>10, <2>1
    <3>3. Len(y.bytes) < y.payload_size /\ \A k \in 1 .. Len(y.bytes) : y.bytes[k] = v[i + 3 + k]
      BY <1>6, <1>8, <2>1, <3>1
    <3>4. i \in 1 .. Len(v) + 1
      BY <1>1, <1>7
    <3>5. y.state # 0 /\ y.state # 1 /\ y.state # 2
      BY <2>1
    <3> QED BY <3>2, <3>3, <3>4, <3>5, Zenon DEF Pending
  <2>4. Continues(y, v, i, before, little, limit)
    BY <1>1, <1>2, <2>1, FindsNothing
  <2> QED BY <1>1, <2>2, <2>3, <2>4, ParsedIf
<1>13. CASE a + 1 = size
  <2>1. Cleared(y) /\ y.out = Append(x.out, d)
    BY <1>3, <1>4, <1>6, <1>13 DEF Fills
  <2>2. Append(x.out, d) \in Seq(Seq(Bytes))
    BY <1>11
  <2>3. ParserTyped(y) /\ Pending(y, v, n + 2, little, limit)
    BY <1>1, <2>1, <2>2 DEF ParserTyped, Pending, Cleared
  <2>4. ASSUME NEW u \in Seq(Bytes), Extends(u, v)
        PROVE  /\ FramesFrom(u, little, limit)[i] = First(d, FramesFrom(u, little, limit)[n + 2])
               /\ FramesFrom(u, little, limit)[n + 2] \in Seq(Seq(Bytes))
    <3>0. n + 1 <= Len(u) /\ \A j \in 1 .. n + 1 : u[j] = v[j]
      BY <1>1, <2>4 DEF Extends
    <3>1. PICK k \in Nat : k = Len(u) /\ n + 1 <= k /\ \A j \in 1 .. n + 1 : u[j] = v[j]
      BY <3>0
    <3>2. i \in 1 .. Len(u) - 3 /\ u[i] = AB /\ u[i + 1] = CD /\ size = SizeAt(u, i, little)
      <4>1. i \in 1 .. Len(v) - 3
        BY <1>1, <1>7
      <4> QED BY <1>10, <2>4, <4>1, HeaderSame DEF HeaderAt
    <3>3. i + 3 + size = n + 1 /\ i + 4 + size = n + 2 /\ n + 2 \in 1 .. k + 1 /\ ~(size > limit) /\ ~(n + 1 > k)
      <4>1. n + 1 <= k
        BY <3>1
      <4>2. i + 3 + a = n /\ a + 1 = size /\ size <= limit
        BY <1>5, <1>13
      <4> QED BY <4>1, <4>2
    <3>4. FramesFrom(u, little, limit)[i] =
            First(SubSeq(u, i + 4, i + 3 + size), FramesFrom(u, little, limit)[i + 4 + size])
      <4>1. ~(i + 3 + size > Len(u)) /\ ~(size > limit)
        BY <3>1, <3>3
      <4> QED BY <3>2, <4>1, AtFrame, SMTT(30)
    <3>5. FramesFrom(u, little, limit)[n + 2] \in Seq(Seq(Bytes))
      BY <3>1, <3>3, FromTyped
    <3>6. SubSeq(u, i + 4, i + 3 + size) = d
      <4>1. PICK f \in Nat \ {0}, l \in Nat : f = i + 4 /\ l = n + 1 /\ l <= k /\ f <= l + 1 /\ l + 1 - f = a + 1
        BY <1>5, <3>1
      <4>2. l <= Len(u)
        BY <3>1, <4>1
      <4>3. PICK e \in Seq(Bytes) : e = SubSeq(u, f, l) /\ Len(e) = a + 1 /\ \A j \in 1 .. a + 1 : e[j] = u[f + j - 1]
        <5>1. /\ SubSeq(u, f, l) \in Seq(Bytes) /\ Len(SubSeq(u, f, l)) = a + 1
              /\ \A j \in 1 .. a + 1 : SubSeq(u, f, l)[j] = u[f + j - 1]
          BY <4>1, <4>2, SubSeqAt
        <5> QED BY <5>1, Zenon
      <4>4. ASSUME NEW j \in 1 .. a + 1 PROVE e[j] = d[j]
        <5>1. f + j - 1 = i + 3 + j /\ i + 3 + j \in 1 .. n + 1
          BY <1>5, <4>1
        <5> QED BY <1>8, <3>1, <4>3, <5>1
      <4>5. e = d
        BY <1>6, <4>3, <4>4, SeqEqual
      <4> QED BY <3>3, <4>1, <4>3, <4>5
    <3> QED BY <3>3, <3>4, <3>5, <3>6
  <2>5. Continues(y, v, n + 2, before, little, limit)
    <3>1. y.out = Append(x.out, d) /\ Continues(x, s, i, before, little, limit)
      BY <1>2, <2>1
    <3>2. \A u \in Seq(Bytes) : Extends(u, Append(s, b)) =>
              /\ FramesFrom(u, little, limit)[i] = First(d, FramesFrom(u, little, limit)[n + 2])
              /\ FramesFrom(u, little, limit)[n + 2] \in Seq(Seq(Bytes))
      BY <1>1, <2>4, Zenon
    <3>3. Continues(y, Append(s, b), n + 2, before, little, limit)
      BY <1>11, <3>1, <3>2, FindsMessage, Zenon
    <3> QED BY <1>1, <3>3, Zenon
  <2> QED BY <1>1, <2>3, <2>5, ParsedIf
<1> QED BY <1>12, <1>13

LEMMA MovesParsed ==
    ASSUME NEW s \in Seq(Bytes), NEW b \in Bytes, NEW x, NEW y, NEW before, NEW little \in BOOLEAN, NEW limit \in Nat,
           Parsed(x, s, before, little, limit), Moves(x, y, b, little, limit)
    PROVE  Parsed(y, Append(s, b), before, little, limit)
BY LooksParsed, FirstDigitParsed, SizesParsed, FillsParsed DEF Moves

Parsers == [state : 0 .. 3, bytes : Seq(Bytes), payload_size : Nat, out : Seq(Seq(Bytes))]
Reassemblers ==
    [state : 0 .. 3, bytes : Seq(Bytes), payload_size : Nat, out : Seq(Seq(Bytes)), resyncs : Nat]

LEMMA StartByteIs ==
    ASSUME NEW x, x.state \in {0, 1}, NEW b \in Bytes
    PROVE  /\ b = AB => StartByte(x, b) = 1
           /\ b = CD => StartByte(x, b) = IF x.state = 0 THEN 0 ELSE 2
           /\ b \notin {AB, CD} => StartByte(x, b) = 0
           /\ StartByte(x, b) \in 0 .. 3
<1>1. AB # CD
  BY WireAssumption
<1>2. CASE x.state = 0
  <2>1. StartByte(x, b) = IF b = AB THEN 1 ELSE 0
    BY <1>2 DEF StartByte
  <2> QED BY <1>1, <1>2, <2>1
<1>3. CASE x.state = 1
  <2>1. StartByte(x, b) = IF b = CD THEN 2 ELSE IF b = AB THEN 1 ELSE 0
    BY <1>1, <1>3 DEF StartByte
  <2> QED BY <1>1, <1>3, <2>1
<1> QED BY <1>2, <1>3

LEMMA SetFour ==
    ASSUME NEW B, NEW O, NEW x \in [state : 0 .. 3, bytes : B, payload_size : Nat, out : O],
           NEW q \in 0 .. 3, NEW e \in B, NEW z \in Nat, NEW o \in O,
           NEW y, y = [x EXCEPT !.state = q, !.bytes = e, !.payload_size = z, !.out = o]
    PROVE  /\ y \in [state : 0 .. 3, bytes : B, payload_size : Nat, out : O]
           /\ y.state = q /\ y.bytes = e /\ y.payload_size = z /\ y.out = o
OBVIOUS

LEMMA SetThree ==
    ASSUME NEW B, NEW O, NEW x \in [state : 0 .. 3, bytes : B, payload_size : Nat, out : O],
           NEW q \in 0 .. 3, NEW e \in B, NEW z \in Nat,
           NEW y, y = [x EXCEPT !.state = q, !.bytes = e, !.payload_size = z]
    PROVE  /\ y \in [state : 0 .. 3, bytes : B, payload_size : Nat, out : O]
           /\ y.state = q /\ y.bytes = e /\ y.payload_size = z /\ y.out = x.out
OBVIOUS

LEMMA Emitted ==
    ASSUME NEW x \in Parsers, NEW d \in Seq(Bytes)
    PROVE  Emit(x, d) \in Parsers /\ Cleared(Emit(x, d)) /\ Emit(x, d).out = Append(x.out, d)
<1>1. << >> \in Seq(Bytes) /\ x.out \in Seq(Seq(Bytes))
  BY DEF Parsers
<1>2. PICK M : M = Seq(Bytes)
  OBVIOUS
<1>3. x.out \in Seq(M) /\ << >> \in M /\ d \in M
  BY <1>1, <1>2, Zenon
<1>4. PICK e \in M, g \in Seq(M) : e = << >> /\ g = Append(x.out, d)
  <2>1. Append(x.out, d) \in Seq(M)
    BY <1>3
  <2> QED BY <1>3, <2>1, Zenon
<1>5. Emit(x, d) = [x EXCEPT !.state = 0, !.bytes = e, !.payload_size = 0, !.out = g]
  BY <1>4, Zenon DEF Emit
<1>6. x \in [state : 0 .. 3, bytes : M, payload_size : Nat, out : Seq(M)]
  BY <1>2, Zenon DEF Parsers
<1> HIDE <1>2, <1>4
<1>7. PICK y : y = [x EXCEPT !.state = 0, !.bytes = e, !.payload_size = 0, !.out = g]
  OBVIOUS
<1>8. /\ y \in [state : 0 .. 3, bytes : M, payload_size : Nat, out : Seq(M)]
      /\ y.state = 0 /\ y.bytes = e /\ y.payload_size = 0 /\ y.out = g
  <2>1. 0 \in 0 .. 3 /\ 0 \in Nat
    OBVIOUS
  <2> QED BY <1>6, <1>7, <2>1, SetFour, Zenon
<1> USE <1>2, <1>4
<1>9. y \in Parsers
  BY <1>8, Zenon DEF Parsers
<1> QED BY <1>5, <1>7, <1>8, <1>9, Zenon DEF Cleared

\* receive_thread: every length is below Base * Base, so none is too long.
LEMMA PacketByteMoves ==
    ASSUME NEW x \in Parsers, NEW b \in Bytes, link.hostLittle \in BOOLEAN, x.state = 2 => Len(x.bytes) \in {0, 1}
    PROVE  /\ PacketByte(x, b) \in Parsers
           /\ Moves(x, PacketByte(x, b), b, link.hostLittle, Base * Base)
<1>y. PICK y : y = PacketByte(x, b)
  OBVIOUS
<1>0. PICK c \in Seq(Bytes) : c = Append(x.bytes, b) /\ y = PacketByte(x, b)
  BY <1>y, Appended DEF Parsers
<1>a. PICK n \in Nat : n = Len(x.bytes) /\ Len(c) = n + 1
  BY <1>0, Appended DEF Parsers
<1>b. PICK little \in BOOLEAN : little = link.hostLittle
  OBVIOUS
<1>1. CASE x.state \in {0, 1}
  <2>1. y = [x EXCEPT !.state = StartByte(x, b)]
    BY <1>0, <1>1 DEF PacketByte
  <2>2. StartByte(x, b) \in 0 .. 3
    BY <1>1, StartByteIs
  <2>3. y \in Parsers /\ Same(x, y) /\ y.state = StartByte(x, b)
    BY <2>1, <2>2 DEF Parsers, Same
  <2>4. Looks(x, y, b)
    BY <1>1, <2>3, StartByteIs DEF Looks
  <2> QED BY <1>0, <2>3, <2>4 DEF Moves
<1>2. CASE x.state = 2 /\ n = 0
  <2>1. y = [x EXCEPT !.bytes = c]
    BY <1>0, <1>a, <1>2 DEF PacketByte
  <2>2. y \in Parsers /\ FirstDigit(x, y, b)
    BY <1>0, <1>a, <1>2, <2>1 DEF Parsers, FirstDigit
  <2> QED BY <1>0, <2>2 DEF Moves
<1>3. CASE x.state = 2 /\ n = 1
  <2>1. PICK size : size = PacketLength(little, c)
    OBVIOUS
  <2>2. size \in Nat /\ size < Base * Base
    <3>1. c[1] \in Bytes /\ c[2] \in Bytes
      <4>1. 1 \in 1 .. Len(c) /\ 2 \in 1 .. Len(c)
        BY <1>a, <1>3
      <4> QED BY <4>1
    <3>2. PICK e \in Bytes, f \in Bytes : e = c[1] /\ f = c[2]
      BY <3>1
    <3>3. /\ e + Base * f \in Nat /\ e + Base * f < Base * Base
          /\ f + Base * e \in Nat /\ f + Base * e < Base * Base
      BY TwoDigits
    <3>4. e \in Nat /\ f \in Nat /\ Base * e \in Nat /\ Base * e + f = f + Base * e
      BY WireAssumption DEF Bytes
    <3> QED BY <2>1, <3>2, <3>3, <3>4 DEF PacketLength, BigEndian
  <2>3. ~(size > Base * Base)
    <3>1. Base * Base \in Nat
      BY WireAssumption
    <3> QED BY <2>2, <3>1
  <2>4. y = IF size = 0 THEN Emit(x, << >>)
            ELSE [x EXCEPT !.state = 3, !.bytes = << >>, !.payload_size = size]
    BY <1>0, <1>a, <1>b, <1>3, <2>1 DEF PacketByte
  <2>5. CASE size = 0
    <3>1. y \in Parsers /\ Cleared(y) /\ y.out = Append(x.out, << >>)
      <4>1. y = Emit(x, << >>) /\ << >> \in Seq(Bytes)
        BY <2>4, <2>5
      <4> QED BY <4>1, Emitted
    <3>2. Sizes(x, y, b, little, Base * Base)
      BY <1>0, <1>a, <1>3, <2>1, <2>3, <2>5, <3>1 DEF Sizes
    <3> QED BY <1>0, <1>b, <3>1, <3>2 DEF Moves
  <2>6. CASE size # 0
    <3>1. y \in Parsers /\ y.state = 3 /\ y.bytes = << >> /\ y.payload_size = size /\ y.out = x.out
      <4>1. << >> \in Seq(Bytes)
        OBVIOUS
      <4>2. PICK e \in Seq(Bytes) : e = << >>
        BY <4>1, Zenon
      <4>3. y = [x EXCEPT !.state = 3, !.bytes = e, !.payload_size = size]
        BY <2>4, <2>6, <4>2, Zenon
      <4> HIDE <4>2
      <4>4. y \in Parsers /\ y.state = 3 /\ y.bytes = e /\ y.payload_size = size /\ y.out = x.out
        <5>1. 3 \in 0 .. 3
          OBVIOUS
        <5> QED BY <2>2, <4>3, <5>1, SetThree, Zenon DEF Parsers
      <4> QED BY <4>2, <4>4, Zenon
    <3>2. Sizes(x, y, b, little, Base * Base)
      BY <1>0, <1>a, <1>3, <2>1, <2>3, <2>6, <3>1 DEF Sizes
    <3> QED BY <1>0, <1>b, <3>1, <3>2 DEF Moves
  <2> QED BY <2>5, <2>6
<1>4. CASE x.state = 3
  <2>1. y = IF n + 1 = x.payload_size THEN Emit(x, c) ELSE [x EXCEPT !.bytes = c]
    BY <1>0, <1>a, <1>4 DEF PacketByte
  <2>2. CASE n + 1 = x.payload_size
    <3>1. y \in Parsers /\ Cleared(y) /\ y.out = Append(x.out, c)
      BY <2>1, <2>2, Emitted
    <3>2. Fills(x, y, b)
      BY <1>0, <1>a, <1>4, <2>2, <3>1 DEF Fills
    <3> QED BY <1>0, <3>1, <3>2 DEF Moves
  <2>3. CASE n + 1 # x.payload_size
    <3>1. y \in Parsers /\ y.state = 3 /\ y.bytes = c /\ y.payload_size = x.payload_size /\ y.out = x.out
      BY <1>4, <2>1, <2>3 DEF Parsers
    <3>2. Fills(x, y, b)
      BY <1>0, <1>a, <1>4, <2>3, <3>1 DEF Fills
    <3> QED BY <1>0, <3>1, <3>2 DEF Moves
  <2> QED BY <2>2, <2>3
<1>5. x.state \in {0, 1} \/ x.state = 2 \/ x.state = 3
  BY DEF Parsers
<1>6. x.state = 2 => n = 0 \/ n = 1
  BY <1>a
<1> QED BY <1>1, <1>2, <1>3, <1>4, <1>5, <1>6

\* The same for the records of the reassembler.
LEMMA SetOut ==
    ASSUME NEW B, NEW O, NEW x \in [state : 0 .. 3, bytes : B, payload_size : Nat, out : O, resyncs : Nat],
           NEW q \in 0 .. 3, NEW e \in B, NEW z \in Nat, NEW o \in O,
           NEW y, y = [x EXCEPT !.state = q, !.bytes = e, !.payload_size = z, !.out = o]
    PROVE  /\ y \in [state : 0 .. 3, bytes : B, payload_size : Nat, out : O, resyncs : Nat]
           /\ y.state = q /\ y.bytes = e /\ y.payload_size = z /\ y.out = o
OBVIOUS

LEMMA SetResyncs ==
    ASSUME NEW B, NEW O, NEW x \in [state : 0 .. 3, bytes : B, payload_size : Nat, out : O, resyncs : Nat],
           NEW q \in 0 .. 3, NEW e \in B, NEW z \in Nat, NEW k \in Nat,
           NEW y, y = [x EXCEPT !.state = q, !.bytes = e, !.payload_size = z, !.resyncs = k]
    PROVE  /\ y \in [state : 0 .. 3, bytes : B, payload_size : Nat, out : O, resyncs : Nat]
           /\ y.state = q /\ y.bytes = e /\ y.payload_size = z /\ y.out = x.out
OBVIOUS

LEMMA SetSize ==
    ASSUME NEW B, NEW O, NEW x \in [state : 0 .. 3, bytes : B, payload_size : Nat, out : O, resyncs : Nat],
           NEW q \in 0 .. 3, NEW e \in B, NEW z \in Nat,
           NEW y, y = [x EXCEPT !.state = q, !.bytes = e, !.payload_size = z]
    PROVE  /\ y \in [state : 0 .. 3, bytes : B, payload_size : Nat, out : O, resyncs : Nat]
           /\ y.state = q /\ y.bytes = e /\ y.payload_size = z /\ y.out = x.out
OBVIOUS

LEMMA SetState ==
    ASSUME NEW B, NEW O, NEW x \in [state : 0 .. 3, bytes : B, payload_size : Nat, out : O, resyncs : Nat],
           NEW q \in 0 .. 3, NEW k \in Nat, NEW y, y = [x EXCEPT !.state = q, !.resyncs = k]
    PROVE  /\ y \in [state : 0 .. 3, bytes : B, payload_size : Nat, out : O, resyncs : Nat]
           /\ y.state = q /\ y.bytes = x.bytes /\ y.payload_size = x.payload_size /\ y.out = x.out
OBVIOUS

LEMMA FeedEmitted ==
    ASSUME NEW x \in Reassemblers, NEW d \in Seq(Bytes)
    PROVE  Emit(x, d) \in Reassemblers /\ Cleared(Emit(x, d)) /\ Emit(x, d).out = Append(x.out, d)
<1>1. << >> \in Seq(Bytes) /\ x.out \in Seq(Seq(Bytes))
  BY DEF Reassemblers
<1>2. PICK M : M = Seq(Bytes)
  OBVIOUS
<1>3. x.out \in Seq(M) /\ << >> \in M /\ d \in M
  BY <1>1, <1>2, Zenon
<1>4. PICK e \in M, g \in Seq(M) : e = << >> /\ g = Append(x.out, d)
  <2>1. Append(x.out, d) \in Seq(M)
    BY <1>3
  <2> QED BY <1>3, <2>1, Zenon
<1>5. Emit(x, d) = [x EXCEPT !.state = 0, !.bytes = e, !.payload_size = 0, !.out = g]
  BY <1>4, Zenon DEF Emit
<1>6. x \in [state : 0 .. 3, bytes : M, payload_size : Nat, out : Seq(M), resyncs : Nat]
  BY <1>2, Zenon DEF Reassemblers
<1>7. PICK y : y = [x EXCEPT !.state = 0, !.bytes = e, !.payload_size = 0, !.out = g]
  OBVIOUS
<1>8. /\ y \in [state : 0 .. 3, bytes : M, payload_size : Nat, out : Seq(M), resyncs : Nat]
      /\ y.state = 0 /\ y.bytes = e /\ y.payload_size = 0 /\ y.out = g
  <2>1. 0 \in 0 .. 3 /\ 0 \in Nat
    OBVIOUS
  <2> QED BY <1>6, <1>7, <2>1, SetOut, Zenon
<1>9. y \in Reassemblers
  BY <1>2, <1>8, Zenon DEF Reassemblers
<1> QED BY <1>4, <1>5, <1>7, <1>8, <1>9, Zenon DEF Cleared

\* feed_byte.
LEMMA FeedByteMoves ==
    ASSUME NEW x \in Reassemblers, NEW b \in Bytes, x.state = 2 => Len(x.bytes) \in {0, 1}
    PROVE  /\ FeedByte(x, b) \in Reassemblers
           /\ Moves(x, FeedByte(x, b), b, FALSE, max_payload_)
<1>y. PICK y : y = FeedByte(x, b)
  OBVIOUS
<1>0. PICK c \in Seq(Bytes) : c = Append(x.bytes, b) /\ y = FeedByte(x, b)
  BY <1>y, Appended DEF Reassemblers
<1>a. PICK n \in Nat : n = Len(x.bytes) /\ Len(c) = n + 1
  BY <1>0, Appended DEF Reassemblers
<1>e. PICK e \in Seq(Bytes) : e = << >>
  <2>1. << >> \in Seq(Bytes)
    OBVIOUS
  <2> QED BY <2>1, Zenon
<1>k. x.resyncs \in Nat /\ x.resyncs + 1 \in Nat
  BY DEF Reassemblers
<1>1. CASE x.state \in {0, 1}
  <2>1. StartByte(x, b) \in 0 .. 3
    BY <1>1, StartByteIs
  <2>2. y \in Reassemblers /\ Same(x, y) /\ y.state = StartByte(x, b)
    <3>1. CASE x.state = 0
      <4>1. y = [x EXCEPT !.state = StartByte(x, b)]
        BY <1>0, <3>1 DEF FeedByte
      <4> QED BY <2>1, <4>1 DEF Reassemblers, Same
    <3>2. CASE x.state = 1
      <4>1. PICK k \in Nat : k = IF b \in {AB, CD} THEN x.resyncs ELSE x.resyncs + 1
        BY <1>k
      <4>2. y = [x EXCEPT !.state = StartByte(x, b), !.resyncs = k]
        BY <1>0, <3>2, <4>1 DEF FeedByte
      <4> QED BY <2>1, <4>2, SetState, Zenon DEF Reassemblers, Same
    <3> QED BY <1>1, <3>1, <3>2
  <2>3. Looks(x, y, b)
    BY <1>1, <2>2, StartByteIs DEF Looks
  <2> QED BY <1>0, <2>2, <2>3 DEF Moves
<1>2. CASE x.state = 2 /\ n = 0
  <2>1. y = [x EXCEPT !.bytes = c]
    BY <1>0, <1>a, <1>2 DEF FeedByte
  <2>2. y \in Reassemblers /\ FirstDigit(x, y, b)
    BY <1>0, <1>a, <1>2, <2>1 DEF Reassemblers, FirstDigit
  <2> QED BY <1>0, <2>2 DEF Moves
<1>3. CASE x.state = 2 /\ n = 1
  <2>1. PICK size : size = BigEndian(c) /\ size = PacketLength(FALSE, c)
    BY DEF PacketLength
  <2>2. size \in Nat
    <3>1. c[1] \in Bytes /\ c[2] \in Bytes
      <4>1. 1 \in 1 .. Len(c) /\ 2 \in 1 .. Len(c)
        BY <1>a, <1>3
      <4> QED BY <4>1
    <3>2. PICK f \in Bytes, g \in Bytes : f = c[1] /\ g = c[2]
      BY <3>1
    <3>3. f \in Nat /\ g \in Nat /\ Base * f \in Nat
      BY WireAssumption DEF Bytes
    <3> QED BY <2>1, <3>2, <3>3 DEF BigEndian
  <2>3. y = CASE size > max_payload_ -> [x EXCEPT !.state = 0, !.bytes = << >>, !.payload_size = 0, !.resyncs = @ + 1]
              [] size = 0 -> Emit(x, << >>)
              [] OTHER -> [x EXCEPT !.state = 3, !.bytes = << >>, !.payload_size = size]
    BY <1>0, <1>a, <1>3, <2>1 DEF FeedByte, Impossible
  <2>m. max_payload_ \in Nat
    BY WireAssumption
  <2>4. CASE size > max_payload_
    <3>1. PICK k \in Nat : k = x.resyncs + 1
      BY <1>k
    <3>2. size # 0
      BY <2>2, <2>4, <2>m
    <3>3. y = [x EXCEPT !.state = 0, !.bytes = e, !.payload_size = 0, !.resyncs = k]
      BY <1>e, <2>3, <2>4, <3>1, <3>2
    <3>4. 0 \in 0 .. 3 /\ 0 \in Nat
      OBVIOUS
    <3>5. y \in Reassemblers /\ y.state = 0 /\ y.bytes = e /\ y.payload_size = 0 /\ y.out = x.out
      BY <3>3, <3>4, SetResyncs, Zenon DEF Reassemblers
    <3>6. y \in Reassemblers /\ Cleared(y) /\ y.out = x.out
      BY <1>e, <3>5, Zenon DEF Cleared
    <3>7. Sizes(x, y, b, FALSE, max_payload_)
      BY <1>0, <1>a, <1>3, <2>1, <2>4, <3>6 DEF Sizes
    <3> QED BY <1>0, <3>6, <3>7 DEF Moves
  <2>5. CASE ~(size > max_payload_) /\ size = 0
    <3>1. y = Emit(x, e)
      BY <1>e, <2>3, <2>5
    <3>2. y \in Reassemblers /\ Cleared(y) /\ y.out = Append(x.out, << >>)
      BY <1>e, <3>1, FeedEmitted, Zenon
    <3>3. Sizes(x, y, b, FALSE, max_payload_)
      BY <1>0, <1>a, <1>3, <2>1, <2>5, <3>2 DEF Sizes
    <3> QED BY <1>0, <3>2, <3>3 DEF Moves
  <2>6. CASE ~(size > max_payload_) /\ size # 0
    <3>1. y = [x EXCEPT !.state = 3, !.bytes = e, !.payload_size = size]
      BY <1>e, <2>3, <2>6
    <3>2. 3 \in 0 .. 3
      OBVIOUS
    <3>3. y \in Reassemblers /\ y.state = 3 /\ y.bytes = e /\ y.payload_size = size /\ y.out = x.out
      BY <2>2, <3>1, <3>2, SetSize, Zenon DEF Reassemblers
    <3>4. y.bytes = << >>
      BY <1>e, <3>3, Zenon
    <3>5. Sizes(x, y, b, FALSE, max_payload_)
      BY <1>0, <1>a, <1>3, <2>1, <2>6, <3>3, <3>4 DEF Sizes
    <3> QED BY <1>0, <3>3, <3>5 DEF Moves
  <2> QED BY <2>4, <2>5, <2>6
<1>4. CASE x.state = 3
  <2>1. y = IF n + 1 = x.payload_size THEN Emit(x, c) ELSE [x EXCEPT !.bytes = c]
    BY <1>0, <1>a, <1>4 DEF FeedByte
  <2>2. CASE n + 1 = x.payload_size
    <3>1. y \in Reassemblers /\ Cleared(y) /\ y.out = Append(x.out, c)
      BY <2>1, <2>2, FeedEmitted
    <3>2. Fills(x, y, b)
      BY <1>0, <1>a, <1>4, <2>2, <3>1 DEF Fills
    <3> QED BY <1>0, <3>1, <3>2 DEF Moves
  <2>3. CASE n + 1 # x.payload_size
    <3>1. y \in Reassemblers /\ y.state = 3 /\ y.bytes = c /\ y.payload_size = x.payload_size /\ y.out = x.out
      BY <1>4, <2>1, <2>3 DEF Reassemblers
    <3>2. Fills(x, y, b)
      BY <1>0, <1>a, <1>4, <2>3, <3>1 DEF Fills
    <3> QED BY <1>0, <3>1, <3>2 DEF Moves
  <2> QED BY <2>2, <2>3
<1>5. x.state \in {0, 1} \/ x.state = 2 \/ x.state = 3
  BY DEF Reassemblers
<1>6. x.state = 2 => n = 0 \/ n = 1
  BY <1>a
<1> QED BY <1>1, <1>2, <1>3, <1>4, <1>5, <1>6

-----------------------------------------------------------------------------
(* Any number of bytes                                                     *)

LEMMA ParsedWaits ==
    ASSUME NEW x, NEW s, NEW before, NEW little, NEW limit, Parsed(x, s, before, little, limit), x.state = 2
    PROVE  Len(x.bytes) \in {0, 1}
BY DEF Parsed, Pending

\* The packet thread has read s.
Got(x, s) == x \in Parsers /\ Parsed(x, s, << >>, link.hostLittle, Base * Base)

\* The reassembler was fed s, after other connections had given before.
Fed(x, s, before) == x \in Reassemblers /\ Parsed(x, s, before, FALSE, max_payload_)

LEMMA GotByte ==
    ASSUME NEW s \in Seq(Bytes), NEW b \in Bytes, NEW x, Got(x, s), link.hostLittle \in BOOLEAN
    PROVE  Got(PacketByte(x, b), Append(s, b))
<1>1. Base * Base \in Nat
  BY WireAssumption
<1>2. x \in Parsers /\ Parsed(x, s, << >>, link.hostLittle, Base * Base)
  BY DEF Got
<1>3. x.state = 2 => Len(x.bytes) \in {0, 1}
  BY <1>2, ParsedWaits, Zenon
<1>4. PacketByte(x, b) \in Parsers /\ Moves(x, PacketByte(x, b), b, link.hostLittle, Base * Base)
  BY <1>2, <1>3, PacketByteMoves, Zenon
<1>5. Parsed(PacketByte(x, b), Append(s, b), << >>, link.hostLittle, Base * Base)
  BY <1>1, <1>2, <1>4, MovesParsed, Zenon
<1> QED BY <1>4, <1>5 DEF Got

LEMMA FedByte ==
    ASSUME NEW s \in Seq(Bytes), NEW b \in Bytes, NEW x, NEW before, Fed(x, s, before)
    PROVE  Fed(FeedByte(x, b), Append(s, b), before)
<1>1. max_payload_ \in Nat /\ FALSE \in BOOLEAN
  BY WireAssumption
<1>2. x \in Reassemblers /\ Parsed(x, s, before, FALSE, max_payload_)
  BY DEF Fed
<1>3. x.state = 2 => Len(x.bytes) \in {0, 1}
  BY <1>2, ParsedWaits, Zenon
<1>4. FeedByte(x, b) \in Reassemblers /\ Moves(x, FeedByte(x, b), b, FALSE, max_payload_)
  BY <1>2, <1>3, FeedByteMoves, Zenon
<1>5. Parsed(FeedByte(x, b), Append(s, b), before, FALSE, max_payload_)
  BY <1>1, <1>2, <1>4, MovesParsed, Zenon
<1> QED BY <1>4, <1>5 DEF Fed

\* s and the first k bytes of c.
Upto(s, c, k) == s \o SubSeq(c, 1, k)

LEMMA UptoIs ==
    ASSUME NEW M, NEW s \in Seq(M), NEW c \in Seq(M), NEW k \in 0 .. Len(c)
    PROVE  /\ Upto(s, c, k) \in Seq(M) /\ Len(Upto(s, c, k)) = Len(s) + k
           /\ \A i \in 1 .. Len(s) + k : Upto(s, c, k)[i] = IF i <= Len(s) THEN s[i] ELSE c[i - Len(s)]
<1>0. PICK n \in Nat : n = Len(s)
  OBVIOUS
<1>1. PICK e \in Seq(M) : e = SubSeq(c, 1, k) /\ Len(e) = k /\ \A i \in 1 .. k : e[i] = c[i]
  <2>1. /\ SubSeq(c, 1, k) \in Seq(M) /\ Len(SubSeq(c, 1, k)) = k + 1 - 1
        /\ \A i \in 1 .. k + 1 - 1 : SubSeq(c, 1, k)[i] = c[1 + i - 1]
    BY SubSeqAt
  <2>2. k + 1 - 1 = k /\ \A i \in 1 .. k : 1 + i - 1 = i
    OBVIOUS
  <2>3. \A i \in 1 .. k : SubSeq(c, 1, k)[i] = c[i]
    BY <2>1, <2>2
  <2> QED BY <2>1, <2>2, <2>3, Zenon
<1>2. /\ s \o e \in Seq(M) /\ Len(s \o e) = n + k
      /\ \A i \in 1 .. n + k : (s \o e)[i] = IF i <= n THEN s[i] ELSE e[i - n]
  BY <1>0, <1>1, ConcatProperties
<1>3. PICK g : g = s \o e
  OBVIOUS
<1>4. ASSUME NEW i \in 1 .. n + k PROVE g[i] = IF i <= n THEN s[i] ELSE c[i - n]
  <2>1. i <= n \/ i - n \in 1 .. k
    OBVIOUS
  <2>2. g[i] = IF i <= n THEN s[i] ELSE e[i - n]
    BY <1>2, <1>3
  <2> QED BY <1>1, <2>1, <2>2
<1>5. g = Upto(s, c, k)
  BY <1>1, <1>3, Zenon DEF Upto
<1> QED BY <1>0, <1>2, <1>3, <1>4, <1>5

LEMMA UptoNext ==
    ASSUME NEW M, NEW s \in Seq(M), NEW c \in Seq(M), NEW k \in 1 .. Len(c)
    PROVE  /\ Upto(s, c, k) = Append(Upto(s, c, k - 1), c[k])
           /\ Upto(s, c, k - 1) \in Seq(M) /\ c[k] \in M
<1>0. PICK n \in Nat : n = Len(s)
  OBVIOUS
<1>1. k \in 0 .. Len(c) /\ k - 1 \in 0 .. Len(c) /\ c[k] \in M /\ n + (k - 1) + 1 = n + k
  BY <1>0
<1>2. PICK g \in Seq(M) :
        /\ g = Upto(s, c, k) /\ Len(g) = n + k
        /\ \A i \in 1 .. n + k : g[i] = IF i <= n THEN s[i] ELSE c[i - n]
  <2>1. /\ Upto(s, c, k) \in Seq(M) /\ Len(Upto(s, c, k)) = Len(s) + k
        /\ \A i \in 1 .. Len(s) + k : Upto(s, c, k)[i] = IF i <= Len(s) THEN s[i] ELSE c[i - Len(s)]
    BY <1>1, UptoIs
  <2> QED BY <1>0, <2>1
<1>3. PICK h \in Seq(M) :
        /\ h = Upto(s, c, k - 1) /\ Len(h) = n + (k - 1)
        /\ \A i \in 1 .. n + (k - 1) : h[i] = IF i <= n THEN s[i] ELSE c[i - n]
  <2>1. PICK l \in 0 .. Len(c) : l = k - 1
    BY <1>1
  <2>2. /\ Upto(s, c, l) \in Seq(M) /\ Len(Upto(s, c, l)) = Len(s) + l
        /\ \A i \in 1 .. Len(s) + l : Upto(s, c, l)[i] = IF i <= Len(s) THEN s[i] ELSE c[i - Len(s)]
    BY UptoIs
  <2> QED BY <1>0, <2>1, <2>2
<1>4. PICK b \in M : b = c[k]
  BY <1>1
<1>5. PICK a \in Seq(M) : a = Append(h, b) /\ Len(a) = n + k /\ a[n + k] = b /\ \A i \in 1 .. n + (k - 1) : a[i] = h[i]
  <2>1. /\ Append(h, b) \in Seq(M) /\ Len(Append(h, b)) = n + (k - 1) + 1 /\ Append(h, b)[n + (k - 1) + 1] = b
        /\ \A i \in 1 .. n + (k - 1) : Append(h, b)[i] = h[i]
    BY <1>3
  <2> QED BY <1>1, <2>1, Zenon
<1>6. ASSUME NEW i \in 1 .. n + k PROVE g[i] = a[i]
  <2>1. CASE i = n + k
    <3>1. ~(i <= n) /\ i - n = k
      BY <2>1
    <3> QED BY <1>2, <1>4, <1>5, <2>1, <3>1
  <2>2. CASE i # n + k
    <3>1. i \in 1 .. n + (k - 1)
      BY <2>2
    <3> QED BY <1>2, <1>3, <1>5, <3>1
  <2> QED BY <2>1, <2>2
<1>7. g = a
  BY <1>2, <1>5, <1>6, SeqEqual
<1> QED BY <1>1, <1>2, <1>3, <1>4, <1>5, <1>7, Zenon

LEMMA UptoEnds ==
    ASSUME NEW M, NEW s \in Seq(M), NEW c \in Seq(M)
    PROVE  Upto(s, c, 0) = s /\ Upto(s, c, Len(c)) = s \o c
BY DEF Upto

\* The recursion of feed.
IsFed(f, x, c, m) == f = [i \in 0 .. m |-> IF i = 0 THEN x ELSE FeedByte(f[i - 1], c[i])]

LEMMA FedChosen ==
    ASSUME NEW x, NEW c PROVE Feed(x, c) = (CHOOSE f : IsFed(f, x, c, Len(c)))[Len(c)]
BY DEF Feed, IsFed

LEMMA FedExists ==
    ASSUME NEW x, NEW c, NEW m \in Nat PROVE \E f : IsFed(f, x, c, m)
<1> DEFINE T == {k \in Nat : ~\E f : IsFed(f, x, c, k)}
<1>1. SUFFICES ASSUME T # {} PROVE FALSE
  OBVIOUS
<1>2. PICK k \in T : \A l \in T : k <= l
  <2>1. T \in SUBSET Nat
    OBVIOUS
  <2> HIDE DEF T
  <2> QED BY <1>1, <2>1, LeastNatural
<1>3. k \in Nat /\ ~\E f : IsFed(f, x, c, k)
  OBVIOUS
<1>4. k # 0
  <2> DEFINE f == [i \in 0 .. 0 |-> x]
  <2>1. IsFed(f, x, c, 0)
    BY DEF IsFed
  <2> QED BY <1>3, <2>1
<1>5. PICK g : IsFed(g, x, c, k - 1)
  <2>1. k - 1 \in Nat /\ ~(k <= k - 1)
    BY <1>3, <1>4
  <2>2. k - 1 \notin T
    BY <1>2, <2>1
  <2> QED BY <2>1, <2>2
<1> DEFINE f == [i \in 0 .. k |-> IF i = k THEN FeedByte(g[k - 1], c[k]) ELSE g[i]]
<1>6. ASSUME NEW i \in 0 .. k PROVE f[i] = IF i = 0 THEN x ELSE FeedByte(f[i - 1], c[i])
  <2>1. ASSUME NEW j \in 0 .. k - 1
        PROVE  f[j] = g[j] /\ g[j] = IF j = 0 THEN x ELSE FeedByte(g[j - 1], c[j])
    <3>1. j \in 0 .. k /\ j # k
      BY <1>3
    <3>2. f[j] = g[j]
      BY <3>1
    <3>3. g[j] = IF j = 0 THEN x ELSE FeedByte(g[j - 1], c[j])
      BY <1>5 DEF IsFed
    <3> QED BY <3>2, <3>3
  <2>2. CASE i = k
    <3>0. k \in 0 .. k /\ k - 1 \in 0 .. k - 1
      BY <1>3, <1>4
    <3>1. f[k] = FeedByte(g[k - 1], c[k])
      BY <3>0, Zenon
    <3>2. f[k - 1] = g[k - 1]
      BY <2>1, <3>0
    <3> HIDE DEF f
    <3> QED BY <1>4, <2>2, <3>1, <3>2
  <2>3. CASE i # k /\ i = 0
    <3>1. i \in 0 .. k - 1
      BY <1>3, <2>3
    <3> QED BY <2>1, <2>3, <3>1
  <2>4. CASE i # k /\ i # 0
    <3>1. i \in 0 .. k - 1 /\ i - 1 \in 0 .. k - 1
      BY <1>3, <2>4
    <3>2. f[i] = g[i] /\ f[i - 1] = g[i - 1]
      BY <2>1, <3>1
    <3>3. g[i] = FeedByte(g[i - 1], c[i])
      BY <2>1, <2>4, <3>1
    <3> HIDE DEF f
    <3> QED BY <2>4, <3>2, <3>3
  <2> QED BY <2>2, <2>3, <2>4
<1>7. f = [i \in 0 .. k |-> f[i]]
  OBVIOUS
<1>8. IsFed(f, x, c, k)
  <2> HIDE DEF f
  <2> QED BY <1>6, <1>7 DEF IsFed
<1> QED BY <1>3, <1>8

\* feed, however the bytes are cut up.
LEMMA FeedParses ==
    ASSUME NEW s \in Seq(Bytes), NEW c \in Seq(Bytes), NEW x, NEW before, Fed(x, s, before)
    PROVE  Fed(Feed(x, c), s \o c, before)
<1>0. PICK n \in Nat : n = Len(c)
  OBVIOUS
<1>1. PICK f : f = CHOOSE g : IsFed(g, x, c, n)
  OBVIOUS
<1>2. IsFed(f, x, c, n)
  <2>1. \E g : IsFed(g, x, c, n)
    BY FedExists
  <2> QED BY <1>1, <2>1, Zenon
<1> DEFINE T == {k \in Nat : k <= n /\ ~Fed(f[k], Upto(s, c, k), before)}
<1>3. Fed(f[0], Upto(s, c, 0), before)
  <2>1. 0 \in 0 .. n
    OBVIOUS
  <2>2. f[0] = x
    BY <1>2, <2>1, Zenon DEF IsFed
  <2>3. Upto(s, c, 0) = s
    BY UptoEnds, Zenon
  <2> QED BY <2>2, <2>3, Zenon
<1>4. T = {}
  <2>1. SUFFICES ASSUME T # {} PROVE FALSE
    OBVIOUS
  <2>2. PICK k \in T : \A l \in T : k <= l
    <3>1. T \in SUBSET Nat
      OBVIOUS
    <3> HIDE DEF T
    <3> QED BY <2>1, <3>1, LeastNatural
  <2>3. k \in Nat /\ k <= n /\ ~Fed(f[k], Upto(s, c, k), before)
    OBVIOUS
  <2>4. k # 0
    BY <1>3, <2>3
  <2>5. k - 1 \in Nat /\ k - 1 <= n /\ ~(k <= k - 1) /\ k \in 1 .. n
    BY <2>3, <2>4
  <2>6. k - 1 \notin T
    BY <2>2, <2>5
  <2>7. Fed(f[k - 1], Upto(s, c, k - 1), before)
    BY <2>5, <2>6
  <2>8. f[k] = FeedByte(f[k - 1], c[k])
    BY <1>2, <2>3, <2>4 DEF IsFed
  <2> HIDE DEF T
  <2>9. Upto(s, c, k) = Append(Upto(s, c, k - 1), c[k]) /\ Upto(s, c, k - 1) \in Seq(Bytes) /\ c[k] \in Bytes
    BY <1>0, <2>5, UptoNext, Zenon
  <2>10. Fed(FeedByte(f[k - 1], c[k]), Append(Upto(s, c, k - 1), c[k]), before)
    BY <2>7, <2>9, FedByte, Zenon
  <2> QED BY <2>3, <2>8, <2>9, <2>10, Zenon
<1>5. Fed(f[n], Upto(s, c, n), before)
  BY <1>4
<1>6. Feed(x, c) = f[n]
  BY <1>0, <1>1, FedChosen, Zenon
<1>7. Upto(s, c, n) = s \o c
  BY <1>0, UptoEnds
<1> QED BY <1>5, <1>6, <1>7, Zenon

-----------------------------------------------------------------------------
(* The invariant of the connection                                         *)

WireTyped ==
    /\ link \in Links /\ rx \in Seq(Bytes) /\ Q \in Seq(Bytes) /\ todo \in [link.writers -> Seq(Bytes)]
    /\ cuts \in Nat

\* The packet thread has read what is no longer in the queue.
ReadSoFar == \E s \in Seq(Bytes) : rx = s \o Q /\ Got(p, s)

\* The reassembler was fed the bytes of this connection.
FedSoFar == \E before \in Seq(Seq(Bytes)) : Fed(r, rx, before) /\ (cuts = 0 => before = << >>)

WireIInv == WireTyped /\ ReadSoFar /\ FedSoFar

\* A parser that starts.
LEMMA ParsedNew ==
    ASSUME NEW x, NEW before, NEW little, NEW limit,
           x.out = before, before \in Seq(Seq(Bytes)), Cleared(x)
    PROVE  Parsed(x, << >>, before, little, limit)
<1>1. << >> \in Seq(Bytes) /\ Len(<< >>) = 0
  OBVIOUS
<1>2. PICK s \in Seq(Bytes) : s = << >> /\ Len(s) = 0
  BY <1>1, Zenon
<1>3. ParserTyped(x)
  BY <1>1 DEF ParserTyped, Cleared
<1>4. Pending(x, s, 1, little, limit)
  BY <1>2 DEF Pending, Cleared
<1>5. Continues(x, s, 1, before, little, limit)
  BY Zenon DEF Continues, Reference
<1>6. Parsed(x, s, before, little, limit)
  BY <1>3, <1>4, <1>5, ParsedIf
<1> QED BY <1>2, <1>6, Zenon

LEMMA NewPacketGot == Got(NewPacket, << >>)
<1>1. << >> \in Seq(Bytes) /\ << >> \in Seq(Seq(Bytes))
  OBVIOUS
<1>2. NewPacket \in Parsers
  BY <1>1 DEF NewPacket, Parsers
<1>3. NewPacket.out = << >> /\ Cleared(NewPacket)
  BY DEF NewPacket, Cleared
<1>4. Parsed(NewPacket, << >>, << >>, link.hostLittle, Base * Base)
  BY <1>1, <1>3, ParsedNew, Zenon
<1> QED BY <1>2, <1>4 DEF Got

LEMMA NewFed ==
    ASSUME NEW x \in Reassemblers, Cleared(x)
    PROVE  Fed(x, << >>, x.out)
<1>1. x.out \in Seq(Seq(Bytes))
  BY DEF Reassemblers
<1>2. Parsed(x, << >>, x.out, FALSE, max_payload_)
  BY <1>1, ParsedNew, Zenon
<1> QED BY <1>2 DEF Fed

LEMMA NewReassemblerTyped ==
    NewReassembler \in Reassemblers /\ Cleared(NewReassembler) /\ NewReassembler.out = << >>
<1>1. << >> \in Seq(Bytes) /\ << >> \in Seq(Seq(Bytes))
  OBVIOUS
<1> QED BY <1>1 DEF NewReassembler, Reassemblers, Cleared

LEMMA SetCounters ==
    ASSUME NEW B, NEW O, NEW x \in [state : 0 .. 3, bytes : B, payload_size : Nat, out : O, resyncs : Nat],
           NEW o \in O, NEW k \in Nat, NEW y, y = [x EXCEPT !.out = o, !.resyncs = k]
    PROVE  /\ y \in [state : 0 .. 3, bytes : B, payload_size : Nat, out : O, resyncs : Nat]
           /\ y.state = x.state /\ y.bytes = x.bytes /\ y.payload_size = x.payload_size /\ y.out = o
OBVIOUS

LEMMA ResetIs ==
    ASSUME NEW x \in Reassemblers
    PROVE  Reset(x) \in Reassemblers /\ Cleared(Reset(x)) /\ Reset(x).out = x.out
<1>1. PICK M : M = Seq(Bytes)
  OBVIOUS
<1>2. x \in [state : 0 .. 3, bytes : M, payload_size : Nat, out : Seq(M), resyncs : Nat]
  BY <1>1, Zenon DEF Reassemblers
<1>3. NewReassembler \in [state : 0 .. 3, bytes : M, payload_size : Nat, out : Seq(M), resyncs : Nat]
  BY <1>1, NewReassemblerTyped, Zenon DEF Reassemblers
<1>4. PICK o \in Seq(M), k \in Nat : o = x.out /\ k = x.resyncs
  BY <1>2
<1>5. PICK y : y = Reset(x) /\ y = [NewReassembler EXCEPT !.out = o, !.resyncs = k]
  BY <1>4, Zenon DEF Reset
<1>6. /\ y \in [state : 0 .. 3, bytes : M, payload_size : Nat, out : Seq(M), resyncs : Nat]
      /\ y.state = NewReassembler.state /\ y.bytes = NewReassembler.bytes
      /\ y.payload_size = NewReassembler.payload_size /\ y.out = o
  BY <1>3, <1>5, SetCounters, Zenon
<1>7. y \in Reassemblers
  BY <1>1, <1>6, Zenon DEF Reassemblers
<1>8. Cleared(y)
  BY <1>6, NewReassemblerTyped, Zenon DEF Cleared
<1> QED BY <1>4, <1>5, <1>6, <1>7, <1>8, Zenon

LEMMA LinkFacts ==
    ASSUME NEW l \in Links
    PROVE  /\ l.junk \in Seq(Bytes) /\ l.hostLittle \in BOOLEAN /\ l.peerLittle \in BOOLEAN
           /\ l.frames \in 1 .. Len(Payloads)
<1>1. l.junk \in Seq(Bytes) /\ {l.peerLittle, l.hostLittle} \subseteq BOOLEAN /\ l.frames \in 1 .. Len(Payloads)
  BY WireAssumption, Zenon
<1> QED BY <1>1, Zenon

LEMMA WireInitIInv == WireInit => WireIInv
<1> SUFFICES ASSUME WireInit PROVE WireIInv
  OBVIOUS
<1>1. link \in Links /\ rx = link.junk /\ Q = link.junk /\ p = NewPacket /\ cuts = 0
  BY DEF WireInit
<1>2. PICK junk \in Seq(Bytes) : junk = link.junk
  BY <1>1, LinkFacts
<1>3. << >> \in Seq(Bytes) /\ << >> \in Seq(Seq(Bytes)) /\ << >> \o junk = junk
  OBVIOUS
<1>4. WireTyped
  BY <1>1, <1>2 DEF WireInit, WireTyped
<1>5. ReadSoFar
  <2>1. rx = << >> \o Q /\ Got(p, << >>)
    BY <1>1, <1>2, <1>3, NewPacketGot
  <2> QED BY <1>3, <2>1 DEF ReadSoFar
<1>6. FedSoFar
  <2>1. Fed(NewReassembler, << >>, << >>)
    BY NewFed, NewReassemblerTyped, Zenon
  <2>2. Fed(Feed(NewReassembler, junk), << >> \o junk, << >>)
    BY <1>3, <2>1, FeedParses, Zenon
  <2>3. r = Feed(NewReassembler, junk) /\ rx = junk
    BY <1>1, <1>2 DEF WireInit
  <2>4. Fed(r, rx, << >>)
    BY <1>3, <2>2, <2>3
  <2> QED BY <1>3, <2>4 DEF FedSoFar
<1> QED BY <1>4, <1>5, <1>6 DEF WireIInv

LEMMA SameRead ==
    ASSUME ReadSoFar, UNCHANGED <<link, rx, Q, p>> PROVE ReadSoFar'
BY DEF ReadSoFar, Got

LEMMA SameFed ==
    ASSUME FedSoFar, UNCHANGED <<rx, r, cuts>> PROVE FedSoFar'
BY DEF FedSoFar, Fed

LEMMA WireFrameTyped ==
    ASSUME NEW little \in BOOLEAN, NEW k \in 1 .. Len(Payloads)
    PROVE  /\ WireFrame(little, Payloads[k]) \in Seq(Bytes) /\ Payloads[k] \in Seq(Bytes)
           /\ Len(Payloads[k]) \in Bytes
<1>1. PICK d \in Seq(Bytes) : d = Payloads[k]
  BY WireAssumption
<1>2. Base \in Nat \ {0} /\ AB \in Bytes /\ CD \in Bytes
  BY WireAssumption
<1>3. Len(d) < Base
  BY <1>1, WireAssumption
<1>4. Len(d) \in Bytes /\ 0 \in Bytes
  BY <1>2, <1>3 DEF Bytes
<1>5. PICK a \in Seq(Bytes), h \in Seq(Bytes) :
        a = <<AB, CD>> /\ h = IF little THEN <<Len(d), 0>> ELSE <<0, Len(d)>>
  <2>1. \A b, c \in Bytes : <<b, c>> \in Seq(Bytes)
    OBVIOUS
  <2>2. <<AB, CD>> \in Seq(Bytes) /\ <<Len(d), 0>> \in Seq(Bytes) /\ <<0, Len(d)>> \in Seq(Bytes)
    BY <1>2, <1>4, <2>1, Zenon
  <2>3. (IF little THEN <<Len(d), 0>> ELSE <<0, Len(d)>>) \in Seq(Bytes)
    BY <2>2, Zenon
  <2> QED BY <2>2, <2>3, Zenon
<1>6. (a \o h) \o d \in Seq(Bytes)
  OBVIOUS
<1>7. WireFrame(little, d) = (a \o h) \o d
  BY <1>5, Zenon DEF WireFrame
<1> QED BY <1>1, <1>4, <1>6, <1>7, Zenon

LEMMA WriteBeginsWire ==
    ASSUME WireIInv, sent \in Seq(Seq(Bytes)), NEW t \in link.writers, WriteBegins(t) PROVE WireIInv'
<1>1. UNCHANGED <<link, rx, Q, p, r, cuts>>
  BY DEF WriteBegins
<1>2. todo' \in [link.writers -> Seq(Bytes)]
  <2>1. PICK n \in Nat : n = Len(sent)
    OBVIOUS
  <2>2. link \in Links /\ todo \in [link.writers -> Seq(Bytes)] /\ n < link.frames
    BY <2>1 DEF WriteBegins, WireIInv, WireTyped
  <2>3. link.peerLittle \in BOOLEAN /\ link.frames \in 1 .. Len(Payloads)
    BY <2>2, LinkFacts
  <2>4. n + 1 \in 1 .. Len(Payloads)
    <3>1. Len(Payloads) \in Nat
      BY WireAssumption
    <3> QED BY <2>2, <2>3, <3>1
  <2>5. PICK w \in Seq(Bytes) : w = WireFrame(link.peerLittle, Payloads[n + 1])
    BY <2>3, <2>4, WireFrameTyped, Zenon
  <2>6. todo' = [todo EXCEPT ![t] = w]
    BY <2>1, <2>5 DEF WriteBegins
  <2> HIDE <2>5
  <2> QED BY <2>2, <2>6
<1>3. WireTyped'
  BY <1>1, <1>2 DEF WireIInv, WireTyped
<1>4. ReadSoFar' /\ FedSoFar'
  BY <1>1, SameRead, SameFed DEF WireIInv
<1> QED BY <1>3, <1>4 DEF WireIInv

\* What write() gives to the socket is the first part of what is left.
LEMMA ChunkOf ==
    ASSUME NEW M, NEW d \in Seq(M), NEW k \in 1 .. Len(d)
    PROVE  /\ SubSeq(d, 1, k) \in Seq(M) /\ SubSeq(d, k + 1, Len(d)) \in Seq(M)
           /\ SubSeq(d, 1, k) \o SubSeq(d, k + 1, Len(d)) = d
OBVIOUS

LEMMA WriteSomeWire ==
    ASSUME WireIInv, NEW t \in link.writers, WriteSome(t) PROVE WireIInv'
<1>0. /\ link \in Links /\ rx \in Seq(Bytes) /\ Q \in Seq(Bytes) /\ todo \in [link.writers -> Seq(Bytes)]
      /\ cuts \in Nat
  BY DEF WireIInv, WireTyped
<1>1. PICK d \in Seq(Bytes) : d = todo[t]
  BY <1>0
<1>2. PICK k \in 1 .. Len(d) :
        /\ todo' = [todo EXCEPT ![t] = SubSeq(d, k + 1, Len(d))]
        /\ rx' = rx \o SubSeq(d, 1, k) /\ Q' = Q \o SubSeq(d, 1, k) /\ r' = Feed(r, SubSeq(d, 1, k))
        /\ UNCHANGED <<link, p, cuts>>
  BY <1>1, Zenon DEF WriteSome
<1>3. PICK c \in Seq(Bytes), w \in Seq(Bytes) : c = SubSeq(d, 1, k) /\ w = SubSeq(d, k + 1, Len(d))
  BY ChunkOf, Zenon
<1>4. /\ todo' = [todo EXCEPT ![t] = w] /\ rx' = rx \o c /\ Q' = Q \o c /\ r' = Feed(r, c)
      /\ UNCHANGED <<link, p, cuts>>
  BY <1>2, <1>3, Zenon
<1> HIDE <1>1, <1>3
<1>5. WireTyped'
  BY <1>0, <1>4 DEF WireTyped
<1>6. ReadSoFar'
  <2>1. PICK s \in Seq(Bytes) : rx = s \o Q /\ Got(p, s)
    BY DEF WireIInv, ReadSoFar
  <2>2. Associates(s, Q, c)
    BY <1>0, Joined, Zenon
  <2>3. rx' = s \o Q'
    BY <1>4, <2>1, <2>2, Zenon DEF Associates
  <2>4. Got(p, s)'
    BY <1>4, <2>1 DEF Got
  <2> QED BY <2>3, <2>4 DEF ReadSoFar
<1>7. FedSoFar'
  <2>1. PICK before \in Seq(Seq(Bytes)) : Fed(r, rx, before) /\ (cuts = 0 => before = << >>)
    BY DEF WireIInv, FedSoFar
  <2>2. Fed(Feed(r, c), rx \o c, before)
    BY <1>0, <2>1, FeedParses, Zenon
  <2>3. Fed(r', rx', before)
    BY <1>4, <2>2, Zenon
  <2> QED BY <1>4, <2>1, <2>3, Zenon DEF FedSoFar
<1> QED BY <1>5, <1>6, <1>7 DEF WireIInv

LEMMA HeadNext ==
    ASSUME NEW M, NEW s \in Seq(M), NEW w \in Seq(M), w # << >>
    PROVE  /\ Head(w) \in M /\ Tail(w) \in Seq(M)
           /\ s \o w = Append(s, Head(w)) \o Tail(w)
<1>0. Head(w) \in M /\ Tail(w) \in Seq(M)
  OBVIOUS
<1>1. PICK b \in M, v \in Seq(M) : b = Head(w) /\ v = Tail(w)
  BY <1>0, Zenon
<1>2. w = First(b, v)
  BY <1>1 DEF First
<1>3. s \o First(b, v) = Append(s, b) \o v
  BY AppendThen
<1> QED BY <1>1, <1>2, <1>3, Zenon

LEMMA PacketReadsWire ==
    ASSUME WireIInv, PacketReads PROVE WireIInv'
<1>0. /\ link \in Links /\ rx \in Seq(Bytes) /\ Q \in Seq(Bytes) /\ todo \in [link.writers -> Seq(Bytes)]
      /\ cuts \in Nat
  BY DEF WireIInv, WireTyped
<1>1. Q # << >> /\ Q' = Tail(Q) /\ p' = PacketByte(p, Head(Q)) /\ UNCHANGED <<link, todo, rx, r, cuts>>
  BY DEF PacketReads
<1>2. link.hostLittle \in BOOLEAN
  BY <1>0, LinkFacts
<1>3. Head(Q) \in Bytes /\ Tail(Q) \in Seq(Bytes)
  BY <1>0, <1>1
<1>4. WireTyped'
  BY <1>0, <1>1, <1>3 DEF WireTyped
<1>5. ReadSoFar'
  <2>1. PICK s \in Seq(Bytes) : rx = s \o Q /\ Got(p, s)
    BY DEF WireIInv, ReadSoFar
  <2>2. Append(s, Head(Q)) \in Seq(Bytes)
    BY <1>3
  <2>3. s \o Q = Append(s, Head(Q)) \o Tail(Q)
    BY <1>0, <1>1, HeadNext, Zenon
  <2>4. Got(PacketByte(p, Head(Q)), Append(s, Head(Q)))
    BY <1>2, <1>3, <2>1, GotByte, Zenon
  <2>5. rx' = Append(s, Head(Q)) \o Q'
    BY <1>1, <2>1, <2>3, Zenon
  <2>6. PICK v \in Seq(Bytes) : v = Append(s, Head(Q))
    BY <2>2, Zenon
  <2>7. Got(p, v)'
    BY <1>1, <2>4, <2>6 DEF Got
  <2>8. rx' = v \o Q'
    BY <2>5, <2>6, Zenon
  <2> QED BY <2>7, <2>8 DEF ReadSoFar
<1>6. FedSoFar'
  BY <1>1, SameFed DEF WireIInv
<1> QED BY <1>4, <1>5, <1>6 DEF WireIInv

LEMMA ReconnectTodo ==
    ASSUME WireTyped, Reconnect
    PROVE  /\ todo' \in [link.writers -> Seq(Bytes)]
           /\ \A t \in link.writers : todo'[t] \in {todo[t], << >>}
<1>0. todo \in [link.writers -> Seq(Bytes)] /\ << >> \in Seq(Bytes)
  BY DEF WireTyped
<1>1. PICK left : /\ left \in {todo, [t \in DOMAIN todo |-> << >>]}
                  /\ todo' = IF "exec" \in DOMAIN todo THEN [left EXCEPT !["exec"] = << >>] ELSE left
  BY Zenon DEF Reconnect
<1>2. PICK e \in Seq(Bytes) : e = << >>
  BY <1>0, Zenon
<1>3. /\ left \in {todo, [t \in link.writers |-> e]}
      /\ todo' = IF "exec" \in link.writers THEN [left EXCEPT !["exec"] = e] ELSE left
  BY <1>0, <1>1, <1>2
<1> HIDE <1>2
<1>4. left \in [link.writers -> Seq(Bytes)] /\ \A t \in link.writers : left[t] \in {todo[t], e}
  BY <1>0, <1>3
<1>5. todo' \in [link.writers -> Seq(Bytes)] /\ \A t \in link.writers : todo'[t] \in {todo[t], e}
  BY <1>3, <1>4
<1> QED BY <1>2, <1>5, Zenon

LEMMA ReconnectWire ==
    ASSUME WireIInv, Reconnect PROVE WireIInv'
<1>0. WireTyped /\ cuts \in Nat /\ link \in Links
  BY DEF WireIInv, WireTyped
<1>1. cuts' = cuts + 1 /\ rx' = << >> /\ Q' = << >> /\ p' = NewPacket /\ r' = Reset(r) /\ UNCHANGED link
  BY DEF Reconnect
<1>2. << >> \in Seq(Bytes) /\ << >> \o << >> = << >>
  OBVIOUS
<1>3. WireTyped'
  BY <1>0, <1>1, <1>2, ReconnectTodo DEF WireTyped
<1>4. ReadSoFar'
  <2>1. Got(p, << >>)'
    BY <1>1, NewPacketGot DEF Got
  <2> QED BY <1>1, <1>2, <2>1 DEF ReadSoFar
<1>5. FedSoFar'
  <2>1. r \in Reassemblers
    BY DEF WireIInv, FedSoFar, Fed
  <2>2. Reset(r) \in Reassemblers /\ Cleared(Reset(r)) /\ Reset(r).out = r.out
    BY <2>1, ResetIs
  <2>3. Fed(Reset(r), << >>, Reset(r).out)
    BY <2>2, NewFed, Zenon
  <2>4. Fed(r', rx', r.out)
    BY <1>1, <2>2, <2>3, Zenon
  <2>5. r.out \in Seq(Seq(Bytes))
    BY <2>1 DEF Reassemblers
  <2>6. cuts' # 0
    BY <1>0, <1>1
  <2> QED BY <2>4, <2>5, <2>6, Zenon DEF FedSoFar
<1> QED BY <1>3, <1>4, <1>5 DEF WireIInv

\* The frames written are the first messages.
SentSoFar ==
    /\ sent \in Seq(Seq(Bytes)) /\ Len(sent) <= Len(Payloads)
    /\ \A n \in 1 .. Len(sent) : sent[n] = Payloads[n]

LEMMA SentInit == WireInit => SentSoFar
<1>1. << >> \in Seq(Seq(Bytes)) /\ Len(<< >>) = 0
  OBVIOUS
<1>2. Len(Payloads) \in Nat
  BY WireAssumption
<1> QED BY <1>1, <1>2 DEF WireInit, SentSoFar

LEMMA SentNext ==
    ASSUME WireIInv, SentSoFar, [WireNext]_wireVars PROVE SentSoFar'
<1>1. CASE UNCHANGED sent
  BY <1>1 DEF SentSoFar
<1>2. ASSUME NEW t \in link.writers, WriteBegins(t) PROVE SentSoFar'
  <2>1. PICK M : M = Seq(Bytes)
    OBVIOUS
  <2>2. PICK n \in Nat, e \in Seq(M) : n = Len(sent) /\ e = sent
    BY <2>1 DEF SentSoFar
  <2>3. n < link.frames /\ sent' = Append(e, Payloads[n + 1])
    BY <1>2, <2>2 DEF WriteBegins
  <2>4. link.frames \in 1 .. Len(Payloads) /\ Len(Payloads) \in Nat
    BY WireAssumption, LinkFacts DEF WireIInv, WireTyped
  <2>5. n + 1 \in 1 .. Len(Payloads)
    BY <2>3, <2>4
  <2>6. PICK d \in M : d = Payloads[n + 1]
    BY <2>1, <2>5, WireAssumption
  <2>7. /\ Append(e, d) \in Seq(M) /\ Len(Append(e, d)) = n + 1 /\ Append(e, d)[n + 1] = d
        /\ \A k \in 1 .. n : Append(e, d)[k] = e[k]
    BY <2>2
  <2>8. \A k \in 1 .. n + 1 : Append(e, d)[k] = Payloads[k]
    <3>1. \A k \in 1 .. n : e[k] = Payloads[k]
      BY <2>2 DEF SentSoFar
    <3>2. \A k \in 1 .. n + 1 : k \in 1 .. n \/ k = n + 1
      OBVIOUS
    <3> QED BY <2>6, <2>7, <3>1, <3>2
  <2>9. sent' \in Seq(M) /\ Len(sent') = n + 1 /\ \A k \in 1 .. n + 1 : sent'[k] = Payloads[k]
    BY <2>3, <2>6, <2>7, <2>8, Zenon
  <2>10. n + 1 <= Len(Payloads)
    BY <2>5
  <2> QED BY <2>1, <2>9, <2>10 DEF SentSoFar
<1>3. UNCHANGED sent \/ \E t \in link.writers : WriteBegins(t)
  BY DEF WireNext, wireVars, WriteSome, PacketReads, Reconnect
<1> QED BY <1>1, <1>2, <1>3

LEMMA WireNextIInv ==
    ASSUME WireIInv, SentSoFar, [WireNext]_wireVars PROVE WireIInv'
<1>1. CASE UNCHANGED wireVars
  <2>1. UNCHANGED <<link, rx, Q, p, r, cuts, todo>>
    BY <1>1 DEF wireVars
  <2>2. WireTyped'
    BY <2>1 DEF WireIInv, WireTyped
  <2> QED BY <2>1, <2>2, SameRead, SameFed DEF WireIInv
<1>2. ASSUME NEW t \in link.writers, WriteBegins(t) \/ WriteSome(t) PROVE WireIInv'
  <2>1. sent \in Seq(Seq(Bytes))
    BY DEF SentSoFar
  <2> QED BY <1>2, <2>1, WriteBeginsWire, WriteSomeWire
<1> QED BY <1>1, <1>2, PacketReadsWire, ReconnectWire DEF WireNext

LEMMA WireInductive == WireSpec => [](WireIInv /\ SentSoFar)
<1>1. WireInit => WireIInv /\ SentSoFar
  BY WireInitIInv, SentInit
<1>2. WireIInv /\ SentSoFar /\ [WireNext]_wireVars => (WireIInv /\ SentSoFar)'
  BY WireNextIInv, SentNext
<1> QED BY <1>1, <1>2, PTL DEF WireSpec

\* What a parser waits for is within its limit.
LEMMA ParsedSize ==
    ASSUME NEW s \in Seq(Bytes), NEW x, NEW before, NEW little \in BOOLEAN, NEW limit \in Nat,
           Parsed(x, s, before, little, limit)
    PROVE  /\ x.state \in 0 .. 3 /\ x.payload_size \in 0 .. limit /\ x.payload_size < Base * Base
           /\ x.state = 3 => Len(x.bytes) < x.payload_size
<1>0. PICK n \in Nat : n = Len(s)
  OBVIOUS
<1>1. ParserTyped(x)
  BY DEF Parsed
<1>2. PICK i \in 1 .. n + 1 : Pending(x, s, i, little, limit)
  BY <1>0 DEF Parsed
<1>3. PICK z \in Nat : z = x.payload_size
  BY <1>1 DEF ParserTyped
<1>4. CASE x.state # 3
  <2>1. x.state = 0 \/ x.state = 1 \/ x.state = 2
    BY <1>1, <1>4 DEF ParserTyped
  <2>2. z = 0
    BY <1>2, <1>3, <2>1 DEF Pending
  <2>3. 0 < Base * Base
    <3>1. PICK b \in Nat : b = Base /\ b > 0
      BY WireAssumption
    <3>2. b * b > 0
      BY <3>1
    <3> QED BY <3>1, <3>2
  <2> QED BY <1>1, <1>3, <1>4, <2>2, <2>3 DEF ParserTyped
<1>5. CASE x.state = 3
  <2>1. PICK a \in Nat : a = Len(x.bytes)
    BY <1>1 DEF ParserTyped
  <2>2. i + 3 + a = n /\ z = SizeAt(s, i, little) /\ z <= limit /\ a < z
    BY <1>0, <1>2, <1>3, <1>5, <2>1 DEF Pending
  <2>3. i \in 1 .. n - 3
    BY <2>2
  <2>4. z < Base * Base
    BY <1>0, <2>2, <2>3, SizeFacts
  <2> QED BY <1>3, <1>5, <2>1, <2>2, <2>4
<1> QED BY <1>4, <1>5

LEMMA ReadParses ==
    ASSUME WireIInv
    PROVE  /\ p.state \in 0 .. 3 /\ p.payload_size \in 0 .. Base * Base - 1
           /\ p.state = 3 => Len(p.bytes) < p.payload_size
           /\ PacketParses
<1>1. PICK s \in Seq(Bytes) : rx = s \o Q /\ Got(p, s)
  BY DEF WireIInv, ReadSoFar
<1>2. link.hostLittle \in BOOLEAN /\ Q \in Seq(Bytes)
  BY LinkFacts DEF WireIInv, WireTyped
<1>3. PICK limit \in Nat, little \in BOOLEAN : limit = Base * Base /\ little = link.hostLittle
  BY <1>2, WireAssumption
<1>4. Parsed(p, s, << >>, little, limit)
  BY <1>1, <1>3 DEF Got
<1>5. SubSeq(rx, 1, Len(rx) - Len(Q)) = s
  <2>1. PICK n \in Nat, k \in Nat : n = Len(s) /\ k = Len(Q)
    BY <1>2
  <2>2. Len(s \o Q) - Len(Q) = n
    BY <1>2, <2>1
  <2>3. SubSeq(s \o Q, 1, n) = s
    BY <1>2, <2>1
  <2> QED BY <1>1, <2>2, <2>3, Zenon
<1>6. << >> \o Reference(s, little, limit) = p.out
  BY <1>4, ParsedIsReference
<1>7. Reference(s, little, limit) \in Seq(Seq(Bytes))
  <2>1. 1 \in 1 .. Len(s) + 1
    OBVIOUS
  <2> QED BY <2>1, FromTyped DEF Reference
<1>8. p.out = Reference(s, little, limit)
  <2>1. PICK w \in Seq(Seq(Bytes)) : w = Reference(s, little, limit)
    BY <1>7, Zenon
  <2>2. << >> \o w = w
    OBVIOUS
  <2> QED BY <1>6, <2>1, <2>2, Zenon
<1>9. PacketParses
  BY <1>3, <1>5, <1>8 DEF PacketParses
<1>10. /\ p.state \in 0 .. 3 /\ p.payload_size \in 0 .. limit /\ p.payload_size < limit
       /\ p.state = 3 => Len(p.bytes) < p.payload_size
  BY <1>3, <1>4, ParsedSize
<1> QED BY <1>3, <1>9, <1>10

IsJoined(o, e, w) == o = e \o w

LEMMA LastPart ==
    ASSUME NEW M, NEW e \in Seq(M), NEW w \in Seq(M), NEW a \in Nat, NEW k \in Nat, a = Len(e), k = Len(w),
           NEW o, IsJoined(o, e, w)
    PROVE  Len(o) = a + k /\ SubSeq(o, a + 1, a + k) = w
<1>1. PICK g \in Seq(M) : /\ g = e \o w /\ Len(g) = a + k
                         /\ \A i \in 1 .. a + k : g[i] = IF i <= a THEN e[i] ELSE w[i - a]
  <2>1. /\ e \o w \in Seq(M) /\ Len(e \o w) = a + k
        /\ \A i \in 1 .. a + k : (e \o w)[i] = IF i <= a THEN e[i] ELSE w[i - a]
    BY ConcatProperties
  <2> QED BY <2>1, Zenon
<1>2. PICK l \in Nat, f \in Nat \ {0} : f = a + 1 /\ l = a + k /\ l <= Len(g) /\ f <= l + 1 /\ l + 1 - f = k
  BY <1>1
<1>3. /\ SubSeq(g, f, l) \in Seq(M) /\ Len(SubSeq(g, f, l)) = k
      /\ \A i \in 1 .. k : SubSeq(g, f, l)[i] = g[f + i - 1]
  BY <1>2, SubSeqAt
<1>4. PICK h \in Seq(M) : h = SubSeq(g, f, l) /\ Len(h) = k /\ \A i \in 1 .. k : h[i] = g[f + i - 1]
  BY <1>3, Zenon
<1>5. ASSUME NEW i \in 1 .. k PROVE h[i] = w[i]
  <2>1. f + i - 1 = a + i /\ a + i \in 1 .. a + k /\ ~(a + i <= a) /\ a + i - a = i
    BY <1>2
  <2>2. \A j \in 1 .. a + k : ~(j <= a) => g[j] = w[j - a]
    BY <1>1, Zenon
  <2>3. h[i] = g[f + i - 1]
    BY <1>4, Zenon
  <2>4. g[a + i] = w[i]
    BY <2>1, <2>2
  <2> QED BY <2>1, <2>3, <2>4, Zenon
<1>6. h = w
  BY <1>4, <1>5, SeqEqual
<1>7. o = g
  BY <1>1, Zenon DEF IsJoined
<1> QED BY <1>1, <1>2, <1>4, <1>6, <1>7, Zenon

LEMMA FedReads ==
    ASSUME WireIInv
    PROVE  /\ r.state \in 0 .. 3 /\ r.payload_size \in 0 .. max_payload_
           /\ r.state = 3 => Len(r.bytes) < r.payload_size
           /\ ReassemblerParses
<1>1. PICK before \in Seq(Seq(Bytes)) : Fed(r, rx, before) /\ (cuts = 0 => before = << >>)
  BY DEF WireIInv, FedSoFar
<1>2. Parsed(r, rx, before, FALSE, max_payload_) /\ max_payload_ \in Nat /\ FALSE \in BOOLEAN /\ rx \in Seq(Bytes)
  BY <1>1, WireAssumption DEF Fed, WireIInv, WireTyped
<1>3. before \o Reference(rx, FALSE, max_payload_) = r.out
  BY <1>2, ParsedIsReference
<1>4. Reference(rx, FALSE, max_payload_) \in Seq(Seq(Bytes))
  <2>1. 1 \in 1 .. Len(rx) + 1
    BY <1>2
  <2> QED BY <1>2, <2>1, FromTyped DEF Reference
<1>5. PICK M : M = Seq(Bytes)
  OBVIOUS
<1>6. PICK e \in Seq(M), w \in Seq(M) : e = before /\ w = Reference(rx, FALSE, max_payload_)
  BY <1>4, <1>5
<1>7. r.out = e \o w
  BY <1>3, <1>6
<1>8. PICK a \in Nat, k \in Nat : a = Len(e) /\ k = Len(w)
  OBVIOUS
<1>9. PICK o : o = r.out
  OBVIOUS
<1>10. Len(o) = a + k /\ SubSeq(o, a + 1, a + k) = w
  <2>1. IsJoined(o, e, w)
    BY <1>7, <1>9, Zenon DEF IsJoined
  <2> QED BY <1>8, <2>1, LastPart, SMTT(30)
<1>11. w = SubSeq(r.out, a + 1, Len(r.out)) /\ Len(r.out) - Len(w) = a
  <2>1. Len(o) - Len(w) = a
    BY <1>8, <1>10
  <2>2. w = SubSeq(o, a + 1, Len(o))
    BY <1>10, Zenon
  <2> QED BY <1>9, <2>1, <2>2, Zenon
<1>12. cuts = 0 => a = 0
  BY <1>1, <1>6, <1>8
<1>13. ReassemblerParses
  <2>1. a >= 0
    OBVIOUS
  <2> QED BY <1>6, <1>11, <1>12, <2>1, Zenon DEF ReassemblerParses
<1>14. /\ r.state \in 0 .. 3 /\ r.payload_size \in 0 .. max_payload_
       /\ r.state = 3 => Len(r.bytes) < r.payload_size
  BY <1>2, ParsedSize
<1> QED BY <1>13, <1>14

\* Both parsers read every stream of bytes as the reference does: receive_thread of
\* tcp_interface.cpp and TcpReassembler, for every byte size, marker, limit and any cutting up.
THEOREM WireParsesAsReference == WireSpec => []ParsesAsReference
<1>1. WireIInv /\ SentSoFar => ParsesAsReference
  BY ReadParses, FedReads DEF ParsesAsReference, WireTypeOK
<1> QED BY <1>1, WireInductive, PTL

-----------------------------------------------------------------------------
(* What an orderly connection delivers                                     *)

\* The bytes z of a connection, those still to be written among them, hold the messages
\* from k to n, up to place g; no marker begins after it.
Written(z, k, n, g, little) ==
    /\ k \in 1 .. n + 1 /\ g \in 1 .. Len(z) + 1
    /\ \A u \in Seq(Bytes) : Extends(u, z) =>
           Reference(u, little, Base * Base) = SubSeq(Payloads, k, n) \o FramesFrom(u, little, Base * Base)[g]
    /\ \A m \in g .. Len(z) - 1 : ~HeaderAt(z, m)

\* Some s ends in a frame of d.
FrameAfter(v, z, d, little) ==
    /\ v \in Seq(Bytes) /\ Len(v) = Len(z) + 4 + Len(d)
    /\ \A j \in 1 .. Len(z) : v[j] = z[j]
    /\ v[Len(z) + 1] = AB /\ v[Len(z) + 2] = CD /\ SizeAt(v, Len(z) + 1, little) = Len(d)
    /\ \A k \in 1 .. Len(d) : v[Len(z) + 4 + k] = d[k]

LEMMA FrameIs ==
    ASSUME NEW z \in Seq(Bytes), NEW little \in BOOLEAN, NEW d \in Seq(Bytes), Len(d) \in Bytes
    PROVE  FrameAfter(z \o WireFrame(little, d), z, d, little)
<1>1. PICK n \in Nat, l \in Nat : n = Len(z) /\ l = Len(d)
  OBVIOUS
<1>2. AB \in Bytes /\ CD \in Bytes /\ l \in Bytes /\ 0 \in Bytes /\ Base * 0 = 0 /\ Base \in Nat
  BY <1>1, WireAssumption DEF Bytes
<1>3. PICK x \in Bytes, y \in Bytes : (little => x = l /\ y = 0) /\ (~little => x = 0 /\ y = l)
  BY <1>2
<1>4. PICK h \in Seq(Bytes) :
        h = <<AB, CD>> \o <<x, y>> /\ Len(h) = 4 /\ h[1] = AB /\ h[2] = CD /\ h[3] = x /\ h[4] = y
  <2>1. PICK a \in Seq(Bytes), c \in Seq(Bytes) :
          /\ a = <<AB, CD>> /\ Len(a) = 2 /\ a[1] = AB /\ a[2] = CD
          /\ c = <<x, y>> /\ Len(c) = 2 /\ c[1] = x /\ c[2] = y
    <3>1. \A b, g \in Bytes : <<b, g>> \in Seq(Bytes) /\ Len(<<b, g>>) = 2 /\ <<b, g>>[1] = b /\ <<b, g>>[2] = g
      OBVIOUS
    <3>2. <<AB, CD>> \in Seq(Bytes) /\ Len(<<AB, CD>>) = 2 /\ <<AB, CD>>[1] = AB /\ <<AB, CD>>[2] = CD
      BY <1>2, <3>1
    <3>3. <<x, y>> \in Seq(Bytes) /\ Len(<<x, y>>) = 2 /\ <<x, y>>[1] = x /\ <<x, y>>[2] = y
      BY <3>1
    <3> QED BY <3>2, <3>3, Zenon
  <2>2. /\ a \o c \in Seq(Bytes) /\ Len(a \o c) = 4
        /\ (a \o c)[1] = a[1] /\ (a \o c)[2] = a[2] /\ (a \o c)[3] = c[1] /\ (a \o c)[4] = c[2]
    BY <2>1
  <2> QED BY <2>1, <2>2, Zenon
<1>5. WireFrame(little, d) = h \o d
  <2>1. CASE little
    BY <1>1, <1>3, <1>4, <2>1, Zenon DEF WireFrame
  <2>2. CASE ~little
    BY <1>1, <1>3, <1>4, <2>2, Zenon DEF WireFrame
  <2> QED BY <2>1, <2>2
<1>6. PICK w \in Seq(Bytes) : /\ w = h \o d /\ Len(w) = 4 + l
                              /\ \A k \in 1 .. 4 + l : w[k] = IF k <= 4 THEN h[k] ELSE d[k - 4]
  <2>1. /\ h \o d \in Seq(Bytes) /\ Len(h \o d) = 4 + l
        /\ \A k \in 1 .. 4 + l : (h \o d)[k] = IF k <= 4 THEN h[k] ELSE d[k - 4]
    BY <1>1, <1>4, ConcatProperties
  <2> QED BY <2>1, Zenon
<1>7. PICK v \in Seq(Bytes) : /\ v = z \o w /\ Len(v) = n + (4 + l)
                              /\ \A k \in 1 .. n + (4 + l) : v[k] = IF k <= n THEN z[k] ELSE w[k - n]
  <2>1. /\ z \o w \in Seq(Bytes) /\ Len(z \o w) = n + (4 + l)
        /\ \A k \in 1 .. n + (4 + l) : (z \o w)[k] = IF k <= n THEN z[k] ELSE w[k - n]
    BY <1>1, <1>6, ConcatProperties
  <2> QED BY <2>1, Zenon
<1>8. ASSUME NEW k \in 1 .. 4 + l PROVE v[n + k] = IF k <= 4 THEN h[k] ELSE d[k - 4]
  <2>1. n + k \in 1 .. n + (4 + l) /\ ~(n + k <= n) /\ n + k - n = k
    OBVIOUS
  <2>2. v[n + k] = w[k]
    <3>1. \A j \in 1 .. n + (4 + l) : ~(j <= n) => v[j] = w[j - n]
      BY <1>7, Zenon
    <3> QED BY <2>1, <3>1, SMTT(30)
  <2>3. w[k] = IF k <= 4 THEN h[k] ELSE d[k - 4]
    BY <1>6, Zenon
  <2> QED BY <2>2, <2>3, Zenon
<1>9. 1 \in 1 .. 4 + l /\ 2 \in 1 .. 4 + l /\ 3 \in 1 .. 4 + l /\ 4 \in 1 .. 4 + l
  OBVIOUS
<1>10. v[n + 1] = AB /\ v[n + 2] = CD /\ v[n + 3] = x /\ v[n + 4] = y
  BY <1>4, <1>8, <1>9
<1>11. SizeAt(v, n + 1, little) = l
  <2>1. n + 1 + 2 = n + 3 /\ n + 1 + 3 = n + 4
    OBVIOUS
  <2>2. SizeAt(v, n + 1, little) = IF little THEN x + Base * y ELSE Base * x + y
    BY <1>10, <2>1, Zenon DEF SizeAt
  <2> QED BY <1>2, <1>3, <2>2
<1>12. ASSUME NEW k \in 1 .. l PROVE v[n + 4 + k] = d[k]
  <2>1. 4 + k \in 1 .. 4 + l /\ ~(4 + k <= 4) /\ 4 + k - 4 = k /\ n + (4 + k) = n + 4 + k
    OBVIOUS
  <2>2. PICK m \in 1 .. 4 + l : m = 4 + k
    BY <2>1
  <2>3. v[n + m] = IF m <= 4 THEN h[m] ELSE d[m - 4]
    BY <1>8, Zenon
  <2>4. v[n + m] = d[k]
    BY <2>1, <2>2, <2>3
  <2> QED BY <2>1, <2>2, <2>4, Zenon
<1>13. \A j \in 1 .. n : v[j] = z[j]
  <2>1. \A j \in 1 .. n : j \in 1 .. n + (4 + l) /\ j <= n
    OBVIOUS
  <2> QED BY <1>7, <2>1
<1>14. Len(v) = n + 4 + l
  BY <1>7
<1>15. FrameAfter(v, z, d, little)
  BY <1>1, <1>10, <1>11, <1>12, <1>13, <1>14 DEF FrameAfter
<1> QED BY <1>5, <1>6, <1>7, <1>15, Zenon

LEMMA SubSeqNext ==
    ASSUME NEW M, NEW h \in Seq(M), NEW n \in Nat, n + 1 <= Len(h), NEW k \in 1 .. n + 1
    PROVE  /\ SubSeq(h, k, n) \in Seq(M) /\ h[n + 1] \in M
           /\ SubSeq(h, k, n + 1) = Append(SubSeq(h, k, n), h[n + 1])
<1>1. PICK a \in Nat \ {0}, l \in Nat : a = k /\ l = n + 1 /\ l <= Len(h) /\ a <= l + 1 /\ n <= Len(h) /\ a <= n + 1
  OBVIOUS
<1>2. PICK e \in Seq(M) : e = SubSeq(h, a, n) /\ Len(e) = n + 1 - a /\ \A i \in 1 .. n + 1 - a : e[i] = h[a + i - 1]
  <2>1. /\ SubSeq(h, a, n) \in Seq(M) /\ Len(SubSeq(h, a, n)) = n + 1 - a
        /\ \A i \in 1 .. n + 1 - a : SubSeq(h, a, n)[i] = h[a + i - 1]
    BY <1>1, SubSeqAt
  <2> QED BY <2>1, Zenon
<1>3. PICK f \in Seq(M) : f = SubSeq(h, a, l) /\ Len(f) = l + 1 - a /\ \A i \in 1 .. l + 1 - a : f[i] = h[a + i - 1]
  <2>1. /\ SubSeq(h, a, l) \in Seq(M) /\ Len(SubSeq(h, a, l)) = l + 1 - a
        /\ \A i \in 1 .. l + 1 - a : SubSeq(h, a, l)[i] = h[a + i - 1]
    BY <1>1, SubSeqAt
  <2> QED BY <2>1, Zenon
<1>4. PICK b \in M : b = h[n + 1]
  <2>1. n + 1 \in 1 .. Len(h)
    OBVIOUS
  <2> QED BY <2>1
<1>5. PICK c \in Nat : c = n + 1 - a /\ l + 1 - a = c + 1 /\ a + (c + 1) - 1 = n + 1
  BY <1>1
<1>6. PICK g \in Seq(M) : g = Append(e, b) /\ Len(g) = c + 1 /\ g[c + 1] = b /\ \A i \in 1 .. c : g[i] = e[i]
  <2>1. /\ Append(e, b) \in Seq(M) /\ Len(Append(e, b)) = c + 1 /\ Append(e, b)[c + 1] = b
        /\ \A i \in 1 .. c : Append(e, b)[i] = e[i]
    BY <1>2, <1>5
  <2> QED BY <2>1, Zenon
<1>7. ASSUME NEW i \in 1 .. c + 1 PROVE f[i] = g[i]
  <2>1. CASE i = c + 1
    BY <1>3, <1>4, <1>5, <1>6, <2>1
  <2>2. CASE i # c + 1
    <3>1. i \in 1 .. c
      BY <2>2
    <3> QED BY <1>2, <1>3, <1>5, <1>6, <3>1
  <2> QED BY <2>1, <2>2
<1>8. f = g
  BY <1>3, <1>5, <1>6, <1>7, SeqEqual
<1> QED BY <1>1, <1>2, <1>3, <1>4, <1>6, <1>8, Zenon

\* Another frame is written.
LEMMA WrittenNext ==
    ASSUME NEW z \in Seq(Bytes), NEW k, NEW n \in Nat, NEW g, NEW little \in BOOLEAN, Written(z, k, n, g, little),
           n + 1 <= Len(Payloads), NEW v, FrameAfter(v, z, Payloads[n + 1], little)
    PROVE  Written(v, k, n + 1, Len(v) + 1, little)
<1>0. PICK limit \in Nat : limit = Base * Base
  BY WireAssumption
<1>1. PICK d \in Seq(Bytes) : d = Payloads[n + 1]
  <2>1. n + 1 \in 1 .. Len(Payloads)
    BY WireAssumption
  <2> QED BY <2>1, WireAssumption
<1>2. PICK c \in Nat, l \in Nat : c = Len(z) /\ l = Len(d)
  OBVIOUS
<1>3. /\ v \in Seq(Bytes) /\ Len(v) = c + 4 + l /\ (\A j \in 1 .. c : v[j] = z[j])
      /\ v[c + 1] = AB /\ v[c + 2] = CD /\ SizeAt(v, c + 1, little) = l
      /\ \A j \in 1 .. l : v[c + 4 + j] = d[j]
  BY <1>1, <1>2 DEF FrameAfter
<1>4. /\ k \in 1 .. n + 1 /\ g \in 1 .. c + 1
      /\ \A m \in g .. c - 1 : ~HeaderAt(z, m)
  BY <1>2 DEF Written
<1>5. k \in 1 .. n + 1 + 1 /\ Len(v) + 1 \in 1 .. Len(v) + 1 /\ \A m \in Len(v) + 1 .. Len(v) - 1 : ~HeaderAt(v, m)
  BY <1>3, <1>4
<1>6. ASSUME NEW u \in Seq(Bytes), Extends(u, v)
      PROVE  Reference(u, little, limit) = SubSeq(Payloads, k, n + 1) \o FramesFrom(u, little, limit)[Len(v) + 1]
  <2>1. PICK a \in Nat : a = Len(u)
    OBVIOUS
  <2>2. c + 4 + l <= a /\ \A j \in 1 .. c + 4 + l : u[j] = v[j]
    BY <1>3, <1>6, <2>1 DEF Extends
  <2>3. \A j \in 1 .. c : u[j] = z[j]
    <3>1. \A j \in 1 .. c : j \in 1 .. c + 4 + l
      OBVIOUS
    <3> QED BY <1>3, <2>2, <3>1
  <2>4. Reference(u, little, limit) = SubSeq(Payloads, k, n) \o FramesFrom(u, little, limit)[g]
    <3>1. Extends(u, z)
      BY <1>2, <2>1, <2>2, <2>3 DEF Extends
    <3> QED BY <1>0, <3>1, Zenon DEF Written
  <2>5. u[c + 1] = AB /\ u[c + 2] = CD
    <3>1. c + 1 \in 1 .. c + 4 + l /\ c + 2 \in 1 .. c + 4 + l
      OBVIOUS
    <3> QED BY <1>3, <2>2, <3>1
  <2>6. c + 1 \in 1 .. Len(u) + 1 /\ g \in 1 .. Len(u) + 1 /\ c + 1 \in 1 .. Len(u) - 3
    BY <1>4, <2>1, <2>2, SMTT(30)
  <2>7. Marks(u, g) = Marks(u, c + 1)
    <3>1. ASSUME NEW m \in Marks(u, g) PROVE m \in Marks(u, c + 1)
      <4>1. m \in g .. a - 3 /\ u[m] = AB /\ u[m + 1] = CD
        BY <2>1 DEF Marks
      <4>2. m # c
        BY <2>5, <4>1, WireAssumption
      <4>3. ~(m < c)
        <5>1. SUFFICES ASSUME m < c PROVE FALSE
          OBVIOUS
        <5>2. m \in g .. c - 1 /\ m \in 1 .. c /\ m + 1 \in 1 .. c
          BY <1>4, <4>1, <5>1
        <5>3. z[m] = AB /\ z[m + 1] = CD
          BY <2>3, <4>1, <5>2
        <5> QED BY <1>4, <5>2, <5>3 DEF HeaderAt
      <4>4. m \in c + 1 .. a - 3
        BY <1>4, <4>1, <4>2, <4>3
      <4> QED BY <2>1, <4>1, <4>4 DEF Marks
    <3>2. ASSUME NEW m \in Marks(u, c + 1) PROVE m \in Marks(u, g)
      <4>1. m \in c + 1 .. a - 3 /\ u[m] = AB /\ u[m + 1] = CD
        BY <2>1 DEF Marks
      <4>2. m \in g .. a - 3
        BY <1>4, <4>1
      <4> QED BY <2>1, <4>1, <4>2 DEF Marks
    <3> QED BY <3>1, <3>2
  <2>8. FramesFrom(u, little, limit)[g] = FramesFrom(u, little, limit)[c + 1]
    BY <2>6, <2>7, SameMarks
  <2>9. SizeAt(u, c + 1, little) = l
    <3>1. c + 1 \in 1 .. Len(v) - 3
      BY <1>3
    <3> QED BY <1>3, <1>6, <3>1, HeaderSame
  <2>10. SubSeq(u, c + 1 + 4, c + 1 + 3 + l) = d
    <3>1. PICK e \in Nat \ {0}, f \in Nat : e = c + 1 + 4 /\ f = c + 1 + 3 + l /\ f <= a /\ e <= f + 1 /\ f + 1 - e = l
      BY <2>2
    <3>2. f <= Len(u)
      BY <2>1, <3>1
    <3>3. PICK h \in Seq(Bytes) : h = SubSeq(u, e, f) /\ Len(h) = l /\ \A j \in 1 .. l : h[j] = u[e + j - 1]
      <4>1. /\ SubSeq(u, e, f) \in Seq(Bytes) /\ Len(SubSeq(u, e, f)) = l
            /\ \A j \in 1 .. l : SubSeq(u, e, f)[j] = u[e + j - 1]
        BY <3>1, <3>2, SubSeqAt
      <4> QED BY <4>1, Zenon
    <3>4. ASSUME NEW j \in 1 .. l PROVE h[j] = d[j]
      <4>1. e + j - 1 = c + 4 + j /\ c + 4 + j \in 1 .. c + 4 + l
        BY <3>1
      <4>2. h[j] = u[c + 4 + j]
        BY <3>3, <4>1
      <4> QED BY <1>3, <2>2, <4>1, <4>2
    <3>5. h = d
      BY <1>2, <3>3, <3>4, SeqEqual
    <3> QED BY <3>1, <3>3, <3>5, Zenon
  <2>11. FramesFrom(u, little, limit)[c + 1] =
           First(SubSeq(u, c + 1 + 4, c + 1 + 3 + l), FramesFrom(u, little, limit)[c + 1 + 4 + l])
    <3>1. ~(l > limit)
      <4>1. c + 1 \in 1 .. Len(u) - 3
        BY <2>6
      <4>2. SizeAt(u, c + 1, little) < Base * Base
        BY <4>1, SizeFacts
      <4> QED BY <1>0, <2>9, <4>2
    <3>2. ~(c + 1 + 3 + l > Len(u))
      BY <2>1, <2>2
    <3>3. PICK m \in 1 .. Len(u) - 3 : m = c + 1
      BY <2>6
    <3>4. u[m] = AB /\ u[m + 1] = CD /\ l = SizeAt(u, m, little)
      BY <2>5, <2>9, <3>3
    <3>5. ~(m + 3 + l > Len(u))
      BY <3>2, <3>3
    <3>6. FramesFrom(u, little, limit)[m] = First(SubSeq(u, m + 4, m + 3 + l), FramesFrom(u, little, limit)[m + 4 + l])
      BY <3>1, <3>4, <3>5, AtFrame, SMTT(60)
    <3> QED BY <3>3, <3>6, Zenon
  <2>12. c + 1 + 4 + l = Len(v) + 1 /\ Len(v) + 1 \in 1 .. Len(u) + 1
    <3>1. PICK b \in Nat : b = Len(v) /\ b = c + 4 + l
      BY <1>3
    <3>2. c + 1 + 4 + l = b + 1 /\ b + 1 \in 1 .. a + 1
      BY <2>2, <3>1
    <3> QED BY <2>1, <3>1, <3>2
  <2>13. PICK w \in Seq(Seq(Bytes)) : w = FramesFrom(u, little, limit)[Len(v) + 1]
    BY <2>12, FromTyped
  <2>14. FramesFrom(u, little, limit)[g] = First(d, w)
    BY <2>8, <2>10, <2>11, <2>12, <2>13, Zenon
  <2>15. PICK M : M = Seq(Bytes)
    OBVIOUS
  <2>16. Payloads \in Seq(M) /\ d \in M /\ w \in Seq(M)
    BY <2>15, WireAssumption, Zenon
  <2>17. SubSeq(Payloads, k, n) \in Seq(M) /\ SubSeq(Payloads, k, n + 1) = Append(SubSeq(Payloads, k, n), d)
    BY <1>1, <1>4, <2>16, SubSeqNext, Zenon
  <2>18. PICK o \in Seq(M) : o = SubSeq(Payloads, k, n)
    BY <2>17, Zenon
  <2>19. o \o First(d, w) = Append(o, d) \o w
    BY <2>16, AppendThen, Zenon
  <2> QED BY <2>4, <2>13, <2>14, <2>17, <2>18, <2>19, Zenon
<1> QED BY <1>0, <1>5, <1>6 DEF Written

\* Nothing is written yet, or again: what is left of an earlier frame holds no marker.
LEMMA WrittenNone ==
    ASSUME NEW z \in Seq(Bytes), NEW n \in Nat, n <= Len(Payloads), NEW little \in BOOLEAN, ~HasMarker(z)
    PROVE  Written(z, n + 1, n, 1, little)
<1>0. PICK limit \in Nat : limit = Base * Base
  BY WireAssumption
<1>1. n + 1 \in 1 .. n + 1 /\ 1 \in 1 .. Len(z) + 1
  OBVIOUS
<1>2. \A m \in 1 .. Len(z) - 1 : ~HeaderAt(z, m)
  BY DEF HasMarker, HeaderAt
<1>3. SubSeq(Payloads, n + 1, n) = << >>
  BY WireAssumption
<1>4. ASSUME NEW u \in Seq(Bytes)
      PROVE  Reference(u, little, limit) = SubSeq(Payloads, n + 1, n) \o FramesFrom(u, little, limit)[1]
  <2>1. 1 \in 1 .. Len(u) + 1
    OBVIOUS
  <2>2. PICK w \in Seq(Seq(Bytes)) : w = FramesFrom(u, little, limit)[1]
    BY <2>1, FromTyped
  <2>3. << >> \o w = w
    OBVIOUS
  <2> QED BY <1>3, <2>2, <2>3, Zenon DEF Reference
<1> QED BY <1>0, <1>1, <1>2, <1>4 DEF Written

\* Messages up to the m-th, in their order.
OnceInOrder(got, m) ==
    /\ got \in Seq(Seq(Bytes))
    /\ \A i \in 1 .. Len(got) : \E n \in 1 .. m : got[i] = Payloads[n]
    /\ \A i, j \in 1 .. Len(got), n, k \in 1 .. Len(Payloads) :
           i < j /\ got[i] = Payloads[n] /\ got[j] = Payloads[k] => n < k

LEMMA PayloadsDiffer ==
    ASSUME NEW n \in 1 .. Len(Payloads), NEW k \in 1 .. Len(Payloads), Payloads[n] = Payloads[k] PROVE n = k
<1>1. DOMAIN Payloads = 1 .. Len(Payloads)
  BY WireAssumption
<1> QED BY <1>1, WireAssumption, Zenon

LEMMA OnceInOrderNone ==
    ASSUME NEW m PROVE OnceInOrder(<< >>, m)
<1>1. << >> \in Seq(Seq(Bytes)) /\ 1 .. Len(<< >>) = {}
  OBVIOUS
<1> QED BY <1>1, Zenon DEF OnceInOrder

LEMMA OnceInOrderMore ==
    ASSUME NEW a, NEW m \in Nat, OnceInOrder(a, m), NEW b \in Seq(Seq(Bytes)), NEW n \in Nat,
           m + Len(b) <= n, n <= Len(Payloads), \A i \in 1 .. Len(b) : b[i] = Payloads[m + i]
    PROVE  OnceInOrder(a \o b, n)
<1>0. PICK M : M = Seq(Bytes)
  OBVIOUS
<1>1. a \in Seq(M) /\ b \in Seq(M)
  BY <1>0, Zenon DEF OnceInOrder
<1>2. PICK x \in Nat, y \in Nat, l \in Nat : x = Len(a) /\ y = Len(b) /\ l = Len(Payloads)
  BY <1>1, WireAssumption
<1>3. PICK c \in Seq(M) : /\ c = a \o b /\ Len(c) = x + y
                          /\ \A i \in 1 .. x + y : c[i] = IF i <= x THEN a[i] ELSE b[i - x]
  <2>1. /\ a \o b \in Seq(M) /\ Len(a \o b) = x + y
        /\ \A i \in 1 .. x + y : (a \o b)[i] = IF i <= x THEN a[i] ELSE b[i - x]
    BY <1>1, <1>2, ConcatProperties
  <2> QED BY <2>1, Zenon
<1>4. \A i \in 1 .. x + y : (i <= x => c[i] = a[i]) /\ (~(i <= x) => c[i] = b[i - x])
  BY <1>3, Zenon
<1>5. /\ \A i \in 1 .. x : \E k \in 1 .. m : a[i] = Payloads[k]
      /\ \A i, j \in 1 .. x, k, h \in 1 .. l : i < j /\ a[i] = Payloads[k] /\ a[j] = Payloads[h] => k < h
  BY <1>2, Zenon DEF OnceInOrder
<1>6. m + y <= n /\ n <= l /\ \A i \in 1 .. y : b[i] = Payloads[m + i]
  BY <1>2
<1>7. ASSUME NEW i \in 1 .. x + y, ~(i <= x)
      PROVE  i - x \in 1 .. y /\ m + (i - x) \in 1 .. l /\ m + (i - x) \in 1 .. n /\ c[i] = Payloads[m + (i - x)]
  <2>1. i - x \in 1 .. y
    BY <1>7
  <2>2. m + (i - x) \in 1 .. l /\ m + (i - x) \in 1 .. n
    BY <1>6, <2>1
  <2> QED BY <1>4, <1>6, <1>7, <2>1, <2>2
<1>8. ASSUME NEW i \in 1 .. x + y PROVE \E k \in 1 .. n : c[i] = Payloads[k]
  <2>1. CASE i <= x
    <3>1. i \in 1 .. x
      BY <2>1
    <3>2. PICK k \in 1 .. m : a[i] = Payloads[k]
      BY <1>5, <3>1
    <3>3. k \in 1 .. n
      BY <1>6
    <3> QED BY <1>4, <2>1, <3>2, <3>3
  <2>2. CASE ~(i <= x)
    BY <1>7, <2>2
  <2> QED BY <2>1, <2>2
<1>9. ASSUME NEW i \in 1 .. x + y, NEW j \in 1 .. x + y, NEW k \in 1 .. l, NEW h \in 1 .. l,
             i < j, c[i] = Payloads[k], c[j] = Payloads[h]
      PROVE  k < h
  <2>1. CASE j <= x
    <3>1. i \in 1 .. x /\ j \in 1 .. x /\ i <= x
      BY <1>9, <2>1
    <3>2. a[i] = Payloads[k] /\ a[j] = Payloads[h]
      BY <1>4, <1>9, <2>1, <3>1
    <3> QED BY <1>5, <1>9, <3>1, <3>2
  <2>2. CASE ~(j <= x)
    <3>1. m + (j - x) \in 1 .. l /\ c[j] = Payloads[m + (j - x)]
      BY <1>7, <2>2
    <3>2. h = m + (j - x)
      BY <1>2, <1>9, <3>1, PayloadsDiffer
    <3>3. CASE i <= x
      <4>1. i \in 1 .. x
        BY <3>3
      <4>2. PICK q \in 1 .. m : a[i] = Payloads[q]
        BY <1>5, <4>1
      <4>3. q \in 1 .. l /\ Payloads[q] = Payloads[k]
        BY <1>4, <1>6, <1>9, <3>3, <4>2
      <4>4. q = k
        BY <1>2, <4>3, PayloadsDiffer
      <4> QED BY <2>2, <3>2, <4>4
    <3>4. CASE ~(i <= x)
      <4>1. m + (i - x) \in 1 .. l /\ c[i] = Payloads[m + (i - x)]
        BY <1>7, <3>4
      <4>2. k = m + (i - x)
        BY <1>2, <1>9, <4>1, PayloadsDiffer
      <4> QED BY <1>9, <3>2, <4>2
    <3> QED BY <3>3, <3>4
  <2> QED BY <2>1, <2>2
<1>10. OnceInOrder(c, n)
  BY <1>0, <1>2, <1>3, <1>8, <1>9, ZenonT(60) DEF OnceInOrder
<1> QED BY <1>3, <1>10, Zenon

\* What the bytes of this connection hold, and what earlier ones delivered.
Delivers(t, k, g) ==
    /\ Written(rx \o todo[t], k, Len(sent), g, link.hostLittle) /\ OnceInOrder(earlier, k - 1)
    /\ cuts = 0 => k = 1 /\ earlier = << >>

OrderlyInv ==
    \A t : clean /\ link.peerLittle = link.hostLittle /\ link.writers = {t} => \E k, g \in Nat : Delivers(t, k, g)

LEMMA SubSeqPayloads ==
    ASSUME NEW n \in Nat, n <= Len(Payloads), NEW k \in 1 .. n + 1
    PROVE  /\ SubSeq(Payloads, k, n) \in Seq(Seq(Bytes)) /\ Len(SubSeq(Payloads, k, n)) = n + 1 - k
           /\ \A i \in 1 .. n + 1 - k : SubSeq(Payloads, k, n)[i] = Payloads[k + i - 1]
<1>1. PICK M : M = Seq(Bytes)
  OBVIOUS
<1>2. Payloads \in Seq(M)
  BY <1>1, WireAssumption, Zenon
<1>3. k \in Nat \ {0} /\ k <= n + 1
  OBVIOUS
<1>4. /\ SubSeq(Payloads, k, n) \in Seq(M) /\ Len(SubSeq(Payloads, k, n)) = n + 1 - k
      /\ \A i \in 1 .. n + 1 - k : SubSeq(Payloads, k, n)[i] = Payloads[k + i - 1]
  BY <1>2, <1>3, SubSeqAt, SMTT(60)
<1> QED BY <1>1, <1>4, Zenon

\* After place g there is no frame yet.
LEMMA NoneAfter ==
    ASSUME NEW z \in Seq(Bytes), NEW little \in BOOLEAN, NEW limit \in Nat, NEW g \in 1 .. Len(z) + 1,
           \A m \in g .. Len(z) - 1 : ~HeaderAt(z, m)
    PROVE  FramesFrom(z, little, limit)[g] = << >>
<1>1. Marks(z, g) = {}
  <2>1. ASSUME NEW m \in Marks(z, g) PROVE FALSE
    <3>1. m \in g .. Len(z) - 1 /\ z[m] = AB /\ z[m + 1] = CD
      BY DEF Marks
    <3> QED BY <3>1 DEF HeaderAt
  <2> QED BY <2>1
<1>2. FramesFrom(z, little, limit)[g] = FromStep(FramesFrom(z, little, limit), z, g, little, limit)
  BY FromAt
<1> QED BY <1>1, <1>2, Zenon DEF FromStep

LEMMA ExtendsJoined ==
    ASSUME NEW s \in Seq(Bytes), NEW c \in Seq(Bytes)
    PROVE  Extends(s \o c, s) /\ s \o c \in Seq(Bytes)
BY DEF Extends

\* What the packet thread found are the messages from the k-th on.
LEMMA PacketFound ==
    ASSUME WireIInv, SentSoFar, NEW t \in link.writers, NEW k \in Nat, NEW g \in Nat,
           Written(rx \o todo[t], k, Len(sent), g, link.hostLittle)
    PROVE  /\ p.out \in Seq(Seq(Bytes)) /\ k \in 1 .. Len(sent) + 1 /\ k - 1 + Len(p.out) <= Len(sent)
           /\ \A i \in 1 .. Len(p.out) : p.out[i] = Payloads[k - 1 + i]
<1>0. PICK n \in Nat : n = Len(sent) /\ n <= Len(Payloads)
  BY DEF SentSoFar
<1>1. rx \in Seq(Bytes) /\ Q \in Seq(Bytes) /\ todo[t] \in Seq(Bytes) /\ link.hostLittle \in BOOLEAN
  BY LinkFacts DEF WireIInv, WireTyped
<1>2. PICK little \in BOOLEAN, limit \in Nat : little = link.hostLittle /\ limit = Base * Base
  BY <1>1, WireAssumption
<1>3. PICK w \in Seq(Bytes) : w = todo[t]
  BY <1>1
<1>4. PICK s \in Seq(Bytes) : rx = s \o Q /\ Got(p, s)
  BY DEF WireIInv, ReadSoFar
<1>5. PICK z \in Seq(Bytes) : z = rx \o w
  <2>1. rx \o w \in Seq(Bytes)
    BY <1>1, ExtendsJoined
  <2> QED BY <2>1, Zenon
<1>6. Extends(z, s)
  <2>1. PICK e \in Seq(Bytes) : e = Q \o w
    <3>1. Q \o w \in Seq(Bytes)
      BY <1>1, ExtendsJoined
    <3> QED BY <3>1, Zenon
  <2>2. Associates(s, Q, w)
    BY <1>1, Joined, Zenon
  <2>3. z = s \o e
    BY <1>4, <1>5, <2>1, <2>2, Zenon DEF Associates
  <2> QED BY <2>3, ExtendsJoined
<1>7. Parsed(p, s, << >>, little, limit) /\ p.out \in Seq(Seq(Bytes))
  BY <1>2, <1>4 DEF Got, Parsers
<1>8. PICK i \in 1 .. Len(s) + 1 : Continues(p, s, i, << >>, little, limit)
  BY <1>7 DEF Parsed
<1>9. << >> \o Reference(z, little, limit) = p.out \o FramesFrom(z, little, limit)[i]
  BY <1>6, <1>8, Zenon DEF Continues
<1>10. i \in 1 .. Len(z) + 1
  <2>1. Len(s) <= Len(z)
    BY <1>6 DEF Extends
  <2> QED BY <2>1
<1>11. Written(z, k, n, g, little)
  BY <1>0, <1>2, <1>3, <1>5, Zenon
<1>12. /\ k \in 1 .. n + 1 /\ g \in 1 .. Len(z) + 1
       /\ Reference(z, little, limit) = SubSeq(Payloads, k, n) \o FramesFrom(z, little, limit)[g]
       /\ \A m \in g .. Len(z) - 1 : ~HeaderAt(z, m)
  <2>1. Extends(z, z)
    BY DEF Extends
  <2> QED BY <1>2, <1>11, <2>1, Zenon DEF Written
<1>13. FramesFrom(z, little, limit)[g] = << >>
  BY <1>12, NoneAfter, Zenon
<1>14. PICK M : M = Seq(Bytes)
  OBVIOUS
<1>15. PICK o \in Seq(M), v \in Seq(M), a \in Seq(M) :
         o = p.out /\ v = FramesFrom(z, little, limit)[i] /\ a = SubSeq(Payloads, k, n)
  <2>1. FramesFrom(z, little, limit)[i] \in Seq(Seq(Bytes))
    BY <1>10, FromTyped
  <2>2. SubSeq(Payloads, k, n) \in Seq(Seq(Bytes))
    BY <1>0, <1>12, SubSeqPayloads
  <2> QED BY <1>7, <1>14, <2>1, <2>2, Zenon
<1>16. Reference(z, little, limit) = a
  <2>1. a \o << >> = a
    OBVIOUS
  <2> QED BY <1>12, <1>13, <1>15, <2>1, Zenon
<1>17. a = o \o v
  <2>1. << >> \o a = a
    OBVIOUS
  <2> QED BY <1>9, <1>15, <1>16, <2>1, Zenon
<1>18. PICK x \in Nat, y \in Nat : x = Len(o) /\ y = Len(v)
  OBVIOUS
<1>19. Len(a) = n + 1 - k /\ \A j \in 1 .. n + 1 - k : a[j] = Payloads[k + j - 1]
  BY <1>0, <1>12, <1>15, SubSeqPayloads
<1>20. Len(a) = x + y /\ \A j \in 1 .. x : a[j] = o[j]
  BY <1>17, <1>18
<1>21. k - 1 + x <= n
  BY <1>12, <1>19, <1>20
<1>22. \A j \in 1 .. x : o[j] = Payloads[k - 1 + j]
  <2>1. ASSUME NEW j \in 1 .. x PROVE o[j] = Payloads[k - 1 + j]
    <3>0. k \in 1 .. n + 1
      BY <1>12
    <3>1. j \in 1 .. n + 1 - k /\ k + j - 1 = k - 1 + j
      BY <1>21, <3>0
    <3> QED BY <1>19, <1>20, <3>1
  <2> QED BY <2>1
<1> QED BY <1>0, <1>7, <1>12, <1>15, <1>18, <1>21, <1>22

\* Everything delivered so far.
LEMMA AllInOrder ==
    ASSUME WireIInv, SentSoFar, NEW t \in link.writers, NEW k \in Nat, NEW g \in Nat, Delivers(t, k, g)
    PROVE  OnceInOrder(earlier \o p.out, Len(sent))
<1>0. PICK n \in Nat : n = Len(sent) /\ n <= Len(Payloads)
  BY DEF SentSoFar
<1>1. /\ p.out \in Seq(Seq(Bytes)) /\ k \in 1 .. n + 1 /\ k - 1 + Len(p.out) <= n
      /\ \A i \in 1 .. Len(p.out) : p.out[i] = Payloads[k - 1 + i]
  BY <1>0, PacketFound DEF Delivers
<1>2. PICK o \in Seq(Seq(Bytes)), m \in Nat : o = p.out /\ m = k - 1
  BY <1>1
<1>3. OnceInOrder(earlier, m) /\ m + Len(o) <= n /\ \A i \in 1 .. Len(o) : o[i] = Payloads[m + i]
  BY <1>1, <1>2 DEF Delivers
<1>4. OnceInOrder(earlier \o o, n)
  BY <1>0, <1>3, OnceInOrderMore
<1> QED BY <1>0, <1>2, <1>4

LEMMA OrderlyInit == WireInit => OrderlyInv
<1> SUFFICES ASSUME WireInit, NEW t, clean, link.writers = {t}
             PROVE  \E k, g \in Nat : Delivers(t, k, g)
  BY DEF OrderlyInv
<1>1. PICK junk \in Seq(Bytes) : junk = link.junk
  BY LinkFacts DEF WireInit
<1>2. ~HasMarker(junk)
  BY <1>1 DEF WireInit
<1>3. todo[t] = << >> /\ rx = junk /\ junk \o << >> = junk
  BY <1>1 DEF WireInit
<1>4. sent = << >> /\ Len(sent) = 0 /\ earlier = << >>
  BY DEF WireInit
<1>5. 0 \in Nat /\ 0 <= Len(Payloads) /\ link.hostLittle \in BOOLEAN
  BY WireAssumption, LinkFacts DEF WireInit
<1>6. Written(junk, 0 + 1, 0, 1, link.hostLittle)
  BY <1>2, <1>5, WrittenNone
<1>7. 0 + 1 = 1 /\ 1 - 1 = 0 /\ 1 \in Nat
  OBVIOUS
<1>8. rx \o todo[t] = junk
  BY <1>3, Zenon
<1>9. Written(rx \o todo[t], 1, Len(sent), 1, link.hostLittle)
  BY <1>4, <1>6, <1>7, <1>8, Zenon
<1>10. OnceInOrder(earlier, 1 - 1)
  BY <1>4, OnceInOrderNone, Zenon
<1>11. Delivers(t, 1, 1)
  BY <1>4, <1>9, <1>10 DEF Delivers
<1> QED BY <1>7, <1>11

\* The bytes of the connection, read or not, and those still to be written stay the same.
LEMMA SameDelivers ==
    ASSUME OrderlyInv, UNCHANGED <<link, sent, earlier, clean, cuts>>,
           \A t \in link.writers : (rx \o todo[t])' = rx \o todo[t]
    PROVE  OrderlyInv'
<1> SUFFICES ASSUME NEW t, clean', link'.peerLittle = link'.hostLittle, link'.writers = {t}
             PROVE  \E k, g \in Nat : Delivers(t, k, g)'
  BY DEF OrderlyInv
<1>1. link' = link /\ clean /\ link.peerLittle = link.hostLittle /\ link.writers = {t}
  BY Zenon
<1>2. PICK k, g \in Nat : Delivers(t, k, g)
  BY <1>1, Zenon DEF OrderlyInv
<1>3. (rx \o todo[t])' = rx \o todo[t]
  BY <1>1
<1>4. rx' \o todo'[t] = rx \o todo[t] /\ sent' = sent /\ earlier' = earlier /\ cuts' = cuts
  BY <1>3
<1>5. Delivers(t, k, g)'
  BY <1>1, <1>2, <1>4, Zenon DEF Delivers
<1> QED BY <1>5

LEMMA WriteBeginsOrderly ==
    ASSUME WireIInv, SentSoFar, OrderlyInv, NEW s \in link.writers, WriteBegins(s) PROVE OrderlyInv'
<1> SUFFICES ASSUME NEW t, clean', link'.peerLittle = link'.hostLittle, link'.writers = {t}
             PROVE  \E k, g \in Nat : Delivers(t, k, g)'
  BY DEF OrderlyInv
<1>0. UNCHANGED <<link, rx, earlier, clean, cuts>>
  BY DEF WriteBegins
<1>1. link' = link /\ clean /\ link.peerLittle = link.hostLittle /\ link.writers = {t} /\ s = t
  BY <1>0, Zenon
<1>2. PICK k, g \in Nat : Delivers(t, k, g)
  BY <1>1, Zenon DEF OrderlyInv
<1>3. PICK n \in Nat : n = Len(sent)
  BY DEF SentSoFar
<1>4. link \in Links /\ rx \in Seq(Bytes) /\ todo \in [link.writers -> Seq(Bytes)]
  BY DEF WireIInv, WireTyped
<1>5. PICK little \in BOOLEAN : little = link.hostLittle /\ little = link.peerLittle
  BY <1>1, <1>4, LinkFacts
<1>6. /\ todo[t] = << >> /\ n < link.frames /\ sent' = Append(sent, Payloads[n + 1])
      /\ todo' = [todo EXCEPT ![t] = WireFrame(little, Payloads[n + 1])]
  BY <1>1, <1>3, <1>5, Zenon DEF WriteBegins
<1>7. n + 1 \in 1 .. Len(Payloads) /\ n + 1 <= Len(Payloads)
  <2>1. link.frames \in 1 .. Len(Payloads) /\ Len(Payloads) \in Nat
    BY <1>4, LinkFacts, WireAssumption
  <2> QED BY <1>6, <2>1
<1>8. PICK d \in Seq(Bytes) : d = Payloads[n + 1] /\ Len(d) \in Bytes
  BY <1>7, WireFrameTyped, Zenon
<1>9. Len(sent') = n + 1
  <2>1. PICK M : M = Seq(Bytes)
    OBVIOUS
  <2>2. PICK e \in Seq(M) : e = sent
    BY <2>1 DEF SentSoFar
  <2>3. Len(Append(e, d)) = n + 1
    BY <1>3, <1>8, <2>1, <2>2
  <2> QED BY <1>6, <1>8, <2>2, <2>3, Zenon
<1>10. rx \o todo[t] = rx
  <2>1. rx \o << >> = rx
    BY <1>4
  <2> QED BY <1>6, <2>1, Zenon
<1>11. Written(rx, k, n, g, little)
  BY <1>2, <1>3, <1>5, <1>10, Zenon DEF Delivers
<1>12. PICK v : v = rx \o WireFrame(little, Payloads[n + 1])
  OBVIOUS
<1>13. FrameAfter(v, rx, Payloads[n + 1], little)
  BY <1>4, <1>8, <1>12, FrameIs, Zenon
<1>14. Written(v, k, n + 1, Len(v) + 1, little)
  BY <1>4, <1>7, <1>11, <1>13, WrittenNext
<1>15. Len(v) + 1 \in Nat
  <2>1. v \in Seq(Bytes)
    BY <1>13 DEF FrameAfter
  <2> QED BY <2>1
<1>16. todo'[t] = WireFrame(little, Payloads[n + 1])
  BY <1>1, <1>4, <1>6
<1>17. rx' \o todo'[t] = v
  BY <1>0, <1>12, <1>16, Zenon
<1>18. PICK h \in Nat : h = Len(v) + 1
  BY <1>15
<1>19. Written(rx' \o todo'[t], k, Len(sent'), h, link'.hostLittle)
  BY <1>1, <1>5, <1>9, <1>14, <1>17, <1>18, Zenon
<1>20. OnceInOrder(earlier', k - 1) /\ (cuts' = 0 => k = 1 /\ earlier' = << >>)
  BY <1>0, <1>2, Zenon DEF Delivers
<1>21. Delivers(t, k, h)'
  BY <1>19, <1>20, Zenon DEF Delivers
<1> QED BY <1>21

LEMMA WriteSomeOrderly ==
    ASSUME WireIInv, OrderlyInv, NEW s \in link.writers, WriteSome(s),
           \E t : link.writers = {t}
    PROVE  OrderlyInv'
<1>0. rx \in Seq(Bytes) /\ todo \in [link.writers -> Seq(Bytes)] /\ \A t \in link.writers : t = s
  BY DEF WireIInv, WireTyped
<1>1. UNCHANGED <<link, sent, earlier, clean, cuts>>
  BY DEF WriteSome
<1>2. PICK d \in Seq(Bytes) : d = todo[s]
  BY <1>0
<1>3. PICK k \in 1 .. Len(d) :
        todo' = [todo EXCEPT ![s] = SubSeq(d, k + 1, Len(d))] /\ rx' = rx \o SubSeq(d, 1, k)
  BY <1>2, Zenon DEF WriteSome
<1>4. PICK c \in Seq(Bytes), w \in Seq(Bytes) : c = SubSeq(d, 1, k) /\ w = SubSeq(d, k + 1, Len(d)) /\ c \o w = d
  <2>1. /\ SubSeq(d, 1, k) \in Seq(Bytes) /\ SubSeq(d, k + 1, Len(d)) \in Seq(Bytes)
        /\ SubSeq(d, 1, k) \o SubSeq(d, k + 1, Len(d)) = d
    BY ChunkOf
  <2> QED BY <2>1, Zenon
<1>5. rx' = rx \o c /\ todo' = [todo EXCEPT ![s] = w]
  BY <1>3, <1>4, Zenon
<1>6. Associates(rx, c, w)
  BY <1>0, Joined, Zenon
<1>7. todo'[s] = w
  BY <1>0, <1>5
<1>8. rx' \o todo'[s] = rx \o todo[s]
  BY <1>2, <1>4, <1>5, <1>6, <1>7, Zenon DEF Associates
<1>9. \A t \in link.writers : (rx \o todo[t])' = rx \o todo[t]
  BY <1>0, <1>8, Zenon
<1> QED BY <1>1, <1>9, SameDelivers

LEMMA ReconnectOrderly ==
    ASSUME WireIInv, SentSoFar, OrderlyInv, Reconnect PROVE OrderlyInv'
<1> SUFFICES ASSUME NEW t, clean', link'.peerLittle = link'.hostLittle, link'.writers = {t}
             PROVE  \E k, g \in Nat : Delivers(t, k, g)'
  BY DEF OrderlyInv
<1>0. /\ UNCHANGED <<link, sent>> /\ rx' = << >> /\ earlier' = earlier \o p.out /\ cuts' = cuts + 1
      /\ clean' = (clean /\ \A w \in DOMAIN todo : ~HasMarker(todo'[w]))
  BY DEF Reconnect
<1>1. link' = link /\ link.peerLittle = link.hostLittle /\ link.writers = {t} /\ t \in link.writers
  BY <1>0, Zenon
<1>2. WireTyped /\ todo \in [link.writers -> Seq(Bytes)] /\ cuts \in Nat /\ link \in Links
  BY DEF WireIInv, WireTyped
<1>3. DOMAIN todo = link.writers
  BY <1>2
<1>4. clean /\ ~HasMarker(todo'[t])
  BY <1>0, <1>1, <1>3, Zenon
<1>5. PICK k, g \in Nat : Delivers(t, k, g)
  BY <1>1, <1>4, Zenon DEF OrderlyInv
<1>6. OnceInOrder(earlier \o p.out, Len(sent))
  BY <1>1, <1>5, AllInOrder, Zenon
<1>7. PICK n \in Nat : n = Len(sent) /\ n <= Len(Payloads)
  BY DEF SentSoFar
<1>8. PICK z \in Seq(Bytes) : z = todo'[t]
  <2>1. todo' \in [link.writers -> Seq(Bytes)]
    BY <1>2, ReconnectTodo
  <2> QED BY <1>1, <2>1
<1>9. link.hostLittle \in BOOLEAN
  BY <1>2, LinkFacts
<1>10. Written(z, n + 1, n, 1, link.hostLittle)
  BY <1>4, <1>7, <1>8, <1>9, WrittenNone
<1>11. rx' \o todo'[t] = z
  <2>1. << >> \o z = z
    OBVIOUS
  <2> QED BY <1>0, <1>8, <2>1, Zenon
<1>12. PICK h \in Nat, i \in Nat : h = n + 1 /\ h - 1 = n /\ i = 1
  BY <1>7
<1>13. Written(rx' \o todo'[t], h, Len(sent'), i, link'.hostLittle)
  BY <1>0, <1>7, <1>10, <1>11, <1>12, Zenon
<1>14. OnceInOrder(earlier', h - 1)
  BY <1>0, <1>6, <1>7, <1>12, Zenon
<1>15. cuts' # 0
  BY <1>0, <1>2
<1>16. Delivers(t, h, i)'
  BY <1>13, <1>14, <1>15, Zenon DEF Delivers
<1> QED BY <1>16

LEMMA OrderlyNext ==
    ASSUME WireIInv, SentSoFar, OrderlyInv, [WireNext]_wireVars PROVE OrderlyInv'
<1>1. CASE UNCHANGED wireVars \/ PacketReads
  <2>1. UNCHANGED <<link, sent, earlier, clean, cuts, rx, todo>>
    BY <1>1 DEF wireVars, PacketReads
  <2>2. \A t \in link.writers : (rx \o todo[t])' = rx \o todo[t]
    BY <2>1, Zenon
  <2> QED BY <2>1, <2>2, SameDelivers
<1>2. ASSUME NEW t \in link.writers, WriteBegins(t) PROVE OrderlyInv'
  BY <1>2, WriteBeginsOrderly
<1>3. ASSUME NEW t \in link.writers, WriteSome(t) PROVE OrderlyInv'
  <2>1. CASE \E w : link.writers = {w}
    BY <1>3, <2>1, WriteSomeOrderly
  <2>2. CASE ~\E w : link.writers = {w}
    <3>1. link' = link
      BY <1>3 DEF WriteSome
    <3> QED BY <2>2, <3>1, Zenon DEF OrderlyInv
  <2> QED BY <2>1, <2>2
<1> QED BY <1>1, <1>2, <1>3, ReconnectOrderly DEF WireNext

LEMMA DeliveredIs ==
    ASSUME WireIInv, SentSoFar, OrderlyInv PROVE DeliversWhatWasSent
<1> SUFFICES ASSUME WireOrderly
             PROVE  /\ \A i \in DOMAIN (earlier \o p.out) : \E n \in DOMAIN sent : (earlier \o p.out)[i] = sent[n]
                    /\ \A i, j \in DOMAIN (earlier \o p.out), n, k \in DOMAIN sent :
                           i < j /\ (earlier \o p.out)[i] = sent[n] /\ (earlier \o p.out)[j] = sent[k] => n < k
                    /\ cuts = 0 => /\ Len(earlier \o p.out) <= Len(sent)
                                   /\ earlier \o p.out = SubSeq(sent, 1, Len(earlier \o p.out))
  BY Zenon DEF DeliversWhatWasSent
<1>1. PICK t \in DOMAIN todo : clean /\ link.peerLittle = link.hostLittle /\ link.writers = {t}
  BY Zenon DEF WireOrderly
<1>2. PICK k, g \in Nat : Delivers(t, k, g)
  BY <1>1, Zenon DEF OrderlyInv
<1>3. t \in link.writers
  BY <1>1
<1>4. PICK got : got = earlier \o p.out
  OBVIOUS
<1>5. OnceInOrder(got, Len(sent))
  BY <1>2, <1>3, <1>4, AllInOrder, Zenon
<1>6. PICK n \in Nat, l \in Nat : n = Len(sent) /\ l = Len(Payloads) /\ n <= l
  BY WireAssumption DEF SentSoFar
<1>7. DOMAIN sent = 1 .. n /\ \A i \in 1 .. n : sent[i] = Payloads[i]
  BY <1>6 DEF SentSoFar
<1>8. /\ got \in Seq(Seq(Bytes)) /\ DOMAIN got = 1 .. Len(got)
      /\ \A i \in 1 .. Len(got) : \E m \in 1 .. n : got[i] = Payloads[m]
      /\ \A i, j \in 1 .. Len(got), m, h \in 1 .. l : i < j /\ got[i] = Payloads[m] /\ got[j] = Payloads[h] => m < h
  BY <1>5, <1>6 DEF OnceInOrder
<1>9. \A i \in DOMAIN got : \E m \in DOMAIN sent : got[i] = sent[m]
  BY <1>7, <1>8
<1>10. ASSUME NEW i \in DOMAIN got, NEW j \in DOMAIN got, NEW m \in DOMAIN sent, NEW h \in DOMAIN sent,
              i < j, got[i] = sent[m], got[j] = sent[h]
       PROVE  m < h
  <2>1. m \in 1 .. l /\ h \in 1 .. l /\ got[i] = Payloads[m] /\ got[j] = Payloads[h]
    BY <1>6, <1>7, <1>10
  <2> QED BY <1>8, <1>10, <2>1
<1>11. ASSUME cuts = 0 PROVE Len(got) <= Len(sent) /\ got = SubSeq(sent, 1, Len(got))
  <2>1. k = 1 /\ earlier = << >>
    BY <1>2, <1>11 DEF Delivers
  <2>2. /\ p.out \in Seq(Seq(Bytes)) /\ k - 1 + Len(p.out) <= n
        /\ \A i \in 1 .. Len(p.out) : p.out[i] = Payloads[k - 1 + i]
    BY <1>2, <1>3, <1>6, PacketFound DEF Delivers
  <2>3. PICK M : M = Seq(Bytes)
    OBVIOUS
  <2>4. PICK o \in Seq(M), e \in Seq(M) : o = p.out /\ e = sent
    BY <2>2, <2>3 DEF SentSoFar
  <2>5. got = o
    <3>1. << >> \o o = o
      OBVIOUS
    <3> QED BY <1>4, <2>1, <2>4, <3>1, Zenon
  <2>6. PICK x \in Nat : x = Len(o) /\ x <= n
    BY <2>1, <2>2, <2>4
  <2>7. ASSUME NEW i \in 1 .. x PROVE o[i] = e[i]
    <3>1. k - 1 + i = i /\ i \in 1 .. n
      BY <2>1, <2>6
    <3>2. o[i] = Payloads[k - 1 + i]
      BY <2>2, <2>4, <2>6
    <3> QED BY <1>7, <2>4, <3>1, <3>2
  <2>8. Len(e) = n
    BY <1>6, <2>4
  <2>9. o = SubSeq(e, 1, x)
    <3>1. PICK f \in Seq(M) : f = SubSeq(e, 1, x) /\ Len(f) = x /\ \A i \in 1 .. x : f[i] = e[i]
      <4>1. SubSeq(e, 1, x) \in Seq(M) /\ Len(SubSeq(e, 1, x)) = x /\ \A i \in 1 .. x : SubSeq(e, 1, x)[i] = e[i]
        BY <2>6, <2>8
      <4> QED BY <4>1, Zenon
    <3>2. o = f
      BY <2>6, <2>7, <3>1, SeqEqual
    <3> QED BY <3>1, <3>2
  <2>10. got = SubSeq(sent, 1, Len(got)) /\ Len(got) = x
    BY <2>4, <2>5, <2>6, <2>9, Zenon
  <2> QED BY <1>6, <2>6, <2>10
<1>12. \A i, j \in DOMAIN got, m, h \in DOMAIN sent : i < j /\ got[i] = sent[m] /\ got[j] = sent[h] => m < h
  BY <1>10
<1> QED BY <1>4, <1>9, <1>11, <1>12, Zenon

\* One writer, one byte order, no stray marker: what recv_cb_ is given are the messages that
\* write() framed, in their order and once each, whatever connections are lost and wherever
\* the bytes are cut; the first connection delivers the first ones.
THEOREM WireDeliversWhatWasSent == WireSpec => []DeliversWhatWasSent
<1>1. WireInit => WireIInv /\ SentSoFar /\ OrderlyInv
  BY WireInitIInv, SentInit, OrderlyInit
<1>2. WireIInv /\ SentSoFar /\ OrderlyInv /\ [WireNext]_wireVars => (WireIInv /\ SentSoFar /\ OrderlyInv)'
  BY WireNextIInv, SentNext, OrderlyNext
<1>3. WireIInv /\ SentSoFar /\ OrderlyInv => DeliversWhatWasSent
  BY DeliveredIs
<1> QED BY <1>1, <1>2, <1>3, PTL DEF WireSpec
=============================================================================
