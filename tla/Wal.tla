-------------------------------- MODULE Wal --------------------------------
(***************************************************************************)
(* The write-ahead log: the segmented writer the bridge records with       *)
(* (replay/wal_writer.cpp) and the reader that loads what it left on disk, *)
(* skips what is damaged and replays the rest (replay/wal_reader.cpp).     *)
(*                                                                         *)
(* A segment file is a sequence of cells.  A record takes two cells of     *)
(* header, its payload and one of CRC; a cell knows its record, its place  *)
(* in it and the record's length, and a damaged cell is Junk.  A CRC       *)
(* matches exactly when all the cells of a record are there, in order.     *)
(* The writer's process may crash, losing what its file stream buffers; it *)
(* may be started again on the same directory; bytes on disk may be        *)
(* damaged while no writer runs.                                           *)
(***************************************************************************)
EXTENDS Naturals, Sequences, FiniteSets, SequencesExt

CONSTANTS segment_bytes_,  \* roll to a new segment before exceeding this size
          MaxPayload,      \* payloads are 0 .. MaxPayload cells
          MaxClock,        \* bound: the wall clock, which may be set
          MaxAppends,      \* bound: records appended in all
          MaxLives,        \* bound: starts of the writer's process
          MaxFaults        \* bound: damaged cells, failed calls and refused payloads

ASSUME WalAssumption ==
    /\ segment_bytes_ \in Nat \ {0} /\ MaxPayload \in Nat /\ MaxClock \in Nat
    /\ MaxAppends \in Nat /\ MaxLives \in Nat /\ MaxFaults \in Nat

kRecordHeaderSize  == 2
kRecordTrailerSize == 1
kRecordOverhead    == kRecordHeaderSize + kRecordTrailerSize

VARIABLES
    up, lives,               \* the writer's process runs; starts so far
    current_segment_id_, current_segment_offset_, index_,
    sequence,                \* tx_sequence_ of the bridge
    bad,                     \* the state of out_ after a failed write
    buffered,                \* cells out_ holds that have not reached the file
    disk,                    \* the segment files
    appended,                \* history: header of each record append() was given
    faults,
    reader                   \* what WalReader::load made of the directory

writer == <<up, lives, current_segment_id_, current_segment_offset_, index_, sequence, bad, buffered>>
vars   == <<writer, disk, appended, faults, reader>>

Segments == 1 .. MaxAppends + 1
Junk     == [rec |-> 0, part |-> 0, len |-> 0]
NoReader == [loaded |-> FALSE]

\* encode_record: the cells of record n.
encode_record(n, size) ==
    LET len == kRecordOverhead + size
    IN  [i \in 1 .. len |-> [rec |-> n, part |-> i, len |-> len]]

Init ==
    /\ up = FALSE /\ lives = 0
    /\ current_segment_id_ = 0 /\ current_segment_offset_ = 0 /\ index_ = << >>
    /\ sequence = 0 /\ bad = FALSE /\ buffered = << >>
    /\ disk = [s \in Segments |-> << >>]
    /\ appended = << >> /\ faults = 0
    /\ reader = NoReader

-----------------------------------------------------------------------------
(* Writer                                                                  *)

\* The constructor: segment 1 is opened, and truncated.
Open ==
    /\ ~up /\ lives < MaxLives
    /\ up' = TRUE /\ lives' = lives + 1
    /\ current_segment_id_' = 1 /\ current_segment_offset_' = 0 /\ index_' = << >>
    /\ sequence' = 0 /\ bad' = FALSE /\ buffered' = << >>
    /\ disk' = [disk EXCEPT ![1] = << >>]
    /\ reader' = NoReader
    /\ UNCHANGED <<appended, faults>>

\* The file cannot be opened: what a former life left stays, and nothing is written.
OpenFails ==
    /\ ~up /\ lives < MaxLives /\ faults < MaxFaults
    /\ up' = TRUE /\ lives' = lives + 1
    /\ current_segment_id_' = 1 /\ current_segment_offset_' = 0 /\ index_' = << >>
    /\ sequence' = 0 /\ bad' = TRUE /\ buffered' = << >>
    /\ reader' = NoReader /\ faults' = faults + 1
    /\ UNCHANGED <<disk, appended>>

\* append's condition for rolling over.
Rolls(rec) ==
    current_segment_offset_ > 0 /\ current_segment_offset_ + Len(rec) > segment_bytes_

\* Test seeding: the offset goes on counting in the new file.
TargetKeepsOffset(rec) ==
    IF Rolls(rec)
    THEN [id |-> current_segment_id_ + 1, offset |-> current_segment_offset_, bad |-> FALSE,
          pending |-> << >>,
          disk |-> [disk EXCEPT ![current_segment_id_] = @ \o buffered,
                                ![current_segment_id_ + 1] = << >>]]
    ELSE [id |-> current_segment_id_, offset |-> current_segment_offset_, bad |-> bad,
          pending |-> buffered, disk |-> disk]

\* Test seeding: the new file has the old one's number.
TargetSameId(rec) ==
    IF Rolls(rec)
    THEN [id |-> current_segment_id_, offset |-> 0, bad |-> FALSE, pending |-> << >>,
          disk |-> [disk EXCEPT ![current_segment_id_] = << >>]]
    ELSE [id |-> current_segment_id_, offset |-> current_segment_offset_, bad |-> bad,
          pending |-> buffered, disk |-> disk]

\* open_new_segment flushes and closes the old file and truncates the new one.
\* What follows is the state append() writes in.
Target(rec) ==
    IF Rolls(rec)
    THEN [id |-> current_segment_id_ + 1, offset |-> 0, bad |-> FALSE, pending |-> << >>,
          disk |-> [disk EXCEPT ![current_segment_id_] = @ \o buffered,
                                ![current_segment_id_ + 1] = << >>]]
    ELSE [id |-> current_segment_id_, offset |-> current_segment_offset_, bad |-> bad,
          pending |-> buffered, disk |-> disk]

\* The header append() is called with, from send_data.
Header(ts) == [timestamp_ns |-> ts, sequence |-> sequence, life |-> lives]

\* append(): any part of what is pending, up to all of it, reaches the file now.
Append_(ts, size) ==
    LET rec == encode_record(Len(appended) + 1, size)
        t   == Target(rec)
        all == t.pending \o rec
    IN  /\ up /\ Len(appended) < MaxAppends /\ ~t.bad
        /\ \E k \in 0 .. Len(all) :
             /\ disk' = [t.disk EXCEPT ![t.id] = @ \o SubSeq(all, 1, k)]
             /\ buffered' = SubSeq(all, k + 1, Len(all))
        /\ index_' = Append(index_, [timestamp_ns |-> ts, segment_id |-> t.id, offset |-> t.offset,
                                     record_length |-> Len(rec), rec |-> Len(appended) + 1])
        /\ current_segment_id_' = t.id /\ current_segment_offset_' = t.offset + Len(rec)
        /\ bad' = FALSE
        /\ appended' = Append(appended, Header(ts)) /\ sequence' = sequence + 1
        /\ UNCHANGED <<up, lives, faults, reader>>

\* append() whose write fails, now or because of an earlier failure: it returns
\* false, which send_data does not look at.
AppendFails(ts, size) ==
    LET rec == encode_record(Len(appended) + 1, size)
        t   == Target(rec)
        all == t.pending \o rec
    IN  /\ up /\ Len(appended) < MaxAppends
        /\ IF t.bad THEN disk' = t.disk /\ buffered' = t.pending /\ faults' = faults
           ELSE /\ faults < MaxFaults /\ faults' = faults + 1
                /\ \E k \in 0 .. Len(all) - 1 :
                     /\ disk' = [t.disk EXCEPT ![t.id] = @ \o SubSeq(all, 1, k)]
                     /\ buffered' \in {<< >>, SubSeq(all, k + 1, Len(all))}
        /\ bad' = TRUE
        /\ current_segment_id_' = t.id /\ current_segment_offset_' = t.offset
        /\ appended' = Append(appended, Header(ts)) /\ sequence' = sequence + 1
        /\ UNCHANGED <<up, lives, index_, reader>>

\* A payload above kMaxRecordPayload is refused before anything is done; the frame has
\* used up its sequence number.
AppendRefuses(ts) ==
    /\ up /\ Len(appended) < MaxAppends
    /\ faults < MaxFaults /\ faults' = faults + 1
    /\ appended' = Append(appended, Header(ts)) /\ sequence' = sequence + 1
    /\ UNCHANGED <<up, lives, current_segment_id_, current_segment_offset_, index_, bad, buffered,
                   disk, reader>>

\* append() rolls over to a file that cannot be opened: at offset 0 there is no rolling
\* over any more, so nothing is written until the next start.
AppendUnopened(ts, size) ==
    /\ up /\ Len(appended) < MaxAppends /\ Rolls(encode_record(Len(appended) + 1, size))
    /\ faults < MaxFaults /\ faults' = faults + 1
    /\ disk' = [disk EXCEPT ![current_segment_id_] = @ \o buffered] /\ buffered' = << >>
    /\ current_segment_id_' = current_segment_id_ + 1 /\ current_segment_offset_' = 0
    /\ bad' = TRUE
    /\ appended' = Append(appended, Header(ts)) /\ sequence' = sequence + 1
    /\ UNCHANGED <<up, lives, index_, reader>>

\* flush(), and the flush of close(), which ends the writer.
Flush ==
    /\ up /\ ~bad /\ buffered # << >>
    /\ disk' = [disk EXCEPT ![current_segment_id_] = @ \o buffered]
    /\ buffered' = << >>
    /\ UNCHANGED <<up, lives, current_segment_id_, current_segment_offset_, index_, sequence,
                   bad, appended, faults, reader>>

\* A flush that fails: of flush(), or of the rollover or close() that comes next, which
\* does not look at it.  Records append() has taken may be lost.
FlushFails ==
    /\ up /\ buffered # << >> /\ faults < MaxFaults
    /\ faults' = faults + 1 /\ bad' = TRUE
    /\ \E k \in 0 .. Len(buffered) - 1 :
         /\ disk' = [disk EXCEPT ![current_segment_id_] = @ \o SubSeq(buffered, 1, k)]
         /\ buffered' \in {<< >>, SubSeq(buffered, k + 1, Len(buffered))}
    /\ UNCHANGED <<up, lives, current_segment_id_, current_segment_offset_, index_, sequence,
                   appended, reader>>

Close ==
    /\ up
    /\ disk' = [disk EXCEPT ![current_segment_id_] = @ \o buffered]
    /\ buffered' = << >> /\ up' = FALSE
    /\ UNCHANGED <<lives, current_segment_id_, current_segment_offset_, index_, sequence,
                   bad, appended, faults, reader>>

\* The process dies; what it buffered is gone.
Crash ==
    /\ up
    /\ buffered' = << >> /\ up' = FALSE
    /\ UNCHANGED <<lives, current_segment_id_, current_segment_offset_, index_, sequence,
                   bad, disk, appended, faults, reader>>

\* A byte on disk is damaged.
Damage ==
    /\ ~up /\ ~reader.loaded /\ faults < MaxFaults
    /\ \E s \in Segments : \E i \in DOMAIN disk[s] :
         disk[s][i] # Junk /\ disk' = [disk EXCEPT ![s][i] = Junk]
    /\ faults' = faults + 1
    /\ UNCHANGED <<writer, appended, reader>>

-----------------------------------------------------------------------------
(* Reader                                                                  *)

\* decode_record succeeds at place p.
DecodesAt(cells, p) ==
    LET c == cells[p]
    IN  /\ c # Junk /\ c.part = 1
        /\ p + c.len - 1 <= Len(cells)
        /\ \A i \in 1 .. c.len : cells[p + i - 1] = [c EXCEPT !.part = i]

\* Test seeding: after a bad record the scan goes on behind the length it claims.
ResyncByLength(cells, p) == IF cells[p] = Junk THEN p + 1 ELSE
    IF p + cells[p].len > Len(cells) + 1 THEN Len(cells) + 1 ELSE p + cells[p].len

\* On any error the scan moves on by one byte.
Resync(cells, p) == p + 1

\* A contiguous run of skipped bytes counts once.
NewRun(skipping) == IF skipping THEN 0 ELSE 1

\* load's scan of one segment: the places of the records and what was skipped, from a
\* place on and with bytes being skipped there or not.
Scan(cells) ==
    LET n == Len(cells)
        scan[at \in (1 .. n + 1) \X BOOLEAN] ==
          LET p == at[1]
              skipping == at[2]
          IN  IF p + kRecordHeaderSize - 1 > n
              THEN [places |-> << >>, skipped |-> n + 1 - p,
                    corrupt |-> IF p <= n THEN NewRun(skipping) ELSE 0]
              ELSE IF DecodesAt(cells, p)
              THEN LET rest == scan[<<p + cells[p].len, FALSE>>]
                   IN  [rest EXCEPT !.places = <<p>> \o @]
              ELSE LET q == Resync(cells, p)
                       rest == scan[<<q, TRUE>>]
                   IN  [rest EXCEPT !.corrupt = @ + NewRun(skipping), !.skipped = @ + (q - p)]
    IN  scan[<<1, FALSE>>]

\* What load() finds, segment by segment in the order of their ids.
Found(files) ==
    LET InSegment(s) == LET places == Scan(files[s]).places
                        IN  [i \in DOMAIN places |-> [segment_id |-> s, offset |-> places[i],
                                                      rec |-> files[s][places[i]].rec]]
    IN  FlattenSeq([s \in Segments |-> InSegment(s)])

\* Test seeding: the order of the sequence numbers alone.
EarlierBySequence(a, b) == appended[a.rec].sequence < appended[b.rec].sequence

\* The order of load's stable_sort, before the places break a tie.
Earlier(a, b) ==
    LET x == appended[a.rec]
        y == appended[b.rec]
    IN  IF x.timestamp_ns # y.timestamp_ns THEN x.timestamp_ns < y.timestamp_ns
                                           ELSE x.sequence < y.sequence

\* The order a stable sort of s by Less puts the places of s in.
StableOrder(s, Less(_, _)) ==
    {o \in (DOMAIN s) \X (DOMAIN s) :
        \/ Less(s[o[1]], s[o[2]])
        \/ (~Less(s[o[2]], s[o[1]]) /\ o[1] < o[2])}

\* s rearranged: an element's new place is one more than the number of those before it.
Arrange(s, order) ==
    LET rank(i) == 1 + Cardinality({j \in DOMAIN s : <<j, i>> \in order})
    IN  [k \in DOMAIN s |-> s[CHOOSE i \in DOMAIN s : rank(i) = k]]

StableSort(s, Less(_, _)) == Arrange(s, StableOrder(s, Less))

Stamp(e) == appended[e.rec].timestamp_ns

\* The order of finalize's stable_sort.
EarlierStamp(a, b) == Stamp(a) < Stamp(b)

\* ReplayIndex::finalize sorts only when add() has seen a time stamp regress.
Finalize(entries) ==
    IF \E i \in 2 .. Len(entries) : Stamp(entries[i]) < Stamp(entries[i - 1])
    THEN StableSort(entries, EarlierStamp)
    ELSE entries

Total(f) == FoldFunctionOnSet(LAMBDA a, b : a + b, 0, f, Segments)

\* WalReader: load the directory.
Load ==
    /\ ~up /\ ~reader.loaded
    /\ reader' = [loaded |-> TRUE,
                  records_ |-> StableSort(Found(disk), Earlier),
                  index_ |-> Finalize(Found(disk)),
                  corrupt |-> Total([s \in Segments |-> Scan(disk[s]).corrupt]),
                  skipped |-> Total([s \in Segments |-> Scan(disk[s]).skipped]),
                  replayed |-> << >>, start |-> 0]
    /\ UNCHANGED <<writer, disk, appended, faults>>

\* replay(): from the first record not before start_ns to the last.
Replay(start) ==
    /\ reader.loaded /\ reader.replayed = << >>
    /\ LET rs == reader.records_
           first == 1 + Cardinality({i \in DOMAIN rs : Stamp(rs[i]) < start})
       IN  reader' = [reader EXCEPT !.replayed = SubSeq(rs, first, Len(rs)), !.start = start]
    /\ UNCHANGED <<writer, disk, appended, faults>>

-----------------------------------------------------------------------------
Clock == 0 .. MaxClock

Next ==
    \/ Open \/ OpenFails \/ Flush \/ FlushFails \/ Close \/ Crash \/ Damage \/ Load
    \/ \E ts \in Clock : AppendRefuses(ts)
    \/ \E ts \in Clock, size \in 0 .. MaxPayload :
          Append_(ts, size) \/ AppendFails(ts, size) \/ AppendUnopened(ts, size)
    \/ \E start \in Clock : Replay(start)

Spec == Init /\ [][Next]_vars

-----------------------------------------------------------------------------
(* Properties                                                              *)

\* The size a segment may have: the limit, or that of one record.
SegmentLimit ==
    IF segment_bytes_ >= kRecordOverhead + MaxPayload THEN segment_bytes_
                                                      ELSE kRecordOverhead + MaxPayload

Cells == {Junk} \cup
         {c \in [rec : 1 .. MaxAppends, part : 1 .. kRecordOverhead + MaxPayload,
                 len : kRecordOverhead .. kRecordOverhead + MaxPayload] : c.part <= c.len}

\* Types; the segment in use exists and its offset is within the limit.
TypeOK ==
    /\ {up, bad} \subseteq BOOLEAN
    /\ lives \in 0 .. MaxLives /\ faults \in 0 .. MaxFaults
    /\ current_segment_id_ \in {0} \cup Segments
    /\ current_segment_offset_ \in 0 .. SegmentLimit
    /\ sequence \in 0 .. MaxAppends
    /\ \A f \in {disk[s] : s \in Segments} \cup {buffered} : \A i \in DOMAIN f : f[i] \in Cells
    /\ \A i \in DOMAIN appended : appended[i] \in
         [timestamp_ns : Clock, sequence : 0 .. MaxAppends, life : 1 .. MaxLives]

\* What the segment files hold once out_ has been flushed.
Files == [s \in Segments |-> IF s = current_segment_id_ THEN disk[s] \o buffered ELSE disk[s]]

\* Rolling over keeps every segment file within segment_bytes_, unless one record
\* alone is larger, also when a write fails half way.
SegmentsBounded ==
    \A s \in Segments :
        \/ Len(Files[s]) <= segment_bytes_
        \/ \E r \in DOMAIN appended : \A i \in DOMAIN Files[s] : Files[s][i].rec \in {0, r}

\* An entry of the writer's index addresses its record: what the file holds at
\* that segment and offset is that record, as far as it has been written; and with
\* what out_ buffers, all of it is there unless a write has failed.
IndexLocates ==
    \A e \in {index_[i] : i \in DOMAIN index_} :
        /\ up /\ faults = 0 => e.offset + e.record_length <= Len(Files[e.segment_id])
        /\ \A i \in 1 .. e.record_length :
              e.offset + i <= Len(Files[e.segment_id]) =>
                  Files[e.segment_id][e.offset + i] \in
                      {Junk, [rec |-> e.rec, part |-> i, len |-> e.record_length]}

\* After a crash, the records of the writer's last life that load() recovers are a
\* prefix of those it appended: rolling over, buffering and crashing lose a tail and
\* never leave a gap.
OnlyTailLost ==
    reader.loaded /\ faults = 0 =>
        LET got == {reader.records_[i].rec : i \in DOMAIN reader.records_}
        IN  \A m \in got, n \in DOMAIN appended :
                n < m /\ appended[m].life = lives /\ appended[n].life = lives => n \in got

\* load() replays every intact record of a damaged log, and nothing else.
RecoversIntact ==
    reader.loaded =>
        {<<r.segment_id, r.offset>> : r \in {reader.records_[i] : i \in DOMAIN reader.records_}} =
        {o \in Segments \X (1 .. SegmentLimit) :
            o[2] \in DOMAIN disk[o[1]] /\ DecodesAt(disk[o[1]], o[2])}

\* The cells of a file outside every intact record.
Damaged(f) ==
    {i \in DOMAIN f : \A p \in 1 .. i : DecodesAt(f, p) => i >= p + f[p].len}

\* load()'s statistics: bytes_skipped are the bytes outside intact records, and
\* records_corrupt_skipped counts their contiguous runs, torn tails included.
SkipsAccounted ==
    reader.loaded =>
        /\ reader.skipped = Total([s \in Segments |-> Cardinality(Damaged(disk[s]))])
        /\ reader.corrupt = Total([s \in Segments |->
              Cardinality({i \in Damaged(disk[s]) : i - 1 \notin Damaged(disk[s])})])

\* Within one life of the writer, the reader's index and its records agree place by
\* place, although they are sorted by different keys, one of them only on demand.
IndexAgrees == reader.loaded /\ lives = 1 => reader.index_ = reader.records_

\* replay() delivers every record from start_ns on, once, in the order of time,
\* whatever the clock did while the log was written.
ReplayInOrder ==
    reader.loaded /\ reader.replayed # << >> =>
        LET rs == reader.replayed IN
        /\ \A i \in DOMAIN rs : Stamp(rs[i]) >= reader.start
        /\ \A i, j \in DOMAIN rs : i < j => Stamp(rs[i]) <= Stamp(rs[j]) /\ rs[i] # rs[j]
        /\ \A r \in {reader.records_[i] : i \in DOMAIN reader.records_} :
              Stamp(r) >= reader.start => \E i \in DOMAIN rs : rs[i] = r

\* What the writer says, "Append-only" (wal_writer.hpp), within one life: the files it has
\* begun only ever grow.  (It begins by cutting off what a former life left in a file.)
OwnSegmentsGrow ==
    [][up /\ up' /\ faults' = faults =>
          \A s \in 1 .. current_segment_id_ : IsPrefix(disk[s], disk'[s])]_vars

\* The writer's bookkeeping and its files agree, through rollovers and failed writes.
Inv == TypeOK /\ SegmentsBounded /\ IndexLocates

\* load() makes the most of a log that a crash or damage has hit: a crash costs a tail,
\* what is intact is recovered, and the rest is reported exactly.
RecoversExactly == OnlyTailLost /\ RecoversIntact /\ SkipsAccounted

\* The reader's two orders serve replay: index and records agree where they must, and
\* what is replayed is complete and in the order of time.
ReplaysLog == IndexAgrees /\ ReplayInOrder
=============================================================================
