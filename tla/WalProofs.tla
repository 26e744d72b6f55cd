----------------------------- MODULE WalProofs -----------------------------
(***************************************************************************)
(* Proofs about the write-ahead log, for every segment size, payload size, *)
(* number of records, of restarts and of faults: the writer's bookkeeping, *)
(* what the reader's scan finds, and the two orders it sorts by.           *)
(***************************************************************************)
EXTENDS Wal, Integers, TLAPS, FiniteSetTheorems, SequenceTheorems,
        NaturalsInduction, WellFoundedInduction

-----------------------------------------------------------------------------
(* The inductive invariant                                                 *)

Headers == [timestamp_ns : Clock, sequence : 0 .. MaxAppends, life : 1 .. MaxLives]

Lengths == kRecordOverhead .. kRecordOverhead + MaxPayload

Entries == [timestamp_ns : Clock, segment_id : Segments, offset : Nat,
            record_length : Lengths, rec : 1 .. MaxAppends]

Types ==
    /\ up \in BOOLEAN /\ bad \in BOOLEAN
    /\ lives \in 0 .. MaxLives /\ faults \in 0 .. MaxFaults
    /\ current_segment_id_ \in 0 .. MaxAppends + 1
    /\ current_segment_offset_ \in 0 .. SegmentLimit
    /\ sequence \in Nat /\ sequence <= Len(appended)
    /\ disk \in [Segments -> Seq(Cells)] /\ buffered \in Seq(Cells)
    /\ appended \in Seq(Headers) /\ Len(appended) <= MaxAppends
    /\ index_ \in Seq(Entries)

\* What the writer knows of its file: where the next record goes is its end, unless
\* a write has failed.
Running ==
    /\ up => current_segment_id_ \in 1 .. Len(appended) + 1 /\ lives >= 1
    /\ ~up => buffered = << >>
    /\ bad => faults > 0
    /\ up /\ ~bad => Len(Files[current_segment_id_]) = current_segment_offset_

\* Every cell is of a record that was appended.
CellsAppended ==
    \A s \in Segments : \A i \in DOMAIN Files[s] : Files[s][i].rec <= Len(appended)

FilesLimited == \A s \in Segments : Len(Files[s]) <= SegmentLimit

\* Entries address places before the one the next record gets.
IndexBehind ==
    \A k \in DOMAIN index_ :
        /\ index_[k].segment_id <= current_segment_id_
        /\ index_[k].segment_id = current_segment_id_ =>
              index_[k].offset + index_[k].record_length <= current_segment_offset_

\* Records appended before the index began.
Former == Len(appended) - Len(index_)

\* While nothing has failed: the index has the records of this life, in the order of
\* their places, and their cells are nowhere else.
IndexComplete ==
    faults = 0 =>
        /\ Former >= 0
        /\ \A k \in DOMAIN index_ : index_[k].rec = Former + k
        /\ \A n \in DOMAIN appended : appended[n].life = lives => n > Former

LivesPast == \A n \in DOMAIN appended : appended[n].life <= lives

IndexOrdered ==
    \A j, k \in DOMAIN index_ : j < k =>
        \/ index_[j].segment_id < index_[k].segment_id
        \/ /\ index_[j].segment_id = index_[k].segment_id
           /\ index_[j].offset + index_[j].record_length <= index_[k].offset

ClosedOnDisk ==
    faults = 0 => \A k \in DOMAIN index_ :
        index_[k].segment_id < current_segment_id_ =>
            index_[k].offset + index_[k].record_length <= Len(Files[index_[k].segment_id])

CellsPlaced ==
    faults = 0 => \A s \in Segments : \A i \in DOMAIN Files[s] :
        /\ Files[s][i] # Junk
        /\ Files[s][i].rec > Former =>
              /\ s = index_[Files[s][i].rec - Former].segment_id
              /\ i = index_[Files[s][i].rec - Former].offset + Files[s][i].part

\* In its first life the writer's cells come in the order of the records.
FirstLife ==
    lives <= 1 =>
        /\ lives = 0 => appended = << >> /\ current_segment_id_ = 0
        /\ sequence = Len(appended)
        /\ \A n \in DOMAIN appended : appended[n].sequence = n - 1
        /\ \A s \in Segments : s > current_segment_id_ => Files[s] = << >>

Before(a, b) == a.rec < b.rec \/ (a.rec = b.rec /\ a.part < b.part)

FirstLifeOrder ==
    lives <= 1 =>
        \A s, t \in Segments : \A i \in DOMAIN Files[s], j \in DOMAIN Files[t] :
            (s < t \/ (s = t /\ i < j)) /\ Files[s][i] # Junk /\ Files[t][j] # Junk =>
                Before(Files[s][i], Files[t][j])

Findings == [segment_id : Segments, offset : Nat, rec : 1 .. MaxAppends]

\* e stands for an intact record of the files.
Shows(e, files) ==
    /\ e.offset \in 1 .. Len(files[e.segment_id])
    /\ DecodesAt(files[e.segment_id], e.offset)
    /\ e.rec = files[e.segment_id][e.offset].rec

\* R has the intact records of the files, each once, in the order of their time stamps.
SortedRecords(R, files, hist) ==
    /\ R \in Seq(Findings)
    /\ \A i \in 1 .. Len(R) : Shows(R[i], files) /\ R[i].rec \in 1 .. Len(hist)
    /\ \A s \in Segments : \A q \in 1 .. Len(files[s]) : DecodesAt(files[s], q) =>
          \E i \in 1 .. Len(R) : R[i].segment_id = s /\ R[i].offset = q
    /\ \A i, j \in 1 .. Len(R) : i < j =>
          R[i] # R[j] /\ hist[R[i].rec].timestamp_ns <= hist[R[j].rec].timestamp_ns

\* The counts load() reports of the files.
Accounted(skipped, corrupt, files) ==
    /\ skipped = Total([s \in Segments |-> Cardinality(Damaged(files[s]))])
    /\ corrupt = Total([s \in Segments |->
          Cardinality({i \in Damaged(files[s]) : i - 1 \notin Damaged(files[s])})])

\* rs are the records of R from the time start on.
Delivered(rs, R, start, hist) ==
    rs # << >> =>
        /\ \A i \in DOMAIN rs : hist[rs[i].rec].timestamp_ns >= start
        /\ \A i, j \in DOMAIN rs : i < j =>
              hist[rs[i].rec].timestamp_ns <= hist[rs[j].rec].timestamp_ns /\ rs[i] # rs[j]
        /\ \A r \in {R[i] : i \in DOMAIN R} :
              hist[r.rec].timestamp_ns >= start => \E i \in DOMAIN rs : rs[i] = r

\* What load() made of the directory is true of it, and what replay() delivered.
ReaderOk ==
    \/ reader = NoReader
    \/ /\ ~up /\ reader.loaded
       /\ reader = [loaded |-> TRUE, records_ |-> reader.records_, index_ |-> reader.index_,
                    corrupt |-> reader.corrupt, skipped |-> reader.skipped,
                    replayed |-> reader.replayed, start |-> reader.start]
       /\ SortedRecords(reader.records_, disk, appended)
       /\ Accounted(reader.skipped, reader.corrupt, disk)
       /\ lives = 1 => reader.index_ = reader.records_
       /\ Delivered(reader.replayed, reader.records_, reader.start, appended)

\* All but what concerns the reader.
WriterInv ==
    /\ Types /\ Running /\ CellsAppended /\ FilesLimited /\ SegmentsBounded
    /\ IndexBehind /\ IndexLocates /\ IndexComplete /\ LivesPast /\ IndexOrdered
    /\ ClosedOnDisk /\ CellsPlaced /\ FirstLife /\ FirstLifeOrder

IInv == WriterInv /\ ReaderOk

-----------------------------------------------------------------------------
(* Cells and sequences                                                     *)

USE DEF kRecordHeaderSize, kRecordTrailerSize, kRecordOverhead

\* What a cell is: junk, or a part of a record of at least three cells.
LEMMA CellFacts ==
    ASSUME NEW c \in Cells
    PROVE  /\ c.rec \in Nat /\ c.part \in Nat /\ c.len \in Nat
           /\ c.rec <= MaxAppends
           /\ c = Junk \/ (c.rec >= 1 /\ c.part >= 1 /\ c.part <= c.len /\ c.len >= 3)
           /\ c = [rec |-> c.rec, part |-> c.part, len |-> c.len]
<1> USE WalAssumption
<1>1. CASE c = Junk
  BY <1>1 DEF Junk
<1>2. CASE c # Junk
  BY <1>2 DEF Cells
<1> QED BY <1>1, <1>2

LEMMA JunkIsCell == Junk \in Cells
BY DEF Cells

LEMMA RecordFacts ==
    ASSUME NEW n \in 1 .. MaxAppends, NEW size \in 0 .. MaxPayload
    PROVE  /\ encode_record(n, size) \in Seq(Cells)
           /\ Len(encode_record(n, size)) = kRecordOverhead + size
           /\ Len(encode_record(n, size)) \in Lengths
           /\ \A i \in 1 .. kRecordOverhead + size :
                 encode_record(n, size)[i] = [rec |-> n, part |-> i, len |-> kRecordOverhead + size]
<1> USE WalAssumption
<1>1. \A i \in 1 .. kRecordOverhead + size :
         encode_record(n, size)[i] = [rec |-> n, part |-> i, len |-> kRecordOverhead + size]
  BY DEF encode_record
<1>2. \A i \in 1 .. kRecordOverhead + size : encode_record(n, size)[i] \in Cells
  <2> TAKE i \in 1 .. kRecordOverhead + size
  <2>1. encode_record(n, size)[i] = [rec |-> n, part |-> i, len |-> kRecordOverhead + size]
    BY <1>1
  <2>2. /\ [rec |-> n, part |-> i, len |-> kRecordOverhead + size] \in
             [rec : 1 .. MaxAppends, part : 1 .. kRecordOverhead + MaxPayload,
              len : kRecordOverhead .. kRecordOverhead + MaxPayload]
        /\ i <= kRecordOverhead + size
    OBVIOUS
  <2> QED BY <2>1, <2>2 DEF Cells
<1>3. encode_record(n, size) = [i \in 1 .. kRecordOverhead + size |-> encode_record(n, size)[i]]
  BY DEF encode_record
<1>4. kRecordOverhead + size \in Nat
  OBVIOUS
<1>5. encode_record(n, size) \in Seq(Cells) /\ Len(encode_record(n, size)) = kRecordOverhead + size
  BY <1>2, <1>3, <1>4
<1> QED BY <1>1, <1>5 DEF Lengths

\* a and b are the two parts of all.
Splits(a, b, all) ==
    /\ Len(all) = Len(a) + Len(b)
    /\ \A i \in 1 .. Len(a) : a[i] = all[i]
    /\ \A i \in 1 .. Len(b) : b[i] = all[Len(a) + i]

LEMMA JoinSplit ==
    ASSUME NEW X, NEW d \in Seq(X), NEW a \in Seq(X), NEW b \in Seq(X), NEW all \in Seq(X),
           Splits(a, b, all)
    PROVE  (d \o a) \o b = d \o all
<1>0. /\ Len(all) = Len(a) + Len(b)
      /\ \A i \in 1 .. Len(a) : a[i] = all[i]
      /\ \A i \in 1 .. Len(b) : b[i] = all[Len(a) + i]
  BY DEF Splits
<1> USE <1>0
<1>1. /\ d \o a \in Seq(X) /\ Len(d \o a) = Len(d) + Len(a)
      /\ (d \o a) \o b \in Seq(X) /\ d \o all \in Seq(X)
      /\ Len(d \o all) = Len(d) + Len(all)
      /\ Len(d) \in Nat /\ Len(a) \in Nat /\ Len(b) \in Nat
  BY SMTT(30)
<1>2. Len((d \o a) \o b) = Len(d \o a) + Len(b)
  BY <1>1
<1>3. ASSUME NEW i \in 1 .. Len(d \o all) PROVE ((d \o a) \o b)[i] = (d \o all)[i]
  <2>1. CASE i <= Len(d)
    BY <2>1, <1>1
  <2>2. CASE i > Len(d) /\ i <= Len(d) + Len(a)
    <3>1. ((d \o a) \o b)[i] = (d \o a)[i] /\ (d \o a)[i] = a[i - Len(d)] /\ i - Len(d) \in 1 .. Len(a)
      BY <2>2, <1>1
    <3>2. (d \o all)[i] = all[i - Len(d)]
      BY <2>2, <1>1
    <3> QED BY <3>1, <3>2
  <2>3. CASE i > Len(d) + Len(a)
    <3>1. ((d \o a) \o b)[i] = b[i - Len(d \o a)] /\ i - (Len(d) + Len(a)) \in 1 .. Len(b)
      BY <2>3, <1>1
    <3>2. (d \o all)[i] = all[i - Len(d)]
      BY <2>3, <1>1
    <3>3. b[i - (Len(d) + Len(a))] = all[Len(a) + (i - (Len(d) + Len(a)))]
      BY <3>1
    <3>4. Len(a) + (i - (Len(d) + Len(a))) = i - Len(d)
      BY <1>1
    <3> QED BY <3>1, <3>2, <3>3, <3>4, <1>1
  <2> QED BY <2>1, <2>2, <2>3, <1>1
<1> DEFINE x == (d \o a) \o b
           y == d \o all
<1>4. x \in Seq(X) /\ y \in Seq(X) /\ Len(x) = Len(y) /\ \A i \in 1 .. Len(x) : x[i] = y[i]
  BY <1>1, <1>2, <1>3
<1>5. x = y
  <2> HIDE DEF x, y
  <2> QED BY <1>4, SeqEqual
<1> QED BY <1>5

LEMMA SplitParts ==
    ASSUME NEW X, NEW all \in Seq(X), NEW k \in 0 .. Len(all)
    PROVE  /\ SubSeq(all, 1, k) \in Seq(X) /\ Len(SubSeq(all, 1, k)) = k
           /\ SubSeq(all, k + 1, Len(all)) \in Seq(X) /\ Len(SubSeq(all, k + 1, Len(all))) = Len(all) - k
           /\ \A i \in 1 .. k : SubSeq(all, 1, k)[i] = all[i]
           /\ \A i \in 1 .. Len(all) - k : SubSeq(all, k + 1, Len(all))[i] = all[k + i]
OBVIOUS

\* a is the part of all that was put in the file, b what stays pending.
Cut(a, b, all, k) == a = SubSeq(all, 1, k) /\ b = SubSeq(all, k + 1, Len(all))

Joins(d, a, b, all) == (d \o a) \o b = d \o all

Associates(d, p, r) == (d \o p) \o r = d \o (p \o r)

LEMMA CellsAssociate ==
    ASSUME NEW d \in Seq(Cells), NEW p \in Seq(Cells), NEW r \in Seq(Cells)
    PROVE  Associates(d, p, r)
BY ConcatAssociative DEF Associates

LEMMA SplitConcat ==
    ASSUME NEW X, NEW d \in Seq(X), NEW all \in Seq(X), NEW k \in 0 .. Len(all),
           NEW a \in Seq(X), NEW b \in Seq(X), Cut(a, b, all, k)
    PROVE  Joins(d, a, b, all)
<1>1. Splits(a, b, all)
  <2>1. Len(a) = k /\ Len(b) = Len(all) - k /\ Len(all) \in Nat
    BY SplitParts DEF Cut
  <2>2. \A i \in 1 .. k : a[i] = all[i]
    BY SplitParts DEF Cut
  <2>3. \A i \in 1 .. Len(all) - k : b[i] = all[k + i]
    BY SplitParts DEF Cut
  <2> QED BY <2>1, <2>2, <2>3 DEF Splits
<1>2. (d \o a) \o b = d \o all
  BY <1>1, JoinSplit, SMTT(30)
<1> QED BY <1>2, Zenon DEF Joins

-----------------------------------------------------------------------------
(* What the steps do to the files                                          *)

\* append(), whether it succeeds or not: of the file it writes to, b cells stay and m
\* are there in the end, the others being of the new record.
Writes(id, b, len, m) ==
    /\ id \in Segments /\ b \in Nat /\ len \in Lengths /\ m \in 0 .. b + len
    /\ \/ id = current_segment_id_ /\ b = Len(Files[id])
       \/ id = current_segment_id_ + 1 /\ b = 0
    /\ b + len <= segment_bytes_ \/ b = 0 \/ m <= b
    /\ Len(Files'[id]) = m
    /\ \A s \in Segments : s # id => Files'[s] = Files[s]
    /\ \A i \in 1 .. m : i <= b => Files'[id][i] = Files[id][i]
    /\ \A i \in 1 .. m : i > b =>
          Files'[id][i] = [rec |-> Len(appended) + 1, part |-> i - b, len |-> len]

\* The writer's variables, after append().
Appends(id, ts) ==
    /\ up /\ up' /\ lives' = lives /\ reader' = reader
    /\ Len(appended) < MaxAppends /\ ts \in Clock
    /\ current_segment_id_' = id
    /\ appended' = Append(appended, Header(ts)) /\ sequence' = sequence + 1
    /\ disk' \in [Segments -> Seq(Cells)] /\ buffered' \in Seq(Cells)

\* Flushing, closing, crashing and damage: files lose cells at most.
Keeps ==
    /\ UNCHANGED <<lives, current_segment_id_, current_segment_offset_, index_, sequence, bad,
                   appended, reader>>
    /\ disk' \in [Segments -> Seq(Cells)] /\ buffered' \in Seq(Cells)
    /\ up' \in BOOLEAN /\ (up' => up /\ Files' = Files) /\ (~up' => buffered' = << >>)
    /\ up \/ ~reader.loaded
    /\ faults' \in faults .. MaxFaults
    /\ \A s \in Segments :
          /\ Len(Files'[s]) <= Len(Files[s])
          /\ s # current_segment_id_ => Len(Files'[s]) = Len(Files[s])
          /\ \A i \in 1 .. Len(Files'[s]) :
                Files'[s][i] = Files[s][i] \/ (Files'[s][i] = Junk /\ faults' > 0)

\* A failed append().
Failing(id, b, m) ==
    /\ index_' = index_ /\ bad' = TRUE /\ faults' \in 1 .. MaxFaults
    /\ \/ id = current_segment_id_ /\ current_segment_offset_' = current_segment_offset_
       \/ id = current_segment_id_ + 1 /\ current_segment_offset_' = 0
    /\ id = current_segment_id_ => b = current_segment_offset_ \/ m <= b

\* The record of an append() that writes nothing of it.
Refused(ts) ==
    /\ Appends(current_segment_id_', ts)
    /\ \/ UNCHANGED <<current_segment_id_, current_segment_offset_>>
       \/ current_segment_id_' = current_segment_id_ + 1 /\ current_segment_offset_' = 0

\* A refused payload, a rollover to a file that cannot be opened and a failed flush: the
\* files lose cells at their ends at most.
Spoils ==
    /\ up /\ up' /\ lives' = lives /\ index_' = index_ /\ reader' = reader
    /\ disk' \in [Segments -> Seq(Cells)] /\ buffered' \in Seq(Cells)
    /\ faults' \in 1 .. MaxFaults
    /\ \/ bad' = TRUE
       \/ bad' = bad /\ Files' = Files /\ UNCHANGED <<current_segment_id_, current_segment_offset_>>
    /\ \/ UNCHANGED <<appended, sequence, current_segment_id_, current_segment_offset_>>
       \/ \E ts \in Clock : Refused(ts)
    /\ \A s \in Segments :
          /\ Len(Files'[s]) <= Len(Files[s])
          /\ \A i \in 1 .. Len(Files'[s]) : Files'[s][i] = Files[s][i]

\* An append() that succeeds.
Indexing(id, ts, b, len) ==
    /\ index_' = Append(index_, [timestamp_ns |-> ts, segment_id |-> id, offset |-> b,
                                 record_length |-> len, rec |-> Len(appended) + 1])
    /\ bad' = FALSE /\ faults' = faults
    /\ current_segment_offset_' = b + len
    /\ id = current_segment_id_ => b = current_segment_offset_

LEMMA SegmentFacts ==
    /\ Segments = 1 .. MaxAppends + 1 /\ SegmentLimit \in Nat
    /\ segment_bytes_ <= SegmentLimit /\ kRecordOverhead + MaxPayload <= SegmentLimit
    /\ segment_bytes_ \in Nat /\ MaxAppends \in Nat /\ MaxPayload \in Nat
BY WalAssumption DEF Segments, SegmentLimit

IsFiles(fs) ==
    /\ fs \in [Segments -> Seq(Cells)]
    /\ \A s \in Segments : Len(fs[s]) \in Nat /\ DOMAIN fs[s] = 1 .. Len(fs[s])
    /\ \A s \in Segments : \A i \in 1 .. Len(fs[s]) : fs[s][i] \in Cells

Flushed(d, r, id) == [s \in Segments |-> IF s = id THEN d[s] \o r ELSE d[s]]

LEMMA FlushedFiles ==
    ASSUME NEW d \in [Segments -> Seq(Cells)], NEW r \in Seq(Cells), NEW id
    PROVE  IsFiles(Flushed(d, r, id)) /\ (r = << >> => Flushed(d, r, id) = d)
<1>0. PICK fs : fs = Flushed(d, r, id) /\ fs = [s \in Segments |-> IF s = id THEN d[s] \o r ELSE d[s]]
  BY DEF Flushed
<1>1. ASSUME NEW s \in Segments PROVE (IF s = id THEN d[s] \o r ELSE d[s]) \in Seq(Cells)
  <2>1. d[s] \in Seq(Cells)
    OBVIOUS
  <2> QED BY <2>1
<1>2. fs \in [Segments -> Seq(Cells)]
  BY <1>0, <1>1
<1>3. ASSUME NEW s \in Segments
      PROVE  /\ Len(fs[s]) \in Nat /\ DOMAIN fs[s] = 1 .. Len(fs[s])
             /\ \A i \in 1 .. Len(fs[s]) : fs[s][i] \in Cells
  <2>1. PICK f \in Seq(Cells) : f = fs[s]
    BY <1>2
  <2>2. /\ Len(f) \in Nat /\ DOMAIN f = 1 .. Len(f)
        /\ \A i \in 1 .. Len(f) : f[i] \in Cells
    OBVIOUS
  <2> QED BY <2>1, <2>2
<1>4. ASSUME r = << >>, NEW s \in Segments PROVE fs[s] = d[s]
  <2>1. d[s] \in Seq(Cells)
    OBVIOUS
  <2>2. d[s] \o << >> = d[s]
    BY <2>1
  <2> QED BY <1>0, <2>2, <1>4
<1> QED BY <1>0, <1>2, <1>3, <1>4 DEF IsFiles

\* The files now and after a step.
LEMMA FilesTyped ==
    /\ disk \in [Segments -> Seq(Cells)] /\ buffered \in Seq(Cells) =>
          IsFiles(Files) /\ (buffered = << >> => Files = disk)
    /\ disk' \in [Segments -> Seq(Cells)] /\ buffered' \in Seq(Cells) =>
          IsFiles(Files') /\ (buffered' = << >> => Files' = disk')
<1>1. ASSUME disk \in [Segments -> Seq(Cells)], buffered \in Seq(Cells)
      PROVE  IsFiles(Files) /\ (buffered = << >> => Files = disk)
  <2>1. Files = Flushed(disk, buffered, current_segment_id_)
    BY DEF Files, Flushed
  <2> QED BY <1>1, <2>1, FlushedFiles
<1>2. ASSUME disk' \in [Segments -> Seq(Cells)], buffered' \in Seq(Cells)
      PROVE  IsFiles(Files') /\ (buffered' = << >> => Files' = disk')
  <2>1. Files' = Flushed(disk', buffered', current_segment_id_')
    BY DEF Files, Flushed
  <2> QED BY <1>2, <2>1, FlushedFiles
<1> QED BY <1>1, <1>2

\* The state append() writes in: the file in use as it is, or a new, empty one.
Prepared(t, len) ==
    /\ t.id \in Segments /\ t.offset \in Nat /\ t.bad \in BOOLEAN
    /\ t.disk \in [Segments -> Seq(Cells)] /\ t.pending \in Seq(Cells)
    /\ \/ /\ t.id = current_segment_id_ /\ t.offset = current_segment_offset_ /\ t.bad = bad
          /\ t.disk[t.id] \o t.pending = Files[t.id]
       \/ /\ t.id = current_segment_id_ + 1 /\ t.offset = 0 /\ t.bad = FALSE
          /\ t.disk[t.id] \o t.pending = << >>
    /\ \A s \in Segments : s # t.id => t.disk[s] = Files[s]
    /\ t.offset = 0 \/ t.offset + len <= segment_bytes_
    /\ ~t.bad => Len(t.disk[t.id] \o t.pending) = t.offset

LEMMA RolledDisk ==
    ASSUME NEW f \in [Segments -> Seq(Cells)], NEW a \in Segments, NEW b \in Segments, a # b,
           NEW z \in Seq(Cells)
    PROVE  LET d == [f EXCEPT ![a] = @ \o z, ![b] = << >>]
           IN  /\ d \in [Segments -> Seq(Cells)] /\ d[b] = << >> /\ d[a] = f[a] \o z
               /\ \A s \in Segments : s # a /\ s # b => d[s] = f[s]
<1>1. f[a] \in Seq(Cells) /\ f[a] \o z \in Seq(Cells)
  OBVIOUS
<1> DEFINE d == [f EXCEPT ![a] = @ \o z, ![b] = << >>]
<1>2. d[b] = << >>
  OBVIOUS
<1>3. d[a] = f[a] \o z
  OBVIOUS
<1>4. \A s \in Segments : s # a /\ s # b => d[s] = f[s]
  OBVIOUS
<1>5. d = [s \in Segments |-> d[s]]
  OBVIOUS
<1>6. \A s \in Segments : d[s] \in Seq(Cells)
  <2> HIDE DEF d
  <2> TAKE s \in Segments
  <2>1. << >> \in Seq(Cells) /\ f[s] \in Seq(Cells)
    OBVIOUS
  <2> QED BY <1>1, <1>2, <1>3, <1>4, <2>1
<1>7. d \in [Segments -> Seq(Cells)]
  <2> HIDE DEF d
  <2>1. [s \in Segments |-> d[s]] \in [Segments -> Seq(Cells)]
    BY <1>6
  <2> QED BY <1>5, <2>1, Zenon
<1> QED BY <1>2, <1>3, <1>4, <1>7

LEMMA TargetPrepared ==
    ASSUME Types, Running, up, NEW rec, Len(rec) \in Lengths, Len(appended) < MaxAppends
    PROVE  Prepared(Target(rec), Len(rec))
<1> USE SegmentFacts
<1>0. /\ disk \in [Segments -> Seq(Cells)] /\ buffered \in Seq(Cells) /\ bad \in BOOLEAN
      /\ current_segment_offset_ \in Nat /\ Len(appended) \in Nat
      /\ current_segment_id_ \in Segments /\ current_segment_id_ + 1 \in Segments
      /\ Len(rec) \in Nat /\ current_segment_id_ \in Nat
      /\ ~bad => Len(Files[current_segment_id_]) = current_segment_offset_
  BY SMTT(30) DEF Types, Running, Lengths
<1>1. \A s \in Segments : Files[s] = IF s = current_segment_id_ THEN disk[s] \o buffered ELSE disk[s]
  BY DEF Files
<1>2. CASE Rolls(rec)
  <2>1. PICK a \in Segments, b \in Segments : a = current_segment_id_ /\ b = current_segment_id_ + 1 /\ a # b
    BY <1>0
  <2> DEFINE d == [disk EXCEPT ![a] = @ \o buffered, ![b] = << >>]
  <2>0. disk \in [Segments -> Seq(Cells)] /\ buffered \in Seq(Cells) /\ a # b
    BY <1>0, <2>1
  <2>2. /\ d \in [Segments -> Seq(Cells)] /\ d[b] = << >> /\ d[a] = disk[a] \o buffered
        /\ \A s \in Segments : s # a /\ s # b => d[s] = disk[s]
    BY ONLY <2>0, a \in Segments, b \in Segments, RolledDisk, Zenon
  <2>3. Target(rec) = [id |-> b, offset |-> 0, bad |-> FALSE, pending |-> << >>, disk |-> d]
    BY <1>2, <2>1 DEF Target
  <2> HIDE DEF d
  <2>6. \A s \in Segments : s # b => d[s] = Files[s]
    BY <1>0, <1>1, <2>1, <2>2
  <2>7. d[b] \o << >> = << >>
    BY <2>2
  <2>8. PICK t : t = Target(rec)
    OBVIOUS
  <2>9. t.id = b /\ t.offset = 0 /\ t.bad = FALSE /\ t.pending = << >> /\ t.disk = d
    BY <2>3, <2>8
  <2>10. /\ t.id \in Segments /\ t.offset \in Nat /\ t.bad \in BOOLEAN
         /\ t.disk \in [Segments -> Seq(Cells)] /\ t.pending \in Seq(Cells)
    <3>1. << >> \in Seq(Cells) /\ FALSE \in BOOLEAN
      OBVIOUS
    <3>2. t.bad \in BOOLEAN
      BY <2>9, Zenon
    <3>3. t.id \in Segments /\ t.offset \in Nat
      BY <2>9, <2>1
    <3>4. t.disk \in [Segments -> Seq(Cells)] /\ t.pending \in Seq(Cells)
      BY <2>9, <2>2, <3>1
    <3> QED BY <3>2, <3>3, <3>4
  <2>11. Prepared(t, Len(rec))
    BY <2>1, <2>2, <2>6, <2>7, <2>9, <2>10 DEF Prepared
  <2> QED BY <2>8, <2>11
<1>3. CASE ~Rolls(rec)
  <2>1. Target(rec) = [id |-> current_segment_id_, offset |-> current_segment_offset_, bad |-> bad,
                       pending |-> buffered, disk |-> disk]
    BY <1>3 DEF Target
  <2>2. current_segment_offset_ = 0 \/ current_segment_offset_ + Len(rec) <= segment_bytes_
    BY <1>0, <1>3 DEF Rolls
  <2>3. disk[current_segment_id_] \o buffered = Files[current_segment_id_]
    BY <1>0, <1>1
  <2>8. PICK t : t = Target(rec)
    OBVIOUS
  <2>9. /\ t.id = current_segment_id_ /\ t.offset = current_segment_offset_ /\ t.bad = bad
        /\ t.pending = buffered /\ t.disk = disk
    BY <2>1, <2>8
  <2>11. Prepared(t, Len(rec))
    BY <1>0, <1>1, <2>2, <2>3, <2>9 DEF Prepared
  <2> QED BY <2>8, <2>11
<1> QED BY <1>2, <1>3

\* f is the beginning of base followed by rec.
Begins(f, base, rec) ==
    /\ f \in Seq(Cells) /\ Len(f) <= Len(base) + Len(rec)
    /\ \A i \in 1 .. Len(f) : f[i] = IF i <= Len(base) THEN base[i] ELSE rec[i - Len(base)]

Full(f, base, rec) == Len(f) = Len(base) + Len(rec)

\* To d and the pending p comes r: w is written and rest stays pending.
Wrote(d, p, r, all, base, a, b, w, rest, f) ==
    all = p \o r /\ base = d \o p /\ w = d \o a /\ rest \in {<< >>, b} /\ f = w \o rest

LEMMA WrittenBegins ==
    ASSUME NEW d \in Seq(Cells), NEW p \in Seq(Cells), NEW r \in Seq(Cells), NEW all \in Seq(Cells),
           NEW base \in Seq(Cells), NEW w \in Seq(Cells), NEW k \in 0 .. Len(all),
           NEW a \in Seq(Cells), NEW b \in Seq(Cells), NEW rest \in Seq(Cells), Cut(a, b, all, k),
           NEW f \in Seq(Cells), Wrote(d, p, r, all, base, a, b, w, rest, f)
    PROVE  /\ Begins(f, base, r)
           /\ rest = b => Full(f, base, r)
<1>1. Joins(d, a, b, all)
  BY SplitConcat
<1>2. Associates(d, p, r)
  BY CellsAssociate
<1>3. all = p \o r /\ base = d \o p /\ w = d \o a /\ rest \in {<< >>, b} /\ f = w \o rest
  BY DEF Wrote
<1>5. w \o b = base \o r
  <2>1. (d \o a) \o b = d \o all /\ (d \o p) \o r = d \o (p \o r)
    BY <1>1, <1>2 DEF Joins, Associates
  <2> QED BY <1>3, <2>1, Zenon
<1>6. /\ base \o r \in Seq(Cells) /\ Len(base \o r) = Len(base) + Len(r)
      /\ \A i \in 1 .. Len(base) + Len(r) :
            (base \o r)[i] = IF i <= Len(base) THEN base[i] ELSE r[i - Len(base)]
  BY ConcatProperties
<1>7. /\ w \o b \in Seq(Cells) /\ Len(w \o b) = Len(w) + Len(b)
      /\ \A i \in 1 .. Len(w) + Len(b) :
            (w \o b)[i] = IF i <= Len(w) THEN w[i] ELSE b[i - Len(w)]
  BY ConcatProperties
<1>8. CASE rest = b
  BY <1>3, <1>8, <1>5, <1>6, SMTT(30) DEF Begins, Full
<1>9. CASE rest = << >> /\ rest # b
  <2>1. f = w
    BY <1>3, <1>9
  <2>2. Len(w) \in Nat /\ Len(b) \in Nat /\ Len(w) <= Len(base) + Len(r)
    BY <1>5, <1>6, <1>7
  <2>3. ASSUME NEW i \in 1 .. Len(w)
        PROVE  w[i] = IF i <= Len(base) THEN base[i] ELSE r[i - Len(base)]
    <3>1. i \in 1 .. Len(w) + Len(b) /\ i \in 1 .. Len(base) + Len(r) /\ i <= Len(w)
      BY <2>2, SMTT(30)
    <3>2. (w \o b)[i] = w[i]
      BY <3>1, <1>7
    <3>3. (base \o r)[i] = IF i <= Len(base) THEN base[i] ELSE r[i - Len(base)]
      BY <3>1, <1>6
    <3> QED BY <3>2, <3>3, <1>5
  <2> QED BY <1>9, <2>1, <2>2, <2>3 DEF Begins
<1> QED BY <1>3, <1>8, <1>9

Pending(t, rec, all) == all = t.pending \o rec

\* What a step of append() writes and leaves pending, in terms of the files.
LEMMA WriteEffect ==
    ASSUME NEW t, NEW rec \in Seq(Cells), NEW len, Prepared(t, len), NEW all \in Seq(Cells),
           Pending(t, rec, all), NEW k \in 0 .. Len(all),
           disk' = [t.disk EXCEPT ![t.id] = @ \o SubSeq(all, 1, k)],
           buffered' \in {<< >>, SubSeq(all, k + 1, Len(all))},
           current_segment_id_' = t.id
    PROVE  /\ disk' \in [Segments -> Seq(Cells)] /\ buffered' \in Seq(Cells)
           /\ \A s \in Segments : s # t.id => Files'[s] = Files[s]
           /\ Begins(Files'[t.id], t.disk[t.id] \o t.pending, rec)
           /\ buffered' = SubSeq(all, k + 1, Len(all)) =>
                 Len(Files'[t.id]) = Len(t.disk[t.id] \o t.pending) + Len(rec)
<1>1. PICK id \in Segments, d \in Seq(Cells), p \in Seq(Cells) :
         id = t.id /\ d = t.disk[t.id] /\ p = t.pending /\ t.disk \in [Segments -> Seq(Cells)]
  BY DEF Prepared
<1>2. PICK a \in Seq(Cells), b \in Seq(Cells) : Cut(a, b, all, k)
  BY SplitParts DEF Cut
<1>3. PICK rest \in Seq(Cells) : rest = buffered' /\ rest \in {<< >>, b}
  <2>1. buffered' \in {<< >>, b} /\ << >> \in Seq(Cells)
    BY <1>2 DEF Cut
  <2> QED BY <2>1
<1>4. PICK w \in Seq(Cells) : w = d \o a
  <2>1. d \o a \in Seq(Cells)
    OBVIOUS
  <2> QED BY <2>1
<1>41. PICK base \in Seq(Cells) : base = d \o p
  <2>1. d \o p \in Seq(Cells)
    OBVIOUS
  <2> QED BY <2>1
<1>42. all = p \o rec
  BY <1>1 DEF Pending
<1>44. PICK f \in Seq(Cells) : f = w \o rest
  <2>1. w \o rest \in Seq(Cells)
    OBVIOUS
  <2> QED BY <2>1
<1>43. Wrote(d, p, rec, all, base, a, b, w, rest, f)
  BY <1>3, <1>4, <1>41, <1>42, <1>44, Zenon DEF Wrote
<1>5. /\ Begins(f, base, rec)
      /\ rest = b => Full(f, base, rec)
  BY <1>2, <1>43, WrittenBegins
<1>6. disk' = [t.disk EXCEPT ![id] = w]
  BY <1>1, <1>2, <1>4 DEF Cut
<1>7. disk' \in [Segments -> Seq(Cells)] /\ disk'[id] = w
  BY <1>1, <1>6
<1>8. \A s \in Segments : Files'[s] = IF s = id THEN disk'[s] \o buffered' ELSE disk'[s]
  BY <1>1 DEF Files
<1>9. ASSUME NEW s \in Segments, s # id PROVE Files'[s] = Files[s]
  <2>1. disk'[s] = t.disk[s]
    BY <1>1, <1>6, <1>9
  <2>2. t.disk[s] = Files[s]
    BY <1>1, <1>9 DEF Prepared
  <2> QED BY <1>8, <1>9, <2>1, <2>2
<1>10. Files'[id] = f
  BY <1>3, <1>7, <1>8, <1>44
<1>11. buffered' \in Seq(Cells) /\ (buffered' = SubSeq(all, k + 1, Len(all)) => rest = b)
  BY <1>2, <1>3 DEF Cut
<1>12. t.disk[t.id] \o t.pending = base
  BY <1>1, <1>41
<1>13. Begins(Files'[t.id], t.disk[t.id] \o t.pending, rec)
  BY <1>1, <1>5, <1>10, <1>12
<1>14. rest = b => Len(Files'[t.id]) = Len(t.disk[t.id] \o t.pending) + Len(rec)
  BY <1>1, <1>5, <1>10, <1>12, SMTT(30) DEF Full
<1> QED BY <1>1, <1>7, <1>9, <1>11, <1>13, <1>14

IsRecord(rec, n, len) ==
    /\ Len(rec) = len
    /\ \A i \in 1 .. len : rec[i] = [rec |-> n, part |-> i, len |-> len]

OnBase(t, base) == base = t.disk[t.id] \o t.pending

LEMMA BeginsWrites ==
    ASSUME Types, NEW t, NEW len \in Lengths, Len(appended) < MaxAppends,
           NEW rec \in Seq(Cells), IsRecord(rec, Len(appended) + 1, len), Prepared(t, len),
           NEW base \in Seq(Cells), OnBase(t, base),
           \A s \in Segments : s # t.id => Files'[s] = Files[s],
           Begins(Files'[t.id], base, rec),
           ~t.bad \/ Len(Files'[t.id]) = Len(base)
    PROVE  Writes(t.id, Len(base), len, Len(Files'[t.id]))
<1> USE SegmentFacts
<1>2. len \in Nat /\ Len(rec) = len
  BY DEF Lengths, IsRecord
<1>3. PICK id \in Segments : id = t.id
  BY DEF Prepared
<1>4. PICK f \in Seq(Cells) : f = Files'[id] /\ Begins(f, base, rec)
  BY <1>3 DEF Begins
<1>5. /\ Len(f) \in 0 .. Len(base) + len /\ Len(base) \in Nat
      /\ \A i \in 1 .. Len(f) : i <= Len(base) => f[i] = base[i]
  <2>1. Len(f) <= Len(base) + Len(rec) /\ Len(f) \in Nat /\ Len(base) \in Nat
    BY <1>4 DEF Begins
  <2>2. \A i \in 1 .. Len(f) : i <= Len(base) => f[i] = base[i]
    BY <1>4 DEF Begins
  <2> QED BY <2>1, <2>2, <1>2
<1>6. ASSUME NEW i \in 1 .. Len(f), i > Len(base)
      PROVE  f[i] = [rec |-> Len(appended) + 1, part |-> i - Len(base), len |-> len]
  <2>1. f[i] = rec[i - Len(base)]
    BY <1>4, <1>5, <1>6 DEF Begins
  <2>2. i - Len(base) \in 1 .. len
    BY <1>5, <1>6, <1>2
  <2> QED BY <2>1, <2>2 DEF IsRecord
<1>7. CASE id = current_segment_id_ /\ base = Files[id]
  <2>1. Len(base) = 0 \/ Len(base) + len <= segment_bytes_ \/ Len(f) <= Len(base)
    <3>1. CASE t.bad
      BY <1>3, <1>4, <1>5, <3>1
    <3>2. CASE ~t.bad
      <4>1. Len(base) = t.offset /\ (t.offset = 0 \/ t.offset + len <= segment_bytes_)
        BY <3>2 DEF Prepared, OnBase
      <4> QED BY <4>1, SMTT(30)
    <3> QED BY <3>1, <3>2
  <2>2. Writes(id, Len(base), len, Len(f))
    BY <1>2, <1>3, <1>4, <1>5, <1>6, <1>7, <2>1 DEF Writes
  <2> QED BY <2>2, <1>3, <1>4
<1>8. CASE id = current_segment_id_ + 1 /\ base = << >>
  <2>1. Len(base) = 0
    BY <1>8
  <2>2. Writes(id, Len(base), len, Len(f))
    BY <1>2, <1>3, <1>4, <1>5, <1>6, <1>8, <2>1, SMTT(30) DEF Writes
  <2> QED BY <2>2, <1>3, <1>4
<1>9. \/ t.id = current_segment_id_ /\ t.disk[t.id] \o t.pending = Files[t.id]
      \/ t.id = current_segment_id_ + 1 /\ t.disk[t.id] \o t.pending = << >>
  BY DEF Prepared
<1> QED BY <1>3, <1>7, <1>8, <1>9 DEF OnBase

LEMMA TargetRecord ==
    ASSUME Types, Running, up, Len(appended) < MaxAppends, NEW size \in 0 .. MaxPayload
    PROVE  LET rec == encode_record(Len(appended) + 1, size)
               t == Target(rec)
           IN  /\ Prepared(t, Len(rec)) /\ rec \in Seq(Cells) /\ Len(rec) \in Lengths
               /\ IsRecord(rec, Len(appended) + 1, Len(rec))
               /\ t.disk[t.id] \o t.pending \in Seq(Cells) /\ t.pending \o rec \in Seq(Cells)
<1>1. Len(appended) + 1 \in 1 .. MaxAppends
  BY SegmentFacts DEF Types
<1>2. PICK rec \in Seq(Cells) :
         /\ rec = encode_record(Len(appended) + 1, size) /\ Len(rec) \in Lengths
         /\ IsRecord(rec, Len(appended) + 1, Len(rec))
  BY <1>1, RecordFacts DEF IsRecord
<1>3. PICK t : t = Target(rec) /\ Prepared(t, Len(rec))
  BY <1>2, TargetPrepared
<1>4. PICK d \in Seq(Cells), p \in Seq(Cells) : d = t.disk[t.id] /\ p = t.pending
  BY <1>3 DEF Prepared
<1>5. d \o p \in Seq(Cells) /\ p \o rec \in Seq(Cells)
  OBVIOUS
<1> QED BY <1>2, <1>3, <1>4, <1>5

LEMMA AppendStep ==
    ASSUME Types, Running, NEW ts \in Clock, NEW size \in 0 .. MaxPayload, Append_(ts, size)
    PROVE  \E id \in Segments, b \in Nat, len \in Lengths :
              Writes(id, b, len, b + len) /\ Appends(id, ts) /\ Indexing(id, ts, b, len)
<1> USE SegmentFacts
<1>1. PICK rec : rec = encode_record(Len(appended) + 1, size)
  OBVIOUS
<1>2. PICK t : t = Target(rec)
  OBVIOUS
<1>3. up /\ Len(appended) < MaxAppends /\ ~t.bad
  BY <1>1, <1>2 DEF Append_
<1>4. /\ Prepared(t, Len(rec)) /\ rec \in Seq(Cells) /\ Len(rec) \in Lengths
      /\ t.disk[t.id] \o t.pending \in Seq(Cells) /\ t.pending \o rec \in Seq(Cells)
      /\ IsRecord(rec, Len(appended) + 1, Len(rec))
  BY <1>1, <1>2, <1>3, TargetRecord
<1>5. PICK all \in Seq(Cells) : Pending(t, rec, all)
  BY <1>4 DEF Pending
<1>6. PICK base \in Seq(Cells) : OnBase(t, base)
  BY <1>4 DEF OnBase
<1>7. PICK k \in 0 .. Len(all) :
         /\ disk' = [t.disk EXCEPT ![t.id] = @ \o SubSeq(all, 1, k)]
         /\ buffered' = SubSeq(all, k + 1, Len(all))
  BY <1>1, <1>2, <1>5 DEF Append_, Pending
<1>8. current_segment_id_' = t.id /\ current_segment_offset_' = t.offset + Len(rec)
  BY <1>1, <1>2 DEF Append_
<1>9. /\ disk' \in [Segments -> Seq(Cells)] /\ buffered' \in Seq(Cells)
      /\ \A s \in Segments : s # t.id => Files'[s] = Files[s]
      /\ Begins(Files'[t.id], base, rec)
      /\ Len(Files'[t.id]) = Len(base) + Len(rec)
  BY <1>4, <1>5, <1>6, <1>7, <1>8, WriteEffect DEF OnBase
<1>10. Writes(t.id, Len(base), Len(rec), Len(Files'[t.id]))
  BY <1>3, <1>4, <1>6, <1>9, BeginsWrites
<1>11. Len(base) = t.offset /\ t.id \in Segments /\ t.offset \in Nat
  BY <1>3, <1>4, <1>6 DEF Prepared, OnBase
<1>12. Appends(t.id, ts)
  BY <1>3, <1>8, <1>9 DEF Append_, Appends
<1>13. Indexing(t.id, ts, t.offset, Len(rec))
  <2>1. t.id = current_segment_id_ => t.offset = current_segment_offset_
    <3>1. current_segment_id_ \in Nat
      BY DEF Types
    <3>2. \/ t.id = current_segment_id_ /\ t.offset = current_segment_offset_
          \/ t.id = current_segment_id_ + 1
      BY <1>4 DEF Prepared
    <3> QED BY <3>1, <3>2
  <2> QED BY <1>1, <1>2, <1>8, <2>1 DEF Append_, Indexing
<1> QED BY <1>4, <1>6, <1>9, <1>10, <1>11, <1>12, <1>13

LEMMA FailStep ==
    ASSUME Types, Running, NEW ts \in Clock, NEW size \in 0 .. MaxPayload, AppendFails(ts, size)
    PROVE  \E id \in Segments, b \in Nat, len \in Lengths, m \in Nat :
              Writes(id, b, len, m) /\ Appends(id, ts) /\ Failing(id, b, m)
<1> USE SegmentFacts
<1>1. PICK rec : rec = encode_record(Len(appended) + 1, size)
  OBVIOUS
<1>2. PICK t : t = Target(rec)
  OBVIOUS
<1>0. faults \in 0 .. MaxFaults /\ MaxFaults \in Nat /\ (bad => faults > 0)
  BY WalAssumption DEF Types, Running
<1>3. up /\ Len(appended) < MaxAppends
  BY <1>1, <1>2 DEF AppendFails
<1>4. /\ Prepared(t, Len(rec)) /\ rec \in Seq(Cells) /\ Len(rec) \in Lengths
      /\ t.disk[t.id] \o t.pending \in Seq(Cells) /\ t.pending \o rec \in Seq(Cells)
      /\ IsRecord(rec, Len(appended) + 1, Len(rec))
  BY <1>1, <1>2, <1>3, TargetRecord
<1>5. PICK all \in Seq(Cells) : Pending(t, rec, all)
  BY <1>4 DEF Pending
<1>6. PICK base \in Seq(Cells) : OnBase(t, base)
  BY <1>4 DEF OnBase
<1>7. current_segment_id_' = t.id /\ current_segment_offset_' = t.offset
  BY <1>1, <1>2 DEF AppendFails
<1>8. t.id \in Segments /\ Len(base) \in Nat /\ t.bad \in BOOLEAN
  BY <1>4 DEF Prepared
<1>9. ASSUME disk' \in [Segments -> Seq(Cells)], buffered' \in Seq(Cells),
             \A s \in Segments : s # t.id => Files'[s] = Files[s],
             Begins(Files'[t.id], base, rec),
             ~t.bad \/ Len(Files'[t.id]) = Len(base),
             faults' \in 1 .. MaxFaults
      PROVE  \E id \in Segments, b \in Nat, len \in Lengths, m \in Nat :
                Writes(id, b, len, m) /\ Appends(id, ts) /\ Failing(id, b, m)
  <2>1. Writes(t.id, Len(base), Len(rec), Len(Files'[t.id]))
    BY <1>3, <1>4, <1>6, <1>9, BeginsWrites
  <2>2. Appends(t.id, ts)
    BY <1>3, <1>7, <1>9 DEF AppendFails, Appends
  <2>3. Failing(t.id, Len(base), Len(Files'[t.id]))
    <3>1. \/ t.id = current_segment_id_ /\ t.offset = current_segment_offset_
          \/ t.id = current_segment_id_ + 1 /\ t.offset = 0
      BY <1>4 DEF Prepared
    <3>2. t.offset = Len(base) \/ Len(Files'[t.id]) <= Len(base)
      <4>1. ~t.bad => Len(t.disk[t.id] \o t.pending) = t.offset
        BY <1>4 DEF Prepared
      <4>2. ~t.bad => Len(base) = t.offset
        BY <1>6, <4>1 DEF OnBase
      <4> QED BY <1>8, <1>9, <4>2
    <3>3. current_segment_id_ \in Nat
      BY DEF Types
    <3>4. t.id = current_segment_id_ => Len(base) = current_segment_offset_ \/ Len(Files'[t.id]) <= Len(base)
      BY <3>1, <3>2, <3>3
    <3>5. index_' = index_ /\ bad' = TRUE
      BY DEF AppendFails
    <3> QED BY <1>7, <1>9, <3>1, <3>4, <3>5 DEF Failing
  <2>4. Len(Files'[t.id]) \in Nat
    BY <2>1, <1>8 DEF Writes, Lengths
  <2> QED BY <1>4, <1>8, <2>1, <2>2, <2>3, <2>4
<1>10. CASE t.bad
  <2>1. disk' = t.disk /\ buffered' = t.pending /\ faults' = faults
    BY <1>1, <1>2, <1>10 DEF AppendFails
  <2>2. faults \in 1 .. MaxFaults
    <3>1. t.bad = bad
      BY <1>4, <1>10 DEF Prepared
    <3> QED BY <1>0, <1>10, <3>1
  <2>3. \A s \in Segments : Files'[s] = IF s = t.id THEN t.disk[s] \o t.pending ELSE t.disk[s]
    BY <1>7, <2>1 DEF Files
  <2>4. Files'[t.id] = base
    BY <1>6, <1>8, <2>3 DEF OnBase
  <2>5. Begins(base, base, rec)
    BY <1>4 DEF Begins, Lengths
  <2>6. \A s \in Segments : s # t.id => Files'[s] = Files[s]
    BY <1>4, <2>3 DEF Prepared
  <2>7. disk' \in [Segments -> Seq(Cells)] /\ buffered' \in Seq(Cells)
    BY <1>4, <2>1 DEF Prepared
  <2> QED BY <1>9, <2>1, <2>2, <2>4, <2>5, <2>6, <2>7
<1>11. CASE ~t.bad
  <2>1. /\ faults < MaxFaults /\ faults' = faults + 1
        /\ \E k \in 0 .. Len(all) - 1 :
             /\ disk' = [t.disk EXCEPT ![t.id] = @ \o SubSeq(all, 1, k)]
             /\ buffered' \in {<< >>, SubSeq(all, k + 1, Len(all))}
    BY <1>1, <1>2, <1>5, <1>11 DEF AppendFails, Pending
  <2>2. PICK k \in 0 .. Len(all) :
             /\ disk' = [t.disk EXCEPT ![t.id] = @ \o SubSeq(all, 1, k)]
             /\ buffered' \in {<< >>, SubSeq(all, k + 1, Len(all))}
    <3>1. 0 .. Len(all) - 1 \subseteq 0 .. Len(all)
      OBVIOUS
    <3> QED BY <2>1, <3>1
  <2>3. /\ disk' \in [Segments -> Seq(Cells)] /\ buffered' \in Seq(Cells)
        /\ \A s \in Segments : s # t.id => Files'[s] = Files[s]
        /\ Begins(Files'[t.id], base, rec)
    BY <1>4, <1>5, <1>6, <1>7, <2>2, WriteEffect DEF OnBase
  <2>4. faults' \in 1 .. MaxFaults
    BY <1>0, <2>1
  <2> QED BY <1>9, <1>11, <2>3, <2>4
<1> QED BY <1>8, <1>10, <1>11

LEMMA FlushKeeps ==
    ASSUME Types, Running, NEW on \in BOOLEAN, up, up' = on,
           disk' = [disk EXCEPT ![current_segment_id_] = @ \o buffered], buffered' = << >>,
           UNCHANGED <<lives, current_segment_id_, current_segment_offset_, index_, sequence,
                       bad, appended, faults, reader>>
    PROVE  Keeps
<1> USE SegmentFacts
<1>1. PICK id \in Segments : id = current_segment_id_
  BY DEF Types, Running
<1>2. disk \in [Segments -> Seq(Cells)] /\ buffered \in Seq(Cells)
  BY DEF Types
<1>3. PICK f \in Seq(Cells) : f = disk[id] \o buffered
  <2>1. disk[id] \in Seq(Cells)
    BY <1>2
  <2>2. disk[id] \o buffered \in Seq(Cells)
    BY <1>2, <2>1
  <2> QED BY <2>2
<1>4. disk' = [disk EXCEPT ![id] = f]
  BY <1>1, <1>3
<1>5. disk' \in [Segments -> Seq(Cells)] /\ buffered' \in Seq(Cells)
  <2>1. << >> \in Seq(Cells)
    OBVIOUS
  <2>2. disk' \in [Segments -> Seq(Cells)]
    BY <1>2, <1>4
  <2> QED BY <2>1, <2>2
<1>6. Files' = disk'
  BY <1>5, FilesTyped
<1>7. ASSUME NEW s \in Segments PROVE Files[s] = disk'[s]
  BY <1>1, <1>2, <1>3, <1>4 DEF Files
<1>8. Files' = Files
  <2>1. Files = [s \in Segments |-> Files[s]] /\ disk' = [s \in Segments |-> disk'[s]]
    BY <1>5 DEF Files
  <2> QED BY <1>6, <1>7, <2>1
<1>9. \A s \in Segments : Len(Files[s]) \in Nat
  BY <1>2, FilesTyped DEF IsFiles
<1>10. faults' \in faults .. MaxFaults
  BY WalAssumption DEF Types
<1>11. up' \in BOOLEAN
  BY Zenon
<1> QED BY <1>5, <1>8, <1>9, <1>10, <1>11 DEF Keeps

LEMMA CrashKeeps ==
    ASSUME Types, Running, Crash PROVE Keeps
<1> USE SegmentFacts
<1>1. PICK id \in Segments : id = current_segment_id_
  BY DEF Types, Running, Crash
<1>2. disk \in [Segments -> Seq(Cells)] /\ buffered \in Seq(Cells)
  BY DEF Types
<1>3. disk' = disk /\ buffered' = << >> /\ << >> \in Seq(Cells)
  BY DEF Crash
<1>4. Files' = disk
  BY <1>2, <1>3, FilesTyped
<1>5. ASSUME NEW s \in Segments
      PROVE  /\ Len(Files'[s]) <= Len(Files[s])
             /\ s # id => Len(Files'[s]) = Len(Files[s])
             /\ \A i \in 1 .. Len(Files'[s]) : Files'[s][i] = Files[s][i]
  <2>1. PICK d \in Seq(Cells), r \in Seq(Cells) : d = disk[s] /\ r = buffered
    BY <1>2
  <2>2. Files[s] = IF s = id THEN d \o r ELSE d
    BY <1>1, <2>1 DEF Files
  <2>3. Len(d) <= Len(d \o r) /\ \A i \in 1 .. Len(d) : (d \o r)[i] = d[i]
    OBVIOUS
  <2>4. Len(d) \in Nat
    OBVIOUS
  <2> QED BY <1>4, <2>1, <2>2, <2>3, <2>4
<1>10. faults' \in faults .. MaxFaults
  BY WalAssumption DEF Types, Crash
<1>11. up' \in BOOLEAN /\ up' = FALSE
  BY Zenon DEF Crash
<1>12. /\ UNCHANGED <<lives, current_segment_id_, current_segment_offset_, index_, sequence, bad,
                      appended, reader>>
       /\ up
  BY DEF Crash
<1> QED BY <1>1, <1>2, <1>3, <1>5, <1>10, <1>11, <1>12 DEF Keeps

LEMMA DamageKeeps ==
    ASSUME Types, Running, Damage PROVE Keeps
<1> USE SegmentFacts
<1>1. PICK s \in Segments : \E i \in DOMAIN disk[s] : disk' = [disk EXCEPT ![s][i] = Junk]
  BY DEF Damage
<1>2. PICK i \in DOMAIN disk[s] : disk' = [disk EXCEPT ![s][i] = Junk]
  BY <1>1
<1>3. disk \in [Segments -> Seq(Cells)] /\ buffered \in Seq(Cells) /\ buffered = << >> /\ ~up
  BY DEF Types, Running, Damage
<1>4. PICK d \in Seq(Cells) : d = disk[s]
  BY <1>3
<1>5. PICK e \in Seq(Cells) : e = [d EXCEPT ![i] = Junk]
  <2>1. i \in 1 .. Len(d) /\ Junk \in Cells
    BY <1>4, JunkIsCell
  <2> QED BY <2>1, ExceptSeq
<1>6. /\ Len(e) = Len(d) /\ Len(d) \in Nat
      /\ \A j \in 1 .. Len(e) : e[j] = d[j] \/ e[j] = Junk
  <2>1. i \in 1 .. Len(d) /\ Junk \in Cells
    BY <1>4, JunkIsCell
  <2> QED BY <2>1, <1>5, ExceptSeq
<1>7. disk' = [disk EXCEPT ![s] = e]
  BY <1>2, <1>4, <1>5
<1>8. disk' \in [Segments -> Seq(Cells)] /\ disk'[s] = e /\ \A r \in Segments : r # s => disk'[r] = disk[r]
  BY <1>3, <1>7
<1>9. buffered' = << >> /\ << >> \in Seq(Cells) /\ up' = up /\ up' = FALSE
  BY <1>3 DEF Damage, writer
<1>10. Files' = disk' /\ Files = disk
  BY <1>3, <1>8, <1>9, FilesTyped
<1>11. faults' \in faults .. MaxFaults /\ faults' > 0
  <2>1. faults \in 0 .. MaxFaults /\ MaxFaults \in Nat
    BY WalAssumption DEF Types
  <2>2. faults < MaxFaults /\ faults' = faults + 1
    BY DEF Damage
  <2> QED BY <2>1, <2>2
<1>12. ASSUME NEW r \in Segments
       PROVE  /\ Len(Files'[r]) <= Len(Files[r]) /\ Len(Files'[r]) = Len(Files[r])
              /\ \A j \in 1 .. Len(Files'[r]) :
                   Files'[r][j] = Files[r][j] \/ (Files'[r][j] = Junk /\ faults' > 0)
  <2>1. CASE r = s
    BY <1>4, <1>6, <1>8, <1>10, <1>11, <2>1
  <2>2. CASE r # s
    <3>1. Len(disk[r]) \in Nat
      BY <1>3
    <3> QED BY <1>8, <1>10, <2>2, <3>1
  <2> QED BY <2>1, <2>2
<1>13. /\ UNCHANGED <<lives, current_segment_id_, current_segment_offset_, index_, sequence, bad,
                      appended, reader>>
       /\ ~reader.loaded
  BY DEF Damage, writer
<1> QED BY <1>3, <1>8, <1>9, <1>11, <1>12, <1>13 DEF Keeps

LEMMA KeepSteps ==
    ASSUME Types, Running, Flush \/ Close \/ Crash \/ Damage PROVE Keeps
<1>1. CASE Flush
  <2>1. TRUE \in BOOLEAN /\ up' = TRUE
    BY <1>1 DEF Flush
  <2> QED BY <1>1, <2>1, FlushKeeps DEF Flush
<1>2. CASE Close
  <2>1. FALSE \in BOOLEAN /\ up' = FALSE
    BY <1>2 DEF Close
  <2> QED BY <1>2, <2>1, FlushKeeps DEF Close
<1> QED BY <1>1, <1>2, CrashKeeps, DamageKeeps

LEMMA RefuseSpoils ==
    ASSUME Types, Running, NEW ts \in Clock, AppendRefuses(ts) PROVE Spoils
<1>1. /\ up /\ up' /\ lives' = lives /\ index_' = index_ /\ reader' = reader /\ bad' = bad
      /\ current_segment_id_' = current_segment_id_
      /\ current_segment_offset_' = current_segment_offset_
      /\ disk' = disk /\ buffered' = buffered
      /\ faults < MaxFaults /\ faults' = faults + 1
      /\ Len(appended) < MaxAppends
      /\ appended' = Append(appended, Header(ts)) /\ sequence' = sequence + 1
  BY Zenon DEF AppendRefuses
<1>2. disk \in [Segments -> Seq(Cells)] /\ buffered \in Seq(Cells)
  BY DEF Types
<1>3. faults' \in 1 .. MaxFaults
  BY <1>1, WalAssumption DEF Types
<1>4. Files' = Files
  BY <1>1 DEF Files
<1>5. Refused(ts)
  BY <1>1, <1>2 DEF Refused, Appends
<1>6. \A s \in Segments : Len(Files[s]) \in Nat
  BY <1>2, FilesTyped DEF IsFiles
<1> QED BY <1>1, <1>2, <1>3, <1>4, <1>5, <1>6 DEF Spoils

LEMMA UnopenedSpoils ==
    ASSUME Types, Running, NEW ts \in Clock, NEW size \in 0 .. MaxPayload, AppendUnopened(ts, size)
    PROVE  Spoils
<1> USE SegmentFacts
<1>1. /\ up /\ up' /\ lives' = lives /\ index_' = index_ /\ reader' = reader /\ bad' = TRUE
      /\ current_segment_id_' = current_segment_id_ + 1 /\ current_segment_offset_' = 0
      /\ disk' = [disk EXCEPT ![current_segment_id_] = @ \o buffered] /\ buffered' = << >>
      /\ faults < MaxFaults /\ faults' = faults + 1
      /\ Len(appended) < MaxAppends
      /\ appended' = Append(appended, Header(ts)) /\ sequence' = sequence + 1
  BY Zenon DEF AppendUnopened
<1>2. PICK id \in Segments : id = current_segment_id_
  BY <1>1 DEF Types, Running
<1>3. disk \in [Segments -> Seq(Cells)] /\ buffered \in Seq(Cells)
  BY DEF Types
<1>4. PICK f \in Seq(Cells) : f = disk[id] \o buffered
  <2>1. disk[id] \in Seq(Cells)
    BY <1>3
  <2>2. disk[id] \o buffered \in Seq(Cells)
    BY <1>3, <2>1
  <2> QED BY <2>2
<1>5. disk' = [disk EXCEPT ![id] = f]
  BY <1>1, <1>2, <1>4
<1>6. disk' \in [Segments -> Seq(Cells)] /\ buffered' \in Seq(Cells)
  <2>1. << >> \in Seq(Cells)
    OBVIOUS
  <2>2. disk' \in [Segments -> Seq(Cells)]
    BY <1>3, <1>5
  <2> QED BY <1>1, <2>1, <2>2
<1>7. ASSUME NEW s \in Segments PROVE Files'[s] = Files[s]
  <2>1. Files'[s] = disk'[s]
    BY <1>1, <1>6, FilesTyped
  <2> QED BY <1>2, <1>3, <1>4, <1>5, <2>1 DEF Files
<1>8. faults' \in 1 .. MaxFaults
  BY <1>1, WalAssumption DEF Types
<1>9. Refused(ts)
  BY <1>1, <1>6 DEF Refused, Appends
<1>10. \A s \in Segments : Len(Files[s]) \in Nat
  BY <1>3, FilesTyped DEF IsFiles
<1>11. \A s \in Segments :
          /\ Len(Files'[s]) <= Len(Files[s])
          /\ \A i \in 1 .. Len(Files'[s]) : Files'[s][i] = Files[s][i]
  BY <1>7, <1>10
<1>12. \E r \in Clock : Refused(r)
  BY <1>9
<1> QED BY <1>1, <1>6, <1>8, <1>11, <1>12, Zenon DEF Spoils

LEMMA FlushFailSpoils ==
    ASSUME Types, Running, FlushFails PROVE Spoils
<1> USE SegmentFacts
<1>1. /\ up /\ up' /\ lives' = lives /\ index_' = index_ /\ reader' = reader /\ bad' = TRUE
      /\ current_segment_id_' = current_segment_id_
      /\ current_segment_offset_' = current_segment_offset_
      /\ appended' = appended /\ sequence' = sequence
      /\ faults < MaxFaults /\ faults' = faults + 1
  BY Zenon DEF FlushFails
<1>2. PICK id \in Segments : id = current_segment_id_
  BY <1>1 DEF Types, Running
<1>3. disk \in [Segments -> Seq(Cells)] /\ buffered \in Seq(Cells)
  BY DEF Types
<1>4. PICK k \in 0 .. Len(buffered) :
         /\ disk' = [disk EXCEPT ![id] = @ \o SubSeq(buffered, 1, k)]
         /\ buffered' \in {<< >>, SubSeq(buffered, k + 1, Len(buffered))}
  <2>1. 0 .. Len(buffered) - 1 \subseteq 0 .. Len(buffered)
    BY <1>3
  <2> QED BY <1>2, <2>1 DEF FlushFails
<1>5. PICK a \in Seq(Cells), b \in Seq(Cells) : Cut(a, b, buffered, k)
  BY <1>3, SplitParts DEF Cut
<1>6. PICK d \in Seq(Cells), w \in Seq(Cells), base \in Seq(Cells) :
         d = disk[id] /\ w = d \o a /\ base = d \o buffered
  <2>1. disk[id] \in Seq(Cells)
    BY <1>3
  <2>2. disk[id] \o a \in Seq(Cells) /\ disk[id] \o buffered \in Seq(Cells)
    BY <1>3, <2>1
  <2> QED BY <2>1, <2>2
<1>7. PICK rest \in Seq(Cells) : rest = buffered' /\ rest \in {<< >>, b}
  <2>1. buffered' \in {<< >>, b} /\ << >> \in Seq(Cells)
    BY <1>4, <1>5 DEF Cut
  <2> QED BY <2>1
<1>8. w \o b = base
  <2>1. PICK all \in Seq(Cells) : all = buffered
    BY <1>3
  <2>2. Joins(d, a, b, all)
    <3>1. Cut(a, b, all, k) /\ k \in 0 .. Len(all)
      BY <1>5, <2>1
    <3> QED BY <3>1, SplitConcat
  <2> QED BY <1>6, <2>1, <2>2, Zenon DEF Joins
<1>9. disk' = [disk EXCEPT ![id] = w]
  BY <1>4, <1>5, <1>6 DEF Cut
<1>10. disk' \in [Segments -> Seq(Cells)] /\ buffered' \in Seq(Cells)
  BY <1>3, <1>7, <1>9
<1>11. ASSUME NEW s \in Segments
       PROVE  /\ Len(Files'[s]) <= Len(Files[s])
              /\ \A i \in 1 .. Len(Files'[s]) : Files'[s][i] = Files[s][i]
  <2>1. Files[s] = IF s = id THEN base ELSE disk[s]
    BY <1>2, <1>6 DEF Files
  <2>2. Files'[s] = IF s = id THEN w \o rest ELSE disk[s]
    BY <1>1, <1>2, <1>3, <1>7, <1>9 DEF Files
  <2>3. /\ Len(w \o rest) <= Len(base)
        /\ \A i \in 1 .. Len(w \o rest) : (w \o rest)[i] = base[i]
    <3>1. CASE rest = b
      <4>1. Len(base) \in Nat
        OBVIOUS
      <4> QED BY <1>8, <3>1, <4>1
    <3>2. CASE rest = << >>
      <4>1. w \o rest = w
        BY <3>2
      <4>2. /\ Len(w) <= Len(w \o b) /\ \A i \in 1 .. Len(w) : (w \o b)[i] = w[i]
        OBVIOUS
      <4> QED BY <1>8, <4>1, <4>2
    <3> QED BY <1>7, <3>1, <3>2
  <2>4. Len(disk[s]) \in Nat
    BY <1>3
  <2> QED BY <2>1, <2>2, <2>3, <2>4
<1>12. faults' \in 1 .. MaxFaults
  BY <1>1, WalAssumption DEF Types
<1> QED BY <1>1, <1>10, <1>11, <1>12 DEF Spoils

-----------------------------------------------------------------------------
(* The writer's invariant                                                  *)

LEMMA KeepsWriter ==
    ASSUME WriterInv, Keeps PROVE WriterInv'
<1> USE SegmentFacts
<1>0. /\ Types /\ Running /\ CellsAppended /\ FilesLimited /\ SegmentsBounded
      /\ IndexBehind /\ IndexLocates /\ IndexComplete /\ LivesPast /\ IndexOrdered
      /\ ClosedOnDisk /\ CellsPlaced /\ FirstLife /\ FirstLifeOrder
  BY DEF WriterInv
<1>1. /\ lives' = lives /\ current_segment_id_' = current_segment_id_
      /\ current_segment_offset_' = current_segment_offset_ /\ index_' = index_
      /\ sequence' = sequence /\ bad' = bad /\ appended' = appended
      /\ disk' \in [Segments -> Seq(Cells)] /\ buffered' \in Seq(Cells)
      /\ up' \in BOOLEAN /\ (up' => up /\ Files' = Files) /\ (~up' => buffered' = << >>)
      /\ faults' \in faults .. MaxFaults
  BY DEF Keeps
<1>2. faults \in 0 .. MaxFaults /\ MaxFaults \in Nat /\ faults' \in 0 .. MaxFaults /\ (faults' = 0 => faults = 0)
  BY <1>0, <1>1, WalAssumption DEF Types
<1>3. IsFiles(Files) /\ IsFiles(Files')
  BY <1>0, <1>1, FilesTyped DEF Types
<1>4. /\ \A s \in Segments : DOMAIN Files[s] = 1 .. Len(Files[s]) /\ DOMAIN Files'[s] = 1 .. Len(Files'[s])
      /\ \A s \in Segments : Len(Files[s]) \in Nat /\ Len(Files'[s]) \in Nat
  BY <1>3 DEF IsFiles
<1>5. \A s \in Segments :
          /\ Len(Files'[s]) <= Len(Files[s])
          /\ s # current_segment_id_ => Len(Files'[s]) = Len(Files[s])
          /\ \A i \in 1 .. Len(Files'[s]) : i \in 1 .. Len(Files[s]) /\
                (Files'[s][i] = Files[s][i] \/ (Files'[s][i] = Junk /\ faults' > 0))
  BY <1>4 DEF Keeps
<1>6. Types'
  BY <1>0, <1>1, <1>2 DEF Types, Headers, Entries, Cells, Clock, Segments, SegmentLimit, Lengths
<1>7. Running'
  BY <1>0, <1>1, <1>2 DEF Running
<1>8. CellsAppended'
  <2>1. ASSUME NEW s \in Segments, NEW i \in 1 .. Len(Files'[s]) PROVE Files'[s][i].rec <= Len(appended)
    <3>1. Len(appended) \in Nat /\ Junk.rec = 0
      BY <1>0 DEF Types, Junk
    <3>2. i \in DOMAIN Files[s] /\ (Files'[s][i] = Files[s][i] \/ Files'[s][i] = Junk)
      BY <1>4, <1>5
    <3>3. Files[s][i].rec <= Len(appended)
      BY <1>0, <3>2 DEF CellsAppended
    <3> QED BY <3>1, <3>2, <3>3
  <2> QED BY <1>1, <1>4, <2>1 DEF CellsAppended
<1>9. FilesLimited'
  <2>1. ASSUME NEW s \in Segments PROVE Len(Files'[s]) <= SegmentLimit
    BY <1>0, <1>4, <1>5 DEF FilesLimited
  <2> QED BY <2>1 DEF FilesLimited
<1>10. SegmentsBounded'
  <2>1. ASSUME NEW s \in Segments
        PROVE  \/ Len(Files'[s]) <= segment_bytes_
               \/ \E r \in DOMAIN appended : \A i \in 1 .. Len(Files'[s]) : Files'[s][i].rec \in {0, r}
    <3>1. CASE Len(Files[s]) <= segment_bytes_
      BY <1>4, <1>5, <3>1
    <3>2. CASE \E r \in DOMAIN appended : \A i \in DOMAIN Files[s] : Files[s][i].rec \in {0, r}
      <4>1. PICK r \in DOMAIN appended : \A i \in DOMAIN Files[s] : Files[s][i].rec \in {0, r}
        BY <3>2
      <4>2. Junk.rec = 0
        BY DEF Junk
      <4>3. \A i \in 1 .. Len(Files'[s]) : Files'[s][i].rec \in {0, r}
        BY <1>4, <1>5, <4>1, <4>2
      <4> QED BY <4>3
    <3> QED BY <1>0, <3>1, <3>2 DEF SegmentsBounded
  <2> QED BY <1>1, <1>4, <2>1 DEF SegmentsBounded
<1>11. IndexBehind'
  BY <1>0, <1>1 DEF IndexBehind
<1>12. IndexLocates'
  <2>1. ASSUME NEW e \in {index_[i] : i \in DOMAIN index_}
        PROVE  /\ up' /\ faults' = 0 => e.offset + e.record_length <= Len(Files'[e.segment_id])
               /\ \A i \in 1 .. e.record_length :
                     e.offset + i <= Len(Files'[e.segment_id]) =>
                         Files'[e.segment_id][e.offset + i] \in
                             {Junk, [rec |-> e.rec, part |-> i, len |-> e.record_length]}
    <3>1. PICK s \in Segments, off \in Nat, len \in Nat :
             s = e.segment_id /\ off = e.offset /\ len = e.record_length
      <4>1. e \in Entries
        BY <1>0 DEF Types
      <4> QED BY <4>1 DEF Entries, Lengths
    <3>2. /\ up /\ faults = 0 => off + len <= Len(Files[s])
          /\ \A i \in 1 .. len : off + i <= Len(Files[s]) =>
                Files[s][off + i] \in {Junk, [rec |-> e.rec, part |-> i, len |-> len]}
      BY <1>0, <3>1 DEF IndexLocates
    <3>3. up' /\ faults' = 0 => off + len <= Len(Files'[s])
      BY <1>1, <1>2, <3>2
    <3>4. ASSUME NEW i \in 1 .. len, off + i <= Len(Files'[s])
          PROVE  Files'[s][off + i] \in {Junk, [rec |-> e.rec, part |-> i, len |-> len]}
      <4>1. off + i \in 1 .. Len(Files'[s]) /\ off + i <= Len(Files[s])
        BY <1>4, <1>5, <3>4
      <4> QED BY <1>5, <3>2, <4>1
    <3> QED BY <3>1, <3>3, <3>4
  <2> QED BY <1>1, <2>1 DEF IndexLocates
<1>13. IndexComplete' /\ LivesPast' /\ IndexOrdered'
  BY <1>0, <1>1, <1>2 DEF IndexComplete, LivesPast, IndexOrdered, Former
<1>14. ClosedOnDisk'
  <2>1. ASSUME faults' = 0, NEW k \in DOMAIN index_, index_[k].segment_id < current_segment_id_
        PROVE  index_[k].offset + index_[k].record_length <= Len(Files'[index_[k].segment_id])
    <3>1. index_[k].segment_id \in Segments /\ index_[k].segment_id # current_segment_id_
      <4>1. index_[k] \in Entries /\ current_segment_id_ \in Nat
        BY <1>0 DEF Types
      <4> QED BY <2>1, <4>1 DEF Entries
    <3> QED BY <1>0, <1>2, <1>5, <2>1, <3>1 DEF ClosedOnDisk
  <2> QED BY <1>1, <2>1 DEF ClosedOnDisk
<1>15. CellsPlaced'
  <2>1. ASSUME faults' = 0, NEW s \in Segments, NEW i \in 1 .. Len(Files'[s])
        PROVE  i \in 1 .. Len(Files[s]) /\ Files'[s][i] = Files[s][i]
    BY <1>5, <2>1
  <2>2. Former' = Former
    BY <1>1 DEF Former
  <2>3. ASSUME faults' = 0, NEW s \in Segments, NEW i \in DOMAIN Files'[s]
        PROVE  /\ Files'[s][i] # Junk
               /\ Files'[s][i].rec > Former =>
                     /\ s = index_[Files'[s][i].rec - Former].segment_id
                     /\ i = index_[Files'[s][i].rec - Former].offset + Files'[s][i].part
    <3>1. i \in DOMAIN Files[s] /\ Files'[s][i] = Files[s][i] /\ faults = 0
      BY <1>2, <1>4, <2>1, <2>3
    <3> QED BY <1>0, <3>1 DEF CellsPlaced
  <2> QED BY <1>1, <2>2, <2>3 DEF CellsPlaced
<1>16. FirstLife'
  <2>1. ASSUME NEW s \in Segments, Files[s] = << >> PROVE Files'[s] = << >>
    <3>1. PICK f \in Seq(Cells) : f = Files'[s] /\ Len(f) = 0
      <4>1. Files'[s] \in Seq(Cells) /\ Len(Files[s]) = 0
        BY <1>3, <2>1 DEF IsFiles
      <4> QED BY <1>4, <1>5, <4>1
    <3> QED BY <3>1
  <2> QED BY <1>0, <1>1, <2>1 DEF FirstLife
<1>17. FirstLifeOrder'
  <2>1. ASSUME NEW s \in Segments, NEW i \in 1 .. Len(Files'[s]), Files'[s][i] # Junk
        PROVE  i \in 1 .. Len(Files[s]) /\ Files'[s][i] = Files[s][i]
    BY <1>5, <2>1
  <2>2. ASSUME lives <= 1, NEW s \in Segments, NEW t \in Segments, NEW i \in DOMAIN Files'[s],
               NEW j \in DOMAIN Files'[t], s < t \/ (s = t /\ i < j),
               Files'[s][i] # Junk, Files'[t][j] # Junk
        PROVE  Before(Files'[s][i], Files'[t][j])
    <3>1. /\ i \in DOMAIN Files[s] /\ Files'[s][i] = Files[s][i]
          /\ j \in DOMAIN Files[t] /\ Files'[t][j] = Files[t][j]
      BY <1>4, <2>1, <2>2
    <3> QED BY <1>0, <2>2, <3>1 DEF FirstLifeOrder
  <2> QED BY <1>1, <2>2 DEF FirstLifeOrder, Before
<1> QED BY <1>6, <1>7, <1>8, <1>9, <1>10, <1>11, <1>12, <1>13, <1>14, <1>15, <1>16, <1>17 DEF WriterInv

\* A cell after append() was there before or is one of the new record.
LEMMA WrittenCells ==
    ASSUME Types, IsFiles(Files), IsFiles(Files'), NEW id, NEW b, NEW len, NEW m, Writes(id, b, len, m)
    PROVE  /\ current_segment_id_ \in Nat /\ id \in Segments /\ b \in Nat /\ m \in Nat /\ len \in Nat /\ len >= 3
           /\ \A s \in Segments : \A i \in 1 .. Len(Files'[s]) :
                \/ /\ i \in 1 .. Len(Files[s]) /\ Files'[s][i] = Files[s][i]
                   /\ s # id \/ (i <= b /\ id = current_segment_id_)
                \/ /\ s = id /\ i > b
                   /\ Files'[s][i] = [rec |-> Len(appended) + 1, part |-> i - b, len |-> len]
<1> USE SegmentFacts
<1>1. /\ id \in Segments /\ b \in Nat /\ len \in Lengths /\ m \in 0 .. b + len
      /\ \/ id = current_segment_id_ /\ b = Len(Files[id])
         \/ id = current_segment_id_ + 1 /\ b = 0
      /\ Len(Files'[id]) = m
      /\ \A s \in Segments : s # id => Files'[s] = Files[s]
      /\ \A i \in 1 .. m : i <= b => Files'[id][i] = Files[id][i]
      /\ \A i \in 1 .. m : i > b =>
            Files'[id][i] = [rec |-> Len(appended) + 1, part |-> i - b, len |-> len]
  BY DEF Writes
<1>2. current_segment_id_ \in Nat /\ m \in Nat /\ len \in Nat /\ len >= 3
  BY <1>1 DEF Types, Lengths
<1>3. \A s \in Segments : Len(Files[s]) \in Nat
  BY DEF IsFiles
<1>4. ASSUME NEW s \in Segments, NEW i \in 1 .. Len(Files'[s])
      PROVE  \/ /\ i \in 1 .. Len(Files[s]) /\ Files'[s][i] = Files[s][i]
                /\ s # id \/ (i <= b /\ id = current_segment_id_)
             \/ /\ s = id /\ i > b
                /\ Files'[s][i] = [rec |-> Len(appended) + 1, part |-> i - b, len |-> len]
  <2>1. CASE s # id
    BY <1>1, <2>1
  <2>2. CASE s = id /\ i <= b
    BY <1>1, <1>2, <1>3, <2>2
  <2>3. CASE s = id /\ i > b
    BY <1>1, <2>3
  <2> QED BY <1>1, <2>1, <2>2, <2>3
<1> QED BY <1>1, <1>2, <1>4

LEMMA AppendedHistory ==
    ASSUME Types, Running, NEW id, NEW ts, Appends(id, ts)
    PROVE  /\ appended' \in Seq(Headers) /\ Len(appended) \in Nat /\ Len(appended') = Len(appended) + 1
           /\ Len(appended') <= MaxAppends
           /\ \A n \in 1 .. Len(appended) : appended'[n] = appended[n]
           /\ appended'[Len(appended) + 1] = Header(ts)
           /\ DOMAIN appended = 1 .. Len(appended) /\ DOMAIN appended' = 1 .. Len(appended) + 1
<1> USE SegmentFacts
<1>1. appended \in Seq(Headers) /\ Len(appended) <= MaxAppends /\ sequence \in Nat /\ sequence <= Len(appended)
      /\ lives \in 0 .. MaxLives /\ MaxLives \in Nat
  BY WalAssumption DEF Types
<1>2. Len(appended) < MaxAppends /\ ts \in Clock /\ appended' = Append(appended, Header(ts)) /\ lives >= 1
  BY DEF Appends, Running
<1>3. Header(ts) \in Headers
  BY <1>1, <1>2 DEF Header, Headers
<1>4. PICK h \in Headers : h = Header(ts)
  BY <1>3
<1>5. appended' = Append(appended, h)
  BY <1>2, <1>4
<1> HIDE <1>4
<1>6. /\ Append(appended, h) \in Seq(Headers) /\ Len(Append(appended, h)) = Len(appended) + 1
      /\ \A n \in 1 .. Len(appended) : Append(appended, h)[n] = appended[n]
      /\ Append(appended, h)[Len(appended) + 1] = h
      /\ DOMAIN appended = 1 .. Len(appended) /\ DOMAIN Append(appended, h) = 1 .. Len(appended) + 1
      /\ Len(appended) \in Nat
  BY <1>1
<1> QED BY <1>1, <1>2, <1>4, <1>5, <1>6

\* The index after append(): one entry more, or the same.
LEMMA IndexHistory ==
    ASSUME Types, NEW id \in Segments, NEW ts \in Clock, NEW b \in Nat, NEW len \in Lengths,
           Len(appended) < MaxAppends, Indexing(id, ts, b, len)
    PROVE  /\ index_' \in Seq(Entries) /\ Len(index_) \in Nat /\ Len(index_') = Len(index_) + 1
           /\ \A k \in 1 .. Len(index_) : index_'[k] = index_[k] /\ index_[k] \in Entries
           /\ index_'[Len(index_) + 1] =
                [timestamp_ns |-> ts, segment_id |-> id, offset |-> b,
                 record_length |-> len, rec |-> Len(appended) + 1]
           /\ DOMAIN index_ = 1 .. Len(index_) /\ DOMAIN index_' = 1 .. Len(index_) + 1
<1> USE SegmentFacts
<1>1. index_ \in Seq(Entries) /\ Len(appended) \in Nat
  BY DEF Types
<1>2. PICK e \in Entries : e = [timestamp_ns |-> ts, segment_id |-> id, offset |-> b,
                                record_length |-> len, rec |-> Len(appended) + 1]
  <2>1. Len(appended) + 1 \in 1 .. MaxAppends
    BY <1>1
  <2> QED BY <2>1 DEF Entries
<1>3. index_' = Append(index_, e)
  BY <1>2 DEF Indexing
<1> HIDE <1>2
<1>4. /\ Append(index_, e) \in Seq(Entries) /\ Len(Append(index_, e)) = Len(index_) + 1
      /\ \A k \in 1 .. Len(index_) : Append(index_, e)[k] = index_[k] /\ index_[k] \in Entries
      /\ Append(index_, e)[Len(index_) + 1] = e
      /\ DOMAIN index_ = 1 .. Len(index_) /\ DOMAIN Append(index_, e) = 1 .. Len(index_) + 1
      /\ Len(index_) \in Nat
  BY <1>1
<1> QED BY <1>2, <1>3, <1>4

\* What append() keeps whether it succeeds or not.
LEMMA WritesFiles ==
    ASSUME WriterInv, NEW id, NEW ts, NEW b, NEW len, NEW m, Writes(id, b, len, m), Appends(id, ts)
    PROVE  /\ CellsAppended' /\ FilesLimited' /\ SegmentsBounded'
           /\ LivesPast' /\ FirstLife' /\ FirstLifeOrder'
<1> USE SegmentFacts
<1>0. /\ Types /\ Running /\ CellsAppended /\ FilesLimited /\ SegmentsBounded
      /\ LivesPast /\ FirstLife /\ FirstLifeOrder
  BY DEF WriterInv
<1>1. IsFiles(Files) /\ IsFiles(Files')
  BY <1>0, FilesTyped DEF Types, Appends
<1>2. /\ \A s \in Segments : DOMAIN Files[s] = 1 .. Len(Files[s]) /\ DOMAIN Files'[s] = 1 .. Len(Files'[s])
      /\ \A s \in Segments : Len(Files[s]) \in Nat /\ Len(Files'[s]) \in Nat
  BY <1>1 DEF IsFiles
<1>3. /\ current_segment_id_ \in Nat /\ id \in Segments /\ b \in Nat /\ m \in Nat /\ len \in Nat /\ len >= 3
      /\ \A s \in Segments : \A i \in 1 .. Len(Files'[s]) :
            \/ /\ i \in 1 .. Len(Files[s]) /\ Files'[s][i] = Files[s][i]
               /\ s # id \/ (i <= b /\ id = current_segment_id_)
            \/ /\ s = id /\ i > b
               /\ Files'[s][i] = [rec |-> Len(appended) + 1, part |-> i - b, len |-> len]
  BY <1>0, <1>1, WrittenCells
<1>4. /\ Len(appended) \in Nat /\ Len(appended') = Len(appended) + 1
      /\ \A n \in 1 .. Len(appended) : appended'[n] = appended[n]
      /\ appended'[Len(appended) + 1] = Header(ts)
      /\ DOMAIN appended = 1 .. Len(appended) /\ DOMAIN appended' = 1 .. Len(appended) + 1
  BY <1>0, AppendedHistory
<1>5. /\ current_segment_id_' = id /\ lives' = lives /\ sequence' = sequence + 1 /\ up
  BY DEF Appends
<1>6. /\ \/ id = current_segment_id_ /\ b = Len(Files[id])
         \/ id = current_segment_id_ + 1 /\ b = 0
      /\ b + len <= segment_bytes_ \/ b = 0 \/ m <= b
      /\ Len(Files'[id]) = m /\ m <= b + len /\ len <= kRecordOverhead + MaxPayload
      /\ \A s \in Segments : s # id => Files'[s] = Files[s]
  BY DEF Writes, Lengths
<1>7. CellsAppended'
  <2>1. ASSUME NEW s \in Segments, NEW i \in 1 .. Len(Files'[s]) PROVE Files'[s][i].rec <= Len(appended) + 1
    <3>1. CASE i \in 1 .. Len(Files[s]) /\ Files'[s][i] = Files[s][i]
      <4>1. Files[s][i].rec <= Len(appended) /\ Files[s][i] \in Cells
        BY <1>0, <1>1, <1>2, <3>1 DEF CellsAppended, IsFiles
      <4>2. Files[s][i].rec \in Nat
        BY <4>1, CellFacts
      <4> QED BY <1>4, <3>1, <4>1, <4>2
    <3>2. CASE Files'[s][i] = [rec |-> Len(appended) + 1, part |-> i - b, len |-> len]
      BY <1>4, <3>2
    <3> QED BY <1>3, <3>1, <3>2
  <2> QED BY <1>2, <1>4, <2>1 DEF CellsAppended
<1>8. FilesLimited'
  <2>1. ASSUME NEW s \in Segments PROVE Len(Files'[s]) <= SegmentLimit
    <3>1. CASE s # id
      BY <1>0, <1>6, <3>1 DEF FilesLimited
    <3>2. CASE s = id
      <4>1. b <= SegmentLimit
        BY <1>0, <1>3, <1>6 DEF FilesLimited
      <4> QED BY <1>3, <1>6, <3>2, <4>1
    <3> QED BY <3>1, <3>2
  <2> QED BY <2>1 DEF FilesLimited
<1>9. SegmentsBounded'
  <2>1. ASSUME NEW s \in Segments
        PROVE  \/ Len(Files'[s]) <= segment_bytes_
               \/ \E r \in 1 .. Len(appended) + 1 : \A i \in 1 .. Len(Files'[s]) : Files'[s][i].rec \in {0, r}
    <3>1. CASE \A i \in 1 .. Len(Files'[s]) : i \in 1 .. Len(Files[s]) /\ Files'[s][i] = Files[s][i]
      <4>1. CASE Len(Files[s]) <= segment_bytes_
        <5>1. Len(Files'[s]) <= Len(Files[s])
          BY <1>2, <3>1
        <5> QED BY <1>2, <4>1, <5>1
      <4>2. CASE \E r \in DOMAIN appended : \A i \in DOMAIN Files[s] : Files[s][i].rec \in {0, r}
        <5>1. PICK r \in DOMAIN appended : \A i \in DOMAIN Files[s] : Files[s][i].rec \in {0, r}
          BY <4>2
        <5>2. r \in 1 .. Len(appended) + 1
          BY <1>4
        <5>3. ASSUME NEW i \in 1 .. Len(Files'[s]) PROVE Files'[s][i].rec \in {0, r}
          BY <1>2, <3>1, <5>1
        <5> QED BY <5>2, <5>3
      <4> QED BY <1>0, <4>1, <4>2 DEF SegmentsBounded
    <3>2. CASE s = id /\ b + len <= segment_bytes_
      BY <1>3, <1>6, <3>2
    <3>3. CASE s = id /\ b = 0
      <4>1. ASSUME NEW i \in 1 .. Len(Files'[s]) PROVE Files'[s][i].rec = Len(appended) + 1
        <5>1. i \in Nat /\ i >= 1
          BY <1>2
        <5>2. ~(i <= b)
          BY <3>3, <5>1
        <5>3. Files'[s][i] = [rec |-> Len(appended) + 1, part |-> i - b, len |-> len]
          BY <1>3, <3>3, <5>2
        <5> QED BY <5>3
      <4>2. Len(appended) + 1 \in 1 .. Len(appended) + 1
        BY <1>4
      <4> QED BY <4>1, <4>2
    <3>4. CASE s = id /\ m <= b
      <4>1. ASSUME NEW i \in 1 .. Len(Files'[s]) PROVE i \in 1 .. Len(Files[s]) /\ Files'[s][i] = Files[s][i]
        <5>1. i \in Nat /\ i <= b
          BY <1>2, <1>3, <1>6, <3>4
        <5>2. ~(i > b)
          BY <1>3, <5>1
        <5> QED BY <1>3, <3>4, <5>2
      <4> QED BY <3>1, <4>1
    <3>5. CASE s # id
      <4>1. \A i \in 1 .. Len(Files'[s]) : i \in 1 .. Len(Files[s]) /\ Files'[s][i] = Files[s][i]
        BY <1>3, <3>5
      <4> QED BY <3>1, <4>1
    <3> QED BY <1>6, <3>2, <3>3, <3>4, <3>5
  <2> QED BY <1>2, <1>4, <2>1, ZenonT(40) DEF SegmentsBounded
<1>10. LivesPast'
  <2>1. lives \in Nat /\ Header(ts).life = lives
    BY <1>0, WalAssumption DEF Types, Header
  <2>2. ASSUME NEW n \in 1 .. Len(appended) + 1 PROVE appended'[n].life <= lives
    <3>1. CASE n \in 1 .. Len(appended)
      BY <1>0, <1>4, <3>1 DEF LivesPast
    <3>2. CASE n = Len(appended) + 1
      BY <1>4, <2>1, <3>2
    <3> QED BY <1>4, <3>1, <3>2
  <2> QED BY <1>4, <1>5, <2>2 DEF LivesPast
<1>11. FirstLife'
  <2>1. lives \in Nat /\ lives >= 1 /\ Header(ts).sequence = sequence
    BY <1>0, <1>5, WalAssumption DEF Types, Running, Header
  <2>2. ASSUME lives <= 1
        PROVE  /\ sequence + 1 = Len(appended) + 1
               /\ \A n \in 1 .. Len(appended) + 1 : appended'[n].sequence = n - 1
               /\ \A s \in Segments : s > id => Files'[s] = << >>
    <3>1. /\ sequence = Len(appended)
          /\ \A n \in DOMAIN appended : appended[n].sequence = n - 1
          /\ \A s \in Segments : s > current_segment_id_ => Files[s] = << >>
      BY <1>0, <2>2 DEF FirstLife
    <3>2. ASSUME NEW n \in 1 .. Len(appended) + 1 PROVE appended'[n].sequence = n - 1
      <4>1. CASE n \in 1 .. Len(appended)
        BY <1>4, <3>1, <4>1
      <4>2. CASE n = Len(appended) + 1
        BY <1>4, <2>1, <3>1, <4>2
      <4> QED BY <1>4, <4>1, <4>2
    <3>3. ASSUME NEW s \in Segments, s > id PROVE Files'[s] = << >>
      BY <1>3, <1>6, <3>1, <3>3
    <3> QED BY <3>1, <3>2, <3>3
  <2> QED BY <1>4, <1>5, <2>1, <2>2 DEF FirstLife
<1>12. FirstLifeOrder'
  <2>1. ASSUME lives <= 1, NEW s \in Segments, NEW t \in Segments, NEW i \in 1 .. Len(Files'[s]),
               NEW j \in 1 .. Len(Files'[t]), s < t \/ (s = t /\ i < j),
               Files'[s][i] # Junk, Files'[t][j] # Junk
        PROVE  Before(Files'[s][i], Files'[t][j])
    <3> DEFINE OldAt(u, k) == /\ k \in 1 .. Len(Files[u]) /\ Files'[u][k] = Files[u][k]
                              /\ u # id \/ (k <= b /\ id = current_segment_id_)
               NewAt(u, k) == /\ u = id /\ k > b
                              /\ Files'[u][k] = [rec |-> Len(appended) + 1, part |-> k - b, len |-> len]
    <3>1. (OldAt(s, i) \/ NewAt(s, i)) /\ (OldAt(t, j) \/ NewAt(t, j))
      BY <1>3
    <3>2. CASE OldAt(s, i) /\ OldAt(t, j)
      BY <1>0, <1>2, <2>1, <3>2 DEF FirstLifeOrder
    <3>3. CASE OldAt(s, i) /\ NewAt(t, j)
      <4>1. Files[s][i].rec <= Len(appended) /\ Files[s][i] \in Cells
        BY <1>0, <1>1, <1>2, <3>3 DEF CellsAppended, IsFiles
      <4>2. Files[s][i].rec \in Nat
        BY <4>1, CellFacts
      <4> QED BY <1>4, <3>3, <4>1, <4>2 DEF Before
    <3>4. CASE NewAt(s, i) /\ OldAt(t, j)
      <4>1. CASE t > id
        <5>1. Files[t] = << >>
          BY <1>0, <1>3, <1>6, <2>1, <4>1 DEF FirstLife
        <5> QED BY <3>4, <5>1
      <4>2. CASE t = id
        BY <1>3, <2>1, <3>4, <4>2
      <4> QED BY <1>3, <2>1, <3>4, <4>1, <4>2
    <3>5. CASE NewAt(s, i) /\ NewAt(t, j)
      BY <1>3, <1>4, <2>1, <3>5 DEF Before
    <3> QED BY <3>1, <3>2, <3>3, <3>4, <3>5
  <2>2. ASSUME lives <= 1, NEW s \in Segments, NEW t \in Segments, NEW i \in DOMAIN Files'[s],
               NEW j \in DOMAIN Files'[t], s < t \/ (s = t /\ i < j),
               Files'[s][i] # Junk, Files'[t][j] # Junk
        PROVE  Before(Files'[s][i], Files'[t][j])
    BY <1>2, <2>1, <2>2
  <2> QED BY <1>5, <2>2 DEF FirstLifeOrder, Before
<1> QED BY <1>7, <1>8, <1>9, <1>10, <1>11, <1>12

\* An entry of the index is as IndexLocates says, of the files fs.
Located(e, fs) ==
    \A i \in 1 .. e.record_length : e.offset + i <= Len(fs[e.segment_id]) =>
        fs[e.segment_id][e.offset + i] \in {Junk, [rec |-> e.rec, part |-> i, len |-> e.record_length]}

Written(e, fs) == e.offset + e.record_length <= Len(fs[e.segment_id])

LEMMA LocatesEach ==
    /\ IndexLocates <=> \A k \in DOMAIN index_ :
          (up /\ faults = 0 => Written(index_[k], Files)) /\ Located(index_[k], Files)
    /\ IndexLocates' <=> \A k \in DOMAIN index_' :
          (up' /\ faults' = 0 => Written(index_'[k], Files')) /\ Located(index_'[k], Files')
BY DEF IndexLocates, Located, Written

\* A successful append(): its entry addresses the record, the other entries keep theirs.
LEMMA IndexingWriter ==
    ASSUME WriterInv, NEW id \in Segments, NEW ts, NEW b \in Nat, NEW len \in Lengths,
           Writes(id, b, len, b + len), Appends(id, ts), Indexing(id, ts, b, len)
    PROVE  WriterInv'
<1> USE SegmentFacts
<1>0. /\ Types /\ Running /\ CellsAppended /\ IndexBehind /\ IndexLocates /\ IndexComplete
      /\ IndexOrdered /\ ClosedOnDisk /\ CellsPlaced
  BY DEF WriterInv
<1>1. IsFiles(Files) /\ IsFiles(Files')
  BY <1>0, FilesTyped DEF Types, Appends
<1>2. /\ \A s \in Segments : DOMAIN Files[s] = 1 .. Len(Files[s]) /\ DOMAIN Files'[s] = 1 .. Len(Files'[s])
      /\ \A s \in Segments : Len(Files[s]) \in Nat /\ Len(Files'[s]) \in Nat
  BY <1>1 DEF IsFiles
<1>3. /\ current_segment_id_ \in Nat /\ len \in Nat /\ len >= 3 /\ id \in Nat
      /\ \A s \in Segments : \A i \in 1 .. Len(Files'[s]) :
            \/ /\ i \in 1 .. Len(Files[s]) /\ Files'[s][i] = Files[s][i]
               /\ s # id \/ (i <= b /\ id = current_segment_id_)
            \/ /\ s = id /\ i > b
               /\ Files'[s][i] = [rec |-> Len(appended) + 1, part |-> i - b, len |-> len]
  BY <1>0, <1>1, WrittenCells, SMTT(30)
<1>4. /\ appended' \in Seq(Headers) /\ Len(appended) \in Nat /\ Len(appended') = Len(appended) + 1
      /\ Len(appended') <= MaxAppends
      /\ \A n \in 1 .. Len(appended) : appended'[n] = appended[n]
      /\ appended'[Len(appended) + 1] = Header(ts)
      /\ DOMAIN appended = 1 .. Len(appended) /\ DOMAIN appended' = 1 .. Len(appended) + 1
  BY <1>0, AppendedHistory
<1>5. /\ current_segment_id_' = id /\ lives' = lives /\ sequence' = sequence + 1 /\ up /\ up' /\ ts \in Clock
      /\ Len(appended) < MaxAppends
      /\ disk' \in [Segments -> Seq(Cells)] /\ buffered' \in Seq(Cells)
      /\ current_segment_offset_' = b + len /\ bad' = FALSE /\ faults' = faults
      /\ id = current_segment_id_ => b = current_segment_offset_
  BY DEF Appends, Indexing
<1>6. /\ \/ id = current_segment_id_ /\ b = Len(Files[id])
         \/ id = current_segment_id_ + 1 /\ b = 0
      /\ b + len <= segment_bytes_ \/ b = 0
      /\ Len(Files'[id]) = b + len /\ len <= kRecordOverhead + MaxPayload
      /\ \A s \in Segments : s # id => Files'[s] = Files[s]
  BY <1>3 DEF Writes, Lengths
<1>7. /\ index_' \in Seq(Entries) /\ Len(index_) \in Nat /\ Len(index_') = Len(index_) + 1
      /\ \A k \in 1 .. Len(index_) : index_'[k] = index_[k] /\ index_[k] \in Entries
      /\ index_'[Len(index_) + 1] =
            [timestamp_ns |-> ts, segment_id |-> id, offset |-> b,
             record_length |-> len, rec |-> Len(appended) + 1]
      /\ DOMAIN index_ = 1 .. Len(index_) /\ DOMAIN index_' = 1 .. Len(index_) + 1
  BY <1>0, <1>5, IndexHistory
<1>71. /\ Len(index_) \in Nat /\ Len(appended) \in Nat
       /\ DOMAIN index_ = 1 .. Len(index_) /\ DOMAIN appended = 1 .. Len(appended)
  BY <1>4, <1>7
<1>8. Types'
  <2>1. up' \in BOOLEAN /\ bad' \in BOOLEAN
    BY <1>5, Zenon
  <2>2. lives' \in 0 .. MaxLives /\ faults' \in 0 .. MaxFaults
    BY <1>0, <1>5 DEF Types
  <2>3. current_segment_id_' \in 0 .. MaxAppends + 1 /\ current_segment_offset_' \in 0 .. SegmentLimit
    <3>1. b + len \in Nat /\ b + len <= SegmentLimit
      BY <1>3, <1>6
    <3>2. id \in 0 .. MaxAppends + 1
      OBVIOUS
    <3> QED BY <1>5, <3>1, <3>2
  <2>4. sequence' \in Nat /\ sequence' <= Len(appended')
    <3>1. sequence \in Nat /\ sequence <= Len(appended)
      BY <1>0 DEF Types
    <3> QED BY <1>4, <1>5, <3>1, SMTT(30)
  <2> QED BY <1>4, <1>5, <1>7, <2>1, <2>2, <2>3, <2>4
          DEF Types, Headers, Entries, Cells, Clock, Segments, SegmentLimit, Lengths
<1>9. Running'
  <2>1. current_segment_id_ \in 1 .. Len(appended) + 1 /\ lives >= 1
    BY <1>0, <1>5 DEF Running
  <2>2. id \in 1 .. Len(appended') + 1
    BY <1>3, <1>4, <1>6, <2>1
  <2> QED BY <1>5, <1>6, <2>1, <2>2 DEF Running
\* For each old entry: where it is, relative to the new one.
<1>10. ASSUME NEW k \in 1 .. Len(index_)
       PROVE  /\ index_[k].segment_id \in Segments /\ index_[k].offset \in Nat /\ index_[k].record_length \in Nat
              /\ index_[k].segment_id \in Nat
              /\ index_[k].segment_id < id \/ (index_[k].segment_id = id /\ id = current_segment_id_
                                               /\ index_[k].offset + index_[k].record_length <= b)
  <2>1. index_[k] \in Entries
    BY <1>7
  <2>2. /\ index_[k].segment_id \in Segments /\ index_[k].offset \in Nat /\ index_[k].record_length \in Nat
        /\ index_[k].segment_id \in Nat
    BY <2>1, SMTT(30) DEF Entries, Lengths
  <2>3. /\ index_[k].segment_id <= current_segment_id_
        /\ index_[k].segment_id = current_segment_id_ =>
              index_[k].offset + index_[k].record_length <= current_segment_offset_
    BY <1>0, <1>7 DEF IndexBehind
  <2>4. PICK g \in Nat, x \in Nat :
           g = index_[k].segment_id /\ x = index_[k].offset + index_[k].record_length
    <3>1. PICK y \in Nat, z \in Nat : y = index_[k].offset /\ z = index_[k].record_length
      BY <2>2, Zenon
    <3>2. y + z \in Nat
      OBVIOUS
    <3> QED BY <2>2, <3>1, <3>2, Zenon
  <2>5. g < id \/ (g = id /\ id = current_segment_id_ /\ x <= b)
    <3>1. g <= current_segment_id_ /\ (g = current_segment_id_ => x <= current_segment_offset_)
      BY <2>3, <2>4
    <3>2. id = current_segment_id_ \/ id = current_segment_id_ + 1
      BY <1>6
    <3>3. CASE id = current_segment_id_
      <4>1. b = current_segment_offset_ /\ id \in Nat
        BY <1>3, <1>5, <3>3
      <4> QED BY <3>1, <3>3, <4>1
    <3>4. CASE id = current_segment_id_ + 1
      <4>1. current_segment_id_ \in Nat
        BY <1>3
      <4>2. g < id
        BY <3>1, <3>4, <4>1
      <4> QED BY <4>2
    <3> QED BY <3>2, <3>3, <3>4
  <2> QED BY <2>2, <2>4, <2>5
<1>11. IndexBehind'
  <2>1. ASSUME NEW k \in 1 .. Len(index_) + 1
        PROVE  /\ index_'[k].segment_id <= id
               /\ index_'[k].segment_id = id => index_'[k].offset + index_'[k].record_length <= b + len
    <3>1. CASE k \in 1 .. Len(index_)
      <4>1. PICK g \in Nat, x \in Nat :
               /\ g = index_[k].segment_id /\ x = index_[k].offset + index_[k].record_length
               /\ g < id \/ (g = id /\ x <= b)
        <5>1. /\ index_[k].segment_id \in Nat /\ index_[k].offset \in Nat /\ index_[k].record_length \in Nat
              /\ index_[k].segment_id < id \/ (index_[k].segment_id = id
                                               /\ index_[k].offset + index_[k].record_length <= b)
          BY <1>10, <3>1
        <5>2. index_[k].offset + index_[k].record_length \in Nat
          BY <5>1, SMTT(30)
        <5> QED BY <5>1, <5>2
      <4>2. g <= id /\ (g = id => x <= b + len)
        BY <1>3, <4>1
      <4> QED BY <1>7, <3>1, <4>1, <4>2
    <3>2. CASE k = Len(index_) + 1
      BY <1>3, <1>7, <3>2
    <3> QED BY <1>7, <3>1, <3>2
  <2> QED BY <1>5, <1>7, <2>1 DEF IndexBehind
<1>12. IndexLocates'
  <2>1. ASSUME NEW k \in 1 .. Len(index_) + 1
        PROVE  (up' /\ faults' = 0 => Written(index_'[k], Files')) /\ Located(index_'[k], Files')
    <3>1. CASE k \in 1 .. Len(index_)
      <4>1. PICK e : e = index_[k] /\ e = index_'[k]
        BY <1>7, <3>1
      <4>2. PICK s \in Segments, off \in Nat, n \in Nat : s = e.segment_id /\ off = e.offset /\ n = e.record_length
        BY <1>10, <3>1, <4>1
      <4>3. (faults = 0 => Written(e, Files)) /\ Located(e, Files)
        BY <1>0, <1>5, <1>7, <3>1, <4>1, LocatesEach
      <4>4. s < id \/ (s = id /\ id = current_segment_id_ /\ off + n <= b)
        BY <1>10, <3>1, <4>1, <4>2
      <4>5. CASE s < id
        <5>1. Files'[s] = Files[s]
          BY <1>3, <1>6, <4>5
        <5> QED BY <1>5, <4>1, <4>2, <4>3, <5>1 DEF Written, Located
      <4>6. CASE s = id /\ id = current_segment_id_ /\ off + n <= b
        <5>1. b = Len(Files[s]) /\ Len(Files'[s]) = b + len
          BY <1>3, <1>6, <4>6
        <5>2. off + n <= Len(Files'[s])
          BY <1>3, <4>6, <5>1
        <5>3. ASSUME NEW i \in 1 .. n
              PROVE  Files'[s][off + i] \in {Junk, [rec |-> e.rec, part |-> i, len |-> n]}
          <6>1. off + i \in 1 .. b /\ off + i \in 1 .. Len(Files'[s]) /\ ~(off + i > b)
            BY <1>3, <4>6, <5>1
          <6>2. Files'[s][off + i] = Files[s][off + i]
            BY <1>3, <6>1
          <6>3. Files[s][off + i] \in {Junk, [rec |-> e.rec, part |-> i, len |-> n]}
            <7>1. off + i <= Len(Files[s])
              BY <5>1, <6>1
            <7> QED BY <4>2, <4>3, <7>1 DEF Located
          <6> QED BY <6>2, <6>3
        <5> QED BY <4>1, <4>2, <5>2, <5>3 DEF Written, Located
      <4> QED BY <4>4, <4>5, <4>6
    <3>2. CASE k = Len(index_) + 1
      <4>1. PICK e : e = index_'[k] /\ e.segment_id = id /\ e.offset = b /\ e.record_length = len
                     /\ e.rec = Len(appended) + 1
        BY <1>7, <3>2
      <4>2. Written(e, Files')
        BY <1>6, <1>3, <4>1 DEF Written
      <4>3. ASSUME NEW i \in 1 .. len
            PROVE  Files'[id][b + i] = [rec |-> Len(appended) + 1, part |-> i, len |-> len]
        <5>1. b + i \in 1 .. Len(Files'[id]) /\ b + i > b /\ (b + i) - b = i /\ ~(b + i <= b)
          BY <1>3, <1>6
        <5> QED BY <1>3, <5>1
      <4> QED BY <4>1, <4>2, <4>3 DEF Located
    <3> QED BY <1>7, <3>1, <3>2
  <2> QED BY <1>7, <2>1, LocatesEach
<1>13. IndexOrdered'
  <2>1. ASSUME NEW j \in 1 .. Len(index_) + 1, NEW k \in 1 .. Len(index_) + 1, j < k
        PROVE  \/ index_'[j].segment_id < index_'[k].segment_id
               \/ /\ index_'[j].segment_id = index_'[k].segment_id
                  /\ index_'[j].offset + index_'[j].record_length <= index_'[k].offset
    <3>1. CASE k \in 1 .. Len(index_)
      <4>1. j \in 1 .. Len(index_)
        BY <1>7, <2>1, <3>1
      <4> QED BY <1>0, <1>7, <2>1, <3>1, <4>1 DEF IndexOrdered
    <3>2. CASE k = Len(index_) + 1
      <4>1. j \in 1 .. Len(index_)
        BY <1>7, <2>1, <3>2
      <4> QED BY <1>7, <1>10, <3>2, <4>1
    <3> QED BY <1>7, <3>1, <3>2
  <2> QED BY <1>7, <2>1 DEF IndexOrdered
<1>14. ClosedOnDisk'
  <2>1. ASSUME faults = 0, NEW k \in 1 .. Len(index_) + 1, index_'[k].segment_id < id
        PROVE  index_'[k].offset + index_'[k].record_length <= Len(Files'[index_'[k].segment_id])
    <3>1. k \in 1 .. Len(index_)
      BY <1>3, <1>7, <2>1
    <3>2. index_'[k] = index_[k] /\ Written(index_[k], Files)
      BY <1>0, <1>5, <1>7, <2>1, <3>1, LocatesEach
    <3>3. Files'[index_[k].segment_id] = Files[index_[k].segment_id]
      BY <1>3, <1>6, <1>10, <2>1, <3>1, <3>2
    <3> QED BY <3>2, <3>3 DEF Written
  <2> QED BY <1>5, <1>7, <2>1 DEF ClosedOnDisk
<1>15. Former' = Former
  BY <1>4, <1>7 DEF Former
<1>16. IndexComplete'
  <2>1. ASSUME faults = 0
        PROVE  /\ Former >= 0
               /\ \A k \in 1 .. Len(index_) + 1 : index_'[k].rec = Former + k
               /\ \A n \in 1 .. Len(appended) + 1 : appended'[n].life = lives => n > Former
    <3>0. Former \in Int /\ Former = Len(appended) - Len(index_)
      BY <1>71 DEF Former
    <3>1. /\ Former >= 0
          /\ \A k \in 1 .. Len(index_) : index_[k].rec = Former + k
          /\ \A n \in 1 .. Len(appended) : appended[n].life = lives => n > Former
      BY <1>0, <1>71, <2>1 DEF IndexComplete
    <3>2. ASSUME NEW k \in 1 .. Len(index_) + 1 PROVE index_'[k].rec = Former + k
      <4>1. CASE k \in 1 .. Len(index_)
        BY <1>7, <3>1, <4>1
      <4>2. CASE k = Len(index_) + 1
        <5>1. index_'[k].rec = Len(appended) + 1
          BY <1>7, <4>2
        <5>2. Former + (Len(index_) + 1) = Len(appended) + 1
          BY <1>71, <3>0
        <5> QED BY <4>2, <5>1, <5>2
      <4> QED BY <1>7, <4>1, <4>2
    <3>3. ASSUME NEW n \in 1 .. Len(appended) + 1, appended'[n].life = lives PROVE n > Former
      <4>1. CASE n \in 1 .. Len(appended)
        BY <1>4, <3>1, <3>3, <4>1
      <4>2. CASE n = Len(appended) + 1
        BY <1>71, <3>0, <4>2
      <4> QED BY <1>71, <4>1, <4>2
    <3> QED BY <3>1, <3>2, <3>3
  <2> QED BY <1>4, <1>5, <1>7, <1>15, <2>1 DEF IndexComplete
<1>17. CellsPlaced'
  <2>1. ASSUME faults = 0, NEW s \in Segments, NEW i \in 1 .. Len(Files'[s])
        PROVE  /\ Files'[s][i] # Junk
               /\ Files'[s][i].rec > Former =>
                     /\ s = index_'[Files'[s][i].rec - Former].segment_id
                     /\ i = index_'[Files'[s][i].rec - Former].offset + Files'[s][i].part
    <3>0. Former \in Int /\ Former = Len(appended) - Len(index_)
      BY <1>71 DEF Former
    <3>1. Former >= 0
      BY <1>0, <2>1 DEF IndexComplete
    <3>2. CASE i \in 1 .. Len(Files[s]) /\ Files'[s][i] = Files[s][i]
      <4>1. Files[s][i].rec <= Len(appended) /\ Files[s][i] \in Cells
        BY <1>0, <1>1, <1>2, <3>2 DEF CellsAppended, IsFiles
      <4>2. PICK r \in Nat : r = Files[s][i].rec /\ r <= Len(appended)
        BY <4>1, CellFacts
      <4>3. /\ Files[s][i] # Junk
            /\ r > Former => s = index_[r - Former].segment_id /\ i = index_[r - Former].offset + Files[s][i].part
        BY <1>0, <1>2, <2>1, <3>2, <4>2 DEF CellsPlaced
      <4>4. r > Former => r - Former \in 1 .. Len(index_)
        BY <1>71, <3>0, <3>1, <4>2
      <4>5. r > Former => index_'[r - Former] = index_[r - Former]
        BY <1>7, <4>4
      <4> QED BY <3>2, <4>2, <4>3, <4>5
    <3>3. CASE s = id /\ i > b /\ Files'[s][i] = [rec |-> Len(appended) + 1, part |-> i - b, len |-> len]
      <4>1. Files'[s][i].rec - Former = Len(index_) + 1 /\ Files'[s][i].part = i - b
        BY <1>71, <3>0, <3>3
      <4>2. i = b + (i - b)
        BY <1>2
      <4>3. Files'[s][i] # Junk
        <5>1. Files'[s][i].rec = Len(appended) + 1 /\ Junk.rec = 0
          BY <3>3 DEF Junk
        <5> QED BY <1>4, <5>1
      <4> QED BY <1>7, <3>3, <4>1, <4>2, <4>3
    <3> QED BY <1>3, <3>2, <3>3
  <2> QED BY <1>2, <1>5, <1>15, <2>1, ZenonT(40) DEF CellsPlaced
<1>18. CellsAppended' /\ FilesLimited' /\ SegmentsBounded' /\ LivesPast' /\ FirstLife' /\ FirstLifeOrder'
  BY WritesFiles
<1> QED BY <1>8, <1>9, <1>11, <1>12, <1>13, <1>14, <1>16, <1>17, <1>18 DEF WriterInv

\* A failed append(): what it may have written is behind every record of the index.
LEMMA FailingWriter ==
    ASSUME WriterInv, NEW id \in Segments, NEW ts, NEW b \in Nat, NEW len \in Lengths, NEW m,
           Writes(id, b, len, m), Appends(id, ts), Failing(id, b, m)
    PROVE  WriterInv'
<1> USE SegmentFacts
<1>0. /\ Types /\ Running /\ CellsAppended /\ IndexBehind /\ IndexLocates /\ IndexOrdered
  BY DEF WriterInv
<1>1. IsFiles(Files) /\ IsFiles(Files')
  BY <1>0, FilesTyped DEF Types, Appends
<1>2. \A s \in Segments : Len(Files[s]) \in Nat /\ Len(Files'[s]) \in Nat
  BY <1>1 DEF IsFiles
<1>3. /\ current_segment_id_ \in Nat /\ len \in Nat /\ id \in Nat /\ m \in Nat
      /\ \A s \in Segments : \A i \in 1 .. Len(Files'[s]) :
            \/ i \in 1 .. Len(Files[s]) /\ Files'[s][i] = Files[s][i]
            \/ s = id /\ i > b
  <2>1. /\ current_segment_id_ \in Nat /\ len \in Nat /\ m \in Nat
        /\ \A s \in Segments : \A i \in 1 .. Len(Files'[s]) :
            \/ /\ i \in 1 .. Len(Files[s]) /\ Files'[s][i] = Files[s][i]
               /\ s # id \/ (i <= b /\ id = current_segment_id_)
            \/ /\ s = id /\ i > b
               /\ Files'[s][i] = [rec |-> Len(appended) + 1, part |-> i - b, len |-> len]
    BY <1>0, <1>1, WrittenCells, SMTT(30)
  <2>2. id \in Nat
    OBVIOUS
  <2>3. ASSUME NEW s \in Segments, NEW i \in 1 .. Len(Files'[s])
        PROVE  \/ i \in 1 .. Len(Files[s]) /\ Files'[s][i] = Files[s][i]
               \/ s = id /\ i > b
    BY <2>1
  <2> QED BY <2>1, <2>2, <2>3, Zenon
<1>4. /\ appended' \in Seq(Headers) /\ Len(appended) \in Nat /\ Len(appended') = Len(appended) + 1
      /\ Len(appended') <= MaxAppends
  BY <1>0, AppendedHistory
<1>5. /\ current_segment_id_' = id /\ lives' = lives /\ sequence' = sequence + 1 /\ up /\ up'
      /\ disk' \in [Segments -> Seq(Cells)] /\ buffered' \in Seq(Cells)
      /\ bad' = TRUE /\ index_' = index_ /\ faults' \in 1 .. MaxFaults
      /\ \/ id = current_segment_id_ /\ current_segment_offset_' = current_segment_offset_
         \/ id = current_segment_id_ + 1 /\ current_segment_offset_' = 0
      /\ id = current_segment_id_ => b = current_segment_offset_ \/ m <= b
  BY DEF Appends, Failing
<1>51. /\ current_segment_id_' = id
       /\ \/ id = current_segment_id_ /\ current_segment_offset_' = current_segment_offset_
          \/ id = current_segment_id_ + 1 /\ current_segment_offset_' = 0
  BY <1>5
<1>6. /\ Len(Files'[id]) = m
      /\ \A s \in Segments : s # id => Files'[s] = Files[s]
  BY DEF Writes
<1>7. /\ current_segment_offset_ \in Nat /\ current_segment_offset_ <= SegmentLimit
      /\ sequence \in Nat /\ sequence <= Len(appended) /\ index_ \in Seq(Entries)
      /\ lives \in 0 .. MaxLives
  BY <1>0 DEF Types
<1>71. /\ Len(index_) \in Nat /\ DOMAIN index_ = 1 .. Len(index_)
       /\ \A k \in 1 .. Len(index_) : index_[k] \in Entries
  BY <1>7
<1>8. Types'
  <2>1. up' \in BOOLEAN /\ bad' \in BOOLEAN
    BY <1>5, Zenon
  <2>2. lives' \in 0 .. MaxLives /\ faults' \in 0 .. MaxFaults
    BY <1>5, <1>7
  <2>3. current_segment_id_' \in 0 .. MaxAppends + 1 /\ current_segment_offset_' \in 0 .. SegmentLimit
    BY <1>3, <1>51, <1>7
  <2>4. sequence' \in Nat /\ sequence' <= Len(appended')
    BY <1>4, <1>5, <1>7
  <2> QED BY <1>4, <1>5, <1>7, <2>1, <2>2, <2>3, <2>4
          DEF Types, Headers, Entries, Cells, Clock, Segments, SegmentLimit, Lengths
<1>81. faults' > 0 /\ faults' # 0
  BY <1>5
<1>9. Running'
  <2>1. current_segment_id_ \in 1 .. Len(appended) + 1 /\ lives >= 1
    BY <1>0, <1>5 DEF Running
  <2>2. id \in 1 .. Len(appended') + 1
    BY <1>3, <1>4, <1>51, <2>1
  <2> QED BY <1>5, <1>81, <2>1, <2>2 DEF Running
\* Where the entries are, relative to what was written.
<1>10. ASSUME NEW k \in 1 .. Len(index_)
       PROVE  /\ index_[k].segment_id \in Segments /\ index_[k].offset \in Nat /\ index_[k].record_length \in Nat
              /\ index_[k].segment_id \in Nat
              /\ \/ index_[k].segment_id < id
                 \/ /\ index_[k].segment_id = id /\ id = current_segment_id_
                    /\ index_[k].offset + index_[k].record_length <= current_segment_offset_
  <2>1. index_[k] \in Entries
    BY <1>71
  <2>2. /\ index_[k].segment_id \in Segments /\ index_[k].offset \in Nat /\ index_[k].record_length \in Nat
        /\ index_[k].segment_id \in Nat
    BY <2>1, SMTT(30) DEF Entries, Lengths
  <2>3. /\ index_[k].segment_id <= current_segment_id_
        /\ index_[k].segment_id = current_segment_id_ =>
              index_[k].offset + index_[k].record_length <= current_segment_offset_
    BY <1>0, <1>71 DEF IndexBehind
  <2>4. PICK g \in Nat, x \in Nat :
           g = index_[k].segment_id /\ x = index_[k].offset + index_[k].record_length
    BY <2>2
  <2>5. g < id \/ (g = id /\ id = current_segment_id_ /\ x <= current_segment_offset_)
    <3>1. g <= current_segment_id_ /\ (g = current_segment_id_ => x <= current_segment_offset_)
      BY <2>3, <2>4
    <3> QED BY <1>3, <1>5, <3>1
  <2> QED BY <2>2, <2>4, <2>5
<1>11. IndexBehind'
  <2>1. ASSUME NEW k \in 1 .. Len(index_)
        PROVE  /\ index_[k].segment_id <= id
               /\ index_[k].segment_id = id =>
                     index_[k].offset + index_[k].record_length <= current_segment_offset_'
    <3>1. PICK g \in Nat, x \in Nat :
             /\ g = index_[k].segment_id /\ x = index_[k].offset + index_[k].record_length
             /\ g < id \/ (g = id /\ id = current_segment_id_ /\ x <= current_segment_offset_)
      <4>1. index_[k].offset + index_[k].record_length \in Nat
        BY <1>10
      <4> QED BY <1>10, <4>1
    <3>2. g <= id /\ (g = id => x <= current_segment_offset_')
      BY <1>3, <1>51, <3>1
    <3> QED BY <3>1, <3>2
  <2> QED BY <1>5, <1>71, <2>1 DEF IndexBehind
<1>12. IndexLocates'
  <2>1. ASSUME NEW k \in 1 .. Len(index_) PROVE Located(index_[k], Files')
    <3>1. PICK e : e = index_[k]
      OBVIOUS
    <3>2. PICK s \in Segments, off \in Nat, n \in Nat : s = e.segment_id /\ off = e.offset /\ n = e.record_length
      BY <1>10, <3>1
    <3>3. Located(e, Files)
      BY <1>0, <1>71, <3>1, LocatesEach
    <3>4. s < id \/ (s = id /\ id = current_segment_id_ /\ off + n <= current_segment_offset_)
      BY <1>10, <3>1, <3>2
    <3>5. CASE s < id
      <4>1. Files'[s] = Files[s]
        BY <1>3, <1>6, <3>5
      <4> QED BY <3>1, <3>2, <3>3, <4>1 DEF Located
    <3>6. CASE s = id /\ id = current_segment_id_ /\ off + n <= current_segment_offset_
      <4>1. ASSUME NEW i \in 1 .. n, off + i <= Len(Files'[s])
            PROVE  Files'[s][off + i] \in {Junk, [rec |-> e.rec, part |-> i, len |-> n]}
        <5>1. off + i \in 1 .. Len(Files'[s]) /\ off + i <= m /\ off + i <= current_segment_offset_
          BY <1>2, <1>3, <1>6, <1>7, <3>6, <4>1, SMTT(30)
        <5>2. ~(off + i > b)
          BY <1>3, <1>5, <1>7, <3>6, <5>1, SMTT(30)
        <5>3. off + i \in 1 .. Len(Files[s]) /\ Files'[s][off + i] = Files[s][off + i]
          BY <1>3, <5>1, <5>2
        <5>4. off + i <= Len(Files[s])
          BY <1>2, <5>3
        <5> QED BY <3>2, <3>3, <5>3, <5>4 DEF Located
      <4> QED BY <3>1, <3>2, <4>1 DEF Located
    <3> QED BY <3>4, <3>5, <3>6
  <2> QED BY <1>5, <1>71, <1>81, <2>1, LocatesEach
<1>13. IndexOrdered'
  BY <1>0, <1>5 DEF IndexOrdered
<1>14. IndexComplete' /\ ClosedOnDisk' /\ CellsPlaced'
  BY <1>81 DEF IndexComplete, ClosedOnDisk, CellsPlaced
<1>18. CellsAppended' /\ FilesLimited' /\ SegmentsBounded' /\ LivesPast' /\ FirstLife' /\ FirstLifeOrder'
  BY WritesFiles
<1> QED BY <1>8, <1>9, <1>11, <1>12, <1>13, <1>14, <1>18 DEF WriterInv

\* The history after such a step, and where the writer is.
HistoryGrows ==
    /\ appended' \in Seq(Headers) /\ Len(appended') \in Nat /\ Len(appended') <= MaxAppends
    /\ Len(appended) <= Len(appended')
    /\ DOMAIN appended = 1 .. Len(appended) /\ DOMAIN appended' = 1 .. Len(appended')
    /\ \A n \in DOMAIN appended' :
          \/ n \in DOMAIN appended /\ appended'[n] = appended[n]
          \/ n = Len(appended) + 1 /\ appended'[n].sequence = sequence /\ appended'[n].life = lives
    /\ sequence' \in Nat /\ sequence' <= Len(appended')
    /\ sequence = Len(appended) => sequence' = Len(appended')
    /\ \/ current_segment_id_' = current_segment_id_ /\ current_segment_offset_' = current_segment_offset_
       \/ /\ current_segment_id_' = current_segment_id_ + 1 /\ current_segment_offset_' = 0
          /\ Len(appended') = Len(appended) + 1

\* A refused payload, a failed rollover or flush: what is left was there, and the rest of
\* the invariant speaks of logs in which nothing has failed.
LEMMA SpoilsWriter ==
    ASSUME WriterInv, Spoils PROVE WriterInv'
<1> USE SegmentFacts
<1>0. /\ Types /\ Running /\ CellsAppended /\ FilesLimited /\ SegmentsBounded
      /\ IndexBehind /\ IndexLocates /\ LivesPast /\ IndexOrdered /\ FirstLife /\ FirstLifeOrder
  BY DEF WriterInv
<1>1. /\ up /\ up' /\ lives' = lives /\ index_' = index_
      /\ disk' \in [Segments -> Seq(Cells)] /\ buffered' \in Seq(Cells)
      /\ faults' \in 1 .. MaxFaults
      /\ bad' = TRUE \/ (bad' = bad /\ Files' = Files /\ current_segment_id_' = current_segment_id_
                         /\ current_segment_offset_' = current_segment_offset_)
  BY DEF Spoils
<1>2. IsFiles(Files) /\ IsFiles(Files')
  BY <1>0, <1>1, FilesTyped DEF Types
<1>3. \A s \in Segments :
         /\ DOMAIN Files[s] = 1 .. Len(Files[s]) /\ DOMAIN Files'[s] = 1 .. Len(Files'[s])
         /\ Len(Files[s]) \in Nat /\ Len(Files'[s]) \in Nat /\ Len(Files'[s]) <= Len(Files[s])
         /\ \A i \in 1 .. Len(Files'[s]) : i \in DOMAIN Files[s] /\ Files'[s][i] = Files[s][i]
  <2>1. ASSUME NEW s \in Segments
        PROVE  /\ DOMAIN Files[s] = 1 .. Len(Files[s]) /\ DOMAIN Files'[s] = 1 .. Len(Files'[s])
               /\ Len(Files[s]) \in Nat /\ Len(Files'[s]) \in Nat /\ Len(Files'[s]) <= Len(Files[s])
               /\ \A i \in 1 .. Len(Files'[s]) : Files'[s][i] = Files[s][i]
    BY <1>2 DEF IsFiles, Spoils
  <2> QED BY <2>1
<1>4. /\ current_segment_id_ \in Nat /\ current_segment_offset_ \in 0 .. SegmentLimit
      /\ sequence \in Nat /\ sequence <= Len(appended) /\ index_ \in Seq(Entries)
      /\ appended \in Seq(Headers) /\ Len(appended) \in Nat /\ Len(appended) <= MaxAppends
      /\ lives \in 0 .. MaxLives /\ lives >= 1 /\ current_segment_id_ \in 1 .. Len(appended) + 1
  BY <1>0, <1>1 DEF Types, Running
\* The history, and where the writer is.
<1>51. HistoryGrows
  <2>1. CASE UNCHANGED <<appended, sequence, current_segment_id_, current_segment_offset_>>
    <3>1. DOMAIN appended = 1 .. Len(appended) /\ Len(appended) <= Len(appended)
      BY <1>4
    <3>2. /\ appended' = appended /\ sequence' = sequence
          /\ current_segment_id_' = current_segment_id_
          /\ current_segment_offset_' = current_segment_offset_
      BY <2>1
    <3> QED BY <1>4, <3>1, <3>2, Zenon DEF HistoryGrows
  <2>2. ASSUME NEW ts \in Clock, Refused(ts)
        PROVE  HistoryGrows
    <3>1. /\ appended' \in Seq(Headers) /\ Len(appended') = Len(appended) + 1
          /\ Len(appended') <= MaxAppends
          /\ \A n \in 1 .. Len(appended) : appended'[n] = appended[n]
          /\ appended'[Len(appended) + 1] = Header(ts)
          /\ DOMAIN appended = 1 .. Len(appended) /\ DOMAIN appended' = 1 .. Len(appended) + 1
      BY <1>0, <2>2, AppendedHistory DEF Refused
    <3>2. Header(ts).sequence = sequence /\ Header(ts).life = lives
      BY DEF Header
    <3>3. ASSUME NEW n \in DOMAIN appended'
          PROVE  \/ n \in DOMAIN appended /\ appended'[n] = appended[n]
                 \/ n = Len(appended) + 1 /\ appended'[n].sequence = sequence /\ appended'[n].life = lives
      <4>1. n \in 1 .. Len(appended) \/ n = Len(appended) + 1
        BY <1>4, <3>1, <3>3
      <4> QED BY <3>1, <3>2, <4>1
    <3>4. sequence' = sequence + 1
      BY <2>2 DEF Refused, Appends
    <3>5. \/ current_segment_id_' = current_segment_id_ /\ current_segment_offset_' = current_segment_offset_
          \/ current_segment_id_' = current_segment_id_ + 1 /\ current_segment_offset_' = 0
      BY <2>2 DEF Refused
    <3>6. Len(appended') \in Nat /\ Len(appended) <= Len(appended') /\ DOMAIN appended' = 1 .. Len(appended')
      BY <1>4, <3>1
    <3>7. sequence' \in Nat /\ sequence' <= Len(appended') /\ (sequence = Len(appended) => sequence' = Len(appended'))
      <4>1. PICK n \in Nat, q \in Nat : n = Len(appended) /\ q = sequence /\ q <= n
        BY <1>4
      <4>2. Len(appended') = n + 1 /\ sequence' = q + 1
        BY <3>1, <3>4, <4>1
      <4> QED BY <4>1, <4>2
    <3> QED BY <3>1, <3>3, <3>5, <3>6, <3>7 DEF HistoryGrows
  <2> QED BY <2>1, <2>2 DEF Spoils
<1>5. /\ appended' \in Seq(Headers) /\ Len(appended') \in Nat /\ Len(appended') <= MaxAppends
      /\ Len(appended) <= Len(appended')
      /\ DOMAIN appended = 1 .. Len(appended) /\ DOMAIN appended' = 1 .. Len(appended')
      /\ \A n \in DOMAIN appended' :
            \/ n \in DOMAIN appended /\ appended'[n] = appended[n]
            \/ n = Len(appended) + 1 /\ appended'[n].sequence = sequence /\ appended'[n].life = lives
      /\ sequence' \in Nat /\ sequence' <= Len(appended')
      /\ sequence = Len(appended) => sequence' = Len(appended')
      /\ \/ current_segment_id_' = current_segment_id_ /\ current_segment_offset_' = current_segment_offset_
         \/ /\ current_segment_id_' = current_segment_id_ + 1 /\ current_segment_offset_' = 0
            /\ Len(appended') = Len(appended) + 1
  BY <1>51, Zenon DEF HistoryGrows
\* The numbers among them.
<1>52. PICK had \in Nat, has \in Nat, was \in Nat, is \in Nat :
          /\ had = Len(appended) /\ has = Len(appended') /\ had <= has /\ has <= MaxAppends
          /\ was = current_segment_id_ /\ was \in 1 .. had + 1
          /\ is = current_segment_id_'
          /\ \/ is = was /\ current_segment_offset_' = current_segment_offset_
             \/ is = was + 1 /\ current_segment_offset_' = 0 /\ has = had + 1
  <2>1. PICK had \in Nat, has \in Nat, was \in Nat :
           had = Len(appended) /\ has = Len(appended') /\ was = current_segment_id_ /\ was \in 1 .. had + 1
    BY <1>4, <1>5
  <2>2. /\ had <= has /\ has <= MaxAppends
        /\ \/ current_segment_id_' = was /\ current_segment_offset_' = current_segment_offset_
           \/ current_segment_id_' = was + 1 /\ current_segment_offset_' = 0 /\ has = had + 1
    BY <1>5, <2>1
  <2>3. current_segment_id_' \in Nat
    BY <2>1, <2>2
  <2> QED BY <2>1, <2>2, <2>3
<1>53. sequence' \in Nat /\ sequence' <= Len(appended')
  BY <1>5
<1>6. Types'
  <2>1. up' \in BOOLEAN /\ bad' \in BOOLEAN
    <3>1. bad \in BOOLEAN
      BY <1>0, Zenon DEF Types
    <3> QED BY <1>1, <3>1, Zenon
  <2>2. lives' \in 0 .. MaxLives /\ faults' \in 0 .. MaxFaults
    BY <1>1, <1>4
  <2>3. current_segment_id_' \in 0 .. MaxAppends + 1
    BY <1>52
  <2>4. current_segment_offset_' \in 0 .. SegmentLimit
    BY <1>4, <1>52
  <2>5. appended' \in Seq(Headers) /\ Len(appended') <= MaxAppends /\ index_' \in Seq(Entries)
    BY <1>1, <1>4, <1>5
  <2> QED BY <1>1, <1>53, <2>1, <2>2, <2>3, <2>4, <2>5
          DEF Types, Headers, Entries, Cells, Clock, Segments, SegmentLimit, Lengths
<1>7. faults' > 0 /\ faults' # 0
  BY <1>1
<1>8. Running'
  <2>1. current_segment_id_' \in 1 .. Len(appended') + 1
    BY <1>52
  <2>2. ~bad' => Len(Files'[current_segment_id_']) = current_segment_offset_'
    BY <1>0, <1>1 DEF Running
  <2> QED BY <1>1, <1>4, <1>7, <2>1, <2>2 DEF Running
<1>9. CellsAppended'
  <2>1. ASSUME NEW s \in Segments, NEW i \in DOMAIN Files'[s] PROVE Files'[s][i].rec <= Len(appended')
    <3>1. i \in DOMAIN Files[s] /\ Files'[s][i] = Files[s][i]
      BY <1>3
    <3>2. Files[s][i].rec <= Len(appended) /\ Files[s][i] \in Cells
      BY <1>0, <1>2, <3>1 DEF CellsAppended, IsFiles
    <3>3. Files[s][i].rec \in Nat
      BY <3>2, CellFacts
    <3> QED BY <1>52, <3>1, <3>2, <3>3
  <2> QED BY <2>1 DEF CellsAppended
<1>10. FilesLimited'
  <2>1. ASSUME NEW s \in Segments PROVE Len(Files'[s]) <= SegmentLimit
    BY <1>0, <1>3 DEF FilesLimited
  <2> QED BY <2>1 DEF FilesLimited
<1>11. SegmentsBounded'
  <2>1. ASSUME NEW s \in Segments
        PROVE  \/ Len(Files'[s]) <= segment_bytes_
               \/ \E r \in DOMAIN appended' : \A i \in DOMAIN Files'[s] : Files'[s][i].rec \in {0, r}
    <3>1. CASE Len(Files[s]) <= segment_bytes_
      BY <1>3, <3>1
    <3>2. CASE \E r \in DOMAIN appended : \A i \in DOMAIN Files[s] : Files[s][i].rec \in {0, r}
      <4>1. PICK r \in DOMAIN appended : \A i \in DOMAIN Files[s] : Files[s][i].rec \in {0, r}
        BY <3>2
      <4>2. r \in DOMAIN appended'
        <5>1. DOMAIN appended = 1 .. Len(appended) /\ DOMAIN appended' = 1 .. Len(appended')
          BY <1>5
        <5> QED BY <1>52, <4>1, <5>1
      <4>3. \A i \in DOMAIN Files'[s] : Files'[s][i].rec \in {0, r}
        BY <1>3, <4>1
      <4> QED BY <4>2, <4>3
    <3> QED BY <1>0, <3>1, <3>2 DEF SegmentsBounded
  <2> QED BY <2>1 DEF SegmentsBounded
<1>12. DOMAIN index_ = 1 .. Len(index_) /\ \A k \in DOMAIN index_ : index_[k] \in Entries
  BY <1>4
<1>13. IndexBehind'
  <2>1. ASSUME NEW k \in DOMAIN index_
        PROVE  /\ index_[k].segment_id <= current_segment_id_'
               /\ index_[k].segment_id = current_segment_id_' =>
                     index_[k].offset + index_[k].record_length <= current_segment_offset_'
    <3>1. PICK g \in Nat, x \in Nat : g = index_[k].segment_id /\ x = index_[k].offset + index_[k].record_length
      <4>1. index_[k].segment_id \in Nat /\ index_[k].offset + index_[k].record_length \in Nat
        BY <1>12, SMTT(30) DEF Entries, Lengths
      <4> QED BY <4>1
    <3>2. g <= current_segment_id_ /\ (g = current_segment_id_ => x <= current_segment_offset_)
      BY <1>0, <3>1 DEF IndexBehind
    <3>3. g <= current_segment_id_' /\ (g = current_segment_id_' => x <= current_segment_offset_')
      BY <1>52, <3>2
    <3> QED BY <3>1, <3>3
  <2> QED BY <1>1, <2>1 DEF IndexBehind
<1>14. IndexLocates'
  <2>1. ASSUME NEW k \in DOMAIN index_ PROVE Located(index_[k], Files')
    <3>1. PICK e : e = index_[k]
      OBVIOUS
    <3>2. PICK s \in Segments, off \in Nat, n \in Nat : s = e.segment_id /\ off = e.offset /\ n = e.record_length
      <4>1. /\ e.segment_id \in Segments /\ e.offset \in Nat /\ e.record_length \in Nat
        BY <1>12, <3>1, SMTT(30) DEF Entries, Lengths
      <4> QED BY <4>1
    <3>3. Located(e, Files)
      BY <1>0, <3>1, LocatesEach
    <3>4. ASSUME NEW i \in 1 .. n, off + i <= Len(Files'[s])
          PROVE  Files'[s][off + i] \in {Junk, [rec |-> e.rec, part |-> i, len |-> n]}
      <4>1. off + i \in 1 .. Len(Files'[s]) /\ off + i <= Len(Files[s])
        BY <1>3, <3>4
      <4> QED BY <1>3, <3>2, <3>3, <4>1 DEF Located
    <3> QED BY <3>1, <3>2, <3>4 DEF Located
  <2> QED BY <1>1, <1>7, <2>1, LocatesEach
<1>15. IndexOrdered'
  BY <1>0, <1>1 DEF IndexOrdered
<1>16. IndexComplete' /\ ClosedOnDisk' /\ CellsPlaced'
  BY <1>7 DEF IndexComplete, ClosedOnDisk, CellsPlaced
<1>17. LivesPast'
  <2>1. ASSUME NEW n \in DOMAIN appended' PROVE appended'[n].life <= lives
    <3>1. (n \in DOMAIN appended /\ appended'[n] = appended[n]) \/ appended'[n].life = lives
      BY <1>5
    <3>2. lives <= lives
      BY <1>4
    <3> QED BY <1>0, <3>1, <3>2 DEF LivesPast
  <2> QED BY <1>1, <2>1 DEF LivesPast
<1>18. FirstLife'
  <2>1. ASSUME lives <= 1
        PROVE  /\ sequence' = Len(appended')
               /\ \A n \in DOMAIN appended' : appended'[n].sequence = n - 1
               /\ \A s \in Segments : s > current_segment_id_' => Files'[s] = << >>
    <3>1. /\ sequence = Len(appended)
          /\ \A n \in DOMAIN appended : appended[n].sequence = n - 1
          /\ \A s \in Segments : s > current_segment_id_ => Files[s] = << >>
      BY <1>0, <2>1 DEF FirstLife
    <3>2. ASSUME NEW s \in Segments, s > current_segment_id_' PROVE Files'[s] = << >>
      <4>1. PICK f \in Seq(Cells) : f = Files'[s]
        BY <1>2 DEF IsFiles
      <4>2. Len(Files[s]) = 0
        BY <1>4, <1>5, <3>1, <3>2
      <4>3. Len(f) = 0
        BY <1>3, <4>1, <4>2
      <4> QED BY <4>1, <4>3
    <3>3. ASSUME NEW n \in DOMAIN appended' PROVE appended'[n].sequence = n - 1
      BY <1>4, <1>5, <3>1
    <3> QED BY <1>5, <3>1, <3>2, <3>3
  <2> QED BY <1>1, <1>4, <2>1 DEF FirstLife
<1>19. FirstLifeOrder'
  <2>1. ASSUME lives <= 1, NEW s \in Segments, NEW t \in Segments, NEW i \in DOMAIN Files'[s],
               NEW j \in DOMAIN Files'[t], s < t \/ (s = t /\ i < j),
               Files'[s][i] # Junk, Files'[t][j] # Junk
        PROVE  Before(Files'[s][i], Files'[t][j])
    <3>1. /\ i \in DOMAIN Files[s] /\ Files'[s][i] = Files[s][i]
          /\ j \in DOMAIN Files[t] /\ Files'[t][j] = Files[t][j]
      BY <1>3
    <3> QED BY <1>0, <2>1, <3>1 DEF FirstLifeOrder
  <2> QED BY <1>1, <2>1 DEF FirstLifeOrder, Before
<1> QED BY <1>6, <1>8, <1>9, <1>10, <1>11, <1>13, <1>14, <1>15, <1>16, <1>17, <1>18, <1>19 DEF WriterInv

\* The writer is started, and cuts off segment 1.
LEMMA OpenWriter ==
    ASSUME WriterInv, Open
    PROVE  WriterInv'
<1> USE SegmentFacts
<1>0. /\ Types /\ Running /\ CellsAppended /\ FilesLimited /\ SegmentsBounded /\ IndexBehind
      /\ LivesPast /\ FirstLife /\ FirstLifeOrder /\ CellsPlaced
  BY DEF WriterInv
<1>1. /\ ~up /\ lives < MaxLives /\ up' = TRUE /\ lives' = lives + 1
      /\ current_segment_id_' = 1 /\ current_segment_offset_' = 0 /\ index_' = << >>
      /\ sequence' = 0 /\ bad' = FALSE /\ buffered' = << >>
      /\ disk' = [disk EXCEPT ![1] = << >>] /\ appended' = appended /\ faults' = faults
      /\ reader' = NoReader
  BY DEF Open
<1>2. /\ disk \in [Segments -> Seq(Cells)] /\ buffered = << >> /\ buffered \in Seq(Cells)
      /\ lives \in 0 .. MaxLives /\ MaxLives \in Nat /\ faults \in 0 .. MaxFaults
      /\ appended \in Seq(Headers) /\ Len(appended) <= MaxAppends
  BY <1>0, <1>1, WalAssumption DEF Types, Running
<1>3. disk' \in [Segments -> Seq(Cells)] /\ buffered' \in Seq(Cells)
  <2>1. << >> \in Seq(Cells) /\ 1 \in Segments
    OBVIOUS
  <2> QED BY <1>1, <1>2, <2>1
<1>4. IsFiles(Files) /\ IsFiles(Files') /\ Files = disk /\ Files' = disk'
  BY <1>1, <1>2, <1>3, FilesTyped
<1>5. Files'[1] = << >> /\ \A s \in Segments : s # 1 => Files'[s] = Files[s]
  BY <1>1, <1>2, <1>4
<1>6. /\ \A s \in Segments : DOMAIN Files[s] = 1 .. Len(Files[s]) /\ DOMAIN Files'[s] = 1 .. Len(Files'[s])
      /\ \A s \in Segments : Len(Files[s]) \in Nat /\ Len(Files'[s]) \in Nat
  BY <1>4 DEF IsFiles
\* Whatever is there was there.
<1>7. \A s \in Segments : \A i \in 1 .. Len(Files'[s]) : s # 1 /\ i \in 1 .. Len(Files[s]) /\ Files'[s] = Files[s]
  <2>1. 1 \in Segments /\ Len(Files'[1]) = 0
    BY <1>5
  <2> QED BY <1>5, <2>1
<1>8. Len(appended) \in Nat /\ Len(index_') = 0 /\ DOMAIN index_' = {} /\ DOMAIN appended = 1 .. Len(appended)
  BY <1>1, <1>2
<1>9. Types'
  <2>1. up' \in BOOLEAN /\ bad' \in BOOLEAN
    BY <1>1, Zenon
  <2>2. lives' \in 0 .. MaxLives /\ faults' \in 0 .. MaxFaults /\ sequence' \in Nat /\ sequence' <= Len(appended')
    BY <1>1, <1>2, <1>8
  <2>3. current_segment_id_' \in 0 .. MaxAppends + 1 /\ current_segment_offset_' \in 0 .. SegmentLimit
    BY <1>1
  <2>4. index_' \in Seq(Entries)
    BY <1>1
  <2> QED BY <1>1, <1>2, <1>3, <2>1, <2>2, <2>3, <2>4
          DEF Types, Headers, Entries, Cells, Clock, Segments, SegmentLimit, Lengths
<1>10. Running'
  <2>1. Len(Files'[1]) = 0
    BY <1>5
  <2> QED BY <1>1, <1>2, <1>8, <2>1 DEF Running
<1>11. CellsAppended' /\ FilesLimited' /\ SegmentsBounded'
  <2>1. CellsAppended'
    <3>1. ASSUME NEW s \in Segments, NEW i \in 1 .. Len(Files'[s]) PROVE Files'[s][i].rec <= Len(appended)
      BY <1>0, <1>6, <1>7 DEF CellsAppended
    <3> QED BY <1>1, <1>6, <3>1 DEF CellsAppended
  <2>2. FilesLimited'
    <3>1. ASSUME NEW s \in Segments PROVE Len(Files'[s]) <= SegmentLimit
      <4>1. Len(Files'[1]) = 0
        BY <1>5
      <4> QED BY <1>0, <1>5, <4>1 DEF FilesLimited
    <3> QED BY <3>1 DEF FilesLimited
  <2>3. SegmentsBounded'
    <3>1. ASSUME NEW s \in Segments
          PROVE  \/ Len(Files'[s]) <= segment_bytes_
                 \/ \E r \in DOMAIN appended : \A i \in DOMAIN Files'[s] : Files'[s][i].rec \in {0, r}
      <4>1. Len(Files'[1]) = 0
        BY <1>5
      <4>2. CASE s = 1
        BY <4>1, <4>2
      <4>3. CASE s # 1
        BY <1>0, <1>5, <4>3 DEF SegmentsBounded
      <4> QED BY <4>2, <4>3
    <3> QED BY <1>1, <3>1 DEF SegmentsBounded
  <2> QED BY <2>1, <2>2, <2>3
<1>12. IndexBehind' /\ IndexOrdered' /\ ClosedOnDisk' /\ IndexLocates'
  <2>1. IndexLocates'
    BY <1>8, LocatesEach
  <2> QED BY <1>8, <2>1 DEF IndexBehind, IndexOrdered, ClosedOnDisk
<1>13. LivesPast' /\ IndexComplete'
  <2>1. ASSUME NEW n \in DOMAIN appended PROVE appended[n].life \in Nat /\ appended[n].life <= lives
    <3>1. appended[n] \in Headers
      BY <1>2
    <3> QED BY <1>0, <1>2, <3>1 DEF LivesPast, Headers
  <2>2. ASSUME NEW n \in DOMAIN appended PROVE appended[n].life < lives'
    BY <1>1, <1>2, <2>1
  <2>3. LivesPast'
    BY <1>1, <1>2, <2>1 DEF LivesPast
  <2>4. Former' = Len(appended)
    BY <1>1, <1>8 DEF Former
  <2>5. ASSUME NEW n \in DOMAIN appended PROVE appended[n].life # lives'
    BY <1>1, <1>2, <2>1
  <2> QED BY <1>1, <1>8, <2>3, <2>4, <2>5 DEF IndexComplete
<1>14. CellsPlaced'
  <2>1. Former' = Len(appended)
    BY <1>1, <1>8 DEF Former
  <2>2. ASSUME faults = 0, NEW s \in Segments, NEW i \in 1 .. Len(Files'[s])
        PROVE  Files'[s][i] # Junk /\ ~(Files'[s][i].rec > Former')
    <3>1. Files[s][i] # Junk /\ Files'[s][i] = Files[s][i]
      BY <1>0, <1>6, <1>7, <2>2 DEF CellsPlaced
    <3>2. Files[s][i] \in Cells /\ Files[s][i].rec <= Len(appended)
      BY <1>0, <1>4, <1>6, <1>7 DEF CellsAppended, IsFiles
    <3>3. Files[s][i].rec \in Nat
      BY <3>2, CellFacts
    <3> QED BY <1>8, <2>1, <3>1, <3>2, <3>3
  <2> QED BY <1>1, <1>6, <2>2 DEF CellsPlaced
<1>15. FirstLife' /\ FirstLifeOrder'
  <2>1. CASE lives = 0
    <3>1. /\ appended = << >> /\ current_segment_id_ = 0
          /\ \A s \in Segments : Files[s] = << >>
      BY <1>0, <2>1 DEF FirstLife
    <3>2. \A s \in Segments : Files'[s] = << >>
      BY <1>5, <3>1
    <3>3. FirstLife'
      BY <1>1, <2>1, <3>1, <3>2 DEF FirstLife
    <3>4. \A s \in Segments : DOMAIN Files'[s] = {}
      BY <3>2
    <3> QED BY <3>3, <3>4 DEF FirstLifeOrder
  <2>2. CASE lives # 0
    <3>1. ~(lives' <= 1)
      BY <1>1, <1>2, <2>2
    <3> QED BY <3>1 DEF FirstLife, FirstLifeOrder
  <2> QED BY <2>1, <2>2
<1> QED BY <1>9, <1>10, <1>11, <1>12, <1>13, <1>14, <1>15 DEF WriterInv

\* The writer is started, and cannot open its file: what is on disk stays.
LEMMA OpenFailsWriter ==
    ASSUME WriterInv, OpenFails PROVE WriterInv'
<1> USE SegmentFacts
<1>0. /\ Types /\ Running /\ CellsAppended /\ FilesLimited /\ SegmentsBounded
      /\ LivesPast /\ FirstLife /\ FirstLifeOrder
  BY DEF WriterInv
<1>1. /\ ~up /\ lives < MaxLives /\ up' = TRUE /\ lives' = lives + 1
      /\ current_segment_id_' = 1 /\ current_segment_offset_' = 0 /\ index_' = << >>
      /\ sequence' = 0 /\ bad' = TRUE /\ buffered' = << >>
      /\ disk' = disk /\ appended' = appended /\ faults < MaxFaults /\ faults' = faults + 1
  BY DEF OpenFails
<1>2. /\ disk \in [Segments -> Seq(Cells)] /\ buffered = << >> /\ buffered \in Seq(Cells)
      /\ lives \in 0 .. MaxLives /\ MaxLives \in Nat /\ faults \in 0 .. MaxFaults /\ MaxFaults \in Nat
      /\ appended \in Seq(Headers) /\ Len(appended) <= MaxAppends /\ Len(appended) \in Nat
  BY <1>0, <1>1, WalAssumption DEF Types, Running
<1>3. IsFiles(Files) /\ Files' = Files
  <2>1. Files = disk /\ Files' = disk' /\ IsFiles(Files)
    BY <1>1, <1>2, FilesTyped
  <2> QED BY <1>1, <2>1
<1>4. Len(index_') = 0 /\ DOMAIN index_' = {} /\ faults' # 0 /\ faults' > 0
  BY <1>1, <1>2
<1>5. Types'
  <2>1. up' \in BOOLEAN /\ bad' \in BOOLEAN
    BY <1>1, Zenon
  <2>2. lives' \in 0 .. MaxLives /\ faults' \in 0 .. MaxFaults /\ sequence' \in Nat /\ sequence' <= Len(appended')
    BY <1>1, <1>2
  <2>3. current_segment_id_' \in 0 .. MaxAppends + 1 /\ current_segment_offset_' \in 0 .. SegmentLimit
    BY <1>1
  <2>4. index_' \in Seq(Entries)
    BY <1>1
  <2> QED BY <1>1, <1>2, <2>1, <2>2, <2>3, <2>4
          DEF Types, Headers, Entries, Cells, Clock, Segments, SegmentLimit, Lengths
<1>6. Running'
  BY <1>1, <1>2, <1>4 DEF Running
<1>7. CellsAppended' /\ FilesLimited' /\ SegmentsBounded'
  BY <1>0, <1>1, <1>3 DEF CellsAppended, FilesLimited, SegmentsBounded
<1>8. IndexBehind' /\ IndexOrdered' /\ IndexLocates'
  <2>1. IndexLocates'
    BY <1>4, LocatesEach
  <2> QED BY <1>4, <2>1 DEF IndexBehind, IndexOrdered
<1>9. IndexComplete' /\ ClosedOnDisk' /\ CellsPlaced'
  BY <1>4 DEF IndexComplete, ClosedOnDisk, CellsPlaced
<1>10. LivesPast'
  <2>1. ASSUME NEW n \in DOMAIN appended PROVE appended[n].life <= lives + 1
    <3>1. appended[n] \in Headers
      BY <1>2
    <3> QED BY <1>0, <1>2, <3>1 DEF LivesPast, Headers
  <2> QED BY <1>1, <2>1 DEF LivesPast
<1>11. FirstLife' /\ FirstLifeOrder'
  <2>1. CASE lives = 0
    <3>1. appended = << >> /\ \A s \in Segments : Files[s] = << >>
      <4>1. appended = << >> /\ current_segment_id_ = 0
            /\ \A s \in Segments : s > current_segment_id_ => Files[s] = << >>
        BY <1>0, <2>1 DEF FirstLife
      <4> QED BY <4>1
    <3>2. FirstLife'
      BY <1>1, <1>3, <2>1, <3>1 DEF FirstLife
    <3>3. \A s \in Segments : DOMAIN Files'[s] = {}
      BY <1>3, <3>1
    <3> QED BY <3>2, <3>3 DEF FirstLifeOrder
  <2>2. CASE lives # 0
    <3>1. ~(lives' <= 1)
      BY <1>1, <1>2, <2>2
    <3> QED BY <3>1 DEF FirstLife, FirstLifeOrder
  <2> QED BY <2>1, <2>2
<1> QED BY <1>5, <1>6, <1>7, <1>8, <1>9, <1>10, <1>11 DEF WriterInv

LEMMA InitWriter ==
    ASSUME Init PROVE WriterInv
<1> USE SegmentFacts
<1>1. /\ up = FALSE /\ lives = 0 /\ current_segment_id_ = 0 /\ current_segment_offset_ = 0
      /\ index_ = << >> /\ sequence = 0 /\ bad = FALSE /\ buffered = << >>
      /\ disk = [s \in Segments |-> << >>] /\ appended = << >> /\ faults = 0
  BY DEF Init
<1>2. disk \in [Segments -> Seq(Cells)] /\ buffered \in Seq(Cells)
  <2>1. << >> \in Seq(Cells)
    OBVIOUS
  <2> QED BY <1>1, <2>1
<1>3. Files = disk
  BY <1>1, <1>2, FilesTyped
<1>4. \A s \in Segments : Files[s] = << >> /\ Len(Files[s]) = 0 /\ DOMAIN Files[s] = {}
  BY <1>1, <1>3
<1>5. Len(appended) = 0 /\ Len(index_) = 0 /\ DOMAIN index_ = {} /\ DOMAIN appended = {}
  BY <1>1
<1>6. Types
  <2>1. up \in BOOLEAN /\ bad \in BOOLEAN
    BY <1>1, Zenon
  <2>2. appended \in Seq(Headers) /\ index_ \in Seq(Entries)
    BY <1>1
  <2>3. /\ lives \in 0 .. MaxLives /\ faults \in 0 .. MaxFaults
        /\ current_segment_id_ \in 0 .. MaxAppends + 1
        /\ current_segment_offset_ \in 0 .. SegmentLimit
        /\ sequence \in Nat /\ sequence <= Len(appended) /\ Len(appended) <= MaxAppends
    BY <1>1, <1>5, WalAssumption
  <2> QED BY <1>2, <2>1, <2>2, <2>3 DEF Types
<1>7. Running
  BY <1>1 DEF Running
<1>8. CellsAppended /\ FilesLimited /\ SegmentsBounded /\ CellsPlaced /\ FirstLifeOrder
  BY <1>4 DEF CellsAppended, FilesLimited, SegmentsBounded, CellsPlaced, FirstLifeOrder
<1>9. IndexBehind /\ IndexLocates /\ IndexOrdered /\ ClosedOnDisk /\ LivesPast
  <2>1. IndexLocates
    BY <1>5, LocatesEach
  <2> QED BY <1>5, <2>1 DEF IndexBehind, IndexOrdered, ClosedOnDisk, LivesPast
<1>10. IndexComplete
  BY <1>5 DEF IndexComplete, Former
<1>11. FirstLife
  BY <1>1, <1>4, <1>5 DEF FirstLife
<1> QED BY <1>6, <1>7, <1>8, <1>9, <1>10, <1>11 DEF WriterInv

\* Reading changes nothing of the writer's.
LEMMA ReadsWriter ==
    ASSUME WriterInv, UNCHANGED <<writer, disk, appended, faults>>
    PROVE  WriterInv'
<1>1. /\ up' = up /\ lives' = lives /\ current_segment_id_' = current_segment_id_
      /\ current_segment_offset_' = current_segment_offset_ /\ index_' = index_
      /\ sequence' = sequence /\ bad' = bad /\ buffered' = buffered
      /\ disk' = disk /\ appended' = appended /\ faults' = faults
  BY DEF writer
<1>2. Files' = Files /\ Former' = Former
  BY <1>1 DEF Files, Former
<1>3. /\ Types /\ Running /\ CellsAppended /\ FilesLimited /\ SegmentsBounded
      /\ IndexBehind /\ IndexLocates /\ IndexComplete /\ LivesPast /\ IndexOrdered
      /\ ClosedOnDisk /\ CellsPlaced /\ FirstLife /\ FirstLifeOrder
  BY DEF WriterInv
<1>4. Types'
  BY <1>1, <1>3 DEF Types, Headers, Entries, Cells, Clock, Segments, SegmentLimit, Lengths
<1>5. Running' /\ CellsAppended' /\ FilesLimited' /\ SegmentsBounded'
  BY <1>1, <1>2, <1>3 DEF Running, CellsAppended, FilesLimited, SegmentsBounded
<1>6. IndexBehind' /\ IndexLocates' /\ IndexComplete' /\ LivesPast' /\ IndexOrdered'
  BY <1>1, <1>2, <1>3 DEF IndexBehind, IndexLocates, IndexComplete, LivesPast, IndexOrdered
<1>7. ClosedOnDisk' /\ CellsPlaced' /\ FirstLife'
  BY <1>1, <1>2, <1>3 DEF ClosedOnDisk, CellsPlaced, FirstLife
<1>8. FirstLifeOrder'
  BY <1>1, <1>2, <1>3 DEF FirstLifeOrder, Before
<1> QED BY <1>4, <1>5, <1>6, <1>7, <1>8 DEF WriterInv

LEMMA WriterStep ==
    ASSUME WriterInv, [Next]_vars PROVE WriterInv'
<1>0. Types /\ Running
  BY DEF WriterInv
<1>1. CASE Open
  BY <1>1, OpenWriter
<1>2. CASE Flush \/ Close \/ Crash \/ Damage
  BY <1>0, <1>2, KeepSteps, KeepsWriter
<1>3. CASE Load
  BY <1>3, ReadsWriter DEF Load
<1>4. ASSUME NEW ts \in Clock, NEW size \in 0 .. MaxPayload, Append_(ts, size) PROVE WriterInv'
  <2>1. PICK id \in Segments, b \in Nat, len \in Lengths :
           Writes(id, b, len, b + len) /\ Appends(id, ts) /\ Indexing(id, ts, b, len)
    BY <1>0, <1>4, AppendStep
  <2> QED BY <2>1, IndexingWriter
<1>5. ASSUME NEW ts \in Clock, NEW size \in 0 .. MaxPayload, AppendFails(ts, size) PROVE WriterInv'
  <2>1. PICK id \in Segments, b \in Nat, len \in Lengths, m \in Nat :
           Writes(id, b, len, m) /\ Appends(id, ts) /\ Failing(id, b, m)
    BY <1>0, <1>5, FailStep
  <2> QED BY <2>1, FailingWriter
<1>6. ASSUME NEW start \in Clock, Replay(start) PROVE WriterInv'
  BY <1>6, ReadsWriter DEF Replay
<1>7. CASE UNCHANGED vars
  BY <1>7, ReadsWriter DEF vars
<1>8. CASE OpenFails
  BY <1>8, OpenFailsWriter
<1>9. CASE FlushFails
  BY <1>0, <1>9, FlushFailSpoils, SpoilsWriter
<1>10. ASSUME NEW ts \in Clock, AppendRefuses(ts) PROVE WriterInv'
  BY <1>0, <1>10, RefuseSpoils, SpoilsWriter
<1>11. ASSUME NEW ts \in Clock, NEW size \in 0 .. MaxPayload, AppendUnopened(ts, size) PROVE WriterInv'
  BY <1>0, <1>11, UnopenedSpoils, SpoilsWriter
<1> QED BY <1>1, <1>2, <1>3, <1>4, <1>5, <1>6, <1>7, <1>8, <1>9, <1>10, <1>11 DEF Next

LEMMA WriterSafe == Spec => []WriterInv
<1>1. Init => WriterInv
  BY InitWriter
<1>2. WriterInv /\ [Next]_vars => WriterInv'
  BY WriterStep
<1> QED BY <1>1, <1>2, PTL DEF Spec

\* The writer's bookkeeping and its files agree, whatever mix of appends, failed writes,
\* rollovers, flushes, crashes, restarts and damage has happened: types and bounds hold,
\* no segment outgrows segment_bytes_ unless one record alone does, and every entry of the
\* index addresses its own record.
THEOREM WriterFilesAgree == Spec => []Inv
<1>1. ASSUME WriterInv PROVE Inv
  <2>1. Types /\ SegmentsBounded /\ IndexLocates
    BY <1>1 DEF WriterInv
  <2>2. TypeOK
    <3> USE SegmentFacts
    <3>1. {up, bad} \subseteq BOOLEAN
      BY <2>1 DEF Types
    <3>2. /\ lives \in 0 .. MaxLives /\ faults \in 0 .. MaxFaults
          /\ current_segment_id_ \in {0} \cup Segments
          /\ current_segment_offset_ \in 0 .. SegmentLimit
          /\ sequence \in 0 .. MaxAppends
      BY <2>1 DEF Types
    <3>3. ASSUME NEW s \in Segments, NEW i \in DOMAIN disk[s] PROVE disk[s][i] \in Cells
      <4>1. disk[s] \in Seq(Cells)
        BY <2>1 DEF Types
      <4> QED BY <4>1
    <3>4. ASSUME NEW i \in DOMAIN buffered PROVE buffered[i] \in Cells
      <4>1. buffered \in Seq(Cells)
        BY <2>1 DEF Types
      <4> QED BY <4>1
    <3>5. ASSUME NEW i \in DOMAIN appended PROVE appended[i] \in Headers
      <4>1. appended \in Seq(Headers)
        BY <2>1 DEF Types
      <4> QED BY <4>1
    <3>6. \A f \in {disk[s] : s \in Segments} \cup {buffered} : \A i \in DOMAIN f : f[i] \in Cells
      BY <3>3, <3>4
    <3> QED BY <3>1, <3>2, <3>5, <3>6 DEF TypeOK, Headers
  <2> QED BY <2>1, <2>2 DEF Inv
<1> QED BY <1>1, WriterSafe, PTL

-----------------------------------------------------------------------------
(* Within a life the files only grow                                       *)

LEMMA PrefixConcat ==
    ASSUME NEW a \in Seq(Cells), NEW b \in Seq(Cells)
    PROVE  IsPrefix(a, a \o b) /\ IsPrefix(a, a)
<1>1. PICK c \in Seq(Cells) : c = a \o b
  <2>1. a \o b \in Seq(Cells)
    OBVIOUS
  <2> QED BY <2>1
<1>2. Len(a) \in Nat /\ Len(c) \in Nat /\ Len(a) <= Len(c) /\ \A i \in 1 .. Len(a) : c[i] = a[i]
  BY <1>1
<1> HIDE <1>1
<1>3. SubSeq(a, 1, Len(a)) = a /\ SubSeq(c, 1, Len(a)) = a
  <2>1. SubSeq(a, 1, Len(a)) = [i \in 1 .. Len(a) |-> a[i]]
    BY <1>2
  <2>2. SubSeq(c, 1, Len(a)) = [i \in 1 .. Len(a) |-> c[i]]
    BY <1>2
  <2>3. a = [i \in 1 .. Len(a) |-> a[i]]
    OBVIOUS
  <2> QED BY <1>2, <2>1, <2>2, <2>3
<1> QED BY <1>1, <1>2, <1>3 DEF IsPrefix

Grows(d, e, last) == \A s \in Segments : s <= last => IsPrefix(d[s], e[s])

LEMMA GrowsSame ==
    ASSUME NEW d \in [Segments -> Seq(Cells)], NEW last PROVE Grows(d, d, last)
BY PrefixConcat DEF Grows

\* Adding to one file.
LEMMA GrowsAt ==
    ASSUME NEW d \in [Segments -> Seq(Cells)], NEW id \in Segments, NEW z \in Seq(Cells), NEW last
    PROVE  Grows(d, [d EXCEPT ![id] = @ \o z], last)
<1>1. ASSUME NEW s \in Segments PROVE IsPrefix(d[s], [d EXCEPT ![id] = @ \o z][s])
  <2>1. PICK f \in Seq(Cells) : f = d[s]
    OBVIOUS
  <2>2. [d EXCEPT ![id] = @ \o z][s] = IF s = id THEN f \o z ELSE f
    BY <2>1
  <2>3. IsPrefix(f, f \o z) /\ IsPrefix(f, f)
    BY PrefixConcat
  <2> QED BY <2>1, <2>2, <2>3
<1> QED BY <1>1 DEF Grows

\* Rolling over and writing to the new file.
LEMMA GrowsRolling ==
    ASSUME NEW d \in [Segments -> Seq(Cells)], NEW id \in Segments, NEW z \in Seq(Cells),
           NEW next \in Segments, id < next, NEW w
    PROVE  LET t == [d EXCEPT ![id] = @ \o z, ![next] = << >>]
           IN  Grows(d, [t EXCEPT ![next] = w], id)
<1> USE SegmentFacts
<1>0. id # next
  OBVIOUS
<1> DEFINE t == [d EXCEPT ![id] = @ \o z, ![next] = << >>]
<1>1. t = [s \in Segments |-> t[s]] /\ \A s \in Segments : s # id /\ s # next => t[s] = d[s]
  OBVIOUS
<1>11. t[id] = d[id] \o z
  BY <1>0
<1>2. ASSUME NEW s \in Segments, s <= id PROVE IsPrefix(d[s], [t EXCEPT ![next] = w][s])
  <2>0. s # next
    BY <1>2
  <2>1. PICK f \in Seq(Cells) : f = d[s]
    OBVIOUS
  <2>2. [t EXCEPT ![next] = w][s] = t[s]
    <3> HIDE DEF t
    <3> QED BY <1>1, <2>0
  <2>3. t[s] = IF s = id THEN f \o z ELSE f
    <3> HIDE DEF t
    <3> QED BY <1>1, <1>11, <2>0, <2>1
  <2>4. IsPrefix(f, f \o z) /\ IsPrefix(f, f)
    BY PrefixConcat
  <2> QED BY <2>1, <2>2, <2>3, <2>4
<1> QED BY <1>2 DEF Grows

LEMMA AppendGrows ==
    ASSUME Types, Running, NEW ts \in Clock, NEW size \in 0 .. MaxPayload, Append_(ts, size)
    PROVE  Grows(disk, disk', current_segment_id_)
<1> USE SegmentFacts
<1>1. PICK rec : rec = encode_record(Len(appended) + 1, size)
  OBVIOUS
<1>2. PICK t : t = Target(rec)
  OBVIOUS
<1>3. up /\ Len(appended) < MaxAppends
  BY <1>1, <1>2 DEF Append_
<1>4. /\ disk \in [Segments -> Seq(Cells)] /\ buffered \in Seq(Cells) /\ Len(appended) \in Nat
      /\ current_segment_id_ \in 1 .. Len(appended) + 1
  BY <1>3, SMTT(30) DEF Types, Running
<1>5. PICK a \in Segments, b \in Segments : a = current_segment_id_ /\ b = a + 1 /\ a < b
  BY <1>3, <1>4
<1>6. t.pending \o rec \in Seq(Cells)
  BY <1>1, <1>2, <1>3, TargetRecord
<1>7. PICK all \in Seq(Cells) : Pending(t, rec, all)
  BY <1>6 DEF Pending
<1>8. PICK k \in 0 .. Len(all) : disk' = [t.disk EXCEPT ![t.id] = @ \o SubSeq(all, 1, k)]
  BY <1>1, <1>2, <1>7 DEF Append_, Pending
<1>9. PICK z \in Seq(Cells) : disk' = [t.disk EXCEPT ![t.id] = @ \o z]
  BY <1>8, SplitParts
<1>10. CASE Rolls(rec)
  <2>1. t.id = b /\ t.disk = [disk EXCEPT ![a] = @ \o buffered, ![b] = << >>]
    BY <1>2, <1>5, <1>10 DEF Target
  <2>2. PICK w : disk' = [t.disk EXCEPT ![b] = w]
    BY <1>9, <2>1
  <2>3. disk' = [[disk EXCEPT ![a] = @ \o buffered, ![b] = << >>] EXCEPT ![b] = w]
    BY <2>1, <2>2
  <2>4. Grows(disk, [[disk EXCEPT ![a] = @ \o buffered, ![b] = << >>] EXCEPT ![b] = w], a)
    BY <1>4, <1>5, GrowsRolling
  <2> QED BY <1>5, <2>3, <2>4
<1>11. CASE ~Rolls(rec)
  <2>1. t.id = a /\ t.disk = disk
    BY <1>2, <1>5, <1>11 DEF Target
  <2>2. disk' = [disk EXCEPT ![a] = @ \o z]
    BY <1>9, <2>1
  <2> QED BY <1>4, <2>2, GrowsAt
<1> QED BY <1>10, <1>11

\* "Append-only", within a life of the writer and as long as no write fails: whatever it
\* does, rolling over included, no byte of a file it has begun is lost or changed.
THEOREM OnlyAppends == Spec => OwnSegmentsGrow
<1>1. ASSUME WriterInv, [Next]_vars, up, up', faults' = faults
      PROVE  \A s \in 1 .. current_segment_id_ : IsPrefix(disk[s], disk'[s])
  <2>0. /\ Types /\ Running /\ disk \in [Segments -> Seq(Cells)] /\ buffered \in Seq(Cells)
        /\ current_segment_id_ \in Segments
    <3>1. Types /\ Running
      BY <1>1 DEF WriterInv
    <3>2. current_segment_id_ \in 1 .. Len(appended) + 1 /\ Len(appended) <= MaxAppends /\ Len(appended) \in Nat
      BY <1>1, <3>1 DEF Types, Running
    <3> QED BY <3>1, <3>2, SegmentFacts, SMTT(30) DEF Types
  <2>1. ASSUME NEW ts \in Clock, NEW size \in 0 .. MaxPayload, AppendFails(ts, size)
        PROVE  disk' = disk
    <3>1. PICK rec : rec = encode_record(Len(appended) + 1, size)
      OBVIOUS
    <3>2. faults \in Nat
      BY <2>0 DEF Types
    <3>3. PICK t : t = Target(rec)
      OBVIOUS
    <3>4. IF t.bad THEN disk' = t.disk ELSE faults' = faults + 1
      BY <2>1, <3>1, <3>3 DEF AppendFails
    <3>5. faults' # faults + 1
      BY <1>1, <3>2
    <3>6. t.bad /\ disk' = t.disk
      BY <3>4, <3>5
    <3>7. ~Rolls(rec)
      BY <3>3, <3>6 DEF Target
    <3> QED BY <3>3, <3>6, <3>7 DEF Target
  <2>2. ASSUME disk' = disk PROVE Grows(disk, disk', current_segment_id_)
    BY <2>0, <2>2, GrowsSame
  <2>3. ASSUME Flush PROVE Grows(disk, disk', current_segment_id_)
    <3>1. disk' = [disk EXCEPT ![current_segment_id_] = @ \o buffered]
      BY <2>3 DEF Flush
    <3> QED BY <2>0, <3>1, GrowsAt
  <2>4. Grows(disk, disk', current_segment_id_)
    <3>1. ~Open /\ ~Close /\ ~Crash /\ ~Damage
      BY <1>1 DEF Open, Close, Crash, Damage
    <3>3. faults' # faults + 1
      <4>1. faults \in Nat
        BY <2>0 DEF Types
      <4> QED BY <1>1, <4>1
    <3>4. /\ ~OpenFails /\ ~FlushFails /\ \A ts \in Clock : ~AppendRefuses(ts)
          /\ \A ts \in Clock, size \in 0 .. MaxPayload : ~AppendUnopened(ts, size)
      BY <3>3, Zenon DEF OpenFails, FlushFails, AppendRefuses, AppendUnopened
    <3>2. CASE Load \/ (\E start \in Clock : Replay(start)) \/ UNCHANGED vars
      BY <2>2, <2>0, <3>2, GrowsSame DEF Load, Replay, vars
    <3> QED BY <1>1, <2>0, <2>1, <2>2, <2>3, <3>1, <3>2, <3>4, AppendGrows DEF Next
  <2>5. 1 .. current_segment_id_ \subseteq Segments
    BY <2>0, SegmentFacts
  <2>6. \A s \in 1 .. current_segment_id_ : s <= current_segment_id_
    BY <2>0, SegmentFacts
  <2> QED BY <2>4, <2>5, <2>6 DEF Grows
<1>2. WriterInv /\ [Next]_vars =>
        [up /\ up' /\ faults' = faults =>
            \A s \in 1 .. current_segment_id_ : IsPrefix(disk[s], disk'[s])]_vars
  BY <1>1
<1> QED BY <1>2, WriterSafe, PTL DEF Spec, OwnSegmentsGrow

-----------------------------------------------------------------------------
(* Two principles of induction over places, stated with sets               *)

\* A non-empty set of naturals has a least element.
LEMMA LeastNatural ==
    ASSUME NEW T \in SUBSET Nat, T # {}
    PROVE  \E x \in T : \A y \in T : x <= y
<1>1. PICK x \in T : \A y \in T : ~(<<y, x>> \in OpToRel(<, Nat))
  BY NatLessThanWellFounded, WFMin, Zenon
<1>2. ASSUME NEW y \in T PROVE x <= y
  <2>1. ~(y < x)
    BY <1>1 DEF OpToRel
  <2> QED BY <2>1
<1> QED BY <1>2

\* From the end of a file to its beginning.
LEMMA Downwards ==
    ASSUME NEW n \in Nat, NEW S,
           \A p \in 1 .. n : (\A q \in p + 1 .. n : q \in S) => p \in S
    PROVE  \A p \in 1 .. n : p \in S
<1> DEFINE T == {k \in Nat : k < n /\ n - k \notin S}
<1>1. SUFFICES ASSUME T # {} PROVE FALSE
  <2>1. ASSUME NEW p \in 1 .. n, p \notin S PROVE FALSE
    <3>1. n - p \in T
      BY <2>1
    <3> QED BY <1>1, <3>1
  <2> QED BY <2>1
<1>2. PICK k \in T : \A j \in T : k <= j
  BY <1>1, LeastNatural
<1>3. n - k \in 1 .. n /\ n - k \notin S
  OBVIOUS
<1>4. ASSUME NEW q \in n - k + 1 .. n PROVE q \in S
  <2>1. n - q \in Nat /\ n - q < k /\ n - q < n /\ n - (n - q) = q
    BY <1>3
  <2>2. n - q \notin T
    BY <1>2, <2>1
  <2> QED BY <2>1, <2>2
<1> QED BY <1>3, <1>4

\* From the beginning to the end.
LEMMA Upwards ==
    ASSUME NEW n \in Nat, NEW S,
           \A p \in 1 .. n : (\A q \in 1 .. p - 1 : q \in S) => p \in S
    PROVE  \A p \in 1 .. n : p \in S
<1> DEFINE T == {k \in Nat : k \in 1 .. n /\ k \notin S}
<1>1. SUFFICES ASSUME T # {} PROVE FALSE
  OBVIOUS
<1>2. PICK k \in T : \A j \in T : k <= j
  BY <1>1, LeastNatural
<1>3. ASSUME NEW q \in 1 .. k - 1 PROVE q \in S
  BY <1>2
<1> QED BY <1>2, <1>3

-----------------------------------------------------------------------------
(* The scan of one segment                                                 *)

\* One turn of the scan at place p; f is what the scan makes of the places after it.
ScanStep(cells, f, p, skipping) ==
    IF p + kRecordHeaderSize - 1 > Len(cells)
    THEN [places |-> << >>, skipped |-> Len(cells) + 1 - p,
          corrupt |-> IF p <= Len(cells) THEN NewRun(skipping) ELSE 0]
    ELSE IF DecodesAt(cells, p)
    THEN [f[<<p + cells[p].len, FALSE>>] EXCEPT !.places = <<p>> \o @]
    ELSE [f[<<Resync(cells, p), TRUE>>] EXCEPT !.corrupt = @ + NewRun(skipping),
                                               !.skipped = @ + (Resync(cells, p) - p)]

\* f is the scan from place first on.
IsScan(f, cells, first) ==
    f = [at \in (first .. Len(cells) + 1) \X BOOLEAN |-> ScanStep(cells, f, at[1], at[2])]

LEMMA ScanChosen ==
    ASSUME NEW cells
    PROVE  Scan(cells) = (CHOOSE f : IsScan(f, cells, 1))[<<1, FALSE>>]
BY DEF Scan, IsScan, ScanStep

\* An intact record lies within the file.
LEMMA DecodesWithin ==
    ASSUME NEW cells \in Seq(Cells), NEW p \in 1 .. Len(cells), DecodesAt(cells, p)
    PROVE  /\ cells[p] # Junk /\ cells[p].part = 1 /\ cells[p].len \in Nat /\ cells[p].len >= 3
           /\ cells[p].rec \in 1 .. MaxAppends
           /\ p + cells[p].len - 1 <= Len(cells) /\ Len(cells) \in Nat
           /\ p + cells[p].len \in p + 3 .. Len(cells) + 1
           /\ \A i \in 1 .. cells[p].len :
                 /\ cells[p + i - 1].part = i /\ cells[p + i - 1].rec = cells[p].rec
                 /\ cells[p + i - 1].len = cells[p].len
<1>1. PICK c \in Cells : c = cells[p]
  OBVIOUS
<1>2. /\ c # Junk /\ c.part = 1 /\ p + c.len - 1 <= Len(cells)
      /\ \A i \in 1 .. c.len : cells[p + i - 1] = [c EXCEPT !.part = i]
  BY <1>1, Zenon DEF DecodesAt
<1>3. /\ c.rec \in Nat /\ c.len \in Nat /\ c.len >= 3 /\ c.rec >= 1 /\ c.rec <= MaxAppends
      /\ c = [rec |-> c.rec, part |-> c.part, len |-> c.len]
  BY <1>2, CellFacts
<1>4. ASSUME NEW i \in 1 .. c.len
      PROVE  /\ cells[p + i - 1].part = i /\ cells[p + i - 1].rec = c.rec
             /\ cells[p + i - 1].len = c.len
  <2>1. PICK d : d = cells[p + i - 1]
    OBVIOUS
  <2>2. d = [c EXCEPT !.part = i]
    BY <1>2, <2>1
  <2>3. [c EXCEPT !.part = i] = [rec |-> c.rec, part |-> i, len |-> c.len]
    BY <1>3
  <2>4. d.part = i /\ d.rec = c.rec /\ d.len = c.len
    BY <2>2, <2>3
  <2> QED BY <2>1, <2>4
<1>5. Len(cells) \in Nat /\ p \in Nat
  OBVIOUS
<1>6. p + c.len \in p + 3 .. Len(cells) + 1
  BY <1>2, <1>3, <1>5
<1>7. c.rec \in 1 .. MaxAppends
  BY <1>3, SegmentFacts
<1> QED BY <1>1, <1>2, <1>3, <1>4, <1>5, <1>6, <1>7

\* Intact records do not overlap.
LEMMA RecordsApart ==
    ASSUME NEW cells \in Seq(Cells), NEW p \in 1 .. Len(cells), DecodesAt(cells, p),
           NEW q \in 1 .. Len(cells), DecodesAt(cells, q), p < q
    PROVE  p + cells[p].len <= q
<1>1. /\ cells[p].len \in Nat /\ \A i \in 1 .. cells[p].len : cells[p + i - 1].part = i
  BY DecodesWithin
<1>2. cells[q].part = 1
  BY DecodesWithin
<1>3. SUFFICES ASSUME ~(p + cells[p].len <= q) PROVE FALSE
  OBVIOUS
<1>4. q - p + 1 \in 1 .. cells[p].len /\ p + (q - p + 1) - 1 = q /\ q - p + 1 # 1
  BY <1>1, <1>3
<1> QED BY <1>1, <1>2, <1>4

\* A turn depends on what follows only.
LEMMA ScanLocal ==
    ASSUME NEW cells \in Seq(Cells), NEW p \in 1 .. Len(cells) + 1, NEW skipping \in BOOLEAN, NEW f, NEW g,
           \A q \in p + 1 .. Len(cells) + 1, b \in BOOLEAN : f[<<q, b>>] = g[<<q, b>>]
    PROVE  ScanStep(cells, f, p, skipping) = ScanStep(cells, g, p, skipping)
<1>0. Len(cells) \in Nat
  OBVIOUS
<1>1. CASE p + 1 > Len(cells)
  BY <1>0, <1>1 DEF ScanStep
<1>2. CASE ~(p + 1 > Len(cells)) /\ DecodesAt(cells, p)
  <2>1. p \in 1 .. Len(cells)
    BY <1>0, <1>2
  <2>2. p + cells[p].len \in p + 3 .. Len(cells) + 1
    BY <1>2, <2>1, DecodesWithin
  <2>3. PICK q \in p + 1 .. Len(cells) + 1 : q = p + cells[p].len
    BY <1>0, <2>2
  <2>4. f[<<q, FALSE>>] = g[<<q, FALSE>>]
    OBVIOUS
  <2> QED BY <1>0, <1>2, <2>3, <2>4 DEF ScanStep
<1>3. CASE ~(p + 1 > Len(cells)) /\ ~DecodesAt(cells, p)
  <2>1. p + 1 \in p + 1 .. Len(cells) + 1
    BY <1>0, <1>3
  <2>2. f[<<p + 1, TRUE>>] = g[<<p + 1, TRUE>>]
    BY <2>1
  <2> QED BY <1>0, <1>3, <2>2 DEF ScanStep, Resync
<1> QED BY <1>1, <1>2, <1>3

LEMMA ScanAt ==
    ASSUME NEW cells \in Seq(Cells), NEW first \in 1 .. Len(cells) + 1, NEW f, IsScan(f, cells, first),
           NEW p \in first .. Len(cells) + 1, NEW skipping \in BOOLEAN
    PROVE  f[<<p, skipping>>] = ScanStep(cells, f, p, skipping)
BY DEF IsScan

LEMMA ScanExists ==
    ASSUME NEW cells \in Seq(Cells)
    PROVE  \E f : IsScan(f, cells, 1)
<1> DEFINE n == Len(cells)
           S == {p \in 1 .. n + 1 : \E f : IsScan(f, cells, p)}
<1>0. n \in Nat
  OBVIOUS
<1>1. ASSUME NEW p \in 1 .. n + 1, \A q \in p + 1 .. n + 1 : q \in S PROVE p \in S
  <2>1. CASE p = n + 1
    <3> DEFINE f == [at \in (p .. n + 1) \X BOOLEAN |-> ScanStep(cells, << >>, at[1], at[2])]
    <3>1. ASSUME NEW at \in (p .. n + 1) \X BOOLEAN
          PROVE  ScanStep(cells, f, at[1], at[2]) = ScanStep(cells, << >>, at[1], at[2])
      <4>1. at[1] = n + 1 /\ at[1] + 1 > Len(cells)
        BY <1>0, <2>1
      <4> QED BY <4>1 DEF ScanStep
    <3>2. IsScan(f, cells, p)
      BY <3>1 DEF IsScan
    <3> QED BY <3>2
  <2>2. CASE p # n + 1
    <3>1. p + 1 \in p + 1 .. n + 1 /\ p + 1 \in 1 .. n + 1
      BY <1>0, <2>2
    <3>2. PICK g : IsScan(g, cells, p + 1)
      BY <1>1, <3>1
    <3> DEFINE f == [at \in (p .. n + 1) \X BOOLEAN |->
                       IF at[1] = p THEN ScanStep(cells, g, at[1], at[2]) ELSE g[at]]
    <3>3. ASSUME NEW q \in p + 1 .. n + 1, NEW b \in BOOLEAN PROVE f[<<q, b>>] = g[<<q, b>>]
      <4>1. q \in p .. n + 1 /\ q # p
        BY <1>0
      <4>2. <<q, b>> \in (p .. n + 1) \X BOOLEAN /\ <<q, b>>[1] # p
        BY <4>1
      <4> QED BY <4>2
    <3>4. ASSUME NEW at \in (p .. n + 1) \X BOOLEAN PROVE f[at] = ScanStep(cells, f, at[1], at[2])
      <4>1. PICK r \in p .. n + 1, b \in BOOLEAN : at = <<r, b>>
        OBVIOUS
      <4>2. r \in 1 .. n + 1 /\ \A q \in r + 1 .. n + 1 : q \in p + 1 .. n + 1
        BY <1>0
      <4>3. ScanStep(cells, f, r, b) = ScanStep(cells, g, r, b)
        <5>1. PICK h : h = f
          OBVIOUS
        <5> HIDE DEF f
        <5>2. \A q \in r + 1 .. Len(cells) + 1, c \in BOOLEAN : h[<<q, c>>] = g[<<q, c>>]
          BY <3>3, <4>2, <5>1
        <5>3. r \in 1 .. Len(cells) + 1 /\ b \in BOOLEAN
          BY <4>2
        <5> HIDE <5>1
        <5>4. ScanStep(cells, h, r, b) = ScanStep(cells, g, r, b)
          BY <5>2, <5>3, ScanLocal
        <5> QED BY <5>1, <5>4
      <4>4. CASE r = p
        <5>1. f[at] = ScanStep(cells, g, at[1], at[2]) /\ at[1] = r /\ at[2] = b
          BY <4>1, <4>4
        <5> QED BY <4>3, <5>1
      <4>5. CASE r # p
        <5>1. f[at] = g[<<r, b>>] /\ at[1] = r /\ at[2] = b
          BY <4>1, <4>5
        <5>2. r \in p + 1 .. Len(cells) + 1 /\ p + 1 \in 1 .. Len(cells) + 1
          BY <1>0, <3>1, <4>5
        <5>3. g[<<r, b>>] = ScanStep(cells, g, r, b)
          BY <3>2, <5>2, ScanAt
        <5> QED BY <4>3, <5>1, <5>3
      <4> QED BY <4>4, <4>5
    <3>5. IsScan(f, cells, p)
      <4>1. f = [at \in (p .. n + 1) \X BOOLEAN |-> f[at]]
        OBVIOUS
      <4> HIDE DEF f
      <4>2. f = [at \in (p .. n + 1) \X BOOLEAN |-> ScanStep(cells, f, at[1], at[2])]
        BY <3>4, <4>1
      <4> QED BY <4>2 DEF IsScan
    <3> QED BY <3>5
  <2> QED BY <2>1, <2>2
<1>2. \A p \in 1 .. n + 1 : p \in S
  <2>1. n + 1 \in Nat
    BY <1>0
  <2> HIDE DEF n, S
  <2> QED BY <1>1, <2>1, Downwards
<1>3. 1 \in S
  BY <1>0, <1>2
<1> QED BY <1>3

LEMMA ScanIs ==
    ASSUME NEW cells \in Seq(Cells)
    PROVE  \E f : IsScan(f, cells, 1) /\ Scan(cells) = f[<<1, FALSE>>]
<1> DEFINE f == CHOOSE f : IsScan(f, cells, 1)
<1>1. IsScan(f, cells, 1)
  BY ScanExists, Zenon
<1>2. Scan(cells) = f[<<1, FALSE>>]
  BY ScanChosen, Zenon
<1> QED BY <1>1, <1>2, Zenon

\* No intact record reaches over the place before p.
Outside(cells, p) ==
    \A q \in 1 .. Len(cells) : q < p /\ DecodesAt(cells, q) => q + cells[q].len <= p

IntactFrom(cells, p) == {q \in 1 .. Len(cells) : q >= p /\ DecodesAt(cells, q)}

DamagedFrom(cells, p) == {i \in Damaged(cells) : i >= p}

\* Where runs of damage begin, if one is under way before p or not.
RunsFrom(cells, p, skipping) ==
    {i \in Damaged(cells) : (i = p /\ ~skipping) \/ (i > p /\ i - 1 \notin Damaged(cells))}

\* s lists the numbers of S from the least to the largest.
Lists(s, S) ==
    /\ s \in Seq(Nat)
    /\ \A i \in 1 .. Len(s) : s[i] \in S
    /\ \A x \in S : \E i \in 1 .. Len(s) : s[i] = x
    /\ \A i, j \in 1 .. Len(s) : i < j => s[i] < s[j]

\* What the scan from p on finds.
Finds(r, cells, p, skipping) ==
    /\ r \in [places : Seq(Nat), skipped : Nat, corrupt : Nat]
    /\ Lists(r.places, IntactFrom(cells, p))
    /\ r.skipped = Cardinality(DamagedFrom(cells, p))
    /\ r.corrupt = Cardinality(RunsFrom(cells, p, skipping))

LEMMA DamagedIs ==
    ASSUME NEW cells \in Seq(Cells), NEW p \in 1 .. Len(cells)
    PROVE  p \in Damaged(cells) <=> Outside(cells, p) /\ ~DecodesAt(cells, p)
<1>0. Len(cells) \in Nat /\ DOMAIN cells = 1 .. Len(cells)
  OBVIOUS
<1>1. \A q \in 1 .. Len(cells) : DecodesAt(cells, q) => cells[q].len \in Nat /\ cells[q].len >= 3
  BY DecodesWithin
<1>2. p \in Damaged(cells) <=> \A q \in 1 .. p : DecodesAt(cells, q) => p >= q + cells[q].len
  BY <1>0 DEF Damaged
<1>3. ASSUME p \in Damaged(cells) PROVE Outside(cells, p) /\ ~DecodesAt(cells, p)
  <2>1. ~DecodesAt(cells, p)
    <3>1. p \in 1 .. p
      BY <1>0
    <3>2. DecodesAt(cells, p) => p >= p + cells[p].len
      BY <1>2, <1>3, <3>1
    <3> QED BY <1>0, <1>1, <3>2
  <2>2. ASSUME NEW q \in 1 .. Len(cells), q < p, DecodesAt(cells, q) PROVE q + cells[q].len <= p
    <3>1. q \in 1 .. p
      BY <1>0, <2>2
    <3> QED BY <1>0, <1>1, <1>2, <1>3, <2>2, <3>1
  <2> QED BY <2>1, <2>2 DEF Outside
<1>4. ASSUME Outside(cells, p), ~DecodesAt(cells, p) PROVE p \in Damaged(cells)
  <2>1. ASSUME NEW q \in 1 .. p, DecodesAt(cells, q) PROVE p >= q + cells[q].len
    <3>1. q \in 1 .. Len(cells) /\ q # p
      BY <1>0, <1>4, <2>1
    <3>2. q < p
      BY <1>0, <3>1
    <3>3. q + cells[q].len <= p
      BY <1>4, <2>1, <3>1, <3>2 DEF Outside
    <3> QED BY <1>0, <1>1, <2>1, <3>1, <3>3
  <2> QED BY <1>2, <2>1
<1> QED BY <1>3, <1>4

LEMMA DamagedFinite ==
    ASSUME NEW cells \in Seq(Cells), NEW T, T \subseteq Damaged(cells)
    PROVE  IsFiniteSet(T) /\ Cardinality(T) \in Nat
<1>1. Damaged(cells) \subseteq 1 .. Len(cells)
  BY DEF Damaged
<1>2. IsFiniteSet(1 .. Len(cells))
  BY FS_Interval
<1> QED BY <1>1, <1>2, FS_Subset, FS_CardinalityType

\* The end of the file: no record fits in its last byte.
LEMMA FindsNothing ==
    ASSUME NEW cells \in Seq(Cells), NEW p \in 1 .. Len(cells) + 1, NEW skipping \in BOOLEAN,
           Outside(cells, p), p + 1 > Len(cells), NEW f
    PROVE  Finds(ScanStep(cells, f, p, skipping), cells, p, skipping)
<1>0. Len(cells) \in Nat /\ p \in Nat
  OBVIOUS
<1>1. PICK r : r = ScanStep(cells, f, p, skipping)
  OBVIOUS
<1>2. r = [places |-> << >>, skipped |-> Len(cells) + 1 - p,
           corrupt |-> IF p <= Len(cells) THEN NewRun(skipping) ELSE 0]
  BY <1>0, <1>1 DEF ScanStep
<1>3. IntactFrom(cells, p) = {}
  <2>1. ASSUME NEW q \in 1 .. Len(cells), q >= p, DecodesAt(cells, q) PROVE FALSE
    <3>1. q + cells[q].len \in q + 3 .. Len(cells) + 1
      BY <2>1, DecodesWithin
    <3> QED BY <1>0, <2>1, <3>1
  <2> QED BY <2>1 DEF IntactFrom
<1>4. << >> \in Seq(Nat) /\ Len(<< >>) = 0
  OBVIOUS
<1>5. Lists(<< >>, IntactFrom(cells, p))
  BY <1>3, <1>4 DEF Lists
<1>6. Damaged(cells) \subseteq 1 .. Len(cells)
  BY DEF Damaged
<1>7. CASE p = Len(cells) + 1
  <2>1. DamagedFrom(cells, p) = {} /\ RunsFrom(cells, p, skipping) = {}
    BY <1>0, <1>6, <1>7 DEF DamagedFrom, RunsFrom
  <2>2. Cardinality(DamagedFrom(cells, p)) = 0 /\ Cardinality(RunsFrom(cells, p, skipping)) = 0
    BY <2>1, FS_EmptySet
  <2>3. r = [places |-> << >>, skipped |-> 0, corrupt |-> 0]
    BY <1>0, <1>2, <1>7
  <2> QED BY <1>1, <1>4, <1>5, <2>2, <2>3 DEF Finds
<1>8. CASE p = Len(cells)
  <2>1. p \in 1 .. Len(cells) /\ ~DecodesAt(cells, p)
    <3>1. p \notin IntactFrom(cells, p)
      BY <1>3
    <3> QED BY <1>0, <1>8, <3>1 DEF IntactFrom
  <2>2. p \in Damaged(cells)
    BY <2>1, DamagedIs
  <2>3. DamagedFrom(cells, p) = {p} /\ RunsFrom(cells, p, skipping) = IF skipping THEN {} ELSE {p}
    BY <1>0, <1>6, <1>8, <2>2 DEF DamagedFrom, RunsFrom
  <2>4. Cardinality(DamagedFrom(cells, p)) = 1 /\ Cardinality(RunsFrom(cells, p, skipping)) = NewRun(skipping)
    BY <2>3, FS_EmptySet, FS_Singleton DEF NewRun
  <2>5. r = [places |-> << >>, skipped |-> 1, corrupt |-> NewRun(skipping)] /\ NewRun(skipping) \in Nat
    BY <1>0, <1>2, <1>8 DEF NewRun
  <2> QED BY <1>1, <1>4, <1>5, <2>4, <2>5 DEF Finds
<1> QED BY <1>0, <1>7, <1>8

\* An intact record is found, and nothing within it counts as skipped.
LEMMA FindsRecord ==
    ASSUME NEW cells \in Seq(Cells), NEW p \in 1 .. Len(cells), NEW skipping \in BOOLEAN,
           Outside(cells, p), DecodesAt(cells, p), NEW r,
           Finds(r, cells, p + cells[p].len, FALSE)
    PROVE  Finds([r EXCEPT !.places = <<p>> \o @], cells, p, skipping)
<1>0. Len(cells) \in Nat /\ p \in Nat
  OBVIOUS
<1>1. PICK e \in Nat : e = p + cells[p].len /\ e >= p + 3 /\ e <= Len(cells) + 1
  <2>1. p + cells[p].len \in p + 3 .. Len(cells) + 1
    BY DecodesWithin
  <2> QED BY <1>0, <2>1
<1>2. PICK P \in Seq(Nat), k \in Nat, c \in Nat : r = [places |-> P, skipped |-> k, corrupt |-> c]
  BY DEF Finds
<1>3. /\ Lists(P, IntactFrom(cells, e)) /\ k = Cardinality(DamagedFrom(cells, e))
      /\ c = Cardinality(RunsFrom(cells, e, FALSE))
  BY <1>1, <1>2 DEF Finds
<1>4. Damaged(cells) \subseteq 1 .. Len(cells)
  BY DEF Damaged
<1>5. ASSUME NEW i \in 1 .. Len(cells), i >= p, i < e PROVE i \notin Damaged(cells) /\ (i # p => ~DecodesAt(cells, i))
  <2>1. i # p => ~DecodesAt(cells, i)
    <3>1. ASSUME i # p, DecodesAt(cells, i) PROVE FALSE
      <4>1. p < i
        BY <1>0, <1>5, <3>1
      <4>2. e <= i
        BY <1>1, <3>1, <4>1, RecordsApart
      <4> QED BY <1>0, <1>1, <1>5, <4>2
    <3> QED BY <3>1
  <2>2. CASE i = p
    BY <2>2, DamagedIs
  <2>3. CASE i # p
    <3>1. ~Outside(cells, i)
      <4>1. p < i /\ ~(e <= i)
        BY <1>0, <1>1, <1>5, <2>3
      <4> QED BY <1>1, <4>1 DEF Outside
    <3> QED BY <2>1, <3>1, DamagedIs, Zenon
  <2> QED BY <2>1, <2>2, <2>3
<1>6. DamagedFrom(cells, p) = DamagedFrom(cells, e)
  <2>1. ASSUME NEW i \in Damaged(cells) PROVE i >= p <=> i >= e
    BY <1>0, <1>1, <1>4, <1>5
  <2> QED BY <2>1 DEF DamagedFrom
<1>7. RunsFrom(cells, p, skipping) = RunsFrom(cells, e, FALSE)
  <2>1. ASSUME NEW i \in Damaged(cells)
        PROVE  ((i = p /\ ~skipping) \/ (i > p /\ i - 1 \notin Damaged(cells))) <=>
               (i = e \/ (i > e /\ i - 1 \notin Damaged(cells)))
    <3>0. i \in 1 .. Len(cells) /\ i \in Nat
      BY <1>0, <1>4
    <3>1. CASE i < p
      BY <1>1, <3>0, <3>1
    <3>2. CASE i >= p /\ i < e
      BY <1>5, <3>0, <3>2
    <3>3. CASE i = e
      <4>1. i - 1 \in 1 .. Len(cells) /\ i - 1 >= p /\ i - 1 < e
        BY <1>0, <1>1, <3>0, <3>3
      <4>2. i - 1 \notin Damaged(cells) /\ i > p
        BY <1>0, <1>1, <1>5, <3>3, <4>1
      <4> QED BY <3>3, <4>2
    <3>4. CASE i > e
      BY <1>0, <1>1, <3>0, <3>4
    <3> QED BY <1>1, <3>0, <3>1, <3>2, <3>3, <3>4
  <2> QED BY <2>1 DEF RunsFrom
<1>8. ASSUME NEW q PROVE q \in IntactFrom(cells, p) <=> q = p \/ q \in IntactFrom(cells, e)
  BY <1>0, <1>1, <1>5 DEF IntactFrom
<1>9. PICK Q \in Seq(Nat) : Q = <<p>> \o P
  <2>1. <<p>> \in Seq(Nat)
    BY <1>0
  <2>2. <<p>> \o P \in Seq(Nat)
    BY <2>1
  <2> QED BY <2>2
<1>10. Len(P) \in Nat /\ Len(Q) = Len(P) + 1 /\ Q[1] = p /\ \A i \in 2 .. Len(Q) : Q[i] = P[i - 1]
  <2>1. <<p>> \in Seq(Nat) /\ Len(<<p>>) = 1 /\ <<p>>[1] = p
    BY <1>0
  <2> QED BY <1>9, <2>1
<1> HIDE <1>9
<1>11. Lists(Q, IntactFrom(cells, p))
  <2>1. /\ \A i \in 1 .. Len(P) : P[i] \in IntactFrom(cells, e)
        /\ \A x \in IntactFrom(cells, e) : \E i \in 1 .. Len(P) : P[i] = x
        /\ \A i, j \in 1 .. Len(P) : i < j => P[i] < P[j]
    BY <1>3 DEF Lists
  <2>2. ASSUME NEW i \in 2 .. Len(Q) PROVE i - 1 \in 1 .. Len(P) /\ Q[i] = P[i - 1] /\ Q[i] \in IntactFrom(cells, e)
    BY <1>10, <2>1, SMTT(30)
  <2>3. ASSUME NEW i \in 1 .. Len(Q) PROVE Q[i] \in IntactFrom(cells, p)
    <3>1. CASE i = 1
      BY <1>8, <1>10, <3>1
    <3>2. CASE i # 1
      <4>1. i \in 2 .. Len(Q)
        BY <1>10, <3>2
      <4> QED BY <1>8, <2>2, <4>1
    <3> QED BY <3>1, <3>2
  <2>4. ASSUME NEW x \in IntactFrom(cells, p) PROVE \E i \in 1 .. Len(Q) : Q[i] = x
    <3>1. CASE x = p
      <4>1. 1 \in 1 .. Len(Q)
        BY <1>10
      <4> QED BY <1>10, <3>1, <4>1
    <3>2. CASE x \in IntactFrom(cells, e)
      <4>1. PICK i \in 1 .. Len(P) : P[i] = x
        BY <2>1, <3>2
      <4>2. i + 1 \in 2 .. Len(Q) /\ (i + 1) - 1 = i /\ i + 1 \in 1 .. Len(Q)
        BY <1>10
      <4>3. Q[i + 1] = x
        BY <1>10, <4>1, <4>2
      <4> QED BY <4>2, <4>3
    <3> QED BY <1>8, <3>1, <3>2
  <2>5. ASSUME NEW i \in 1 .. Len(Q), NEW j \in 1 .. Len(Q), i < j PROVE Q[i] < Q[j]
    <3>1. j \in 2 .. Len(Q)
      BY <1>10, <2>5
    <3>2. CASE i = 1
      <4>1. Q[j] \in Nat /\ Q[j] >= e
        BY <1>0, <2>2, <3>1, SMTT(30) DEF IntactFrom
      <4> QED BY <1>0, <1>1, <1>10, <3>2, <4>1
    <3>3. CASE i # 1
      <4>1. i \in 2 .. Len(Q)
        BY <1>10, <3>3
      <4>2. i - 1 < j - 1
        BY <1>10, <2>5
      <4> QED BY <2>1, <2>2, <3>1, <4>1, <4>2
    <3> QED BY <3>2, <3>3
  <2> QED BY <2>3, <2>4, <2>5 DEF Lists
<1>12. PICK w : w = [r EXCEPT !.places = <<p>> \o @]
  OBVIOUS
<1>13. w = [places |-> Q, skipped |-> k, corrupt |-> c]
  BY <1>2, <1>9, <1>12
<1>14. Finds(w, cells, p, skipping)
  BY <1>3, <1>6, <1>7, <1>11, <1>13 DEF Finds
<1> QED BY <1>12, <1>14

\* A damaged byte is skipped, and counted, and begins a run unless one is under way.
LEMMA FindsDamage ==
    ASSUME NEW cells \in Seq(Cells), NEW p \in 1 .. Len(cells), NEW skipping \in BOOLEAN,
           Outside(cells, p), ~DecodesAt(cells, p), NEW r,
           Finds(r, cells, p + 1, TRUE)
    PROVE  Finds([r EXCEPT !.corrupt = @ + NewRun(skipping), !.skipped = @ + 1], cells, p, skipping)
<1>0. Len(cells) \in Nat /\ p \in Nat
  OBVIOUS
<1>1. p \in Damaged(cells)
  BY DamagedIs
<1>2. PICK P \in Seq(Nat), k \in Nat, c \in Nat : r = [places |-> P, skipped |-> k, corrupt |-> c]
  BY DEF Finds
<1>3. /\ Lists(P, IntactFrom(cells, p + 1)) /\ k = Cardinality(DamagedFrom(cells, p + 1))
      /\ c = Cardinality(RunsFrom(cells, p + 1, TRUE))
  BY <1>2 DEF Finds
<1>4. Damaged(cells) \subseteq 1 .. Len(cells)
  BY DEF Damaged
<1>5. IntactFrom(cells, p) = IntactFrom(cells, p + 1)
  <2>1. ASSUME NEW q \in 1 .. Len(cells), DecodesAt(cells, q) PROVE q >= p <=> q >= p + 1
    BY <1>0, <2>1
  <2> QED BY <2>1 DEF IntactFrom
<1>6. DamagedFrom(cells, p) = DamagedFrom(cells, p + 1) \cup {p} /\ p \notin DamagedFrom(cells, p + 1)
  BY <1>0, <1>1, <1>4 DEF DamagedFrom
<1>7. /\ RunsFrom(cells, p, skipping) = RunsFrom(cells, p + 1, TRUE) \cup (IF skipping THEN {} ELSE {p})
      /\ p \notin RunsFrom(cells, p + 1, TRUE)
  <2>1. ASSUME NEW i \in Damaged(cells)
        PROVE  (i > p /\ i - 1 \notin Damaged(cells)) <=> (i > p + 1 /\ i - 1 \notin Damaged(cells))
    <3>1. i \in Nat /\ (i = p + 1 => i - 1 = p)
      BY <1>0, <1>4
    <3> QED BY <1>0, <1>1, <3>1
  <2>2. RunsFrom(cells, p + 1, TRUE) = {i \in Damaged(cells) : i > p + 1 /\ i - 1 \notin Damaged(cells)}
    BY DEF RunsFrom
  <2>3. p \notin RunsFrom(cells, p + 1, TRUE)
    <3>1. ~(p > p + 1)
      BY <1>0
    <3> QED BY <2>2, <3>1, Zenon
  <2>4. CASE skipping
    <3>1. RunsFrom(cells, p, skipping) = {i \in Damaged(cells) : i > p /\ i - 1 \notin Damaged(cells)}
      BY <2>4 DEF RunsFrom
    <3>2. RunsFrom(cells, p, skipping) = RunsFrom(cells, p + 1, TRUE)
      BY <2>1, <2>2, <3>1
    <3> QED BY <2>3, <2>4, <3>2
  <2>5. CASE ~skipping
    <3>1. RunsFrom(cells, p, skipping) =
             {i \in Damaged(cells) : i = p \/ (i > p /\ i - 1 \notin Damaged(cells))}
      BY <2>5 DEF RunsFrom
    <3>2. RunsFrom(cells, p, skipping) = RunsFrom(cells, p + 1, TRUE) \cup {p}
      BY <1>1, <2>1, <2>2, <3>1
    <3> QED BY <2>3, <2>5, <3>2
  <2> QED BY <2>4, <2>5
<1>8. /\ IsFiniteSet(DamagedFrom(cells, p + 1)) /\ IsFiniteSet(RunsFrom(cells, p + 1, TRUE))
  BY DamagedFinite DEF DamagedFrom, RunsFrom
<1>9. Cardinality(DamagedFrom(cells, p)) = k + 1
  BY <1>3, <1>6, <1>8, FS_AddElement
<1>10. Cardinality(RunsFrom(cells, p, skipping)) = c + NewRun(skipping)
  <2>1. CASE skipping
    <3>1. RunsFrom(cells, p, skipping) = RunsFrom(cells, p + 1, TRUE)
      BY <1>7, <2>1
    <3>2. NewRun(skipping) = 0
      BY <2>1 DEF NewRun
    <3>3. Cardinality(RunsFrom(cells, p, skipping)) = c
      BY <1>3, <3>1
    <3> QED BY <3>2, <3>3
  <2>2. CASE ~skipping
    <3>1. RunsFrom(cells, p, skipping) = RunsFrom(cells, p + 1, TRUE) \cup {p}
      BY <1>7, <2>2
    <3>2. Cardinality(RunsFrom(cells, p, skipping)) = c + 1
      BY <1>3, <1>7, <1>8, <3>1, FS_AddElement
    <3> QED BY <2>2, <3>2 DEF NewRun
  <2> QED BY <2>1, <2>2
<1>11. PICK u \in Nat, v \in Nat : u = k + 1 /\ v = c + NewRun(skipping)
  <2>1. PICK x \in Nat : x = NewRun(skipping)
    BY DEF NewRun
  <2>2. k + 1 \in Nat /\ c + x \in Nat
    OBVIOUS
  <2> QED BY <2>1, <2>2
<1>12. PICK w : w = [r EXCEPT !.corrupt = @ + NewRun(skipping), !.skipped = @ + 1]
  OBVIOUS
<1>13. w = [places |-> P, skipped |-> u, corrupt |-> v]
  BY <1>2, <1>11, <1>12
<1>14. Finds(w, cells, p, skipping)
  BY <1>3, <1>5, <1>9, <1>10, <1>11, <1>13 DEF Finds
<1> QED BY <1>12, <1>14

LEMMA ScanFinds ==
    ASSUME NEW cells \in Seq(Cells)
    PROVE  Finds(Scan(cells), cells, 1, FALSE)
<1>1. PICK f : IsScan(f, cells, 1) /\ Scan(cells) = f[<<1, FALSE>>]
  BY ScanIs
<1> DEFINE n == Len(cells)
           S == {p \in 1 .. n + 1 : Outside(cells, p) =>
                    \A skipping \in BOOLEAN : Finds(f[<<p, skipping>>], cells, p, skipping)}
<1>0. n \in Nat
  OBVIOUS
<1>2. ASSUME NEW p \in 1 .. n + 1, \A q \in p + 1 .. n + 1 : q \in S PROVE p \in S
  <2>1. ASSUME Outside(cells, p), NEW skipping \in BOOLEAN
        PROVE  Finds(f[<<p, skipping>>], cells, p, skipping)
    <3>0. 1 \in 1 .. Len(cells) + 1 /\ p \in 1 .. Len(cells) + 1
      BY <1>0
    <3>1. f[<<p, skipping>>] = ScanStep(cells, f, p, skipping)
      BY <1>1, <3>0, ScanAt
    <3>2. CASE p + 1 > n
      BY <2>1, <3>0, <3>1, <3>2, FindsNothing
    <3>3. CASE ~(p + 1 > n) /\ DecodesAt(cells, p)
      <4>1. p \in 1 .. Len(cells)
        BY <1>0, <3>3
      <4>2. p + cells[p].len \in p + 3 .. Len(cells) + 1
        BY <3>3, <4>1, DecodesWithin
      <4>3. PICK q \in p + 1 .. n + 1 : q = p + cells[p].len
        BY <1>0, <4>2
      <4>4. Outside(cells, q)
        <5>1. ASSUME NEW o \in 1 .. Len(cells), o < q, DecodesAt(cells, o) PROVE o + cells[o].len <= q
          <6>0. cells[o].len \in Nat
            BY <5>1, DecodesWithin
          <6>1. CASE o < p
            <7>1. o + cells[o].len <= p
              BY <2>1, <5>1, <6>1 DEF Outside
            <7> QED BY <1>0, <6>0, <7>1
          <6>2. CASE o = p
            BY <1>0, <4>3, <6>2
          <6>3. CASE o > p
            <7>1. q <= o
              BY <3>3, <4>1, <4>3, <5>1, <6>3, RecordsApart
            <7> QED BY <1>0, <5>1, <7>1
          <6> QED BY <1>0, <6>1, <6>2, <6>3
        <5> QED BY <5>1 DEF Outside
      <4>5. q \in S /\ FALSE \in BOOLEAN
        BY <1>2
      <4>6. Finds(f[<<q, FALSE>>], cells, q, FALSE)
        BY <4>4, <4>5
      <4>7. PICK r : r = f[<<q, FALSE>>]
        OBVIOUS
      <4>8. Finds(r, cells, p + cells[p].len, FALSE)
        BY <4>3, <4>6, <4>7
      <4>9. Finds([r EXCEPT !.places = <<p>> \o @], cells, p, skipping)
        BY <2>1, <3>3, <4>1, <4>8, FindsRecord
      <4>10. ScanStep(cells, f, p, skipping) = [r EXCEPT !.places = <<p>> \o @]
        BY <3>3, <4>3, <4>7 DEF ScanStep
      <4> QED BY <3>1, <4>9, <4>10
    <3>4. CASE ~(p + 1 > n) /\ ~DecodesAt(cells, p)
      <4>1. p \in 1 .. Len(cells) /\ p + 1 \in p + 1 .. n + 1 /\ (p + 1) - p = 1
        BY <1>0, <3>4
      <4>2. Outside(cells, p + 1)
        <5>1. ASSUME NEW o \in 1 .. Len(cells), o < p + 1, DecodesAt(cells, o) PROVE o + cells[o].len <= p + 1
          <6>0. cells[o].len \in Nat
            BY <5>1, DecodesWithin
          <6>1. o < p
            <7>1. o # p
              BY <3>4, <5>1
            <7> QED BY <1>0, <5>1, <7>1
          <6>2. o + cells[o].len <= p
            BY <2>1, <5>1, <6>1 DEF Outside
          <6> QED BY <1>0, <6>0, <6>2
        <5> QED BY <5>1 DEF Outside
      <4>3. p + 1 \in S /\ TRUE \in BOOLEAN
        BY <1>2, <4>1
      <4>4. Finds(f[<<p + 1, TRUE>>], cells, p + 1, TRUE)
        BY <4>2, <4>3
      <4>5. PICK r : r = f[<<p + 1, TRUE>>]
        OBVIOUS
      <4>6. Finds(r, cells, p + 1, TRUE)
        BY <4>4, <4>5
      <4>7. Finds([r EXCEPT !.corrupt = @ + NewRun(skipping), !.skipped = @ + 1], cells, p, skipping)
        BY <2>1, <3>4, <4>1, <4>6, FindsDamage
      <4>8. ScanStep(cells, f, p, skipping) = [r EXCEPT !.corrupt = @ + NewRun(skipping), !.skipped = @ + 1]
        <5>1. Resync(cells, p) = p + 1 /\ Resync(cells, p) - p = 1
          BY <4>1 DEF Resync
        <5>2. ScanStep(cells, f, p, skipping) =
                [f[<<Resync(cells, p), TRUE>>] EXCEPT !.corrupt = @ + NewRun(skipping),
                                                      !.skipped = @ + (Resync(cells, p) - p)]
          BY <3>4 DEF ScanStep
        <5>3. f[<<Resync(cells, p), TRUE>>] = r
          BY <4>5, <5>1
        <5> QED BY <5>1, <5>2, <5>3, Zenon
      <4> QED BY <3>1, <4>7, <4>8
    <3> QED BY <3>2, <3>3, <3>4
  <2> QED BY <2>1
<1>3. \A p \in 1 .. n + 1 : p \in S
  <2>1. n + 1 \in Nat
    BY <1>0
  <2> HIDE DEF n, S
  <2> QED BY <1>2, <2>1, Downwards
<1>4. 1 \in S /\ FALSE \in BOOLEAN
  BY <1>0, <1>3
<1>5. Outside(cells, 1)
  BY <1>0 DEF Outside
<1>6. Finds(f[<<1, FALSE>>], cells, 1, FALSE)
  BY <1>4, <1>5
<1> QED BY <1>1, <1>6

\* The scan finds the intact records, in the order of their places, and counts the bytes
\* outside them and their runs: whatever is in the file.
LEMMA ScanExact ==
    ASSUME NEW cells \in Seq(Cells)
    PROVE  /\ Lists(Scan(cells).places, {q \in 1 .. Len(cells) : DecodesAt(cells, q)})
           /\ Scan(cells).skipped = Cardinality(Damaged(cells))
           /\ Scan(cells).corrupt = Cardinality({i \in Damaged(cells) : i - 1 \notin Damaged(cells)})
<1>0. Damaged(cells) \subseteq 1 .. Len(cells) /\ Len(cells) \in Nat
  BY DEF Damaged
<1>1. IntactFrom(cells, 1) = {q \in 1 .. Len(cells) : DecodesAt(cells, q)}
  BY <1>0 DEF IntactFrom
<1>2. DamagedFrom(cells, 1) = Damaged(cells)
  BY <1>0 DEF DamagedFrom
<1>3. RunsFrom(cells, 1, FALSE) = {i \in Damaged(cells) : i - 1 \notin Damaged(cells)}
  <2>1. ASSUME NEW i \in Damaged(cells)
        PROVE  (i = 1 \/ (i > 1 /\ i - 1 \notin Damaged(cells))) <=> i - 1 \notin Damaged(cells)
    <3>1. i \in Nat /\ i >= 1
      BY <1>0
    <3>2. 0 \notin Damaged(cells)
      BY <1>0
    <3> QED BY <3>1, <3>2
  <2>2. RunsFrom(cells, 1, FALSE) = {i \in Damaged(cells) : i = 1 \/ (i > 1 /\ i - 1 \notin Damaged(cells))}
    BY DEF RunsFrom
  <2> QED BY <2>1, <2>2
<1> QED BY <1>1, <1>2, <1>3, ScanFinds DEF Finds

-----------------------------------------------------------------------------
(* What load() finds in all segments                                       *)

\* f flattens the first k of seqs.
IsFlat(f, seqs, k) ==
    f = [i \in 1 .. k |-> IF i = 1 THEN seqs[i] ELSE f[i - 1] \o seqs[i]]

LEMMA FlatChosen ==
    ASSUME NEW seqs, Len(seqs) # 0
    PROVE  FlattenSeq(seqs) = (CHOOSE f : IsFlat(f, seqs, Len(seqs)))[Len(seqs)]
BY DEF FlattenSeq, IsFlat

LEMMA FlatExists ==
    ASSUME NEW seqs, NEW m \in Nat \ {0}
    PROVE  \E f : IsFlat(f, seqs, m)
<1> DEFINE S == {k \in 1 .. m : \E f : IsFlat(f, seqs, k)}
<1>1. ASSUME NEW k \in 1 .. m, \A q \in 1 .. k - 1 : q \in S PROVE k \in S
  <2>1. CASE k = 1
    <3> DEFINE f == [i \in 1 .. 1 |-> seqs[i]]
    <3>1. IsFlat(f, seqs, 1)
      BY DEF IsFlat
    <3> QED BY <2>1, <3>1
  <2>2. CASE k # 1
    <3>1. k - 1 \in 1 .. k - 1
      BY <2>2
    <3>2. PICK g : IsFlat(g, seqs, k - 1)
      BY <1>1, <3>1
    <3> DEFINE f == [i \in 1 .. k |-> IF i = k THEN g[k - 1] \o seqs[k] ELSE g[i]]
    <3>3. ASSUME NEW i \in 1 .. k PROVE f[i] = IF i = 1 THEN seqs[i] ELSE f[i - 1] \o seqs[i]
      <4>1. ASSUME NEW j \in 1 .. k - 1
            PROVE  f[j] = g[j] /\ g[j] = IF j = 1 THEN seqs[j] ELSE g[j - 1] \o seqs[j]
        <5>1. j \in 1 .. k /\ j # k
          OBVIOUS
        <5>2. f[j] = g[j]
          BY <5>1
        <5>3. g[j] = IF j = 1 THEN seqs[j] ELSE g[j - 1] \o seqs[j]
          BY <3>2 DEF IsFlat
        <5> QED BY <5>2, <5>3
      <4>2. CASE i = k
        <5>0. k \in 1 .. k
          OBVIOUS
        <5>1. f[k] = g[k - 1] \o seqs[k]
          BY <5>0, Zenon
        <5>2. f[k - 1] = g[k - 1]
          BY <3>1, <4>1
        <5> HIDE DEF f
        <5> QED BY <2>2, <4>2, <5>1, <5>2
      <4>3. CASE i # k /\ i = 1
        <5>1. i \in 1 .. k - 1
          BY <4>3
        <5> QED BY <4>1, <4>3, <5>1
      <4>4. CASE i # k /\ i # 1
        <5>1. i \in 1 .. k - 1 /\ i - 1 \in 1 .. k - 1
          BY <4>4
        <5>2. f[i] = g[i] /\ f[i - 1] = g[i - 1]
          BY <4>1, <5>1
        <5>3. g[i] = g[i - 1] \o seqs[i]
          BY <4>1, <4>4, <5>1
        <5> HIDE DEF f
        <5> QED BY <4>4, <5>2, <5>3
      <4> QED BY <4>2, <4>3, <4>4
    <3>4. f = [i \in 1 .. k |-> f[i]]
      OBVIOUS
    <3>5. IsFlat(f, seqs, k)
      <4> HIDE DEF f
      <4> QED BY <3>3, <3>4 DEF IsFlat
    <3> QED BY <3>5
  <2> QED BY <2>1, <2>2
<1>2. \A k \in 1 .. m : k \in S
  <2> HIDE DEF S
  <2> QED BY <1>1, Upwards
<1>3. m \in 1 .. m
  OBVIOUS
<1> QED BY <1>2, <1>3

LEMMA FlatIs ==
    ASSUME NEW seqs, NEW m \in Nat \ {0}, Len(seqs) = m
    PROVE  \E f : IsFlat(f, seqs, m) /\ FlattenSeq(seqs) = f[m]
<1> DEFINE f == CHOOSE f : IsFlat(f, seqs, m)
<1>1. IsFlat(f, seqs, m)
  BY FlatExists, Zenon
<1>2. Len(seqs) # 0
  OBVIOUS
<1>3. FlattenSeq(seqs) = (CHOOSE g : IsFlat(g, seqs, Len(seqs)))[Len(seqs)]
  BY <1>2, FlatChosen, Zenon
<1>4. FlattenSeq(seqs) = f[m]
  BY <1>3, Zenon
<1> QED BY <1>1, <1>4, Zenon

Precedes(a, b) ==
    a.segment_id < b.segment_id \/ (a.segment_id = b.segment_id /\ a.offset < b.offset)

\* F lists the intact records of segments first .. last, in the order of their places.
ListsRecords(F, files, first, last) ==
    /\ F \in Seq(Findings)
    /\ \A i \in 1 .. Len(F) : F[i].segment_id \in first .. last /\ Shows(F[i], files)
    /\ \A s \in first .. last : \A q \in 1 .. Len(files[s]) : DecodesAt(files[s], q) =>
          \E i \in 1 .. Len(F) : F[i].segment_id = s /\ F[i].offset = q
    /\ \A i, j \in 1 .. Len(F) : i < j => Precedes(F[i], F[j])

FoundIn(files, s) ==
    [i \in DOMAIN Scan(files[s]).places |->
        [segment_id |-> s, offset |-> Scan(files[s]).places[i],
         rec |-> files[s][Scan(files[s]).places[i]].rec]]

LEMMA FoundFlattens ==
    ASSUME NEW files PROVE Found(files) = FlattenSeq([s \in Segments |-> FoundIn(files, s)])
BY DEF Found, FoundIn

LEMMA FoundInLists ==
    ASSUME NEW files \in [Segments -> Seq(Cells)], NEW s \in Segments
    PROVE  ListsRecords(FoundIn(files, s), files, s, s)
<1> USE SegmentFacts
<1>1. PICK cells \in Seq(Cells) : cells = files[s]
  OBVIOUS
<1>2. PICK P \in Seq(Nat) : P = Scan(cells).places
                            /\ Lists(P, {q \in 1 .. Len(cells) : DecodesAt(cells, q)})
  BY ScanExact DEF Lists
<1>3. /\ Len(P) \in Nat /\ DOMAIN P = 1 .. Len(P)
      /\ \A i \in 1 .. Len(P) : P[i] \in 1 .. Len(cells) /\ DecodesAt(cells, P[i])
      /\ \A q \in 1 .. Len(cells) : DecodesAt(cells, q) => \E i \in 1 .. Len(P) : P[i] = q
      /\ \A i, j \in 1 .. Len(P) : i < j => P[i] < P[j]
  <2> DEFINE D == {q \in 1 .. Len(cells) : DecodesAt(cells, q)}
  <2>1. /\ \A i \in 1 .. Len(P) : P[i] \in D
        /\ \A x \in D : \E i \in 1 .. Len(P) : P[i] = x
        /\ \A i, j \in 1 .. Len(P) : i < j => P[i] < P[j]
    <3> HIDE DEF D
    <3>1. Lists(P, D)
      BY <1>2 DEF D
    <3> QED BY <3>1 DEF Lists
  <2>2. Len(P) \in Nat /\ DOMAIN P = 1 .. Len(P)
    OBVIOUS
  <2> HIDE <1>2
  <2>3. ASSUME NEW i \in 1 .. Len(P) PROVE P[i] \in 1 .. Len(cells) /\ DecodesAt(cells, P[i])
    BY <2>1
  <2>4. ASSUME NEW q \in 1 .. Len(cells), DecodesAt(cells, q) PROVE \E i \in 1 .. Len(P) : P[i] = q
    <3>1. q \in D
      BY <2>4
    <3> HIDE DEF D
    <3> QED BY <2>1, <3>1
  <2> QED BY <2>1, <2>2, <2>3, <2>4
<1>4. PICK F : F = FoundIn(files, s)
  OBVIOUS
<1>5. F = [i \in 1 .. Len(P) |-> [segment_id |-> s, offset |-> P[i], rec |-> cells[P[i]].rec]]
  <2>1. Scan(files[s]).places = P /\ DOMAIN P = 1 .. Len(P)
    BY <1>1, <1>2, <1>3
  <2> QED BY <1>1, <1>4, <2>1, Zenon DEF FoundIn
<1> HIDE <1>2
<1>6. ASSUME NEW i \in 1 .. Len(P)
      PROVE  /\ F[i] \in Findings /\ F[i].segment_id = s /\ F[i].offset = P[i] /\ F[i].rec = cells[P[i]].rec
             /\ P[i] \in 1 .. Len(cells) /\ DecodesAt(cells, P[i])
  <2>1. P[i] \in 1 .. Len(cells) /\ DecodesAt(cells, P[i]) /\ P[i] \in Nat
    BY <1>3
  <2>2. cells[P[i]].rec \in 1 .. MaxAppends
    BY <2>1, DecodesWithin
  <2>3. F[i] = [segment_id |-> s, offset |-> P[i], rec |-> cells[P[i]].rec]
    BY <1>5
  <2> QED BY <2>1, <2>2, <2>3 DEF Findings
<1>7. F \in Seq(Findings) /\ Len(F) = Len(P)
  <2>1. F = [i \in 1 .. Len(P) |-> F[i]]
    BY <1>5
  <2>2. \A i \in 1 .. Len(P) : F[i] \in Findings
    BY <1>6
  <2> HIDE <1>5
  <2> QED BY <1>3, <2>1, <2>2
<1> HIDE <1>5
<1>8. s \in s .. s /\ \A t \in s .. s : t = s
  OBVIOUS
<1>9. ASSUME NEW i \in 1 .. Len(F) PROVE F[i].segment_id \in s .. s /\ Shows(F[i], files)
  BY <1>1, <1>6, <1>7, <1>8 DEF Shows
<1>10. ASSUME NEW q \in 1 .. Len(files[s]), DecodesAt(files[s], q)
       PROVE  \E i \in 1 .. Len(F) : F[i].segment_id = s /\ F[i].offset = q
  <2>1. PICK i \in 1 .. Len(P) : P[i] = q
    BY <1>1, <1>3, <1>10
  <2> QED BY <1>6, <1>7, <2>1
<1>11. ASSUME NEW i \in 1 .. Len(F), NEW j \in 1 .. Len(F), i < j PROVE Precedes(F[i], F[j])
  <2>1. P[i] < P[j]
    BY <1>3, <1>7, <1>11
  <2> QED BY <1>6, <1>7, <2>1 DEF Precedes
<1>12. ListsRecords(F, files, s, s)
  BY <1>7, <1>8, <1>9, <1>10, <1>11 DEF ListsRecords
<1> QED BY <1>4, <1>12

LEMMA ListsJoin ==
    ASSUME NEW files \in [Segments -> Seq(Cells)], NEW k \in 1 .. MaxAppends,
           NEW F, NEW G, ListsRecords(F, files, 1, k), ListsRecords(G, files, k + 1, k + 1)
    PROVE  ListsRecords(F \o G, files, 1, k + 1)
<1> USE SegmentFacts
<1>1. PICK a \in Seq(Findings), b \in Seq(Findings) : a = F /\ b = G
  BY DEF ListsRecords
<1>2. /\ \A i \in 1 .. Len(a) : a[i].segment_id \in 1 .. k /\ Shows(a[i], files)
      /\ \A s \in 1 .. k : \A q \in 1 .. Len(files[s]) : DecodesAt(files[s], q) =>
            \E i \in 1 .. Len(a) : a[i].segment_id = s /\ a[i].offset = q
      /\ \A i, j \in 1 .. Len(a) : i < j => Precedes(a[i], a[j])
  BY <1>1 DEF ListsRecords
<1>3. /\ \A i \in 1 .. Len(b) : b[i].segment_id \in k + 1 .. k + 1 /\ Shows(b[i], files)
      /\ \A s \in k + 1 .. k + 1 : \A q \in 1 .. Len(files[s]) : DecodesAt(files[s], q) =>
            \E i \in 1 .. Len(b) : b[i].segment_id = s /\ b[i].offset = q
      /\ \A i, j \in 1 .. Len(b) : i < j => Precedes(b[i], b[j])
  BY <1>1 DEF ListsRecords
<1>4. PICK c \in Seq(Findings) : c = a \o b
  <2>1. a \o b \in Seq(Findings)
    OBVIOUS
  <2> QED BY <2>1
<1>5. /\ Len(a) \in Nat /\ Len(b) \in Nat /\ Len(c) = Len(a) + Len(b)
      /\ \A i \in 1 .. Len(a) : c[i] = a[i]
      /\ \A i \in 1 .. Len(b) : c[Len(a) + i] = b[i]
  BY <1>4
<1>50. c = F \o G
  BY <1>1, <1>4
<1> HIDE <1>4, <1>1
<1>6. ASSUME NEW i \in 1 .. Len(c)
      PROVE  \/ i \in 1 .. Len(a) /\ c[i] = a[i] /\ a[i].segment_id \in 1 .. k
             \/ /\ i - Len(a) \in 1 .. Len(b) /\ i > Len(a) /\ c[i] = b[i - Len(a)]
                /\ b[i - Len(a)].segment_id = k + 1
  <2>1. CASE i <= Len(a)
    BY <1>2, <1>5, <2>1
  <2>2. CASE i > Len(a)
    <3>1. i - Len(a) \in 1 .. Len(b) /\ Len(a) + (i - Len(a)) = i
      BY <1>5, <2>2
    <3>2. c[i] = b[i - Len(a)]
      BY <1>5, <3>1
    <3>3. b[i - Len(a)].segment_id \in k + 1 .. k + 1
      BY <1>3, <3>1
    <3>4. \A x \in k + 1 .. k + 1 : x = k + 1
      OBVIOUS
    <3> QED BY <2>2, <3>1, <3>2, <3>3, <3>4
  <2> QED BY <1>5, <2>1, <2>2
<1>7. ASSUME NEW i \in 1 .. Len(c) PROVE c[i].segment_id \in 1 .. k + 1 /\ Shows(c[i], files)
  <2>1. CASE i \in 1 .. Len(a) /\ c[i] = a[i] /\ a[i].segment_id \in 1 .. k
    <3>1. 1 .. k \subseteq 1 .. k + 1
      OBVIOUS
    <3>2. Shows(a[i], files)
      BY <1>2, <2>1
    <3> QED BY <2>1, <3>1, <3>2, Zenon
  <2>2. CASE i - Len(a) \in 1 .. Len(b) /\ c[i] = b[i - Len(a)] /\ b[i - Len(a)].segment_id = k + 1
    BY <1>3, <2>2
  <2> QED BY <1>6, <2>1, <2>2
<1>8. ASSUME NEW s \in 1 .. k + 1, NEW q \in 1 .. Len(files[s]), DecodesAt(files[s], q)
      PROVE  \E i \in 1 .. Len(c) : c[i].segment_id = s /\ c[i].offset = q
  <2>1. CASE s \in 1 .. k
    <3>1. PICK i \in 1 .. Len(a) : a[i].segment_id = s /\ a[i].offset = q
      BY <1>2, <1>8, <2>1
    <3>2. i \in 1 .. Len(c)
      BY <1>5
    <3> QED BY <1>5, <3>1, <3>2
  <2>2. CASE s = k + 1
    <3>0. s \in k + 1 .. k + 1
      BY <2>2
    <3>1. PICK i \in 1 .. Len(b) : b[i].segment_id = s /\ b[i].offset = q
      BY <1>3, <1>8, <3>0
    <3>2. Len(a) + i \in 1 .. Len(c)
      BY <1>5
    <3> QED BY <1>5, <3>1, <3>2
  <2> QED BY <2>1, <2>2
<1>9. ASSUME NEW i \in 1 .. Len(c), NEW j \in 1 .. Len(c), i < j PROVE Precedes(c[i], c[j])
  <2>1. CASE j \in 1 .. Len(a) /\ c[j] = a[j]
    <3>1. i \in 1 .. Len(a)
      BY <1>5, <1>9, <2>1
    <3> QED BY <1>2, <1>5, <1>9, <2>1, <3>1
  <2>2. CASE /\ i \in 1 .. Len(a) /\ c[i] = a[i] /\ a[i].segment_id \in 1 .. k
             /\ c[j] = b[j - Len(a)] /\ b[j - Len(a)].segment_id = k + 1
    BY <2>2, SMTT(30) DEF Precedes
  <2>3. CASE /\ i - Len(a) \in 1 .. Len(b) /\ c[i] = b[i - Len(a)]
             /\ j - Len(a) \in 1 .. Len(b) /\ c[j] = b[j - Len(a)]
    <3>1. i - Len(a) < j - Len(a)
      BY <1>5, <1>9
    <3> QED BY <1>3, <2>3, <3>1
  <2> QED BY <1>6, <2>1, <2>2, <2>3
<1>10. ListsRecords(c, files, 1, k + 1)
  BY <1>7, <1>8, <1>9 DEF ListsRecords
<1> QED BY <1>10, <1>50

\* load() finds the intact records of all files, in the order of their places.
LEMMA FoundExact ==
    ASSUME NEW files \in [Segments -> Seq(Cells)]
    PROVE  ListsRecords(Found(files), files, 1, MaxAppends + 1)
<1> USE SegmentFacts
<1>1. PICK m \in Nat \ {0} : m = MaxAppends + 1
  OBVIOUS
<1>2. PICK seqs : seqs = [s \in Segments |-> FoundIn(files, s)]
  OBVIOUS
<1>3. Len(seqs) = m /\ \A s \in 1 .. m : seqs[s] = FoundIn(files, s)
  BY <1>1, <1>2
<1>4. Found(files) = FlattenSeq(seqs)
  BY <1>2, FoundFlattens
<1> HIDE <1>2
<1>5. PICK f : IsFlat(f, seqs, m) /\ Found(files) = f[m]
  BY <1>3, <1>4, FlatIs
<1>6. \A i \in 1 .. m : f[i] = IF i = 1 THEN seqs[i] ELSE f[i - 1] \o seqs[i]
  BY <1>5 DEF IsFlat
<1> DEFINE S == {k \in 1 .. m : ListsRecords(f[k], files, 1, k)}
<1>7. ASSUME NEW k \in 1 .. m, \A q \in 1 .. k - 1 : q \in S PROVE k \in S
  <2>0. k \in Segments
    BY <1>1
  <2>1. ListsRecords(seqs[k], files, k, k)
    BY <1>3, <2>0, FoundInLists
  <2>2. CASE k = 1
    <3>1. f[1] = seqs[1]
      BY <1>1, <1>6
    <3> QED BY <2>1, <2>2, <3>1
  <2>3. CASE k # 1
    <3>1. PICK j \in 1 .. MaxAppends : k = j + 1 /\ j \in 1 .. k - 1
      <4>1. k - 1 \in 1 .. MaxAppends /\ k = (k - 1) + 1 /\ k - 1 \in 1 .. k - 1
        BY <1>1, <2>3
      <4> QED BY <4>1
    <3>2. ListsRecords(f[j], files, 1, j)
      BY <1>7, <3>1
    <3>3. f[k] = f[j] \o seqs[k]
      <4>1. k - 1 = j
        BY <3>1
      <4> QED BY <1>6, <2>3, <4>1
    <3>4. ListsRecords(f[j] \o seqs[k], files, 1, j + 1)
      BY <2>1, <3>1, <3>2, ListsJoin
    <3> QED BY <3>1, <3>3, <3>4
  <2> QED BY <2>2, <2>3
<1>8. \A k \in 1 .. m : k \in S
  <2> HIDE DEF S
  <2> QED BY <1>7, Upwards
<1>9. m \in S
  BY <1>8
<1> QED BY <1>1, <1>5, <1>9

-----------------------------------------------------------------------------
(* Rearranging a sequence                                                  *)

StrictOrder(order, n) ==
    /\ \A i \in 1 .. n : <<i, i>> \notin order
    /\ \A i, j \in 1 .. n : i # j => <<i, j>> \in order \/ <<j, i>> \in order
    /\ \A i, j, k \in 1 .. n : <<i, j>> \in order /\ <<j, k>> \in order => <<i, k>> \in order

Preceding(order, n, i) == {j \in 1 .. n : <<j, i>> \in order}

Rank(order, n, i) == 1 + Cardinality(Preceding(order, n, i))

LEMMA PrecedingFinite ==
    ASSUME NEW n \in Nat, NEW T, T \subseteq 1 .. n
    PROVE  IsFiniteSet(T) /\ Cardinality(T) \in Nat /\ Cardinality(T) <= n
<1>1. IsFiniteSet(1 .. n) /\ Cardinality(1 .. n) = n
  <2>1. n \in Int /\ 1 \in Int
    OBVIOUS
  <2>2. IsFiniteSet(1 .. n) /\ Cardinality(1 .. n) = IF 1 > n THEN 0 ELSE n - 1 + 1
    BY <2>1, FS_Interval
  <2> QED BY <2>2
<1> QED BY <1>1, FS_Subset, FS_CardinalityType

LEMMA RankFacts ==
    ASSUME NEW n \in Nat, NEW order, StrictOrder(order, n)
    PROVE  /\ \A i \in 1 .. n : Rank(order, n, i) \in 1 .. n
           /\ \A i, j \in 1 .. n : <<i, j>> \in order => Rank(order, n, i) < Rank(order, n, j)
           /\ \A i, j \in 1 .. n : Rank(order, n, i) = Rank(order, n, j) => i = j
           /\ \A k \in 1 .. n : \E i \in 1 .. n : Rank(order, n, i) = k
<1> DEFINE B(i) == Preceding(order, n, i)
<1>1. ASSUME NEW i \in 1 .. n
      PROVE  /\ B(i) \subseteq 1 .. n /\ IsFiniteSet(B(i)) /\ Cardinality(B(i)) \in Nat
             /\ i \notin B(i) /\ IsFiniteSet(B(i) \cup {i})
             /\ Cardinality(B(i) \cup {i}) = Cardinality(B(i)) + 1
  <2>1. B(i) \subseteq 1 .. n /\ i \notin B(i)
    BY DEF Preceding, StrictOrder
  <2>2. IsFiniteSet(B(i)) /\ Cardinality(B(i)) \in Nat
    BY <2>1, PrecedingFinite
  <2> HIDE DEF B
  <2>3. IsFiniteSet(B(i) \cup {i}) /\ Cardinality(B(i) \cup {i}) = Cardinality(B(i)) + 1
    BY <2>1, <2>2, FS_AddElement
  <2> QED BY <2>1, <2>2, <2>3
<1>2. ASSUME NEW i \in 1 .. n PROVE Rank(order, n, i) \in 1 .. n
  <2> HIDE DEF B
  <2>1. B(i) \cup {i} \subseteq 1 .. n
    BY <1>1
  <2>2. Cardinality(B(i) \cup {i}) <= n
    BY <2>1, PrecedingFinite
  <2>3. PICK c \in Nat : c = Cardinality(B(i)) /\ c + 1 <= n
    BY <1>1, <2>2
  <2>4. Rank(order, n, i) = 1 + c
    BY <2>3 DEF Rank, B
  <2> QED BY <2>3, <2>4
<1>3. ASSUME NEW i \in 1 .. n, NEW j \in 1 .. n, <<i, j>> \in order
      PROVE  Rank(order, n, i) < Rank(order, n, j)
  <2>1. B(i) \cup {i} \subseteq B(j)
    BY <1>3 DEF Preceding, StrictOrder
  <2> HIDE DEF B
  <2>2. Cardinality(B(i) \cup {i}) <= Cardinality(B(j))
    BY <1>1, <2>1, FS_Subset
  <2>3. PICK c \in Nat, d \in Nat : c = Cardinality(B(i)) /\ d = Cardinality(B(j)) /\ c + 1 <= d
    BY <1>1, <2>2
  <2>4. Rank(order, n, i) = 1 + c /\ Rank(order, n, j) = 1 + d
    BY <2>3 DEF Rank, B
  <2> QED BY <2>3, <2>4
<1>4. ASSUME NEW i \in 1 .. n, NEW j \in 1 .. n, Rank(order, n, i) = Rank(order, n, j) PROVE i = j
  <2>1. SUFFICES ASSUME i # j PROVE FALSE
    OBVIOUS
  <2>2. <<i, j>> \in order \/ <<j, i>> \in order
    BY <2>1 DEF StrictOrder
  <2>3. Rank(order, n, i) < Rank(order, n, j) \/ Rank(order, n, j) < Rank(order, n, i)
    BY <1>3, <2>2
  <2>4. PICK a \in Nat : a = Rank(order, n, i) /\ a = Rank(order, n, j)
    BY <1>2, <1>4
  <2> QED BY <2>3, <2>4
<1>5. ASSUME NEW k \in 1 .. n PROVE \E i \in 1 .. n : Rank(order, n, i) = k
  <2>1. SUFFICES ASSUME \A i \in 1 .. n : Rank(order, n, i) # k PROVE FALSE
    OBVIOUS
  <2> DEFINE T == (1 .. n) \ {k}
             f == [i \in 1 .. n |-> Rank(order, n, i)]
  <2>2. IsFiniteSet(1 .. n) /\ Cardinality(1 .. n) = n
    <3>1. n \in Int /\ 1 \in Int
      OBVIOUS
    <3>2. IsFiniteSet(1 .. n) /\ Cardinality(1 .. n) = IF 1 > n THEN 0 ELSE n - 1 + 1
      BY <3>1, FS_Interval
    <3> QED BY <3>2
  <2>3. IsFiniteSet(T) /\ Cardinality(T) = n - 1
    BY <2>2, FS_RemoveElement
  <2>4. f \in [1 .. n -> T]
    BY <1>2, <2>1
  <2>5. Cardinality(T) < Cardinality(1 .. n)
    BY <2>2, <2>3
  <2>6. \E i, j \in 1 .. n : i # j /\ f[i] = f[j]
    <3> HIDE DEF f, T
    <3> QED BY <2>2, <2>3, <2>4, <2>5, FS_PigeonHole
  <2> QED BY <1>4, <2>6
<1> QED BY <1>2, <1>3, <1>4, <1>5

\* r is s in another order: its k-th element is the pi[k]-th of s.
Permutes(r, s, pi, order) ==
    /\ pi \in [1 .. Len(s) -> 1 .. Len(s)]
    /\ \A k \in 1 .. Len(s) : r[k] = s[pi[k]]
    /\ \A i \in 1 .. Len(s) : \E k \in 1 .. Len(s) : pi[k] = i
    /\ \A k, l \in 1 .. Len(s) : k < l => <<pi[k], pi[l]>> \in order
    /\ \A k \in 1 .. Len(s) : Rank(order, Len(s), pi[k]) = k

LEMMA Arranged ==
    ASSUME NEW X, NEW s \in Seq(X), NEW order, StrictOrder(order, Len(s))
    PROVE  /\ Arrange(s, order) \in Seq(X) /\ Len(Arrange(s, order)) = Len(s)
           /\ \E pi : Permutes(Arrange(s, order), s, pi, order)
<1>0. PICK n \in Nat : n = Len(s) /\ DOMAIN s = 1 .. n
  OBVIOUS
<1>00. \A i \in 1 .. n : s[i] \in X
  BY <1>0
<1>01. StrictOrder(order, n)
  BY <1>0
<1>1. /\ \A i \in 1 .. n : Rank(order, n, i) \in 1 .. n
      /\ \A i, j \in 1 .. n : <<i, j>> \in order => Rank(order, n, i) < Rank(order, n, j)
      /\ \A i, j \in 1 .. n : Rank(order, n, i) = Rank(order, n, j) => i = j
      /\ \A k \in 1 .. n : \E i \in 1 .. n : Rank(order, n, i) = k
  BY <1>01, RankFacts
<1> DEFINE pi == [k \in 1 .. n |-> CHOOSE i \in 1 .. n : Rank(order, n, i) = k]
<1>2. ASSUME NEW k \in 1 .. n PROVE pi[k] \in 1 .. n /\ Rank(order, n, pi[k]) = k
  <2>1. pi[k] = CHOOSE i \in 1 .. n : Rank(order, n, i) = k
    OBVIOUS
  <2>2. (CHOOSE i \in 1 .. n : Rank(order, n, i) = k) \in 1 .. n
        /\ Rank(order, n, CHOOSE i \in 1 .. n : Rank(order, n, i) = k) = k
    BY <1>1, Zenon
  <2> QED BY <2>1, <2>2
<1>3. pi = [k \in 1 .. n |-> pi[k]]
  OBVIOUS
<1>4. Arrange(s, order) = [k \in 1 .. n |-> s[pi[k]]]
  <2>1. Arrange(s, order) = [k \in 1 .. n |-> s[CHOOSE i \in 1 .. n : Rank(order, n, i) = k]]
    BY <1>0 DEF Arrange, Rank, Preceding
  <2> QED BY <2>1
<1> HIDE DEF pi
<1>5. pi \in [1 .. n -> 1 .. n]
  BY <1>2, <1>3
<1>6. Arrange(s, order) \in Seq(X) /\ Len(Arrange(s, order)) = n
  <2>1. PICK r : r = Arrange(s, order) /\ r = [k \in 1 .. n |-> s[pi[k]]]
    BY <1>4
  <2>2. \A k \in 1 .. n : s[pi[k]] \in X
    BY <1>00, <1>2
  <2>3. r \in Seq(X) /\ Len(r) = n
    BY <2>1, <2>2
  <2> QED BY <2>1, <2>3
<1>7. \A k \in 1 .. n : Arrange(s, order)[k] = s[pi[k]]
  BY <1>4
<1>8. ASSUME NEW i \in 1 .. n PROVE \E k \in 1 .. n : pi[k] = i
  <2>1. PICK k \in 1 .. n : k = Rank(order, n, i)
    BY <1>1
  <2>2. pi[k] = i
    BY <1>1, <1>2, <2>1
  <2> QED BY <2>2
<1>9. ASSUME NEW k \in 1 .. n, NEW l \in 1 .. n, k < l PROVE <<pi[k], pi[l]>> \in order
  <2>1. PICK a \in 1 .. n, b \in 1 .. n :
           a = pi[k] /\ b = pi[l] /\ Rank(order, n, a) = k /\ Rank(order, n, b) = l
    BY <1>2
  <2>2. a # b
    BY <1>9, <2>1
  <2>3. <<a, b>> \in order \/ <<b, a>> \in order
    BY <1>01, <2>2 DEF StrictOrder
  <2>4. ~(Rank(order, n, b) < Rank(order, n, a))
    BY <1>9, <2>1
  <2>5. <<b, a>> \notin order
    BY <1>1, <2>4
  <2> QED BY <2>1, <2>3, <2>5
<1>10. Permutes(Arrange(s, order), s, pi, order)
  BY <1>0, <1>2, <1>5, <1>7, <1>8, <1>9, Zenon DEF Permutes
<1> QED BY <1>0, <1>6, <1>10

\* In the order it is in already, a sequence stays as it is.
LEMMA ArrangedAlready ==
    ASSUME NEW X, NEW s \in Seq(X), NEW order, StrictOrder(order, Len(s)),
           \A i, j \in 1 .. Len(s) : <<i, j>> \in order <=> i < j
    PROVE  Arrange(s, order) = s
<1>0. PICK n \in Nat : n = Len(s)
  OBVIOUS
<1>1. PICK pi : Permutes(Arrange(s, order), s, pi, order)
  BY Arranged
<1>2. ASSUME NEW i \in 1 .. n PROVE Rank(order, n, i) = i
  <2>1. Preceding(order, n, i) = 1 .. i - 1
    BY <1>0 DEF Preceding
  <2>2. Cardinality(1 .. i - 1) = i - 1
    <3>1. i - 1 \in Int /\ 1 \in Int
      OBVIOUS
    <3>2. Cardinality(1 .. i - 1) = IF 1 > i - 1 THEN 0 ELSE i - 1 - 1 + 1
      BY <3>1, FS_Interval
    <3> QED BY <3>2
  <2>3. Cardinality(Preceding(order, n, i)) = i - 1
    BY <2>1, <2>2
  <2> QED BY <2>3 DEF Rank
<1>3. ASSUME NEW k \in 1 .. n PROVE Arrange(s, order)[k] = s[k]
  <2>1. pi[k] \in 1 .. n /\ Rank(order, n, pi[k]) = k /\ Arrange(s, order)[k] = s[pi[k]]
    BY <1>0, <1>1 DEF Permutes
  <2> QED BY <1>2, <2>1
<1>4. PICK r \in Seq(X) : r = Arrange(s, order) /\ Len(r) = Len(s)
  BY Arranged
<1>5. r = s
  BY <1>0, <1>3, <1>4, SeqEqual
<1> QED BY <1>4, <1>5

-----------------------------------------------------------------------------
(* The orders load() sorts by                                              *)

\* By t, then by q, then by place.
LexOrder(order, n, t, q) ==
    \A i, j \in 1 .. n : <<i, j>> \in order <=>
        t[i] < t[j] \/ (t[i] = t[j] /\ (q[i] < q[j] \/ (q[i] = q[j] /\ i < j)))

LEMMA LexStrict ==
    ASSUME NEW n \in Nat, NEW t \in [1 .. n -> Nat], NEW q \in [1 .. n -> Nat], NEW order,
           LexOrder(order, n, t, q)
    PROVE  StrictOrder(order, n)
<1>1. ASSUME NEW i \in 1 .. n PROVE t[i] \in Nat /\ q[i] \in Nat
  OBVIOUS
<1>2. ASSUME NEW i \in 1 .. n PROVE <<i, i>> \notin order
  BY <1>1 DEF LexOrder
<1>3. ASSUME NEW i \in 1 .. n, NEW j \in 1 .. n, i # j PROVE <<i, j>> \in order \/ <<j, i>> \in order
  BY <1>1, <1>3 DEF LexOrder
<1>4. ASSUME NEW i \in 1 .. n, NEW j \in 1 .. n, NEW k \in 1 .. n, <<i, j>> \in order, <<j, k>> \in order
      PROVE  <<i, k>> \in order
  <2>1. t[i] < t[j] \/ (t[i] = t[j] /\ (q[i] < q[j] \/ (q[i] = q[j] /\ i < j)))
    BY <1>4 DEF LexOrder
  <2>2. t[j] < t[k] \/ (t[j] = t[k] /\ (q[j] < q[k] \/ (q[j] = q[k] /\ j < k)))
    BY <1>4 DEF LexOrder
  <2>3. t[i] < t[k] \/ (t[i] = t[k] /\ (q[i] < q[k] \/ (q[i] = q[k] /\ i < k)))
    BY <1>1, <2>1, <2>2
  <2> QED BY <2>3 DEF LexOrder
<1> QED BY <1>2, <1>3, <1>4 DEF StrictOrder

\* A sequence of numbers that never regresses is sorted.
LEMMA NeverRegresses ==
    ASSUME NEW n \in Nat, NEW t \in [1 .. n -> Nat], \A i \in 2 .. n : ~(t[i] < t[i - 1])
    PROVE  \A i, j \in 1 .. n : i < j => t[i] <= t[j]
<1> DEFINE S == {j \in 1 .. n : \A i \in 1 .. j : t[i] <= t[j]}
<1>1. ASSUME NEW j \in 1 .. n, \A k \in 1 .. j - 1 : k \in S PROVE j \in S
  <2>1. ASSUME NEW i \in 1 .. j PROVE t[i] <= t[j]
    <3>1. CASE i = j
      BY <3>1
    <3>2. CASE i # j
      <4>1. PICK k \in 1 .. j - 1 : k = j - 1 /\ i \in 1 .. k /\ k \in 1 .. n /\ j \in 2 .. n
        BY <3>2
      <4>2. t[i] <= t[k]
        BY <1>1, <4>1
      <4>3. ~(t[j] < t[k])
        BY <4>1
      <4>4. t[i] \in Nat /\ t[j] \in Nat /\ t[k] \in Nat
        BY <4>1
      <4> QED BY <4>2, <4>3, <4>4
    <3> QED BY <3>1, <3>2
  <2> QED BY <2>1
<1>2. \A j \in 1 .. n : j \in S
  <2> HIDE DEF S
  <2> QED BY <1>1, Upwards
<1>3. ASSUME NEW i \in 1 .. n, NEW j \in 1 .. n, i < j PROVE t[i] <= t[j]
  <2>1. j \in S /\ i \in 1 .. j
    BY <1>2, <1>3
  <2> QED BY <2>1
<1> QED BY <1>3

\* The keys of what load() finds.
Stamps(F) == [i \in 1 .. Len(F) |-> appended[F[i].rec].timestamp_ns]
Sequences_(F) == [i \in 1 .. Len(F) |-> appended[F[i].rec].sequence]

Known(F) == F \in Seq(Findings) /\ \A i \in 1 .. Len(F) : F[i].rec \in 1 .. Len(appended)

LEMMA KeysTyped ==
    ASSUME Types, NEW F, Known(F)
    PROVE  /\ Stamps(F) \in [1 .. Len(F) -> Nat] /\ Sequences_(F) \in [1 .. Len(F) -> Nat]
           /\ Len(F) \in Nat /\ DOMAIN F = 1 .. Len(F)
<1>1. appended \in Seq(Headers)
  BY DEF Types
<1>2. ASSUME NEW i \in 1 .. Len(F)
      PROVE  appended[F[i].rec].timestamp_ns \in Nat /\ appended[F[i].rec].sequence \in Nat
  <2>1. appended[F[i].rec] \in Headers
    BY <1>1 DEF Known
  <2>2. Clock \subseteq Nat /\ 0 .. MaxAppends \subseteq Nat
    BY WalAssumption DEF Clock
  <2> QED BY <2>1, <2>2 DEF Headers
<1>3. Len(F) \in Nat /\ DOMAIN F = 1 .. Len(F)
  BY DEF Known
<1> QED BY <1>2, <1>3 DEF Stamps, Sequences_

LEMMA EarlierLex ==
    ASSUME Types, NEW F, Known(F)
    PROVE  LexOrder(StableOrder(F, Earlier), Len(F), Stamps(F), Sequences_(F))
<1>1. /\ Stamps(F) \in [1 .. Len(F) -> Nat] /\ Sequences_(F) \in [1 .. Len(F) -> Nat]
      /\ Len(F) \in Nat /\ DOMAIN F = 1 .. Len(F)
  BY KeysTyped
<1>2. ASSUME NEW i \in 1 .. Len(F)
      PROVE  /\ Stamps(F)[i] = appended[F[i].rec].timestamp_ns /\ Stamps(F)[i] \in Nat
             /\ Sequences_(F)[i] = appended[F[i].rec].sequence /\ Sequences_(F)[i] \in Nat
  BY <1>1 DEF Stamps, Sequences_
<1> DEFINE t == Stamps(F)
           q == Sequences_(F)
<1>3. ASSUME NEW i \in 1 .. Len(F), NEW j \in 1 .. Len(F)
      PROVE  Earlier(F[i], F[j]) <=> t[i] < t[j] \/ (t[i] = t[j] /\ q[i] < q[j])
  BY <1>2 DEF Earlier
<1>4. ASSUME NEW i \in 1 .. Len(F), NEW j \in 1 .. Len(F)
      PROVE  <<i, j>> \in StableOrder(F, Earlier) <=>
               Earlier(F[i], F[j]) \/ (~Earlier(F[j], F[i]) /\ i < j)
  BY <1>1 DEF StableOrder
<1> HIDE DEF t, q
<1>5. ASSUME NEW i \in 1 .. Len(F), NEW j \in 1 .. Len(F)
      PROVE  <<i, j>> \in StableOrder(F, Earlier) <=>
               t[i] < t[j] \/ (t[i] = t[j] /\ (q[i] < q[j] \/ (q[i] = q[j] /\ i < j)))
  <2>1. PICK a \in Nat, b \in Nat, c \in Nat, d \in Nat : a = t[i] /\ b = t[j] /\ c = q[i] /\ d = q[j]
    BY <1>2 DEF t, q
  <2>2. /\ Earlier(F[i], F[j]) <=> a < b \/ (a = b /\ c < d)
        /\ Earlier(F[j], F[i]) <=> b < a \/ (a = b /\ d < c)
    BY <1>3, <2>1
  <2>3. <<i, j>> \in StableOrder(F, Earlier) <=>
          (a < b \/ (a = b /\ c < d)) \/ (~(b < a \/ (a = b /\ d < c)) /\ i < j)
    BY <1>4, <2>2
  <2>4. <<i, j>> \in StableOrder(F, Earlier) <=>
          a < b \/ (a = b /\ (c < d \/ (c = d /\ i < j)))
    BY <2>3
  <2> QED BY <2>1, <2>4
<1> QED BY <1>5 DEF LexOrder, t, q

\* The order of the reader's index.
LEMMA StampLex ==
    ASSUME Types, NEW F, Known(F)
    PROVE  \A i, j \in 1 .. Len(F) :
             <<i, j>> \in StableOrder(F, EarlierStamp) <=>
                Stamps(F)[i] < Stamps(F)[j] \/ (Stamps(F)[i] = Stamps(F)[j] /\ i < j)
<1>1. /\ Stamps(F) \in [1 .. Len(F) -> Nat] /\ Len(F) \in Nat /\ DOMAIN F = 1 .. Len(F)
  BY KeysTyped
<1>2. ASSUME NEW i \in 1 .. Len(F)
      PROVE  Stamps(F)[i] = Stamp(F[i]) /\ Stamps(F)[i] \in Nat
  BY <1>1 DEF Stamps, Stamp
<1>3. ASSUME NEW i \in 1 .. Len(F), NEW j \in 1 .. Len(F)
      PROVE  <<i, j>> \in StableOrder(F, EarlierStamp) <=>
                Stamp(F[i]) < Stamp(F[j]) \/ (~(Stamp(F[j]) < Stamp(F[i])) /\ i < j)
  BY <1>1 DEF StableOrder, EarlierStamp
<1>4. ASSUME NEW i \in 1 .. Len(F), NEW j \in 1 .. Len(F)
      PROVE  <<i, j>> \in StableOrder(F, EarlierStamp) <=>
                Stamps(F)[i] < Stamps(F)[j] \/ (Stamps(F)[i] = Stamps(F)[j] /\ i < j)
  BY <1>2, <1>3
<1> QED BY <1>4

LEMMA FoundKnown ==
    ASSUME WriterInv, ~up
    PROVE  /\ Known(Found(disk)) /\ ListsRecords(Found(disk), disk, 1, MaxAppends + 1)
           /\ Files = disk /\ disk \in [Segments -> Seq(Cells)]
<1>0. Types /\ Running /\ CellsAppended
  BY DEF WriterInv
<1>1. disk \in [Segments -> Seq(Cells)] /\ buffered \in Seq(Cells) /\ buffered = << >> /\ Len(appended) \in Nat
  BY <1>0 DEF Types, Running
<1>2. Files = disk
  BY <1>1, FilesTyped
<1>3. PICK F : F = Found(disk)
  OBVIOUS
<1>4. ListsRecords(F, disk, 1, MaxAppends + 1)
  BY <1>1, <1>3, FoundExact
<1>5. ASSUME NEW i \in 1 .. Len(F) PROVE F[i].rec \in 1 .. Len(appended)
  <2>1. F[i] \in Findings /\ Shows(F[i], disk)
    BY <1>4 DEF ListsRecords
  <2>2. PICK s \in Segments, q \in Nat, r \in 1 .. MaxAppends : s = F[i].segment_id /\ q = F[i].offset /\ r = F[i].rec
    BY <2>1 DEF Findings
  <2>3. q \in 1 .. Len(disk[s]) /\ r = disk[s][q].rec
    BY <2>1, <2>2 DEF Shows
  <2>4. q \in DOMAIN Files[s] /\ r = Files[s][q].rec
    <3>1. disk[s] \in Seq(Cells)
      BY <1>1
    <3> QED BY <1>2, <2>3, <3>1
  <2>5. r <= Len(appended)
    BY <1>0, <2>4 DEF CellsAppended
  <2> QED BY <1>1, <2>2, <2>5
<1>6. Known(F)
  BY <1>4, <1>5 DEF Known, ListsRecords
<1> QED BY <1>1, <1>2, <1>3, <1>4, <1>6

LEMMA LoadSorts ==
    ASSUME WriterInv, ~up
    PROVE  SortedRecords(StableSort(Found(disk), Earlier), disk, appended)
<1> USE SegmentFacts
<1>1. PICK F : F = Found(disk)
  OBVIOUS
<1>2. /\ Known(F) /\ ListsRecords(F, disk, 1, MaxAppends + 1) /\ Types
  BY <1>1, FoundKnown DEF WriterInv
<1>3. PICK n \in Nat : n = Len(F)
  BY <1>2 DEF Known
<1>4. PICK order : order = StableOrder(F, Earlier)
  OBVIOUS
<1>5. PICK R : R = StableSort(F, Earlier) /\ R = Arrange(F, order)
  BY <1>4 DEF StableSort
<1>6. PICK t \in [1 .. n -> Nat], q \in [1 .. n -> Nat] : t = Stamps(F) /\ q = Sequences_(F)
  BY <1>2, <1>3, KeysTyped
<1>7. LexOrder(order, n, t, q)
  BY <1>2, <1>3, <1>4, <1>6, EarlierLex
<1>8. StrictOrder(order, n)
  BY <1>7, LexStrict
<1>9. F \in Seq(Findings)
  BY <1>2 DEF Known
<1>10. R \in Seq(Findings) /\ Len(R) = n /\ \E pi : Permutes(R, F, pi, order)
  BY <1>3, <1>5, <1>8, <1>9, Arranged
<1>11. PICK pi : /\ pi \in [1 .. n -> 1 .. n]
                 /\ \A k \in 1 .. n : R[k] = F[pi[k]]
                 /\ \A i \in 1 .. n : \E k \in 1 .. n : pi[k] = i
                 /\ \A k, l \in 1 .. n : k < l => <<pi[k], pi[l]>> \in order
  BY <1>3, <1>10 DEF Permutes
<1>12. ASSUME NEW i \in 1 .. n PROVE t[i] = appended[F[i].rec].timestamp_ns
  BY <1>3, <1>6 DEF Stamps
<1>13. ASSUME NEW i \in 1 .. n PROVE Shows(R[i], disk) /\ R[i].rec \in 1 .. Len(appended)
  <2>1. PICK a \in 1 .. n : R[i] = F[a]
    BY <1>11
  <2> QED BY <1>2, <1>3, <2>1 DEF Known, ListsRecords
<1>14. ASSUME NEW s \in Segments, NEW o \in 1 .. Len(disk[s]), DecodesAt(disk[s], o)
       PROVE  \E i \in 1 .. n : R[i].segment_id = s /\ R[i].offset = o
  <2>1. PICK a \in 1 .. n : F[a].segment_id = s /\ F[a].offset = o
    BY <1>2, <1>3, <1>14 DEF ListsRecords
  <2>2. PICK i \in 1 .. n : pi[i] = a
    BY <1>11
  <2>3. R[i] = F[a]
    BY <1>11, <2>2
  <2> QED BY <2>1, <2>3
<1>15. ASSUME NEW i \in 1 .. n, NEW j \in 1 .. n, i < j
       PROVE  R[i] # R[j] /\ appended[R[i].rec].timestamp_ns <= appended[R[j].rec].timestamp_ns
  <2>1. PICK a \in 1 .. n, b \in 1 .. n : R[i] = F[a] /\ R[j] = F[b] /\ <<a, b>> \in order
    <3>1. pi[i] \in 1 .. n /\ pi[j] \in 1 .. n
      BY <1>11
    <3>2. R[i] = F[pi[i]] /\ R[j] = F[pi[j]] /\ <<pi[i], pi[j]>> \in order
      BY <1>11, <1>15
    <3> QED BY <3>1, <3>2
  <2>2. t[a] < t[b] \/ t[a] = t[b]
    BY <1>7, <2>1 DEF LexOrder
  <2>3. t[a] \in Nat /\ t[b] \in Nat
    OBVIOUS
  <2>4. t[a] = appended[R[i].rec].timestamp_ns /\ t[b] = appended[R[j].rec].timestamp_ns
    BY <1>12, <2>1
  <2>5. a # b
    BY <1>8, <2>1 DEF StrictOrder
  <2>6. Precedes(F[a], F[b]) \/ Precedes(F[b], F[a])
    <3>1. a < b \/ b < a
      BY <2>5
    <3> QED BY <1>2, <1>3, <3>1 DEF ListsRecords
  <2>7. F[a] \in Findings
    BY <1>3, <1>9
  <2>8. ~Precedes(F[a], F[a])
    BY <2>7 DEF Precedes, Findings
  <2>9. F[a] # F[b]
    BY <2>6, <2>8
  <2>10. t[a] <= t[b]
    BY <2>2, <2>3
  <2>11. R[i] # R[j]
    BY <2>1, <2>9
  <2> QED BY <2>4, <2>10, <2>11, Zenon
<1>16. SortedRecords(R, disk, appended)
  BY <1>10, <1>13, <1>14, <1>15 DEF SortedRecords
<1> QED BY <1>1, <1>5, <1>16

\* In the writer's first life, what load() finds is in the order of the sequence numbers.
LEMMA FoundBySequence ==
    ASSUME WriterInv, ~up, lives = 1, NEW i \in 1 .. Len(Found(disk)), NEW j \in 1 .. Len(Found(disk)), i < j
    PROVE  Sequences_(Found(disk))[i] < Sequences_(Found(disk))[j]
<1>1. PICK F : F = Found(disk)
  OBVIOUS
<1>2. /\ Known(F) /\ ListsRecords(F, disk, 1, MaxAppends + 1) /\ Types
      /\ Files = disk /\ disk \in [Segments -> Seq(Cells)]
  BY <1>1, FoundKnown DEF WriterInv
<1>3. FirstLife /\ FirstLifeOrder
  BY DEF WriterInv
<1>4. i \in 1 .. Len(F) /\ j \in 1 .. Len(F)
  BY <1>1
<1>5. F[i] \in Findings /\ F[j] \in Findings
  BY <1>2, <1>4 DEF Known
<1>6. PICK s \in Segments, p \in Nat, m \in Nat : s = F[i].segment_id /\ p = F[i].offset /\ m = F[i].rec
  BY <1>5, SegmentFacts DEF Findings
<1>7. PICK u \in Segments, q \in Nat, n \in Nat : u = F[j].segment_id /\ q = F[j].offset /\ n = F[j].rec
  BY <1>5, SegmentFacts, SMTT(30) DEF Findings
<1>8. s < u \/ (s = u /\ p < q)
  BY <1>2, <1>4, <1>6, <1>7 DEF ListsRecords, Precedes
<1>9. PICK f \in Seq(Cells), g \in Seq(Cells) : f = disk[s] /\ g = disk[u]
  BY <1>2
<1>10. p \in 1 .. Len(f) /\ DecodesAt(f, p) /\ m = f[p].rec
  BY <1>2, <1>4, <1>6, <1>9 DEF ListsRecords, Shows
<1>11. q \in 1 .. Len(g) /\ DecodesAt(g, q) /\ n = g[q].rec
  BY <1>2, <1>4, <1>7, <1>9 DEF ListsRecords, Shows
<1>12. f[p] # Junk /\ f[p].part = 1
  BY <1>10, DecodesWithin
<1>13. g[q] # Junk /\ g[q].part = 1
  BY <1>11, DecodesWithin
<1>14. Before(f[p], g[q])
  <2>1. p \in DOMAIN Files[s] /\ q \in DOMAIN Files[u] /\ Files[s] = f /\ Files[u] = g
    BY <1>2, <1>9, <1>10, <1>11
  <2> QED BY <1>3, <1>8, <1>12, <1>13, <2>1 DEF FirstLifeOrder
<1>15. m < n
  BY <1>10, <1>11, <1>12, <1>13, <1>14 DEF Before
<1>16. m \in DOMAIN appended /\ n \in DOMAIN appended
  <2>1. m \in 1 .. Len(appended) /\ n \in 1 .. Len(appended)
    BY <1>2, <1>4, <1>6, <1>7 DEF Known
  <2>2. appended \in Seq(Headers)
    BY <1>2 DEF Types
  <2> QED BY <2>1, <2>2
<1>17. appended[m].sequence = m - 1 /\ appended[n].sequence = n - 1
  BY <1>3, <1>16, SMTT(30) DEF FirstLife
<1>18. Sequences_(F)[i] = appended[m].sequence /\ Sequences_(F)[j] = appended[n].sequence
  BY <1>4, <1>6, <1>7 DEF Sequences_
<1> QED BY <1>1, <1>15, <1>17, <1>18

\* Then the reader's index has the order of its records, sorted or not.
LEMMA LoadIndex ==
    ASSUME WriterInv, ~up, lives = 1
    PROVE  Finalize(Found(disk)) = StableSort(Found(disk), Earlier)
<1>1. PICK F : F = Found(disk)
  OBVIOUS
<1>2. Known(F) /\ Types
  BY <1>1, FoundKnown DEF WriterInv
<1>3. PICK n \in Nat : n = Len(F) /\ DOMAIN F = 1 .. n
  BY <1>2, KeysTyped
<1>4. PICK t \in [1 .. n -> Nat], q \in [1 .. n -> Nat] : t = Stamps(F) /\ q = Sequences_(F)
  BY <1>2, <1>3, KeysTyped
<1>5. PICK order, stamps : order = StableOrder(F, Earlier) /\ stamps = StableOrder(F, EarlierStamp)
  OBVIOUS
<1>6. LexOrder(order, n, t, q)
  BY <1>2, <1>3, <1>4, <1>5, EarlierLex
<1>7. ASSUME NEW i \in 1 .. n, NEW j \in 1 .. n
      PROVE  <<i, j>> \in stamps <=> t[i] < t[j] \/ (t[i] = t[j] /\ i < j)
  BY <1>2, <1>3, <1>4, <1>5, StampLex
<1>8. ASSUME NEW i \in 1 .. n, NEW j \in 1 .. n, i < j PROVE q[i] < q[j]
  BY <1>1, <1>3, <1>4, <1>8, FoundBySequence
<1>9. ASSUME NEW i \in 1 .. n, NEW j \in 1 .. n
      PROVE  <<i, j>> \in order <=> t[i] < t[j] \/ (t[i] = t[j] /\ i < j)
  <2>1. <<i, j>> \in order <=> t[i] < t[j] \/ (t[i] = t[j] /\ (q[i] < q[j] \/ (q[i] = q[j] /\ i < j)))
    BY <1>6 DEF LexOrder
  <2>2. (q[i] < q[j] \/ (q[i] = q[j] /\ i < j)) <=> i < j
    <3>1. CASE i < j
      BY <1>8, <3>1
    <3>2. CASE i = j
      BY <3>2
    <3>3. CASE j < i
      <4>1. q[j] < q[i] /\ q[j] \in Nat /\ q[i] \in Nat
        BY <1>8, <3>3
      <4> QED BY <3>3, <4>1
    <3> QED BY <3>1, <3>2, <3>3
  <2> QED BY <2>1, <2>2
<1>10. order \subseteq (1 .. n) \X (1 .. n) /\ stamps \subseteq (1 .. n) \X (1 .. n)
  BY <1>3, <1>5 DEF StableOrder
<1>11. order = stamps
  <2>1. ASSUME NEW o \in (1 .. n) \X (1 .. n) PROVE o \in order <=> o \in stamps
    <3>1. PICK i \in 1 .. n, j \in 1 .. n : o = <<i, j>>
      OBVIOUS
    <3> QED BY <1>7, <1>9, <3>1
  <2> QED BY <1>10, <2>1
<1>12. StableSort(F, EarlierStamp) = StableSort(F, Earlier)
  BY <1>5, <1>11 DEF StableSort
<1>13. ASSUME ~\E i \in 2 .. Len(F) : Stamp(F[i]) < Stamp(F[i - 1])
       PROVE  StableSort(F, Earlier) = F
  <2>1. ASSUME NEW i \in 2 .. n PROVE ~(t[i] < t[i - 1])
    <3>1. i \in 1 .. n /\ i - 1 \in 1 .. n
      BY <1>3
    <3>2. t[i] = Stamp(F[i]) /\ t[i - 1] = Stamp(F[i - 1])
      BY <1>3, <1>4, <3>1 DEF Stamps, Stamp
    <3> QED BY <1>3, <1>13, <3>2
  <2>2. ASSUME NEW i \in 1 .. n, NEW j \in 1 .. n, i < j PROVE t[i] <= t[j]
    BY <2>1, <2>2, NeverRegresses
  <2>3. ASSUME NEW i \in 1 .. n, NEW j \in 1 .. n PROVE <<i, j>> \in order <=> i < j
    <3>1. PICK a \in Nat, b \in Nat : a = t[i] /\ b = t[j]
      OBVIOUS
    <3>2. (i < j => a <= b) /\ (j < i => b <= a)
      BY <2>2, <3>1
    <3>3. <<i, j>> \in order <=> a < b \/ (a = b /\ i < j)
      BY <1>9, <3>1
    <3> QED BY <3>1, <3>2, <3>3
  <2>4. StrictOrder(order, n) /\ F \in Seq(Findings)
    BY <1>2, <1>6, LexStrict DEF Known
  <2>5. Arrange(F, order) = F
    BY <1>3, <2>3, <2>4, ArrangedAlready
  <2> QED BY <1>5, <2>5 DEF StableSort
<1>14. Finalize(F) = StableSort(F, Earlier)
  BY <1>12, <1>13 DEF Finalize
<1> QED BY <1>1, <1>14

-----------------------------------------------------------------------------
(* What the reader shows stays true                                        *)

\* A set of places that has every earlier one with a place is a first part.
LEMMA InitialPart ==
    ASSUME NEW n \in Nat, NEW S \in SUBSET (1 .. n), \A i \in S : \A j \in 1 .. i : j \in S
    PROVE  Cardinality(S) \in 0 .. n /\ S = 1 .. Cardinality(S)
<1> DEFINE T == {k \in Nat : k + 1 \notin S}
<1>1. n \in T
  OBVIOUS
<1>2. PICK m \in T : \A k \in T : m <= k
  <2> HIDE DEF T
  <2>1. T # {}
    BY <1>1
  <2>2. T \in SUBSET Nat
    BY DEF T
  <2> QED BY <2>1, <2>2, LeastNatural
<1>3. m \in Nat /\ m <= n /\ m + 1 \notin S
  BY <1>1, <1>2
<1>4. ASSUME NEW i \in 1 .. m PROVE i \in S
  <2>1. i - 1 \in Nat /\ i - 1 < m /\ (i - 1) + 1 = i
    BY <1>3
  <2>2. i - 1 \notin T
    BY <1>2, <1>3, <2>1
  <2> QED BY <2>1, <2>2
<1>5. ASSUME NEW i \in S PROVE i \in 1 .. m
  <2>1. i \in 1 .. n
    OBVIOUS
  <2>2. SUFFICES ASSUME i > m PROVE FALSE
    BY <1>3, <2>1
  <2>3. m + 1 \in 1 .. i
    BY <1>3, <2>1, <2>2
  <2> QED BY <1>3, <2>3
<1>6. S = 1 .. m
  BY <1>4, <1>5
<1>7. Cardinality(1 .. m) = m
  <2>1. m \in Int /\ 1 \in Int
    BY <1>3
  <2>2. Cardinality(1 .. m) = IF 1 > m THEN 0 ELSE m - 1 + 1
    BY <2>1, FS_Interval
  <2> QED BY <1>3, <2>2
<1>8. Cardinality(S) = m
  BY <1>6, <1>7
<1> QED BY <1>3, <1>6, <1>8

\* replay() delivers the records from its start on, in their order.
LEMMA ReplayDelivers ==
    ASSUME NEW R, NEW files, NEW hist \in Seq(Headers), SortedRecords(R, files, hist), NEW start \in Nat
    PROVE  Delivered(SubSeq(R, 1 + Cardinality({i \in DOMAIN R : hist[R[i].rec].timestamp_ns < start}),
                            Len(R)), R, start, hist)
<1>1. R \in Seq(Findings)
  BY DEF SortedRecords
<1>2. PICK n \in Nat : n = Len(R) /\ DOMAIN R = 1 .. n
  BY <1>1
<1> DEFINE st(i) == hist[R[i].rec].timestamp_ns
           S == {i \in DOMAIN R : st(i) < start}
<1>3. ASSUME NEW i \in 1 .. n PROVE st(i) \in Nat
  <2>1. R[i].rec \in 1 .. Len(hist)
    BY <1>2 DEF SortedRecords
  <2>2. hist[R[i].rec] \in Headers
    BY <2>1
  <2>3. Clock \subseteq Nat
    BY WalAssumption DEF Clock
  <2> QED BY <2>2, <2>3 DEF Headers
<1>4. ASSUME NEW i \in 1 .. n, NEW j \in 1 .. n, i < j PROVE R[i] # R[j] /\ st(i) <= st(j)
  BY <1>2, <1>4 DEF SortedRecords
<1>5. S \in SUBSET (1 .. n) /\ \A i \in 1 .. n : i \in S <=> st(i) < start
  BY <1>2
<1> HIDE DEF st, S
<1>6. ASSUME NEW i \in S, NEW j \in 1 .. i PROVE j \in S
  <2>1. i \in 1 .. n /\ j \in 1 .. n /\ st(i) < start
    BY <1>5
  <2>2. CASE i = j
    BY <2>2
  <2>3. CASE j < i
    <3>1. st(j) <= st(i) /\ st(i) \in Nat /\ st(j) \in Nat
      BY <1>3, <1>4, <2>1, <2>3
    <3>2. st(j) < start
      BY <2>1, <3>1
    <3> QED BY <1>5, <2>1, <3>2
  <2> QED BY <2>1, <2>2, <2>3
<1>7. PICK m \in 0 .. n : m = Cardinality(S) /\ S = 1 .. m
  BY <1>5, <1>6, InitialPart
<1>8. PICK rs : rs = SubSeq(R, 1 + m, n)
  OBVIOUS
<1>9. rs \in Seq(Findings) /\ DOMAIN rs = 1 .. n - m /\ \A i \in 1 .. n - m : rs[i] = R[m + i]
  <2>1. rs = SubSeq(R, m + 1, n)
    BY <1>8
  <2>2. rs \in Seq(Findings) /\ Len(rs) = n - m /\ \A i \in 1 .. n - m : rs[i] = R[m + i]
    <3>1. m \in 0 .. Len(R)
      BY <1>2
    <3>2. /\ SubSeq(R, m + 1, Len(R)) \in Seq(Findings) /\ Len(SubSeq(R, m + 1, Len(R))) = Len(R) - m
          /\ \A i \in 1 .. Len(R) - m : SubSeq(R, m + 1, Len(R))[i] = R[m + i]
      BY <1>1, <3>1, SplitParts
    <3> QED BY <1>2, <2>1, <3>2
  <2> QED BY <2>2
<1>10. ASSUME NEW i \in 1 .. n - m
       PROVE  /\ m + i \in 1 .. n /\ rs[i] = R[m + i] /\ st(m + i) \in Nat /\ st(m + i) >= start
              /\ hist[rs[i].rec].timestamp_ns = st(m + i)
  <2>0. m \in Nat /\ m <= n
    OBVIOUS
  <2>1. m + i \in 1 .. n /\ m + i \notin S
    <3>1. m + i \in 1 .. n /\ m + i \notin 1 .. m
      BY <2>0
    <3> QED BY <1>7, <3>1
  <2>2. ~(st(m + i) < start) /\ st(m + i) \in Nat
    BY <1>3, <1>5, <2>1
  <2>3. st(m + i) >= start
    BY <2>2
  <2> QED BY <1>9, <2>1, <2>2, <2>3 DEF st
<1>11. ASSUME NEW i \in 1 .. n - m, NEW j \in 1 .. n - m, i < j
       PROVE  hist[rs[i].rec].timestamp_ns <= hist[rs[j].rec].timestamp_ns /\ rs[i] # rs[j]
  <2>1. PICK a \in 1 .. n, b \in 1 .. n : a = m + i /\ b = m + j /\ a < b
    BY <1>11, <1>10
  <2>2. R[a] # R[b] /\ st(a) <= st(b)
    BY <1>4, <2>1
  <2> QED BY <1>10, <2>1, <2>2
<1>12. ASSUME NEW k \in 1 .. n, st(k) >= start PROVE \E i \in 1 .. n - m : rs[i] = R[k]
  <2>1. ~(st(k) < start)
    BY <1>3, <1>12
  <2>2. k \notin 1 .. m
    BY <1>5, <1>7, <2>1
  <2>3. k - m \in 1 .. n - m /\ m + (k - m) = k
    BY <2>2
  <2>4. rs[k - m] = R[k]
    BY <1>9, <2>3
  <2> QED BY <2>3, <2>4
<1>13. Delivered(rs, R, start, hist)
  <2>1. \A i \in DOMAIN rs : hist[rs[i].rec].timestamp_ns >= start
    BY <1>9, <1>10
  <2>2. \A i, j \in DOMAIN rs : i < j =>
           hist[rs[i].rec].timestamp_ns <= hist[rs[j].rec].timestamp_ns /\ rs[i] # rs[j]
    BY <1>9, <1>11
  <2>3. ASSUME NEW k \in DOMAIN R, hist[R[k].rec].timestamp_ns >= start
        PROVE  \E i \in DOMAIN rs : rs[i] = R[k]
    BY <1>2, <1>9, <1>12, <2>3 DEF st
  <2> QED BY <2>1, <2>2, <2>3 DEF Delivered
<1>14. rs = SubSeq(R, 1 + Cardinality({i \in DOMAIN R : hist[R[i].rec].timestamp_ns < start}), Len(R))
  <2>1. S = {i \in DOMAIN R : hist[R[i].rec].timestamp_ns < start}
    BY DEF S, st
  <2>2. m = Cardinality({i \in DOMAIN R : hist[R[i].rec].timestamp_ns < start})
    BY <1>7, <2>1
  <2> QED BY <1>2, <1>8, <2>2, Zenon
<1> QED BY <1>13, <1>14, Zenon

LEMMA LoadAccounts ==
    ASSUME disk \in [Segments -> Seq(Cells)]
    PROVE  Accounted(Total([s \in Segments |-> Scan(disk[s]).skipped]),
                     Total([s \in Segments |-> Scan(disk[s]).corrupt]), disk)
<1>1. ASSUME NEW s \in Segments
      PROVE  /\ Scan(disk[s]).skipped = Cardinality(Damaged(disk[s]))
             /\ Scan(disk[s]).corrupt =
                  Cardinality({i \in Damaged(disk[s]) : i - 1 \notin Damaged(disk[s])})
  <2>1. PICK f \in Seq(Cells) : f = disk[s]
    OBVIOUS
  <2>2. /\ Scan(f).skipped = Cardinality(Damaged(f))
        /\ Scan(f).corrupt = Cardinality({i \in Damaged(f) : i - 1 \notin Damaged(f)})
    BY ScanExact
  <2> QED BY <2>1, <2>2
<1>2. [s \in Segments |-> Scan(disk[s]).skipped] = [s \in Segments |-> Cardinality(Damaged(disk[s]))]
  BY <1>1, Zenon
<1>3. [s \in Segments |-> Scan(disk[s]).corrupt] =
      [s \in Segments |-> Cardinality({i \in Damaged(disk[s]) : i - 1 \notin Damaged(disk[s])})]
  BY <1>1, Zenon
<1> QED BY <1>2, <1>3, Zenon DEF Accounted

\* load() shows the directory as it is.
LEMMA LoadReader ==
    ASSUME WriterInv, Load PROVE ReaderOk'
<1>1. /\ ~up /\ up' = up /\ disk' = disk /\ appended' = appended /\ lives' = lives
  BY DEF Load, writer
<1>2. PICK R, I, c, k : /\ R = StableSort(Found(disk), Earlier) /\ I = Finalize(Found(disk))
                        /\ c = Total([s \in Segments |-> Scan(disk[s]).corrupt])
                        /\ k = Total([s \in Segments |-> Scan(disk[s]).skipped])
  OBVIOUS
<1>3. reader' = [loaded |-> TRUE, records_ |-> R, index_ |-> I, corrupt |-> c, skipped |-> k,
                 replayed |-> << >>, start |-> 0]
  BY <1>2, Zenon DEF Load
<1>4. SortedRecords(R, disk, appended)
  BY <1>1, <1>2, LoadSorts
<1>5. Accounted(k, c, disk)
  <2>1. disk \in [Segments -> Seq(Cells)]
    BY <1>1, FoundKnown
  <2>2. Accounted(Total([s \in Segments |-> Scan(disk[s]).skipped]),
                  Total([s \in Segments |-> Scan(disk[s]).corrupt]), disk)
    BY <2>1, LoadAccounts, Zenon
  <2> QED BY <1>2, <2>2, Zenon
<1>6. lives = 1 => I = R
  BY <1>1, <1>2, LoadIndex
<1>7. Delivered(<< >>, R, 0, appended)
  BY DEF Delivered
<1> HIDE <1>2
<1>8. /\ reader'.loaded /\ reader'.records_ = R /\ reader'.index_ = I /\ reader'.corrupt = c
      /\ reader'.skipped = k /\ reader'.replayed = << >> /\ reader'.start = 0
  BY <1>3
<1> QED BY <1>1, <1>3, <1>4, <1>5, <1>6, <1>7, <1>8 DEF ReaderOk

\* replay() keeps what load() showed.
LEMMA ReplayReader ==
    ASSUME WriterInv, ReaderOk, NEW start \in Clock, Replay(start) PROVE ReaderOk'
<1>1. up' = up /\ disk' = disk /\ appended' = appended /\ lives' = lives /\ reader.loaded
  BY DEF Replay, writer
<1>2. appended \in Seq(Headers)
  BY DEF WriterInv, Types
<1>3. reader # NoReader
  BY <1>1 DEF NoReader
<1>4. PICK R, I, c, k, rp, st :
         reader = [loaded |-> TRUE, records_ |-> R, index_ |-> I, corrupt |-> c, skipped |-> k,
                   replayed |-> rp, start |-> st]
  BY <1>3, Zenon DEF ReaderOk
<1>5. /\ ~up /\ SortedRecords(R, disk, appended) /\ Accounted(k, c, disk) /\ (lives = 1 => I = R)
  BY <1>3, <1>4 DEF ReaderOk
<1>6. PICK rs : rs = SubSeq(R, 1 + Cardinality({i \in DOMAIN R : appended[R[i].rec].timestamp_ns < start}),
                            Len(R))
  OBVIOUS
<1>7. reader' = [loaded |-> TRUE, records_ |-> R, index_ |-> I, corrupt |-> c, skipped |-> k,
                 replayed |-> rs, start |-> start]
  <2>1. reader' = [reader EXCEPT !.replayed = rs, !.start = start]
    BY <1>4, <1>6 DEF Replay, Stamp
  <2> HIDE <1>6
  <2> QED BY <1>4, <2>1
<1>8. start \in Nat
  BY WalAssumption DEF Clock
<1>9. Delivered(rs, R, start, appended)
  BY <1>2, <1>5, <1>6, <1>8, ReplayDelivers
<1> HIDE <1>6
<1>10. /\ reader'.loaded /\ reader'.records_ = R /\ reader'.index_ = I /\ reader'.corrupt = c
       /\ reader'.skipped = k /\ reader'.replayed = rs /\ reader'.start = start
  BY <1>7
<1> QED BY <1>1, <1>5, <1>7, <1>9, <1>10 DEF ReaderOk

LEMMA ReaderStep ==
    ASSUME IInv, [Next]_vars PROVE ReaderOk'
<1>0. WriterInv /\ ReaderOk /\ Types /\ Running
  BY DEF IInv, WriterInv
<1>1. CASE Open
  BY <1>1 DEF Open, ReaderOk
<1>2. ASSUME up \/ ~reader.loaded, reader' = reader PROVE ReaderOk'
  <2>1. reader = NoReader
    BY <1>0, <1>2 DEF ReaderOk
  <2> QED BY <1>2, <2>1 DEF ReaderOk, NoReader
<1>3. CASE Flush \/ Close \/ Crash \/ Damage
  <2>1. Keeps
    BY <1>0, <1>3, KeepSteps
  <2> QED BY <1>2, <2>1 DEF Keeps
<1>4. CASE Load
  BY <1>0, <1>4, LoadReader
<1>5. ASSUME NEW ts \in Clock, NEW size \in 0 .. MaxPayload, Append_(ts, size) \/ AppendFails(ts, size)
      PROVE  ReaderOk'
  <2>1. up /\ reader' = reader
    BY <1>5, Zenon DEF Append_, AppendFails
  <2> QED BY <1>2, <2>1, Zenon
<1>6. ASSUME NEW start \in Clock, Replay(start) PROVE ReaderOk'
  BY <1>0, <1>6, ReplayReader
<1>7. CASE UNCHANGED vars
  <2>1. up' = up /\ disk' = disk /\ appended' = appended /\ lives' = lives /\ reader' = reader
    BY <1>7 DEF vars, writer
  <2> QED BY <1>0, <2>1 DEF ReaderOk, NoReader
<1>8. CASE OpenFails
  BY <1>8 DEF OpenFails, ReaderOk
<1>9. CASE FlushFails
  <2>1. Spoils
    BY <1>0, <1>9, FlushFailSpoils
  <2> QED BY <1>2, <2>1 DEF Spoils
<1>10. ASSUME NEW ts \in Clock, AppendRefuses(ts) PROVE ReaderOk'
  <2>1. Spoils
    BY <1>0, <1>10, RefuseSpoils
  <2> QED BY <1>2, <2>1 DEF Spoils
<1>11. ASSUME NEW ts \in Clock, NEW size \in 0 .. MaxPayload, AppendUnopened(ts, size) PROVE ReaderOk'
  <2>1. Spoils
    BY <1>0, <1>11, UnopenedSpoils
  <2> QED BY <1>2, <2>1 DEF Spoils
<1> QED BY <1>1, <1>3, <1>4, <1>5, <1>6, <1>7, <1>8, <1>9, <1>10, <1>11 DEF Next

\* The log's inductive invariant: the writer's part and the reader's.
LEMMA LogSafe == Spec => []IInv
<1>1. Init => IInv
  <2>1. Init => ReaderOk
    BY DEF Init, ReaderOk
  <2> QED BY <2>1, InitWriter DEF IInv
<1>2. IInv /\ [Next]_vars => IInv'
  <2>1. ASSUME IInv, [Next]_vars PROVE WriterInv' /\ ReaderOk'
    BY <2>1, WriterStep, ReaderStep DEF IInv
  <2> QED BY <2>1 DEF IInv
<1> QED BY <1>1, <1>2, PTL DEF Spec

-----------------------------------------------------------------------------
(* What recovery and replay promise                                        *)

\* While nothing has failed, an entry behind which the file goes on has its record there.
LEMMA EntryIntact ==
    ASSUME WriterInv, ~up, faults = 0, NEW k \in DOMAIN index_, NEW s \in Segments, NEW o \in Nat,
           NEW len \in Lengths, s = index_[k].segment_id, o = index_[k].offset,
           len = index_[k].record_length, o + len <= Len(disk[s])
    PROVE  o + 1 \in 1 .. Len(disk[s]) /\ DecodesAt(disk[s], o + 1) /\ disk[s][o + 1].rec = index_[k].rec
<1>1. Types /\ IndexLocates /\ CellsPlaced
  BY DEF WriterInv
<1>2. Files = disk /\ disk \in [Segments -> Seq(Cells)]
  BY FoundKnown
<1>3. PICK f \in Seq(Cells) : f = disk[s] /\ f = Files[s]
  BY <1>2
<1>4. PICK e \in Entries : e = index_[k]
  BY <1>1 DEF Types
<1>5. PICK n \in 1 .. MaxAppends : n = e.rec
  BY <1>4 DEF Entries
<1>6. len \in Nat /\ len >= 3 /\ o + len <= Len(f) /\ Len(f) \in Nat
  BY <1>3, SegmentFacts DEF Lengths
<1>7. ASSUME NEW i \in 1 .. len PROVE f[o + i] = [rec |-> n, part |-> i, len |-> len]
  <2>1. o + i \in 1 .. Len(f) /\ o + i \in DOMAIN f
    BY <1>6
  <2>2. e \in {index_[j] : j \in DOMAIN index_}
    BY <1>4
  <2>3. f[o + i] \in {Junk, [rec |-> n, part |-> i, len |-> len]}
    BY <1>1, <1>3, <1>4, <1>5, <2>1, <2>2 DEF IndexLocates
  <2>4. f[o + i] # Junk
    BY <1>1, <1>3, <2>1 DEF CellsPlaced
  <2> QED BY <2>3, <2>4
<1>8. f[o + 1] = [rec |-> n, part |-> 1, len |-> len] /\ 1 \in 1 .. len
  BY <1>6, <1>7
<1>9. f[o + 1] # Junk
  BY <1>5, <1>8 DEF Junk
<1>10. ASSUME NEW i \in 1 .. len PROVE f[(o + 1) + i - 1] = [f[o + 1] EXCEPT !.part = i]
  <2>1. (o + 1) + i - 1 = o + i
    BY <1>6
  <2>2. f[o + i] = [rec |-> n, part |-> i, len |-> len]
    BY <1>7
  <2>3. [f[o + 1] EXCEPT !.part = i] = [rec |-> n, part |-> i, len |-> len]
    BY <1>8
  <2> QED BY <2>1, <2>2, <2>3
<1>11. f[o + 1].part = 1 /\ f[o + 1].len = len /\ f[o + 1].rec = n /\ (o + 1) + len - 1 <= Len(f)
  BY <1>6, <1>8
<1>12. DecodesAt(f, o + 1)
  BY <1>9, <1>10, <1>11 DEF DecodesAt
<1>13. o + 1 \in 1 .. Len(f)
  BY <1>6
<1> QED BY <1>3, <1>4, <1>5, <1>11, <1>12, <1>13

\* A record recovered from the writer's last life has all those before it on disk.
LEMMA NoGap ==
    ASSUME WriterInv, ~up, faults = 0, NEW R, SortedRecords(R, disk, appended),
           NEW j \in 1 .. Len(R), NEW m \in DOMAIN appended, NEW n \in DOMAIN appended,
           m = R[j].rec, n < m, appended[m].life = lives, appended[n].life = lives
    PROVE  \E i \in 1 .. Len(R) : R[i].rec = n
<1>1. /\ Types /\ IndexBehind /\ IndexComplete /\ IndexOrdered /\ ClosedOnDisk /\ CellsPlaced
  BY DEF WriterInv
<1>2. Files = disk /\ disk \in [Segments -> Seq(Cells)]
  BY FoundKnown
<1>3. PICK M \in Nat, K \in Nat : /\ M = Len(appended) /\ DOMAIN appended = 1 .. M
                                  /\ K = Len(index_) /\ DOMAIN index_ = 1 .. K
  BY <1>1 DEF Types
<1>4. PICK b \in Nat : b = Former /\ b = M - K
  <2>1. Former = M - K /\ Former >= 0 /\ M - K \in Int
    BY <1>1, <1>3 DEF IndexComplete, Former
  <2>2. M - K \in Nat
    BY <2>1
  <2> QED BY <2>1, <2>2
<1>5. m > b /\ n > b /\ m \in 1 .. M /\ n \in 1 .. M
  BY <1>1, <1>3, <1>4 DEF IndexComplete
<1>6. PICK km \in 1 .. K, kn \in 1 .. K : km = m - b /\ kn = n - b /\ kn < km /\ b + kn = n
  <2>1. PICK x \in Nat, y \in Nat : x = m /\ y = n
    BY <1>5
  <2>2. x > b /\ y > b /\ x <= M /\ y <= M /\ b = M - K /\ y < x
    BY <1>4, <1>5, <2>1
  <2>3. x - b \in 1 .. K /\ y - b \in 1 .. K /\ y - b < x - b /\ b + (y - b) = y
    BY <2>2
  <2> QED BY <2>1, <2>3
<1>7. PICK e \in Entries, d \in Entries : e = index_[km] /\ d = index_[kn]
  BY <1>1, <1>3 DEF Types
<1>8. d.rec = n
  <2>1. index_[kn].rec = Former + kn
    BY <1>1, <1>3 DEF IndexComplete
  <2>2. index_[kn].rec = n
    BY <1>4, <1>6, <2>1, Zenon
  <2> QED BY <1>7, <2>2
<1>9. PICK s \in Segments, o \in Nat, len \in Lengths :
         s = d.segment_id /\ o = d.offset /\ len = d.record_length
  BY <1>7 DEF Entries
<1>10. PICK u \in Segments, v \in Nat : u = e.segment_id /\ v = e.offset
  BY <1>7 DEF Entries
<1>11. R[j] \in Findings /\ Shows(R[j], disk)
  BY DEF SortedRecords
<1>12. PICK w \in Segments, q \in Nat : w = R[j].segment_id /\ q = R[j].offset
  BY <1>11 DEF Findings
<1>13. PICK f \in Seq(Cells) : f = disk[w] /\ f = Files[w]
  BY <1>2
<1>14. q \in 1 .. Len(f) /\ DecodesAt(f, q) /\ f[q].rec = m
  BY <1>11, <1>12, <1>13 DEF Shows
<1>15. f[q].part = 1
  BY <1>14, DecodesWithin
<1>16. w = u /\ q = v + 1
  <2>1. q \in DOMAIN Files[w] /\ Files[w][q].rec = m /\ Files[w][q].part = 1
    BY <1>13, <1>14, <1>15
  <2>2. w = index_[m - Former].segment_id /\ q = index_[m - Former].offset + 1
    <3>1. Files[w][q].rec > Former
      BY <1>4, <1>5, <2>1
    <3> QED BY <1>1, <2>1, <3>1 DEF CellsPlaced
  <2> QED BY <1>4, <1>6, <1>7, <1>10, <2>2
<1>17. s < u \/ (s = u /\ o + len <= v)
  <2>1. kn \in DOMAIN index_ /\ km \in DOMAIN index_
    BY <1>3
  <2> QED BY <1>1, <1>6, <1>7, <1>9, <1>10, <2>1 DEF IndexOrdered
<1>18. len \in Nat /\ u \in Nat /\ s \in Nat
  BY SegmentFacts DEF Lengths
<1>19. o + len <= Len(disk[s])
  <2>1. CASE s = u /\ o + len <= v
    <3>1. f = disk[s]
      BY <1>13, <1>16, <2>1
    <3>2. v + 1 <= Len(f) /\ Len(f) \in Nat
      BY <1>14, <1>16
    <3>3. o + len <= Len(f)
      BY <1>18, <2>1, <3>2
    <3> QED BY <3>1, <3>3
  <2>2. CASE s < u
    <3>1. km \in DOMAIN index_ /\ kn \in DOMAIN index_
      BY <1>3
    <3>2. u <= current_segment_id_ /\ current_segment_id_ \in Nat
      BY <1>1, <1>7, <1>10, <3>1, SegmentFacts DEF IndexBehind, Types
    <3>3. s < current_segment_id_
      BY <1>18, <2>2, <3>2
    <3>4. index_[kn].offset + index_[kn].record_length <= Len(Files[index_[kn].segment_id])
      BY <1>1, <1>7, <1>9, <3>1, <3>3 DEF ClosedOnDisk
    <3> QED BY <1>2, <1>7, <1>9, <3>4
  <2> QED BY <1>17, <2>1, <2>2
<1>20. o + 1 \in 1 .. Len(disk[s]) /\ DecodesAt(disk[s], o + 1) /\ disk[s][o + 1].rec = n
  <2>1. kn \in DOMAIN index_
    BY <1>3
  <2> QED BY <1>7, <1>8, <1>9, <1>19, <2>1, EntryIntact
<1>21. PICK i \in 1 .. Len(R) : R[i].segment_id = s /\ R[i].offset = o + 1
  BY <1>20, SMTT(90) DEF SortedRecords
<1>22. Shows(R[i], disk)
  BY DEF SortedRecords
<1>23. R[i].rec = n
  BY <1>20, <1>21, <1>22 DEF Shows
<1> QED BY <1>23

\* The reader, once it has loaded.
LEMMA Loaded ==
    ASSUME IInv, reader.loaded
    PROVE  /\ WriterInv /\ ~up
           /\ SortedRecords(reader.records_, disk, appended)
           /\ Accounted(reader.skipped, reader.corrupt, disk)
           /\ lives = 1 => reader.index_ = reader.records_
           /\ Delivered(reader.replayed, reader.records_, reader.start, appended)
<1>1. reader # NoReader
  BY DEF NoReader
<1> QED BY <1>1 DEF IInv, ReaderOk

\* load() makes the most of a log, for every log the writer, its crashes and restarts, its
\* failed writes and damage can leave: what it recovers of the last life has no gap unless
\* something failed, it recovers exactly the intact records, and it reports exactly the
\* bytes outside them and the runs they form.
THEOREM LoadRecovers == Spec => []RecoversExactly
<1>1. ASSUME IInv PROVE RecoversExactly
  <2>1. SUFFICES ASSUME reader.loaded PROVE OnlyTailLost /\ RecoversIntact /\ SkipsAccounted
    BY DEF RecoversExactly, OnlyTailLost, RecoversIntact, SkipsAccounted
  <2>2. /\ WriterInv /\ ~up /\ SortedRecords(reader.records_, disk, appended)
        /\ Accounted(reader.skipped, reader.corrupt, disk)
    BY <1>1, <2>1, Loaded
  <2>3. PICK R : R = reader.records_
    OBVIOUS
  <2>4. SortedRecords(R, disk, appended) /\ R \in Seq(Findings) /\ DOMAIN R = 1 .. Len(R)
    BY <2>2, <2>3 DEF SortedRecords
  <2>5. Files = disk /\ disk \in [Segments -> Seq(Cells)] /\ FilesLimited /\ appended \in Seq(Headers)
    BY <2>2, FoundKnown DEF WriterInv, Types
  <2>6. OnlyTailLost
    <3>1. ASSUME faults = 0, NEW j \in DOMAIN R, NEW n \in DOMAIN appended, n < R[j].rec,
                 appended[R[j].rec].life = lives, appended[n].life = lives
          PROVE  n \in {R[i].rec : i \in DOMAIN R}
      <4>1. R[j].rec \in DOMAIN appended /\ j \in 1 .. Len(R)
        BY <2>4, <2>5 DEF SortedRecords
      <4>2. \E i \in 1 .. Len(R) : R[i].rec = n
        BY <2>2, <2>4, <3>1, <4>1, NoGap
      <4> QED BY <2>4, <4>2
    <3> QED BY <2>3, <3>1 DEF OnlyTailLost
  <2>7. RecoversIntact
    <3>1. ASSUME NEW i \in DOMAIN R
          PROVE  /\ <<R[i].segment_id, R[i].offset>> \in Segments \X (1 .. SegmentLimit)
                 /\ R[i].offset \in DOMAIN disk[R[i].segment_id]
                 /\ DecodesAt(disk[R[i].segment_id], R[i].offset)
      <4>1. R[i] \in Findings /\ Shows(R[i], disk)
        BY <2>4 DEF SortedRecords
      <4>2. PICK s \in Segments, q \in Nat : s = R[i].segment_id /\ q = R[i].offset
        BY <4>1 DEF Findings
      <4>3. q \in 1 .. Len(disk[s]) /\ DecodesAt(disk[s], q)
        BY <4>1, <4>2 DEF Shows
      <4>4. Len(disk[s]) <= SegmentLimit /\ Len(disk[s]) \in Nat /\ DOMAIN disk[s] = 1 .. Len(disk[s])
        BY <2>5 DEF FilesLimited
      <4>5. q \in 1 .. SegmentLimit /\ q \in DOMAIN disk[s]
        BY <4>3, <4>4, SegmentFacts
      <4> QED BY <4>2, <4>3, <4>5
    <3>2. ASSUME NEW s \in Segments, NEW q \in 1 .. SegmentLimit, q \in DOMAIN disk[s], DecodesAt(disk[s], q)
          PROVE  \E i \in DOMAIN R : <<R[i].segment_id, R[i].offset>> = <<s, q>>
      <4>1. q \in 1 .. Len(disk[s])
        BY <2>5, <3>2
      <4>2. PICK i \in 1 .. Len(R) : R[i].segment_id = s /\ R[i].offset = q
        BY <2>4, <3>2, <4>1 DEF SortedRecords
      <4> QED BY <2>4, <4>2
    <3> DEFINE Places == {<<r.segment_id, r.offset>> : r \in {R[i] : i \in DOMAIN R}}
               Intact == {o \in Segments \X (1 .. SegmentLimit) :
                             o[2] \in DOMAIN disk[o[1]] /\ DecodesAt(disk[o[1]], o[2])}
    <3>3. Places \subseteq Intact
      BY <3>1
    <3>4. ASSUME NEW o \in Intact PROVE o \in Places
      <4>1. PICK s \in Segments, q \in 1 .. SegmentLimit :
               o = <<s, q>> /\ q \in DOMAIN disk[s] /\ DecodesAt(disk[s], q)
        OBVIOUS
      <4>2. PICK i \in DOMAIN R : <<R[i].segment_id, R[i].offset>> = <<s, q>>
        BY <3>2, <4>1
      <4> QED BY <4>1, <4>2
    <3>5. Places = Intact
      <4> HIDE DEF Places, Intact
      <4> QED BY <3>3, <3>4
    <3> QED BY <2>3, <3>5 DEF RecoversIntact
  <2>8. SkipsAccounted
    BY <2>2, Zenon DEF SkipsAccounted, Accounted
  <2> QED BY <2>6, <2>7, <2>8
<1> QED BY <1>1, LogSafe, PTL

\* Replay serves the log in time: within one life of the writer the index, sorted by time
\* stamp only when one regressed, and the records, sorted by time stamp and sequence, agree
\* place by place; and replay() delivers every record from its start on, once and in the
\* order of time, whatever the clock did.
THEOREM ReplayServes == Spec => []ReplaysLog
<1>1. ASSUME IInv PROVE ReplaysLog
  <2>1. SUFFICES ASSUME reader.loaded PROVE IndexAgrees /\ ReplayInOrder
    BY DEF ReplaysLog, IndexAgrees, ReplayInOrder
  <2>2. /\ lives = 1 => reader.index_ = reader.records_
        /\ Delivered(reader.replayed, reader.records_, reader.start, appended)
    BY <1>1, <2>1, Loaded
  <2>3. IndexAgrees
    BY <2>2 DEF IndexAgrees
  <2>4. ReplayInOrder
    BY <2>2 DEF ReplayInOrder, Delivered, Stamp
  <2> QED BY <2>3, <2>4
<1> QED BY <1>1, LogSafe, PTL
=============================================================================
