------------------------------- MODULE Seqlock -------------------------------
(***************************************************************************)
(* The seqlock of include/sensorforge/core/seqlock.hpp: one writer, and a  *)
(* reader that takes no lock.  Readers store nothing, so one reader stands *)
(* for all of them.                                                        *)
(*                                                                         *)
(* The class relies on the C++ memory model, so the model has one.  Each   *)
(* atomic object is a location that keeps all its stores; a thread has a   *)
(* view, the oldest store of each location it may still read; and a store  *)
(* carries the view it releases:                                           *)
(*   - a relaxed load returns any store its view allows, and what that     *)
(*     store released takes effect at the next acquire fence;              *)
(*   - an acquire load makes it take effect at once;                       *)
(*   - a relaxed store releases the view of the last release fence, a      *)
(*     release store the current view.                                     *)
(* The n-th store to seq_ writes the value n, and the k-th store() writes  *)
(* version k of every byte, so the values are the positions.               *)
(***************************************************************************)
EXTENDS Naturals, Sequences

CONSTANTS NumBytes,  \* sizeof(T)
          MaxStores  \* bound: calls of store()

ASSUME NumBytesAssumption == NumBytes \in Nat \ {0}
ASSUME MaxStoresAssumption == MaxStores \in Nat

SeqLoc == 0                  \* seq_
Bytes  == 1 .. NumBytes      \* data_[i - 1]
Locs   == 0 .. NumBytes
Views  == [Locs -> Nat]

VARIABLES mem,                    \* the stores to each location: the views they release
          wpc, wview, wfence, wi, \* writer: next step, view, view at its last fence, byte
          rpc, rview, racq, ri,   \* reader: next step, view, view to acquire, byte
          seq0, tmp,              \* the reader's locals
          result                  \* what load() last returned, byte by byte

writer      == <<wpc, wview, wfence, wi>>
reader      == <<rpc, rview, racq, ri, seq0, tmp, result>>
seqlockVars == <<mem, writer, reader>>

Join(v, w) == [l \in Locs |-> IF v[l] >= w[l] THEN v[l] ELSE w[l]]
Zero       == [l \in Locs |-> 0]

\* The position of the newest store to l.
Latest(l) == Len(mem[l]) - 1

\* What the store at position n of l released.
Released(l, n) == mem[l][n + 1]

\* The constructor's stores happen before any reader.
SeqlockInit ==
    /\ mem = [l \in Locs |-> <<Zero>>]
    /\ wpc = "idle" /\ wview = Zero /\ wfence = Zero /\ wi = 1
    /\ rpc = "idle" /\ rview = Zero /\ racq = Zero /\ ri = 1
    /\ seq0 = 0 /\ tmp = [b \in Bytes |-> 0] /\ result = [b \in Bytes |-> 0]

-----------------------------------------------------------------------------
(* Memory                                                                  *)

\* A store to l; "released" is the view it carries beside itself.
PutAt(l, released) ==
    LET n == Latest(l) + 1
    IN  /\ wview' = [wview EXCEPT ![l] = n]
        /\ mem' = [mem EXCEPT ![l] = Append(@, [released EXCEPT ![l] = n])]

StoreRelaxed(l) == PutAt(l, wfence)
StoreRelease(l) == PutAt(l, wview)

\* The stores a load of l may return.
Readable(l) == rview[l] .. Latest(l)

LoadRelaxed(l, n) ==
    /\ rview' = [rview EXCEPT ![l] = n]
    /\ racq' = Join(racq, Released(l, n))

LoadAcquire(l, n) ==
    /\ rview' = Join([rview EXCEPT ![l] = n], Released(l, n))
    /\ racq' = Join(racq, Released(l, n))

-----------------------------------------------------------------------------
(* Writer: store()                                                         *)

\* seq_.store(seq + 1, relaxed): odd, a write is in progress.
StoreOdd ==
    /\ wpc = "idle" /\ Latest(SeqLoc) < 2 * MaxStores
    /\ StoreRelaxed(SeqLoc)
    /\ wpc' = "fence1"
    /\ UNCHANGED <<wfence, wi, reader>>

\* Test seeding: without the fence, the bytes may be seen before the odd value.
NoReleaseFence1 ==
    /\ wpc = "fence1"
    /\ wpc' = "bytes" /\ wi' = 1
    /\ UNCHANGED <<mem, wview, wfence, reader>>

ReleaseFence1 ==
    /\ wpc = "fence1"
    /\ wfence' = wview
    /\ wpc' = "bytes" /\ wi' = 1
    /\ UNCHANGED <<mem, wview, reader>>

\* write_relaxed: one byte.
WriteByte ==
    /\ wpc = "bytes"
    /\ StoreRelaxed(wi)
    /\ wi' = wi + 1
    /\ wpc' = IF wi = NumBytes THEN "fence2" ELSE "bytes"
    /\ UNCHANGED <<wfence, reader>>

ReleaseFence2 ==
    /\ wpc = "fence2"
    /\ wfence' = wview
    /\ wpc' = "publish"
    /\ UNCHANGED <<mem, wview, wi, reader>>

\* Test seeding: the even value is stored with neither fence nor release.
StoreEvenEarly ==
    /\ wpc = "publish"
    /\ PutAt(SeqLoc, Zero)
    /\ wpc' = "idle"
    /\ UNCHANGED <<wfence, wi, reader>>

\* seq_.store(seq + 2, release): even, published.
StoreEven ==
    /\ wpc = "publish"
    /\ StoreRelease(SeqLoc)
    /\ wpc' = "idle"
    /\ UNCHANGED <<wfence, wi, reader>>

-----------------------------------------------------------------------------
(* Reader: load()                                                          *)

\* seq0 = seq_.load(acquire); an odd value means yield and try again.
LoadSeq0 ==
    /\ rpc = "idle"
    /\ \E n \in Readable(SeqLoc) :
         /\ LoadAcquire(SeqLoc, n)
         /\ seq0' = n
         /\ rpc' = IF n % 2 = 1 THEN "idle" ELSE "bytes"
    /\ ri' = 1
    /\ UNCHANGED <<mem, writer, tmp, result>>

\* read_relaxed: one byte.
ReadByte ==
    /\ rpc = "bytes"
    /\ \E n \in Readable(ri) :
         /\ LoadRelaxed(ri, n)
         /\ tmp' = [tmp EXCEPT ![ri] = n]
    /\ ri' = ri + 1
    /\ rpc' = IF ri = NumBytes THEN "fence" ELSE "bytes"
    /\ UNCHANGED <<mem, writer, seq0, result>>

\* Test seeding: the data loads may be reordered after the second look at seq_.
NoAcquireFence ==
    /\ rpc = "fence"
    /\ rpc' = "seq1"
    /\ UNCHANGED <<mem, writer, rview, racq, ri, seq0, tmp, result>>

AcquireFence ==
    /\ rpc = "fence"
    /\ rview' = Join(rview, racq)
    /\ rpc' = "seq1"
    /\ UNCHANGED <<mem, writer, racq, ri, seq0, tmp, result>>

\* seq1 = seq_.load(relaxed); return on an unchanged sequence, else try again.
LoadSeq1 ==
    /\ rpc = "seq1"
    /\ \E n \in Readable(SeqLoc) :
         /\ LoadRelaxed(SeqLoc, n)
         /\ result' = IF n = seq0 THEN tmp ELSE result
    /\ rpc' = "idle"
    /\ UNCHANGED <<mem, writer, ri, seq0, tmp>>

-----------------------------------------------------------------------------
WriterStep == ReleaseFence1 \/ WriteByte \/ ReleaseFence2 \/ StoreEven
ReaderStep == LoadSeq0 \/ ReadByte \/ AcquireFence \/ LoadSeq1

SeqlockNext == StoreOdd \/ WriterStep \/ ReaderStep

SeqlockSpec == SeqlockInit /\ [][SeqlockNext]_seqlockVars

(***************************************************************************)
(* A store() that has begun is finished, a reader keeps running, and the   *)
(* latest value of seq_ reaches the reader's acquire load in finite time.  *)
(***************************************************************************)
FreshSeq0 == LoadSeq0 /\ seq0' = Latest(SeqLoc)

SeqlockFairSpec ==
    SeqlockSpec /\ WF_seqlockVars(WriterStep) /\ WF_seqlockVars(ReaderStep) /\ SF_seqlockVars(FreshSeq0)

-----------------------------------------------------------------------------
(* Properties                                                              *)

\* Positions stay within what was stored; every step is one of the code's.
SeqlockTypeOK ==
    /\ mem \in [Locs -> Seq(Views)] /\ \A l \in Locs : mem[l] # << >>
    /\ wpc \in {"idle", "fence1", "bytes", "fence2", "publish"}
    /\ rpc \in {"idle", "bytes", "fence", "seq1"}
    /\ wview \in Views /\ wfence \in Views /\ rview \in Views /\ racq \in Views
    /\ wi \in 1 .. NumBytes + 1 /\ ri \in 1 .. NumBytes + 1
    /\ seq0 \in Nat /\ tmp \in [Bytes -> Nat] /\ result \in [Bytes -> Nat]

\* "if it changed, the snapshot may be torn -> retry": load() never returns bytes
\* of two different store() calls, in any execution the memory model allows.
NoTornRead == \A b, c \in Bytes : result[b] = result[c]

\* An even sequence that did not change means the bytes read are exactly those
\* published with it: neither older ones nor a write that has only begun.
UnchangedMeansPublished ==
    [][(LoadSeq1 /\ rview'[SeqLoc] = seq0) => \A b \in Bytes : 2 * tmp[b] = seq0]_seqlockVars

\* A reader is never shut out for good: it ends up with the last version stored.
ReaderCatchesUp ==
    \A k \in 1 .. MaxStores :
        (Latest(SeqLoc) = 2 * k) ~> (\A b \in Bytes : result[b] >= k)
=============================================================================
