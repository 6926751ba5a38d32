------------------------------ MODULE CachedRead ------------------------------
(***************************************************************************)
(* `Filesystem::read_file` on compressed inodes, as several threads run it *)
(* on one `Filesystem` while another resizes the decoded-pcluster cache.   *)
(*                                                                         *)
(* A read walks the blocks of its range; each block is filled pcluster by  *)
(* pcluster into a scratch buffer (`read_compressed_block`), and one fill  *)
(* (`fill_from_one_pcluster_for`) resolves the extent of the cursor, looks *)
(* it up in the cache under the lock, and on a miss decodes it WITHOUT the *)
(* lock and takes the lock again to insert the result.                     *)
(*                                                                         *)
(* The image never changes.  It is given by Index, the extent              *)
(* `ZMap::pcluster_extent` answers for each offset of each inode, and      *)
(* Payload, the bytes each extent stands for.  What its stored data cannot *)
(* give is given too: an extent no decode yields ("undecodable": the codec *)
(* refuses the data, or the span is more than a pcluster may cover), one   *)
(* whose algorithm this build lacks ("unsupported"), and the bytes a PLAIN *)
(* extent stores short of its span (Gone).                                 *)
(***************************************************************************)
EXTENDS PclusterCache, BlockWalk

CONSTANTS
  Reader,       \* threads that call read_file
  Nid,          \* compressed inodes
  Extent,       \* records [nid, addr, start, end, kind]
  Index,        \* Index[n][o]: the extent pcluster_extent returns at o
  Payload,      \* Payload[e]: the bytes of extent e, a sequence
  Gone,         \* Gone[e]: the offsets whose bytes PLAIN extent e does not store
  Zero,         \* the byte a zero-fill writes
  Request,      \* the calls: records [nid, off, len]
  Capacity,     \* capacities set_pcluster_cache_capacity is called with
  MaxReads,     \* bound: calls per reader
  MaxResizes    \* bound: calls of set_pcluster_cache_capacity

VARIABLES
  cache,        \* the cache behind the mutex
  pc,           \* where each reader is
  got,          \* a decoded pcluster not yet inserted
  res,          \* what the call returned
  reads,        \* calls made, bounded by MaxReads
  resizes       \* resizes made, bounded by MaxResizes

vars == <<cache, pc, req, buf, block, got, res, reads, resizes>>
local == <<req, reads>>

Coded == {"compressed", "undecodable", "unsupported"}
Kind == Coded \cup {"plain", "untruthful"}
ImageByte == UNION {{Payload[e][i] : i \in DOMAIN Payload[e]} : e \in Extent}
Bytes == ImageByte \cup {Zero}

ASSUME ImageAssumption ==
  /\ BlockSize \in Nat \ {0}
  /\ FileSize \in [Nid -> Nat]
  /\ \A e \in Extent : /\ e.nid \in Nid
                       /\ e.start \in Nat /\ e.end \in Nat
                       /\ e.kind \in Kind
  /\ DOMAIN Index = Nid
  /\ \A n \in Nid : Index[n] \in [0 .. FileSize[n] - 1 -> {e \in Extent : e.nid = n}]
  /\ DOMAIN Payload = Extent
  /\ \A e \in Extent : /\ Payload[e] \in Seq(Bytes)
                       /\ e.start <= e.end => Len(Payload[e]) = e.end - e.start
  /\ Gone \in [Extent -> SUBSET Nat]

ASSUME CallAssumption ==
  /\ Request # {}
  /\ \A q \in Request : q.nid \in Nid /\ q.off \in Nat /\ q.len \in Nat
  /\ Capacity \subseteq Nat
  /\ MaxReads \in Nat /\ MaxResizes \in Nat

\* `pcluster_extent` is a function of inode and offset: an extent of an inode is
\* known by where it starts and ends.
ASSUME ExtentAssumption ==
  \A e, f \in Extent :
    (e.nid = f.nid /\ e.start = f.start /\ e.end = f.end) => e = f
-----------------------------------------------------------------------------
\* Seeded fault: the key the cache had before the span became part of it.
KeyOf_AddressOnly(e) == <<e.nid, e.addr>>

\* PclusterKey: the inode, the address and the span.
KeyOf(e) == <<e.nid, e.addr, e.start, e.end>>

\* The extent at the fill in progress, and how much of it is taken.
Ext(r) == Index[req[r].nid][FillAt(r)]
Brackets(r) == Ext(r).start <= FillAt(r) /\ FillAt(r) <= Ext(r).end
FillTake(r) == Least(ValidInBlock(r) - Len(block[r]), Ext(r).end - FillAt(r))

Slice(r, v) ==
  SubSeq(v, FillAt(r) - Ext(r).start + 1, FillAt(r) - Ext(r).start + FillTake(r))
Zeros(n) == [i \in 1 .. n |-> Zero]

\* A PLAIN fill asks its extent's stored data for a byte they do not hold.
RunsShort(r) ==
  \E o \in {FillAt(r)} \cup (FillAt(r) .. FillAt(r) + FillTake(r) - 1) : o \in Gone[Ext(r)]

\* Seeded fault: the wanted range is not moved by what is already written.
Wanted_Unshifted(r) == InBlockOff(r) < FillTake(r)

\* Seeded fault: every byte of the block counts as asked for.
Wanted_Always(r) == TRUE

\* Whether this fill covers a byte the caller asked for (`wanted`).
Wanted(r) ==
  /\ InBlockOff(r) < Len(block[r]) + FillTake(r)
  /\ Len(block[r]) < InBlockOff(r) + Take(r)

\* Seeded fault: a fill that moves nothing is retried.
Grown_Retries(r, v) == block[r] \o v

\* A fill that moves nothing ends the block with zeros.
Grown(r, v) ==
  IF v = <<>> THEN block[r] \o Zeros(ValidInBlock(r) - Len(block[r]))
              ELSE block[r] \o v

Fail(r, why) ==
  /\ pc' = [pc EXCEPT ![r] = "done"]
  /\ res' = [res EXCEPT ![r] = why]
  /\ got' = [got EXCEPT ![r] = <<>>]
  /\ block' = [block EXCEPT ![r] = <<>>]
  /\ UNCHANGED buf

\* The fill returned v: extend the block; a full block is copied out, and the
\* last block ends the call.
Absorb(r, v) ==
  LET full == Grown(r, v)
      out  == buf[r] \o SubSeq(full, InBlockOff(r) + 1, InBlockOff(r) + Take(r))
      last == Len(out) = req[r].len
  IN  /\ got' = [got EXCEPT ![r] = <<>>]
      /\ IF Len(full) < ValidInBlock(r)
         THEN /\ block' = [block EXCEPT ![r] = full]
              /\ pc' = [pc EXCEPT ![r] = "fill"]
              /\ UNCHANGED <<buf, res>>
         ELSE /\ block' = [block EXCEPT ![r] = <<>>]
              /\ buf' = [buf EXCEPT ![r] = out]
              /\ pc' = [pc EXCEPT ![r] = IF last THEN "done" ELSE "fill"]
              /\ res' = [res EXCEPT ![r] = IF last THEN "ok" ELSE @]
-----------------------------------------------------------------------------
Init ==
  /\ \E n \in Capacity : cache = New(n)
  /\ pc = [r \in Reader |-> "idle"]
  /\ req = [r \in Reader |-> CHOOSE q \in Request : TRUE]
  /\ buf = [r \in Reader |-> <<>>]
  /\ block = [r \in Reader |-> <<>>]
  /\ got = [r \in Reader |-> <<>>]
  /\ res = [r \in Reader |-> "none"]
  /\ reads = [r \in Reader |-> 0]
  /\ resizes = 0

\* A thread calls read_file.
Begin(r, q) ==
  /\ pc[r] \in {"idle", "done"}
  /\ reads[r] < MaxReads
  /\ reads' = [reads EXCEPT ![r] = @ + 1]
  /\ req' = [req EXCEPT ![r] = q]
  /\ buf' = [buf EXCEPT ![r] = <<>>]
  /\ res' = [res EXCEPT ![r] = "none"]
  /\ pc' = [pc EXCEPT ![r] = "open"]
  /\ UNCHANGED <<cache, block, got, resizes>>

\* Its first lines: the range check, the empty read, else on to the first block.
Open(r) ==
  /\ pc[r] = "open"
  /\ \/ /\ req[r].off + req[r].len > FileSize[req[r].nid]
        /\ Fail(r, "OutOfRange")
     \/ /\ req[r].off + req[r].len <= FileSize[req[r].nid]
        /\ pc' = [pc EXCEPT ![r] = IF req[r].len = 0 THEN "done" ELSE "fill"]
        /\ res' = [res EXCEPT ![r] = IF req[r].len = 0 THEN "ok" ELSE @]
        /\ UNCHANGED <<buf, block, got>>
  /\ UNCHANGED <<cache, local, resizes>>

\* The resolver refuses the index, or its extent does not contain the cursor.
Refuse(r) ==
  /\ pc[r] = "fill"
  /\ ~Brackets(r)
  /\ Fail(r, "BadInode")
  /\ UNCHANGED <<cache, local, resizes>>

\* An interlaced inline tail that runs past its data: an error for a caller who
\* asked for its bytes, zeros for one that only shares the block.
Untruthful(r) ==
  /\ pc[r] = "fill"
  /\ Brackets(r)
  /\ Ext(r).kind = "untruthful"
  /\ IF Wanted(r) /\ FillTake(r) > 0 THEN Fail(r, "BadInode")
     ELSE Absorb(r, Zeros(FillTake(r)))
  /\ UNCHANGED <<cache, local, resizes>>

\* A PLAIN extent: read from the device, around the cache.
ReadPlain(r) ==
  /\ pc[r] = "fill"
  /\ Brackets(r)
  /\ Ext(r).kind = "plain"
  /\ ~RunsShort(r)
  /\ Absorb(r, Slice(r, Payload[Ext(r)]))
  /\ UNCHANGED <<cache, local, resizes>>

\* An inline tail shorter than its extent, an interlaced extent longer than its
\* blocks: refused whether or not the caller asked for those bytes.
CutShort(r) ==
  /\ pc[r] = "fill"
  /\ Brackets(r)
  /\ Ext(r).kind = "plain"
  /\ RunsShort(r)
  /\ Fail(r, "BadInode")
  /\ UNCHANGED <<cache, local, resizes>>

\* cache_lookup under the lock; a hit is copied out, a miss goes on to decode.
Lookup(r) ==
  /\ pc[r] = "fill"
  /\ Brackets(r)
  /\ Ext(r).kind \in Coded
  /\ cache' = AfterLookup(cache, KeyOf(Ext(r)))
  /\ IF ~Hit(cache, KeyOf(Ext(r)))
     THEN /\ pc' = [pc EXCEPT ![r] = "decode"]
          /\ UNCHANGED <<buf, block, got, res>>
     ELSE LET v == cache.val[KeyOf(Ext(r))]
          IN  IF FillAt(r) - Ext(r).start + FillTake(r) > Len(v)
              THEN Fail(r, "BadInode")   \* "cached pcluster is shorter than its extent"
              ELSE Absorb(r, Slice(r, v))
  /\ UNCHANGED <<local, resizes>>

\* header_algo: the index names an algorithm this build does not decode.
NoCodec(r) ==
  /\ pc[r] = "decode"
  /\ Ext(r).kind = "unsupported"
  /\ Fail(r, "UnsupportedLayout")
  /\ UNCHANGED <<cache, local, resizes>>

\* pcluster_span refuses the span, or the codec what the device gave it: again
\* whether or not the caller asked for the extent's bytes.
DecodeRefused(r) ==
  /\ pc[r] = "decode"
  /\ Ext(r).kind = "undecodable"
  /\ Fail(r, "BadInode")
  /\ UNCHANGED <<cache, local, resizes>>

\* Device read and codec, outside the lock.
Decode(r) ==
  /\ pc[r] = "decode"
  /\ Ext(r).kind = "compressed"
  /\ got' = [got EXCEPT ![r] = Payload[Ext(r)]]
  /\ pc' = [pc EXCEPT ![r] = "insert"]
  /\ UNCHANGED <<cache, local, buf, block, res, resizes>>

\* Copy out, then take the lock again and insert.
InsertDecoded(r) ==
  /\ pc[r] = "insert"
  /\ cache' = Insert(cache, KeyOf(Ext(r)), got[r])
  /\ Absorb(r, Slice(r, got[r]))
  /\ UNCHANGED <<local, resizes>>

\* The device fails a read: of the header a non-empty read opens, of the index every
\* fill resolves its extent in, of the stored data.  An unknown algorithm is met
\* before the data are read.
DeviceFails(r) ==
  /\ \/ /\ pc[r] = "open" /\ req[r].len > 0
        /\ req[r].off + req[r].len <= FileSize[req[r].nid]
     \/ pc[r] = "fill"
     \/ pc[r] = "decode" /\ Ext(r).kind # "unsupported"
  /\ Fail(r, "Io")
  /\ UNCHANGED <<cache, local, resizes>>

\* set_pcluster_cache_capacity, from any thread at any time.
Resize(n) ==
  /\ resizes < MaxResizes
  /\ resizes' = resizes + 1
  /\ cache' = New(n)
  /\ UNCHANGED <<pc, req, buf, block, got, res, reads>>

Step(r) ==
  \/ Open(r) \/ Refuse(r) \/ Untruthful(r) \/ ReadPlain(r) \/ CutShort(r) \/ Lookup(r)
  \/ NoCodec(r) \/ DecodeRefused(r) \/ Decode(r) \/ InsertDecoded(r) \/ DeviceFails(r)

Next ==
  \/ \E r \in Reader : (\E q \in Request : Begin(r, q)) \/ Step(r)
  \/ \E n \in Capacity : Resize(n)

Spec == Init /\ [][Next]_vars

\* A thread inside read_file keeps running; nobody is obliged to call or resize.
FairSpec == Spec /\ \A r \in Reader : WF_vars(Step(r))
-----------------------------------------------------------------------------
\* What the image says byte o of inode n is.
FileByte(n, o) == Payload[Index[n][o]][o - Index[n][o].start + 1]

\* The index of n answers, for every offset of an extent, that extent.
SoundInodes ==
  {n \in Nid :
     \A o \in DOMAIN Index[n] :
       LET e == Index[n][o]
       IN  /\ e.start <= o /\ o < e.end
           /\ \A p \in DOMAIN Index[n] : e.start <= p /\ p < e.end => Index[n][p] = e}
Sound(n) == n \in SoundInodes

Asked(q) == q.off .. (q.off + q.len - 1)

\* The bytes of the blocks that hold the bytes asked for: a call reads whole blocks.
Touched(q) ==
  {o \in DOMAIN Index[q.nid] :
     \E a \in Asked(q) : LET s == a - (a % BlockSize) IN o \in s .. s + BlockSize - 1}

Refusals == {"BadInode", "UnsupportedLayout"}
Errors == Refusals \cup {"OutOfRange", "Io"}

\* What is stored for byte o of inode n fails a fill that reaches it, as why says.
Spoilt(n, o, why) ==
  LET e == Index[n][o]
  IN  \/ /\ why = "BadInode"
         /\ e.kind = "undecodable" \/ (e.kind = "plain" /\ o \in Gone[e])
      \/ why = "UnsupportedLayout" /\ e.kind = "unsupported"

\* Byte o of inode n cannot be read truthfully.
Unreadable(n, o) ==
  Index[n][o].kind = "untruthful" \/ \E why \in Refusals : Spoilt(n, o, why)

\* What the image must hold for call q to be refused with why: an untruthful byte
\* is one its own caller asked for, a spoilt one need only share a block with it.
Cause(q, why) ==
  \/ why = "BadInode" /\ \E o \in Asked(q) : Index[q.nid][o].kind = "untruthful"
  \/ \E o \in Touched(q) : Spoilt(q.nid, o, why)

Mid == {"fill", "decode", "insert"}

\* Every variable has its type, and a reader past `open` has a cursor in range.
TypeOK ==
  /\ DOMAIN cache = CacheField
  /\ cache.cap \in Capacity
  /\ cache.age \in [Held(cache) -> Nat]
  /\ \A k \in Held(cache) : cache.val[k] \in Seq(Bytes)
  /\ cache.hits \in Nat /\ cache.misses \in Nat
  /\ pc \in [Reader -> {"idle", "open", "done"} \cup Mid]
  /\ req \in [Reader -> Request]
  /\ buf \in [Reader -> Seq(Bytes)]
  /\ block \in [Reader -> Seq(Bytes)]
  /\ got \in [Reader -> Seq(Bytes)]
  /\ res \in [Reader -> {"none", "ok"} \cup Errors]
  /\ reads \in [Reader -> 0 .. MaxReads]
  /\ resizes \in 0 .. MaxResizes

\* Whoever inserted it and however the insert raced with lookups, inserts and
\* resizes, a cached value is the payload of every extent its key names, and
\* nothing is cached for an extent that does not decode (src/fs.rs, "THE SPAN IS
\* PART OF THE KEY").
CacheCoherent ==
  \A e \in Extent :
    KeyOf(e) \in Held(cache) => e.kind = "compressed" /\ cache.val[KeyOf(e)] = Payload[e]

\* A live cache holds at most `cap` entries at distinct recency positions, a
\* disabled one nothing, even when an insert lands after a resize.
CacheWithinCapacity ==
  /\ \A k \in Held(cache) : cache.age[k] < cache.cap
  /\ \A j, k \in Held(cache) : cache.age[j] = cache.age[k] => j = k

\* The byte total kept by hand is the bytes held, and within the limit.
BytesAccounted ==
  /\ cache.bytes = Weight(cache, Held(cache))
  /\ cache.bytes <= ByteLimit

\* A read that returns Ok on a sound index returns the file's bytes, and none
\* that cannot be read truthfully (src/fs.rs read_file).
ReadCorrect ==
  \A r \in Reader :
    (res[r] = "ok" /\ Sound(req[r].nid)) =>
      /\ Len(buf[r]) = req[r].len
      /\ \A i \in 1 .. Len(buf[r]) :
           /\ buf[r][i] = FileByte(req[r].nid, req[r].off + i - 1)
           /\ ~Unreadable(req[r].nid, req[r].off + i - 1)

\* On a sound index a read is refused only for an untruthful byte it asked for, or
\* for what is stored of a block it touches: no hit is ever too short, an
\* untruthful neighbour fails nobody, and each error names its own cause.
RefusedOnlyForCause ==
  \A r \in Reader :
    (res[r] \in Refusals /\ Sound(req[r].nid)) => Cause(req[r], res[r])

\* What the code says of a fill, that one "that cannot be read truthfully fails the
\* call only if it is in `wanted`" and that a block read "on behalf of bytes beside
\* it still succeeds" (src/fs.rs): a refused read asked for such a byte.
NeighbourSpared ==
  \A r \in Reader :
    (res[r] \in Refusals /\ Sound(req[r].nid)) =>
      \E o \in Asked(req[r]) : Unreadable(req[r].nid, o)

\* A read always returns, a zero-length extent in its way included (the
\* zero-progress rule of read_compressed_block).
ReadsReturn == \A r \in Reader : (pc[r] = "open") ~> (pc[r] = "done")

\* What a caller sees of the call of reader r.
View(r) == [st  |-> IF pc[r] \in Mid \cup {"open"} THEN "busy" ELSE pc[r],
            req |-> req[r],
            res |-> res[r],
            out |-> IF res[r] = "ok" THEN buf[r] ELSE <<>>]

Service == INSTANCE ReadService WITH call <- [r \in Reader |-> View(r)]

\* Whatever the cache does, callers see the service that has none.
ImplementsService == Service!Spec
=============================================================================
