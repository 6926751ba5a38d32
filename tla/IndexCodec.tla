----------------------------- MODULE IndexCodec -----------------------------
(***************************************************************************)
(* The two on-disk forms of the lcluster index, as the writer encodes them *)
(* (encode_zmap_trailer and below) and the reader decodes them (ZMap).     *)
(*                                                                         *)
(* Cluster types are the format's: 0 PLAIN, 1 HEAD1, 2 NONHEAD, 3 HEAD2.   *)
(* An entry is [type, lo, addr]: lo is clusterofs on a head and delta[0]   *)
(* on a NONHEAD, addr the block of a head's pcluster.                      *)
(***************************************************************************)
EXTENDS Integers, Sequences, FiniteSets
LOCAL INSTANCE FiniteSetsExt

CONSTANT
  ZLcBits      \* z_lclusterbits: blkszbits + lclusterbits

PLAIN == 0
HEAD1 == 1
NONHEAD == 2
IsHead(type) == type # NONHEAD

LoBits == Max({ZLcBits, 12})
Cblkcnt == 2^11                     \* Z_EROFS_LI_D0_CBLKCNT

CeilDiv(a, b) == (a + b - 1) \div b
AlignUp(x, a) == CeilDiv(x, a) * a

Pack4 == [bytes |-> 8, vcnt |-> 2, bits |-> 16]
Pack2 == [bytes |-> 32, vcnt |-> 16, bits |-> 14]
BytesFor(shape, lclusters) == CeilDiv(lclusters, shape.vcnt) * shape.bytes
BitstreamBits(shape) == 8 * (shape.bytes - 4)

Ebase(bodyEnd) == AlignUp(bodyEnd, 8) + 8

\* Lclusters in 4B packs before the 2B region, in 2B packs, and in 4B packs
\* after it; the writer always asks for the 2B region.
Geometry(ebase, n) ==
  LET initial == Min({((32 - (ebase % 32)) \div 4) % 8, n})
      middle == ((n - initial) \div 16) * 16
  IN [initial |-> initial, middle |-> middle, tail |-> n - initial - middle]

\* The advise bit the writer sets when there is a 2B region.
Compacted2B(bodyEnd, n) == Geometry(Ebase(bodyEnd), n).middle > 0

\* Lclusters of 4B packing in front of the first 2B pack, as the reader counts them.
AlignmentPad(ebase) ==
  ((Pack2.bytes - (ebase % Pack2.bytes)) \div 4) % (Pack2.bytes \div 4)

\* The reader's own account of the regions, by the advise bit.
ReadGeometry(ebase, n, compacted2B) ==
  LET initial == Min({AlignmentPad(ebase), n})
      left == n - initial
  IN [initial |-> initial,
      middle |-> IF compacted2B /\ left > 0 THEN left - (left % Pack2.vcnt) ELSE 0]

\* Seeded fault: each lcluster counts for its own bytes, not for its pack's.
AreaBytes_Unpadded(g) == 4 * g.initial + 2 * g.middle + 4 * g.tail

\* What the planner sets aside for the packs.
AreaBytes(g) == BytesFor(Pack4, g.initial) + BytesFor(Pack2, g.middle) + BytesFor(Pack4, g.tail)

\* Zeros between the map header and the packs.
PadBeforeIndex(bodyEnd) == (8 - (bodyEnd % 8)) % 8
PackStart(bodyEnd) == bodyEnd + 8 + PadBeforeIndex(bodyEnd)

\* What the planner sets aside for map header and index: of bodyEnd it knows the
\* remainder by 32.
PlannedBytes(format, bodyEnd, n) ==
  LET end == bodyEnd % 32
      ebase == ((AlignUp(end, 8) % 32) + 8) % 32
  IN IF format = "legacy" THEN 16 + 8 * n
     ELSE 8 + PadBeforeIndex(end) + AreaBytes(Geometry(ebase, n))

\* Seeded fault: the trailing region starts where the middle one does.
TailOffset_AtMiddle(g) == BytesFor(Pack4, g.initial)
TailOffset(g) == BytesFor(Pack4, g.initial) + BytesFor(Pack2, g.middle)

\* The pack of lcluster k: where it is, what shape, and k's place in it.
Locate(start, g, k) ==
  LET in(shape, offset, first) ==
        [at |-> offset + ((k - first) \div shape.vcnt) * shape.bytes,
         slot |-> (k - first) % shape.vcnt, shape |-> shape]
  IN IF k < g.initial THEN in(Pack4, start, 0)
     ELSE IF k < g.initial + g.middle
          THEN in(Pack2, start + BytesFor(Pack4, g.initial), g.initial)
          ELSE in(Pack4, start + TailOffset(g), g.initial + g.middle)
-----------------------------------------------------------------------------
\* A bitstream is the set of its one bits; a number of w of them has the lowest first.
BitsOf(v, w) == {b \in 0 .. w - 1 : (v \div 2^b) % 2 = 1}
NumberOf(bits, w) ==
  LET from[b \in 0 .. w] == IF b = w THEN 0 ELSE (IF b \in bits THEN 1 ELSE 0) + 2 * from[b + 1]
  IN from[0]

\* One entry or-ed in at its slot: neighbours that overlap are not masked off.
PackWrite(shape, slot, e) ==
  LET value == ((e.type % 4) * 2^LoBits) + (e.lo % 2^LoBits)
  IN {(slot * shape.bits) + b : b \in BitsOf(value, LoBits + 2)} \cap (0 .. BitstreamBits(shape) - 1)

\* The reader's 32-bit window on a slot, shifted down.
PackRead(shape, bits, slot) ==
  LET first == slot * shape.bits
      window == {b - first : b \in {c \in bits : first <= c /\ c < 8 * (first \div 8) + 32}}
  IN [lo |-> NumberOf(window, LoBits), type |-> NumberOf({b - LoBits : b \in window}, 2)]

\* One less than the first head's block, saturating; 0 in a pack without one.
PackBase(slice) ==
  LET heads == {s \in DOMAIN slice : IsHead(slice[s].type)}
  IN IF heads = {} THEN 0 ELSE Max({0, slice[Min(heads)].addr - 1})

EncodePack(shape, slice) ==
  [bits |-> UNION {PackWrite(shape, s - 1, slice[s]) : s \in DOMAIN slice},
   base |-> PackBase(slice), bytes |-> shape.bytes]

\* The packs of a region of n lclusters from lcluster `first` on, at offset `at`.
RegionPacks(shape, entries, first, n, at) ==
  {[at |-> at + p * shape.bytes,
    pack |-> EncodePack(shape, SubSeq(entries, first + p * shape.vcnt + 1,
                                      Min({first + (p + 1) * shape.vcnt, first + n})))] :
     p \in 0 .. CeilDiv(n, shape.vcnt) - 1}

\* The index area of a compact inode: its packs by their offsets.
EncodeCompact(bodyEnd, entries) ==
  LET start == PackStart(bodyEnd)
      g == Geometry(Ebase(bodyEnd), Len(entries))
      packs == RegionPacks(Pack4, entries, 0, g.initial, start)
               \cup RegionPacks(Pack2, entries, g.initial, g.middle,
                                start + BytesFor(Pack4, g.initial))
               \cup RegionPacks(Pack4, entries, g.initial + g.middle, g.tail,
                                start + BytesFor(Pack4, g.initial) + BytesFor(Pack2, g.middle))
  IN [at \in {p.at : p \in packs} |-> (CHOOSE p \in packs : p.at = at).pack]

\* A legacy entry is two words: type and clusterofs, then block or delta[0].
LegacyStart(bodyEnd) == bodyEnd + 16
EncodeLegacy(bodyEnd, entries) ==
  LET first == LegacyStart(bodyEnd) \div 4
  IN [w \in first .. first + 2 * Len(entries) - 1 |->
        LET e == entries[(w - first) \div 2 + 1] IN
        IF (w - first) % 2 = 0
        THEN e.type + 65536 * (IF IsHead(e.type) THEN e.lo ELSE 0)
        ELSE IF IsHead(e.type) THEN e.addr ELSE e.lo]

\* Where the trailer that was written ends: behind its last word or pack.
WrittenEnd(disk) ==
  Max(IF disk.format = "legacy"
      THEN {LegacyStart(disk.bodyEnd)} \cup {4 * w + 4 : w \in DOMAIN disk.index}
      ELSE {PackStart(disk.bodyEnd)} \cup {at + disk.index[at].bytes : at \in DOMAIN disk.index})
-----------------------------------------------------------------------------
Refused == [type |-> -1, ofs |-> 0, u |-> 0]

\* Where the count goes on from slot s: the slot before, or the head it names.
StepBack(decoded, s) ==
  IF decoded[s - 1].type = NONHEAD THEN s - 1 - decoded[s - 1].lo ELSE s - 1

\* The heads of a pack up to and including slot, NONHEAD runs skipped over.
HeadsFrom(decoded, slot) ==
  LET count[s \in 0 .. slot] ==
        IF s = 0 \/ StepBack(decoded, s) < 0 THEN 1 ELSE count[StepBack(decoded, s)] + 1
  IN count[slot]

\* The count meets a CBLKCNT marker, which only BIG_PCLUSTER may write.
MeetsMarker(decoded, slot) ==
  LET met[s \in 0 .. slot] ==
        /\ s > 0
        /\ \/ decoded[s - 1].type = NONHEAD /\ (decoded[s - 1].lo \div Cblkcnt) % 2 = 1
           \/ StepBack(decoded, s) >= 0 /\ met[StepBack(decoded, s)]
  IN met[slot]

\* delta[0] of a NONHEAD; a pack's last slot holds delta[1] and goes by the slot before.
NonheadDelta(shape, decoded, slot) ==
  IF slot + 1 # shape.vcnt THEN decoded[slot].lo % 65536
  ELSE LET before == decoded[slot - 1] IN
       IF before.type # NONHEAD THEN 1
       ELSE IF (before.lo \div Cblkcnt) % 2 = 1 THEN 2
       ELSE (before.lo + 1) % 65536

ReadCompact(disk, k) ==
  LET start == Ebase(disk.bodyEnd)
      g == ReadGeometry(start, disk.n, Compacted2B(disk.bodyEnd, disk.n))
      home == Locate(start, g, k)
      pack == IF home.at \in DOMAIN disk.index THEN disk.index[home.at]
              ELSE [bits |-> {}, base |-> 0]
      decoded == [s \in 0 .. home.slot |-> PackRead(home.shape, pack.bits, s)]
      e == decoded[home.slot]
  IN IF ~IsHead(e.type)
     THEN [type |-> e.type, ofs |-> 0, u |-> NonheadDelta(home.shape, decoded, home.slot)]
     ELSE IF MeetsMarker(decoded, home.slot) THEN Refused
     ELSE [type |-> e.type, ofs |-> e.lo % 65536, u |-> pack.base + HeadsFrom(decoded, home.slot)]

LegacyReadStart(bodyEnd) == Ebase(bodyEnd) + 8

ReadLegacy(disk, k) ==
  LET at == LegacyReadStart(disk.bodyEnd) \div 4 + 2 * k
      word(w) == IF w \in DOMAIN disk.index THEN disk.index[w] ELSE 0
  IN [type |-> word(at) % 4, ofs |-> word(at) \div 65536, u |-> word(at + 1)]

\* The bytes of the index, and where the reader takes the inlined tail from.
index_array_bytes(disk) ==
  LET g == ReadGeometry(Ebase(disk.bodyEnd), disk.n, Compacted2B(disk.bodyEnd, disk.n))
  IN IF disk.format = "legacy" THEN 8 * disk.n
     ELSE BytesFor(Pack4, g.initial) + BytesFor(Pack2, g.middle)
          + BytesFor(Pack4, disk.n - g.initial - g.middle)

tail_inline_offset(disk) ==
  (IF disk.format = "legacy" THEN LegacyReadStart(disk.bodyEnd) ELSE Ebase(disk.bodyEnd))
  + index_array_bytes(disk)

\* ZMap::read_lcluster.
ReadLcluster(disk, k) == IF disk.format = "legacy" THEN ReadLegacy(disk, k) ELSE ReadCompact(disk, k)
=============================================================================
