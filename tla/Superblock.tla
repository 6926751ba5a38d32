------------------------------ MODULE Superblock ------------------------------
(***************************************************************************)
(* Opening an image: Filesystem::open_with_cache, open_with_devices and    *)
(* open_split with superblock.rs beneath them, one read of the device at a *)
(* time.  A device need not give the same bytes twice, and may fail.       *)
(***************************************************************************)
EXTENDS Integers, Sequences

CONSTANTS
  Content,   \* what the device may hold: [head, summed, blob, slots]
  Garbage,   \* records seen where none begins
  Extras,    \* lists of devices a caller passes
  NULL

\* No content is taken for none.
ASSUME NullAssumption == NULL \notin Content

\* Lists of devices are sequences, and a superblock counts its extra devices.
ASSUME DeviceAssumption ==
  /\ \A e \in Extras : Len(e) \in Nat /\ DOMAIN e = 1..Len(e)
  /\ \A c \in Content : c.head.extra_devices \in Nat

(***************************************************************************)
(* Of a content: head, the superblock's fields; summed, the checksum is    *)
(* that of the bytes it covers; blob, the COMPR_CFGS records by the byte   *)
(* they begin at, [codec, size, value]; slots, the tags of the device      *)
(* table.                                                                  *)
(***************************************************************************)
VARIABLES
  pc,        \* "idle", "head", "span", "split", "cfgs", "open", "failed"
  image,     \* the content of the device, or NULL: it changes
  primary,   \* what open_split reads metadata from; NULL: not made yet
  extras,    \* the devices the caller passed
  first,     \* what superblock::read parsed first, when it reads twice
  sb,        \* the content the superblock held was parsed from
  todo, cursor, cfgs,   \* read_compr_cfgs: next codec, next byte, records kept
  error      \* why the opening failed

vars == <<pc, image, primary, extras, first, sb, todo, cursor, cfgs, error>>
walk == <<todo, cursor, cfgs>>
given == <<image, extras>>
-----------------------------------------------------------------------------
SuperOffset == 1024
SuperSize == 128
ExtSlotSize == 16
MinBits == 9
MaxBits == 16
LzmaDefaultDict == 2 ^ 24
ZstdMaxDictLog == 20

\* The order of the records in the blob.
Codecs == <<"LZ4", "LZMA", "DEFLATE", "ZSTD">>

Supported == {"ZERO_PADDING", "COMPR_CFGS", "CHUNKED_FILE", "DEVICE_TABLE", "ZTAILPACKING",
              "FRAGMENTS", "XATTR_PREFIXES"}

\* The error of Superblock::parse, or "ok".
parse(h) ==
  IF ~h.magic THEN "NotErofs"
  ELSE IF h.blkszbits \notin MinBits..MaxBits \/ h.dirblkbits # 0 THEN "BadSuperblock"
  ELSE "ok"

check_incompat_features(h) == h.incompat \subseteq Supported

checksum_span_len(h) == 2 ^ h.blkszbits - (SuperOffset % 2 ^ h.blkszbits)

\* The bytes of superblock::read's second read.
SpanRead(h) == IF checksum_span_len(h) < SuperSize THEN SuperSize ELSE checksum_span_len(h)

compr_cfgs_offset(h) == SuperOffset + SuperSize + h.sb_extslots * ExtSlotSize

Init ==
  /\ pc = "idle" /\ image = NULL /\ primary = NULL /\ extras = <<>>
  /\ first = NULL /\ sb = NULL /\ error = NULL
  /\ todo = 1 /\ cursor = 0 /\ cfgs = [codec \in {} |-> NULL]

\* What one read of the device may see.
Saw == IF image \in Content THEN {image} ELSE Content

Refuse(e) ==
  /\ pc' = "failed" /\ error' = e
  /\ UNCHANGED <<primary, first, sb>> /\ UNCHANGED walk /\ UNCHANGED given

\* Every read may fail instead.
ReadFails ==
  /\ \/ pc \in {"head", "span"}
     \/ pc = "cfgs" /\ todo <= Len(Codecs) /\ Codecs[todo] \in sb.head.u1
  /\ Refuse("Block")
-----------------------------------------------------------------------------
\* Filesystem::open_with_devices: open_split reads the device itself.
open_with_devices ==
  /\ pc = "idle" /\ pc' = "head"
  /\ image' \in Content \cup {NULL} /\ extras' \in Extras /\ primary' = "device"
  /\ UNCHANGED <<first, sb, error>> /\ UNCHANGED walk

\* Filesystem::open_with_cache, caching some blocks: the superblock is read once
\* for the size of the cache's blocks, and again by open_split through the cache.
\* Caching none is open_with_devices without extras.
open_with_cache ==
  /\ pc = "idle" /\ pc' = "head"
  /\ image' \in Content \cup {NULL} /\ extras' = <<>>
  /\ UNCHANGED <<primary, first, sb, error>> /\ UNCHANGED walk

\* superblock::read returns what it parsed from c.
Took(c, seen) ==
  /\ IF primary = NULL
     THEN pc' = "head" /\ primary' = "cache" /\ first' = NULL /\ sb' = NULL
     ELSE pc' = "split" /\ first' = seen /\ sb' = c /\ UNCHANGED primary
  /\ UNCHANGED error /\ UNCHANGED walk /\ UNCHANGED given

\* superblock::read: the 128 bytes of the superblock.
read_head ==
  /\ pc = "head"
  /\ \E c \in Saw :
       \/ parse(c.head) # "ok" /\ Refuse(parse(c.head))
       \/ parse(c.head) = "ok" /\ ~c.head.chksum /\ Took(c, NULL)
       \/ /\ parse(c.head) = "ok" /\ c.head.chksum
          /\ pc' = "span" /\ first' = c
          /\ UNCHANGED <<primary, sb, error>> /\ UNCHANGED walk /\ UNCHANGED given

\* verify_checksum, over a span as long as the first read's superblock says.
Verified(c) ==
  c.head.chksum /\ SpanRead(first.head) = SpanRead(c.head) /\ c.summed

\* Seeded fault: the span is summed, and the first read's superblock kept.
Kept_First(c) == first

\* The superblock returned is the one that was verified.
Kept(c) == c

\* superblock::read: the bytes the checksum covers, parsed again.
read_span ==
  /\ pc = "span"
  /\ \E c \in Saw :
       \/ parse(c.head) # "ok" /\ Refuse(parse(c.head))
       \/ parse(c.head) = "ok" /\ ~Verified(c) /\ Refuse("BadSuperblock")
       \/ parse(c.head) = "ok" /\ Verified(c) /\ Took(Kept(c), first)

\* Filesystem::open_split, up to read_compr_cfgs.
open_split ==
  /\ pc = "split"
  /\ \/ /\ ~check_incompat_features(sb.head) \/ Len(extras) # sb.head.extra_devices
        /\ Refuse("BadSuperblock")
     \/ /\ check_incompat_features(sb.head) /\ Len(extras) = sb.head.extra_devices
        /\ pc' = IF "COMPR_CFGS" \in sb.head.incompat THEN "cfgs" ELSE "open"
        /\ cursor' = compr_cfgs_offset(sb.head)
        /\ UNCHANGED <<primary, first, sb, todo, cfgs, error>> /\ UNCHANGED given
-----------------------------------------------------------------------------
Codec == Codecs[todo]

\* The records a read at the cursor may see.
RecordsAt(c) == IF cursor \in DOMAIN c.blob THEN {c.blob[cursor]} ELSE Garbage

\* A size and as many bytes: two reads, which need not see one content.
Records ==
  LET seen == UNION {RecordsAt(c) : c \in Saw}
  IN  {[size |-> r.size, value |-> s.value] : r \in seen, s \in seen}

\* Seeded fault: a payload nothing is kept of is not stepped over.
Beyond_NotRead(rec) == cursor + 2 + (IF Codec \in {"LZMA", "ZSTD"} THEN rec.size ELSE 0)

\* Where the record behind rec begins.  Four records stay below COMPR_CFGS_MAX_BYTES.
Beyond(rec) == cursor + 2 + rec.size

\* Seeded fault: the largest window there is is refused.
Refusal_AtLimit(rec) ==
  CASE Codec = "LZMA" /\ rec.size < 4 -> "BadInode"
    [] Codec = "ZSTD" /\ rec.size < 2 -> "BadInode"
    [] Codec = "ZSTD" /\ rec.size >= 2 /\ (rec.value.format # 0
         \/ rec.value.windowlog + 10 >= ZstdMaxDictLog) -> "BadSuperblock"
    [] OTHER -> "ok"

\* The error for a record that cannot be the codec's, or "ok".
Refusal(rec) ==
  CASE Codec = "LZMA" /\ rec.size < 4 -> "BadInode"
    [] Codec = "ZSTD" /\ rec.size < 2 -> "BadInode"
    [] Codec = "ZSTD" /\ rec.size >= 2 /\ (rec.value.format # 0
         \/ rec.value.windowlog + 10 > ZstdMaxDictLog) -> "BadSuperblock"
    [] OTHER -> "ok"

\* What is kept of a codec's record: of LZ4's and DEFLATE's, that there is one.
Cfg(codec, rec) ==
  CASE codec = "LZMA" -> IF rec.value.dict = 0 THEN LzmaDefaultDict ELSE rec.value.dict
    [] codec = "ZSTD" -> [format |-> rec.value.format, windowlog |-> rec.value.windowlog]
    [] OTHER -> "present"

\* A codec whose bit is clear has no record.
skip_codec ==
  /\ pc = "cfgs" /\ todo <= Len(Codecs) /\ Codec \notin sb.head.u1
  /\ todo' = todo + 1
  /\ UNCHANGED <<pc, primary, first, sb, cursor, cfgs, error>> /\ UNCHANGED given

read_one ==
  /\ pc = "cfgs" /\ todo <= Len(Codecs) /\ Codec \in sb.head.u1
  /\ \E rec \in Records :
       \/ Refusal(rec) # "ok" /\ Refuse(Refusal(rec))
       \/ /\ Refusal(rec) = "ok"
          /\ todo' = todo + 1 /\ cursor' = Beyond(rec)
          /\ cfgs' = [codec \in DOMAIN cfgs \cup {Codec} |->
                        IF codec = Codec THEN Cfg(codec, rec) ELSE cfgs[codec]]
          /\ UNCHANGED <<pc, primary, first, sb, error>> /\ UNCHANGED given

cfgs_done ==
  /\ pc = "cfgs" /\ todo > Len(Codecs) /\ pc' = "open"
  /\ UNCHANGED <<primary, first, sb, error>> /\ UNCHANGED walk /\ UNCHANGED given

Next ==
  \/ open_with_devices \/ open_with_cache
  \/ read_head \/ read_span \/ open_split
  \/ skip_codec \/ read_one \/ cfgs_done
  \/ ReadFails

Spec == Init /\ [][Next]_vars
-----------------------------------------------------------------------------
\* Seeded fault: device 0 has a slot, as the others have.
device_for_Zero(id) ==
  IF id = 0 THEN primary
  ELSE IF id + 1 \in DOMAIN extras THEN extras[id + 1] ELSE "out of range"

\* The device that serves metadata addressed to `id`.
device_for(id) ==
  IF id = 0 THEN primary
  ELSE IF id \in DOMAIN extras THEN extras[id] ELSE "out of range"

\* The device that serves file contents: the cache holds metadata only.
data_device_for(id) == IF id = 0 THEN "device" ELSE device_for(id)

\* Filesystem::read_device_table: the tags of the image's extra devices, in order.
read_device_table(c) == SubSeq(c.slots, 1, c.head.extra_devices)
-----------------------------------------------------------------------------
\* Where the record of the k-th codec begins.
Place(c, k) == CHOOSE at \in DOMAIN c.blob : c.blob[at].codec = Codecs[k]

\* The n-th codec or the next one behind it that has a record is the k-th.
NextLaid(c, n, k) ==
  /\ k \in n..Len(Codecs) /\ Codecs[k] \in c.head.u1
  /\ \A j \in n..(k - 1) : Codecs[j] \notin c.head.u1

\* A bit of feature_incompat is implemented, named or unknown.  With COMPR_CFGS u1
\* is read for the bits of the codecs, and whatever bytes lie behind the superblock
\* are a size and as many bytes, once for each: those are the codecs' records.
ASSUME RecordAssumption ==
  \A c \in Content :
    /\ c.head.incompat \subseteq Supported \cup {"METABOX", "48BIT", "UNKNOWN"}
    /\ "COMPR_CFGS" \in c.head.incompat =>
         /\ c.head.u1 \subseteq {Codecs[k] : k \in 1..Len(Codecs)}
         /\ \A p, q \in DOMAIN c.blob : c.blob[p].codec = c.blob[q].codec => p = q
         /\ \A k \in 1..Len(Codecs) :
              /\ Codecs[k] \in c.head.u1 =>
                   /\ \E at \in DOMAIN c.blob : c.blob[at].codec = Codecs[k]
                   /\ c.blob[Place(c, k)].size \in Nat
                   /\ c.blob[Place(c, k)].value.windowlog \in Nat
              /\ NextLaid(c, 1, k) => Place(c, k) = compr_cfgs_offset(c.head)
              /\ \A j \in 1..Len(Codecs) :
                   Codecs[j] \in c.head.u1 /\ NextLaid(c, j + 1, k) =>
                     Place(c, k) = Place(c, j) + 2 + c.blob[Place(c, j)].size
-----------------------------------------------------------------------------
(***************************************************************************)
(* HeldWasVerified: a superblock that is held parses, and unless the very  *)
(* first read of it had no checksum, the checksum was found right over the *)
(* bytes it was parsed from; a device that changes between the two reads   *)
(* of superblock::read cannot get around it.                               *)
(***************************************************************************)
HeldWasVerified ==
  sb # NULL =>
    /\ parse(sb.head) = "ok"
    /\ sb.head.chksum <=> first # NULL
    /\ sb.head.chksum => sb.summed

(***************************************************************************)
(* VerdictIsTheImages: an image that does not change, on a device that     *)
(* does not fail, is refused for nothing but what is in it: it opens       *)
(* exactly when its superblock parses, its checksum is right if it has     *)
(* one, its features are known, the caller passed as many devices as it    *)
(* has and the record of each codec with a bit, where it was laid, is one  *)
(* of that codec, windows of up to 1 MiB included.                         *)
(***************************************************************************)
RecordOf(c, codec) ==
  CHOOSE rec \in {c.blob[at] : at \in DOMAIN c.blob} : rec.codec = codec

RecordFits(c, codec) ==
  LET rec == RecordOf(c, codec)
  IN /\ codec = "LZMA" => rec.size >= 4
     /\ codec = "ZSTD" => rec.size >= 2 /\ rec.value.format = 0 /\ rec.value.windowlog \in 0..10

Opens(c) ==
  /\ c.head.magic /\ c.head.blkszbits \in 9..16 /\ c.head.dirblkbits = 0
  /\ c.head.chksum => c.summed
  /\ {"METABOX", "48BIT", "UNKNOWN"} \cap c.head.incompat = {}
  /\ Len(extras) = c.head.extra_devices
  /\ "COMPR_CFGS" \in c.head.incompat => \A codec \in c.head.u1 : RecordFits(c, codec)

VerdictIsTheImages ==
  image \in Content /\ pc \in {"open", "failed"} /\ error # "Block" =>
    (pc = "open" <=> Opens(image))

(***************************************************************************)
(* CfgsFromOwnRecord: of an image that does not change, what is kept for a *)
(* codec comes from that codec's own record, whichever codecs have one in  *)
(* front of it, and there is nothing for a codec without a record.         *)
(***************************************************************************)
CfgsFromOwnRecord ==
  image \in Content /\ pc = "open" =>
    /\ "COMPR_CFGS" \in image.head.incompat => DOMAIN cfgs = image.head.u1
    /\ \A codec \in DOMAIN cfgs : cfgs[codec] = Cfg(codec, RecordOf(image, codec))

(***************************************************************************)
(* TagsLeadToDevices: of an image that is open, with the devices passed in *)
(* the order of its table, device n is the one the table's n-th tag names; *)
(* device 0 is the image, its contents read past the metadata cache; and   *)
(* there is no device behind the last.                                     *)
(***************************************************************************)
TagsLeadToDevices ==
  LET tags == read_device_table(sb)
  IN pc = "open" =>
       /\ device_for(0) \in {"device", "cache"} /\ data_device_for(0) = "device"
       /\ extras = tags =>
            \A n \in 1..Len(tags) : device_for(n) = tags[n] /\ data_device_for(n) = tags[n]
       /\ device_for(sb.head.extra_devices + 1) = "out of range"
=============================================================================
