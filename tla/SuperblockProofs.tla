--------------------------- MODULE SuperblockProofs ---------------------------
(***************************************************************************)
(* What is held of an image was verified, over any device; an image that   *)
(* does not change is opened or refused for what is in it.                 *)
(***************************************************************************)
EXTENDS Superblock, TLAPS

(***************************************************************************)
(* IInv: a second read of the superblock is under way only behind a first  *)
(* one that parses, and nothing is held before a read of it returns.       *)
(***************************************************************************)
IInv ==
  /\ pc \in {"idle", "head"} => first = NULL /\ sb = NULL
  /\ pc = "span" => first \in Content /\ sb = NULL
  /\ HeldWasVerified

LEMMA SawContent == Saw \subseteq Content
  BY DEF Saw

LEMMA RefuseKeeps ==
  ASSUME IInv, NEW e, Refuse(e) PROVE IInv'
  BY DEF Refuse, IInv, HeldWasVerified

LEMMA InitInv == Init => IInv
  BY DEF Init, IInv, HeldWasVerified

\* Nothing without a checksum is held behind a read that had one, nor the other way.
LEMMA TookKeeps ==
  ASSUME IInv, NEW c \in Content, NEW seen, Took(c, seen),
         parse(c.head) = "ok", c.head.chksum <=> seen # NULL, c.head.chksum => c.summed
  PROVE  IInv'
<1>1. CASE primary = NULL
  BY <1>1 DEF Took, IInv, HeldWasVerified
<1>2. CASE primary # NULL
  <2>1. pc' = "split" /\ first' = seen /\ sb' = c
    BY <1>2 DEF Took
  <2>2. HeldWasVerified'
    BY <2>1 DEF HeldWasVerified, parse
  <2> QED BY <2>1, <2>2 DEF IInv
<1> QED BY <1>1, <1>2

LEMMA NextInv == IInv /\ [Next]_vars => IInv'
<1> SUFFICES ASSUME IInv, [Next]_vars PROVE IInv'
  OBVIOUS
<1>1. CASE open_with_devices
  BY <1>1 DEF open_with_devices, IInv, HeldWasVerified
<1>2. CASE open_with_cache
  BY <1>2 DEF open_with_cache, IInv, HeldWasVerified
<1>3. CASE read_head
  <2>1. PICK c \in Saw :
          \/ parse(c.head) # "ok" /\ Refuse(parse(c.head))
          \/ parse(c.head) = "ok" /\ ~c.head.chksum /\ Took(c, NULL)
          \/ /\ parse(c.head) = "ok" /\ c.head.chksum
             /\ pc' = "span" /\ first' = c
             /\ UNCHANGED <<primary, sb, error>> /\ UNCHANGED walk /\ UNCHANGED given
    BY <1>3 DEF read_head
  <2>2. c \in Content
    BY SawContent
  <2>3. CASE Refuse(parse(c.head))
    BY <2>3, RefuseKeeps
  <2>4. CASE parse(c.head) = "ok" /\ ~c.head.chksum /\ Took(c, NULL)
    BY <2>2, <2>4, TookKeeps
  <2>5. CASE pc' = "span" /\ first' = c /\ sb' = sb
    BY <1>3, <2>2, <2>5 DEF read_head, IInv, HeldWasVerified
  <2> QED BY <2>1, <2>3, <2>4, <2>5
<1>4. CASE read_span
  <2>1. PICK c \in Saw :
          \/ parse(c.head) # "ok" /\ Refuse(parse(c.head))
          \/ parse(c.head) = "ok" /\ ~Verified(c) /\ Refuse("BadSuperblock")
          \/ parse(c.head) = "ok" /\ Verified(c) /\ Took(Kept(c), first)
    BY <1>4 DEF read_span
  <2>2. c \in Content
    BY SawContent
  <2>3. CASE Refuse(parse(c.head)) \/ Refuse("BadSuperblock")
    BY <2>3, RefuseKeeps
  <2>4. CASE parse(c.head) = "ok" /\ Verified(c) /\ Took(c, first)
    <3>1. first # NULL
      BY <1>4, NullAssumption DEF read_span, IInv
    <3>2. c.head.chksum /\ c.summed
      BY <2>4 DEF Verified
    <3> QED BY <2>2, <2>4, <3>1, <3>2, TookKeeps
  <2> QED BY <2>1, <2>3, <2>4 DEF Kept
<1>5. CASE open_split
  <2>1. CASE Refuse("BadSuperblock")
    BY <2>1, RefuseKeeps
  <2>2. CASE pc' \in {"cfgs", "open"} /\ UNCHANGED <<first, sb>>
    BY <2>2 DEF IInv, HeldWasVerified
  <2> QED BY <1>5, <2>1, <2>2 DEF open_split
<1>6. CASE skip_codec \/ cfgs_done
  BY <1>6 DEF skip_codec, cfgs_done, IInv, HeldWasVerified
<1>7. CASE read_one
  <2>1. PICK rec \in Records : Refuse(Refusal(rec)) \/ UNCHANGED <<pc, first, sb>>
    BY <1>7 DEF read_one
  <2>2. CASE Refuse(Refusal(rec))
    BY <2>2, RefuseKeeps
  <2>3. CASE UNCHANGED <<pc, first, sb>>
    BY <2>3 DEF IInv, HeldWasVerified
  <2> QED BY <2>1, <2>2, <2>3
<1>8. CASE ReadFails
  BY <1>8, RefuseKeeps DEF ReadFails
<1>9. CASE UNCHANGED vars
  BY <1>9 DEF vars, IInv, HeldWasVerified
<1> QED BY <1>1, <1>2, <1>3, <1>4, <1>5, <1>6, <1>7, <1>8, <1>9 DEF Next

(***************************************************************************)
(* Whatever a device shows at each read, the superblock that is held was   *)
(* parsed from bytes whose checksum was found right, unless the first read *)
(* of it had no checksum (superblock::read).                               *)
(***************************************************************************)
THEOREM SuperblockVerified == Spec => []HeldWasVerified
<1>1. IInv => HeldWasVerified
  BY DEF IInv
<1> QED BY InitInv, NextInv, <1>1, PTL DEF Spec
-----------------------------------------------------------------------------
(***************************************************************************)
(* OpenInv: from the first superblock returned on, metadata has a device,  *)
(* and past open_split there are as many extras as the superblock says.    *)
(***************************************************************************)
OpenInv ==
  /\ extras \in Extras \cup {<<>>}
  /\ primary \in {NULL, "device", "cache"}
  /\ pc \in {"split", "cfgs", "open"} => primary # NULL /\ sb \in Content
  /\ pc \in {"cfgs", "open"} => Len(extras) = sb.head.extra_devices

LEMMA InitOpen == Init => OpenInv
  BY DEF Init, OpenInv

LEMMA TookOpens ==
  ASSUME OpenInv, NEW c \in Content, NEW seen, Took(c, seen)
  PROVE  OpenInv'
<1>1. CASE primary = NULL
  BY <1>1 DEF Took, given, OpenInv
<1>2. CASE primary # NULL
  BY <1>2 DEF Took, given, OpenInv
<1> QED BY <1>1, <1>2

LEMMA NextOpen == OpenInv /\ [Next]_vars => OpenInv'
<1> SUFFICES ASSUME OpenInv, [Next]_vars PROVE OpenInv'
  OBVIOUS
<1>1. ASSUME NEW e, Refuse(e) PROVE OpenInv'
  BY <1>1 DEF Refuse, given, OpenInv
<1>2. CASE open_with_devices \/ open_with_cache
  BY <1>2 DEF open_with_devices, open_with_cache, OpenInv
<1>3. CASE read_head \/ read_span
  <2>1. PICK c \in Content :
          \/ \E e : Refuse(e)
          \/ \E seen : Took(c, seen)
          \/ pc' = "span" /\ UNCHANGED <<primary, extras>>
    BY <1>3, SawContent DEF read_head, read_span, Kept, given
  <2>2. CASE pc' = "span" /\ UNCHANGED <<primary, extras>>
    BY <2>2 DEF OpenInv
  <2> QED BY <1>1, <2>1, <2>2, TookOpens
<1>4. CASE open_split
  <2>1. CASE Refuse("BadSuperblock")
    BY <1>1, <2>1
  <2>2. CASE ~Refuse("BadSuperblock")
    BY <1>4, <2>2 DEF open_split, given, OpenInv
  <2> QED BY <2>1, <2>2
<1>5. CASE skip_codec \/ cfgs_done
  BY <1>5 DEF skip_codec, cfgs_done, given, OpenInv
<1>6. CASE read_one
  <2>1. \/ \E e : Refuse(e)
        \/ UNCHANGED <<pc, primary, sb, extras>>
    BY <1>6 DEF read_one, given
  <2> QED BY <1>1, <2>1 DEF OpenInv
<1>7. CASE ReadFails
  BY <1>1, <1>7 DEF ReadFails
<1>8. CASE UNCHANGED vars
  BY <1>8 DEF vars, OpenInv
<1> QED BY <1>2, <1>3, <1>4, <1>5, <1>6, <1>7, <1>8 DEF Next

LEMMA OpenLeads == OpenInv => TagsLeadToDevices
<1> SUFFICES ASSUME OpenInv, pc = "open" PROVE TagsLeadToDevices
  BY DEF TagsLeadToDevices
<1> DEFINE n == sb.head.extra_devices
           tags == read_device_table(sb)
<1>1. n \in Nat /\ Len(extras) = n /\ DOMAIN extras = 1..n
  BY DeviceAssumption DEF OpenInv
<1>2. device_for(0) \in {"device", "cache"} /\ data_device_for(0) = "device"
  BY DEF OpenInv, device_for, data_device_for
<1>3. ASSUME extras = tags, NEW k \in 1..Len(tags)
      PROVE  device_for(k) = tags[k] /\ data_device_for(k) = tags[k]
  <2>1. k \in DOMAIN extras /\ k # 0
    BY <1>1, <1>3
  <2> QED BY <1>3, <2>1 DEF device_for, data_device_for
<1>4. device_for(n + 1) = "out of range"
  <2>1. n + 1 # 0 /\ n + 1 \notin DOMAIN extras
    BY <1>1
  <2> HIDE DEF n
  <2> QED BY <2>1 DEF device_for
<1> QED BY <1>2, <1>3, <1>4 DEF TagsLeadToDevices

(***************************************************************************)
(* However an image came to be open, a tag of its device table leads to    *)
(* the device passed in that place, contents pass the metadata cache by,   *)
(* and no number leads further (device_for, data_device_for).              *)
(***************************************************************************)
THEOREM DevicesByTag == Spec => []TagsLeadToDevices
  BY InitOpen, NextOpen, OpenLeads, PTL DEF Spec
-----------------------------------------------------------------------------
(***************************************************************************)
(* VerdictInv: of an image that does not change, what is held is the       *)
(* image, every test so far passed is one the image passes, and the next   *)
(* record is read where it was laid; the records behind the cursor fitted, *)
(* and each is kept for its own codec.                                     *)
(***************************************************************************)
Header(c) == parse(c.head) = "ok" /\ (c.head.chksum => c.summed)

Entered(c) == check_incompat_features(c.head) /\ Len(extras) = c.head.extra_devices

Walked(c) ==
  /\ DOMAIN cfgs = {Codecs[k] : k \in 1..(todo - 1)} \cap c.head.u1
  /\ \A codec \in DOMAIN cfgs :
       RecordFits(c, codec) /\ cfgs[codec] = Cfg(codec, RecordOf(c, codec))

AtRecord(c) ==
  \A k \in 1..Len(Codecs) : NextLaid(c, todo, k) => cursor = Place(c, k)

Told == pc = "failed" /\ error # "Block" => ~Opens(image)

Unwalked == todo = 1 /\ DOMAIN cfgs = {}

VerdictInv ==
  /\ pc \in {"idle", "head", "span", "split"} => Unwalked
  /\ image \in Content =>
    /\ Told
    /\ pc = "span" => first = image /\ parse(image.head) = "ok" /\ image.head.chksum
    /\ pc \in {"split", "cfgs", "open"} => sb = image /\ Header(image)
    /\ pc \in {"cfgs", "open"} => Entered(image)
    /\ pc = "cfgs" =>
         /\ "COMPR_CFGS" \in image.head.incompat /\ todo \in 1..(Len(Codecs) + 1)
         /\ Walked(image) /\ AtRecord(image)
    /\ pc = "open" =>
         IF "COMPR_CFGS" \in image.head.incompat
         THEN todo = Len(Codecs) + 1 /\ Walked(image) ELSE Unwalked

LEMMA CodecsFacts ==
  /\ Len(Codecs) = 4
  /\ Codecs[1] = "LZ4" /\ Codecs[2] = "LZMA" /\ Codecs[3] = "DEFLATE" /\ Codecs[4] = "ZSTD"
  BY DEF Codecs

LEMMA SawImage == image \in Content => Saw = {image}
  BY DEF Saw

LEMMA OpensSays ==
  ASSUME NEW c \in Content
  PROVE  Opens(c) <=>
           /\ Header(c) /\ Entered(c)
           /\ "COMPR_CFGS" \in c.head.incompat =>
                \A codec \in c.head.u1 : RecordFits(c, codec)
<1>1. parse(c.head) = "ok" <=>
        c.head.magic /\ c.head.blkszbits \in 9..16 /\ c.head.dirblkbits = 0
  BY DEF parse, MinBits, MaxBits
<1>2. check_incompat_features(c.head) <=>
        {"METABOX", "48BIT", "UNKNOWN"} \cap c.head.incompat = {}
  BY RecordAssumption DEF check_incompat_features, Supported
<1> QED BY <1>1, <1>2 DEF Opens, Header, Entered

LEMMA RecordsPlaced ==
  ASSUME NEW c \in Content, "COMPR_CFGS" \in c.head.incompat,
         NEW k \in 1..Len(Codecs), Codecs[k] \in c.head.u1
  PROVE  Place(c, k) \in DOMAIN c.blob /\ c.blob[Place(c, k)] = RecordOf(c, Codecs[k])
<1>1. Place(c, k) \in DOMAIN c.blob /\ c.blob[Place(c, k)].codec = Codecs[k]
  BY RecordAssumption DEF Place
<1> DEFINE S == {c.blob[at] : at \in DOMAIN c.blob}
<1>2. RecordOf(c, Codecs[k]) \in S /\ RecordOf(c, Codecs[k]).codec = Codecs[k]
  BY <1>1 DEF RecordOf
<1>3. PICK at \in DOMAIN c.blob : RecordOf(c, Codecs[k]) = c.blob[at]
  BY <1>2
<1>4. at = Place(c, k)
  BY <1>1, <1>2, <1>3, RecordAssumption
<1> QED BY <1>1, <1>3, <1>4

LEMMA VerdictStates ==
  /\ VerdictInv => VerdictIsTheImages
  /\ VerdictInv => CfgsFromOwnRecord
<1> SUFFICES ASSUME VerdictInv, image \in Content, pc \in {"open", "failed"}
             PROVE  /\ error # "Block" => (pc = "open" <=> Opens(image))
                    /\ pc = "open" => CfgsFromOwnRecord
  BY DEF VerdictIsTheImages, CfgsFromOwnRecord
<1>1. CASE pc = "failed"
  BY <1>1 DEF VerdictInv, Told
<1>2. CASE pc = "open" /\ "COMPR_CFGS" \in image.head.incompat
  <2>1. todo = 5 /\ Walked(image) /\ Header(image) /\ Entered(image)
    BY <1>2, CodecsFacts DEF VerdictInv
  <2>2. {Codecs[k] : k \in 1..(todo - 1)} \cap image.head.u1 = image.head.u1
    BY <1>2, <2>1, CodecsFacts, RecordAssumption
  <2>3. \A codec \in image.head.u1 : RecordFits(image, codec)
    BY <2>1, <2>2 DEF Walked
  <2>4. Opens(image)
    BY <2>1, <2>3, OpensSays
  <2>5. CfgsFromOwnRecord
    BY <2>1, <2>2 DEF Walked, CfgsFromOwnRecord
  <2> QED BY <1>2, <2>4, <2>5
<1>3. CASE pc = "open" /\ "COMPR_CFGS" \notin image.head.incompat
  <2>1. Unwalked /\ Header(image) /\ Entered(image)
    BY <1>3 DEF VerdictInv
  <2>2. Opens(image)
    BY <1>3, <2>1, OpensSays
  <2>3. CfgsFromOwnRecord
    BY <1>3, <2>1 DEF Unwalked, CfgsFromOwnRecord
  <2> QED BY <1>3, <2>2, <2>3
<1> QED BY <1>1, <1>2, <1>3

LEMMA VerdictRefused ==
  ASSUME VerdictInv, NEW e, Refuse(e),
         image \in Content => e = "Block" \/ ~Opens(image)
  PROVE  VerdictInv'
<1>1. pc' = "failed" /\ error' = e /\ image' = image /\ extras' = extras
  BY DEF Refuse, given
<1>2. Opens(image)' <=> Opens(image)
  BY <1>1 DEF Opens, RecordFits, RecordOf
<1> QED BY <1>1, <1>2 DEF VerdictInv, Told

LEMMA VerdictTook ==
  ASSUME VerdictInv, NEW c, NEW seen, Took(c, seen), pc \in {"head", "span"},
         image \in Content => c = image /\ Header(image)
  PROVE  VerdictInv'
<1>1. UNCHANGED <<image, extras, todo, cursor, cfgs, error>>
  BY DEF Took, given, walk
<1>2. Unwalked'
  BY <1>1 DEF VerdictInv, Unwalked
<1>3. pc' = "head" \/ (pc' = "split" /\ sb' = c)
  BY DEF Took
<1> QED BY <1>1, <1>2, <1>3 DEF VerdictInv, Told, Header

LEMMA InitVerdict == Init => VerdictInv
  BY NullAssumption DEF Init, VerdictInv, Unwalked

LEMMA HeadVerdict ==
  ASSUME VerdictInv, read_head PROVE VerdictInv'
<1>1. PICK c \in Saw :
        \/ parse(c.head) # "ok" /\ Refuse(parse(c.head))
        \/ parse(c.head) = "ok" /\ ~c.head.chksum /\ Took(c, NULL)
        \/ /\ parse(c.head) = "ok" /\ c.head.chksum
           /\ pc' = "span" /\ first' = c
           /\ UNCHANGED <<primary, sb, error>> /\ UNCHANGED walk /\ UNCHANGED given
  BY DEF read_head
<1>2. image \in Content => c = image
  BY SawImage
<1>3. CASE parse(c.head) # "ok" /\ Refuse(parse(c.head))
  <2>1. image \in Content => ~Opens(image)
    BY <1>2, <1>3, OpensSays DEF Header
  <2> QED BY <1>3, <2>1, VerdictRefused
<1>4. CASE parse(c.head) = "ok" /\ ~c.head.chksum /\ Took(c, NULL)
  <2>1. image \in Content => c = image /\ Header(image)
    BY <1>2, <1>4 DEF Header
  <2> QED BY <1>4, <2>1, VerdictTook DEF read_head
<1>5. CASE /\ parse(c.head) = "ok" /\ c.head.chksum
           /\ pc' = "span" /\ first' = c
           /\ UNCHANGED walk /\ UNCHANGED given
  BY <1>2, <1>5 DEF read_head, walk, given, VerdictInv, Told, Unwalked
<1> QED BY <1>1, <1>3, <1>4, <1>5

LEMMA SpanVerdict ==
  ASSUME VerdictInv, read_span PROVE VerdictInv'
<1>1. PICK c \in Saw :
        \/ parse(c.head) # "ok" /\ Refuse(parse(c.head))
        \/ parse(c.head) = "ok" /\ ~Verified(c) /\ Refuse("BadSuperblock")
        \/ parse(c.head) = "ok" /\ Verified(c) /\ Took(c, first)
  BY DEF read_span, Kept
<1>2. image \in Content => c = image /\ first = image /\ image.head.chksum
  BY SawImage DEF VerdictInv, read_span
<1>3. CASE parse(c.head) # "ok" /\ Refuse(parse(c.head))
  <2>1. image \in Content => ~Opens(image)
    BY <1>2, <1>3, OpensSays DEF Header
  <2> QED BY <1>3, <2>1, VerdictRefused
<1>4. CASE ~Verified(c) /\ Refuse("BadSuperblock")
  <2>1. image \in Content => ~image.summed
    BY <1>2, <1>4 DEF Verified
  <2>2. image \in Content => ~Opens(image)
    BY <1>2, <2>1, OpensSays DEF Header
  <2> QED BY <1>4, <2>2, VerdictRefused
<1>5. CASE parse(c.head) = "ok" /\ Verified(c) /\ Took(c, first)
  <2>1. image \in Content => c = image /\ Header(image)
    BY <1>2, <1>5 DEF Header, Verified
  <2> QED BY <1>5, <2>1, VerdictTook DEF read_span
<1> QED BY <1>1, <1>3, <1>4, <1>5

LEMMA SplitVerdict ==
  ASSUME VerdictInv, open_split PROVE VerdictInv'
<1>1. Unwalked /\ (image \in Content => sb = image /\ Header(image))
  BY DEF VerdictInv, open_split
<1>2. CASE /\ ~check_incompat_features(sb.head) \/ Len(extras) # sb.head.extra_devices
           /\ Refuse("BadSuperblock")
  <2>1. image \in Content => ~Opens(image)
    BY <1>1, <1>2, OpensSays DEF Entered
  <2> QED BY <1>2, <2>1, VerdictRefused
<1>3. CASE /\ check_incompat_features(sb.head) /\ Len(extras) = sb.head.extra_devices
           /\ pc' = IF "COMPR_CFGS" \in sb.head.incompat THEN "cfgs" ELSE "open"
           /\ cursor' = compr_cfgs_offset(sb.head)
           /\ UNCHANGED <<primary, first, sb, todo, cfgs, error>> /\ UNCHANGED given
  <2> SUFFICES ASSUME image \in Content PROVE VerdictInv'
    BY <1>3 DEF VerdictInv, given
  <2>1. image' = image /\ sb' = image /\ Header(image)' /\ Entered(image)' /\ Unwalked'
    BY <1>1, <1>3 DEF given, Header, Entered, Unwalked
  <2>2. CASE "COMPR_CFGS" \notin image.head.incompat
    BY <1>1, <1>3, <2>1, <2>2 DEF VerdictInv, Told
  <2>3. CASE "COMPR_CFGS" \in image.head.incompat
    <3>1. AtRecord(image)'
      BY <1>1, <1>3, <2>1, <2>3, RecordAssumption DEF AtRecord, Unwalked, NextLaid
    <3>2. Walked(image)'
      BY <2>1 DEF Walked, Unwalked
    <3> QED BY <1>1, <1>3, <2>1, <2>3, <3>1, <3>2, CodecsFacts
            DEF VerdictInv, Told, Unwalked
  <2> QED BY <2>2, <2>3
<1> QED BY <1>2, <1>3 DEF open_split

LEMMA SkipVerdict ==
  ASSUME VerdictInv, skip_codec PROVE VerdictInv'
<1> SUFFICES ASSUME image \in Content PROVE VerdictInv'
  BY DEF VerdictInv, skip_codec, given
<1>1. /\ sb = image /\ Header(image) /\ Entered(image) /\ Walked(image) /\ AtRecord(image)
      /\ "COMPR_CFGS" \in image.head.incompat /\ todo \in 1..4
      /\ Codecs[todo] \notin image.head.u1
  BY CodecsFacts DEF VerdictInv, skip_codec, Codec
<1>2. /\ pc = "cfgs" /\ pc' = "cfgs" /\ todo' = todo + 1
      /\ UNCHANGED <<image, extras, sb, cursor, cfgs, error>>
  BY DEF skip_codec, given
<1>3. Walked(image)'
  <2>1. {Codecs[k] : k \in 1..(todo' - 1)} \cap image.head.u1
          = {Codecs[k] : k \in 1..(todo - 1)} \cap image.head.u1
    BY <1>1, <1>2
  <2> QED BY <1>1, <1>2, <2>1 DEF Walked
<1>4. AtRecord(image)'
  <2>1. ASSUME NEW k \in 1..Len(Codecs), NextLaid(image, todo + 1, k)
        PROVE  NextLaid(image, todo, k)
    BY <1>1, <2>1, CodecsFacts DEF NextLaid
  <2> QED BY <1>1, <1>2, <2>1 DEF AtRecord, Place, NextLaid
<1>5. Header(image)' /\ Entered(image)' /\ Told'
  BY <1>1, <1>2 DEF Header, Entered, Told
<1> QED BY <1>1, <1>2, <1>3, <1>4, <1>5, CodecsFacts DEF VerdictInv

\* The record at the cursor is refused exactly when it is not one of its codec.
LEMMA RefusalSays ==
  ASSUME NEW c \in Content, "COMPR_CFGS" \in c.head.incompat,
         todo \in 1..Len(Codecs), Codec \in c.head.u1
  PROVE  Refusal(RecordOf(c, Codec)) = "ok" <=> RecordFits(c, Codec)
<1> DEFINE rec == RecordOf(c, Codec)
<1>1. rec.size \in Nat /\ rec.value.windowlog \in Nat
  BY RecordsPlaced, RecordAssumption DEF Codec
<1> HIDE DEF rec
<1>2. \A w \in Nat : w + 10 > ZstdMaxDictLog <=> ~(w \in 0..10)
  BY DEF ZstdMaxDictLog
<1>3. rec.value.windowlog + 10 > ZstdMaxDictLog <=> ~(rec.value.windowlog \in 0..10)
  BY <1>1, <1>2
<1>4. RecordFits(c, Codec) <=>
        /\ Codec = "LZMA" => rec.size >= 4
        /\ Codec = "ZSTD" =>
             rec.size >= 2 /\ rec.value.format = 0 /\ rec.value.windowlog \in 0..10
  BY DEF RecordFits, rec
<1>5. Refusal(rec) = "ok" <=>
        /\ ~(Codec = "LZMA" /\ rec.size < 4)
        /\ ~(Codec = "ZSTD" /\ rec.size < 2)
        /\ ~(Codec = "ZSTD" /\ rec.size >= 2
             /\ (rec.value.format # 0 \/ rec.value.windowlog + 10 > ZstdMaxDictLog))
  BY <1>1 DEF Refusal
<1>6. Refusal(rec) = "ok" <=> RecordFits(c, Codec)
  BY <1>1, <1>3, <1>4, <1>5
<1> QED BY <1>6 DEF rec

LEMMA OneVerdict ==
  ASSUME VerdictInv, read_one PROVE VerdictInv'
<1>1. PICK rec \in Records :
       \/ Refusal(rec) # "ok" /\ Refuse(Refusal(rec))
       \/ /\ Refusal(rec) = "ok"
          /\ todo' = todo + 1 /\ cursor' = Beyond(rec)
          /\ cfgs' = [codec \in DOMAIN cfgs \cup {Codec} |->
                        IF codec = Codec THEN Cfg(codec, rec) ELSE cfgs[codec]]
          /\ UNCHANGED <<pc, primary, first, sb, error>> /\ UNCHANGED given
  BY DEF read_one
<1> SUFFICES ASSUME image \in Content PROVE VerdictInv'
  BY <1>1 DEF VerdictInv, read_one, Refuse, given
<1>2. /\ sb = image /\ Header(image) /\ Entered(image) /\ Walked(image) /\ AtRecord(image)
      /\ "COMPR_CFGS" \in image.head.incompat /\ todo \in 1..4
      /\ Codec = Codecs[todo] /\ Codec \in image.head.u1 /\ pc = "cfgs"
  BY CodecsFacts DEF VerdictInv, read_one, Codec
<1>3. cursor = Place(image, todo)
  BY <1>2, CodecsFacts DEF AtRecord, NextLaid
<1> DEFINE laid == RecordOf(image, Codec)
<1>4. laid = image.blob[Place(image, todo)] /\ rec.size = laid.size /\ rec.value = laid.value
  <2>1. cursor \in DOMAIN image.blob /\ image.blob[cursor] = RecordOf(image, Codec)
    BY <1>2, <1>3, RecordsPlaced, CodecsFacts
  <2>2. \A r : (\E c \in Saw : r \in RecordsAt(c)) => r = laid
    BY <2>1, SawImage DEF RecordsAt
  <2> HIDE DEF laid
  <2>3. PICK r \in UNION {RecordsAt(c) : c \in Saw}, s \in UNION {RecordsAt(c) : c \in Saw} :
          rec = [size |-> r.size, value |-> s.value]
    BY DEF Records
  <2>4. r = laid /\ s = laid
    BY <2>2
  <2> QED BY <1>3, <2>1, <2>3, <2>4 DEF laid
<1>5. Refusal(rec) = "ok" <=> RecordFits(image, Codec)
  <2>1. Refusal(rec) = Refusal(laid)
    <3> HIDE DEF laid
    <3> QED BY <1>4 DEF Refusal
  <2> QED BY <1>2, <2>1, RefusalSays, CodecsFacts
<1>6. CASE Refusal(rec) # "ok" /\ Refuse(Refusal(rec))
  <2>1. ~Opens(image)
    BY <1>2, <1>5, <1>6, OpensSays
  <2> QED BY <1>6, <2>1, VerdictRefused
<1>7. CASE /\ Refusal(rec) = "ok"
           /\ todo' = todo + 1 /\ cursor' = Beyond(rec)
           /\ cfgs' = [codec \in DOMAIN cfgs \cup {Codec} |->
                         IF codec = Codec THEN Cfg(codec, rec) ELSE cfgs[codec]]
           /\ UNCHANGED <<pc, primary, first, sb, error>> /\ UNCHANGED given
  <2>1. UNCHANGED <<pc, image, extras, sb, error>>
    BY <1>7 DEF given
  <2>2. Walked(image)'
    <3>1. DOMAIN cfgs' = {Codecs[k] : k \in 1..(todo' - 1)} \cap image.head.u1
      <4>1. DOMAIN cfgs' = ({Codecs[k] : k \in 1..(todo - 1)} \cap image.head.u1) \cup {Codec}
        BY <1>2, <1>7 DEF Walked
      <4>2. {Codecs[k] : k \in 1..(todo' - 1)}
              = {Codecs[k] : k \in 1..(todo - 1)} \cup {Codec}
        BY <1>2, <1>7
      <4> QED BY <1>2, <4>1, <4>2
    <3>2. ASSUME NEW a \in DOMAIN cfgs'
          PROVE  RecordFits(image, a) /\ cfgs'[a] = Cfg(a, RecordOf(image, a))
      <4>1. CASE a = Codec
        <5>1. Cfg(a, rec) = Cfg(a, laid)
          BY <1>4 DEF Cfg
        <5> QED BY <1>4, <1>5, <1>7, <4>1, <5>1
      <4>2. CASE a # Codec
        <5>1. a \in DOMAIN cfgs /\ cfgs'[a] = cfgs[a]
          BY <1>7, <4>2
        <5> QED BY <1>2, <5>1 DEF Walked
      <4> QED BY <4>1, <4>2
    <3> QED BY <2>1, <3>1, <3>2 DEF Walked
  <2>3. AtRecord(image)'
    <3> SUFFICES ASSUME NEW k \in 1..Len(Codecs), NextLaid(image, todo + 1, k)
                 PROVE  cursor' = Place(image, k)
      BY <1>7, <2>1 DEF AtRecord, NextLaid, Place
    <3>1. Place(image, k) = Place(image, todo) + 2 + image.blob[Place(image, todo)].size
      BY <1>2, CodecsFacts, RecordAssumption
    <3> QED BY <1>3, <1>4, <1>7, <3>1 DEF Beyond, laid
  <2>4. Header(image)' /\ Entered(image)' /\ Told'
    BY <1>2, <2>1 DEF Header, Entered, Told
  <2> QED BY <1>2, <1>7, <2>1, <2>2, <2>3, <2>4, CodecsFacts DEF VerdictInv
<1> QED BY <1>1, <1>6, <1>7

LEMMA DoneVerdict ==
  ASSUME VerdictInv, cfgs_done PROVE VerdictInv'
<1> SUFFICES ASSUME image \in Content PROVE VerdictInv'
  BY DEF VerdictInv, cfgs_done, given
<1>1. /\ sb = image /\ Header(image) /\ Entered(image) /\ Walked(image)
      /\ "COMPR_CFGS" \in image.head.incompat /\ todo \in 1..5 /\ todo > 4
  BY CodecsFacts DEF VerdictInv, cfgs_done
<1>2. pc' = "open" /\ UNCHANGED <<image, extras, sb, todo, cursor, cfgs, error>>
  BY DEF cfgs_done, given, walk
<1>3. Walked(image)' /\ Header(image)' /\ Entered(image)' /\ Told'
  BY <1>1, <1>2 DEF Walked, Header, Entered, Told
<1> QED BY <1>1, <1>2, <1>3, CodecsFacts DEF VerdictInv

LEMMA NextVerdict == VerdictInv /\ [Next]_vars => VerdictInv'
<1> SUFFICES ASSUME VerdictInv, [Next]_vars PROVE VerdictInv'
  OBVIOUS
<1>1. CASE open_with_devices \/ open_with_cache
  <2>1. pc = "idle" /\ pc' = "head" /\ UNCHANGED walk
    BY <1>1 DEF open_with_devices, open_with_cache
  <2> QED BY <2>1 DEF VerdictInv, Told, Unwalked, walk
<1>2. CASE ReadFails
  BY <1>2, VerdictRefused DEF ReadFails
<1>3. CASE UNCHANGED vars
  <2>1. UNCHANGED <<pc, image, extras, first, sb, todo, cursor, cfgs, error>>
    BY <1>3 DEF vars
  <2>2. Opens(image)' = Opens(image)
    BY <2>1 DEF Opens
  <2>3. Unwalked' = Unwalked /\ Header(image)' = Header(image) /\ Entered(image)' = Entered(image)
    BY <2>1 DEF Unwalked, Header, Entered
  <2>4. Walked(image)' = Walked(image) /\ AtRecord(image)' = AtRecord(image)
    BY <2>1 DEF Walked, AtRecord
  <2> QED BY <2>1, <2>2, <2>3, <2>4 DEF VerdictInv, Told
<1> QED BY <1>1, <1>2, <1>3, HeadVerdict, SpanVerdict, SplitVerdict, SkipVerdict, OneVerdict,
     DoneVerdict DEF Next

(***************************************************************************)
(* Whatever an image holds, as long as it does not change and its device   *)
(* answers, opening it succeeds exactly when the image is one this reader  *)
(* reads (open_split, superblock::read, read_compr_cfgs).                  *)
(***************************************************************************)
THEOREM VerdictAlwaysTheImages == Spec => []VerdictIsTheImages
<1>1. VerdictInv => VerdictIsTheImages
  BY VerdictStates
<1> QED BY InitVerdict, NextVerdict, <1>1, PTL DEF Spec

(***************************************************************************)
(* Whichever codecs have a record, each codec's parameters are read from   *)
(* its own and no codec without one has any (read_compr_cfgs).             *)
(***************************************************************************)
THEOREM CfgsAlwaysOwn == Spec => []CfgsFromOwnRecord
<1>1. VerdictInv => CfgsFromOwnRecord
  BY VerdictStates
<1> QED BY InitVerdict, NextVerdict, <1>1, PTL DEF Spec
=============================================================================
