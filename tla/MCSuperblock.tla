--------------------------- MODULE MCSuperblock ------------------------------
(***************************************************************************)
(* A device whose contents share one superblock but for a field or two:    *)
(* altered under the unaltered checksum, without the checksum's bit, with  *)
(* the other block size of the same span, with other records.              *)
(*                                                                         *)
(* With an image open its pclusters are decoded, by a codec and by the LZ4 *)
(* prefix decoder: each behaviour is an opening, a pcluster of Codecs or a *)
(* block of Lz4Prefix, as `subject` says.                                  *)
(***************************************************************************)
EXTENDS Superblock, TLC

H == [magic |-> TRUE, blkszbits |-> 11, dirblkbits |-> 0, chksum |-> TRUE,
      incompat |-> {"ZERO_PADDING", "COMPR_CFGS"}, u1 |-> {"LZ4", "LZMA", "DEFLATE", "ZSTD"},
      sb_extslots |-> 0, extra_devices |-> 0]

NoValue == [dict |-> 0, format |-> 0, windowlog |-> 0]
Rec(codec, size, value) == [codec |-> codec, size |-> size, value |-> value]

\* The records of the codecs in h.u1, one behind the other.
Laid(h, rec) ==
  LET place[k \in 0..4] ==
        IF k = 0 THEN [at |-> compr_cfgs_offset(h), blob |-> [p \in {} |-> NoValue]]
        ELSE LET before == place[k - 1]
                 codec == Codecs[k]
             IN IF codec \notin h.u1 THEN before
                ELSE [at |-> before.at + 2 + rec[codec].size,
                      blob |-> (before.at :> rec[codec]) @@ before.blob]
  IN place[4].blob

Usual == [codec \in {"LZ4", "LZMA", "DEFLATE", "ZSTD"} |->
            CASE codec = "LZ4" -> Rec(codec, 14, NoValue)
              [] codec = "LZMA" -> Rec(codec, 14, [NoValue EXCEPT !.dict = 4096])
              [] codec = "DEFLATE" -> Rec(codec, 6, NoValue)
              [] codec = "ZSTD" -> Rec(codec, 6, [NoValue EXCEPT !.windowlog = 10])]

Holds(h, summed, rec, slots) ==
  [head |-> h, summed |-> summed, blob |-> Laid(h, rec), slots |-> slots]

Heads ==
  {H, [H EXCEPT !.blkszbits = 10], [H EXCEPT !.blkszbits = 9], [H EXCEPT !.blkszbits = 8],
   [H EXCEPT !.chksum = FALSE], [H EXCEPT !.magic = FALSE], [H EXCEPT !.dirblkbits = 11],
   [H EXCEPT !.u1 = {"LZMA", "ZSTD"}, !.sb_extslots = 1],
   [H EXCEPT !.u1 = {"DEFLATE"}, !.incompat = {"METABOX", "COMPR_CFGS"}],
   [H EXCEPT !.incompat = {"COMPR_CFGS", "UNKNOWN"}],
   [H EXCEPT !.incompat = {"DEVICE_TABLE"}, !.extra_devices = 2]}

MCContent ==
  {Holds(h, summed, Usual, <<"b", "a">>) : h \in Heads, summed \in BOOLEAN}
  \cup {Holds(H, TRUE, [Usual EXCEPT ![r.codec] = r], <<>>) :
          r \in {Rec("LZ4", 0, NoValue), Rec("LZMA", 3, NoValue), Rec("LZMA", 4, NoValue), Rec("ZSTD", 1, NoValue),
                 Rec("ZSTD", 2, [NoValue EXCEPT !.windowlog = 11]),
                 Rec("ZSTD", 6, [NoValue EXCEPT !.format = 1])}}

MCGarbage == {Rec("none", 0, NoValue), Rec("none", 6, [NoValue EXCEPT !.windowlog = 3])}

MCExtras == {<<>>, <<"b">>, <<"b", "a">>, <<"a", "b">>, <<"b", "a", "b">>}
-----------------------------------------------------------------------------
(***************************************************************************)
(* Frames of up to four operations for each codec; matches of up to three  *)
(* bytes for LZMA's 273; lengths from one byte to more than any holds.     *)
(***************************************************************************)
MCOps == UNION {[1..n -> 1..3] : n \in 0..4}
MadeBy(algo, header, ops) ==
  [algo |-> algo, ops |-> ops, header |-> header, size |-> Len(ops), total |-> 4,
   sound |-> TRUE, zero_padding |-> TRUE, single |-> FALSE, exponent |-> 3, mantissa |-> 0]

MCFrame ==
  {MadeBy(algo, FALSE, ops) : algo \in {"LZ4", "LZMA", "DEFLATE"}, ops \in MCOps}
  \cup {MadeBy("LZMA", TRUE, ops) : ops \in MCOps}
  \cup {[MadeBy("ZSTD", FALSE, ops) EXCEPT !.single = s, !.exponent = e, !.mantissa = m] :
          ops \in MCOps, s \in BOOLEAN, e \in {3, 4}, m \in {0, 1}}
  \cup {[MadeBy(algo, header, <<2, 3>>) EXCEPT !.sound = s, !.zero_padding = z] :
          algo \in {"LZ4", "LZMA", "DEFLATE", "ZSTD"}, header \in BOOLEAN,
          s \in BOOLEAN, z \in BOOLEAN}

-----------------------------------------------------------------------------
(***************************************************************************)
(* Blocks encoded as the LZ4 format says, with nibbles of two bits and     *)
(* bytes of four: lengths below, at and above a nibble and a full byte     *)
(* behind it; matches that overlap themselves; blocks cut short or with an *)
(* offset out of reach.                                                    *)
(***************************************************************************)
Nibble == 3
ByteMax == 15
MinMatch == 4

\* A length as the format has it: in the nibble, or there and in bytes behind.
InNibble(n) == IF n < Nibble THEN n ELSE Nibble
Behind(n) ==
  IF n < Nibble THEN <<>>
  ELSE [k \in 1..((n - Nibble) \div ByteMax + 1) |->
          IF k <= (n - Nibble) \div ByteMax THEN ByteMax ELSE (n - Nibble) % ByteMax]

Literal(k) == (5 * k) % (ByteMax + 1)

\* A sequence: lits, and unless it is the last, match and offset.
Encoded(s) ==
  <<InNibble(s.lits) * (Nibble + 1) + (IF s.match = 0 THEN 0 ELSE InNibble(s.match - MinMatch))>>
  \o Behind(s.lits) \o [k \in 1..s.lits |-> Literal(k)]
  \o (IF s.match = 0 THEN <<>>
      ELSE <<s.offset % (ByteMax + 1), s.offset \div (ByteMax + 1)>> \o Behind(s.match - MinMatch))

\* A match repeats the `offset` bytes in front of it for as long as it is.
With(o, s) ==
  LET front == o \o [k \in 1..s.lits |-> Literal(k)]
  IN front \o [k \in 1..s.match |-> front[Len(front) - s.offset + 1 + ((k - 1) % s.offset)]]

Reach(o, s) == s.match = 0 \/ s.offset \in 1..(Len(o) + s.lits)
LitsOf(s) == [s EXCEPT !.match = 0]

\* Three sequences, the last of literals only, and what they hold.
BlockOf(s, t, last) ==
  LET bytes == Encoded(s) \o Encoded(t) \o Encoded(last)
      one == With(<<>>, s) two == With(one, t)
  IN [bytes |-> bytes, sound |-> Reach(<<>>, s) /\ Reach(one, t),
      holds |-> IF ~Reach(<<>>, s) THEN With(<<>>, LitsOf(s))
                ELSE IF ~Reach(one, t) THEN With(one, LitsOf(t)) ELSE With(two, last)]

Seqs(lits, matches, offsets) ==
  {[lits |-> l, match |-> m, offset |-> o] : l \in lits, m \in matches, o \in offsets}

Whole ==
  {BlockOf(s, t, [lits |-> n, match |-> 0, offset |-> 0]) :
     s \in Seqs({1, 3, 18}, {4, 6, 7, 22}, {0, 1, 2, 17}),
     t \in Seqs({0, 2, 4}, {4, 9}, {1, 3, 40}), n \in {0, 5}}

MCBlock ==
  Whole \cup {[b EXCEPT !.sound = FALSE, !.bytes = SubSeq(@, 1, Len(@) - cut)] :
                b \in Whole, cut \in {1, 4, 7}}
-----------------------------------------------------------------------------
VARIABLES subject,
  frame, asked, prefix, decoder, left, filled, misread, decoded,   \* of Codecs
  block, wanted, place, ip, token, output                          \* of Lz4Prefix

codec == <<frame, asked, prefix, decoder, left, filled, misread, decoded>>
lz4 == <<block, wanted, place, ip, token, output>>

D == INSTANCE Codecs WITH
  Frame <- MCFrame, Want <- 1..13, MatchLenMax <- 3, MaxDictSize <- 12,
  want <- asked, pc <- decoder, out <- decoded
P == INSTANCE Lz4Prefix WITH
  Block <- MCBlock, Want <- {0, 1, 3, 7, 11, 26, 50}, want <- wanted, pc <- place

ASSUME DecoderAssumption == D!CodecsAssumption /\ P!Lz4Assumption /\ P!ByteMax = ByteMax

\* What is not the subject stays as it is.
NoCodec ==
  /\ frame = MadeBy("LZ4", FALSE, <<>>) /\ asked = 1 /\ prefix = FALSE
  /\ decoder = "idle" /\ left = <<>> /\ filled = 0 /\ misread = FALSE /\ decoded = <<>>
NoBlock ==
  /\ block = [bytes |-> <<0>>, holds |-> <<>>, sound |-> TRUE] /\ wanted = 0
  /\ place = "literals" /\ ip = 0 /\ token = 0 /\ output = <<>>

OpenedInit ==
  \/ subject = "image" /\ Init /\ NoCodec /\ NoBlock
  \/ subject = "codec" /\ Init /\ D!Init /\ NoBlock
  \/ subject = "lz4" /\ Init /\ NoCodec /\ P!Init

OpenedNext ==
  \/ subject = "image" /\ Next /\ UNCHANGED <<subject, codec, lz4>>
  \/ subject = "codec" /\ D!Next /\ UNCHANGED <<subject, vars, lz4>>
  \/ subject = "lz4" /\ P!Next /\ UNCHANGED <<subject, vars, codec>>

OpenedSpec == OpenedInit /\ [][OpenedNext]_<<subject, vars, codec, lz4>>

\* What a frame holds is served by whichever of a codec's attempts finds it.
HeldIsServed == D!HeldIsServed

\* What comes out of an LZ4 block is what it stands for, cut to what was asked.
PrefixOfBlock == P!PrefixOfBlock
=============================================================================
