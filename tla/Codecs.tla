------------------------------- MODULE Codecs --------------------------------
(***************************************************************************)
(* decompress.rs: what is done with a pcluster's bytes and a length to     *)
(* decode, by codec, for an extent that is all of its pcluster and for one *)
(* that is only the start of it (a prefix).                                *)
(*                                                                         *)
(* The codec libraries are outside the repository: a frame is the lengths  *)
(* of the operations it decodes by, and a decoder gives the bytes up to    *)
(* the end of one of them or stops within one, as each library does.       *)
(***************************************************************************)
EXTENDS Integers, Sequences, SequencesExt, FiniteSetsExt

CONSTANTS
  Frame,        \* pclusters: what compressed them, and what they hold
  Want,         \* lengths to decode
  MatchLenMax,  \* LZMA_MATCH_LEN_MAX
  MaxDictSize   \* Z_EROFS_ZSTD_MAX_DICT_SIZE

CodecsAssumption ==
  /\ Want \subseteq Nat \ {0} /\ MatchLenMax \in Nat \ {0} /\ MaxDictSize \in Nat \ {0}
  /\ \A f \in Frame : f.algo \in {"LZ4", "LZMA", "DEFLATE", "ZSTD"}
                      /\ \A k \in DOMAIN f.ops : f.ops[k] \in 1..MatchLenMax

(***************************************************************************)
(* algo, ops; sound: it decodes; size and total: bytes of the frame and of *)
(* its pcluster; zero_padding: the superblock's feature bit; header: it    *)
(* begins with the 13-byte LZMA header of the builder's frames; single,    *)
(* exponent, mantissa: of a ZSTD frame's header.                           *)
(***************************************************************************)
VARIABLES
  frame, want, prefix,   \* the call
  pc,        \* "idle", "header", "lzma", "retry", "zstd", "spent", "ok", "failed"
  left,      \* sizes decompress_lzma_no_header has still to try
  filled,    \* bytes of the output the ZSTD decoder has given
  misread,   \* a decoder was given what is not a stream of its kind
  out

vars == <<frame, want, prefix, pc, left, filled, misread, out>>
call == <<frame, want, prefix>>
-----------------------------------------------------------------------------
\* Where the k-th operation of a frame ends in what it decodes to.
EndOf(f) == [k \in 0..Len(f.ops) |-> FoldLeft(+, 0, SubSeq(f.ops, 1, k))]
Holds(f) == EndOf(f)[Len(f.ops)]

\* Byte k of what a frame decodes to is k.
Decoded(n) == [k \in 1..n |-> k]

\* pad_pcluster_block: zeros in front of an LZ4 frame, behind the others.
LeadingPad(f) == IF f.algo = "LZ4" THEN f.total - f.size ELSE 0

Init ==
  /\ frame \in Frame /\ want \in Want /\ prefix \in BOOLEAN
  /\ pc = "idle" /\ left = <<>> /\ filled = 0 /\ misread = FALSE /\ out = <<>>

Fail == pc' = "failed" /\ UNCHANGED <<left, filled, misread, out>> /\ UNCHANGED call

Give(bytes) ==
  /\ pc' = "ok" /\ out' = bytes
  /\ UNCHANGED <<left, filled, misread>> /\ UNCHANGED call

Goto(where) == pc' = where /\ UNCHANGED <<left, filled, misread, out>> /\ UNCHANGED call

(***************************************************************************)
(* strip_leading_pad: with ZERO_PADDING the zeros in front of a frame are  *)
(* not its own, for no frame begins with one; without, they are.           *)
(***************************************************************************)
FirstByte(f) == IF f.zero_padding THEN LeadingPad(f) ELSE 0

AllZeros == frame.size = 0 /\ frame.zero_padding
Framed == pc = "idle" /\ ~AllZeros /\ FirstByte(frame) = LeadingPad(frame)

all_zeros == pc = "idle" /\ AllZeros /\ Fail

\* Pad taken for the frame: no telling what comes of it.
pad_misread ==
  /\ pc = "idle" /\ ~AllZeros /\ FirstByte(frame) # LeadingPad(frame)
  /\ misread' = TRUE
  /\ pc' = "failed" \/ pc' = "ok"
  /\ UNCHANGED <<left, filled, out>> /\ UNCHANGED call

\* A library finds that what it is given is no stream of its kind.
codec_fails ==
  /\ Framed \/ pc = "zstd"
  /\ ~frame.sound /\ frame.algo # "LZMA" /\ Fail

\* lz4_flex gives a block whole or refuses it; a prefix is decoded by lz4_decode_prefix.
decompress_lz4 ==
  /\ Framed /\ frame.algo = "LZ4"
  /\ IF (IF prefix THEN Holds(frame) >= want ELSE Holds(frame) = want)
     THEN Give(Decoded(want)) ELSE Fail

\* flate2 stops when the output is full, whatever is left.
decompress_deflate ==
  /\ Framed /\ frame.algo = "DEFLATE"
  /\ IF Holds(frame) >= want THEN Give(Decoded(want)) ELSE Fail

(***************************************************************************)
(* ZSTD: the window a frame asks for is looked at before there is a        *)
(* decoder; the output is filled by as many reads as it takes.             *)
(***************************************************************************)
zstd_window_size(f) ==
  IF f.single THEN Holds(f)
  ELSE LET base == 2 ^ f.exponent IN base + (base \div 8) * f.mantissa

Ceiling == IF MaxDictSize > want THEN MaxDictSize ELSE want

decompress_zstd ==
  /\ Framed /\ frame.algo = "ZSTD"
  /\ IF zstd_window_size(frame) > Ceiling THEN Fail ELSE Goto("zstd")

zstd_read ==
  /\ pc = "zstd" /\ filled < want
  /\ \/ Holds(frame) = filled /\ Fail
     \/ \E n \in 1..Min({want, Holds(frame)}) :
          /\ filled + n <= want /\ filled + n <= Holds(frame)
          /\ filled' = filled + n
          /\ UNCHANGED <<pc, left, misread, out>> /\ UNCHANGED call

\* One more byte tells whether the frame is spent; a prefix is not asked.
zstd_spent ==
  /\ pc = "zstd" /\ filled = want
  /\ IF prefix \/ Holds(frame) = want THEN Give(Decoded(want)) ELSE Fail

(***************************************************************************)
(* LZMA: the builder's frames carry a header with their length, those of   *)
(* mkfs.erofs do not.  The first is tried, with room for `want` bytes; if  *)
(* it fails, the second, whose decoder is told where to stop.              *)
(***************************************************************************)
decompress_lzma ==
  /\ Framed /\ frame.algo = "LZMA"
  /\ IF frame.sound /\ frame.header /\ Holds(frame) = want THEN Give(Decoded(want))
     ELSE /\ pc' = "lzma" /\ misread' = frame.header
          /\ UNCHANGED <<left, filled, out>> /\ UNCHANGED call

\* lzma_decode_to(n): the decoder runs to the end of the operation that reaches n.  It
\* gives n bytes, or all there are, or the error that names where that operation ends.
lzma_decode_to(n) ==
  LET reached == {e \in {EndOf(frame)[k] : k \in DOMAIN frame.ops} : e >= n}
  IN IF ~frame.sound THEN [ok |-> FALSE, len |-> 0]
     ELSE IF reached = {} THEN [ok |-> TRUE, len |-> Holds(frame)]
     ELSE [ok |-> Min(reached) = n, len |-> Min(reached)]

\* Its error's text is read, which may not succeed.
Hints == {<<>>} \cup {<<n>> : n \in {lzma_decode_to(want).len} \cap (want + 1)..(want + MatchLenMax)}

\* Seeded fault: only the size the error names is tried.
Candidates_Hint(hint) == hint

\* The size the error names, then all a match may reach.
Candidates(hint) == hint \o [k \in 1..MatchLenMax |-> want + k]

\* A header taken for a stream: no telling what comes of it.
misread_lzma ==
  /\ pc = "lzma" /\ misread
  /\ Fail \/ Give([k \in 1..want |-> 0])

decompress_lzma_no_header ==
  /\ pc = "lzma" /\ ~misread
  /\ LET first == lzma_decode_to(want)
     IN IF first.ok /\ first.len = want THEN Give(Decoded(want))
        ELSE IF ~prefix \/ first.ok THEN Fail
        ELSE /\ \E hint \in Hints : left' = Candidates(hint)
             /\ pc' = "retry"
             /\ UNCHANGED <<filled, misread, out>> /\ UNCHANGED call

lzma_retry ==
  /\ pc = "retry" /\ left # <<>>
  /\ LET again == lzma_decode_to(Head(left))
     IN IF again.ok /\ again.len = Head(left) THEN Give(SubSeq(Decoded(again.len), 1, want))
        ELSE /\ left' = Tail(left)
             /\ UNCHANGED <<pc, filled, misread, out>> /\ UNCHANGED call

lzma_gives_up == pc = "retry" /\ left = <<>> /\ Fail

Next ==
  \/ all_zeros \/ pad_misread \/ codec_fails
  \/ decompress_lz4 \/ decompress_deflate
  \/ decompress_zstd \/ zstd_read \/ zstd_spent
  \/ decompress_lzma \/ misread_lzma \/ decompress_lzma_no_header
  \/ lzma_retry \/ lzma_gives_up

Spec == Init /\ [][Next]_vars
-----------------------------------------------------------------------------
\* What is decoded are the first bytes of what the frame holds.  An extent is refused
\* only if its frame has not the bytes it claims, or, when it is to be all of the frame,
\* other bytes too; or asks for a window beyond the format's.  A frame that ends before
\* the output is full is always refused.
HeldIsServed ==
  /\ pc = "ok" /\ ~misread => out = Decoded(want) /\ Holds(frame) >= want
  /\ pc = "failed" /\ ~misread =>
       \/ ~frame.sound \/ AllZeros
       \/ Holds(frame) < want
       \/ ~prefix /\ Holds(frame) # want
       \/ frame.algo = "ZSTD" /\ zstd_window_size(frame) > MaxDictSize
=============================================================================
