------------------------------ MODULE Lz4Prefix ------------------------------
(***************************************************************************)
(* lz4_decode_prefix: an LZ4 block decoded until the output is full, a     *)
(* sequence of literals and a match at a time.  Every length and offset is *)
(* what bytes from the image say.                                          *)
(***************************************************************************)
EXTENDS Integers, Sequences, FiniteSetsExt

CONSTANTS
  Block,      \* inputs: [bytes, holds, sound]: what the block decodes to, or does
              \* before damage
  Want,       \* lengths to decode
  Nibble,     \* 15: a length that goes on in the bytes behind the token
  MinMatch    \* 4

Lz4Assumption ==
  /\ Want \subseteq Nat /\ Nibble \in Nat \ {0} /\ MinMatch \in Nat \ {0}

VARIABLES
  block, want,
  pc,       \* "literals", "match", "ok", "failed"
  ip,       \* bytes of the input taken
  token,    \* the sequence's, its match length still to come
  output

vars == <<block, want, pc, ip, token, output>>
-----------------------------------------------------------------------------
\* A byte is a number up to ByteMax, a token two nibbles.
ByteMax == (Nibble + 1) * (Nibble + 1) - 1

\* The byte behind the first i, and whether there are n of them.
Byte(i) == block.bytes[i + 1]
Has(i, n) == i + n <= Len(block.bytes)

\* Seeded fault: a byte of 255 ends a length, as any other does.
GoesOn_Never(b) == FALSE

\* A length goes on while its bytes are all ones.
GoesOn(b) == b = ByteMax

\* A length whose nibble is `len`, its bytes from i on: <<len, where it ends>>; <<>> when
\* the input runs out.
length(i, len) ==
  IF len # Nibble THEN <<len, i>>
  ELSE LET ends == {j \in 0..(Len(block.bytes) - i - 1) : ~GoesOn(Byte(i + j))}
       IN IF ends = {} THEN <<>>
          ELSE <<len + Min(ends) * ByteMax + Byte(i + Min(ends)), i + Min(ends) + 1>>

Init ==
  /\ block \in Block /\ want \in Want
  /\ pc = "literals" /\ ip = 0 /\ token = 0 /\ output = <<>>

Fail == pc' = "failed" /\ UNCHANGED <<block, want, ip, token, output>>

Smaller(a, b) == IF a < b THEN a ELSE b
Room == want - Len(output)

full ==
  /\ pc = "literals" /\ Room = 0
  /\ pc' = "ok" /\ UNCHANGED <<block, want, ip, token, output>>

\* All the sequence's literals must be there, however few of them are taken.
literals ==
  /\ pc = "literals" /\ Room > 0
  /\ IF ~Has(ip, 1) THEN Fail
     ELSE LET run == length(ip + 1, Byte(ip) \div (Nibble + 1))
          IN IF run = <<>> THEN Fail
             ELSE IF ~Has(run[2], run[1]) THEN Fail
             ELSE LET take == Smaller(run[1], Room)
                  IN /\ output' = output \o [k \in 1..take |-> Byte(run[2] + k - 1)]
                     /\ ip' = run[2] + run[1]
                     /\ token' = Byte(ip)
                     /\ pc' = IF take = Room THEN "ok" ELSE "match"
                     /\ UNCHANGED <<block, want>>

\* `take` bytes from `offset` back, those just copied among them.
Copied(offset, take) ==
  [k \in 1..take |-> output[Len(output) - offset + 1 + ((k - 1) % offset)]]

match ==
  /\ pc = "match"
  /\ IF ~Has(ip, 2) THEN Fail
     ELSE LET offset == Byte(ip) + (ByteMax + 1) * Byte(ip + 1)
              run == length(ip + 2, token % (Nibble + 1))
          IN IF offset = 0 \/ offset > Len(output) \/ run = <<>> THEN Fail
             ELSE /\ output' = output \o Copied(offset, Smaller(run[1] + MinMatch, Room))
                  /\ ip' = run[2]
                  /\ pc' = "literals"
                  /\ UNCHANGED <<block, want, token>>

Next == full \/ literals \/ match

Spec == Init /\ [][Next]_vars
-----------------------------------------------------------------------------
\* What is decoded at any moment are the first bytes of what the block decodes to, never
\* more than are wanted, and of a damaged block those before the damage; a block is
\* refused only if it is damaged or has fewer.
PrefixOfBlock ==
  /\ Len(output) <= want
  /\ Len(output) <= Len(block.holds) /\ output = SubSeq(block.holds, 1, Len(output))
  /\ pc = "ok" => Len(output) = want
  /\ pc = "failed" => ~block.sound \/ want > Len(block.holds)
=============================================================================
