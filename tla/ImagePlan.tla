----------------------------- MODULE ImagePlan ------------------------------
(***************************************************************************)
(* The nodes of an image to build, and what src/src/mkfs.rs plan_body      *)
(* decides about each before anything has a place: the size of its inode,  *)
(* which trailers follow the inode, and what goes to the data area.        *)
(*                                                                         *)
(* A plan is the sequence that flatten makes of the tree, parents first.   *)
(* A node is a record with `kind`, `parent`, `ext` (an extended inode is   *)
(* needed) and `xattr` (bytes of its inline xattrs), and by kind:          *)
(*   file        len                                                       *)
(*   symlink     len                                                       *)
(*   dir         children, a set of [name, node]                           *)
(*   special     (devices, FIFOs and sockets: nothing but the inode)       *)
(*   chunked     bits, indexed, chunks: lengths, or Hole                   *)
(*   compressed  index (bytes of map header, padding and lcluster index),  *)
(*               len, blocks (of each pcluster), raw (bytes of the last    *)
(*               pcluster's frame), ztail                                  *)
(***************************************************************************)
EXTENDS DirBlock, FiniteSets

CONSTANT BlockSize
ASSUME ImagePlanAssumption ==
  /\ BlockSize \in {512, 1024, 2048, 4096, 8192, 16384, 32768, 65536}
  /\ DirBlockSize = BlockSize

Hole == -1

CompactSize  == 32
ExtendedSize == 64
CeilDiv(a, b) == (a + b - 1) \div b
CeilTo(a, b)  == CeilDiv(a, b) * b

\* The fields of a node, by its kind.
IsNode(n) ==
  /\ n.kind \in {"file", "symlink", "dir", "special", "chunked", "compressed"}
  /\ n.ext \in BOOLEAN /\ n.xattr \in Nat
  /\ n.kind \in {"file", "symlink", "compressed"} => n.len \in Nat
  /\ n.kind = "dir" => \A c \in n.children : c.name \in Seq(0..255)
  /\ n.kind = "chunked" =>
       n.bits \in Nat /\ n.indexed \in BOOLEAN /\ n.chunks \in Seq(Nat \cup {Hole})
  /\ n.kind = "compressed" =>
       n.index \in Nat \ {0} /\ n.raw \in Nat /\ n.ztail \in BOOLEAN /\ n.blocks \in Seq(Nat)

\* What flatten makes of a tree: the root first, a node after the directory
\* that holds it, siblings in the order of their names (a BTreeMap's).
IsFlattened(p) ==
  /\ p \in Seq({p[i] : i \in DOMAIN p}) /\ p # <<>>
  /\ \A i \in DOMAIN p : IsNode(p[i])
  /\ p[1].parent = 1
  /\ \A i \in 2..Len(p) : p[i].parent \in 1..(i - 1) /\ p[p[i].parent].kind = "dir"
  /\ \A i \in DOMAIN p : p[i].kind = "dir" =>
       /\ {c.node : c \in p[i].children} = {j \in 2..Len(p) : p[j].parent = i}
       /\ \A c, d \in p[i].children :
            /\ c.node < d.node <=> LexLess(c.name, d.name)
            /\ c # d => c.node # d.node

\* flatten refuses a child's name.
NamesRefused(n) ==
  n.kind = "dir" /\ \E c \in n.children : NameRefused(c.name)

BodySize(n) == IF n.ext THEN ExtendedSize ELSE CompactSize

\* A regular file is FLAT_INLINE when it fits a block behind its inode.
Inlined(n) ==
  /\ n.kind = "file"
  /\ n.len \in 1..(BlockSize - 1)
  /\ n.len =< BlockSize - (BodySize(n) + n.xattr)
TailBytes(n) == IF Inlined(n) THEN n.len ELSE 0

\* Chunked files.
ChunkSize(n) == BlockSize * 2^n.bits
EntrySize(n) == IF n.indexed THEN 8 ELSE 4
MapBytes(n)  == IF n.kind = "chunked" THEN Len(n.chunks) * EntrySize(n) ELSE 0
ChunksRefused(n) ==
  \E c \in DOMAIN n.chunks :
    /\ n.chunks[c] # Hole
    /\ \/ n.chunks[c] > ChunkSize(n)
       \/ c < Len(n.chunks) /\ n.chunks[c] # ChunkSize(n)
ChunkedSize(n) ==
  LET total[k \in 0..Len(n.chunks)] ==
        IF k = 0 THEN 0
        ELSE total[k - 1] + IF n.chunks[k] = Hole THEN ChunkSize(n) ELSE n.chunks[k]
  IN  total[Len(n.chunks)]

\* Compressed files: the last pcluster moves behind the index when it fits
\* there, and gives its blocks back.
TailPacked(n) ==
  /\ n.kind = "compressed"
  /\ n.ztail /\ n.blocks # <<>>
  /\ n.raw \in 1..65535
  /\ BodySize(n) + n.xattr + n.index + n.raw =< BlockSize
ZmapBytes(n) ==
  IF n.kind # "compressed" THEN 0
  ELSE n.index + IF TailPacked(n) THEN n.raw ELSE 0
PclusterBlocks(n) ==
  [p \in DOMAIN n.blocks |->
     IF p = Len(n.blocks) /\ TailPacked(n) THEN 0 ELSE n.blocks[p]]

\* plan_body refuses the node.
BodyRefused(n) == n.kind = "chunked" /\ ChunksRefused(n)

\* Seeded fault: the compressed trailer is left out of the span.
BodySpan_NoZmap(n) == BodySize(n) + n.xattr + TailBytes(n) + MapBytes(n)

\* body_span
BodySpan(n) ==
  BodySize(n) + n.xattr + TailBytes(n) + MapBytes(n) + ZmapBytes(n)

\* i_format's layout.
Layout(n) ==
  CASE Inlined(n)            -> "inline"
    [] n.kind = "chunked"    -> "chunked"
    [] n.kind = "compressed" -> "compressed"
    [] OTHER                 -> "plain"
=============================================================================
