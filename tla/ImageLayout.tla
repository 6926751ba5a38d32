---------------------------- MODULE ImageLayout -----------------------------
(***************************************************************************)
(* Building an image (src/src/mkfs.rs, build_image_with): the passes that  *)
(* give every inode, directory block and data block its place, and the     *)
(* emission that writes them there.                                        *)
(*                                                                         *)
(* The passes depend on each other's numbers.  A NID is an inode's place,  *)
(* and a directory's blocks hold the NIDs of its children, so metadata is  *)
(* placed before directories are encoded; the data area begins where the   *)
(* metadata ends; an inode is written last but must carry the addresses of *)
(* all of it.  Every later pass looks an earlier one's numbers up by NID.  *)
(***************************************************************************)
EXTENDS ImageReader

CONSTANTS Plans,        \* plans built
          BlobSizes,    \* <<bytes of COMPR_CFGS, bytes of the dictionary>>
          MaxBlocks     \* stands for u32::MAX

ASSUME ImageLayoutAssumption ==
  /\ DirentSize = 12
  /\ MaxBlocks \in Nat /\ NullAddr = MaxBlocks
  /\ BlobSizes \subseteq Nat \X Nat
  /\ \A p \in Plans : IsFlattened(p)

VARIABLES plan, blobs,
          pass,         \* the pass being run, "done" or "failed"
          at,           \* the node it is at
          slots,        \* meta_slots
          next,         \* next_data_block
          packed,       \* dir_blocks: NID -> the entries of each block
          blockOf,      \* dir_block_for_nid, data_block_for_nid
          addrsOf,      \* chunk_addrs_for_nid, pcluster_addrs_for_nid
          img,          \* the writes made, in order
          cause         \* why the build failed

vars == <<plan, blobs, pass, at, slots, next, packed, blockOf, addrsOf, img, cause>>
planned == <<plan, blobs, slots, packed, blockOf, addrsOf>>

\* A HashMap's insert.
Put(f, k, v) == [x \in DOMAIN f \cup {k} |-> IF x = k THEN v ELSE f[x]]

Node == plan[at]
SlotEnd(s) == s.start + s.span
Nid(i)     == slots[i].start \div CompactSize

Init ==
  /\ plan \in Plans
  /\ blobs \in BlobSizes
  /\ pass = "flatten" /\ at = 1
  /\ slots = <<>> /\ next = 0
  /\ packed = <<>> /\ blockOf = <<>> /\ addrsOf = <<>>
  /\ img = <<>> /\ cause = "none"

FailFor(c) == pass' = "failed" /\ cause' = c

\* One node of a pass is done; after the last comes the pass `p`.
Step(p) ==
  IF at < Len(plan) THEN at' = at + 1 /\ UNCHANGED pass
  ELSE at' = 1 /\ pass' = p

(***************************************************************************)
(* Passes 1 and 2.                                                         *)
(***************************************************************************)
\* The tree is walked into the plan; a name no directory may list ends it.
Flatten ==
  /\ pass = "flatten"
  /\ IF \E i \in DOMAIN plan : NamesRefused(plan[i])
     THEN FailFor("name")
     ELSE pass' = "bodies" /\ UNCHANGED cause
  /\ UNCHANGED <<planned, at, next, img>>

PlanBodies ==
  /\ pass = "bodies"
  /\ IF \E i \in DOMAIN plan : BodyRefused(plan[i])
     THEN FailFor("chunks")
     ELSE pass' = "metadata" /\ UNCHANGED cause
  /\ UNCHANGED <<planned, at, next, img>>

\* Seeded fault: an inode is placed on the slot its predecessor ends in.
SlotStart_Floor(from, span, trailers) ==
  LET cursor == (from \div CompactSize) * CompactSize IN
  IF trailers > 0 /\ (cursor % BlockSize) + span > BlockSize
  THEN CeilTo(cursor, BlockSize) ELSE cursor

\* Where an inode goes when the one before it ends at `from`.
SlotStart(from, span, trailers) ==
  LET cursor == CeilTo(from, CompactSize) IN
  IF trailers > 0 /\ (cursor % BlockSize) + span > BlockSize
  THEN CeilTo(cursor, BlockSize) ELSE cursor

\* plan_meta_layout
PlaceInode ==
  /\ pass = "metadata"
  /\ LET from == IF slots = <<>> THEN 0 ELSE SlotEnd(Last(slots))
         span == BodySpan(Node)
     IN  slots' = Append(slots,
                    [start |-> SlotStart(from, span, span - BodySize(Node)),
                     span  |-> span])
  /\ Step("directories")
  \* The data area starts past the metadata's last block.
  /\ next' = IF at < Len(plan) THEN next
             ELSE MetaBlkaddr
                  + CeilDiv(CeilTo(SlotEnd(Last(slots')), CompactSize), BlockSize)
  /\ UNCHANGED <<plan, blobs, packed, blockOf, addrsOf, img, cause>>

(***************************************************************************)
(* Passes 3 and 4: directory blocks, then data, each after the last.       *)
(***************************************************************************)
TypeByte(n) ==
  CASE n.kind = "dir" -> "dir"
    [] n.kind = "symlink" -> "symlink"
    [] n.kind = "special" -> "special"
    [] OTHER -> "file"

DirEntries(i) ==
  AllEntries(Nid(i), Nid(plan[i].parent),
    {[name |-> c.name, nid |-> Nid(c.node), ft |-> TypeByte(plan[c.node])] :
       c \in plan[i].children})

PlaceDirectory ==
  /\ pass = "directories"
  /\ LET entries == DirEntries(at) IN
     IF Node.kind # "dir"
     THEN Step("data") /\ UNCHANGED <<next, packed, blockOf, cause>>
     ELSE IF ~Packable(entries)
     THEN FailFor("entry") /\ UNCHANGED <<at, next, packed, blockOf>>
     ELSE /\ packed'  = Put(packed, Nid(at), Packing(entries))
          /\ blockOf' = Put(blockOf, Nid(at), next)
          /\ next' = next + Len(Packing(entries))
          /\ Step("data")
          /\ UNCHANGED cause
  /\ UNCHANGED <<plan, blobs, slots, addrsOf, img>>

\* Seeded fault: a chunk's last, partial block is not counted.
ChunkBlocks_Floor(len) == len \div BlockSize

\* Data blocks of a stored chunk.
ChunkBlocks(len) == IF len = 0 THEN 1 ELSE CeilDiv(len, BlockSize)

\* The addresses given to runs of blocks laid end to end, and where they end.
\* A hole is given the null address and no block.
Addresses(counts, from) ==
  LET past[k \in 0..Len(counts)] ==
        IF k = 0 THEN from
        ELSE past[k - 1] + IF counts[k] = Hole THEN 0 ELSE counts[k]
  IN  [addrs |-> [k \in DOMAIN counts |->
                    IF counts[k] = Hole THEN NullAddr ELSE past[k - 1]],
       end   |-> past[Len(counts)]]

\* The blocks of each part of a chunked or compressed file.
Parts(n) ==
  IF n.kind = "compressed" THEN PclusterBlocks(n)
  ELSE [c \in DOMAIN n.chunks |->
          IF n.chunks[c] = Hole THEN Hole ELSE ChunkBlocks(n.chunks[c])]

\* Some part would get an address that does not fit its field.
Unaddressable(parts, addrs) ==
  \E k \in DOMAIN addrs : parts[k] # Hole /\ addrs[k] > MaxBlocks

PlaceData ==
  /\ pass = "data"
  /\ \/ /\ Node.kind = "file"
        /\ blockOf' = Put(blockOf, Nid(at),
                          IF Inlined(Node) \/ Node.len = 0 THEN 0 ELSE next)
        /\ next' = IF Inlined(Node) THEN next ELSE next + CeilDiv(Node.len, BlockSize)
        /\ Step("size") /\ UNCHANGED <<addrsOf, cause>>
     \/ /\ Node.kind = "symlink" /\ Node.len > BlockSize
        /\ FailFor("symlink") /\ UNCHANGED <<at, next, blockOf, addrsOf>>
     \/ /\ Node.kind = "symlink" /\ Node.len =< BlockSize
        /\ blockOf' = Put(blockOf, Nid(at), next)
        /\ next' = next + 1
        /\ Step("size") /\ UNCHANGED <<addrsOf, cause>>
     \/ /\ Node.kind \in {"chunked", "compressed"}
        /\ LET given == Addresses(Parts(Node), next) IN
           IF Unaddressable(Parts(Node), given.addrs)
           THEN FailFor("blocks") /\ UNCHANGED <<at, next, addrsOf>>
           ELSE /\ addrsOf' = Put(addrsOf, Nid(at), given.addrs)
                /\ next' = given.end
                /\ Step("size") /\ UNCHANGED cause
        /\ UNCHANGED blockOf
     \/ /\ Node.kind \in {"dir", "special"}
        /\ Step("size") /\ UNCHANGED <<next, blockOf, addrsOf, cause>>
  /\ UNCHANGED <<plan, blobs, slots, packed, img>>

TooLarge(blocks) == blocks > MaxBlocks

SizeImage ==
  /\ pass = "size"
  /\ IF next < 2 \/ TooLarge(next)
     THEN FailFor("blocks") ELSE pass' = "gap" /\ UNCHANGED cause
  /\ UNCHANGED <<planned, at, next, img>>

(***************************************************************************)
(* Pass 5: what lies between the superblock and the metadata.              *)
(***************************************************************************)
Write(off, len, what) == [off |-> off, len |-> len, what |-> what]

\* Those of the writes that write something, in order.
Filled(writes) ==
  LET upto[k \in 0..Len(writes)] ==
        IF k = 0 THEN <<>>
        ELSE IF writes[k].len > 0 THEN Append(upto[k - 1], writes[k])
        ELSE upto[k - 1]
  IN  upto[Len(writes)]

\* The block that holds the superblock, from the superblock on, is what its
\* checksum covers.  At 1 KiB and below there is no checksum.
ChecksumEnd == SuperOffset + BlockSize - (SuperOffset % BlockSize)
HasChecksum == BlockSize > 1024
Super == Write(SuperOffset, 128, [kind |-> "super"])
Cfgs  == Write(SuperEnd, blobs[1], [kind |-> "cfgs"])
Dict  == Write(CeilTo(SuperEnd + blobs[1], 4), blobs[2], [kind |-> "dict"])

\* Seeded fault: the superblock is sealed before the blobs are written.
GapWrites_SuperFirst ==
  Filled(<<Super, Cfgs, Dict>>)

GapWrites == Filled(<<Cfgs, Dict, Super>>)

WriteGap ==
  /\ pass = "gap"
  /\ IF \E w \in {Cfgs, Dict} : w.len > 0 /\ w.off + w.len > MetaBase
     THEN FailFor("blobs") /\ UNCHANGED img
     ELSE /\ img' = img \o GapWrites
          /\ pass' = "inodes" /\ UNCHANGED cause
  /\ UNCHANGED <<planned, at, next>>

(***************************************************************************)
(* Emission: the inodes with their trailers, directory blocks, data.       *)
(***************************************************************************)
\* i_size, and the union i_u where it is an address.
FileSize(i) ==
  CASE plan[i].kind = "dir"     -> Len(packed[Nid(i)]) * BlockSize
    [] plan[i].kind = "chunked" -> ChunkedSize(plan[i])
    [] plan[i].kind = "special" -> 0
    [] OTHER                    -> plan[i].len
RawU(i) ==
  IF plan[i].kind \in {"dir", "symlink", "file"} /\ Layout(plan[i]) = "plain"
  THEN blockOf[Nid(i)] ELSE 0

\* encode_inode, as the fields the reader parses; i_u also carries a chunked
\* file's format.
EncodeInode(i) ==
  LET n == plan[i] IN
  [kind |-> "inode", node |-> i, nid |-> Nid(i), ext |-> n.ext,
   xattr |-> n.xattr, layout |-> Layout(n), size |-> FileSize(i),
   rawU |-> RawU(i),
   bits |-> IF n.kind = "chunked" THEN n.bits ELSE 0,
   indexed |-> n.kind = "chunked" /\ n.indexed]

\* The inode and what may follow it, as <<bytes, content>>, in order: 0 bytes for
\* what its kind has not got.
Emitted(i) ==
  LET n == plan[i]
      none == <<0, [kind |-> "none"]>>
  IN <<<<BodySize(n), EncodeInode(i)>>,
       <<n.xattr, [kind |-> "xattr", node |-> i]>>,
       <<TailBytes(n), [kind |-> "data", node |-> i, part |-> 1]>>,
       IF n.kind # "chunked" THEN none ELSE
         <<Len(addrsOf[Nid(i)]) * EntrySize(n),
           [kind |-> "chunkmap", node |-> i, addrs |-> addrsOf[Nid(i)],
            stride |-> EntrySize(n)]>>,
       IF n.kind # "compressed" THEN none ELSE
         <<ZmapBytes(n), [kind |-> "zmap", node |-> i, addrs |-> addrsOf[Nid(i)]]>>>>

\* Parts laid end to end from `from`.
Laid(parts, from) ==
  LET past[k \in 0..Len(parts)] ==
        IF k = 0 THEN from ELSE past[k - 1] + parts[k][1]
  IN  [writes |-> [k \in DOMAIN parts |-> Write(past[k - 1], parts[k][1], parts[k][2])],
       end    |-> past[Len(parts)]]

EmitInode ==
  /\ pass = "inodes"
  /\ LET laid == Laid(Emitted(at), MetaBase + slots[at].start) IN
     /\ img' = img \o Filled(laid.writes)
     /\ IF laid.end # MetaBase + SlotEnd(slots[at])
        THEN FailFor("emission") /\ UNCHANGED at
        ELSE Step("dirblocks") /\ UNCHANGED cause
  /\ UNCHANGED <<planned, next>>

EmitDirectory ==
  /\ pass = "dirblocks"
  /\ img' = IF Node.kind # "dir" THEN img
            ELSE img \o [k \in DOMAIN packed[Nid(at)] |->
                   Write((blockOf[Nid(at)] + k - 1) * BlockSize, BlockSize,
                         [kind |-> "dirblock", node |-> at, part |-> k,
                          entries |-> packed[Nid(at)][k]])]
  /\ Step("filedata")
  /\ UNCHANGED <<planned, next, cause>>

\* The bytes of each part of a file's data that goes to the data area.
StoredParts(n) ==
  CASE n.kind = "file" /\ ~Inlined(n) -> <<n.len>>
    [] n.kind = "symlink"             -> <<n.len>>
    [] n.kind = "chunked"             -> n.chunks
    [] n.kind = "compressed" ->
         [p \in DOMAIN n.blocks |-> PclusterBlocks(n)[p] * BlockSize]
    [] OTHER                          -> <<>>
StoredAt(i, p) ==
  IF plan[i].kind \in {"chunked", "compressed"} THEN addrsOf[Nid(i)][p]
  ELSE blockOf[Nid(i)]

EmitData ==
  /\ pass = "filedata"
  /\ LET parts == StoredParts(Node) IN
     img' = img \o Filled(
       [p \in DOMAIN parts |->
          Write(StoredAt(at, p) * BlockSize, parts[p],
                [kind |-> "data", node |-> at, part |-> p])])
  /\ Step("done")
  /\ UNCHANGED <<planned, next, cause>>

Next ==
  \/ Flatten \/ PlanBodies \/ PlaceInode \/ PlaceDirectory \/ PlaceData
  \/ SizeImage \/ WriteGap \/ EmitInode \/ EmitDirectory \/ EmitData

Spec == Init /\ [][Next]_vars

Smaller(a, b) == IF a < b THEN a ELSE b

(***************************************************************************)
(* Properties.                                                             *)
(***************************************************************************)
ImageSize == next * BlockSize

\* No write touches a byte that another wrote, the superblock's included,
\* and none leaves the image (it would be an index out of range).
WritesApart ==
  \A k \in DOMAIN img :
    /\ img[k].off + img[k].len =< ImageSize
    /\ \A j \in 1..(k - 1) :
         ~Overlap(img[j].off, img[j].len, img[k].off, img[k].len)

\* What the superblock's checksum covers is final when it is computed.
ChecksumHolds ==
  HasChecksum =>
    \A k \in DOMAIN img : \A j \in (k + 1)..Len(img) :
      img[k].what.kind = "super" =>
        ~Overlap(img[j].off, img[j].len, SuperOffset, ChecksumEnd - SuperOffset)

\* What block b (from 0) of node i should read as.
Stored(i, b) ==
  LET n == plan[i]
      c == IF n.kind = "chunked" THEN b \div 2^n.bits ELSE 0
      data(part) == [kind |-> "data", node |-> i, part |-> part]
  IN
  CASE n.kind = "dir" ->
         <<[kind |-> "dirblock", node |-> i, part |-> b + 1,
            entries |-> packed[Nid(i)][b + 1]], 0>>
    [] n.kind = "chunked" ->
         IF n.chunks[c + 1] = Hole THEN <<"hole">>
         ELSE <<data(c + 1), (b % 2^n.bits) * BlockSize>>
    [] OTHER -> <<data(1), b * BlockSize>>

\* The NIDs written into directories, before any inode was, are those of the
\* inodes they name.
NamesLead ==
  pass = "done" =>
    \A k \in DOMAIN img : img[k].what.kind = "dirblock" =>
      \A e \in ToSet(img[k].what.entries) :
        LET i == img[k].what.node
            w == InodeAt(img, ImageSize, e.nid)
        IN  /\ w # <<"lost">> /\ w[1].kind = "inode"
            /\ \/ e.name = DotName /\ w[1].node = i
               \/ e.name = DotDotName /\ w[1].node = plan[i].parent
               \/ \E c \in plan[i].children : c.name = e.name /\ c.node = w[1].node

\* An inlined tail is within one block (mkfs.rs:1978-1980).
TailInOneBlock ==
  \A i \in DOMAIN slots :
    Inlined(plan[i]) =>
      slots[i].start \div BlockSize = (SlotEnd(slots[i]) - 1) \div BlockSize

\* From its NID the reader finds every node, and every block of its data:
\* through i_u, behind the inode, or through the chunk map, whose addresses fit
\* their fields; and so it does from the NIDs the directories hold.
ReaderFinds ==
  /\ TailInOneBlock /\ NamesLead
  /\ \A nid \in DOMAIN addrsOf : \A k \in DOMAIN addrsOf[nid] : addrsOf[nid][k] <= MaxBlocks
  /\ pass = "done" =>
    \A i \in DOMAIN plan :
      LET w == InodeAt(img, ImageSize, Nid(i)) IN
      /\ w = <<EncodeInode(i), 0>>
      /\ w[1].layout # "compressed" =>
           \A b \in 0..(CeilDiv(w[1].size, BlockSize) - 1) :
             BlockAt(img, w[1], b, Smaller(w[1].size - b * BlockSize, BlockSize))
               = Stored(i, b)
      /\ w[1].layout = "compressed" =>
           /\ At(img, BodyEnd(w[1]), plan[i].index)
                = <<[kind |-> "zmap", node |-> i, addrs |-> addrsOf[Nid(i)]], 0>>
           /\ \A p \in DOMAIN plan[i].blocks :
                PclusterBlocks(plan[i])[p] > 0 =>
                  At(img, addrsOf[Nid(i)][p] * BlockSize,
                     PclusterBlocks(plan[i])[p] * BlockSize)
                    = <<[kind |-> "data", node |-> i, part |-> p], 0>>

\* A build fails only for what the tree or the options ask; the emission
\* never disagrees with the plan.
FailsForCause ==
  pass = "failed" =>
    \/ \E i \in DOMAIN plan :
         \/ plan[i].kind = "symlink" /\ plan[i].len > BlockSize
         \/ plan[i].kind = "chunked" /\ ChunksRefused(plan[i])
         \/ plan[i].kind = "dir"
              /\ \E c \in plan[i].children :
                   NameRefused(c.name) \/ Len(c.name) > BlockSize - DirentSize
    \/ blobs[1] + blobs[2] + 3 > MetaBase - SuperEnd
    \/ next > MaxBlocks
    \/ Node.kind \in {"chunked", "compressed"}
         /\ Addresses(Parts(Node), next).end > MaxBlocks
=============================================================================
