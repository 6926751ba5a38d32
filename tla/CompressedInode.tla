--------------------------- MODULE CompressedInode ---------------------------
(***************************************************************************)
(* A compressed file from its lclusters to its extents: collated, placed   *)
(* and indexed by the writer (plan_body, the passes of build_image_with,   *)
(* encode_zmap_trailer), then looked up by the reader.                     *)
(***************************************************************************)
EXTENDS Collator, IndexReader

CONSTANTS
  Place,       \* Place[f]: the <<format, bodyEnd>> f's inode may have, the index form and
               \* where it goes
  FirstBlock   \* the block the file's data starts at

VARIABLE
  requested    \* ztailpacking is requested and the inode has the room

vars == <<collatorVars, disk, table, plan, requested, readerVars>>

ASSUME PlaceAssumption ==
  /\ LcSize = LcBlocks /\ FirstBlock \in Nat \ {0}
  /\ \A f \in File : Place[f] \subseteq ({"legacy", "compact"} \X Nat)

\* Where builder and reader agree.  No frame holds more than a pcluster can reach; the
\* inode ends where both look for a legacy index; a compact one is for pclusters of
\* one block and lclusters of 4 KiB or less, and counts back less than a marker does.
Agreed ==
  \A f \in File :
    /\ \A frame \in Source[f].grows : frame[2] - frame[1] < Reach
    /\ \A place \in Place[f] :
         /\ place[1] = "legacy" => place[2] % 8 = 0
         /\ place[1] = "compact" =>
              /\ Source[f].target = 1 /\ ZLcBits <= 12
              /\ \A frame \in Source[f].grows : frame[2] - frame[1] < Cblkcnt
-----------------------------------------------------------------------------
Init ==
  /\ CollatorInit /\ ReaderInit
  /\ disk = NoDisk /\ table = <<>> /\ plan = <<>>
  /\ requested \in BOOLEAN

Size == IF Src.n = 0 THEN 0 ELSE (Src.n - 1) * LcBlocks + Src.last

\* An inlined tail gives its data blocks back.
Stolen(pcs) ==
  IF requested /\ pcs # <<>> THEN [pcs EXCEPT ![Len(pcs)].blocks = 0] ELSE pcs

\* The block each pcluster is written to: after the blocks of those before it.
AddrsOf(pcs) ==
  LET at[k \in 0 .. Len(pcs)] == IF k = 0 THEN FirstBlock ELSE at[k - 1] + pcs[k].blocks IN at

TypeCode(type) == CASE type = "PLAIN" -> PLAIN [] type = "HEAD1" -> HEAD1 [] OTHER -> NONHEAD

\* The entries as they are encoded: a head with its pcluster's block.
Addressed(addrs) ==
  [k \in DOMAIN entries |->
     [type |-> TypeCode(entries[k].type), lo |-> entries[k].lo,
      addr |-> IF entries[k].type = "NONHEAD" THEN 0 ELSE addrs[entries[k].pc]]]

Emit(place) ==
  /\ st = "planned"
  /\ LET pcs == Stolen(pclusters)
         addrs == AddrsOf(pcs)
         end(p) == Lesser((pcs[p].head + pcs[p].n) * LcBlocks, Size)
         inode == [format |-> place[1], bodyEnd |-> place[2], n |-> Src.n, size |-> Size,
                   inline |-> pcs # pclusters,
                   index |-> IF place[1] = "legacy"
                             THEN EncodeLegacy(place[2], Addressed(addrs))
                             ELSE EncodeCompact(place[2], Addressed(addrs))]
     IN /\ pclusters' = pcs
        /\ total' = IF pcs = pclusters THEN total ELSE total - Target
        /\ disk' = inode
        /\ table' = TableOf(inode)
        /\ plan' = [p \in DOMAIN pcs |->
                      [start |-> pcs[p].head * LcBlocks, end |-> end(p),
                       addr |-> addrs[p - 1], type |-> TypeCode(pcs[p].type)]]
  /\ st' = "image"
  /\ UNCHANGED <<file, i, open, entries, requested, readerVars>>

Write ==
  \/ Collate /\ UNCHANGED <<disk, table, plan, requested, readerVars>>
  \/ \E place \in Place[file] : Emit(place)

Next == Write \/ (Read /\ UNCHANGED <<collatorVars, requested>>)

Spec == Init /\ [][Next]_vars
-----------------------------------------------------------------------------
\* The file's blocks, which its inode counts, end where the next file's begin.
BlocksAllotted ==
  st = "image" =>
    total = IF plan = <<>> THEN 0
            ELSE AddrsOf(pclusters)[Len(plan)] - FirstBlock

\* What the encoder writes at a slot is what the decoder reads there.
EncoderInvertsDecoder ==
  (st = "image" /\ rpc = "idle") =>
    \A k \in 0 .. Src.n - 1 :
      LET e == Entry(k)  put == entries[k + 1] IN
      /\ e.type = TypeCode(put.type)
      /\ put.type = "NONHEAD" => e.u = put.lo
      /\ put.type # "NONHEAD" => e.ofs = put.lo

\* The index says what was planned: its entries are read as written, every delta[0]
\* fits the field the planner has for it, and the blocks are those allotted.
IndexAsPlanned ==
  /\ EncoderInvertsDecoder /\ BlocksAllotted
  /\ \A k \in DOMAIN entries : entries[k].type = "NONHEAD" => entries[k].lo <= MaxDelta

\* The trailer fills what the planner set aside for it, or the next inode's slot would
\* hold its end ("inode emission did not fill its planned metadata span"), and the
\* reader takes the inlined tail from right behind it.
TrailerAsPlanned ==
  st = "image" =>
    /\ disk.bodyEnd + PlannedBytes(disk.format, disk.bodyEnd, Src.n) = WrittenEnd(disk)
    /\ disk.inline => tail_inline_offset(disk) = WrittenEnd(disk)

\* The first legacy entry is where it is documented to be, and where it is read.
LegacyIndexMet ==
  (st = "image" /\ disk.format = "legacy") =>
    LegacyReadStart(disk.bodyEnd) = LegacyStart(disk.bodyEnd)

\* "A pcluster covers at most MAX_PCLUSTER_SIZE bytes of the source": what a read of one
\* that covers more is refused for, and what no pass of the builder looks at.
PclustersWithinReach ==
  st = "image" => \A p \in DOMAIN plan : plan[p].end - plan[p].start <= MaxPcluster
=============================================================================
