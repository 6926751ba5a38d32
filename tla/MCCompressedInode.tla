-------------------------- MODULE MCCompressedInode --------------------------
(***************************************************************************)
(* Files by how they compress: n lclusters, of which those in `hard` do    *)
(* not compress, and of which at most `run` fit one frame; the last has    *)
(* `last` blocks and every pcluster `target`.                              *)
(***************************************************************************)
EXTENDS CompressedInode

SourceOf(f) ==
  [n |-> f.n, last |-> f.last, target |-> f.target,
   grows |-> {<<h, k>> \in (0 .. f.n - 1) \X (0 .. f.n - 1) :
                h < k /\ k - h < f.run /\ k \notin f.hard},
   shrinks |-> (0 .. f.n - 1) \ f.hard]

Sources(files) == [f \in files |-> SourceOf(f)]

\* Small files, and files long enough for a 2B pack with 4B packs around it,
\* for a delta[0] and for a block count that is refused.
MCFile ==
  [n : {0, 1, 3}, run : 1 .. 3, hard : SUBSET (0 .. 2), last : {1, 2}, target : {1, 2}] \cup
  [n : {18, 24}, run : {1, 3, 7, 24}, last : {1}, target : {1, 2},
   hard : {{}, {5, 6}, {17}, {k \in 0 .. 23 : k % 4 = 3}}]
MCSource == Sources(MCFile)

\* A compact index is for pclusters of one block (BIG_PCLUSTER is not written).
MCPlace ==
  [f \in MCFile |->
     ({"legacy"} \X {32, 48}) \cup
     (IF f.target = 1 THEN {"compact"} \X {32, 40, 44, 56} ELSE {})]
MCPlaceMisaligned == [f \in MCFile |-> {"legacy"} \X {44, 48}]

\* lclusterbits 1 on 4 KiB blocks: lclusters of 8 KiB.
MCFileWide == [n : {24}, run : {1, 2, 4}, hard : {{}}, last : {2}, target : {1}]
MCSourceWide == Sources(MCFileWide)
MCPlaceWide == [f \in MCFileWide |-> {"compact"} \X {40}]

\* A file of 12.5 MiB and one of 12 that one frame holds, in lclusters of 64 KiB.
MCFileLong == [n : {192, 200}, run : {200}, hard : {{}}, last : {1}, target : {1}]
MCSourceLong == Sources(MCFileLong)
MCPlaceLong == [f \in MCFileLong |-> {"legacy"} \X {32}]
=============================================================================
