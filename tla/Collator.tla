------------------------------ MODULE Collator ------------------------------
(***************************************************************************)
(* The writer's greedy collation of logical clusters into pclusters        *)
(* (plan_compressed_pclusters_with_cfg), one iteration of its loop a step. *)
(*                                                                         *)
(* What the codec makes of a run of lclusters is given with the file:      *)
(* Src.grows holds the <<head, i>> whose trial frame, from head through i, *)
(* fits the budget and is shorter than its source; Src.shrinks holds the   *)
(* lclusters whose frame alone does.                                       *)
(***************************************************************************)
EXTENDS Integers, Sequences

CONSTANTS
  File,        \* files to build
  Source,      \* Source[f]: [n, last, target, grows, shrinks], last: blocks of the last
               \* lcluster, target: target_pcluster_blocks
  LcBlocks,    \* blocks of every other lcluster: 2^lclusterbits
  MaxDelta,    \* the largest delta[0] the planner accepts
  MaxBlocks    \* the largest block count: u32::MAX

VARIABLES
  file,
  st,          \* "collate", "planned", "failed"; "image" once written
  i,           \* the next lcluster
  open,        \* the open pcluster [head, n]; none when n is 0
  pclusters,   \* committed pclusters [type, head, n, blocks]
  entries,     \* one index entry [type, lo, pc] per lcluster, pc from 0
  total        \* blocks of the committed pclusters

collatorVars == <<file, st, i, open, pclusters, entries, total>>

ASSUME CollatorAssumption ==
  /\ \A f \in File : /\ Source[f].n \in Nat /\ Source[f].last \in 1 .. LcBlocks
                     /\ Source[f].target \in Nat \ {0}
  /\ LcBlocks \in Nat \ {0}
  /\ MaxDelta \in Nat /\ MaxDelta < 65536 /\ MaxBlocks \in Nat
-----------------------------------------------------------------------------
Src == Source[file]

\* The blocks of every pcluster of the file.
Target == Src.target

IsOpen == open.n > 0
NoneOpen == [head |-> 0, n |-> 0]

\* The blocks of lcluster k's source bytes.
ChunkBlocks(k) == IF k = Src.n - 1 THEN Src.last ELSE LcBlocks

Pcluster(type, head, n) == [type |-> type, head |-> head, n |-> n, blocks |-> Target]

\* Seeded fault: closing drops the open pcluster.
Closed_Dropped == pclusters

\* The committed pclusters once the open one is closed.
Closed == IF IsOpen THEN Append(pclusters, Pcluster("HEAD1", open.head, open.n)) ELSE pclusters

\* The blocks of Closed.
ClosedTotal == IF IsOpen THEN total + Target ELSE total

Delta == i - open.head

\* Seeded fault: an entry names the first pcluster.
OwnerOfAbsorbed_First == 0

\* The pcluster the open one will be once committed.
OwnerOfAbsorbed == Len(pclusters)

Collating == st = "collate" /\ i < Src.n
Grows == IsOpen /\ <<open.head, i>> \in Src.grows

Failed == st' = "failed" /\ UNCHANGED <<file, i, open, pclusters, entries, total>>

Reachable == Delta <= MaxDelta

\* The lcluster joins the open pcluster.
Absorb ==
  /\ Collating /\ Grows /\ Reachable
  /\ open' = [head |-> open.head, n |-> open.n + 1]
  /\ entries' = Append(entries, [type |-> "NONHEAD", lo |-> Delta, pc |-> OwnerOfAbsorbed])
  /\ i' = i + 1
  /\ UNCHANGED <<file, st, pclusters, total>>

TooFar == Collating /\ Grows /\ ~Reachable /\ Failed

\* The lcluster heads a pcluster of its own, which stays open.
StartHead ==
  /\ Collating /\ ~Grows /\ i \in Src.shrinks /\ ClosedTotal <= MaxBlocks
  /\ pclusters' = Closed
  /\ total' = ClosedTotal
  /\ entries' = Append(entries, [type |-> "HEAD1", lo |-> 0, pc |-> Len(Closed)])
  /\ open' = [head |-> i, n |-> 1]
  /\ i' = i + 1
  /\ UNCHANGED <<file, st>>

\* The lcluster does not compress: a PLAIN pcluster, committed at once.
StartPlain ==
  /\ Collating /\ ~Grows /\ i \notin Src.shrinks /\ ChunkBlocks(i) <= Target
  /\ ClosedTotal + Target <= MaxBlocks
  /\ pclusters' = Append(Closed, Pcluster("PLAIN", i, 1))
  /\ total' = ClosedTotal + Target
  /\ entries' = Append(entries, [type |-> "PLAIN", lo |-> 0, pc |-> Len(Closed)])
  /\ open' = NoneOpen
  /\ i' = i + 1
  /\ UNCHANGED <<file, st>>

\* pad_pcluster_block refuses a payload longer than the pcluster's blocks.
PlainTooLong ==
  Collating /\ ~Grows /\ i \notin Src.shrinks /\ ChunkBlocks(i) > Target /\ Failed

BlocksOverflow ==
  /\ st = "collate" /\ ~(Collating /\ Grows)
  /\ \/ ClosedTotal > MaxBlocks
     \/ Collating /\ i \notin Src.shrinks /\ ClosedTotal + Target > MaxBlocks
  /\ Failed

Finish ==
  /\ st = "collate" /\ i = Src.n /\ ClosedTotal <= MaxBlocks
  /\ pclusters' = Closed
  /\ total' = ClosedTotal
  /\ open' = NoneOpen
  /\ st' = "planned"
  /\ UNCHANGED <<file, i, entries>>

CollatorInit ==
  /\ file \in File
  /\ st = "collate" /\ i = 0 /\ total = 0
  /\ open = NoneOpen
  /\ pclusters = <<>> /\ entries = <<>>

Collate ==
  \/ Absorb \/ TooFar \/ StartHead \/ StartPlain \/ PlainTooLong \/ BlocksOverflow \/ Finish
-----------------------------------------------------------------------------
\* Every variable has its type.
CollatorTypeOK ==
  /\ file \in File
  /\ st \in {"collate", "planned", "failed", "image"}
  /\ i \in 0 .. Src.n
  /\ open \in [head : Nat, n : Nat]
  /\ pclusters \in Seq([type : {"HEAD1", "PLAIN"}, head : Nat, n : Nat \ {0}, blocks : Nat])
  /\ entries \in Seq([type : {"HEAD1", "PLAIN", "NONHEAD"}, lo : 0 .. MaxDelta, pc : Nat])
  /\ Len(entries) = i
  /\ total \in Nat

\* all[1], all[2], ... tile the lclusters 0 .. upto - 1.
Tile(all, upto) ==
  /\ all = <<>> => upto = 0
  /\ all # <<>> => all[1].head = 0 /\ all[Len(all)].head + all[Len(all)].n = upto
  /\ \A k \in 1 .. Len(all) - 1 : all[k + 1].head = all[k].head + all[k].n

\* The entry e of lcluster k leads to the pcluster p, which holds k.
Leads(e, k, p) ==
  /\ p.head <= k /\ k < p.head + p.n
  /\ e.type = "NONHEAD" => e.lo = k - p.head /\ k > p.head /\ p.type = "HEAD1"
  /\ e.type # "NONHEAD" => k = p.head /\ e.type = p.type /\ e.lo = 0

\* The pclusters, the open one last, tile the lclusters taken so far: each
\* begins where the one before it ended, and the last ends at i.
PclustersTile == Tile(Closed, i)

\* Every index entry leads to the pcluster that holds its lcluster: a HEAD1 or
\* PLAIN entry is its first, and a NONHEAD's delta[0] counts back to its head.
EntriesLeadHome ==
  \A k \in 0 .. i - 1 :
    LET e == entries[k + 1] IN
    e.pc \in 0 .. Len(Closed) - 1 /\ Leads(e, k, Closed[e.pc + 1])

\* The block count is what the committed pclusters occupy (a part of the
\* inductive invariant; BlocksAllotted is what it is for).
BlocksCounted == st # "image" => total = Target * Len(pclusters)
=============================================================================
