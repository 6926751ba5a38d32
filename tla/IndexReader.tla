----------------------------- MODULE IndexReader -----------------------------
(***************************************************************************)
(* ZMap::pcluster_extent over a written index: from a file offset back to  *)
(* the head of the pcluster that holds it, and forward to the next head.   *)
(* One step is one iteration of one of its loops.                          *)
(*                                                                         *)
(* Offsets and sizes count in a unit of which an lcluster has LcSize.      *)
(***************************************************************************)
EXTENDS IndexCodec

CONSTANTS
  LcSize,        \* units in an lcluster
  MaxPcluster    \* MAX_PCLUSTER_SIZE in units

VARIABLES
  disk,      \* the inode: [format, bodyEnd, n, size, inline, index]
  table,     \* what read_lcluster makes of disk.index, which does not change
  plan,      \* what the writer put there: extents [start, end, addr, type]
  rpc,       \* "idle", "seek", "scan", "done"
  want,      \* the file offset asked for
  lc, inlc,  \* lcluster_idx and in_lcluster of the walk back
  head,      \* [at, type, ofs, u]: the head found
  scan,      \* the next lcluster of the walk forward
  ans        \* [start, end, addr, type, last], or NoAnswer

readerVars == <<rpc, want, lc, inlc, head, scan, ans>>

ASSUME ReaderAssumption == LcSize \in Nat \ {0} /\ MaxPcluster \in Nat /\ ZLcBits \in Nat

NoAnswer == [start |-> 0, end |-> 0, addr |-> 0, type |-> -1, last |-> FALSE]
NoHead == [at |-> 0, type |-> -1, ofs |-> 0, u |-> 0]
NoDisk == [format |-> "none", bodyEnd |-> 0, n |-> 0, size |-> 0, inline |-> FALSE, index |-> <<>>]

ReaderInit ==
  /\ rpc = "idle" /\ want = 0 /\ lc = 0 /\ inlc = 0
  /\ head = NoHead /\ scan = 0 /\ ans = NoAnswer
-----------------------------------------------------------------------------
TableOf(d) == [k \in 0 .. d.n - 1 |-> ReadLcluster(d, k)]
Entry(k) == table[k]
IsMapped(e) == e.type \in {0, 1, 3}

Lesser(a, b) == IF a < b THEN a ELSE b
Greater(a, b) == IF a < b THEN b ELSE a

\* As far as a pcluster can reach, and no further.
Reach == Greater(MaxPcluster \div LcSize, 1) + 1
ScanEnd == Lesser(head.at + 1 + Reach, disk.n)

Answered(a) == rpc' = "done" /\ ans' = a /\ UNCHANGED <<want, lc, inlc, head, scan>>

\* The head is found: the walk forward begins one past it.
FoundHead(k, e) ==
  /\ head' = [at |-> k, type |-> e.type, ofs |-> e.ofs, u |-> e.u]
  /\ scan' = k + 1
  /\ rpc' = "scan"
  /\ UNCHANGED <<want, lc, inlc, ans>>

Ask(x) ==
  /\ disk.format # "none" /\ rpc \in {"idle", "done"}
  /\ want' = x /\ lc' = x \div LcSize /\ inlc' = x % LcSize
  /\ rpc' = "seek"
  /\ head' = NoHead /\ scan' = 0 /\ ans' = NoAnswer

SeekHead == rpc = "seek" /\ LET e == Entry(lc) IN IsMapped(e) /\ e.ofs <= inlc /\ FoundHead(lc, e)

InPrevious == LcSize

\* Seeded fault: the walk back stays where it is.
Previous_Same == lc
Previous == lc - 1

\* The offset belongs to the pcluster that spilled into this head's lcluster.
SeekBack ==
  /\ rpc = "seek"
  /\ LET e == Entry(lc) IN IsMapped(e) /\ e.ofs > inlc
  /\ IF lc = 0 THEN Answered(NoAnswer)
     ELSE /\ lc' = Previous /\ inlc' = InPrevious
          /\ UNCHANGED <<rpc, want, head, scan, ans>>

SeekNonhead ==
  /\ rpc = "seek"
  /\ LET e == Entry(lc)  back == e.u % 65536 IN
     /\ e.type = NONHEAD
     /\ IF back = 0 \/ back > lc \/ ~IsMapped(Entry(lc - back)) THEN Answered(NoAnswer)
        ELSE FoundHead(lc - back, Entry(lc - back))

SeekRefused == rpc = "seek" /\ Entry(lc).type = -1 /\ Answered(NoAnswer)

\* Seeded fault: a head ends the extent at its lcluster, wherever in it it starts.
NextStart_Lcluster(e) == scan * LcSize
NextStart(e) == scan * LcSize + e.ofs

Extent(end) ==
  [start |-> head.at * LcSize + head.ofs, end |-> Lesser(end, disk.size),
   addr |-> head.u, type |-> head.type, last |-> Lesser(end, disk.size) >= disk.size]

ScanPast ==
  /\ rpc = "scan" /\ scan < ScanEnd /\ Entry(scan).type = NONHEAD
  /\ scan' = scan + 1
  /\ UNCHANGED <<rpc, want, lc, inlc, head, ans>>

ScanHead ==
  /\ rpc = "scan" /\ scan < ScanEnd
  /\ LET e == Entry(scan) IN IsMapped(e) /\ Answered(Extent(NextStart(e)))

ScanRefused == rpc = "scan" /\ scan < ScanEnd /\ Entry(scan).type = -1 /\ Answered(NoAnswer)

\* No head within reach: the extent is taken to run to the end of the file.
ScanOut == rpc = "scan" /\ scan >= ScanEnd /\ Answered(Extent(disk.size))

ReadStep ==
  /\ \/ SeekHead \/ SeekBack \/ SeekNonhead \/ SeekRefused
     \/ ScanPast \/ ScanHead \/ ScanRefused \/ ScanOut
  /\ UNCHANGED <<disk, table, plan>>

\* The lcluster the search for the fragment begins at: not the last, where its
\* entry starts past the file's last byte and only marks the end of the file.
FragmentFrom ==
  LET last == disk.n - 1  e == Entry(last) IN
  IF IsMapped(e) /\ e.ofs > (disk.size - 1) % LcSize /\ last > 0 THEN last - 1 ELSE last

NoRange == <<>>
RangeRefused == <<"refused">>

\* ZMap::fragment_range of an inode with FRAGMENT_PCLUSTER, full or not:
\* the file's last extent, found from its end.
FragmentRange(full) ==
  LET from[k \in 0 .. disk.n - 1] ==
        LET e == Entry(k)  back == e.u % 65536 IN
        IF IsMapped(e) THEN k * LcSize + e.ofs
        ELSE IF e.type = NONHEAD /\ back \in 1 .. k THEN from[k - back] ELSE -1
  IN IF disk.size = 0 THEN NoRange
     ELSE IF full THEN <<0, disk.size>>
     ELSE IF from[FragmentFrom] = -1 THEN RangeRefused
     ELSE IF from[FragmentFrom] >= disk.size THEN NoRange
     ELSE <<from[FragmentFrom], disk.size>>

Read ==
  \/ ReadStep
  \/ \E x \in 0 .. disk.size - 1 : Ask(x) /\ UNCHANGED <<disk, table, plan>>
-----------------------------------------------------------------------------
\* The two walks agree: what lies in the fragment range is what a lookup finds
\* in the file's last extent, whether its lcluster has a head, spilled into one,
\* or ends in a marker.
FragmentIsLastExtent ==
  (rpc = "done" /\ plan # <<>>) =>
    LET range == FragmentRange(FALSE) IN
    /\ Len(range) = 2 /\ range[2] = disk.size
    /\ ans.last <=> want >= range[1]

\* Every answer is the extent the writer put there: its bytes, its block, its
\* type, whichever of its offsets was asked for, and it is the file's last exactly
\* from where the search for a fragment says the last begins.  (A damaged index has
\* no plan.)
AnswersThePlan ==
  /\ FragmentIsLastExtent
  /\ (rpc = "done" /\ plan # <<>>) =>
       \E p \in DOMAIN plan :
         /\ plan[p].start <= want /\ want < plan[p].end
         /\ ans = [start |-> plan[p].start, end |-> plan[p].end, addr |-> plan[p].addr,
                   type |-> plan[p].type, last |-> plan[p].end = disk.size]

\* Every lookup is answered.
LookupsReturn == (rpc = "seek") ~> (rpc = "done")
=============================================================================
