------------------------ MODULE CompressedInodeProofs -----------------------
(***************************************************************************)
(* The compressed file's invariants, for every file, codec and size.       *)
(*                                                                         *)
(* CollatorInv is the collator's: the types, the tiling, the entries'      *)
(* owners, the block count, and Settled - nothing is open and every        *)
(* lcluster is taken once planning is over.  IndexInv adds what is written *)
(* (WriterInv) and what a lookup has found so far (ReaderInv).  That the   *)
(* reader decodes each entry as it was put (TableTold) follows from the    *)
(* first two where builder and reader agree (Agreed).                      *)
(***************************************************************************)
EXTENDS CompressedInode, TLAPS, NaturalsInduction, WellFoundedInduction
LOCAL INSTANCE FiniteSetsExt

\* The pclusters and the entries, as the planner makes them.
PcType == [type : {"HEAD1", "PLAIN"}, head : Nat, n : Nat \ {0}, blocks : Nat]
EntryType == [type : {"HEAD1", "PLAIN", "NONHEAD"}, lo : 0 .. MaxDelta, pc : Nat]

\* Planning leaves no pcluster open.
Settled == st \in {"planned", "image"} => open = NoneOpen

\* The inductive invariant of the collator.
CollatorInv ==
  /\ CollatorTypeOK
  /\ Settled
  /\ PclustersTile
  /\ EntriesLeadHome
  /\ BlocksCounted

-----------------------------------------------------------------------------
\* What a file and the sizes are.
LEMMA FileFacts ==
  ASSUME file \in File
  PROVE  /\ Src.n \in Nat /\ Target \in Nat /\ Target > 0 /\ MaxDelta \in Nat
         /\ NoneOpen \in [head : Nat, n : Nat] /\ NoneOpen.n = 0
  BY CollatorAssumption DEF Src, Target, NoneOpen

\* The pclusters with the open one closed are pclusters.
LEMMA ClosedType ==
  ASSUME CollatorTypeOK
  PROVE  /\ Closed \in Seq(PcType)
         /\ IsOpen => /\ Closed = Append(pclusters, Pcluster("HEAD1", open.head, open.n))
                      /\ Len(Closed) = Len(pclusters) + 1
         /\ ~IsOpen => Closed = pclusters
         /\ ClosedTotal \in Nat
<1> USE DEF CollatorTypeOK
<1>1. CASE IsOpen
  <2>1. Pcluster("HEAD1", open.head, open.n) \in PcType
    BY <1>1, FileFacts DEF IsOpen, Pcluster, PcType
  <2>2. Closed = Append(pclusters, Pcluster("HEAD1", open.head, open.n))
    BY <1>1 DEF Closed
  <2>3. pclusters \in Seq(PcType)
    BY DEF PcType
  <2>4. ClosedTotal \in Nat
    BY <1>1, FileFacts DEF ClosedTotal
  <2> QED
    BY <1>1, <2>1, <2>2, <2>3, <2>4
<1>2. CASE ~IsOpen
  BY <1>2 DEF Closed, ClosedTotal, PcType
<1> QED
  BY <1>1, <1>2

\* A pcluster of one lcluster at the end of a tiling extends it by one.
LEMMA TileGrows ==
  ASSUME NEW all \in Seq(PcType), NEW upto \in Nat, Tile(all, upto),
         NEW p \in PcType, p.head = upto, p.n = 1
  PROVE  Tile(Append(all, p), upto + 1)
<1> DEFINE new == Append(all, p)
<1>0. PICK len \in Nat : len = Len(all)
  OBVIOUS
<1>1. new \in Seq(PcType) /\ new # <<>> /\ Len(new) = len + 1 /\ new[len + 1] = p
  BY <1>0
<1>2. \A k \in 1 .. len : new[k] = all[k]
  BY <1>0
<1>3. CASE all = <<>>
  <2>1. len = 0 /\ upto = 0
    BY <1>0, <1>3 DEF Tile
  <2> QED
    BY <1>1, <2>1 DEF Tile
<1>4. CASE all # <<>>
  <2>1. len >= 1
    BY <1>0, <1>4
  <2>2. /\ all[1].head = 0 /\ all[len].head + all[len].n = upto
        /\ \A k \in 1 .. len - 1 : all[k + 1].head = all[k].head + all[k].n
    BY <1>0, <1>4 DEF Tile
  <2>3. new[1].head = 0 /\ new[len + 1].head + new[len + 1].n = upto + 1
    BY <1>1, <1>2, <2>1, <2>2
  <2>4. ASSUME NEW k \in 1 .. len
        PROVE  new[k + 1].head = new[k].head + new[k].n
    <3>1. CASE k = len
      BY <3>1, <1>1, <1>2, <2>1, <2>2
    <3>2. CASE k # len
      <4>1. k \in 1 .. len - 1 /\ k + 1 \in 1 .. len
        BY <3>2
      <4> QED
        BY <4>1, <1>2, <2>2
    <3> QED
      BY <3>1, <3>2
  <2> HIDE DEF new
  <2>5. (len + 1) - 1 = len
    OBVIOUS
  <2>6. Tile(new, upto + 1)
    <3>1. \A k \in 1 .. Len(new) - 1 : new[k + 1].head = new[k].head + new[k].n
      BY <1>1, <2>4, <2>5
    <3> QED
      BY <1>1, <2>3, <3>1 DEF Tile
  <2> QED
    BY <2>6 DEF new
<1> QED
  BY <1>3, <1>4

\* Where a tiling's last pcluster ends.
LEMMA TileLast ==
  ASSUME NEW all \in Seq(PcType), NEW upto \in Nat, Tile(all, upto), all # <<>>
  PROVE  all[Len(all)].head + all[Len(all)].n = upto
  BY DEF Tile

\* The open pcluster, once closed, is the last: it ends at i.
LEMMA OpenEnds ==
  ASSUME CollatorTypeOK, PclustersTile, IsOpen
  PROVE  open.head + open.n = i /\ open.head < i
<1>1. PICK len \in Nat : len = Len(pclusters)
  BY DEF CollatorTypeOK
<1>2. Closed # <<>> /\ Len(Closed) = len + 1 /\ Closed[len + 1] = Pcluster("HEAD1", open.head, open.n)
  BY <1>1, ClosedType DEF CollatorTypeOK, PcType
<1>3. Closed[len + 1].head + Closed[len + 1].n = i
  BY <1>2 DEF PclustersTile, Tile
<1>4. open.head + open.n = i
  BY <1>2, <1>3 DEF Pcluster
<1>5. open.head \in Nat /\ open.n \in Nat /\ open.n > 0
  BY DEF CollatorTypeOK, IsOpen
<1> QED
  BY <1>4, <1>5

\* The entries that lead home do so however the pclusters grow at their end,
\* or the last of them grows.
LEMMA EntriesStay ==
  ASSUME CollatorTypeOK, EntriesLeadHome,
         NEW all \in Seq(PcType), Len(all) >= Len(Closed),
         \A k \in 1 .. Len(Closed) :
           /\ all[k].head = Closed[k].head /\ all[k].type = Closed[k].type
           /\ all[k].n >= Closed[k].n,
         NEW k \in 0 .. i - 1
  PROVE  /\ entries[k + 1].pc \in 0 .. Len(all) - 1
         /\ Leads(entries[k + 1], k, all[entries[k + 1].pc + 1])
<1>1. PICK had \in Nat, has \in Nat : had = Len(Closed) /\ has = Len(all)
  BY ClosedType
<1>2. PICK at \in 0 .. had - 1 : at = entries[k + 1].pc /\ Leads(entries[k + 1], k, Closed[at + 1])
  BY <1>1 DEF EntriesLeadHome
<1>3. at + 1 \in 1 .. had /\ at \in 0 .. has - 1
  BY <1>1, <1>2
<1>4. /\ all[at + 1].head = Closed[at + 1].head /\ all[at + 1].type = Closed[at + 1].type
      /\ all[at + 1].n >= Closed[at + 1].n
  BY <1>1, <1>3
<1>5. Closed[at + 1] \in PcType /\ all[at + 1] \in PcType
  BY <1>1, <1>3, ClosedType
<1>6. k \in Int
  BY DEF CollatorTypeOK
<1>7. Leads(entries[k + 1], k, all[at + 1])
  <2>1. PICK c \in PcType, a \in PcType : c = Closed[at + 1] /\ a = all[at + 1]
    BY <1>5
  <2>2. a.head = c.head /\ a.type = c.type /\ a.n >= c.n
    BY <1>4, <2>1
  <2>3. Leads(entries[k + 1], k, c)
    BY <1>2, <2>1
  <2>4. k < a.head + a.n
    BY <1>6, <2>2, <2>3 DEF Leads, PcType
  <2>5. Leads(entries[k + 1], k, a)
    BY <2>2, <2>3, <2>4 DEF Leads
  <2> QED
    BY <2>1, <2>5
<1> QED
  BY <1>1, <1>2, <1>3, <1>7

\* The new entry leads to the new pcluster, and the others where they did.
LEMMA EntryAdded ==
  ASSUME CollatorTypeOK, EntriesLeadHome,
         NEW all \in Seq(PcType), Len(all) >= Len(Closed),
         \A k \in 1 .. Len(Closed) :
           /\ all[k].head = Closed[k].head /\ all[k].type = Closed[k].type
           /\ all[k].n >= Closed[k].n,
         NEW e \in EntryType, e.pc \in 0 .. Len(all) - 1, Leads(e, i, all[e.pc + 1]),
         entries' = Append(entries, e), i' = i + 1, Closed' = all
  PROVE  EntriesLeadHome'
<1>1. i \in Nat /\ Len(entries) = i /\ entries \in Seq(EntryType)
  BY FileFacts DEF CollatorTypeOK, EntryType
<1>2. entries'[i + 1] = e
  BY <1>1
<1>3. \A k \in 0 .. i - 1 : entries'[k + 1] = entries[k + 1]
  BY <1>1
<1>4. SUFFICES ASSUME NEW k \in 0 .. i' - 1
               PROVE  LET f == entries'[k + 1] IN
                      f.pc \in 0 .. Len(all) - 1 /\ Leads(f, k, all[f.pc + 1])
  BY Zenon DEF EntriesLeadHome
<1>5. CASE k = i
  BY <1>2, <1>5
<1>6. CASE k # i
  <2>1. k \in 0 .. i - 1
    BY <1>1, <1>6
  <2>2. /\ entries[k + 1].pc \in 0 .. Len(all) - 1
        /\ Leads(entries[k + 1], k, all[entries[k + 1].pc + 1])
    BY <2>1, EntriesStay
  <2> QED
    BY <1>3, <2>1, <2>2
<1> QED
  BY <1>5, <1>6

\* Closing the open pcluster counts its blocks.
LEMMA TotalClosed ==
  ASSUME CollatorInv, st = "collate"
  PROVE  ClosedTotal = Target * Len(Closed)
<1>1. PICK len \in Nat : len = Len(pclusters)
  BY DEF CollatorInv, CollatorTypeOK
<1>2. total = Target * len /\ Target \in Nat
  BY <1>1, FileFacts DEF CollatorInv, CollatorTypeOK, BlocksCounted
<1>3. Target * (len + 1) = Target * len + Target
  BY <1>2
<1>4. CASE IsOpen
  <2>1. Len(Closed) = len + 1 /\ ClosedTotal = total + Target
    BY <1>1, <1>4, ClosedType DEF CollatorInv, ClosedTotal
  <2> QED
    BY <1>2, <1>3, <2>1
<1>5. CASE ~IsOpen
  BY <1>1, <1>2, <1>5, ClosedType DEF CollatorInv, ClosedTotal
<1> QED
  BY <1>4, <1>5

-----------------------------------------------------------------------------

\* Nothing is collated at first.
LEMMA InitInv == Init => CollatorInv
<1> SUFFICES ASSUME Init PROVE CollatorInv
  OBVIOUS
<1> USE DEF Init, CollatorInit
<1>1. CollatorTypeOK
  BY FileFacts DEF CollatorTypeOK
<1>2. Closed = <<>>
  BY FileFacts DEF Closed, IsOpen
<1>3. PclustersTile
  BY <1>2 DEF PclustersTile, Tile
<1>4. Settled /\ EntriesLeadHome
  BY DEF Settled, EntriesLeadHome
<1>5. BlocksCounted
  BY FileFacts DEF BlocksCounted
<1> QED
  BY <1>1, <1>3, <1>4, <1>5 DEF CollatorInv

\* The lcluster joins the open pcluster, which grows by one.
LEMMA AbsorbInv == ASSUME CollatorInv, Absorb PROVE CollatorInv'
<1> USE DEF CollatorInv
<1>0. /\ i' = i + 1 /\ UNCHANGED <<file, st, pclusters, total>> /\ IsOpen /\ Reachable
      /\ open' = [head |-> open.head, n |-> open.n + 1] /\ st = "collate" /\ i < Src.n
      /\ entries' = Append(entries, [type |-> "NONHEAD", lo |-> Delta, pc |-> OwnerOfAbsorbed])
  BY DEF Absorb, Grows, Collating
<1>1. /\ file \in File /\ i \in Nat /\ open.head \in Nat /\ open.n \in Nat /\ open.n > 0
      /\ Src.n \in Nat /\ Target \in Nat /\ MaxDelta \in Nat
  BY <1>0, FileFacts DEF CollatorTypeOK, IsOpen
<1>2. open.head + open.n = i /\ open.head < i
  BY <1>0, OpenEnds
<1>3. PICK len \in Nat : len = Len(pclusters)
  BY DEF CollatorTypeOK
<1> DEFINE e == [type |-> "NONHEAD", lo |-> Delta, pc |-> OwnerOfAbsorbed]
           last == Pcluster("HEAD1", open.head, open.n + 1)
           all == Append(pclusters, last)
<1>4. e \in EntryType
  BY <1>0, <1>1, <1>2, <1>3 DEF EntryType, Delta, Reachable, OwnerOfAbsorbed
<1>5. last \in PcType
  BY <1>1 DEF Pcluster, PcType
<1>6. pclusters \in Seq(PcType)
  BY DEF CollatorTypeOK, PcType
<1>7. all \in Seq(PcType) /\ Len(all) = len + 1 /\ all[len + 1] = last
  BY <1>3, <1>5, <1>6
<1>8. \A k \in 1 .. len : all[k] = pclusters[k]
  BY <1>3, <1>6
<1>9. Closed' = all
  BY <1>0, <1>1 DEF Closed, IsOpen, Pcluster, Target, Src
<1>10. /\ Closed = Append(pclusters, Pcluster("HEAD1", open.head, open.n)) /\ Len(Closed) = len + 1
       /\ Closed[len + 1] = Pcluster("HEAD1", open.head, open.n)
  BY <1>0, <1>3, <1>6, ClosedType
<1>11. \A k \in 1 .. len : Closed[k] = pclusters[k]
  BY <1>3, <1>6, <1>10
<1>12. CollatorTypeOK'
  <2>1. entries' \in Seq(EntryType) /\ Len(entries') = i + 1
    BY <1>0, <1>4 DEF CollatorTypeOK, EntryType
  <2>2. open' \in [head : Nat, n : Nat]
    BY <1>0, <1>1
  <2>3. Src' = Src /\ i' \in 0 .. Src.n
    BY <1>0, <1>1 DEF Src
  <2> QED
    BY <1>0, <2>1, <2>2, <2>3 DEF CollatorTypeOK, EntryType
<1>13. PclustersTile'
  <2>1. all # <<>>
    <3>1. \A s \in Seq(PcType) : Len(s) = len + 1 => s # <<>>
      OBVIOUS
    <3> HIDE DEF all
    <3> QED
      BY <1>7, <3>1
  <2>2. all[len + 1].head + all[len + 1].n = i + 1
    BY <1>1, <1>2, <1>7, SMTT(30) DEF Pcluster
  <2>3. all[1].head = 0
    <3>1. Closed[1].head = 0
      BY <1>10 DEF PclustersTile, Tile
    <3>2. CASE len = 0
      BY <3>1, <3>2, <1>7, <1>10 DEF Pcluster
    <3>3. CASE len # 0
      BY <3>1, <3>3, <1>3, <1>8, <1>11
    <3> QED
      BY <3>2, <3>3
  <2>4. ASSUME NEW k \in 1 .. len
        PROVE  all[k + 1].head = all[k].head + all[k].n
    <3>1. Closed[k + 1].head = Closed[k].head + Closed[k].n
      BY <1>10 DEF PclustersTile, Tile
    <3>2. all[k] = Closed[k]
      BY <1>8, <1>11
    <3>3. all[k + 1].head = Closed[k + 1].head
      <4>1. CASE k = len
        BY <4>1, <1>7, <1>10 DEF Pcluster
      <4>2. CASE k # len
        <5>1. k + 1 \in 1 .. len
          BY <4>2
        <5> QED
          BY <5>1, <1>8, <1>11
      <4> QED
        BY <4>1, <4>2
    <3> QED
      BY <3>1, <3>2, <3>3
  <2> HIDE DEF all, last
  <2>5. \A k \in 1 .. Len(all) - 1 : all[k + 1].head = all[k].head + all[k].n
    BY <1>7, <2>4
  <2>6. Tile(all, i + 1)
    BY <1>7, <2>1, <2>2, <2>3, <2>5 DEF Tile
  <2> QED
    BY <1>0, <1>9, <2>6 DEF PclustersTile
<1>14. EntriesLeadHome'
  <2>1. \A k \in 1 .. Len(Closed) :
          all[k].head = Closed[k].head /\ all[k].type = Closed[k].type /\ all[k].n >= Closed[k].n
    <3>1. SUFFICES ASSUME NEW k \in 1 .. len + 1
                   PROVE  all[k].head = Closed[k].head /\ all[k].type = Closed[k].type /\ all[k].n >= Closed[k].n
      BY <1>10
    <3>2. CASE k = len + 1
      BY <3>2, <1>1, <1>7, <1>10 DEF Pcluster
    <3>3. CASE k # len + 1
      <4>1. k \in 1 .. len
        BY <3>3
      <4>2. all[k] = pclusters[k] /\ Closed[k] = pclusters[k] /\ pclusters[k] \in PcType
        BY <4>1, <1>3, <1>6, <1>8, <1>11
      <4>3. pclusters[k].n >= pclusters[k].n
        BY <4>2 DEF PcType
      <4> QED
        BY <4>2, <4>3
    <3> QED
      BY <3>2, <3>3
  <2>2. e.pc = len /\ e.lo = i - open.head
    BY <1>3 DEF OwnerOfAbsorbed, Delta
  <2>3. Leads(e, i, last)
    BY <1>1, <1>2, <2>2 DEF Leads, Pcluster
  <2>4. e.pc \in 0 .. Len(all) - 1 /\ Leads(e, i, all[e.pc + 1])
    BY <1>7, <2>2, <2>3
  <2> HIDE DEF all, e, last
  <2>5. Len(all) >= Len(Closed)
    BY <1>7, <1>10
  <2>6. entries' = Append(entries, e)
    BY <1>0 DEF e
  <2> QED
    BY <1>0, <1>4, <1>7, <1>9, <2>1, <2>4, <2>5, <2>6, EntryAdded
<1>15. Settled' /\ BlocksCounted'
  BY <1>0 DEF Settled, BlocksCounted, Target, Src
<1> QED
  BY <1>12, <1>13, <1>14, <1>15 DEF CollatorInv

\* An lcluster that begins a pcluster: the others stay as they are.
LEMMA Begun ==
  ASSUME CollatorInv, i < Src.n, NEW type \in {"HEAD1", "PLAIN"},
         Closed' = Append(Closed, Pcluster(type, i, 1)), i' = i + 1, file' = file,
         entries' = Append(entries, [type |-> type, lo |-> 0, pc |-> Len(Closed)])
  PROVE  /\ PclustersTile' /\ EntriesLeadHome'
         /\ entries' \in Seq(EntryType) /\ Len(entries') = i' /\ i' \in 0 .. Src'.n
<1> USE DEF CollatorInv
<1> DEFINE e == [type |-> type, lo |-> 0, pc |-> Len(Closed)]
           p == Pcluster(type, i, 1)
           all == Append(Closed, p)
<1>1. i \in Nat /\ Target \in Nat /\ MaxDelta \in Nat /\ Src.n \in Nat
  BY FileFacts DEF CollatorTypeOK
<1>2. PICK len \in Nat : len = Len(Closed)
  BY ClosedType
<1>3. e \in EntryType /\ e.pc = len
  BY <1>1, <1>2 DEF EntryType
<1>4. p \in PcType /\ p.head = i /\ p.n = 1 /\ p.type = type
  BY <1>1 DEF Pcluster, PcType
<1>5. all \in Seq(PcType) /\ Len(all) = len + 1 /\ all[len + 1] = p
  BY <1>2, <1>4, ClosedType
<1>6. \A k \in 1 .. len : all[k] = Closed[k] /\ Closed[k] \in PcType
  BY <1>2, ClosedType
<1>7. PclustersTile'
  BY <1>1, <1>4, ClosedType, TileGrows DEF PclustersTile
<1>8. \A k \in 1 .. Len(Closed) :
        all[k].head = Closed[k].head /\ all[k].type = Closed[k].type /\ all[k].n >= Closed[k].n
  BY <1>2, <1>6 DEF PcType
<1>9. Leads(e, i, p)
  BY <1>1, <1>4 DEF Leads
<1>10. EntriesLeadHome'
  <2> HIDE DEF e, p
  <2>1. Len(all) >= Len(Closed)
    BY <1>2, <1>5
  <2>2. e.pc \in 0 .. Len(all) - 1 /\ Leads(e, i, all[e.pc + 1])
    BY <1>3, <1>5, <1>9
  <2>3. entries' = Append(entries, e) /\ Closed' = all
    BY DEF e, p
  <2> HIDE DEF all
  <2> QED
    BY <1>3, <1>5, <1>8, <2>1, <2>2, <2>3, EntryAdded
<1>11. entries' \in Seq(EntryType) /\ Len(entries') = i + 1
  BY <1>3 DEF CollatorTypeOK, EntryType
<1>12. Src' = Src
  BY DEF Src
<1> QED
  BY <1>1, <1>7, <1>10, <1>11, <1>12

\* A pcluster is opened by a head (StartHead).
LEMMA StartHeadInv == ASSUME CollatorInv, StartHead PROVE CollatorInv'
<1> USE DEF CollatorInv
<1>1. /\ i < Src.n /\ i' = i + 1 /\ UNCHANGED <<file, st>> /\ st = "collate"
      /\ pclusters' = Closed /\ total' = ClosedTotal /\ open' = [head |-> i, n |-> 1]
      /\ entries' = Append(entries, [type |-> "HEAD1", lo |-> 0, pc |-> Len(Closed)])
  BY DEF StartHead, Collating
<1>2. i \in Nat /\ Src.n \in Nat /\ Target \in Nat
  BY FileFacts DEF CollatorTypeOK
<1>3. Closed' = Append(Closed, Pcluster("HEAD1", i, 1))
  <2>1. IsOpen' /\ open'.head = i /\ open'.n = 1
    BY <1>1 DEF IsOpen
  <2>2. Closed' = Append(pclusters', Pcluster("HEAD1", open'.head, open'.n))
    BY <1>1, <2>1 DEF Closed, Pcluster, Target, Src
  <2> QED
    BY <1>1, <2>1, <2>2
<1>4. /\ PclustersTile' /\ EntriesLeadHome'
      /\ entries' \in Seq(EntryType) /\ Len(entries') = i' /\ i' \in 0 .. Src'.n
  BY <1>1, <1>3, Begun
<1>5. CollatorTypeOK'
  <2>1. open' \in [head : Nat, n : Nat]
    BY <1>1, <1>2
  <2>2. pclusters' \in Seq(PcType) /\ total' \in Nat
    BY <1>1, ClosedType
  <2> QED
    BY <1>1, <1>4, <2>1, <2>2 DEF CollatorTypeOK, PcType, EntryType
<1>6. BlocksCounted'
  BY <1>1, TotalClosed DEF BlocksCounted, Target, Src
<1> QED
  BY <1>1, <1>4, <1>5, <1>6 DEF Settled

\* An lcluster that does not shrink is a pcluster of its own (StartPlain).
LEMMA StartPlainInv == ASSUME CollatorInv, StartPlain PROVE CollatorInv'
<1> USE DEF CollatorInv
<1> DEFINE p == Pcluster("PLAIN", i, 1)
<1>1. /\ i < Src.n /\ i' = i + 1 /\ UNCHANGED <<file, st>> /\ st = "collate"
      /\ pclusters' = Append(Closed, p) /\ total' = ClosedTotal + Target /\ open' = NoneOpen
      /\ entries' = Append(entries, [type |-> "PLAIN", lo |-> 0, pc |-> Len(Closed)])
  BY DEF StartPlain, Collating
<1>2. i \in Nat /\ Src.n \in Nat /\ Target \in Nat
  BY FileFacts DEF CollatorTypeOK
<1>3. Closed' = Append(Closed, p)
  BY <1>1 DEF Closed, IsOpen, NoneOpen
<1>4. /\ PclustersTile' /\ EntriesLeadHome'
      /\ entries' \in Seq(EntryType) /\ Len(entries') = i' /\ i' \in 0 .. Src'.n
  BY <1>1, <1>3, Begun
<1>5. PICK len \in Nat : len = Len(Closed)
  BY ClosedType
<1>6. pclusters' \in Seq(PcType) /\ Len(pclusters') = len + 1
  <2>1. p \in PcType
    BY <1>2 DEF Pcluster, PcType
  <2> QED
    BY <1>1, <1>5, <2>1, ClosedType
<1>7. CollatorTypeOK'
  <2>1. open' \in [head : Nat, n : Nat]
    BY <1>1 DEF NoneOpen
  <2>2. total' \in Nat
    BY <1>1, <1>2, ClosedType
  <2> QED
    BY <1>1, <1>4, <1>6, <2>1, <2>2 DEF CollatorTypeOK, PcType, EntryType
<1>8. BlocksCounted'
  <2>1. ClosedTotal = Target * len
    BY <1>1, <1>5, TotalClosed
  <2>2. Target * (len + 1) = Target * len + Target
    BY <1>2
  <2>3. Target' = Target
    BY <1>1 DEF Target, Src
  <2> QED
    BY <1>1, <1>6, <2>1, <2>2, <2>3 DEF BlocksCounted
<1> QED
  BY <1>1, <1>4, <1>7, <1>8 DEF Settled

\* The last pcluster is closed (Finish).
LEMMA FinishInv == ASSUME CollatorInv, Finish PROVE CollatorInv'
<1> USE DEF CollatorInv
<1>1. /\ UNCHANGED <<file, i, entries>> /\ st' = "planned" /\ st = "collate"
      /\ pclusters' = Closed /\ total' = ClosedTotal /\ open' = NoneOpen
  BY DEF Finish
<1>2. Closed' = Closed
  BY <1>1 DEF Closed, IsOpen, NoneOpen
<1>3. CollatorTypeOK'
  <2>1. open' \in [head : Nat, n : Nat]
    BY <1>1 DEF NoneOpen
  <2>2. pclusters' \in Seq(PcType) /\ total' \in Nat
    BY <1>1, ClosedType
  <2>3. Src' = Src
    BY <1>1 DEF Src
  <2> QED
    BY <1>1, <2>1, <2>2, <2>3 DEF CollatorTypeOK, PcType
<1>4. PclustersTile' /\ EntriesLeadHome'
  BY <1>1, <1>2 DEF PclustersTile, EntriesLeadHome
<1>5. BlocksCounted'
  BY <1>1, TotalClosed DEF BlocksCounted, Target, Src
<1> QED
  BY <1>1, <1>3, <1>4, <1>5 DEF Settled

\* A file that is refused keeps what was collated.
LEMMA FailedInv == ASSUME CollatorInv, st = "collate", Failed PROVE CollatorInv'
<1>1. Closed' = Closed /\ Src' = Src /\ Target' = Target
  BY DEF Failed, Closed, IsOpen, Pcluster, Src, Target
<1> QED
  BY <1>1 DEF CollatorInv, CollatorTypeOK, Settled, PclustersTile, EntriesLeadHome, BlocksCounted, Failed

\* Emission takes the last pcluster's blocks away, and nothing else.
LEMMA EmitInv == ASSUME CollatorInv, NEW place, Emit(place) PROVE CollatorInv'
<1> USE DEF CollatorInv
<1> DEFINE pcs == Stolen(pclusters)
<1>1. /\ UNCHANGED <<file, i, open, entries>> /\ st = "planned" /\ st' = "image"
      /\ pclusters' = pcs /\ total' = IF pcs = pclusters THEN total ELSE total - Target
  BY DEF Emit
<1>2. ~IsOpen /\ ~IsOpen' /\ Target \in Nat /\ Target > 0
  BY <1>1, FileFacts DEF Settled, IsOpen, NoneOpen, CollatorTypeOK
<1>3. Closed = pclusters /\ Closed' = pcs
  BY <1>1, <1>2 DEF Closed
<1>4. PICK len \in Nat : len = Len(pclusters)
  BY DEF CollatorTypeOK
<1>5. pclusters \in Seq(PcType)
  BY DEF CollatorTypeOK, PcType
<1>6. /\ pcs \in Seq(PcType) /\ Len(pcs) = len
      /\ \A k \in 1 .. len : /\ pcs[k].head = pclusters[k].head /\ pcs[k].type = pclusters[k].type
                             /\ pcs[k].n = pclusters[k].n /\ pclusters[k] \in PcType
  <2>1. CASE requested /\ pclusters # <<>>
    <3>1. len >= 1 /\ pclusters[len] \in PcType
      BY <1>4, <1>5, <2>1
    <3>2. pcs = [pclusters EXCEPT ![len] = [pclusters[len] EXCEPT !.blocks = 0]]
      BY <1>4, <2>1 DEF Stolen
    <3>3. [pclusters[len] EXCEPT !.blocks = 0] \in PcType
      BY <3>1 DEF PcType
    <3> HIDE DEF pcs
    <3>4. pcs \in Seq(PcType) /\ Len(pcs) = len
      BY <1>4, <1>5, <3>1, <3>2, <3>3
    <3>5. ASSUME NEW k \in 1 .. len
          PROVE  /\ pcs[k].head = pclusters[k].head /\ pcs[k].type = pclusters[k].type
                 /\ pcs[k].n = pclusters[k].n /\ pclusters[k] \in PcType
      <4>1. pclusters[k] \in PcType
        BY <1>4, <1>5
      <4>2. CASE k = len
        BY <4>1, <4>2, <1>4, <1>5, <3>1, <3>2 DEF PcType
      <4>3. CASE k # len
        BY <4>1, <4>3, <1>4, <1>5, <3>1, <3>2
      <4> QED
        BY <4>2, <4>3
    <3> QED
      BY <3>4, <3>5
  <2>2. CASE ~(requested /\ pclusters # <<>>)
    BY <1>4, <1>5, <2>2 DEF Stolen
  <2> QED
    BY <2>1, <2>2
<1>7. total' \in Nat
  <2>1. CASE pcs = pclusters
    BY <1>1, <2>1 DEF CollatorTypeOK
  <2>2. CASE pcs # pclusters
    <3>1. len >= 1
      BY <1>4, <1>5, <2>2 DEF Stolen
    <3>2. total = Target * len
      BY <1>1, <1>4 DEF BlocksCounted
    <3>3. Target * len >= Target
      BY <1>2, <3>1
    <3> QED
      BY <1>1, <1>2, <2>2, <3>2, <3>3
  <2> QED
    BY <2>1, <2>2
<1> HIDE DEF pcs
<1>8. CollatorTypeOK'
  <2>1. Src' = Src
    BY <1>1 DEF Src
  <2> QED
    BY <1>1, <1>6, <1>7, <2>1 DEF CollatorTypeOK, PcType
<1>9. PclustersTile'
  <2>1. Tile(pclusters, i)
    BY <1>3 DEF PclustersTile
  <2>2. pcs = <<>> <=> pclusters = <<>>
    BY <1>4, <1>5, <1>6
  <2>3. i \in Nat
    BY DEF CollatorTypeOK
  <2>4. ASSUME pcs # <<>>
        PROVE  /\ pcs[1].head = 0 /\ pcs[len].head + pcs[len].n = i
    <3>1. len >= 1
      BY <1>6, <2>4
    <3> QED
      BY <1>4, <1>6, <2>1, <2>2, <2>4, <3>1 DEF Tile
  <2>5. ASSUME NEW k \in 1 .. len - 1
        PROVE  pcs[k + 1].head = pcs[k].head + pcs[k].n
    <3>1. k \in 1 .. len /\ k + 1 \in 1 .. len
      OBVIOUS
    <3>2. pclusters[k + 1].head = pclusters[k].head + pclusters[k].n
      BY <1>4, <2>1 DEF Tile
    <3> QED
      BY <1>6, <3>1, <3>2
  <2>6. Tile(pcs, i)
    BY <1>4, <1>6, <2>1, <2>2, <2>4, <2>5 DEF Tile
  <2> QED
    BY <1>1, <1>3, <2>6 DEF PclustersTile
<1>10. EntriesLeadHome'
  <2>1. /\ Len(pcs) >= Len(Closed)
        /\ \A k \in 1 .. Len(Closed) :
              pcs[k].head = Closed[k].head /\ pcs[k].type = Closed[k].type /\ pcs[k].n >= Closed[k].n
    BY <1>3, <1>4, <1>6 DEF PcType
  <2>2. \A k \in 0 .. i - 1 : /\ entries[k + 1].pc \in 0 .. Len(pcs) - 1
                              /\ Leads(entries[k + 1], k, pcs[entries[k + 1].pc + 1])
    BY <1>6, <2>1, EntriesStay
  <2> QED
    BY <1>1, <1>3, <2>2 DEF EntriesLeadHome
<1>11. BlocksCounted' /\ Settled'
  BY <1>1 DEF BlocksCounted, Settled
<1> QED
  BY <1>8, <1>9, <1>10, <1>11

\* Every step preserves the invariant: a writer's action by its own lemma, a
\* reader's because it leaves the plan alone.
LEMMA NextInv == ASSUME CollatorInv, [Next]_vars PROVE CollatorInv'
<1>1. CASE Collate
  <2>1. CASE Absorb
    BY <2>1, AbsorbInv
  <2>2. CASE TooFar
    BY <2>2, FailedInv DEF TooFar, Collating
  <2>3. CASE StartHead
    BY <2>3, StartHeadInv
  <2>4. CASE StartPlain
    BY <2>4, StartPlainInv
  <2>5. CASE PlainTooLong
    BY <2>5, FailedInv DEF PlainTooLong, Collating
  <2>6. CASE BlocksOverflow
    BY <2>6, FailedInv DEF BlocksOverflow
  <2>7. CASE Finish
    BY <2>7, FinishInv
  <2> QED
    BY <1>1, <2>1, <2>2, <2>3, <2>4, <2>5, <2>6, <2>7 DEF Collate
<1>2. CASE \E place \in Place[file] : Emit(place)
  BY <1>2, EmitInv
<1>3. CASE UNCHANGED collatorVars
  <2>1. Closed' = Closed /\ Src' = Src /\ Target' = Target
    BY <1>3 DEF collatorVars, Closed, IsOpen, Pcluster, Src, Target
  <2> QED
    BY <1>3, <2>1
    DEF collatorVars, CollatorInv, CollatorTypeOK, Settled, PclustersTile, EntriesLeadHome, BlocksCounted
<1> QED
  BY <1>1, <1>2, <1>3 DEF Next, Write, vars
-----------------------------------------------------------------------------

\* The collator invariant holds for every file and codec.
THEOREM InvCorrect == Spec => []CollatorInv
<1>1. Init => CollatorInv
  BY InitInv
<1>2. CollatorInv /\ [Next]_vars => CollatorInv'
  BY NextInv
<1> QED
  BY <1>1, <1>2, PTL DEF Spec

\* Every variable of the planner keeps its type: in particular every delta[0]
\* the planner stores is one the index can hold.
THEOREM TypeCorrect == Spec => []CollatorTypeOK
<1>1. CollatorInv => CollatorTypeOK
  BY DEF CollatorInv
<1> QED
  BY <1>1, InvCorrect, PTL

\* However the codec behaves, the pclusters tile the lclusters: none is left
\* out and none is in two pclusters (plan_compressed_pclusters_with_cfg).
THEOREM TileCorrect == Spec => []PclustersTile
<1>1. CollatorInv => PclustersTile
  BY DEF CollatorInv
<1> QED
  BY <1>1, InvCorrect, PTL

\* However the codec behaves, every index entry leads to the pcluster that
\* holds its lcluster.
THEOREM EntriesCorrect == Spec => []EntriesLeadHome
<1>1. CollatorInv => EntriesLeadHome
  BY DEF CollatorInv
<1> QED
  BY <1>1, InvCorrect, PTL

-----------------------------------------------------------------------------
(***************************************************************************)
(* The index as it is written and read.                                    *)
(***************************************************************************)
\* What the codec was asked: every pcluster of more than one lcluster is a frame that fits.
FramesFit ==
  \A p \in 1 .. Len(Closed) :
    Closed[p].n = 1 \/ <<Closed[p].head, Closed[p].head + Closed[p].n - 1>> \in Src.grows

\* Every pcluster has its blocks; once written, the last may have given them back.
BlocksEach ==
  \A p \in 1 .. Len(pclusters) :
    \/ pclusters[p].blocks = Target
    \/ st = "image" /\ p = Len(pclusters) /\ pclusters[p].blocks = 0

\* The block of each pcluster, as far as it is one.
AddrOf(p) == FirstBlock + (p - 1) * Target

\* The inode that was written, and what was planned for it.
WrittenAt(place) ==
  /\ disk = [format |-> place[1], bodyEnd |-> place[2], n |-> Src.n, size |-> Size,
             inline |-> disk.inline, index |-> disk.index]
  /\ disk.inline \in BOOLEAN
  /\ disk.index = IF place[1] = "legacy" THEN EncodeLegacy(place[2], Addressed(AddrsOf(pclusters)))
                  ELSE EncodeCompact(place[2], Addressed(AddrsOf(pclusters)))
  /\ table = TableOf(disk)

\* The extents planned are the pclusters, each where its blocks are.
PlanIs ==
  plan = [p \in DOMAIN pclusters |->
            [start |-> pclusters[p].head * LcBlocks,
             end |-> Lesser((pclusters[p].head + pclusters[p].n) * LcBlocks, Size),
             addr |-> AddrOf(p), type |-> TypeCode(pclusters[p].type)]]

\* The blocks counted are those of the pclusters.
TotalIs ==
  total = IF pclusters = <<>> THEN 0
          ELSE (Len(pclusters) - 1) * Target + pclusters[Len(pclusters)].blocks

\* The writer's part of the invariant.
WriterInv ==
  /\ FramesFit /\ BlocksEach
  /\ st \in {"planned", "image"} => i = Src.n
  /\ st = "image" => PlanIs /\ TotalIs /\ \E place \in Place[file] : WrittenAt(place)
  /\ st # "image" => disk = NoDisk /\ ReaderInit

\* Lcluster k is read as it was entered.
Told(k) ==
  LET put == entries[k + 1] IN
  /\ table[k].type = TypeCode(put.type)
  /\ put.type = "NONHEAD" => table[k].u = put.lo
  /\ put.type # "NONHEAD" => table[k].ofs = 0 /\ table[k].u = AddrOf(put.pc + 1)

\* Every lcluster is.
TableTold == st = "image" => \A k \in 0 .. Src.n - 1 : Told(k)

\* The pcluster that holds lcluster k.
OwnerOf(k) == entries[k + 1].pc + 1

\* The lcluster wanted, and the place in it.
Sought == lc = want \div LcSize /\ inlc = want % LcSize

\* The head found is that of pcluster p, and the answer its extent.
FoundOf(p) ==
  head = [at |-> pclusters[p].head, type |-> TypeCode(pclusters[p].type), ofs |-> 0, u |-> AddrOf(p)]
AnswerOf(p) ==
  [start |-> plan[p].start, end |-> plan[p].end, addr |-> plan[p].addr,
   type |-> plan[p].type, last |-> plan[p].end = disk.size]

\* The reader's part: where a lookup is on its way.
ReaderInv ==
  /\ rpc \in {"idle", "seek", "scan", "done"}
  /\ rpc # "idle" => st = "image" /\ want \in 0 .. Size - 1
  /\ rpc = "seek" => Sought
  /\ rpc = "scan" =>
       LET p == OwnerOf(want \div LcSize) IN
       /\ FoundOf(p)
       /\ scan \in pclusters[p].head + 1 .. pclusters[p].head + pclusters[p].n
  /\ rpc = "done" => ans = AnswerOf(OwnerOf(want \div LcSize))

\* The invariant: the collator, what it wrote, and the lookups of it.
IndexInv == CollatorInv /\ WriterInv /\ ReaderInv

-----------------------------------------------------------------------------
\* What a collated pcluster is once the next lcluster has joined it.
LEMMA AbsorbCloses ==
  ASSUME CollatorInv, Absorb
  PROVE  /\ Closed = Append(pclusters, Pcluster("HEAD1", open.head, open.n))
         /\ Closed' = Append(pclusters, Pcluster("HEAD1", open.head, open.n + 1))
         /\ open.head + open.n = i /\ open.head \in Nat /\ open.n \in Nat
<1>1. IsOpen /\ open' = [head |-> open.head, n |-> open.n + 1] /\ UNCHANGED <<file, pclusters>>
  BY DEF Absorb, Grows
<1>2. open.head \in Nat /\ open.n \in Nat /\ open.n > 0
  BY <1>1 DEF CollatorInv, CollatorTypeOK, IsOpen
<1>3. Closed' = Append(pclusters, Pcluster("HEAD1", open.head, open.n + 1))
  BY <1>1, <1>2 DEF Closed, IsOpen, Pcluster, Target, Src
<1> QED BY <1>1, <1>2, <1>3, ClosedType, OpenEnds DEF CollatorInv

\* A pcluster of one lcluster is begun behind those there are.
LEMMA BeginCloses ==
  ASSUME CollatorInv, StartHead \/ StartPlain
  PROVE  \E type \in {"HEAD1", "PLAIN"} : Closed' = Append(Closed, Pcluster(type, i, 1))
<1>0. Target' = Target /\ Src' = Src
  BY DEF StartHead, StartPlain, Target, Src
<1>1. CASE StartHead
  <2>1. pclusters' = Closed /\ open' = [head |-> i, n |-> 1]
    BY <1>1 DEF StartHead
  <2>2. IsOpen' /\ open'.head = i /\ open'.n = 1
    BY <2>1 DEF IsOpen
  <2>3. Closed' = Append(Closed, Pcluster("HEAD1", i, 1))
    BY <1>0, <2>1, <2>2 DEF Closed, Pcluster
  <2> QED BY <2>3
<1>2. CASE StartPlain
  <2>1. pclusters' = Append(Closed, Pcluster("PLAIN", i, 1)) /\ open' = NoneOpen
    BY <1>2 DEF StartPlain
  <2>2. Closed' = pclusters'
    BY <2>1 DEF Closed, IsOpen, NoneOpen
  <2> QED BY <2>1, <2>2
<1> QED BY <1>1, <1>2

\* The planner only ever makes a pcluster longer by a frame that fits.
LEMMA FramesStayFit ==
  ASSUME CollatorInv, FramesFit, Collate
  PROVE  FramesFit'
<1>0. Src' = Src
  BY DEF Collate, Absorb, TooFar, StartHead, StartPlain, PlainTooLong, BlocksOverflow, Finish, Failed, Src
<1>1. CASE Absorb
  <2>0. PICK len \in Nat : len = Len(pclusters) /\ pclusters \in Seq(PcType)
    BY DEF CollatorInv, CollatorTypeOK, PcType
  <2> DEFINE last == Pcluster("HEAD1", open.head, open.n + 1)
  <2>1. /\ Closed = Append(pclusters, Pcluster("HEAD1", open.head, open.n))
        /\ Closed' = Append(pclusters, last)
        /\ open.head + open.n = i /\ open.head \in Nat /\ open.n \in Nat
    BY <1>1, AbsorbCloses
  <2>2. <<open.head, i>> \in Src.grows
    BY <1>1 DEF Absorb, Grows
  <2>3. Len(Closed) = len + 1 /\ Len(Closed') = len + 1 /\ Closed'[len + 1] = last
    BY <2>0, <2>1
  <2>4. \A p \in 1 .. len : Closed[p] = pclusters[p] /\ Closed'[p] = pclusters[p]
    BY <2>0, <2>1
  <2>5. last.head = open.head /\ last.n = open.n + 1
    BY DEF Pcluster
  <2> HIDE DEF last
  <2>6. last.head + last.n - 1 = i
    BY <2>1, <2>5
  <2>7. ASSUME NEW p \in 1 .. len + 1
        PROVE  Closed'[p].n = 1 \/ <<Closed'[p].head, Closed'[p].head + Closed'[p].n - 1>> \in Src.grows
    <3>1. CASE p = len + 1
      BY <2>2, <2>3, <2>5, <2>6, <3>1
    <3>2. CASE p # len + 1
      <4>1. p \in 1 .. len
        BY <3>2
      <4> QED BY <2>3, <2>4, <4>1 DEF FramesFit
    <3> QED BY <3>1, <3>2
  <2> QED BY <1>0, <2>3, <2>7 DEF FramesFit
<1>2. CASE StartHead \/ StartPlain
  <2>0. PICK len \in Nat : len = Len(Closed) /\ Closed \in Seq(PcType)
    BY ClosedType DEF CollatorInv
  <2>1. PICK type \in {"HEAD1", "PLAIN"} : Closed' = Append(Closed, Pcluster(type, i, 1))
    BY <1>2, BeginCloses
  <2>2. Len(Closed') = len + 1 /\ Closed'[len + 1].n = 1
    BY <2>0, <2>1 DEF Pcluster
  <2>3. \A p \in 1 .. len : Closed'[p] = Closed[p]
    BY <2>0, <2>1
  <2>4. ASSUME NEW p \in 1 .. len + 1
        PROVE  Closed'[p].n = 1 \/ <<Closed'[p].head, Closed'[p].head + Closed'[p].n - 1>> \in Src.grows
    <3>1. CASE p = len + 1
      BY <2>2, <3>1
    <3>2. CASE p # len + 1
      <4>1. p \in 1 .. len
        BY <3>2
      <4> QED BY <2>0, <2>3, <4>1 DEF FramesFit
    <3> QED BY <3>1, <3>2
  <2> QED BY <1>0, <2>2, <2>4 DEF FramesFit
<1>3. CASE Finish \/ Failed
  <2>1. Closed' = Closed
    <3>1. CASE Finish
      BY <3>1 DEF Finish, Closed, IsOpen, NoneOpen
    <3>2. CASE Failed
      BY <1>0, <3>2 DEF Failed, Closed, IsOpen, Pcluster, Target
    <3> QED BY <1>3, <3>1, <3>2
  <2> QED BY <1>0, <2>1 DEF FramesFit
<1> QED BY <1>1, <1>2, <1>3 DEF Collate, TooFar, PlainTooLong, BlocksOverflow

\* Closing leaves every pcluster its blocks.
LEMMA ClosedBlocks ==
  ASSUME CollatorInv, BlocksEach, st # "image"
  PROVE  \A p \in 1 .. Len(Closed) : Closed[p].blocks = Target
<1>1. PICK len \in Nat : len = Len(pclusters) /\ pclusters \in Seq(PcType)
  BY DEF CollatorInv, CollatorTypeOK, PcType
<1>2. \A p \in 1 .. len : pclusters[p].blocks = Target
  BY <1>1 DEF BlocksEach
<1>3. CASE IsOpen
  <2>1. Closed = Append(pclusters, Pcluster("HEAD1", open.head, open.n))
    BY <1>3 DEF Closed
  <2>2. Len(Closed) = len + 1 /\ Closed[len + 1].blocks = Target
    BY <1>1, <2>1 DEF Pcluster
  <2>3. \A p \in 1 .. len : Closed[p] = pclusters[p]
    BY <1>1, <2>1
  <2>4. ASSUME NEW p \in 1 .. len + 1 PROVE Closed[p].blocks = Target
    <3>1. CASE p = len + 1
      BY <2>2, <3>1
    <3>2. CASE p # len + 1
      <4>1. p \in 1 .. len
        BY <3>2
      <4> QED BY <1>2, <2>3, <4>1
    <3> QED BY <3>1, <3>2
  <2> QED BY <2>2, <2>4
<1>4. CASE ~IsOpen
  BY <1>1, <1>2, <1>4 DEF Closed
<1> QED BY <1>3, <1>4

\* Each pcluster keeps its blocks while others are collated.
LEMMA BlocksStay ==
  ASSUME CollatorInv, BlocksEach, Collate
  PROVE  BlocksEach'
<1>0. Target' = Target /\ st # "image" /\ st = "collate"
  BY DEF Collate, Absorb, TooFar, StartHead, StartPlain, PlainTooLong, BlocksOverflow, Finish, Failed,
         Src, Target, Collating
<1>1. \A p \in 1 .. Len(Closed) : Closed[p].blocks = Target
  BY <1>0, ClosedBlocks
<1>2. CASE pclusters' = pclusters
  <2>1. \A p \in 1 .. Len(pclusters) : pclusters[p].blocks = Target
    BY <1>0 DEF BlocksEach
  <2> QED BY <1>0, <1>2, <2>1 DEF BlocksEach
<1>3. CASE pclusters' = Closed
  BY <1>0, <1>1, <1>3 DEF BlocksEach
<1>4. CASE pclusters' = Append(Closed, Pcluster("PLAIN", i, 1))
  <2>0. PICK len \in Nat : len = Len(Closed) /\ Closed \in Seq(PcType)
    BY ClosedType DEF CollatorInv
  <2>1. Len(pclusters') = len + 1 /\ pclusters'[len + 1].blocks = Target
    BY <2>0, <1>4 DEF Pcluster
  <2>2. \A p \in 1 .. len : pclusters'[p] = Closed[p]
    BY <2>0, <1>4
  <2>3. ASSUME NEW p \in 1 .. len + 1 PROVE pclusters'[p].blocks = Target
    <3>1. CASE p = len + 1
      BY <2>1, <3>1
    <3>2. CASE p # len + 1
      <4>1. p \in 1 .. len
        BY <3>2
      <4> QED BY <1>1, <2>0, <2>2, <4>1
    <3> QED BY <3>1, <3>2
  <2> QED BY <1>0, <2>1, <2>3 DEF BlocksEach
<1> QED BY <1>2, <1>3, <1>4
  DEF Collate, Absorb, TooFar, StartHead, StartPlain, PlainTooLong, BlocksOverflow, Finish, Failed

-----------------------------------------------------------------------------
\* A set of numbers has a least.
LEMMA NatMin ==
  ASSUME NEW T \in SUBSET Nat, T # {}
  PROVE  \E x \in T : \A y \in T : ~(y < x)
<1>1. \E x \in T : \A y \in T : ~(<<y, x>> \in OpToRel(<, Nat))
  BY NatLessThanWellFounded, WFMin
<1> QED BY <1>1 DEF OpToRel

\* Induction, with a set in the place of a predicate.
LEMMA NatInd ==
  ASSUME NEW S \in SUBSET Nat, 0 \in S, \A n \in S : n + 1 \in S
  PROVE  S = Nat
<1> SUFFICES ASSUME S # Nat PROVE FALSE
  OBVIOUS
<1>1. PICK x \in Nat \ S : \A y \in Nat \ S : ~(y < x)
  BY NatMin
<1>2. x # 0 /\ x - 1 \in Nat /\ x - 1 < x
  BY <1>1
<1>3. x - 1 \in S
  BY <1>1, <1>2
<1> QED BY <1>1, <1>2, <1>3

\* Pclusters of `each` blocks, of which the last may have none.
Each(pcs, each) ==
  \A p \in 1 .. Len(pcs) : pcs[p].blocks = each \/ (p = Len(pcs) /\ pcs[p].blocks = 0)

\* Where pclusters lie that follow one another.
LEMMA AddrFacts ==
  ASSUME NEW pcs \in Seq(PcType), NEW each \in Nat, Each(pcs, each)
  PROVE  /\ \A k \in 0 .. Len(pcs) : k < Len(pcs) \/ k = 0 => AddrsOf(pcs)[k] = FirstBlock + k * each
         /\ pcs # <<>> => AddrsOf(pcs)[Len(pcs)]
                          = FirstBlock + (Len(pcs) - 1) * each + pcs[Len(pcs)].blocks
<1>0. PICK len \in Nat, first \in Nat : len = Len(pcs) /\ first = FirstBlock
  BY PlaceAssumption
<1> DEFINE at == CHOOSE at : at = [k \in 0 .. Len(pcs) |->
                    IF k = 0 THEN FirstBlock ELSE at[k - 1] + pcs[k].blocks]
           Closed0(k) == first + k * each
           f == [k \in 0 .. len |-> IF k = 0 THEN first
                                    ELSE first + (k - 1) * each + pcs[k].blocks]
<1>1. AddrsOf(pcs) = at
  BY DEF AddrsOf
<1>2. \A k \in 1 .. len : k < len => pcs[k].blocks = each
  BY <1>0 DEF Each
<1>3. \A k \in 1 .. len : (k - 1) * each + each = k * each
  <2>1. \A u, v \in Int : (u - 1) * v + v = u * v
    OBVIOUS
  <2> QED BY <2>1
<1>4. \A k \in 0 .. len : k < len => f[k] = first + k * each
  <2> SUFFICES ASSUME NEW k \in 0 .. len, k < len PROVE f[k] = first + k * each
    OBVIOUS
  <2>1. CASE k = 0
    BY <2>1
  <2>2. CASE k # 0
    <3>1. k \in 1 .. len /\ pcs[k].blocks = each
      BY <1>2, <2>2
    <3>2. f[k] = first + (k - 1) * each + each
      BY <2>2, <3>1
    <3>3. PICK a \in Int, b \in Int : a = (k - 1) * each /\ b = k * each
      OBVIOUS
    <3>4. a + each = b
      BY <1>3, <3>1, <3>3
    <3> HIDE DEF f
    <3> QED BY <3>2, <3>3, <3>4
  <2> QED BY <2>1, <2>2
<1>5. f = [k \in 0 .. len |-> IF k = 0 THEN first ELSE f[k - 1] + pcs[k].blocks]
  <2>1. ASSUME NEW k \in 0 .. len, k # 0 PROVE f[k] = f[k - 1] + pcs[k].blocks
    <3>1. f[k - 1] = first + (k - 1) * each
      <4>1. k - 1 \in 0 .. len /\ k - 1 < len
        BY <2>1
      <4> HIDE DEF f
      <4> QED BY <1>4, <4>1
    <3>2. f[k] = first + (k - 1) * each + pcs[k].blocks
      BY <2>1
    <3> HIDE DEF f
    <3> QED BY <3>1, <3>2
  <2>2. \A k \in 0 .. len : f[k] = IF k = 0 THEN first ELSE f[k - 1] + pcs[k].blocks
    BY <2>1
  <2>3. f = [k \in 0 .. len |-> f[k]]
    OBVIOUS
  <2> HIDE DEF f
  <2> QED BY <2>2, <2>3
<1>6. at = [k \in 0 .. len |-> IF k = 0 THEN first ELSE at[k - 1] + pcs[k].blocks]
  <2>1. \E g : g = [k \in 0 .. len |-> IF k = 0 THEN first ELSE g[k - 1] + pcs[k].blocks]
    <3> HIDE DEF f
    <3> QED BY <1>5
  <2> HIDE DEF f
  <2> QED BY <1>0, <2>1
<1> HIDE DEF at, f
<1> DEFINE S == {m \in Nat : m <= len => at[m] = f[m]}
<1>7. 0 \in S
  BY <1>5, <1>6
<1>8. ASSUME NEW m \in S PROVE m + 1 \in S
  <2> SUFFICES ASSUME m + 1 <= len PROVE at[m + 1] = f[m + 1]
    OBVIOUS
  <2>1. m + 1 \in 0 .. len /\ m + 1 # 0 /\ (m + 1) - 1 = m /\ at[m] = f[m]
    OBVIOUS
  <2>2. at[m + 1] = at[(m + 1) - 1] + pcs[m + 1].blocks
    BY <1>6, <2>1
  <2>3. f[m + 1] = f[(m + 1) - 1] + pcs[m + 1].blocks
    BY <1>5, <2>1
  <2> QED BY <2>1, <2>2, <2>3
<1>9. S = Nat
  <2> HIDE DEF S
  <2>1. S \in SUBSET Nat
    BY DEF S
  <2> QED BY <1>7, <1>8, <2>1, NatInd
<1>10. \A k \in 0 .. len : at[k] = f[k]
  BY <1>9
<1>11. ASSUME NEW k \in 0 .. len, k < len \/ k = 0 PROVE at[k] = FirstBlock + k * each
  <2>1. CASE k = 0
    BY <1>0, <1>6, <2>1
  <2>2. CASE k # 0
    BY <1>0, <1>4, <1>10, <1>11, <2>2
  <2> QED BY <2>1, <2>2
<1>12. ASSUME pcs # <<>> PROVE at[len] = FirstBlock + (len - 1) * each + pcs[len].blocks
  <2>1. len # 0 /\ len \in 0 .. len
    BY <1>0, <1>12
  <2>2. f[len] = first + (len - 1) * each + pcs[len].blocks
    BY <2>1 DEF f
  <2> QED BY <1>0, <1>10, <2>1, <2>2
<1> QED BY <1>0, <1>1, <1>11, <1>12

\* What an inlined tail makes of the pclusters.
LEMMA StolenFacts ==
  ASSUME CollatorInv, BlocksEach, FramesFit, NEW place, Emit(place)
  PROVE  LET len == Len(pclusters) IN
         /\ pclusters' = Stolen(pclusters) /\ pclusters' \in Seq(PcType) /\ Len(pclusters') = len
         /\ \A p \in 1 .. len : /\ pclusters'[p].head = pclusters[p].head
                                /\ pclusters'[p].n = pclusters[p].n
                                /\ pclusters'[p].type = pclusters[p].type
                                /\ (pclusters'[p].blocks = Target
                                     \/ (p = len /\ pclusters'[p].blocks = 0))
         /\ total' = IF pclusters' = <<>> THEN 0 ELSE (len - 1) * Target + pclusters'[len].blocks
<1>0. PICK len \in Nat : len = Len(pclusters) /\ pclusters \in Seq(PcType)
  BY DEF CollatorInv, CollatorTypeOK, PcType
<1> DEFINE pcs == Stolen(pclusters)
<1>1. /\ pclusters' = pcs /\ st = "planned" /\ Target \in Nat /\ Target > 0
      /\ total' = IF pcs = pclusters THEN total ELSE total - Target
  BY FileFacts DEF Emit, CollatorInv, CollatorTypeOK
<1>2. total = Target * len /\ total \in Nat
  BY <1>0, <1>1 DEF CollatorInv, BlocksCounted, CollatorTypeOK
<1>3. \A p \in 1 .. len : pclusters[p].blocks = Target /\ pclusters[p] \in PcType
  BY <1>0, <1>1 DEF BlocksEach
<1>4. len > 0 => (len - 1) * Target + Target = Target * len
  <2>1. \A u, v \in Int : (u - 1) * v + v = v * u
    OBVIOUS
  <2> QED BY <1>1, <2>1
<1>5. CASE requested /\ pclusters # <<>>
  <2>1. len >= 1 /\ pcs = [pclusters EXCEPT ![len] = [pclusters[len] EXCEPT !.blocks = 0]]
    BY <1>0, <1>5 DEF Stolen
  <2>2. [pclusters[len] EXCEPT !.blocks = 0] \in PcType /\ pclusters[len] \in PcType
    BY <1>3, <2>1 DEF PcType
  <2> HIDE DEF pcs
  <2>3. pcs \in Seq(PcType) /\ Len(pcs) = len
    BY <1>0, <2>1, <2>2
  <2>4. /\ pcs[len].head = pclusters[len].head /\ pcs[len].n = pclusters[len].n
        /\ pcs[len].type = pclusters[len].type /\ pcs[len].blocks = 0
    BY <1>0, <2>1, <2>2 DEF PcType
  <2>5. \A p \in 1 .. len : p # len => pcs[p] = pclusters[p]
    BY <1>0, <2>1
  <2>6. pcs # pclusters /\ pcs # <<>>
    <3>1. pcs[len].blocks # pclusters[len].blocks
      BY <1>1, <1>3, <2>1, <2>4
    <3>2. pcs # <<>>
      BY <2>1, <2>3
    <3> QED BY <3>1, <3>2
  <2>7. total' = (len - 1) * Target + pcs[len].blocks
    <3>1. PICK a \in Int : a = (len - 1) * Target
      BY <1>1
    <3>2. total = a + Target
      BY <1>2, <1>4, <2>1, <3>1
    <3>3. total' = total - Target
      BY <1>1, <2>6
    <3> QED BY <1>1, <2>4, <3>1, <3>2, <3>3
  <2>8. \A p \in 1 .. len : /\ pcs[p].head = pclusters[p].head
                           /\ pcs[p].n = pclusters[p].n
                           /\ pcs[p].type = pclusters[p].type
                           /\ (pcs[p].blocks = Target \/ (p = len /\ pcs[p].blocks = 0))
    BY <1>3, <2>4, <2>5
  <2>9. pclusters' = Stolen(pclusters) /\ pclusters' = pcs
    BY <1>1 DEF pcs
  <2> QED BY <1>0, <2>3, <2>6, <2>7, <2>8, <2>9
<1>6. CASE ~(requested /\ pclusters # <<>>)
  <2>1. pcs = pclusters
    BY <1>6 DEF Stolen
  <2>2. pclusters = <<>> \/ len >= 1
    BY <1>0
  <2>3. pclusters # <<>> => total = (len - 1) * Target + pclusters[len].blocks
    <3> SUFFICES ASSUME pclusters # <<>> PROVE total = (len - 1) * Target + pclusters[len].blocks
      OBVIOUS
    <3>1. pclusters[len].blocks = Target
      BY <1>0, <1>3, <2>2
    <3> QED BY <1>2, <1>4, <2>2, <3>1
  <2>4. pclusters = <<>> => total = 0
    BY <1>0, <1>1, <1>2
  <2>5. pclusters' = Stolen(pclusters) /\ pclusters' = pclusters
    BY <1>1, <2>1
  <2>6. total' = IF pclusters' = <<>> THEN 0 ELSE (len - 1) * Target + pclusters'[len].blocks
    <3>1. total' = total
      BY <1>1, <2>1
    <3> QED BY <2>3, <2>4, <2>5, <3>1
  <2> HIDE DEF pcs
  <2> QED BY <1>0, <1>3, <2>5, <2>6
<1> QED BY <1>5, <1>6

-----------------------------------------------------------------------------

\* Nothing is written at first.
LEMMA WriterInit ==
  ASSUME Init
  PROVE  WriterInv
<1>1. Closed = <<>> /\ pclusters = <<>> /\ st = "collate"
  BY FileFacts DEF Init, CollatorInit, Closed, IsOpen
<1>2. FramesFit /\ BlocksEach
  BY <1>1 DEF FramesFit, BlocksEach
<1> QED BY <1>1, <1>2 DEF WriterInv, Init

\* Collating leaves the index for later.
LEMMA CollateWriter ==
  ASSUME CollatorInv, WriterInv, Collate, UNCHANGED <<disk, table, plan, requested, readerVars>>
  PROVE  WriterInv'
<1>1. FramesFit' /\ BlocksEach'
  BY FramesStayFit, BlocksStay DEF WriterInv
<1>2. st = "collate" /\ st' # "image" /\ (st' = "planned" => i' = Src'.n)
  BY DEF Collate, Absorb, TooFar, StartHead, StartPlain, PlainTooLong, BlocksOverflow, Finish, Failed,
         Src, Collating
<1>3. disk' = NoDisk /\ ReaderInit'
  BY <1>2 DEF WriterInv, ReaderInit, readerVars
<1> QED BY <1>1, <1>2, <1>3 DEF WriterInv

\* What is written is the plan.
LEMMA EmitWriter ==
  ASSUME CollatorInv, WriterInv, NEW place \in Place[file], Emit(place)
  PROVE  WriterInv'
<1>0. PICK len \in Nat : len = Len(pclusters)
  BY DEF CollatorInv, CollatorTypeOK
<1> DEFINE pcs == Stolen(pclusters)
           addrs == AddrsOf(pcs)
           end(p) == Lesser((pcs[p].head + pcs[p].n) * LcBlocks, Size)
           inode == [format |-> place[1], bodyEnd |-> place[2], n |-> Src.n, size |-> Size,
                     inline |-> pcs # pclusters,
                     index |-> IF place[1] = "legacy"
                               THEN EncodeLegacy(place[2], Addressed(addrs))
                               ELSE EncodeCompact(place[2], Addressed(addrs))]
<1>1. /\ pclusters' = pcs /\ st = "planned" /\ st' = "image"
      /\ UNCHANGED <<file, i, open, entries, requested, readerVars>>
      /\ disk' = inode /\ table' = TableOf(inode)
      /\ plan' = [p \in DOMAIN pcs |->
                      [start |-> pcs[p].head * LcBlocks, end |-> end(p),
                       addr |-> addrs[p - 1], type |-> TypeCode(pcs[p].type)]]
  BY DEF Emit
<1>2. Src' = Src /\ Size' = Size /\ Target' = Target
  BY <1>1 DEF Src, Size, Target
<1>3. /\ pclusters' \in Seq(PcType) /\ Len(pclusters') = len
      /\ \A p \in 1 .. len : /\ pclusters'[p].head = pclusters[p].head
                             /\ pclusters'[p].n = pclusters[p].n
                             /\ pclusters'[p].type = pclusters[p].type
                             /\ (pclusters'[p].blocks = Target
                                  \/ (p = len /\ pclusters'[p].blocks = 0))
      /\ total' = IF pclusters' = <<>> THEN 0 ELSE (len - 1) * Target + pclusters'[len].blocks
  BY <1>0, StolenFacts DEF WriterInv
<1>4. FramesFit'
  <2>1. ~IsOpen /\ ~IsOpen'
    BY <1>1 DEF CollatorInv, Settled, IsOpen, NoneOpen
  <2>2. Closed = pclusters /\ Closed' = pclusters'
    BY <2>1 DEF Closed
  <2>3. \A p \in 1 .. len :
          pclusters'[p].n = 1 \/ <<pclusters'[p].head, pclusters'[p].head + pclusters'[p].n - 1>> \in Src.grows
    BY <1>0, <1>3, <2>2 DEF WriterInv, FramesFit
  <2> QED BY <1>2, <1>3, <2>2, <2>3 DEF FramesFit
<1>5. BlocksEach'
  BY <1>1, <1>2, <1>3 DEF BlocksEach
<1>6. PlanIs'
  <2>1. Each(pclusters', Target) /\ Target \in Nat
    BY <1>3, FileFacts DEF Each, CollatorInv, CollatorTypeOK
  <2>2. ASSUME NEW p \in DOMAIN pcs PROVE addrs[p - 1] = FirstBlock + (p - 1) * Target
    <3>1. p \in 1 .. len
      BY <1>1, <1>3
    <3>2. p - 1 \in 0 .. len /\ p - 1 < len
      BY <3>1
    <3> HIDE DEF pcs
    <3> QED BY <1>1, <1>3, <2>1, <3>2, AddrFacts
  <2> HIDE DEF pcs, addrs
  <2>3. plan' = [p \in DOMAIN pcs |->
                      [start |-> pcs[p].head * LcBlocks,
                       end |-> Lesser((pcs[p].head + pcs[p].n) * LcBlocks, Size),
                       addr |-> AddrOf(p)', type |-> TypeCode(pcs[p].type)]]
    BY <1>1, <1>2, <2>2 DEF AddrOf
  <2> QED BY <1>1, <1>2, <2>3 DEF PlanIs
<1>7. TotalIs'
  BY <1>2, <1>3 DEF TotalIs
<1>8. WrittenAt(place)' /\ place \in Place[file]'
  <2>1. /\ disk' = inode /\ table' = TableOf(disk)'
    BY <1>1 DEF TableOf
  <2>2. Addressed(AddrsOf(pclusters))' = Addressed(addrs)
    BY <1>1 DEF Addressed, AddrsOf
  <2>3. /\ disk'.format = place[1] /\ disk'.bodyEnd = place[2] /\ disk'.n = Src.n /\ disk'.size = Size
        /\ disk'.inline \in BOOLEAN
        /\ disk'.index = IF place[1] = "legacy" THEN EncodeLegacy(place[2], Addressed(addrs))
                         ELSE EncodeCompact(place[2], Addressed(addrs))
    BY <2>1
  <2>4. disk' = [format |-> place[1], bodyEnd |-> place[2], n |-> Src.n, size |-> Size,
                 inline |-> disk'.inline, index |-> disk'.index]
    BY <2>1, <2>3
  <2>5. (IF place[1] = "legacy" THEN EncodeLegacy(place[2], Addressed(AddrsOf(pclusters)))
         ELSE EncodeCompact(place[2], Addressed(AddrsOf(pclusters))))'
        = IF place[1] = "legacy" THEN EncodeLegacy(place[2], Addressed(addrs))
          ELSE EncodeCompact(place[2], Addressed(addrs))
    BY <2>2
  <2> HIDE DEF inode, addrs, pcs
  <2> QED BY <1>1, <1>2, <2>1, <2>3, <2>4, <2>5 DEF WrittenAt
<1> QED BY <1>1, <1>2, <1>4, <1>5, <1>6, <1>7, <1>8 DEF WriterInv, CollatorInv, CollatorTypeOK

\* Reading changes nothing of what was written.
LEMMA ReadWriter ==
  ASSUME CollatorInv, WriterInv, Read \/ UNCHANGED readerVars, UNCHANGED <<disk, table, plan, collatorVars, requested>>
  PROVE  WriterInv'
<1>1. /\ UNCHANGED <<disk, table, plan, file, st, i, open, pclusters, entries, total>>
  BY DEF collatorVars
<1>2. Closed' = Closed /\ Src' = Src /\ Target' = Target /\ Size' = Size
  BY <1>1 DEF Closed, IsOpen, Pcluster, Target, Src, Size
<1>3. st # "image" => ReaderInit'
  <2> SUFFICES ASSUME st # "image" PROVE ReaderInit'
    OBVIOUS
  <2>1. disk.format = "none" /\ rpc = "idle" /\ ReaderInit
    BY DEF WriterInv, NoDisk, ReaderInit
  <2>2. ~Read
    BY <2>1 DEF Read, ReadStep, Ask, SeekHead, SeekBack, SeekNonhead, SeekRefused,
                ScanPast, ScanHead, ScanRefused, ScanOut
  <2> QED BY <2>1, <2>2 DEF ReaderInit, readerVars
<1>4. FramesFit' /\ BlocksEach'
  BY <1>1, <1>2 DEF WriterInv, FramesFit, BlocksEach
<1>5. st = "image" => PlanIs' /\ TotalIs' /\ \E place \in Place[file] : WrittenAt(place)'
  <2> SUFFICES ASSUME st = "image" PROVE PlanIs' /\ TotalIs' /\ \E place \in Place[file] : WrittenAt(place)'
    OBVIOUS
  <2>1. PICK place \in Place[file] : WrittenAt(place)
    BY DEF WriterInv
  <2>2. Addressed(AddrsOf(pclusters))' = Addressed(AddrsOf(pclusters))
    BY <1>1 DEF Addressed, AddrsOf
  <2>3. WrittenAt(place)'
    BY <1>1, <1>2, <2>1, <2>2 DEF WrittenAt, TableOf
  <2>4. PlanIs' /\ TotalIs'
    BY <1>1, <1>2 DEF WriterInv, PlanIs, TotalIs, AddrOf
  <2> QED BY <2>3, <2>4
<1> QED BY <1>1, <1>2, <1>3, <1>4, <1>5 DEF WriterInv

-----------------------------------------------------------------------------
(***************************************************************************)
(* The reader's walks.                                                     *)
(***************************************************************************)
\* The pclusters of a tiling follow one another.
LEMMA TilesApart ==
  ASSUME NEW all \in Seq(PcType), NEW upto \in Nat, Tile(all, upto),
         NEW p \in 1 .. Len(all), NEW q \in 1 .. Len(all), p < q
  PROVE  all[p].head + all[p].n <= all[q].head
<1>0. PICK len \in Nat : len = Len(all)
  OBVIOUS
<1>1. \A k \in 1 .. len - 1 : all[k + 1].head = all[k].head + all[k].n
  BY <1>0 DEF Tile
<1>2. \A k \in 1 .. len : all[k].head \in Nat /\ all[k].n \in Nat
  <2>1. \A k \in 1 .. len : all[k] \in PcType
    BY <1>0
  <2> QED BY <2>1 DEF PcType
<1> DEFINE S == {m \in Nat : p + 1 + m <= len => all[p].head + all[p].n <= all[p + 1 + m].head}
<1>3. 0 \in S
  <2>1. p + 1 + 0 <= len => all[p + 1].head = all[p].head + all[p].n
    BY <1>0, <1>1
  <2>2. p + 1 + 0 = p + 1
    OBVIOUS
  <2>3. p + 1 <= len => all[p + 1].head \in Nat
    BY <1>0, <1>2
  <2> QED BY <1>0, <2>1, <2>2, <2>3
<1>4. ASSUME NEW m \in S PROVE m + 1 \in S
  <2> SUFFICES ASSUME p + 1 + (m + 1) <= len
               PROVE  all[p].head + all[p].n <= all[p + 1 + (m + 1)].head
    OBVIOUS
  <2>1. PICK k \in Nat : k = p + 1 + m
    BY <1>0
  <2>2. k \in 1 .. len - 1 /\ k + 1 = p + 1 + (m + 1) /\ k \in 1 .. len
    BY <1>0, <2>1
  <2>3. all[p].head + all[p].n <= all[k].head
    BY <2>1, <2>2
  <2>4. all[k + 1].head = all[k].head + all[k].n /\ all[k].n \in Nat /\ all[k].head \in Nat
    BY <1>1, <1>2, <2>2
  <2>5. all[p].head + all[p].n \in Nat
    BY <1>0, <1>2
  <2>6. \A a, b, c, d \in Nat : a <= b /\ d = b + c => a <= d
    OBVIOUS
  <2>7. all[k + 1].head \in Nat
    BY <2>4, SMTT(30)
  <2>8. PICK a \in Nat, b \in Nat, c \in Nat, d \in Nat :
          a = all[p].head + all[p].n /\ b = all[k].head /\ c = all[k].n /\ d = all[k + 1].head
    BY <2>4, <2>5, <2>7
  <2>9. a <= b /\ d = b + c
    BY <2>3, <2>4, <2>8
  <2>10. a <= d
    BY <2>6, <2>9
  <2> QED BY <2>2, <2>8, <2>10
<1>5. S = Nat
  <2> HIDE DEF S
  <2>1. S \in SUBSET Nat
    BY DEF S
  <2> QED BY <1>3, <1>4, <2>1, NatInd
<1>6. q - (p + 1) \in Nat /\ p + 1 + (q - (p + 1)) = q /\ q <= len
  BY <1>0
<1>7. q - (p + 1) \in S
  BY <1>5, <1>6
<1> QED BY <1>6, <1>7

\* What lies in a written file: an image's pclusters are those committed.
LEMMA WrittenFile ==
  ASSUME CollatorInv, WriterInv, st = "image"
  PROVE  /\ Closed = pclusters /\ pclusters \in Seq(PcType) /\ Tile(pclusters, Src.n) /\ i = Src.n
         /\ Src.n \in Nat /\ LcSize \in Nat /\ LcSize > 0 /\ Src.last \in 1 .. LcSize /\ LcBlocks = LcSize
         /\ entries \in Seq(EntryType) /\ Len(entries) = Src.n /\ file \in File
         /\ disk.n = Src.n /\ disk.size = Size
<1>1. ~IsOpen
  BY DEF CollatorInv, Settled, IsOpen, NoneOpen
<1>2. Closed = pclusters /\ pclusters \in Seq(PcType)
  BY <1>1 DEF Closed, CollatorInv, CollatorTypeOK, PcType
<1>3. i = Src.n /\ Tile(pclusters, Src.n)
  BY <1>2 DEF WriterInv, CollatorInv, PclustersTile
<1>4. \E place \in Place[file] : WrittenAt(place)
  BY DEF WriterInv
<1>5. disk.n = Src.n /\ disk.size = Size
  BY <1>4 DEF WrittenAt
<1>6. /\ Src.n \in Nat /\ LcSize \in Nat /\ LcSize > 0 /\ Src.last \in 1 .. LcSize /\ LcBlocks = LcSize
  <2>1. file \in File
    BY DEF CollatorInv, CollatorTypeOK
  <2>2. LcSize = LcBlocks /\ LcSize \in Nat /\ LcSize > 0
    BY CollatorAssumption, PlaceAssumption
  <2>3. Src.n \in Nat /\ Src.last \in 1 .. LcBlocks
    BY <2>1, CollatorAssumption DEF Src
  <2> QED BY <2>2, <2>3
<1> QED BY <1>2, <1>3, <1>5, <1>6 DEF CollatorInv, CollatorTypeOK, EntryType

\* Whose an lcluster is, and what its entry says of it.
LEMMA Owners ==
  ASSUME CollatorInv, WriterInv, st = "image", NEW k \in 0 .. Src.n - 1
  PROVE  LET p == OwnerOf(k) IN
         /\ p \in 1 .. Len(pclusters) /\ pclusters[p] \in PcType
         /\ Leads(entries[k + 1], k, pclusters[p])
         /\ entries[k + 1] \in EntryType /\ entries[k + 1].pc = p - 1
         /\ pclusters[p].head + pclusters[p].n <= Src.n
<1>0. PICK n \in Nat, len \in Nat : n = Src.n /\ len = Len(pclusters)
  BY WrittenFile
<1>1. entries[k + 1] \in EntryType
  BY WrittenFile
<1>2. /\ entries[k + 1].pc \in 0 .. len - 1
      /\ Leads(entries[k + 1], k, pclusters[entries[k + 1].pc + 1])
  BY <1>0, WrittenFile DEF CollatorInv, EntriesLeadHome
<1>3. PICK p \in 1 .. len : p = OwnerOf(k) /\ entries[k + 1].pc = p - 1
  BY <1>2 DEF OwnerOf
<1>4. pclusters[p] \in PcType
  BY <1>0, WrittenFile
<1>5. Leads(entries[k + 1], k, pclusters[p])
  BY <1>2, <1>3 DEF OwnerOf
<1>6. pclusters[p].head + pclusters[p].n <= n
  <2>1. pclusters # <<>> /\ len >= 1
    BY <1>0, WrittenFile
  <2>2. pclusters[len].head + pclusters[len].n = n
    BY <1>0, <2>1, WrittenFile DEF Tile
  <2>3. CASE p = len
    BY <1>0, <2>2, <2>3
  <2>4. CASE p # len
    <3>1. p < len /\ len \in 1 .. len
      BY <2>4, <2>1
    <3>2. pclusters[p].head + pclusters[p].n <= pclusters[len].head
      BY <1>0, <3>1, WrittenFile, TilesApart
    <3>3. pclusters[len] \in PcType
      BY <1>0, <3>1, WrittenFile
    <3>4. \A a, b, c, d \in Nat : a <= b /\ b + c = d => a <= d
      OBVIOUS
    <3>5. pclusters[p].head + pclusters[p].n \in Nat /\ pclusters[len].head \in Nat /\ pclusters[len].n \in Nat
      BY <1>4, <3>3 DEF PcType
    <3> QED BY <2>2, <3>2, <3>4, <3>5
  <2> QED BY <2>3, <2>4
<1> QED BY <1>0, <1>1, <1>3, <1>4, <1>5, <1>6

\* An lcluster has one owner.
LEMMA OwnerIsOne ==
  ASSUME CollatorInv, WriterInv, st = "image", NEW k \in 0 .. Src.n - 1,
         NEW p \in 1 .. Len(pclusters), pclusters[p].head <= k, k < pclusters[p].head + pclusters[p].n
  PROVE  OwnerOf(k) = p
<1>1. PICK q \in 1 .. Len(pclusters) : q = OwnerOf(k) /\ pclusters[q] \in PcType
                                       /\ Leads(entries[k + 1], k, pclusters[q])
  BY Owners
<1>2. pclusters[q].head <= k /\ k < pclusters[q].head + pclusters[q].n
  BY <1>1 DEF Leads
<1>3. PICK n \in Nat, len \in Nat : n = Src.n /\ len = Len(pclusters)
  BY WrittenFile
<1>4. pclusters[p] \in PcType
  BY WrittenFile
<1>5. PICK hp \in Nat, np \in Nat, hq \in Nat, nq \in Nat :
        /\ hp = pclusters[p].head /\ np = pclusters[p].n
        /\ hq = pclusters[q].head /\ nq = pclusters[q].n
  BY <1>1, <1>4 DEF PcType
<1>6. ~(p < q)
  <2> SUFFICES ASSUME p < q PROVE FALSE
    OBVIOUS
  <2>1. hp + np <= hq
    BY <1>5, WrittenFile, TilesApart
  <2> QED BY <1>2, <1>3, <1>5, <2>1
<1>7. ~(q < p)
  <2> SUFFICES ASSUME q < p PROVE FALSE
    OBVIOUS
  <2>1. hq + nq <= hp
    BY <1>5, WrittenFile, TilesApart
  <2> QED BY <1>2, <1>3, <1>5, <2>1
<1> QED BY <1>1, <1>3, <1>6, <1>7

\* What is read at an lcluster of pcluster p: a head at its first, and nowhere else.
LEMMA ReadOfOwner ==
  ASSUME CollatorInv, WriterInv, TableTold, st = "image", NEW k \in 0 .. Src.n - 1,
         NEW p \in 1 .. Len(pclusters), pclusters[p].head <= k, k < pclusters[p].head + pclusters[p].n
  PROVE  /\ k = pclusters[p].head =>
              /\ IsMapped(Entry(k)) /\ Entry(k).type = TypeCode(pclusters[p].type)
              /\ Entry(k).ofs = 0 /\ Entry(k).u = AddrOf(p)
         /\ k # pclusters[p].head =>
              /\ Entry(k).type = NONHEAD /\ Entry(k).u = k - pclusters[p].head
              /\ k - pclusters[p].head \in Nat /\ k - pclusters[p].head < 65536
         /\ Entry(k).type # -1 /\ (IsMapped(Entry(k)) <=> Entry(k).type # NONHEAD)
<1>1. /\ OwnerOf(k) = p /\ Leads(entries[k + 1], k, pclusters[p]) /\ entries[k + 1] \in EntryType
      /\ entries[k + 1].pc = p - 1 /\ pclusters[p] \in PcType
  BY Owners, OwnerIsOne
<1>2. Told(k)
  BY DEF TableTold
<1>3. PICK kind, own, delta, hd : /\ kind = entries[k + 1].type /\ own = pclusters[p].type
                                  /\ delta = entries[k + 1].lo /\ hd = pclusters[p].head
  OBVIOUS
<1>4. kind \in {"HEAD1", "PLAIN", "NONHEAD"} /\ delta \in Nat /\ delta < 65536 /\ hd \in Nat
  BY <1>1, <1>3, CollatorAssumption DEF EntryType, PcType
<1>5. /\ Entry(k).type = TypeCode(kind)
      /\ kind = "NONHEAD" => Entry(k).u = delta
      /\ kind # "NONHEAD" => Entry(k).ofs = 0 /\ Entry(k).u = AddrOf(p)
  <2>1. (p - 1) + 1 = p
    OBVIOUS
  <2> QED BY <1>1, <1>2, <1>3, <2>1 DEF Told, Entry
<1>6. /\ kind = "NONHEAD" => delta = k - hd /\ k > hd
      /\ kind # "NONHEAD" => k = hd /\ kind = own
  BY <1>1, <1>3 DEF Leads
<1>7. CASE kind = "NONHEAD"
  <2>1. Entry(k).type = NONHEAD /\ Entry(k).u = k - hd /\ k # hd
    BY <1>4, <1>5, <1>6, <1>7 DEF TypeCode
  <2>2. ~IsMapped(Entry(k)) /\ Entry(k).type # -1
    BY <2>1 DEF IsMapped, NONHEAD
  <2> QED BY <1>3, <1>4, <1>6, <1>7, <2>1, <2>2
<1>8. CASE kind # "NONHEAD"
  <2>1. k = hd /\ Entry(k).type = TypeCode(own) /\ Entry(k).ofs = 0 /\ Entry(k).u = AddrOf(p)
    BY <1>5, <1>6, <1>8
  <2>2. Entry(k).type \in {0, 1}
    BY <1>4, <1>5, <1>8 DEF TypeCode, PLAIN, HEAD1
  <2>3. IsMapped(Entry(k)) /\ Entry(k).type # NONHEAD /\ Entry(k).type # -1
    BY <2>2 DEF IsMapped, NONHEAD
  <2> QED BY <1>3, <2>1, <2>3
<1> QED BY <1>7, <1>8

\* A pcluster is no longer than the walk forward reaches.
LEMMA WithinReach ==
  ASSUME Agreed, CollatorInv, WriterInv, st = "image", NEW p \in 1 .. Len(pclusters)
  PROVE  pclusters[p].n <= Reach /\ Reach \in Nat
<1>1. Reach \in Nat /\ Reach >= 2
  <2>1. PICK q \in Int : q = MaxPcluster \div LcSize
    BY ReaderAssumption
  <2> QED BY <2>1 DEF Reach, Greater
<1>2. PICK pc \in PcType : pc = pclusters[p]
  BY WrittenFile
<1>3. pc.n = 1 \/ <<pc.head, pc.head + pc.n - 1>> \in Src.grows
  BY <1>2, WrittenFile DEF WriterInv, FramesFit
<1>4. CASE pc.n = 1
  BY <1>1, <1>2, <1>4
<1>5. CASE <<pc.head, pc.head + pc.n - 1>> \in Src.grows
  <2>1. (pc.head + pc.n - 1) - pc.head < Reach
    BY <1>5, WrittenFile DEF Agreed, Src
  <2>2. \A a, b \in Nat : (a + b - 1) - a = b - 1
    OBVIOUS
  <2>3. pc.n - 1 < Reach /\ pc.n \in Nat
    BY <2>1, <2>2 DEF PcType
  <2> QED BY <1>1, <1>2, <2>3
<1> QED BY <1>3, <1>4, <1>5

\* Where an offset of the file lies.
LEMMA Offsets ==
  ASSUME CollatorInv, WriterInv, st = "image", NEW x \in 0 .. Size - 1
  PROVE  /\ x \div LcSize \in 0 .. Src.n - 1 /\ x % LcSize \in Nat
         /\ (x \div LcSize) * LcSize <= x /\ x < (x \div LcSize + 1) * LcSize
         /\ Size \in Nat /\ Size > 0 /\ Src.n > 0 /\ (Src.n - 1) * LcSize < Size /\ Size <= Src.n * LcSize
<1>1. PICK n \in Nat, last \in Nat, lz \in Nat : /\ n = Src.n /\ last = Src.last /\ lz = LcSize
                                                /\ lz > 0 /\ last >= 1 /\ last <= lz
  BY WrittenFile
<1>2. Size = IF n = 0 THEN 0 ELSE (n - 1) * lz + last
  BY <1>1, PlaceAssumption DEF Size
<1>3. n # 0
  BY <1>2
<1>4. Size = (n - 1) * lz + last
  BY <1>2, <1>3
<1>5. PICK m \in Nat : m = n - 1
  BY <1>3
<1>6. PICK s \in Nat : s = m * lz
  OBVIOUS
<1>7. n * lz = s + lz
  <2>1. \A u, v \in Int : u * v = (u - 1) * v + v
    OBVIOUS
  <2> QED BY <1>5, <1>6, <2>1
<1>8. Size = s + last
  BY <1>4, <1>5, <1>6
<1>9. PICK q \in Int, r \in Int : q = x \div lz /\ r = x % lz
  BY <1>1
<1>10. x = lz * q + r /\ 0 <= r /\ r < lz
  BY <1>1, <1>8, <1>9
<1>11. q >= 0
  BY <1>1, <1>8, <1>10, SMTT(30)
<1>12. q < n
  <2> SUFFICES ASSUME q >= n PROVE FALSE
    BY <1>1
  <2>1. \A a, b, c \in Nat : a >= b => c * a >= c * b
    BY SMTT(30)
  <2>2. lz * q >= lz * n
    BY <1>1, <1>11, <2>1
  <2>3. lz * n = n * lz
    BY <1>1
  <2> QED BY <1>1, <1>7, <1>8, <1>10, <2>2, <2>3
<1>13. (x \div LcSize) * LcSize = lz * q /\ (x \div LcSize + 1) * LcSize = lz * q + lz
  BY <1>1, <1>9
<1>14. (Src.n - 1) * LcSize = s
  BY <1>1, <1>5, <1>6
<1> QED BY <1>1, <1>3, <1>7, <1>8, <1>9, <1>10, <1>11, <1>12, <1>13, <1>14

\* The parts of the state a reader needs.
Readable == Agreed /\ CollatorInv /\ WriterInv /\ TableTold /\ ReaderInv /\ st = "image"

\* A head found for the offset sought.
LEMMA FoundStep ==
  ASSUME Readable, rpc = "seek", NEW p \in 1 .. Len(pclusters),
         OwnerOf(want \div LcSize) = p, NEW k, k = pclusters[p].head, FoundHead(k, Entry(k)),
         UNCHANGED <<collatorVars, disk, table, plan>>
  PROVE  ReaderInv'
<1>1. /\ rpc' = "scan" /\ want' = want /\ scan' = k + 1
      /\ head' = [at |-> k, type |-> Entry(k).type, ofs |-> Entry(k).ofs, u |-> Entry(k).u]
      /\ UNCHANGED <<entries, pclusters, st, file, disk, table>>
  BY DEF FoundHead, collatorVars
<1>2. pclusters[p] \in PcType /\ pclusters[p].head + pclusters[p].n <= Src.n
  <2>1. want \div LcSize \in 0 .. Src.n - 1
    BY Offsets DEF Readable, ReaderInv
  <2> QED BY <2>1, Owners DEF Readable
<1>3. k \in Nat /\ pclusters[p].n \in Nat /\ pclusters[p].n > 0 /\ Src.n \in Nat
  BY <1>2, WrittenFile DEF PcType, Readable
<1>4. k \in 0 .. Src.n - 1 /\ k < pclusters[p].head + pclusters[p].n
  BY <1>2, <1>3
<1>5. Entry(k).type = TypeCode(pclusters[p].type) /\ Entry(k).ofs = 0 /\ Entry(k).u = AddrOf(p)
  BY <1>3, <1>4, ReadOfOwner DEF Readable
<1>6. FoundOf(p)'
  <2>1. AddrOf(p)' = AddrOf(p)
    BY <1>1 DEF AddrOf, Target, Src
  <2> QED BY <1>1, <1>5, <2>1 DEF FoundOf
<1>7. (scan \in pclusters[p].head + 1 .. pclusters[p].head + pclusters[p].n)'
  BY <1>1, <1>3
<1>8. OwnerOf(want \div LcSize)' = p
  BY <1>1 DEF OwnerOf
<1>9. st' = "image" /\ want' \in 0 .. Size' - 1
  BY <1>1 DEF Readable, ReaderInv, Size, Src
<1> QED BY <1>1, <1>6, <1>7, <1>8, <1>9 DEF ReaderInv

\* A lookup begins anywhere in the file.
LEMMA AskStep ==
  ASSUME CollatorInv, WriterInv, ReaderInv, NEW x \in 0 .. disk.size - 1, Ask(x),
         UNCHANGED <<collatorVars, disk, table, plan>>
  PROVE  ReaderInv'
<1>1. /\ rpc' = "seek" /\ want' = x /\ lc' = x \div LcSize /\ inlc' = x % LcSize
      /\ UNCHANGED <<st, file>> /\ disk.format # "none"
  BY DEF Ask, collatorVars
<1>2. st = "image"
  BY <1>1 DEF WriterInv, NoDisk
<1>3. disk.size = Size /\ Size' = Size
  BY <1>1, <1>2, WrittenFile DEF Size, Src
<1> QED BY <1>1, <1>2, <1>3 DEF ReaderInv, Sought

\* The walk back goes to the head of the offset's owner, at once.
LEMMA SeekStep ==
  ASSUME Readable, SeekHead \/ SeekBack \/ SeekNonhead \/ SeekRefused,
         UNCHANGED <<collatorVars, disk, table, plan>>
  PROVE  ReaderInv'
<1>1. rpc = "seek"
  BY DEF SeekHead, SeekBack, SeekNonhead, SeekRefused
<1>2. lc = want \div LcSize /\ lc \in 0 .. Src.n - 1 /\ inlc \in Nat
  BY <1>1, Offsets DEF Readable, ReaderInv, Sought
<1>3. PICK p : p = OwnerOf(lc)
  OBVIOUS
<1>4. /\ p \in 1 .. Len(pclusters) /\ pclusters[p] \in PcType /\ Leads(entries[lc + 1], lc, pclusters[p])
      /\ pclusters[p].head + pclusters[p].n <= Src.n
  BY <1>2, <1>3, Owners DEF Readable
<1>5. PICK hd \in Nat, n \in Nat : hd = pclusters[p].head /\ n = pclusters[p].n /\ n > 0
  BY <1>4 DEF PcType
<1>6. hd <= lc /\ lc < hd + n
  BY <1>4, <1>5 DEF Leads
<1>7. /\ lc = hd => IsMapped(Entry(lc)) /\ Entry(lc).ofs = 0
      /\ lc # hd => /\ Entry(lc).type = NONHEAD /\ Entry(lc).u = lc - hd /\ lc - hd < 65536
      /\ Entry(lc).type # -1 /\ (IsMapped(Entry(lc)) <=> Entry(lc).type # NONHEAD)
  BY <1>2, <1>4, <1>5, <1>6, ReadOfOwner DEF Readable
<1>8. CASE SeekHead
  <2>1. IsMapped(Entry(lc)) /\ FoundHead(lc, Entry(lc))
    BY <1>8 DEF SeekHead
  <2>2. lc = hd
    BY <1>7, <2>1
  <2> QED BY <1>1, <1>2, <1>3, <1>4, <1>5, <2>1, <2>2, FoundStep
<1>9. CASE SeekBack
  <2>1. IsMapped(Entry(lc)) /\ Entry(lc).ofs > inlc
    BY <1>9 DEF SeekBack
  <2> QED BY <1>2, <1>7, <2>1
<1>10. CASE SeekNonhead
  <2>1. PICK back : back = Entry(lc).u % 65536
    OBVIOUS
  <2>2. /\ Entry(lc).type = NONHEAD
        /\ IF back = 0 \/ back > lc \/ ~IsMapped(Entry(lc - back)) THEN Answered(NoAnswer)
           ELSE FoundHead(lc - back, Entry(lc - back))
    BY <1>10, <2>1 DEF SeekNonhead
  <2>3. lc # hd /\ Entry(lc).u = lc - hd /\ lc - hd < 65536
    BY <1>7, <2>2
  <2>4. back = lc - hd
    BY <1>2, <1>5, <1>6, <2>1, <2>3
  <2>5. lc - back = hd /\ back # 0 /\ ~(back > lc)
    BY <1>2, <1>5, <1>6, <2>3, <2>4
  <2>6. IsMapped(Entry(hd))
    <3>1. hd \in 0 .. Src.n - 1 /\ hd < hd + n
      <4>1. Src.n \in Nat
        BY WrittenFile DEF Readable
      <4> QED BY <1>2, <1>5, <1>6, <4>1
    <3> QED BY <1>4, <1>5, <3>1, ReadOfOwner DEF Readable
  <2>7. FoundHead(hd, Entry(hd))
    BY <2>2, <2>5, <2>6
  <2> QED BY <1>1, <1>2, <1>3, <1>4, <1>5, <2>7, FoundStep
<1>11. CASE SeekRefused
  BY <1>7, <1>11 DEF SeekRefused
<1> QED BY <1>8, <1>9, <1>10, <1>11

\* The walk forward ends where the owner does.
LEMMA ScanStep ==
  ASSUME Readable, ScanPast \/ ScanHead \/ ScanRefused \/ ScanOut,
         UNCHANGED <<collatorVars, disk, table, plan>>
  PROVE  ReaderInv'
<1>1. rpc = "scan"
  BY DEF ScanPast, ScanHead, ScanRefused, ScanOut
<1>2. PICK k : k = want \div LcSize
  OBVIOUS
<1>3. k \in 0 .. Src.n - 1 /\ want \in 0 .. Size - 1
  BY <1>1, <1>2, Offsets DEF Readable, ReaderInv
<1>4. PICK p : p = OwnerOf(k)
  OBVIOUS
<1>5. /\ p \in 1 .. Len(pclusters) /\ pclusters[p] \in PcType
      /\ pclusters[p].head + pclusters[p].n <= Src.n
  BY <1>3, <1>4, Owners DEF Readable
<1>6. PICK hd \in Nat, n \in Nat : hd = pclusters[p].head /\ n = pclusters[p].n /\ n > 0
  BY <1>5 DEF PcType
<1>7. FoundOf(p) /\ scan \in hd + 1 .. hd + n
  BY <1>1, <1>2, <1>4, <1>6 DEF Readable, ReaderInv
<1>8. PICK all \in Nat : all = Src.n /\ hd + n <= all /\ disk.n = all
  BY <1>5, <1>6, WrittenFile DEF Readable
<1>9. UNCHANGED <<st, file, entries, pclusters, table, disk, plan>>
  BY DEF collatorVars
<1>10. OwnerOf(k)' = p /\ Size' = Size /\ AddrOf(p)' = AddrOf(p)
  BY <1>4, <1>9 DEF OwnerOf, Size, Src, AddrOf, Target
\* Before the end of the owner are its own entries, behind it a head.
<1>11. scan < hd + n => Entry(scan).type = NONHEAD
  <2> SUFFICES ASSUME scan < hd + n PROVE Entry(scan).type = NONHEAD
    OBVIOUS
  <2>1. scan \in 0 .. Src.n - 1 /\ hd <= scan /\ scan # hd
    BY <1>7, <1>8
  <2> QED BY <1>5, <1>6, <2>1, ReadOfOwner DEF Readable
<1>12. scan < all => Entry(scan).type # -1 /\ (IsMapped(Entry(scan)) <=> Entry(scan).type # NONHEAD)
  <2> SUFFICES ASSUME scan < all
               PROVE  Entry(scan).type # -1 /\ (IsMapped(Entry(scan)) <=> Entry(scan).type # NONHEAD)
    OBVIOUS
  <2>1. scan \in 0 .. Src.n - 1
    BY <1>7, <1>8
  <2>2. PICK q \in 1 .. Len(pclusters) : pclusters[q].head <= scan /\ scan < pclusters[q].head + pclusters[q].n
    BY <2>1, Owners DEF Readable, Leads
  <2> QED BY <2>1, <2>2, ReadOfOwner DEF Readable
<1>13. scan = hd + n /\ scan < all => IsMapped(Entry(scan)) /\ Entry(scan).ofs = 0
  <2> SUFFICES ASSUME scan = hd + n, scan < all PROVE IsMapped(Entry(scan)) /\ Entry(scan).ofs = 0
    OBVIOUS
  <2>1. scan \in 0 .. Src.n - 1
    BY <1>7, <1>8
  <2>2. PICK q : q = OwnerOf(scan)
    OBVIOUS
  <2>3. /\ q \in 1 .. Len(pclusters) /\ pclusters[q] \in PcType /\ Leads(entries[scan + 1], scan, pclusters[q])
    BY <2>1, <2>2, Owners DEF Readable
  <2>4. PICK hq \in Nat, nq \in Nat : hq = pclusters[q].head /\ nq = pclusters[q].n /\ nq > 0
    BY <2>3 DEF PcType
  <2>5. hq <= scan /\ scan < hq + nq
    BY <2>3, <2>4 DEF Leads
  <2>6. q # p
    BY <1>6, <2>4, <2>5
  <2>7. ~(q < p)
    <3> SUFFICES ASSUME q < p PROVE FALSE
      OBVIOUS
    <3>1. hq + nq <= hd
      BY <1>5, <1>6, <2>3, <2>4, WrittenFile, TilesApart DEF Readable
    <3> QED BY <1>6, <2>4, <2>5, <3>1
  <2>8. hd + n <= hq
    <3>1. p < q
      BY <1>5, <2>3, <2>6, <2>7, WrittenFile DEF Readable
    <3> QED BY <1>5, <1>6, <2>3, <2>4, <3>1, WrittenFile, TilesApart DEF Readable
  <2>9. scan = hq
    BY <1>6, <2>4, <2>5, <2>8
  <2> QED BY <2>1, <2>3, <2>4, <2>5, <2>9, ReadOfOwner DEF Readable
<1>14. ScanEnd = Lesser(hd + 1 + Reach, all) /\ n <= Reach /\ Reach \in Nat
  BY <1>5, <1>6, <1>7, <1>8, WithinReach DEF ScanEnd, FoundOf, Readable
\* Wherever it ends, the answer is the plan's.
<1>15. ASSUME NEW end, rpc' = "done", want' = want, ans' = Extent(end),
              Lesser(end, Size) = Lesser((hd + n) * LcSize, Size)
       PROVE  ReaderInv'
  <2>1. /\ plan[p].start = hd * LcSize /\ plan[p].end = Lesser((hd + n) * LcSize, Size)
        /\ plan[p].addr = AddrOf(p) /\ plan[p].type = TypeCode(pclusters[p].type)
    <3>1. PlanIs /\ LcBlocks = LcSize /\ DOMAIN pclusters = 1 .. Len(pclusters)
      BY WrittenFile DEF Readable, WriterInv
    <3> QED BY <1>5, <1>6, <3>1 DEF PlanIs
  <2>2. disk.size = Size
    BY WrittenFile DEF Readable
  <2>3. (Lesser(end, Size) >= Size) <=> (Lesser(end, Size) = Size)
    <3>1. Size \in Nat /\ LcSize \in Nat
      BY <1>3, Offsets, WrittenFile DEF Readable
    <3>2. PICK m \in Nat : m = (hd + n) * LcSize
      BY <3>1
    <3>3. Lesser(m, Size) \in Nat /\ Lesser(m, Size) <= Size
      BY <3>1 DEF Lesser
    <3> QED BY <1>15, <3>1, <3>2, <3>3
  <2>4. hd * LcSize + 0 = hd * LcSize
    BY WrittenFile DEF Readable
  <2>5. ans' = AnswerOf(p)
    BY <1>6, <1>7, <1>15, <2>1, <2>2, <2>3, <2>4 DEF Extent, AnswerOf, FoundOf
  <2>6. AnswerOf(p)' = AnswerOf(p)
    BY <1>9 DEF AnswerOf
  <2> QED BY <1>2, <1>3, <1>9, <1>10, <1>15, <2>5, <2>6 DEF ReaderInv, Readable
<1>16. CASE ScanPast
  <2>1. scan < ScanEnd /\ Entry(scan).type = NONHEAD /\ scan' = scan + 1 /\ UNCHANGED <<rpc, want, head>>
    BY <1>16 DEF ScanPast
  <2>2. scan < all
    BY <1>7, <1>14, <2>1 DEF Lesser
  <2>3. scan < hd + n
    BY <1>7, <1>12, <1>13, <2>1, <2>2
  <2>4. scan' \in hd + 1 .. hd + n
    BY <1>7, <2>1, <2>3
  <2>5. FoundOf(p)'
    BY <1>7, <1>9, <1>10, <2>1 DEF FoundOf
  <2> QED BY <1>1, <1>2, <1>3, <1>6, <1>9, <1>10, <2>1, <2>4, <2>5 DEF ReaderInv, Readable
<1>17. CASE ScanHead
  <2>1. scan < ScanEnd /\ IsMapped(Entry(scan)) /\ Answered(Extent(NextStart(Entry(scan))))
    BY <1>17 DEF ScanHead
  <2>2. scan < all
    BY <1>7, <1>14, <2>1 DEF Lesser
  <2>3. scan = hd + n
    BY <1>7, <1>11, <1>12, <2>1, <2>2
  <2>4. NextStart(Entry(scan)) = (hd + n) * LcSize
    <3>1. Entry(scan).ofs = 0
      BY <1>13, <2>2, <2>3
    <3>2. (hd + n) * LcSize + 0 = (hd + n) * LcSize
      BY WrittenFile DEF Readable
    <3> QED BY <2>3, <3>1, <3>2 DEF NextStart
  <2> QED BY <1>15, <2>1, <2>4 DEF Answered
<1>18. CASE ScanRefused
  <2>1. scan < ScanEnd /\ Entry(scan).type = -1
    BY <1>18 DEF ScanRefused
  <2>2. scan < all
    BY <1>7, <1>14, <2>1 DEF Lesser
  <2> QED BY <1>12, <2>1, <2>2
<1>19. CASE ScanOut
  <2>1. scan >= ScanEnd /\ Answered(Extent(disk.size)) /\ disk.size = Size
    BY <1>19, WrittenFile DEF ScanOut, Readable
  <2>2. hd + n = all
    BY <1>7, <1>8, <1>14, <2>1 DEF Lesser
  <2>3. Lesser(Size, Size) = Lesser((hd + n) * LcSize, Size)
    <3>1. Size \in Nat /\ Size <= Src.n * LcSize /\ LcSize \in Nat
      BY <1>3, Offsets, WrittenFile DEF Readable
    <3>2. PICK m \in Nat : m = Src.n * LcSize /\ m = (hd + n) * LcSize
      BY <1>8, <2>2, <3>1
    <3> QED BY <3>1, <3>2 DEF Lesser
  <2> QED BY <1>15, <2>1, <2>3 DEF Answered
<1> QED BY <1>16, <1>17, <1>18, <1>19

-----------------------------------------------------------------------------
(***************************************************************************)
(* The compact form: a pack read back slot by slot.                        *)
(***************************************************************************)
\* The powers of two that are needed.
LEMMA Powers == ASSUME NEW b \in 0 .. 14 PROVE 2^b \in Nat /\ 2^b > 0
<1>1. CASE b = 0
  BY <1>1
<1>2. CASE b = 1
  BY <1>2
<1>3. CASE b = 2
  BY <1>3
<1>4. CASE b = 3
  BY <1>4
<1>5. CASE b = 4
  BY <1>5
<1>6. CASE b = 5
  BY <1>6
<1>7. CASE b = 6
  BY <1>7
<1>8. CASE b = 7
  BY <1>8
<1>9. CASE b = 8
  BY <1>9
<1>10. CASE b = 9
  BY <1>10
<1>11. CASE b = 10
  BY <1>11
<1>12. CASE b = 11
  BY <1>12
<1>13. CASE b = 12
  BY <1>13
<1>14. CASE b = 13
  BY <1>14
<1>15. CASE b = 14
  BY <1>15
<1> QED BY <1>1, <1>2, <1>3, <1>4, <1>5, <1>6, <1>7, <1>8,
           <1>9, <1>10, <1>11, <1>12, <1>13, <1>14, <1>15

\* Bit by bit a number halves.
LEMMA Halves ==
  ASSUME NEW v \in Nat, NEW b \in 0 .. 13
  PROVE  v \div 2^b = ((v \div 2^b) % 2) + 2 * (v \div 2^(b + 1))
<1>1. CASE b = 0
  BY <1>1
<1>2. CASE b = 1
  BY <1>2
<1>3. CASE b = 2
  BY <1>3
<1>4. CASE b = 3
  BY <1>4
<1>5. CASE b = 4
  BY <1>5
<1>6. CASE b = 5
  BY <1>6
<1>7. CASE b = 6
  BY <1>7
<1>8. CASE b = 7
  BY <1>8
<1>9. CASE b = 8
  BY <1>9
<1>10. CASE b = 9
  BY <1>10
<1>11. CASE b = 10
  BY <1>11
<1>12. CASE b = 11
  BY <1>12
<1>13. CASE b = 12
  BY <1>13
<1>14. CASE b = 13
  BY <1>14
<1> QED BY <1>1, <1>2, <1>3, <1>4, <1>5, <1>6, <1>7,
           <1>8, <1>9, <1>10, <1>11, <1>12, <1>13, <1>14

\* The bits of a number are its bits: what NumberOf makes of them is the number.
LEMMA NumberIs ==
  ASSUME NEW w \in 0 .. 14, NEW v \in Nat, v \div 2^w = 0, NEW bits,
         \A b \in 0 .. w - 1 : b \in bits <=> (v \div 2^b) % 2 = 1
  PROVE  NumberOf(bits, w) = v
<1> DEFINE Bit(b) == IF b \in bits THEN 1 ELSE 0
           Runs(g) == g = [b \in 0 .. w |-> IF b = w THEN 0 ELSE Bit(b) + 2 * g[b + 1]]
           from == CHOOSE from : Runs(from)
           f == [b \in 0 .. w |-> v \div 2^b]
<1>1. NumberOf(bits, w) = from[0]
  BY DEF NumberOf
<1>2. \A b \in 0 .. w : b # w => f[b] = Bit(b) + 2 * f[b + 1]
  <2> SUFFICES ASSUME NEW b \in 0 .. w, b # w PROVE f[b] = Bit(b) + 2 * f[b + 1]
    OBVIOUS
  <2>1. b \in 0 .. 13 /\ b \in 0 .. w - 1 /\ b + 1 \in 0 .. w
    OBVIOUS
  <2>2. PICK m, h : m = v \div 2^b /\ h = v \div 2^(b + 1)
    OBVIOUS
  <2>3. f[b] = m /\ f[b + 1] = h
    BY <2>1, <2>2
  <2>4. m = (m % 2) + 2 * h
    BY <2>1, <2>2, Halves
  <2>5. m \in Int
    <3>1. b \in 0 .. 14
      OBVIOUS
    <3>2. 2^b \in Nat /\ 2^b > 0
      BY <3>1, Powers
    <3>3. PICK d \in Nat : d = 2^b /\ d > 0
      BY <3>2
    <3> QED BY <2>2, <3>3
  <2>6. m % 2 = Bit(b)
    <3>1. b \in bits <=> m % 2 = 1
      BY <2>1, <2>2
    <3>2. m % 2 = 0 \/ m % 2 = 1
      BY <2>5
    <3> QED BY <3>1, <3>2
  <2> HIDE DEF f, Bit
  <2> QED BY <2>3, <2>4, <2>6
<1>3. Runs(f)
  <2>1. f[w] = 0
    OBVIOUS
  <2>2. f = [b \in 0 .. w |-> f[b]]
    OBVIOUS
  <2> HIDE DEF f, Bit
  <2> QED BY <1>2, <2>1, <2>2
<1>4. Runs(from)
  <2> HIDE DEF Runs, f
  <2> QED BY <1>3
<1> HIDE DEF Bit, from, f
<1> DEFINE S == {j \in Nat : j <= w => from[w - j] = f[w - j]}
<1>5. 0 \in S
  BY <1>3, <1>4
<1>6. ASSUME NEW j \in S PROVE j + 1 \in S
  <2> SUFFICES ASSUME j + 1 <= w PROVE from[w - (j + 1)] = f[w - (j + 1)]
    OBVIOUS
  <2>1. PICK b \in 0 .. w : b = w - (j + 1) /\ b # w /\ b + 1 = w - j
    OBVIOUS
  <2>2. from[b + 1] = f[b + 1]
    BY <2>1
  <2>3. from[b] = Bit(b) + 2 * from[b + 1]
    BY <1>4, <2>1
  <2>4. f[b] = Bit(b) + 2 * f[b + 1]
    BY <1>3, <2>1
  <2> QED BY <2>1, <2>2, <2>3, <2>4
<1>7. S = Nat
  <2>1. S \in SUBSET Nat
    OBVIOUS
  <2> HIDE DEF S
  <2> QED BY <1>5, <1>6, <2>1, NatInd
<1>8. from[0] = f[0]
  <2>1. w \in Nat /\ w - w = 0 /\ w <= w
    OBVIOUS
  <2>2. \A j \in S : j <= w => from[w - j] = f[w - j]
    OBVIOUS
  <2> HIDE DEF S
  <2> QED BY <1>7, <2>1, <2>2
<1>9. f[0] = v
  BY DEF f
<1> QED BY <1>1, <1>8, <1>9

\* The bits of a type over those of twelve more.
Fields(v, t, lo) == v \in Nat /\ t \in 0 .. 3 /\ lo \in Nat /\ lo < 4096 /\ v = t * 4096 + lo

\* The bits of such a number are those of its fields.
LEMMA FieldBits ==
  ASSUME NEW v, NEW t, NEW lo, Fields(v, t, lo), NEW b \in 0 .. 13
  PROVE  /\ b < 12 => (v \div 2^b) % 2 = (lo \div 2^b) % 2
         /\ b >= 12 => (v \div 2^b) % 2 = (t \div 2^(b - 12)) % 2
<1>1. CASE b = 0
  BY <1>1 DEF Fields
<1>2. CASE b = 1
  BY <1>2 DEF Fields
<1>3. CASE b = 2
  BY <1>3 DEF Fields
<1>4. CASE b = 3
  BY <1>4 DEF Fields
<1>5. CASE b = 4
  BY <1>5 DEF Fields
<1>6. CASE b = 5
  BY <1>6 DEF Fields
<1>7. CASE b = 6
  BY <1>7 DEF Fields
<1>8. CASE b = 7
  BY <1>8 DEF Fields
<1>9. CASE b = 8
  BY <1>9 DEF Fields
<1>10. CASE b = 9
  BY <1>10 DEF Fields
<1>11. CASE b = 10
  BY <1>11 DEF Fields
<1>12. CASE b = 11
  BY <1>12 DEF Fields
<1>13. CASE b = 12
  BY <1>13 DEF Fields
<1>14. CASE b = 13
  BY <1>14 DEF Fields
<1> QED BY <1>1, <1>2, <1>3, <1>4, <1>5, <1>6, <1>7, <1>8,
           <1>9, <1>10, <1>11, <1>12, <1>13, <1>14

\* Slots that do not overlap, inside the pack.
LEMMA Strides ==
  ASSUME NEW bits \in Nat, NEW vcnt \in Nat, NEW cap \in Nat,
         (bits = 16 /\ vcnt = 2 /\ cap = 32) \/ (bits = 14 /\ vcnt = 16 /\ cap = 224)
  PROVE  /\ \A r \in Nat, b \in 0 .. 13 : r < vcnt => (r * bits) + b \in 0 .. cap - 1
         /\ \A r, q \in Nat, b, c \in 0 .. 13 : (r * bits) + b = (q * bits) + c => r = q /\ b = c
<1>1. CASE bits = 16 /\ vcnt = 2 /\ cap = 32
  <2>1. \A r \in Nat, b \in 0 .. 13 : r < 2 => (r * 16) + b \in 0 .. 31
    OBVIOUS
  <2>2. \A r, q \in Nat, b, c \in 0 .. 13 : (r * 16) + b = (q * 16) + c => r = q /\ b = c
    OBVIOUS
  <2> QED BY <1>1, <2>1, <2>2
<1>2. CASE bits = 14 /\ vcnt = 16 /\ cap = 224
  <2>1. \A r \in Nat, b \in 0 .. 13 : r < 16 => (r * 14) + b \in 0 .. 223
    OBVIOUS
  <2>2. \A r, q \in Nat, b, c \in 0 .. 13 : (r * 14) + b = (q * 14) + c => r = q /\ b = c
    OBVIOUS
  <2> QED BY <1>2, <2>1, <2>2
<1> QED BY <1>1, <1>2

\* The entries of a pack: types and values that fit their fields.
Slots(slice, len) ==
  /\ len \in Nat /\ DOMAIN slice = 1 .. len
  /\ \A r \in 1 .. len : slice[r].type \in 0 .. 3 /\ slice[r].lo \in Nat /\ slice[r].lo < 4096

\* What is or-ed into a pack at a slot is what the window on that slot shows: the
\* slots do not overlap, and the last bit is inside both pack and window.
LEMMA SlotRead ==
  ASSUME LoBits = 12, NEW shape \in {Pack4, Pack2}, NEW slice, NEW len \in Nat, len <= shape.vcnt,
         Slots(slice, len), NEW s \in Nat, s < len
  PROVE  PackRead(shape, EncodePack(shape, slice).bits, s)
         = [lo |-> slice[s + 1].lo, type |-> slice[s + 1].type]
<1> DEFINE V(r) == slice[r].type * 4096 + slice[r].lo
           all == EncodePack(shape, slice).bits
<1>1. PICK bits \in Nat, vcnt \in Nat, cap \in Nat :
        /\ bits = shape.bits /\ vcnt = shape.vcnt /\ cap = BitstreamBits(shape)
        /\ (bits = 16 /\ vcnt = 2 /\ cap = 32) \/ (bits = 14 /\ vcnt = 16 /\ cap = 224)
  BY DEF Pack4, Pack2, BitstreamBits
<1> DEFINE At(r, b) == (r * bits) + b
<1>2. \A r \in Nat, b \in 0 .. 13 : r < vcnt => At(r, b) \in 0 .. cap - 1
  BY <1>1, Strides
<1>3. \A r, q \in Nat, b, c \in 0 .. 13 : At(r, b) = At(q, c) => r = q /\ b = c
  BY <1>1, Strides
<1>4. ASSUME NEW r \in 1 .. len, NEW x
      PROVE  x \in PackWrite(shape, r - 1, slice[r])
             <=> \E b \in 0 .. 13 : x = At(r - 1, b) /\ (V(r) \div 2^b) % 2 = 1
  <2>1. PICK t \in 0 .. 3, lo \in Nat : t = slice[r].type /\ lo = slice[r].lo /\ lo < 4096
    BY DEF Slots
  <2>2. 2^LoBits = 4096 /\ LoBits + 2 = 14
    OBVIOUS
  <2>3. ((slice[r].type % 4) * 2^LoBits) + (slice[r].lo % 2^LoBits) = V(r)
    <3>1. ((t % 4) * 4096) + (lo % 4096) = t * 4096 + lo
      <4>1. t \in 0 .. 3 /\ lo \in Nat /\ lo < 4096
        BY <2>1
      <4> QED BY <4>1
    <3> QED BY <2>1, <2>2, <3>1
  <2> HIDE DEF V
  <2>4. PackWrite(shape, r - 1, slice[r])
        = {At(r - 1, b) : b \in BitsOf(V(r), 14)} \cap (0 .. cap - 1)
    BY <1>1, <2>2, <2>3 DEF PackWrite
  <2>5. BitsOf(V(r), 14) = {b \in 0 .. 13 : (V(r) \div 2^b) % 2 = 1}
    BY DEF BitsOf
  <2>6. r - 1 \in Nat /\ r - 1 < vcnt
    BY <1>1
  <2> HIDE DEF At
  <2> QED BY <1>2, <2>4, <2>5, <2>6
<1>5. ASSUME NEW b \in 0 .. 13
      PROVE  At(s, b) \in all <=> (V(s + 1) \div 2^b) % 2 = 1
  <2>1. all = UNION {PackWrite(shape, r - 1, slice[r]) : r \in 1 .. len}
    BY DEF EncodePack, Slots
  <2> HIDE DEF V, all, At
  <2>2. At(s, b) \in all
        <=> \E r \in 1 .. len, c \in 0 .. 13 : At(s, b) = At(r - 1, c) /\ (V(r) \div 2^c) % 2 = 1
    <3>1. At(s, b) \in all <=> \E r \in 1 .. len : At(s, b) \in PackWrite(shape, r - 1, slice[r])
      BY <2>1
    <3> QED BY <1>4, <3>1
  <2>3. ASSUME NEW r \in 1 .. len, NEW c \in 0 .. 13, At(s, b) = At(r - 1, c) PROVE r = s + 1 /\ b = c
    <3>1. r - 1 \in Nat /\ s \in Nat
      OBVIOUS
    <3>2. s = r - 1 /\ b = c
      BY <1>3, <2>3, <3>1
    <3> QED BY <3>2
  <2>4. s + 1 \in 1 .. len /\ (s + 1) - 1 = s
    OBVIOUS
  <2> QED BY <2>2, <2>3, <2>4
<1>0. all \subseteq Int
  <2>1. \A r \in 1 .. len : PackWrite(shape, r - 1, slice[r]) \subseteq Int
    BY <1>1 DEF PackWrite
  <2>2. all = UNION {PackWrite(shape, r - 1, slice[r]) : r \in 1 .. len}
    BY DEF EncodePack, Slots
  <2> HIDE DEF all
  <2> QED BY <2>1, <2>2
<1> DEFINE first == s * shape.bits
           window == {b - first : b \in {c \in all : first <= c /\ c < 8 * (first \div 8) + 32}}
<1>6. ASSUME NEW b \in 0 .. 13 PROVE b \in window <=> (V(s + 1) \div 2^b) % 2 = 1
  <2>1. PICK at \in Nat : at = first /\ at + b = At(s, b)
    BY <1>1
  <2>2. at <= at + b /\ at + b < 8 * (at \div 8) + 32
    BY <2>1
  <2>3. all \subseteq Int
    BY <1>0
  <2> HIDE DEF V, all, first, At
  <2>4. b \in window => at + b \in all
    <3> SUFFICES ASSUME b \in window PROVE at + b \in all
      OBVIOUS
    <3>1. PICK c \in all : b = c - at
      BY <2>1
    <3> QED BY <2>1, <2>3, <3>1
  <2>5. at + b \in all => b \in window
    <3>1. (at + b) - at = b
      BY <2>1
    <3> QED BY <2>1, <2>2, <3>1
  <2> QED BY <1>5, <2>1, <2>4, <2>5
<1>7. PICK t \in 0 .. 3, lo \in Nat : t = slice[s + 1].type /\ lo = slice[s + 1].lo /\ lo < 4096
  BY DEF Slots
<1>8. PICK v \in Nat : v = V(s + 1) /\ v = t * 4096 + lo
  BY <1>7
<1> HIDE DEF V
<1>9. PackRead(shape, all, s)
      = [lo |-> NumberOf(window, 12), type |-> NumberOf({b - 12 : b \in window}, 2)]
  BY DEF PackRead
<1>10. NumberOf(window, 12) = lo
  <2>1. lo \div 2^12 = 0 /\ 12 \in 0 .. 14
    BY <1>7
  <2>2. ASSUME NEW b \in 0 .. 12 - 1 PROVE b \in window <=> (lo \div 2^b) % 2 = 1
    <3>1. b \in 0 .. 13 /\ b < 12
      OBVIOUS
    <3> HIDE DEF window, V
    <3>2. Fields(v, t, lo)
      BY <1>7, <1>8 DEF Fields
    <3>3. (v \div 2^b) % 2 = (lo \div 2^b) % 2
      BY <3>1, <3>2, FieldBits, ZenonT(60)
    <3>4. b \in window <=> (V(s + 1) \div 2^b) % 2 = 1
      BY <1>6, <3>1
    <3> QED BY <1>8, <3>3, <3>4
  <2> HIDE DEF window, V
  <2> QED BY <2>1, <2>2, NumberIs
<1>11. NumberOf({b - 12 : b \in window}, 2) = t
  <2>1. t \div 2^2 = 0
    BY <1>7
  <2>2. \A b \in 0 .. 2 - 1 : b \in {c - 12 : c \in window} <=> b + 12 \in window
    <3>1. window \subseteq Int
      <4>1. first \in Int
        BY <1>1
      <4> HIDE DEF all, first
      <4> QED BY <1>0, <4>1
    <3> HIDE DEF window
    <3> QED BY <3>1
  <2>3. ASSUME NEW b \in 0 .. 2 - 1 PROVE b + 12 \in window <=> (t \div 2^b) % 2 = 1
    <3> HIDE DEF window, V
    <3>1. b + 12 \in 0 .. 13 /\ b + 12 >= 12 /\ (b + 12) - 12 = b
      OBVIOUS
    <3>2. (V(s + 1) \div 2^(b + 12)) % 2 = (t \div 2^b) % 2
      <4>1. Fields(v, t, lo)
        BY <1>7, <1>8 DEF Fields
      <4>2. PICK c \in 0 .. 13 : c = b + 12 /\ c >= 12 /\ c - 12 = b
        BY <3>1
      <4>3. (v \div 2^c) % 2 = (t \div 2^(c - 12)) % 2
        BY <4>1, <4>2, FieldBits
      <4> QED BY <1>8, <4>2, <4>3
    <3> QED BY <1>6, <3>1, <3>2
  <2> DEFINE low == {c - 12 : c \in window}
  <2> HIDE DEF window, V, low
  <2>4. \A b \in 0 .. 2 - 1 : b \in low <=> (t \div 2^b) % 2 = 1
    BY <2>2, <2>3 DEF low
  <2>5. 2 \in 0 .. 14 /\ t \in Nat
    OBVIOUS
  <2>6. NumberOf(low, 2) = t
    BY <2>1, <2>4, <2>5, NumberIs
  <2> QED BY <2>6 DEF low
<1> HIDE DEF window, all, V
<1> QED BY <1>7, <1>9, <1>10, <1>11 DEF all

\* Packs and the lclusters in them, as far as it is arithmetic.
IsPack(vcnt, bytes) == vcnt \in Nat /\ bytes \in Nat /\ ((vcnt = 2 /\ bytes = 8) \/ (vcnt = 16 /\ bytes = 32))

\* A shape with its numbers as naturals.
IsShape(shape, vcnt, bytes) ==
  shape \in {Pack4, Pack2} /\ vcnt = shape.vcnt /\ bytes = shape.bytes /\ IsPack(vcnt, bytes)

\* Both packs have a shape in numbers.
LEMMA Shapes ==
  ASSUME NEW shape \in {Pack4, Pack2}
  PROVE  \E vcnt, bytes \in Nat : IsShape(shape, vcnt, bytes)
BY DEF Pack4, Pack2, IsShape, IsPack

\* Distinct packs start at distinct offsets, within the bytes of their region.
LEMMA PackArith ==
  ASSUME NEW vcnt, NEW bytes, IsPack(vcnt, bytes), NEW n \in Nat
  PROVE  /\ CeilDiv(n, vcnt) \in Nat /\ CeilDiv(n, vcnt) * bytes \in Nat
         /\ \A p, q \in Nat : p * bytes = q * bytes => p = q
         /\ \A p \in 0 .. CeilDiv(n, vcnt) - 1 :
              p * bytes \in Nat /\ p * bytes < CeilDiv(n, vcnt) * bytes
<1>1. CASE vcnt = 2 /\ bytes = 8
  BY <1>1 DEF CeilDiv
<1>2. CASE vcnt = 16 /\ bytes = 32
  BY <1>2 DEF CeilDiv
<1> QED BY <1>1, <1>2 DEF IsPack

\* An lcluster has one pack and one slot in it.
LEMMA SlotArith ==
  ASSUME NEW vcnt, NEW bytes, IsPack(vcnt, bytes), NEW n \in Nat, NEW m \in Nat, m < n
  PROVE  /\ m \div vcnt \in 0 .. CeilDiv(n, vcnt) - 1 /\ m % vcnt \in Nat /\ m % vcnt < vcnt
         /\ ((m \div vcnt) * vcnt) + (m % vcnt) = m /\ CeilDiv(n, vcnt) \in Nat
<1>1. CASE vcnt = 2 /\ bytes = 8
  BY <1>1 DEF CeilDiv
<1>2. CASE vcnt = 16 /\ bytes = 32
  BY <1>2 DEF CeilDiv
<1> QED BY <1>1, <1>2 DEF IsPack

\* The lesser of two, as Min.
LEMMA MinPair ==
  ASSUME NEW u \in Int, NEW v \in Int
  PROVE  Min({u, v}) = IF u < v THEN u ELSE v
<1>1. \E x \in {u, v} : \A y \in {u, v} : x <= y
  OBVIOUS
<1>2. Min({u, v}) \in {u, v} /\ \A y \in {u, v} : Min({u, v}) <= y
  BY <1>1 DEF Min
<1> QED BY <1>2

\* A region has one pack at each of its offsets, and none outside its bytes.
LEMMA RegionBounds ==
  ASSUME NEW shape \in {Pack4, Pack2}, NEW put, NEW first \in Nat, NEW n \in Nat, NEW at \in Nat
  PROVE  LET packs == RegionPacks(shape, put, first, n, at) IN
         /\ BytesFor(shape, n) \in Nat
         /\ \A x \in packs : x.at \in Nat /\ at <= x.at /\ x.at < at + BytesFor(shape, n)
         /\ \A x, y \in packs : x.at = y.at => x = y
<1>1. PICK vcnt \in Nat, bytes \in Nat : IsShape(shape, vcnt, bytes)
  BY Shapes
<1>0. PICK c \in Nat : c = CeilDiv(n, vcnt)
  BY <1>1, PackArith DEF IsShape
<1>2. PICK b : c = CeilDiv(n, vcnt) /\ b = c * bytes /\ b = BytesFor(shape, n)
  BY <1>0, <1>1, PackArith DEF IsShape, BytesFor
<1> DEFINE Of(p) == [at |-> at + p * bytes,
                     pack |-> EncodePack(shape, SubSeq(put, first + p * vcnt + 1,
                                                       Min({first + (p + 1) * vcnt, first + n})))]
<1>3. RegionPacks(shape, put, first, n, at) = {Of(p) : p \in 0 .. c - 1}
  BY <1>1, <1>2 DEF RegionPacks, IsShape
<1>4. \A p \in 0 .. c - 1 : Of(p).at = at + p * bytes
  OBVIOUS
<1> HIDE DEF Of
<1>5. b \in Nat
  BY <1>1, <1>2 DEF IsShape
<1>6. \A p \in 0 .. c - 1 : p * bytes \in Nat /\ p * bytes < b
  BY <1>1, <1>2, PackArith DEF IsShape
<1>7. \A p, q \in 0 .. c - 1 : at + p * bytes = at + q * bytes => p = q
  <2>1. CASE bytes = 8
    BY <2>1
  <2>2. CASE bytes = 32
    BY <2>2
  <2> QED BY <1>1, <2>1, <2>2 DEF IsShape, IsPack
<1> QED BY <1>2, <1>3, <1>4, <1>5, <1>6, <1>7

\* The pack of an lcluster of a region is there, with the lcluster in its slot.
Holds(pack, shape, slot, put, n, k) ==
  /\ shape \in {Pack4, Pack2} /\ slot \in Nat /\ slot < shape.vcnt /\ slot <= k
  /\ \E slice : \E len \in Nat :
       /\ pack = EncodePack(shape, slice) /\ DOMAIN slice = 1 .. len
       /\ slot < len /\ len <= shape.vcnt /\ k - slot + len <= n
       /\ \A s \in 1 .. len : slice[s] = put[k - slot + s]

\* A region has a pack that holds each of its lclusters.
LEMMA RegionHolds ==
  ASSUME NEW shape \in {Pack4, Pack2}, NEW T, NEW put \in Seq(T), NEW first \in Nat, NEW n \in Nat,
         NEW at \in Nat, first + n <= Len(put), NEW k \in first .. first + n - 1
  PROVE  \E x \in RegionPacks(shape, put, first, n, at) :
           /\ x.at = at + ((k - first) \div shape.vcnt) * shape.bytes
           /\ Holds(x.pack, shape, (k - first) % shape.vcnt, put, Len(put), k)
<1>1. PICK vcnt \in Nat, bytes \in Nat : IsShape(shape, vcnt, bytes)
  BY Shapes
<1>2. PICK m \in Nat : m = k - first /\ m < n
  OBVIOUS
<1>3. PICK p, slot, c \in Nat : /\ p = m \div vcnt /\ slot = m % vcnt /\ c = CeilDiv(n, vcnt)
                                /\ p \in 0 .. c - 1 /\ slot \in Nat /\ slot < vcnt
                                /\ (p * vcnt) + slot = m
  <2>1. IsPack(vcnt, bytes)
    BY <1>1 DEF IsShape
  <2>2. /\ m \div vcnt \in 0 .. CeilDiv(n, vcnt) - 1 /\ m % vcnt \in Nat /\ m % vcnt < vcnt
        /\ ((m \div vcnt) * vcnt) + (m % vcnt) = m /\ CeilDiv(n, vcnt) \in Nat
    BY <1>2, <2>1, SlotArith
  <2>3. m \div vcnt \in Nat
    BY <2>2
  <2> QED BY <2>2, <2>3
<1>4. PICK from \in Nat, upto \in Nat :
        /\ from = first + p * vcnt
        /\ upto = Min({first + (p + 1) * vcnt, first + n})
        /\ upto <= from + vcnt /\ upto <= first + n /\ (upto = from + vcnt \/ upto = first + n)
  <2>0. PICK f \in Nat, l \in Nat : f = first /\ l = first + n
    OBVIOUS
  <2>1. PICK a \in Nat : a = p * vcnt /\ (p + 1) * vcnt = a + vcnt
    BY <1>1, <1>3, SMTT(30) DEF IsShape, IsPack
  <2>2. \A u, v \in Nat : Min({u, v}) \in {u, v} /\ Min({u, v}) <= u /\ Min({u, v}) <= v
    BY MinPair
  <2>3. PICK w : w = Min({f + a + vcnt, l})
    OBVIOUS
  <2>4. first + (p + 1) * vcnt = f + a + vcnt /\ first + p * vcnt = f + a
    BY <2>0, <2>1
  <2>5. w \in {f + a + vcnt, l} /\ w <= f + a + vcnt /\ w <= l
    BY <2>2, <2>3
  <2>6. w = Min({first + (p + 1) * vcnt, first + n})
    BY <2>0, <2>3, <2>4
  <2>7. f + a \in Nat /\ f + a + vcnt \in Nat
    OBVIOUS
  <2>8. w \in Nat /\ w <= (f + a) + vcnt /\ w <= l /\ (w = (f + a) + vcnt \/ w = l)
    BY <2>5, <2>7
  <2>9. f + a = first + p * vcnt
    BY <2>4
  <2> QED BY <2>0, <2>6, <2>7, <2>8, <2>9
<1> DEFINE slice == SubSeq(put, from + 1, upto)
           len == upto - from
<1>5. k = from + slot
  BY <1>2, <1>3, <1>4
<1>6. len \in Nat /\ slot < len /\ len <= vcnt /\ from + len <= Len(put)
  <2>1. PICK a \in Nat : a = p * vcnt
    BY <1>1, <1>3 DEF IsShape, IsPack
  <2>2. from = first + a /\ m = a + slot /\ m < n /\ slot < vcnt
    BY <1>2, <1>3, <1>4, <2>1
  <2>3. PICK g \in Nat, u \in Nat, v \in Nat :
          g = from /\ u = upto /\ v = vcnt
    BY <1>1, <1>4 DEF IsShape, IsPack
  <2>4. u <= g + v /\ u <= first + n /\ (u = g + v \/ u = first + n)
    BY <1>4, <2>3
  <2>5. g = first + a /\ slot < v
    BY <2>2, <2>3
  <2>6. first + n > g + slot
    BY <2>2, <2>5
  <2>7. u - g \in Nat /\ slot < u - g /\ u - g <= v /\ g + (u - g) = u
    BY <2>4, <2>5, <2>6
  <2>8. u <= Len(put)
    BY <2>4
  <2> QED BY <2>3, <2>7, <2>8
<1>7. DOMAIN slice = 1 .. len /\ \A s \in 1 .. len : slice[s] = put[from + s]
  <2>1. from + 1 \in 1 .. Len(put) + 1 /\ upto \in 0 .. Len(put) /\ upto >= from
    BY <1>4, <1>6
  <2>2. \A g \in 1 .. Len(put) + 1, u \in 0 .. Len(put) :
          u >= g - 1 => /\ Len(SubSeq(put, g, u)) = u - g + 1
                        /\ DOMAIN SubSeq(put, g, u) = 1 .. u - g + 1
                        /\ \A s \in 1 .. u - g + 1 : SubSeq(put, g, u)[s] = put[g + s - 1]
    <3> SUFFICES ASSUME NEW g \in 1 .. Len(put) + 1, NEW u \in 0 .. Len(put), u >= g - 1
                 PROVE  /\ Len(SubSeq(put, g, u)) = u - g + 1
                        /\ DOMAIN SubSeq(put, g, u) = 1 .. u - g + 1
                        /\ \A s \in 1 .. u - g + 1 : SubSeq(put, g, u)[s] = put[g + s - 1]
      OBVIOUS
    <3>1. Len(SubSeq(put, g, u)) = u - g + 1
      OBVIOUS
    <3>2. DOMAIN SubSeq(put, g, u) = 1 .. u - g + 1
      OBVIOUS
    <3>3. ASSUME NEW s \in 1 .. u - g + 1 PROVE SubSeq(put, g, u)[s] = put[g + s - 1]
      OBVIOUS
    <3> QED BY <3>1, <3>2, <3>3
  <2>3. from + 1 - 1 = from /\ upto - (from + 1) + 1 = len
    BY <1>4
  <2>4. /\ DOMAIN slice = 1 .. upto - (from + 1) + 1
        /\ \A s \in 1 .. upto - (from + 1) + 1 : slice[s] = put[from + 1 + s - 1]
    <3> HIDE DEF len
    <3>1. upto >= from + 1 - 1
      BY <2>1, <2>3
    <3> QED BY <2>1, <2>2, <3>1
  <2>5. ASSUME NEW s \in 1 .. len PROVE slice[s] = put[from + s]
    <3> HIDE DEF slice, len
    <3>1. slice[s] = put[from + 1 + s - 1]
      BY <2>3, <2>4
    <3>2. from + 1 + s - 1 = from + s
      BY <1>4, <1>6
    <3> QED BY <3>1, <3>2
  <2> HIDE DEF slice, len
  <2> QED BY <2>3, <2>4, <2>5
<1> DEFINE x == [at |-> at + p * bytes, pack |-> EncodePack(shape, slice)]
<1>8. x \in RegionPacks(shape, put, first, n, at)
  BY <1>1, <1>3, <1>4 DEF RegionPacks, IsShape
<1>9. Holds(x.pack, shape, slot, put, Len(put), k)
  <2>1. k - slot = from /\ slot <= k
    BY <1>5
  <2>2. vcnt = shape.vcnt
    BY <1>1 DEF IsShape
  <2> HIDE DEF slice, len
  <2>3. k - slot + len <= Len(put) /\ \A s \in 1 .. len : slice[s] = put[k - slot + s]
    BY <1>6, <1>7, <2>1
  <2>4. x.pack = EncodePack(shape, slice)
    BY DEF x
  <2> HIDE DEF x
  <2>5. \E sl : \E le \in Nat :
          /\ x.pack = EncodePack(shape, sl) /\ DOMAIN sl = 1 .. le
          /\ slot < le /\ le <= shape.vcnt /\ k - slot + le <= Len(put)
          /\ \A s \in 1 .. le : sl[s] = put[k - slot + s]
    BY <1>6, <1>7, <2>2, <2>3, <2>4
  <2> QED BY <1>3, <2>1, <2>2, <2>5 DEF Holds
<1>10. x.at = at + ((k - first) \div shape.vcnt) * shape.bytes /\ slot = (k - first) % shape.vcnt
  BY <1>1, <1>2, <1>3 DEF IsShape
<1> HIDE DEF x
<1> QED BY <1>8, <1>9, <1>10

\* Writer and reader agree on where the packs begin and on the three regions.
LEMMA PackStarts ==
  ASSUME NEW bodyEnd \in Nat
  PROVE  PackStart(bodyEnd) = Ebase(bodyEnd) /\ Ebase(bodyEnd) \in Nat
BY DEF PackStart, PadBeforeIndex, Ebase, AlignUp, CeilDiv

\* Builder and reader divide an index into the same three regions.
LEMMA Regions ==
  ASSUME NEW ebase \in Nat, NEW n \in Nat
  PROVE  LET g == Geometry(ebase, n)  r == ReadGeometry(ebase, n, g.middle > 0) IN
         /\ g.initial \in Nat /\ g.middle \in Nat /\ g.tail \in Nat /\ g.initial + g.middle + g.tail = n
         /\ r.initial = g.initial /\ r.middle = g.middle
<1> DEFINE g == Geometry(ebase, n)
           r == ReadGeometry(ebase, n, g.middle > 0)
<1>1. PICK a \in Nat : a = ((32 - (ebase % 32)) \div 4) % 8 /\ a = AlignmentPad(ebase)
  <2>1. PICK b \in 0 .. 31 : b = ebase % 32
    OBVIOUS
  <2>2. ((32 - b) \div 4) % 8 \in Nat
    OBVIOUS
  <2>3. AlignmentPad(ebase) = ((32 - (ebase % 32)) \div 4) % (32 \div 4)
    BY DEF AlignmentPad, Pack2
  <2>4. 32 \div 4 = 8
    OBVIOUS
  <2> QED BY <2>1, <2>2, <2>3, <2>4
<1>2. PICK initial \in Nat : initial = Min({a, n}) /\ initial <= n
  BY MinPair
<1>3. PICK left \in Nat, middle \in Nat :
        left = n - initial /\ middle = (left \div 16) * 16 /\ middle <= left
  <2>1. PICK left \in Nat : left = n - initial
    BY <1>2
  <2> QED BY <2>1
<1>4. g = [initial |-> initial, middle |-> middle, tail |-> left - middle]
  <2>1. n - initial - middle = left - middle
    BY <1>3
  <2> QED BY <1>1, <1>2, <1>3, <2>1 DEF Geometry
<1>5. r = [initial |-> initial,
           middle |-> IF middle > 0 /\ left > 0 THEN left - (left % 16) ELSE 0]
  BY <1>1, <1>2, <1>3, <1>4 DEF ReadGeometry, Pack2
<1>6. (IF middle > 0 /\ left > 0 THEN left - (left % 16) ELSE 0) = middle
  BY <1>3
<1>7. left - middle \in Nat /\ initial + middle + (left - middle) = n
  BY <1>2, <1>3
<1> HIDE DEF g, r
<1> QED BY <1>4, <1>5, <1>6, <1>7 DEF g, r

\* The packs of a compact index: a lclusters in front of the 2B region, m in it, t behind it.

\* Where the second region and the third begin.
SecondAt(start, a) == start + BytesFor(Pack4, a)
ThirdAt(start, a, m) == SecondAt(start, a) + BytesFor(Pack2, m)

\* The packs of the three regions.
PacksOf(put, start, a, m, t) ==
  RegionPacks(Pack4, put, 0, a, start) \cup RegionPacks(Pack2, put, a, m, SecondAt(start, a))
  \cup RegionPacks(Pack4, put, a + m, t, ThirdAt(start, a, m))
IsPacks(index, packs) ==
  /\ DOMAIN index = {x.at : x \in packs}
  /\ \A x \in packs : x.at \in DOMAIN index /\ index[x.at] = x.pack

\* The sizes of the three regions, for the writer and for the reader.
AreRegions(bodyEnd, n, a, m, t) ==
  LET g == Geometry(Ebase(bodyEnd), n)
      r == ReadGeometry(Ebase(bodyEnd), n, Compacted2B(bodyEnd, n))
  IN a = g.initial /\ m = g.middle /\ t = g.tail /\ a + m + t = n /\ r.initial = a /\ r.middle = m

\* Every index has its regions.
LEMMA RegionsAre ==
  ASSUME NEW bodyEnd \in Nat, NEW n \in Nat
  PROVE  \E a, m, t \in Nat : AreRegions(bodyEnd, n, a, m, t)
<1>1. PICK start \in Nat : start = Ebase(bodyEnd)
  BY PackStarts
<1>2. PICK g : g = Geometry(start, n)
  OBVIOUS
<1>3. /\ g.initial \in Nat /\ g.middle \in Nat /\ g.tail \in Nat /\ g.initial + g.middle + g.tail = n
      /\ ReadGeometry(start, n, g.middle > 0).initial = g.initial
      /\ ReadGeometry(start, n, g.middle > 0).middle = g.middle
  BY <1>2, Regions
<1>4. Compacted2B(bodyEnd, n) = (g.middle > 0)
  BY <1>1, <1>2 DEF Compacted2B
<1>5. AreRegions(bodyEnd, n, g.initial, g.middle, g.tail)
  BY <1>1, <1>2, <1>3, <1>4 DEF AreRegions
<1> QED BY <1>3, <1>5

\* The packs of the regions are the index, each at an offset of its own.
LEMMA PacksApart ==
  ASSUME NEW bodyEnd \in Nat, NEW T, NEW put \in Seq(T), NEW a \in Nat, NEW m \in Nat, NEW t \in Nat,
         AreRegions(bodyEnd, Len(put), a, m, t)
  PROVE  /\ IsPacks(EncodeCompact(bodyEnd, put), PacksOf(put, Ebase(bodyEnd), a, m, t))
         /\ SecondAt(Ebase(bodyEnd), a) \in Nat /\ ThirdAt(Ebase(bodyEnd), a, m) \in Nat
<1>1. PICK start \in Nat : start = Ebase(bodyEnd) /\ PackStart(bodyEnd) = start
  BY PackStarts
<1>2. PICK g : g = Geometry(start, Len(put)) /\ g.initial = a /\ g.middle = m /\ g.tail = t
  BY <1>1 DEF AreRegions
<1>3. PICK at2, at3 : at2 = SecondAt(start, a) /\ at3 = ThirdAt(start, a, m)
  OBVIOUS
<1>4. PICK p1, p2, p3 : /\ p1 = RegionPacks(Pack4, put, 0, a, start)
                        /\ p2 = RegionPacks(Pack2, put, a, m, at2)
                        /\ p3 = RegionPacks(Pack4, put, a + m, t, at3)
  OBVIOUS
<1> DEFINE packs == p1 \cup p2 \cup p3
<1>5. Pack4 \in {Pack4, Pack2} /\ Pack2 \in {Pack4, Pack2} /\ 0 \in Nat
  OBVIOUS
<1>6. EncodeCompact(bodyEnd, put) = [at \in {p.at : p \in packs} |-> (CHOOSE p \in packs : p.at = at).pack]
  BY <1>1, <1>2, <1>3, <1>4 DEF EncodeCompact, SecondAt, ThirdAt
<1>7. at2 = start + BytesFor(Pack4, a) /\ at3 = at2 + BytesFor(Pack2, m)
  BY <1>3 DEF SecondAt, ThirdAt
<1>8. /\ BytesFor(Pack4, a) \in Nat /\ at2 \in Nat
      /\ \A x \in p1 : x.at \in Nat /\ start <= x.at /\ x.at < at2
      /\ \A x, y \in p1 : x.at = y.at => x = y
  BY <1>4, <1>5, <1>7, RegionBounds
<1>9. /\ BytesFor(Pack2, m) \in Nat /\ at3 \in Nat
      /\ \A x \in p2 : x.at \in Nat /\ at2 <= x.at /\ x.at < at3
      /\ \A x, y \in p2 : x.at = y.at => x = y
  <2>1. BytesFor(Pack2, m) \in Nat
    BY <1>5, <1>8, RegionBounds
  <2>2. /\ \A x \in p2 : x.at \in Nat /\ at2 <= x.at /\ x.at < at2 + BytesFor(Pack2, m)
        /\ \A x, y \in p2 : x.at = y.at => x = y
    BY <1>4, <1>5, <1>8, RegionBounds
  <2> QED BY <1>7, <1>8, <2>1, <2>2
<1>10. /\ \A x \in p3 : x.at \in Nat /\ at3 <= x.at
       /\ \A x, y \in p3 : x.at = y.at => x = y
       /\ \A x, y \in packs : x.at = y.at => x = y
  <2>1. a + m \in Nat
    OBVIOUS
  <2>2. /\ \A x \in p3 : x.at \in Nat /\ at3 <= x.at
        /\ \A x, y \in p3 : x.at = y.at => x = y
    BY <1>4, <1>5, <1>9, <2>1, RegionBounds
  <2>3. ASSUME NEW x \in packs, NEW y \in packs, x.at = y.at PROVE x = y
    <3>1. x \in p1 => x.at < at2 /\ x.at < at3 /\ x.at \in Nat
      BY <1>7, <1>8, <1>9
    <3>2. y \in p1 => y.at < at2 /\ y.at < at3 /\ y.at \in Nat
      BY <1>7, <1>8, <1>9
    <3>3. /\ x \in p2 => at2 <= x.at /\ x.at < at3 /\ x.at \in Nat
          /\ y \in p2 => at2 <= y.at /\ y.at < at3 /\ y.at \in Nat
          /\ x \in p3 => at3 <= x.at /\ x.at \in Nat
          /\ y \in p3 => at3 <= y.at /\ y.at \in Nat
      BY <1>9, <2>2
    <3>4. (x \in p1 /\ y \in p1) \/ (x \in p2 /\ y \in p2) \/ (x \in p3 /\ y \in p3)
      <4>1. (x \in p1 \/ x \in p2 \/ x \in p3) /\ (y \in p1 \/ y \in p2 \/ y \in p3)
        OBVIOUS
      <4> QED BY <1>8, <1>9, <2>3, <3>1, <3>2, <3>3, <4>1
    <3> QED BY <1>8, <1>9, <2>2, <2>3, <3>4
  <2> QED BY <2>2, <2>3
<1>12. packs = PacksOf(put, start, a, m, t)
  BY <1>3, <1>4 DEF PacksOf
<1> HIDE DEF packs
<1>13. IsPacks(EncodeCompact(bodyEnd, put), packs)
  <2>1. PICK index : index = EncodeCompact(bodyEnd, put)
    OBVIOUS
  <2>2. DOMAIN index = {x.at : x \in packs}
    BY <1>6, <2>1
  <2>3. ASSUME NEW x \in packs PROVE x.at \in DOMAIN index /\ index[x.at] = x.pack
    <3>1. x.at \in {p.at : p \in packs}
      OBVIOUS
    <3>2. (CHOOSE p \in packs : p.at = x.at) = x
      BY <1>10
    <3> QED BY <1>6, <2>1, <3>1, <3>2
  <2> QED BY <2>1, <2>2, <2>3 DEF IsPacks
<1> QED BY <1>1, <1>3, <1>8, <1>9, <1>12, <1>13

\* Where the reader looks for an lcluster is the pack that holds it.
LEMMA PackMet ==
  ASSUME NEW bodyEnd \in Nat, NEW T, NEW put \in Seq(T), NEW k \in 0 .. Len(put) - 1
  PROVE  LET start == Ebase(bodyEnd)
             home == Locate(start, ReadGeometry(start, Len(put), Compacted2B(bodyEnd, Len(put))), k)
             index == EncodeCompact(bodyEnd, put)
         IN home.at \in DOMAIN index /\ Holds(index[home.at], home.shape, home.slot, put, Len(put), k)
<1> DEFINE r == ReadGeometry(Ebase(bodyEnd), Len(put), Compacted2B(bodyEnd, Len(put)))
           home == Locate(Ebase(bodyEnd), r, k)
<1>1. PICK n \in Nat : n = Len(put) /\ k \in 0 .. n - 1
  OBVIOUS
<1>2. PICK start \in Nat : start = Ebase(bodyEnd)
  BY PackStarts
<1>3. PICK a \in Nat, m \in Nat, t \in Nat : AreRegions(bodyEnd, n, a, m, t)
  BY RegionsAre
<1>4. a + m + t = n /\ r.initial = a /\ r.middle = m
  BY <1>1, <1>3 DEF AreRegions
<1>5. PICK index, packs : index = EncodeCompact(bodyEnd, put) /\ packs = PacksOf(put, start, a, m, t)
  OBVIOUS
<1>6. PICK at2 \in Nat, at3 \in Nat : at2 = SecondAt(start, a) /\ at3 = ThirdAt(start, a, m)
  BY <1>1, <1>2, <1>3, PacksApart
<1>7. IsPacks(index, packs)
  BY <1>1, <1>2, <1>3, <1>5, PacksApart
<1>8. PICK p1, p2, p3 : /\ p1 = RegionPacks(Pack4, put, 0, a, start)
                        /\ p2 = RegionPacks(Pack2, put, a, m, at2)
                        /\ p3 = RegionPacks(Pack4, put, a + m, t, at3)
                        /\ packs = p1 \cup p2 \cup p3
  BY <1>5, <1>6 DEF PacksOf
<1>9. Pack4 \in {Pack4, Pack2} /\ Pack2 \in {Pack4, Pack2} /\ 0 \in Nat
  OBVIOUS
<1> HIDE DEF r
<1>10. home = LET in(shape, offset, first) ==
                    [at |-> offset + ((k - first) \div shape.vcnt) * shape.bytes,
                     slot |-> (k - first) % shape.vcnt, shape |-> shape]
              IN IF k < a THEN in(Pack4, start, 0)
                 ELSE IF k < a + m THEN in(Pack2, at2, a) ELSE in(Pack4, at3, a + m)
  <2>1. BytesFor(Pack4, a) \in Nat /\ BytesFor(Pack2, m) \in Nat
    BY <1>2, <1>9, RegionBounds
  <2>2. start + TailOffset(r) = at3
    BY <1>2, <1>4, <1>6, <2>1 DEF TailOffset, SecondAt, ThirdAt
  <2>3. start + BytesFor(Pack4, a) = at2
    BY <1>6 DEF SecondAt
  <2> QED BY <1>2, <1>4, <2>2, <2>3 DEF Locate
<1> HIDE DEF home
<1>11. ASSUME NEW x \in packs, x.at = home.at, Holds(x.pack, home.shape, home.slot, put, Len(put), k)
       PROVE  home.at \in DOMAIN index /\ Holds(index[home.at], home.shape, home.slot, put, Len(put), k)
  BY <1>7, <1>11 DEF IsPacks
<1>12. ASSUME k < a
       PROVE  home.at \in DOMAIN index /\ Holds(index[home.at], home.shape, home.slot, put, Len(put), k)
  <2>1. 0 + a <= Len(put) /\ k \in 0 .. 0 + a - 1
    BY <1>1, <1>4, <1>12
  <2>2. PICK x \in p1 : /\ x.at = start + ((k - 0) \div Pack4.vcnt) * Pack4.bytes
                        /\ Holds(x.pack, Pack4, (k - 0) % Pack4.vcnt, put, Len(put), k)
    BY <1>2, <1>8, <1>9, <2>1, RegionHolds
  <2>3. /\ home.at = start + ((k - 0) \div Pack4.vcnt) * Pack4.bytes
        /\ home.slot = (k - 0) % Pack4.vcnt /\ home.shape = Pack4
    BY <1>10, <1>12
  <2>4. x \in packs
    BY <1>8
  <2>5. x.at = home.at
    BY <2>2, <2>3
  <2>6. Holds(x.pack, home.shape, home.slot, put, Len(put), k)
    BY <2>2, <2>3
  <2> QED BY <1>11, <2>4, <2>5, <2>6
<1>13. ASSUME k >= a /\ k < a + m
       PROVE  home.at \in DOMAIN index /\ Holds(index[home.at], home.shape, home.slot, put, Len(put), k)
  <2>1. a + m <= Len(put) /\ k \in a .. a + m - 1
    BY <1>1, <1>4, <1>13
  <2>2. PICK x \in p2 : /\ x.at = at2 + ((k - a) \div Pack2.vcnt) * Pack2.bytes
                        /\ Holds(x.pack, Pack2, (k - a) % Pack2.vcnt, put, Len(put), k)
    BY <1>6, <1>8, <1>9, <2>1, RegionHolds
  <2>3. /\ home.at = at2 + ((k - a) \div Pack2.vcnt) * Pack2.bytes
        /\ home.slot = (k - a) % Pack2.vcnt /\ home.shape = Pack2
    BY <1>10, <1>13
  <2>4. x \in packs
    BY <1>8
  <2>5. x.at = home.at
    BY <2>2, <2>3
  <2>6. Holds(x.pack, home.shape, home.slot, put, Len(put), k)
    BY <2>2, <2>3
  <2> QED BY <1>11, <2>4, <2>5, <2>6
<1>14. ASSUME k >= a + m
       PROVE  home.at \in DOMAIN index /\ Holds(index[home.at], home.shape, home.slot, put, Len(put), k)
  <2>0. PICK am \in Nat : am = a + m
    OBVIOUS
  <2>1. am = a + m /\ am + t <= Len(put) /\ k \in am .. am + t - 1
    BY <1>1, <1>4, <1>14, <2>0
  <2>2. PICK x \in p3 : /\ x.at = at3 + ((k - am) \div Pack4.vcnt) * Pack4.bytes
                        /\ Holds(x.pack, Pack4, (k - am) % Pack4.vcnt, put, Len(put), k)
    BY <1>6, <1>8, <1>9, <2>1, RegionHolds
  <2>3. /\ home.at = at3 + ((k - am) \div Pack4.vcnt) * Pack4.bytes
        /\ home.slot = (k - am) % Pack4.vcnt /\ home.shape = Pack4
    BY <1>10, <1>14, <2>1
  <2>4. x \in packs
    BY <1>8
  <2>5. x.at = home.at
    BY <2>2, <2>3
  <2>6. Holds(x.pack, home.shape, home.slot, put, Len(put), k)
    BY <2>2, <2>3
  <2> QED BY <1>11, <2>4, <2>5, <2>6
<1> QED BY <1>1, <1>2, <1>5, <1>12, <1>13, <1>14 DEF home, r

\* Entries that mark their owners, of one block each: own[k] is the owner of
\* lcluster k, a head is one owner on, and a NONHEAD counts back to its head.
HeadAt(e, own, k) ==
  e.lo = 0 /\ e.addr = FirstBlock + own[k] /\ (k > 0 => own[k] = own[k - 1] + 1)
BackAt(put, own, k, lo) ==
  /\ put[k + 1].lo = lo /\ lo >= 1 /\ lo <= k /\ lo < 2048
  /\ IsHead(put[k - lo + 1].type) /\ own[k - lo] = own[k]
  /\ \A j \in k - lo + 1 .. k :
       ~IsHead(put[j + 1].type) /\ own[j] = own[k] /\ put[j + 1].lo = j - (k - lo)

\* All of the entries, each a head or one that counts back to it.
Marks(put, own, n) ==
  \A k \in 0 .. n - 1 :
    /\ own[k] \in Nat /\ put[k + 1].type \in 0 .. 2
    /\ IsHead(put[k + 1].type) => HeadAt(put[k + 1], own, k)
    /\ ~IsHead(put[k + 1].type) => \E lo \in Nat : BackAt(put, own, k, lo)

\* A pack of them as it is decoded up to a slot: its first is lcluster k0.
Shown(decoded, put, k0, slot) ==
  decoded = [s \in 0 .. slot |-> [lo |-> put[k0 + s + 1].lo, type |-> put[k0 + s + 1].type]]

\* What is put in a compact index fits under a marker.
LEMMA MarkLo ==
  ASSUME NEW put, NEW own, NEW n \in Nat, Marks(put, own, n), NEW k \in 0 .. n - 1
  PROVE  put[k + 1].lo \in Nat /\ put[k + 1].lo < 2048
<1>1. CASE IsHead(put[k + 1].type)
  BY <1>1 DEF Marks, HeadAt
<1>2. CASE ~IsHead(put[k + 1].type)
  <2>1. PICK lo \in Nat : BackAt(put, own, k, lo)
    BY <1>2 DEF Marks
  <2> QED BY <2>1 DEF BackAt
<1> QED BY <1>1, <1>2

\* Where the count goes on: at the head of the lcluster before, if it is in the pack.
LEMMA BackIs ==
  ASSUME NEW put, NEW own, NEW n \in Nat, Marks(put, own, n), NEW decoded, NEW k0 \in Nat,
         NEW slot \in Nat, k0 + slot < n, Shown(decoded, put, k0, slot), NEW s \in 1 .. slot
  PROVE  /\ StepBack(decoded, s) \in Int /\ StepBack(decoded, s) < s
         /\ StepBack(decoded, s) >= 0 =>
              /\ IsHead(put[k0 + StepBack(decoded, s) + 1].type)
              /\ own[k0 + StepBack(decoded, s)] = own[k0 + s - 1]
         /\ StepBack(decoded, s) < 0 => own[k0] = own[k0 + s - 1] /\ ~IsHead(put[k0 + 1].type)
<1>1. PICK k \in Nat : k = k0 + s - 1 /\ k \in 0 .. n - 1 /\ k0 <= k
  OBVIOUS
<1>2. decoded[s - 1].type = put[k + 1].type /\ decoded[s - 1].lo = put[k + 1].lo
  <2>1. s - 1 \in 0 .. slot /\ k0 + (s - 1) + 1 = k + 1
    BY <1>1 DEF Shown
  <2> QED BY <2>1 DEF Shown
<1>3. CASE IsHead(put[k + 1].type)
  <2>1. StepBack(decoded, s) = s - 1
    BY <1>2, <1>3 DEF StepBack, IsHead
  <2>2. k0 + (s - 1) + 1 = k + 1 /\ k0 + (s - 1) = k
    BY <1>1
  <2> QED BY <1>1, <1>3, <2>1, <2>2
<1>4. CASE ~IsHead(put[k + 1].type)
  <2>1. PICK lo \in Nat : BackAt(put, own, k, lo)
    BY <1>1, <1>4 DEF Marks
  <2>2. PICK b \in Int : b = StepBack(decoded, s) /\ b = s - 1 - lo
    BY <1>2, <1>4, <2>1 DEF StepBack, IsHead, BackAt
  <2>3. k0 + b = k - lo /\ k0 + b + 1 = k - lo + 1 /\ b < s
    BY <1>1, <2>1, <2>2 DEF BackAt
  <2>4. ASSUME b < 0 PROVE own[k0] = own[k] /\ ~IsHead(put[k0 + 1].type)
    <3>1. k0 \in k - lo + 1 .. k
      BY <1>1, <2>2, <2>3, <2>4
    <3> QED BY <2>1, <3>1 DEF BackAt
  <2> QED BY <1>1, <2>1, <2>2, <2>3, <2>4 DEF BackAt
<1> QED BY <1>3, <1>4

\* The heads of a pack are counted as owners.
LEMMA Counted ==
  ASSUME NEW put, NEW own, NEW n \in Nat, Marks(put, own, n), NEW decoded, NEW k0 \in Nat,
         NEW slot \in Nat, k0 + slot < n, Shown(decoded, put, k0, slot), IsHead(put[k0 + slot + 1].type)
  PROVE  /\ HeadsFrom(decoded, slot) = own[k0 + slot] - own[k0]
                                       + (IF IsHead(put[k0 + 1].type) THEN 1 ELSE 0)
         /\ ~MeetsMarker(decoded, slot)
<1> DEFINE Hd(s) == IsHead(put[k0 + s + 1].type)
           Owns(s) == own[k0 + s]
           Back(s) == StepBack(decoded, s)
           base == own[k0] + (IF IsHead(put[k0 + 1].type) THEN 0 ELSE 1)
           Runs(g) == g = [s \in 0 .. slot |-> IF s = 0 \/ Back(s) < 0 THEN 1 ELSE g[Back(s)] + 1]
           f == [s \in 0 .. slot |-> Owns(s) - base + 1 + (IF Hd(s) THEN 0 ELSE 1)]
           count == CHOOSE g : Runs(g)
<1>1. k0 + 0 = k0 /\ 0 \in 0 .. slot /\ slot \in 0 .. slot
  OBVIOUS
<1>2. \A s \in 0 .. slot : Owns(s) \in Nat
  <2> SUFFICES ASSUME NEW s \in 0 .. slot PROVE Owns(s) \in Nat
    OBVIOUS
  <2>1. k0 + s \in 0 .. n - 1
    OBVIOUS
  <2> QED BY <2>1 DEF Marks
<1>3. base \in Nat /\ k0 + 0 = k0 /\ 0 \in 0 .. slot
  <2>1. own[k0 + 0] \in Nat
    BY <1>1, <1>2
  <2> QED BY <1>1, <2>1
<1>4. \A s \in 1 .. slot : /\ Hd(s) => Owns(s) = Owns(s - 1) + 1
                           /\ ~Hd(s) => Owns(s) = Owns(s - 1)
  <2> SUFFICES ASSUME NEW s \in 1 .. slot
               PROVE  (Hd(s) => Owns(s) = Owns(s - 1) + 1) /\ (~Hd(s) => Owns(s) = Owns(s - 1))
    OBVIOUS
  <2>1. PICK k \in 0 .. n - 1 : k = k0 + s /\ k > 0 /\ k - 1 = k0 + (s - 1)
    BY <1>1
  <2>2. CASE Hd(s)
    BY <2>1, <2>2 DEF Marks, HeadAt
  <2>3. CASE ~Hd(s)
    <3>1. PICK lo \in Nat : BackAt(put, own, k, lo)
      BY <2>1, <2>3 DEF Marks
    <3>2. CASE lo = 1
      BY <2>1, <2>3, <3>1, <3>2 DEF BackAt
    <3>3. CASE lo # 1
      <4>1. k - 1 \in k - lo + 1 .. k
        BY <3>1, <3>3 DEF BackAt
      <4> QED BY <2>1, <2>3, <3>1, <4>1 DEF BackAt
    <3> QED BY <3>2, <3>3
  <2> QED BY <2>2, <2>3
<1>5. \A s \in 1 .. slot : /\ Back(s) \in Int /\ Back(s) < s
                           /\ Back(s) >= 0 => Hd(Back(s)) /\ Owns(Back(s)) = Owns(s - 1)
                           /\ Back(s) < 0 => Owns(0) = Owns(s - 1) /\ ~Hd(0)
  <2> SUFFICES ASSUME NEW s \in 1 .. slot
               PROVE  /\ Back(s) \in Int /\ Back(s) < s
                      /\ Back(s) >= 0 => Hd(Back(s)) /\ Owns(Back(s)) = Owns(s - 1)
                      /\ Back(s) < 0 => Owns(0) = Owns(s - 1) /\ ~Hd(0)
    OBVIOUS
  <2>1. k0 + s - 1 = k0 + (s - 1) /\ k0 + 0 + 1 = k0 + 1
    OBVIOUS
  <2>2. /\ StepBack(decoded, s) \in Int /\ StepBack(decoded, s) < s
        /\ StepBack(decoded, s) >= 0 =>
              /\ IsHead(put[k0 + StepBack(decoded, s) + 1].type)
              /\ own[k0 + StepBack(decoded, s)] = own[k0 + s - 1]
        /\ StepBack(decoded, s) < 0 => own[k0] = own[k0 + s - 1] /\ ~IsHead(put[k0 + 1].type)
    BY BackIs
  <2> QED BY <1>3, <2>1, <2>2
<1>6. base = Owns(0) + (IF Hd(0) THEN 0 ELSE 1)
  <2>1. k0 + 0 + 1 = k0 + 1
    BY <1>1
  <2> QED BY <1>3, <2>1
<1> HIDE DEF Hd, Owns, Back, base
<1>7. Runs(f)
  <2>1. \A s \in 1 .. slot : f[s] = IF Back(s) < 0 THEN 1 ELSE f[Back(s)] + 1
    <3> SUFFICES ASSUME NEW s \in 1 .. slot PROVE f[s] = IF Back(s) < 0 THEN 1 ELSE f[Back(s)] + 1
      OBVIOUS
    <3>1. f[s] = Owns(s - 1) - base + 2
      <4>1. s \in 0 .. slot /\ s - 1 \in 0 .. slot
        OBVIOUS
      <4>2. Owns(s) \in Nat /\ Owns(s - 1) \in Nat
        BY <1>2, <4>1
      <4>3. Hd(s) => Owns(s) = Owns(s - 1) + 1
        BY <1>4
      <4>4. ~Hd(s) => Owns(s) = Owns(s - 1)
        BY <1>4
      <4> QED BY <1>3, <4>1, <4>2, <4>3, <4>4
    <3>2. CASE Back(s) < 0
      <4>1. Owns(0) = Owns(s - 1) /\ ~Hd(0)
        BY <1>5, <3>2
      <4>2. base = Owns(0) + 1 /\ Owns(0) \in Nat
        BY <1>2, <1>3, <1>6, <4>1
      <4> QED BY <3>1, <3>2, <4>1, <4>2
    <3>3. CASE ~(Back(s) < 0)
      <4>1. PICK b \in 0 .. slot : b = Back(s) /\ Hd(b) /\ Owns(b) = Owns(s - 1)
        BY <1>5, <3>3
      <4>2. f[b] = Owns(b) - base + 1 /\ Owns(b) \in Nat
        BY <1>2, <1>3, <4>1
      <4> QED BY <1>3, <3>1, <3>3, <4>1, <4>2
    <3> QED BY <3>2, <3>3
  <2>2. f[0] = 1
    BY <1>2, <1>3, <1>6
  <2>3. f = [s \in 0 .. slot |-> f[s]]
    OBVIOUS
  <2> HIDE DEF f
  <2>4. \A s \in 0 .. slot : f[s] = IF s = 0 \/ Back(s) < 0 THEN 1 ELSE f[Back(s)] + 1
    BY <2>1, <2>2
  <2> QED BY <2>3, <2>4
<1>8. Runs(count)
  <2> HIDE DEF Runs, f
  <2> QED BY <1>7
<1>9. f[slot] = own[k0 + slot] - own[k0] + (IF IsHead(put[k0 + 1].type) THEN 1 ELSE 0)
  <2>1. Hd(slot) /\ slot \in 0 .. slot
    BY <1>1 DEF Hd
  <2>2. Owns(slot) = own[k0 + slot] /\ Owns(slot) \in Nat /\ own[k0] \in Nat
    BY <1>2, <1>3, <2>1 DEF Owns
  <2>3. f[slot] = Owns(slot) - base + 1
    BY <1>2, <1>3, <2>1
  <2> HIDE DEF f
  <2> QED BY <2>2, <2>3 DEF base
<1>10. HeadsFrom(decoded, slot) = count[slot]
  BY DEF HeadsFrom, Back
<1> HIDE DEF count, f
<1> DEFINE S == {m \in Nat : \A r \in 0 .. m : r <= slot => count[r] = f[r]}
<1>11. 0 \in S
  <2>1. count[0] = f[0]
    BY <1>3, <1>7, <1>8
  <2> QED BY <2>1
<1>12. ASSUME NEW m \in S PROVE m + 1 \in S
  <2> SUFFICES ASSUME m + 1 <= slot PROVE count[m + 1] = f[m + 1]
    OBVIOUS
  <2>1. PICK s \in 1 .. slot : s = m + 1
    OBVIOUS
  <2>2. count[s] = (IF Back(s) < 0 THEN 1 ELSE count[Back(s)] + 1)
    BY <1>8
  <2>3. f[s] = (IF Back(s) < 0 THEN 1 ELSE f[Back(s)] + 1)
    BY <1>7
  <2>4. ~(Back(s) < 0) => count[Back(s)] = f[Back(s)]
    <3>1. Back(s) \in Int /\ Back(s) < s
      BY <1>5
    <3> QED BY <2>1, <3>1
  <2> QED BY <2>1, <2>2, <2>3, <2>4
<1>13. S = Nat
  <2>1. S \in SUBSET Nat
    OBVIOUS
  <2> HIDE DEF S
  <2> QED BY <1>11, <1>12, <2>1, NatInd
<1>14. count[slot] = f[slot]
  <2>1. slot \in S /\ slot \in 0 .. slot /\ slot <= slot
    BY <1>1, <1>13
  <2> QED BY <2>1
\* No count meets a marker: every delta is below it.
<1> DEFINE Marked(s) == decoded[s - 1].type = NONHEAD /\ (decoded[s - 1].lo \div Cblkcnt) % 2 = 1
           Meets(g) == g = [s \in 0 .. slot |-> s > 0 /\ (Marked(s) \/ (Back(s) >= 0 /\ g[Back(s)]))]
           met == CHOOSE g : Meets(g)
           none == [s \in 0 .. slot |-> FALSE]
<1>15. \A s \in 1 .. slot : ~Marked(s)
  <2> SUFFICES ASSUME NEW s \in 1 .. slot PROVE ~Marked(s)
    OBVIOUS
  <2>1. PICK k \in 0 .. n - 1 : k = k0 + s - 1 /\ k + 1 = k0 + (s - 1) + 1
    BY <1>1
  <2>2. decoded[s - 1].lo = put[k + 1].lo
    <3>1. s - 1 \in 0 .. slot
      OBVIOUS
    <3> QED BY <2>1, <3>1 DEF Shown
  <2>3. PICK lo \in Nat : lo = put[k + 1].lo /\ lo < 2048
    <3>1. put[k + 1].lo \in Nat /\ put[k + 1].lo < 2048
      BY MarkLo
    <3> QED BY <3>1
  <2>4. lo \div Cblkcnt = 0
    BY <2>3 DEF Cblkcnt
  <2> QED BY <2>2, <2>3, <2>4
<1> HIDE DEF Marked
<1>16. Meets(none)
  <2>1. \A s \in 0 .. slot : ~(s > 0 /\ (Marked(s) \/ (Back(s) >= 0 /\ none[Back(s)])))
    <3>1. ASSUME NEW s \in 1 .. slot PROVE ~(Marked(s) \/ (Back(s) >= 0 /\ none[Back(s)]))
      <4>1. Back(s) >= 0 => Back(s) \in 0 .. slot
        BY <1>5
      <4> QED BY <1>15, <4>1
    <3>2. \A s \in 0 .. slot : s > 0 => s \in 1 .. slot
      OBVIOUS
    <3> HIDE DEF none
    <3> QED BY <3>1, <3>2
  <2> QED BY <2>1
<1>17. Meets(met)
  <2> HIDE DEF Meets, none
  <2> QED BY <1>16
<1>18. MeetsMarker(decoded, slot) <=> met[slot]
  BY DEF MeetsMarker, Marked, Back
<1> HIDE DEF met
<1> DEFINE U == {m \in Nat : \A r \in 0 .. m : r <= slot => ~met[r]}
<1>19. 0 \in U
  <2>1. met[0] = (0 > 0 /\ (Marked(0) \/ (Back(0) >= 0 /\ met[Back(0)])))
    BY <1>1, <1>17
  <2>2. ~met[0]
    <3>1. ~(0 > 0)
      OBVIOUS
    <3> QED BY <2>1, <3>1, Zenon
  <2>3. \A r \in 0 .. 0 : r = 0
    OBVIOUS
  <2> QED BY <2>2, <2>3
<1>20. ASSUME NEW m \in U PROVE m + 1 \in U
  <2> SUFFICES ASSUME m + 1 <= slot PROVE ~met[m + 1]
    OBVIOUS
  <2>1. PICK s \in 1 .. slot : s = m + 1
    OBVIOUS
  <2>2. met[s] <=> (Marked(s) \/ (Back(s) >= 0 /\ met[Back(s)]))
    <3>1. s \in 0 .. slot /\ s > 0
      OBVIOUS
    <3>2. met[s] = (s > 0 /\ (Marked(s) \/ (Back(s) >= 0 /\ met[Back(s)])))
      BY <1>17, <3>1, Zenon
    <3> QED BY <3>1, <3>2
  <2>3. Back(s) >= 0 => ~met[Back(s)]
    <3>1. Back(s) \in Int /\ Back(s) < s
      BY <1>5
    <3> QED BY <2>1, <3>1
  <2> QED BY <1>15, <2>1, <2>2, <2>3
<1>21. U = Nat
  <2>1. U \in SUBSET Nat
    OBVIOUS
  <2> HIDE DEF U
  <2> QED BY <1>19, <1>20, <2>1, NatInd
<1>22. ~met[slot]
  <2>1. slot \in U /\ slot \in 0 .. slot /\ slot <= slot
    BY <1>1, <1>21
  <2> QED BY <2>1
<1> QED BY <1>9, <1>10, <1>14, <1>18, <1>22

\* The part of the entries a pack was made of.
SliceOf(slice, len, put, k0, n) ==
  /\ len \in Nat /\ DOMAIN slice = 1 .. len /\ k0 + len <= n
  /\ \A s \in 1 .. len : slice[s] = put[k0 + s]
\* What the reader makes of lcluster k from its pack.
Shows(decoded, pack, shape, slot, put, own, k) ==
  /\ decoded[slot] = [lo |-> put[k + 1].lo, type |-> put[k + 1].type]
  /\ IsHead(put[k + 1].type) =>
       /\ ~MeetsMarker(decoded, slot) /\ put[k + 1].lo = 0
       /\ pack.base + HeadsFrom(decoded, slot) = FirstBlock + own[k]
  /\ ~IsHead(put[k + 1].type) => NonheadDelta(shape, decoded, slot) = put[k + 1].lo

\* The slots of a pack up to one, decoded.
Decodes(decoded, shape, pack, slot) == decoded = [s \in 0 .. slot |-> PackRead(shape, pack.bits, s)]

\* The base of a pack is one less than the block of its first head.
LEMMA BaseIs ==
  ASSUME NEW put, NEW own, NEW n \in Nat, Marks(put, own, n), NEW k0 \in Nat, NEW len, NEW slice,
         SliceOf(slice, len, put, k0, n), \E s \in 1 .. len : IsHead(slice[s].type)
  PROVE  PackBase(slice) = FirstBlock + own[k0] - (IF IsHead(put[k0 + 1].type) THEN 1 ELSE 0)
         /\ own[k0] \in Nat
<1> DEFINE heads == {s \in DOMAIN slice : IsHead(slice[s].type)}
<1>0. /\ len \in Nat /\ DOMAIN slice = 1 .. len /\ k0 + len <= n
      /\ \A s \in 1 .. len : slice[s] = put[k0 + s]
  BY DEF SliceOf
<1>1. heads \in SUBSET Nat /\ heads # {}
  BY <1>0
<1>2. PICK h \in heads : \A s \in heads : h <= s
  <2>1. PICK h \in heads : \A s \in heads : ~(s < h)
    <3> HIDE DEF heads
    <3> QED BY <1>1, NatMin
  <2> QED BY <1>1, <2>1
<1>3. Min(heads) = h
  <2>1. \A x, y \in heads : (\A s \in heads : x <= s) /\ (\A s \in heads : y <= s) => x = y
    BY <1>1
  <2> HIDE DEF heads
  <2> QED BY <1>2, <2>1 DEF Min
<1>4. PICK k \in 0 .. n - 1 : k = k0 + h - 1 /\ h \in 1 .. len /\ IsHead(put[k + 1].type) /\ slice[h] = put[k + 1]
  <2>1. h \in 1 .. len /\ IsHead(slice[h].type) /\ slice[h] = put[k0 + h]
    BY <1>0
  <2>2. (k0 + h - 1) + 1 = k0 + h /\ k0 + h - 1 \in 0 .. n - 1
    BY <1>0, <2>1
  <2> QED BY <2>1, <2>2
<1>5. HeadAt(put[k + 1], own, k) /\ own[k] \in Nat
  BY <1>4 DEF Marks
<1>6. PackBase(slice) = FirstBlock + own[k] - 1
  <2>1. heads # {} /\ slice[Min(heads)].addr = FirstBlock + own[k]
    BY <1>3, <1>4, <1>5 DEF HeadAt
  <2>2. PICK b \in Nat : b = FirstBlock + own[k] - 1
    BY <1>5, PlaceAssumption
  <2>3. Max({0, b}) = b
    <3>1. \E x \in {0, b} : \A y \in {0, b} : x >= y
      OBVIOUS
    <3>2. Max({0, b}) \in {0, b} /\ \A y \in {0, b} : Max({0, b}) >= y
      BY <3>1 DEF Max
    <3> QED BY <3>2
  <2>4. PackBase(slice) = Max({0, slice[Min(heads)].addr - 1})
    <3>1. PackBase(slice) = IF heads = {} THEN 0 ELSE Max({0, slice[Min(heads)].addr - 1})
      BY DEF PackBase
    <3>2. heads # {}
      BY <2>1
    <3> HIDE DEF heads
    <3> QED BY <3>1, <3>2
  <2>5. slice[Min(heads)].addr - 1 = b
    <3> HIDE DEF heads
    <3> QED BY <1>5, <2>1, <2>2, PlaceAssumption
  <2> QED BY <2>2, <2>3, <2>4, <2>5
<1>7. CASE h = 1
  BY <1>4, <1>5, <1>6, <1>7, PlaceAssumption
<1>8. CASE h # 1
  <2>1. PICK j \in 0 .. n - 1 : j = k - 1 /\ j = k0 + (h - 2) /\ h - 1 \in 1 .. len
    BY <1>0, <1>4, <1>8
  <2>2. ~IsHead(put[j + 1].type)
    <3>1. PICK m \in 1 .. len : m = h - 1 /\ k0 + m = j + 1 /\ m < h
      BY <1>4, <2>1
    <3>2. slice[m] = put[j + 1]
      BY <1>0, <3>1
    <3>3. ASSUME m \in heads PROVE FALSE
      <4>1. h <= m
        <5> HIDE DEF heads
        <5> QED BY <1>2, <3>3
      <4> QED BY <1>4, <3>1, <4>1
    <3> QED BY <1>0, <3>2, <3>3
  <2>3. PICK lo \in Nat : BackAt(put, own, j, lo)
    BY <2>2 DEF Marks
  <2>4. j - lo < k0
    <3> SUFFICES ASSUME j - lo >= k0 PROVE FALSE
      BY <2>3 DEF BackAt
    <3>1. PICK q \in 1 .. len : q = j - lo - k0 + 1 /\ k0 + q = j - lo + 1 /\ q < h
      BY <1>0, <1>4, <2>1, <2>3 DEF BackAt
    <3>2. slice[q] = put[j - lo + 1]
      BY <1>0, <3>1
    <3>3. q \in heads
      BY <1>0, <2>3, <3>2 DEF BackAt
    <3>4. h <= q
      <4> HIDE DEF heads
      <4> QED BY <1>2, <3>3
    <3> QED BY <1>4, <3>1, <3>4
  <2>5. k0 \in j - lo + 1 .. j
    BY <1>4, <1>8, <2>1, <2>4
  <2>6. own[k0] = own[j] /\ ~IsHead(put[k0 + 1].type)
    BY <2>3, <2>5 DEF BackAt
  <2>7. own[k] = own[j] + 1 /\ own[j] \in Nat
    <3>1. k > 0 /\ k - 1 = j
      BY <2>1
    <3> QED BY <1>5, <3>1 DEF HeadAt, Marks
  <2> QED BY <1>6, <2>6, <2>7, PlaceAssumption
<1> QED BY <1>7, <1>8

\* What a pack that holds an lcluster shows at its slot, and what is made of it.
LEMMA PackShows ==
  ASSUME LoBits = 12, NEW put, NEW own, NEW n \in Nat, Marks(put, own, n), NEW k \in 0 .. n - 1,
         NEW pack, NEW shape \in {Pack4, Pack2}, NEW slot \in Nat, Holds(pack, shape, slot, put, n, k),
         NEW decoded, Decodes(decoded, shape, pack, slot)
  PROVE  Shows(decoded, pack, shape, slot, put, own, k)
<1>3. slot < shape.vcnt /\ slot <= k
  BY DEF Holds
<1>4. PICK slice : \E le \in Nat :
        /\ pack = EncodePack(shape, slice) /\ DOMAIN slice = 1 .. le
        /\ slot < le /\ le <= shape.vcnt /\ k - slot + le <= n
        /\ \A s \in 1 .. le : slice[s] = put[k - slot + s]
  BY DEF Holds
<1>4b. PICK len \in Nat : /\ pack = EncodePack(shape, slice) /\ DOMAIN slice = 1 .. len
                        /\ slot < len /\ len <= shape.vcnt /\ k - slot + len <= n
                        /\ \A s \in 1 .. len : slice[s] = put[k - slot + s]
  BY <1>4
<1>5. PICK k0 \in Nat : k0 = k - slot
  BY <1>3
<1>6. \A s \in 1 .. len : slice[s] = put[k0 + s]
  BY <1>4b, <1>5
<1>7. k0 + slot = k /\ k0 + len <= n /\ k0 + slot + 1 = k + 1
  BY <1>4b, <1>5
<1>8. Slots(slice, len)
  <2>1. ASSUME NEW s \in 1 .. len PROVE slice[s].type \in 0 .. 3 /\ slice[s].lo \in Nat /\ slice[s].lo < 4096
    <3>1. PICK j \in 0 .. n - 1 : j = k0 + s - 1 /\ j + 1 = k0 + s
      BY <1>4b, <1>7
    <3>2. slice[s] = put[j + 1]
      BY <1>6, <3>1
    <3>3. put[j + 1].type \in 0 .. 2
      BY DEF Marks
    <3>4. put[j + 1].lo \in Nat /\ put[j + 1].lo < 2048
      <4> QED BY MarkLo
    <3> QED BY <3>2, <3>3, <3>4
  <2> QED BY <1>4b, <2>1 DEF Slots
<1>9. ASSUME NEW s \in 0 .. slot
      PROVE  PackRead(shape, pack.bits, s) = [lo |-> put[k0 + s + 1].lo, type |-> put[k0 + s + 1].type]
  <2>1. s \in Nat /\ s < len /\ s + 1 \in 1 .. len /\ k0 + (s + 1) = k0 + s + 1
    BY <1>4b
  <2>2. PackRead(shape, EncodePack(shape, slice).bits, s) = [lo |-> slice[s + 1].lo, type |-> slice[s + 1].type]
    BY <1>4b, <1>8, <2>1, SlotRead, SMTT(30)
  <2>3. slice[s + 1] = put[k0 + s + 1]
    BY <1>6, <2>1
  <2> QED BY <1>4b, <2>2, <2>3
<1>10. Shown(decoded, put, k0, slot)
  BY <1>3, <1>9 DEF Shown, Decodes
<1>11. decoded[slot] = [lo |-> put[k + 1].lo, type |-> put[k + 1].type]
  <2>1. slot \in 0 .. slot
    OBVIOUS
  <2> QED BY <1>7, <1>10, <2>1 DEF Shown
<1>12. ASSUME IsHead(put[k + 1].type)
       PROVE  /\ ~MeetsMarker(decoded, slot) /\ put[k + 1].lo = 0
              /\ pack.base + HeadsFrom(decoded, slot) = FirstBlock + own[k]
  <2>1. IsHead(put[k0 + slot + 1].type) /\ k0 + slot < n
    BY <1>7, <1>12
  <2>2. /\ HeadsFrom(decoded, slot) = own[k0 + slot] - own[k0] + (IF IsHead(put[k0 + 1].type) THEN 1 ELSE 0)
        /\ ~MeetsMarker(decoded, slot)
    BY <1>10, <2>1, Counted
  <2>3. PackBase(slice) = FirstBlock + own[k0] - (IF IsHead(put[k0 + 1].type) THEN 1 ELSE 0)
        /\ own[k0] \in Nat
    <3>1. SliceOf(slice, len, put, k0, n)
      BY <1>4b, <1>6, <1>7 DEF SliceOf
    <3>2. \E r \in 1 .. len : IsHead(slice[r].type)
      <4>1. slot + 1 \in 1 .. len /\ k0 + (slot + 1) = k + 1
        BY <1>4b, <1>7
      <4> QED BY <1>6, <1>12, <4>1
    <3> QED BY <3>1, <3>2, BaseIs
  <2>4. pack.base = PackBase(slice)
    BY <1>4b DEF EncodePack
  <2>5. put[k + 1].lo = 0 /\ own[k] \in Nat
    BY <1>12 DEF Marks, HeadAt
  <2>6. pack.base + HeadsFrom(decoded, slot) = FirstBlock + own[k]
    <3>1. PICK a \in Nat, b \in Nat, c \in 0 .. 1, f \in Nat :
            a = own[k] /\ b = own[k0] /\ c = (IF IsHead(put[k0 + 1].type) THEN 1 ELSE 0) /\ f = FirstBlock
      BY <2>3, <2>5, PlaceAssumption
    <3>2. HeadsFrom(decoded, slot) = a - b + c /\ pack.base = f + b - c
      BY <1>7, <2>2, <2>3, <2>4, <3>1
    <3> QED BY <3>1, <3>2
  <2> QED BY <2>2, <2>5, <2>6
<1>13. ASSUME ~IsHead(put[k + 1].type)
       PROVE  NonheadDelta(shape, decoded, slot) = put[k + 1].lo
  <2>1. decoded[slot].lo = put[k + 1].lo
    BY <1>11
  <2>2. PICK lo \in Nat : BackAt(put, own, k, lo) /\ lo = put[k + 1].lo /\ lo < 2048 /\ lo >= 1
    <3>1. PICK lo \in Nat : BackAt(put, own, k, lo)
      BY <1>13 DEF Marks
    <3> QED BY <3>1 DEF BackAt
  <2>3. CASE slot + 1 # shape.vcnt
    <3>1. lo % 65536 = lo
      BY <2>2
    <3> QED BY <1>11, <2>1, <2>2, <2>3, <3>1 DEF NonheadDelta
  <2>4. CASE slot + 1 = shape.vcnt
    <3>1. slot >= 1
      BY <2>4 DEF Pack4, Pack2
    <3>2. PICK j \in 0 .. n - 1 : j = k - 1 /\ k0 + (slot - 1) + 1 = j + 1
      BY <1>7, <3>1
    <3>3. decoded[slot - 1].type = put[j + 1].type /\ decoded[slot - 1].lo = put[j + 1].lo
      <4>1. slot - 1 \in 0 .. slot
        BY <3>1
      <4> QED BY <1>10, <3>2, <4>1 DEF Shown
    <3>4. CASE lo = 1
      <4>1. IsHead(put[j + 1].type)
        BY <2>2, <3>2, <3>4 DEF BackAt
      <4> QED BY <1>11, <2>1, <2>2, <2>4, <3>3, <3>4, <4>1 DEF NonheadDelta, IsHead
    <3>5. CASE lo # 1
      <4>1. j \in k - lo + 1 .. k
        BY <2>2, <3>2, <3>5
      <4>2. ~IsHead(put[j + 1].type) /\ put[j + 1].lo = j - (k - lo)
        BY <2>2, <4>1 DEF BackAt
      <4>3. PICK b \in Nat : b = put[j + 1].lo /\ b = lo - 1
        BY <2>2, <3>2, <4>2
      <4>4. (b \div Cblkcnt) % 2 # 1
        <5>1. b \div 2048 = 0
          BY <2>2, <4>3
        <5> QED BY <5>1 DEF Cblkcnt
      <4>5. (b + 1) % 65536 = lo
        BY <2>2, <4>3
      <4> QED BY <1>11, <2>1, <2>2, <2>4, <3>3, <4>2, <4>3, <4>4, <4>5 DEF NonheadDelta, IsHead
    <3> QED BY <3>4, <3>5
  <2> QED BY <2>3, <2>4
<1> QED BY <1>11, <1>12, <1>13 DEF Shows

\* A lcluster of a compact index is read as it was entered.
LEMMA CompactRead ==
  ASSUME LoBits = 12, NEW bodyEnd \in Nat, NEW T, NEW put \in Seq(T), NEW own,
         Marks(put, own, Len(put)), NEW d, d.bodyEnd = bodyEnd, d.n = Len(put),
         d.index = EncodeCompact(bodyEnd, put), NEW k \in 0 .. Len(put) - 1
  PROVE  LET e == ReadCompact(d, k) IN
         /\ e.type = put[k + 1].type
         /\ IsHead(put[k + 1].type) => e.ofs = 0 /\ e.u = FirstBlock + own[k]
         /\ ~IsHead(put[k + 1].type) => e.u = put[k + 1].lo
<1> DEFINE start == Ebase(bodyEnd)
           home == Locate(start, ReadGeometry(start, Len(put), Compacted2B(bodyEnd, Len(put))), k)
           pack == d.index[home.at]
           decoded == [s \in 0 .. home.slot |-> PackRead(home.shape, pack.bits, s)]
           e == ReadCompact(d, k)
<1>1. home.at \in DOMAIN d.index /\ Holds(pack, home.shape, home.slot, put, Len(put), k)
  BY PackMet
<1>2. e = IF ~IsHead(decoded[home.slot].type)
          THEN [type |-> decoded[home.slot].type, ofs |-> 0,
                u |-> NonheadDelta(home.shape, decoded, home.slot)]
          ELSE IF MeetsMarker(decoded, home.slot) THEN Refused
          ELSE [type |-> decoded[home.slot].type, ofs |-> decoded[home.slot].lo % 65536,
                u |-> pack.base + HeadsFrom(decoded, home.slot)]
  BY <1>1 DEF ReadCompact
<1> HIDE DEF home, pack, e
<1>3. home.slot \in Nat /\ home.shape \in {Pack4, Pack2} /\ Len(put) \in Nat
  BY <1>1 DEF Holds
<1>4. Shows(decoded, pack, home.shape, home.slot, put, own, k)
  <2>1. Decodes(decoded, home.shape, pack, home.slot)
    BY DEF Decodes
  <2>2. PICK n \in Nat : n = Len(put)
    BY <1>3
  <2>3. k \in 0 .. n - 1 /\ Marks(put, own, n) /\ Holds(pack, home.shape, home.slot, put, n, k)
    BY <1>1, <2>2
  <2> HIDE DEF decoded
  <2>4. PICK slot \in Nat, shape \in {Pack4, Pack2} : slot = home.slot /\ shape = home.shape
    BY <1>3
  <2>5. Decodes(decoded, shape, pack, slot) /\ Holds(pack, shape, slot, put, n, k)
    BY <2>1, <2>3, <2>4
  <2>6. Shows(decoded, pack, shape, slot, put, own, k)
    BY <2>3, <2>5, PackShows
  <2> QED BY <2>4, <2>6
<1> HIDE DEF decoded
<1>5. 0 % 65536 = 0
  OBVIOUS
<1> QED BY <1>2, <1>4, <1>5 DEF e, Shows

\* The entries as they are handed to the codec.
PutOf(put) ==
  /\ DOMAIN put = 1 .. Src.n
  /\ \A k \in 0 .. Src.n - 1 :
       /\ put[k + 1].type = TypeCode(entries[k + 1].type) /\ put[k + 1].lo = entries[k + 1].lo
       /\ put[k + 1].type \in 0 .. 2 /\ (IsHead(put[k + 1].type) <=> entries[k + 1].type # "NONHEAD")
       /\ entries[k + 1].type # "NONHEAD" => put[k + 1].addr = AddrOf(entries[k + 1].pc + 1)

\* The entries as they are put, one for each lcluster.
LEMMA PutIs ==
  ASSUME CollatorInv, WriterInv, st = "image"
  PROVE  \E T : Addressed(AddrsOf(pclusters)) \in Seq(T)
         /\ Len(Addressed(AddrsOf(pclusters))) = Src.n /\ PutOf(Addressed(AddrsOf(pclusters)))
<1>1. PICK put, addrs : put = Addressed(addrs) /\ addrs = AddrsOf(pclusters)
  OBVIOUS
<1>2. PICK n \in Nat : n = Src.n /\ entries \in Seq(EntryType) /\ Len(entries) = n /\ DOMAIN entries = 1 .. n
  BY WrittenFile
<1>3. DOMAIN put = 1 .. n /\ put = [k \in 1 .. n |-> put[k]]
  BY <1>1, <1>2 DEF Addressed
<1>4. put \in Seq({put[k] : k \in 1 .. n}) /\ Len(put) = n
  BY <1>3
<1>5. ASSUME NEW k \in 0 .. n - 1
      PROVE  /\ put[k + 1].type = TypeCode(entries[k + 1].type) /\ put[k + 1].lo = entries[k + 1].lo
             /\ put[k + 1].type \in 0 .. 2
             /\ (IsHead(put[k + 1].type) <=> entries[k + 1].type # "NONHEAD")
             /\ entries[k + 1].type # "NONHEAD" => put[k + 1].addr = AddrOf(entries[k + 1].pc + 1)
  <2>1. PICK j \in 1 .. n : j = k + 1
    BY <1>2
  <2>2. put[j] = [type |-> TypeCode(entries[j].type), lo |-> entries[j].lo,
                  addr |-> IF entries[j].type = "NONHEAD" THEN 0 ELSE addrs[entries[j].pc]]
    BY <1>1, <1>2 DEF Addressed
  <2>3. entries[j].type \in {"HEAD1", "PLAIN", "NONHEAD"}
    <3>1. entries[j] \in EntryType
      BY <1>2
    <3> QED BY <3>1 DEF EntryType
  <2>4. TypeCode(entries[j].type) \in 0 .. 2
        /\ (TypeCode(entries[j].type) # 2 <=> entries[j].type # "NONHEAD")
    BY <2>3 DEF TypeCode, PLAIN, HEAD1, NONHEAD
  <2>5. ASSUME entries[j].type # "NONHEAD" PROVE put[j].addr = AddrOf(entries[j].pc + 1)
    <3>1. PICK p : p = OwnerOf(k) /\ p \in 1 .. Len(pclusters) /\ entries[j].pc = p - 1
      BY <1>2, <2>1, Owners
    <3>2. Each(pclusters, Target) /\ Target \in Nat /\ pclusters \in Seq(PcType)
      BY WrittenFile, FileFacts DEF WriterInv, BlocksEach, Each
    <3>3. PICK q \in Nat : q = p - 1 /\ q < Len(pclusters) /\ q \in 0 .. Len(pclusters)
      BY <3>1, WrittenFile
    <3>4. addrs[q] = FirstBlock + q * Target
      BY <1>1, <3>2, <3>3, AddrFacts
    <3>5. (q + 1) - 1 = q
      OBVIOUS
    <3>6. AddrOf(q + 1) = FirstBlock + q * Target
      BY <3>5 DEF AddrOf
    <3> QED BY <2>2, <2>5, <3>1, <3>3, <3>4, <3>6
  <2> QED BY <2>1, <2>2, <2>4, <2>5 DEF IsHead, NONHEAD
<1> QED BY <1>1, <1>2, <1>3, <1>4, <1>5 DEF PutOf

\* Lcluster k is of pcluster p, which heads at hd and has len lclusters.
OfPcluster(k, p, hd, len) ==
  /\ p = OwnerOf(k) /\ p \in 1 .. Len(pclusters) /\ entries[k + 1].pc = p - 1
  /\ hd = pclusters[p].head /\ len = pclusters[p].n
  /\ len > 0 /\ hd <= k /\ k < hd + len /\ hd + len <= Src.n
  /\ entries[k + 1].type = "NONHEAD" => entries[k + 1].lo = k - hd /\ k > hd
  /\ entries[k + 1].type # "NONHEAD" => k = hd /\ entries[k + 1].lo = 0

\* Where it is compact it is for pclusters of one block, whose entries mark their owners.
LEMMA PutMarks ==
  ASSUME CollatorInv, WriterInv, st = "image", Target = 1,
         \A frame \in Src.grows : frame[2] - frame[1] < Cblkcnt,
         NEW put, PutOf(put)
  PROVE  Marks(put, [k \in 0 .. Src.n - 1 |-> OwnerOf(k) - 1], Src.n)
<1>0. PICK n \in Nat : n = Src.n
  BY WrittenFile
<1> DEFINE own == [k \in 0 .. n - 1 |-> OwnerOf(k) - 1]
<1>1. ASSUME NEW k \in 0 .. n - 1
      PROVE  /\ put[k + 1].type = TypeCode(entries[k + 1].type) /\ put[k + 1].lo = entries[k + 1].lo
             /\ put[k + 1].type \in 0 .. 2 /\ (IsHead(put[k + 1].type) <=> entries[k + 1].type # "NONHEAD")
             /\ (entries[k + 1].type # "NONHEAD" => put[k + 1].addr = AddrOf(entries[k + 1].pc + 1))
  BY <1>0 DEF PutOf
<1>2. ASSUME NEW k \in 0 .. n - 1
      PROVE  \E p, hd, len \in Nat : OfPcluster(k, p, hd, len) /\ own[k] = p - 1
  <2>1. PICK p : p = OwnerOf(k)
    OBVIOUS
  <2>2. /\ p \in 1 .. Len(pclusters) /\ pclusters[p] \in PcType /\ Leads(entries[k + 1], k, pclusters[p])
        /\ entries[k + 1].pc = p - 1 /\ pclusters[p].head + pclusters[p].n <= n
    BY <1>0, <2>1, Owners
  <2>3. own[k] = p - 1
    BY <2>1
  <2> HIDE DEF own
  <2>4. PICK hd \in Nat, len \in Nat : hd = pclusters[p].head /\ len = pclusters[p].n /\ len > 0
    BY <2>2 DEF PcType
  <2>5. OfPcluster(k, p, hd, len) /\ p \in Nat
    BY <1>0, <2>1, <2>2, <2>4 DEF Leads, OfPcluster
  <2> QED BY <2>3, <2>4, <2>5
<1>3. \A k \in 0 .. n - 1 : own[k] \in Nat
  <2> HIDE DEF own
  <2> SUFFICES ASSUME NEW k \in 0 .. n - 1 PROVE own[k] \in Nat
    OBVIOUS
  <2>1. PICK p \in Nat, hd \in Nat, len \in Nat : OfPcluster(k, p, hd, len) /\ own[k] = p - 1
    BY <1>2
  <2> QED BY <2>1, WrittenFile DEF OfPcluster
<1>4. ASSUME NEW k \in 0 .. n - 1, IsHead(put[k + 1].type)
      PROVE  HeadAt(put[k + 1], own, k)
  <2> HIDE DEF own
  <2>0. PICK p \in Nat, hd \in Nat, len \in Nat : OfPcluster(k, p, hd, len) /\ own[k] = p - 1
    BY <1>2
  <2>a. p = OwnerOf(k) /\ p \in 1 .. Len(pclusters) /\ hd = pclusters[p].head /\ len = pclusters[p].n
    BY <2>0 DEF OfPcluster
  <2>1. len > 0 /\ hd = k /\ own[k] = p - 1 /\ entries[k + 1].pc = p - 1 /\ entries[k + 1].lo = 0
    BY <1>1, <1>4, <2>0 DEF OfPcluster
  <2>2. put[k + 1].lo = 0 /\ put[k + 1].addr = FirstBlock + own[k]
    <3>1. put[k + 1].addr = AddrOf(entries[k + 1].pc + 1)
      BY <1>1, <1>4
    <3>2. entries[k + 1].pc + 1 = p
      BY <2>1
    <3>3. AddrOf(p) = FirstBlock + (p - 1)
      BY PlaceAssumption DEF AddrOf
    <3> QED BY <1>1, <2>1, <3>1, <3>2, <3>3
  <2>3. ASSUME k > 0 PROVE own[k] = own[k - 1] + 1
    <3>1. PICK j \in 0 .. n - 1 : j = k - 1
      BY <2>3
    <3>0. PICK q \in Nat, hq \in Nat, nq \in Nat : OfPcluster(j, q, hq, nq) /\ own[j] = q - 1
      BY <1>2
    <3>a. q = OwnerOf(j) /\ q \in 1 .. Len(pclusters) /\ hq = pclusters[q].head /\ nq = pclusters[q].n
      BY <3>0 DEF OfPcluster
    <3>2. nq > 0 /\ hq <= j /\ j < hq + nq /\ own[j] = q - 1
      BY <3>0 DEF OfPcluster
    <3>3. Tile(pclusters, Src.n) /\ pclusters \in Seq(PcType) /\ Src.n \in Nat
      BY WrittenFile
    <3>4. q < p
      <4>1. ASSUME p < q PROVE FALSE
        <5>1. hd + len <= hq
          BY <2>a, <3>a, <3>3, <4>1, TilesApart
        <5> QED BY <2>1, <3>1, <3>2, <5>1
      <4>2. q # p
        <5>1. ASSUME q = p PROVE FALSE
          <6>1. hq = hd
            BY <2>a, <3>a, <5>1
          <6> QED BY <2>1, <3>1, <3>2, <6>1
        <5> QED BY <5>1
      <4> QED BY <2>a, <3>a, <4>1, <4>2
    <3>5. PICK m \in 1 .. Len(pclusters) : m = q + 1 /\ pclusters[m].head = hq + nq
      <4>1. q \in 1 .. Len(pclusters) - 1 /\ q + 1 \in 1 .. Len(pclusters)
        BY <2>a, <3>a, <3>3, <3>4
      <4> QED BY <3>a, <3>3, <4>1 DEF Tile
    <3>6. m = p
      <4>1. ASSUME m < p PROVE FALSE
        <5>1. pclusters[m].head + pclusters[m].n <= hd
          BY <2>a, <3>3, <4>1, TilesApart
        <5>2. PICK nm \in Nat : nm = pclusters[m].n /\ nm > 0
          <6>1. pclusters[m] \in PcType
            BY <3>3
          <6> QED BY <6>1 DEF PcType
        <5>3. (hq + nq) + nm <= hd
          BY <3>5, <5>1, <5>2
        <5> QED BY <2>1, <3>1, <3>2, <5>2, <5>3
      <4> QED BY <2>a, <3>a, <3>4, <3>5, <4>1
    <3> QED BY <2>1, <3>1, <3>2, <3>5, <3>6
  <2> QED BY <2>2, <2>3 DEF HeadAt
<1>5. ASSUME NEW k \in 0 .. n - 1, ~IsHead(put[k + 1].type)
      PROVE  \E lo \in Nat : BackAt(put, own, k, lo)
  <2> HIDE DEF own
  <2>0. PICK p \in Nat, hd \in Nat, len \in Nat : OfPcluster(k, p, hd, len) /\ own[k] = p - 1
    BY <1>2
  <2>a. p = OwnerOf(k) /\ p \in 1 .. Len(pclusters) /\ hd = pclusters[p].head /\ len = pclusters[p].n
    BY <2>0 DEF OfPcluster
  <2>1. /\ len > 0 /\ hd < k /\ k < hd + len /\ hd + len <= n /\ own[k] = p - 1
        /\ entries[k + 1].lo = k - hd
    BY <1>0, <1>1, <1>5, <2>0 DEF OfPcluster
  <2>2. PICK lo \in Nat : lo = k - hd /\ lo >= 1 /\ lo <= k
    BY <2>1
  <2>3. put[k + 1].lo = lo
    BY <1>1, <2>1, <2>2
  <2>4. lo < 2048
    <3>1. pclusters[p].n # 1 /\ Closed = pclusters
      <4>1. len # 1
        BY <2>1
      <4> QED BY <2>a, <4>1, WrittenFile
    <3>2. <<hd, hd + len - 1>> \in Src.grows
      BY <2>a, <3>1 DEF WriterInv, FramesFit
    <3>3. (hd + len - 1) - hd < 2048
      BY <3>2 DEF Cblkcnt
    <3>4. (hd + len - 1) - hd = len - 1
      OBVIOUS
    <3> QED BY <2>1, <2>2, <3>3, <3>4
  <2>5. ASSUME NEW j \in hd .. k
        PROVE  /\ own[j] = p - 1
               /\ j = hd => IsHead(put[j + 1].type)
               /\ j # hd => ~IsHead(put[j + 1].type) /\ put[j + 1].lo = j - hd
    <3>1. j \in 0 .. n - 1 /\ hd <= j /\ j < hd + len
      BY <2>1
    <3>2. OwnerOf(j) = p
      BY <1>0, <2>a, <3>1, OwnerIsOne
    <3>3. PICK q \in Nat, hq \in Nat, nq \in Nat : OfPcluster(j, q, hq, nq) /\ own[j] = q - 1
      BY <1>2, <3>1
    <3>4. q = p /\ hq = hd
      BY <2>a, <3>2, <3>3 DEF OfPcluster
    <3> QED BY <1>1, <3>1, <3>3, <3>4 DEF OfPcluster
  <2>6. k - lo = hd /\ k - lo + 1 = hd + 1
    BY <2>1, <2>2
  <2>7. IsHead(put[hd + 1].type) /\ own[hd] = p - 1
    BY <2>1, <2>5
  <2>8. \A j \in hd + 1 .. k : ~IsHead(put[j + 1].type) /\ own[j] = own[k] /\ put[j + 1].lo = j - hd
    <3> SUFFICES ASSUME NEW j \in hd + 1 .. k
                 PROVE  ~IsHead(put[j + 1].type) /\ own[j] = own[k] /\ put[j + 1].lo = j - hd
      OBVIOUS
    <3>1. j \in hd .. k /\ j # hd
      OBVIOUS
    <3> QED BY <2>1, <2>5, <3>1
  <2>9. \A j \in k - lo + 1 .. k :
          ~IsHead(put[j + 1].type) /\ own[j] = own[k] /\ put[j + 1].lo = j - (k - lo)
    BY <2>6, <2>8
  <2>10. IsHead(put[k - lo + 1].type) /\ own[k - lo] = own[k]
    BY <2>1, <2>6, <2>7
  <2>11. BackAt(put, own, k, lo)
    BY <2>2, <2>3, <2>4, <2>9, <2>10 DEF BackAt
  <2> QED BY <2>11
<1> HIDE DEF own
<1>6. Marks(put, own, n)
  BY <1>1, <1>3, <1>4, <1>5 DEF Marks
<1> QED BY <1>0, <1>6 DEF own

\* A lcluster of a legacy index is read as it was entered.
LEMMA LegacyRead ==
  ASSUME NEW bodyEnd \in Nat, bodyEnd % 8 = 0, NEW T, NEW put \in Seq(T), NEW d, d.bodyEnd = bodyEnd,
         d.index = EncodeLegacy(bodyEnd, put), NEW k \in 0 .. Len(put) - 1,
         put[k + 1].type \in 0 .. 2, IsHead(put[k + 1].type) => put[k + 1].lo = 0
  PROVE  LET e == ReadLegacy(d, k) IN
         /\ e.type = put[k + 1].type
         /\ IsHead(put[k + 1].type) => e.ofs = 0 /\ e.u = put[k + 1].addr
         /\ ~IsHead(put[k + 1].type) => e.u = put[k + 1].lo
<1>1. PICK first \in Nat, n \in Nat : first = LegacyStart(bodyEnd) \div 4 /\ n = Len(put) /\ k < n
  BY DEF LegacyStart
<1>2. LegacyReadStart(bodyEnd) \div 4 = first
  <2>1. PICK q \in Nat : bodyEnd = 8 * q
    BY SMTT(30)
  <2>2. (bodyEnd + 8 - 1) \div 8 = q
    BY <2>1
  <2>3. LegacyReadStart(bodyEnd) = LegacyStart(bodyEnd)
    BY <2>1, <2>2 DEF LegacyReadStart, LegacyStart, Ebase, AlignUp, CeilDiv
  <2> QED BY <1>1, <2>3
<1>3. ASSUME NEW w \in first .. first + 2 * n - 1
      PROVE  /\ w \in DOMAIN d.index
             /\ d.index[w] = LET e == put[(w - first) \div 2 + 1] IN
                             IF (w - first) % 2 = 0
                             THEN e.type + 65536 * (IF IsHead(e.type) THEN e.lo ELSE 0)
                             ELSE IF IsHead(e.type) THEN e.addr ELSE e.lo
  BY <1>1 DEF EncodeLegacy
<1>4. PICK a \in Nat, b \in Nat : /\ a = first + 2 * k /\ b = a + 1
                                 /\ a \in first .. first + 2 * n - 1 /\ b \in first .. first + 2 * n - 1
  <2>1. k \in Nat /\ k <= n - 1 /\ n \in Nat
    BY <1>1
  <2>2. first + 2 * k \in first .. first + 2 * n - 1 /\ first + 2 * k + 1 \in first .. first + 2 * n - 1
    BY <2>1
  <2> QED BY <2>1, <2>2
<1>5. (a - first) % 2 = 0 /\ (a - first) \div 2 + 1 = k + 1
  <2>1. a - first = 2 * k
    BY <1>4
  <2> QED BY <2>1
<1>6. (b - first) % 2 = 1 /\ (b - first) \div 2 + 1 = k + 1
  <2>1. b - first = 2 * k + 1
    BY <1>4
  <2> QED BY <2>1
<1>7. PICK e : e = put[k + 1]
  OBVIOUS
<1>8. PICK t \in Nat : t = e.type /\ t \in 0 .. 2
  BY <1>7
<1>9. a \in DOMAIN d.index /\ d.index[a] = t
  <2>1. d.index[a] = e.type + 65536 * (IF IsHead(e.type) THEN e.lo ELSE 0)
    BY <1>3, <1>4, <1>5, <1>7
  <2>2. (IF IsHead(e.type) THEN e.lo ELSE 0) = 0
    BY <1>7
  <2> QED BY <1>3, <1>4, <1>8, <2>1, <2>2
<1>10. b \in DOMAIN d.index /\ d.index[b] = IF IsHead(e.type) THEN e.addr ELSE e.lo
  <2>1. (b - first) % 2 # 0
    BY <1>6
  <2> QED BY <1>3, <1>4, <1>6, <1>7, <2>1
<1>11. ReadLegacy(d, k) = [type |-> d.index[a] % 4, ofs |-> d.index[a] \div 65536, u |-> d.index[b]]
  <2>1. LegacyReadStart(d.bodyEnd) \div 4 + 2 * k = a
    BY <1>2, <1>4
  <2> QED BY <1>4, <1>9, <1>10, <2>1, SMTT(30) DEF ReadLegacy
<1>12. t % 4 = t /\ t \div 65536 = 0
  BY <1>8
<1>13. ReadLegacy(d, k) = [type |-> t, ofs |-> 0, u |-> d.index[b]]
  BY <1>9, <1>11, <1>12
<1> QED BY <1>7, <1>8, <1>10, <1>13

\* Where builder and reader agree, the table is what was entered.
LEMMA Retold ==
  ASSUME Agreed, CollatorInv, WriterInv
  PROVE  TableTold
<1> SUFFICES ASSUME st = "image", NEW k \in 0 .. Src.n - 1 PROVE Told(k)
  BY DEF TableTold
<1>1. PICK place \in Place[file] : WrittenAt(place)
  BY DEF WriterInv
<1>2. PICK form \in {"legacy", "compact"}, end \in Nat : form = place[1] /\ end = place[2]
  <2>1. file \in File
    BY WrittenFile
  <2>2. place \in {"legacy", "compact"} \X Nat
    BY <2>1, PlaceAssumption
  <2> QED BY <2>2
<1>3. PICK put : put = Addressed(AddrsOf(pclusters))
  OBVIOUS
<1>4. PICK T : put \in Seq(T)
  BY <1>3, PutIs
<1>5. Len(put) = Src.n /\ PutOf(put) /\ Src.n \in Nat
  BY <1>3, PutIs, WrittenFile
<1>6. /\ disk.format = form /\ disk.bodyEnd = end /\ disk.n = Src.n
      /\ disk.index = IF form = "legacy" THEN EncodeLegacy(end, put) ELSE EncodeCompact(end, put)
      /\ table[k] = ReadLcluster(disk, k)
  <2>1. /\ disk.format = form /\ disk.bodyEnd = end /\ disk.n = Src.n
        /\ disk.index = IF form = "legacy" THEN EncodeLegacy(end, put) ELSE EncodeCompact(end, put)
        /\ table = TableOf(disk)
    BY <1>1, <1>2, <1>3 DEF WrittenAt
  <2> QED BY <2>1 DEF TableOf
<1>7. PICK e : e = entries[k + 1]
  OBVIOUS
<1>8. /\ put[k + 1].type = TypeCode(e.type) /\ put[k + 1].lo = e.lo /\ put[k + 1].type \in 0 .. 2
      /\ (IsHead(put[k + 1].type) <=> e.type # "NONHEAD")
      /\ e.type # "NONHEAD" => put[k + 1].addr = AddrOf(e.pc + 1) /\ e.lo = 0
  <2>1. e.type # "NONHEAD" => e.lo = 0
    BY <1>7, Owners DEF Leads
  <2> QED BY <1>5, <1>7, <2>1 DEF PutOf
<1>9. ASSUME table[k].type = put[k + 1].type,
             IsHead(put[k + 1].type) => table[k].ofs = 0 /\ table[k].u = AddrOf(e.pc + 1),
             ~IsHead(put[k + 1].type) => table[k].u = put[k + 1].lo
      PROVE  Told(k)
  BY <1>7, <1>8, <1>9 DEF Told
<1>10. ASSUME form = "legacy" PROVE Told(k)
  <2>1. end % 8 = 0
    BY <1>2, <1>10, WrittenFile DEF Agreed
  <2>2. LET r == ReadLegacy(disk, k) IN
        /\ r.type = put[k + 1].type
        /\ IsHead(put[k + 1].type) => r.ofs = 0 /\ r.u = put[k + 1].addr
        /\ ~IsHead(put[k + 1].type) => r.u = put[k + 1].lo
    BY <1>4, <1>5, <1>6, <1>8, <1>10, <2>1, LegacyRead
  <2>3. table[k] = ReadLegacy(disk, k)
    BY <1>6, <1>10 DEF ReadLcluster
  <2> QED BY <1>8, <1>9, <2>2, <2>3
<1>11. ASSUME form = "compact" PROVE Told(k)
  <2>1. /\ Target = 1 /\ ZLcBits <= 12
        /\ \A frame \in Src.grows : frame[2] - frame[1] < Cblkcnt
    BY <1>2, <1>11, WrittenFile DEF Agreed, Target, Src
  <2>2. LoBits = 12
    <3>1. ZLcBits \in Nat
      BY ReaderAssumption
    <3>2. \E x \in {ZLcBits, 12} : \A y \in {ZLcBits, 12} : x >= y
      BY <2>1, <3>1
    <3>3. Max({ZLcBits, 12}) \in {ZLcBits, 12} /\ \A y \in {ZLcBits, 12} : Max({ZLcBits, 12}) >= y
      BY <3>2 DEF Max
    <3> QED BY <2>1, <3>1, <3>3 DEF LoBits
  <2>3. PICK own : own = [j \in 0 .. Src.n - 1 |-> OwnerOf(j) - 1]
    OBVIOUS
  <2>4. Marks(put, own, Len(put))
    BY <1>5, <2>1, <2>3, PutMarks
  <2>5. LET r == ReadCompact(disk, k) IN
        /\ r.type = put[k + 1].type
        /\ IsHead(put[k + 1].type) => r.ofs = 0 /\ r.u = FirstBlock + own[k]
        /\ ~IsHead(put[k + 1].type) => r.u = put[k + 1].lo
    <3>1. disk.n = Len(put) /\ disk.index = EncodeCompact(end, put) /\ k \in 0 .. Len(put) - 1
      BY <1>5, <1>6, <1>11
    <3> QED BY <1>4, <1>6, <2>2, <2>4, <3>1, CompactRead
  <2>6. table[k] = ReadCompact(disk, k)
    BY <1>6, <1>11 DEF ReadLcluster
  <2>7. FirstBlock + own[k] = AddrOf(e.pc + 1)
    <3>1. PICK p \in Nat : p = OwnerOf(k) /\ e.pc + 1 = p
      <4>1. OwnerOf(k) \in Nat
        BY Owners, WrittenFile
      <4> QED BY <1>7, <4>1 DEF OwnerOf
    <3>2. own[k] = p - 1
      BY <2>3, <3>1
    <3>3. AddrOf(p) = FirstBlock + (p - 1)
      BY <2>1, PlaceAssumption DEF AddrOf
    <3> QED BY <3>1, <3>2, <3>3
  <2> QED BY <1>9, <2>5, <2>6, <2>7
<1> QED BY <1>2, <1>10, <1>11

-----------------------------------------------------------------------------
(***************************************************************************)
(* What the index says and what the reader answers.                        *)
(***************************************************************************)
\* Nothing is read before there is an image, and writing leaves the reader alone.
LEMMA WriteReader ==
  ASSUME WriterInv, st # "image", UNCHANGED readerVars
  PROVE  ReaderInv'
BY DEF WriterInv, ReaderInit, readerVars, ReaderInv

\* Every step of writer and reader keeps the invariant.
LEMMA NextIndex ==
  ASSUME Agreed, IndexInv, [Next]_vars
  PROVE  IndexInv'
<1>0. CollatorInv /\ WriterInv /\ ReaderInv /\ CollatorInv'
  BY NextInv DEF IndexInv
<1>1. ASSUME Collate, UNCHANGED <<disk, table, plan, requested, readerVars>> PROVE IndexInv'
  <2>1. st # "image"
    BY <1>1 DEF Collate, Absorb, TooFar, StartHead, StartPlain, PlainTooLong, BlocksOverflow, Finish,
                Collating
  <2>2. WriterInv'
    BY <1>0, <1>1, CollateWriter
  <2>3. ReaderInv'
    BY <1>0, <1>1, <2>1, WriteReader
  <2> QED BY <1>0, <2>2, <2>3 DEF IndexInv
<1>2. ASSUME NEW place \in Place[file], Emit(place) PROVE IndexInv'
  <2>1. st # "image" /\ UNCHANGED readerVars
    BY <1>2 DEF Emit
  <2>2. WriterInv'
    BY <1>0, <1>2, EmitWriter
  <2>3. ReaderInv'
    BY <1>0, <2>1, WriteReader
  <2> QED BY <1>0, <2>2, <2>3 DEF IndexInv
<1>3. ASSUME Read, UNCHANGED <<collatorVars, requested>> PROVE IndexInv'
  <2>1. UNCHANGED <<disk, table, plan>>
    BY <1>3 DEF Read, ReadStep
  <2>2. WriterInv'
    BY <1>0, <1>3, <2>1, ReadWriter
  <2>3. ASSUME rpc \in {"seek", "scan"} PROVE Readable
    BY <1>0, <2>3, Retold DEF Readable, ReaderInv
  <2>4. ASSUME SeekHead \/ SeekBack \/ SeekNonhead \/ SeekRefused PROVE ReaderInv'
    <3>1. rpc = "seek"
      BY <2>4 DEF SeekHead, SeekBack, SeekNonhead, SeekRefused
    <3> QED BY <1>3, <2>1, <2>3, <2>4, <3>1, SeekStep
  <2>5. ASSUME ScanPast \/ ScanHead \/ ScanRefused \/ ScanOut PROVE ReaderInv'
    <3>1. rpc = "scan"
      BY <2>5 DEF ScanPast, ScanHead, ScanRefused, ScanOut
    <3> QED BY <1>3, <2>1, <2>3, <2>5, <3>1, ScanStep
  <2>6. ASSUME NEW x \in 0 .. disk.size - 1, Ask(x) PROVE ReaderInv'
    BY <1>0, <1>3, <2>1, <2>6, AskStep
  <2>7. ReaderInv'
    BY <1>3, <2>4, <2>5, <2>6 DEF Read, ReadStep
  <2> QED BY <1>0, <2>2, <2>7 DEF IndexInv
<1>4. ASSUME UNCHANGED vars PROVE IndexInv'
  <2>1. /\ UNCHANGED readerVars /\ UNCHANGED <<disk, table, plan, collatorVars, requested>>
    BY <1>4 DEF vars
  <2>2. WriterInv'
    BY <1>0, <2>1, ReadWriter
  <2>3. ReaderInv'
    <3>1. UNCHANGED <<rpc, want, lc, inlc, head, scan, ans, disk, plan, file, st, pclusters, entries>>
      BY <2>1 DEF readerVars, collatorVars
    <3>2. Size' = Size /\ Target' = Target
      BY <3>1 DEF Size, Target, Src
    <3>3. Sought' = Sought /\ OwnerOf(want \div LcSize)' = OwnerOf(want \div LcSize)
      BY <3>1 DEF Sought, OwnerOf
    <3>4. FoundOf(OwnerOf(want \div LcSize))' = FoundOf(OwnerOf(want \div LcSize))
      BY <3>1, <3>2, <3>3 DEF FoundOf, AddrOf
    <3>5. AnswerOf(OwnerOf(want \div LcSize))' = AnswerOf(OwnerOf(want \div LcSize))
      BY <3>1, <3>3 DEF AnswerOf
    <3> QED BY <1>0, <3>1, <3>2, <3>3, <3>4, <3>5 DEF ReaderInv
  <2> QED BY <1>0, <2>2, <2>3 DEF IndexInv
<1> QED BY <1>1, <1>2, <1>3, <1>4 DEF Next, Write

\* Units of one lcluster are before those of a later one.
LEMMA Scaled ==
  \A a, b, c \in Nat : a <= b => a * c <= b * c
BY SMTT(30)

\* Where a pcluster's bytes are: before those of the next, and all of them in the file.
LEMMA OwnSpan ==
  ASSUME CollatorInv, WriterInv, st = "image", NEW x \in 0 .. Size - 1,
         NEW p, p = OwnerOf(x \div LcSize)
  PROVE  /\ p \in 1 .. Len(pclusters) /\ p \in DOMAIN plan
         /\ plan[p].start <= x /\ x < plan[p].end
         /\ plan[p].start = pclusters[p].head * LcSize
         /\ plan[p].end = Lesser((pclusters[p].head + pclusters[p].n) * LcSize, Size)
<1>1. PICK k \in Nat : k = x \div LcSize /\ k \in 0 .. Src.n - 1
  BY Offsets, WrittenFile
<1>2. /\ p \in 1 .. Len(pclusters) /\ pclusters[p] \in PcType
      /\ pclusters[p].head <= k /\ k < pclusters[p].head + pclusters[p].n
  BY <1>1, Owners DEF Leads
<1>3. PICK hd \in Nat, n \in Nat : hd = pclusters[p].head /\ n = pclusters[p].n
  BY <1>2 DEF PcType
<1>4. hd <= k /\ k + 1 <= hd + n
  BY <1>2, <1>3
<1>5. PICK z \in Nat, s \in Nat : z = LcSize /\ s = Size
  BY WrittenFile, Offsets
<1>6. k * z <= x /\ x < (k + 1) * z /\ x < s
  BY <1>1, <1>5, Offsets
<1>7. hd * z <= k * z /\ (k + 1) * z <= (hd + n) * z
  BY <1>4, Scaled
<1>8. PICK a \in Nat, b \in Nat, e \in Nat, c \in Nat :
        a = hd * z /\ b = k * z /\ c = (k + 1) * z /\ e = (hd + n) * z
  OBVIOUS
<1>9. a <= x /\ x < Lesser(e, s)
  BY <1>6, <1>7, <1>8 DEF Lesser
<1>10. /\ DOMAIN plan = 1 .. Len(pclusters) /\ plan[p].start = hd * z /\ plan[p].end = Lesser((hd + n) * z, s)
  <2>1. PlanIs /\ LcBlocks = LcSize /\ DOMAIN pclusters = 1 .. Len(pclusters)
    BY WrittenFile DEF WriterInv
  <2> QED BY <1>2, <1>3, <1>5, <2>1 DEF PlanIs
<1> QED BY <1>2, <1>3, <1>5, <1>8, <1>9, <1>10

\* The search for a fragment from the end of the file finds the last pcluster.
LEMMA RangeIs ==
  ASSUME CollatorInv, WriterInv, TableTold, st = "image", NEW x \in 0 .. Size - 1
  PROVE  FragmentRange(FALSE) = <<pclusters[OwnerOf(Src.n - 1)].head * LcSize, Size>>
<1>1. PICK n \in Nat, z \in Nat : n = Src.n /\ z = LcSize /\ disk.n = n /\ disk.size = Size /\ n > 0
  BY WrittenFile, Offsets
<1>2. PICK s \in Nat : s = Size /\ s > 0 /\ (n - 1) * z < s
  BY <1>1, Offsets
<1> DEFINE Home(k) == pclusters[OwnerOf(k)].head
           Goes(f, k) == LET e == Entry(k)  back == e.u % 65536 IN
                         IF IsMapped(e) THEN k * LcSize + e.ofs
                         ELSE IF e.type = NONHEAD /\ back \in 1 .. k THEN f[k - back] ELSE -1
           from == CHOOSE f : f = [k \in 0 .. n - 1 |-> Goes(f, k)]
\* Where a lcluster leads.
<1>3. ASSUME NEW k \in 0 .. n - 1
      PROVE  /\ Home(k) \in 0 .. k /\ Home(Home(k)) = Home(k)
             /\ Home(k) = k => IsMapped(Entry(k)) /\ Entry(k).ofs = 0
             /\ Home(k) # k => /\ Entry(k).type = NONHEAD /\ ~IsMapped(Entry(k))
                               /\ Entry(k).u % 65536 \in 1 .. k /\ k - (Entry(k).u % 65536) = Home(k)
  <2>1. PICK p : p = OwnerOf(k)
    OBVIOUS
  <2>2. /\ p \in 1 .. Len(pclusters) /\ pclusters[p] \in PcType
        /\ pclusters[p].head <= k /\ k < pclusters[p].head + pclusters[p].n
    BY <1>1, <2>1, Owners DEF Leads
  <2>3. PICK hd \in Nat, len \in Nat : hd = pclusters[p].head /\ len = pclusters[p].n
    BY <2>2 DEF PcType
  <2>4. hd <= k /\ k < hd + len /\ hd < hd + len /\ hd \in 0 .. n - 1
    BY <2>2, <2>3
  <2>5. OwnerOf(hd) = p
    BY <1>1, <2>2, <2>3, <2>4, OwnerIsOne
  <2>6. /\ k = hd => IsMapped(Entry(k)) /\ Entry(k).ofs = 0
        /\ k # hd => /\ Entry(k).type = NONHEAD /\ Entry(k).u = k - hd /\ k - hd < 65536
        /\ (IsMapped(Entry(k)) <=> Entry(k).type # NONHEAD)
    BY <1>1, <2>2, <2>3, <2>4, ReadOfOwner
  <2>7. ASSUME k # hd PROVE Entry(k).u % 65536 \in 1 .. k /\ k - (Entry(k).u % 65536) = hd
    <3>1. PICK b \in Nat : b = k - hd /\ b \in 1 .. k /\ b < 65536 /\ k - b = hd
      BY <2>4, <2>6, <2>7
    <3>2. b % 65536 = b
      BY <3>1
    <3> QED BY <2>6, <2>7, <3>1, <3>2
  <2>8. Home(k) = hd /\ Home(hd) = hd
    BY <2>1, <2>3, <2>5
  <2> HIDE DEF Home
  <2> QED BY <2>4, <2>6, <2>7, <2>8
<1> HIDE DEF Home
<1>4. \E f : f = [k \in 0 .. n - 1 |-> Goes(f, k)]
  <2> DEFINE f == [k \in 0 .. n - 1 |-> Home(k) * LcSize]
  <2>1. ASSUME NEW k \in 0 .. n - 1 PROVE Home(k) * LcSize = Goes(f, k)
    <3>1. ASSUME Home(k) = k PROVE Goes(f, k) = Home(k) * LcSize
      <4>1. PICK m \in Nat : m = k * LcSize
        BY <1>1
      <4>2. m + 0 = m
        OBVIOUS
      <4> HIDE DEF f
      <4> QED BY <1>3, <3>1, <4>1, <4>2
    <3>2. ASSUME Home(k) # k PROVE Goes(f, k) = Home(k) * LcSize
      <4>1. PICK h \in 0 .. n - 1 : h = Home(k) /\ Home(h) = h
        BY <1>3
      <4>2. f[h] = h * LcSize
        BY <4>1
      <4> HIDE DEF f
      <4> QED BY <1>3, <3>2, <4>1, <4>2
    <3> HIDE DEF f, Goes
    <3> QED BY <3>1, <3>2
  <2>2. f = [k \in 0 .. n - 1 |-> Goes(f, k)]
    <3>1. [k \in 0 .. n - 1 |-> Home(k) * LcSize] = [k \in 0 .. n - 1 |-> Goes(f, k)]
      <4> HIDE DEF f, Goes
      <4> QED BY <2>1
    <3> QED BY <3>1
  <2> HIDE DEF f, Goes
  <2> QED BY <2>2
<1>5. from = [k \in 0 .. n - 1 |-> Goes(from, k)]
  <2> HIDE DEF Goes
  <2> QED BY <1>4
<1> HIDE DEF from
<1>6. ASSUME NEW k \in 0 .. n - 1, Home(k) = k PROVE from[k] = k * z
  <2>1. from[k] = Goes(from, k)
    <3> HIDE DEF Goes
    <3> QED BY <1>5
  <2>2. PICK m \in Nat : m = k * z /\ m = k * LcSize
    BY <1>1
  <2>3. m + 0 = m
    OBVIOUS
  <2> QED BY <1>3, <1>6, <2>1, <2>2, <2>3
<1>7. ASSUME NEW k \in 0 .. n - 1 PROVE from[k] = Home(k) * z
  <2>1. CASE Home(k) = k
    BY <1>6, <2>1
  <2>2. CASE Home(k) # k
    <3>1. from[k] = Goes(from, k)
      <4> HIDE DEF Goes
      <4> QED BY <1>5
    <3>2. from[k] = from[Home(k)]
      BY <1>3, <2>2, <3>1
    <3>3. Home(k) \in 0 .. n - 1 /\ Home(Home(k)) = Home(k)
      BY <1>3
    <3> QED BY <1>6, <3>2, <3>3
  <2> QED BY <2>1, <2>2
<1>8. PICK l \in 0 .. n - 1 : l = n - 1 /\ l = disk.n - 1
  BY <1>1
<1>9. FragmentFrom = l
  <2>1. IsMapped(Entry(l)) => Entry(l).ofs = 0
    BY <1>3
  <2>2. PICK r \in Nat : r = (disk.size - 1) % LcSize
    <3>1. LcSize \in Nat /\ LcSize > 0 /\ s - 1 \in Nat
      BY <1>2, WrittenFile
    <3> QED BY <1>1, <1>2, <3>1
  <2>3. ~(IsMapped(Entry(l)) /\ Entry(l).ofs > r /\ l > 0)
    BY <2>1, <2>2
  <2> QED BY <1>8, <2>2, <2>3 DEF FragmentFrom
<1>10. PICK m \in Nat : m = Home(l) * z /\ m < s /\ m = from[l]
  <2>1. Home(l) \in Nat /\ Home(l) <= n - 1
    BY <1>3, <1>8
  <2>2. Home(l) * z <= (n - 1) * z
    BY <1>1, <2>1, Scaled
  <2>3. PICK a \in Nat, b \in Nat : a = Home(l) * z /\ b = (n - 1) * z
    BY <1>1, <2>1
  <2> QED BY <1>2, <1>7, <2>2, <2>3
<1>11. FragmentRange(FALSE) =
         IF disk.size = 0 THEN NoRange
         ELSE IF from[FragmentFrom] = -1 THEN RangeRefused
         ELSE IF from[FragmentFrom] >= disk.size THEN NoRange
         ELSE <<from[FragmentFrom], disk.size>>
  BY <1>1 DEF FragmentRange, from
<1> HIDE DEF Goes
<1>12. FragmentRange(FALSE) = <<m, s>>
  <2>1. disk.size = s /\ ~(s = 0) /\ from[FragmentFrom] = m /\ ~(m = -1) /\ ~(m >= s)
    BY <1>1, <1>2, <1>9, <1>10
  <2> QED BY <1>11, <2>1
<1>13. m = pclusters[OwnerOf(Src.n - 1)].head * LcSize
  BY <1>1, <1>8, <1>10 DEF Home
<1> QED BY <1>2, <1>12, <1>13

\* The two walks agree on what the file's last extent is.
LEMMA LastIsFragment ==
  ASSUME CollatorInv, WriterInv, TableTold, ReaderInv
  PROVE  FragmentIsLastExtent
<1> SUFFICES ASSUME rpc = "done", plan # <<>>
             PROVE  LET range == FragmentRange(FALSE) IN
                    /\ Len(range) = 2 /\ range[2] = disk.size
                    /\ ans.last <=> want >= range[1]
  BY DEF FragmentIsLastExtent
<1>1. st = "image" /\ want \in 0 .. Size - 1 /\ ans = AnswerOf(OwnerOf(want \div LcSize))
  BY DEF ReaderInv
<1>2. PICK n \in Nat, z \in Nat, s \in Nat, l \in Nat : /\ n = Src.n /\ z = LcSize /\ s = Size /\ disk.size = s
                                             /\ n > 0 /\ l = n - 1 /\ l * z < s /\ s <= n * z /\ want < s
  <2>1. PICK n \in Nat, z \in Nat, s \in Nat : /\ n = Src.n /\ z = LcSize /\ s = Size /\ disk.size = s
                                             /\ n > 0 /\ (n - 1) * z < s /\ s <= n * z /\ want < s
    <3>1. Src.n \in Nat /\ LcSize \in Nat /\ disk.size = Size
      BY <1>1, WrittenFile
    <3>2. Size \in Nat /\ Src.n > 0 /\ (Src.n - 1) * LcSize < Size /\ Size <= Src.n * LcSize
      BY <1>1, Offsets
    <3>3. PICK s \in Nat : s = Size /\ want < s
      BY <1>1, <3>2
    <3> QED BY <3>1, <3>2, <3>3
  <2>2. n - 1 \in Nat
    BY <2>1
  <2> QED BY <2>1, <2>2
<1>3. PICK q : q = OwnerOf(want \div LcSize)
  OBVIOUS
<1>4. PICK p : p = OwnerOf(l) /\ p \in 1 .. Len(pclusters) /\ pclusters[p] \in PcType
               /\ Leads(entries[l + 1], l, pclusters[p]) /\ pclusters[p].head + pclusters[p].n <= n
  <2>1. l \in 0 .. Src.n - 1
    BY <1>2
  <2> QED BY <1>1, <1>2, <2>1, Owners
<1>5. PICK hd \in Nat, len \in Nat : hd = pclusters[p].head /\ len = pclusters[p].n
  BY <1>4 DEF PcType
<1>6. hd <= l /\ hd + len = n
  <2>1. hd <= l /\ l < hd + len /\ hd + len <= n
    BY <1>4, <1>5 DEF Leads
  <2> QED BY <1>2, <2>1
<1>7. FragmentRange(FALSE) = <<hd * z, s>>
  <2>1. FragmentRange(FALSE) = <<pclusters[OwnerOf(Src.n - 1)].head * LcSize, Size>>
    BY <1>1, RangeIs
  <2> QED BY <1>2, <1>4, <1>5, <2>1
<1>8. /\ q \in 1 .. Len(pclusters) /\ plan[q].start <= want /\ want < plan[q].end
      /\ plan[q].start = pclusters[q].head * z
      /\ plan[q].end = Lesser((pclusters[q].head + pclusters[q].n) * z, s)
  BY <1>1, <1>2, <1>3, OwnSpan
<1>9. pclusters \in Seq(PcType) /\ Tile(pclusters, Src.n) /\ Src.n \in Nat
  BY <1>1, WrittenFile
<1>10. PICK hq \in Nat, nq \in Nat : hq = pclusters[q].head /\ nq = pclusters[q].n
  <2>1. pclusters[q] \in PcType
    BY <1>8, <1>9
  <2> QED BY <2>1 DEF PcType
<1>11. ans.last = (plan[q].end = s)
  BY <1>1, <1>2, <1>3 DEF AnswerOf
<1>12. ASSUME q = p PROVE want >= hd * z /\ plan[q].end = s
  <2>1. plan[q].end = Lesser(n * z, s) /\ plan[q].start = hd * z
    BY <1>5, <1>6, <1>8, <1>12
  <2>2. PICK a \in Nat : a = n * z
    OBVIOUS
  <2>3. Lesser(a, s) = s
    BY <1>2, <2>2 DEF Lesser
  <2> QED BY <1>2, <1>8, <2>1, <2>2, <2>3
<1>13. ASSUME q # p PROVE ~(want >= hd * z) /\ plan[q].end # s
  <2>1. hq + nq <= hd
    <3>1. ASSUME p < q PROVE FALSE
      <4>1. hd + len <= hq /\ hq + nq <= n
        <5>1. hd + len <= hq
          BY <1>4, <1>5, <1>8, <1>9, <1>10, <3>1, TilesApart
        <5>2. want \div LcSize \in 0 .. Src.n - 1
          BY <1>1, Offsets
        <5>3. pclusters[q].head + pclusters[q].n <= Src.n
          BY <1>1, <1>3, <5>2, Owners
        <5> QED BY <1>2, <1>10, <5>1, <5>3
      <4>2. nq > 0
        <5>1. pclusters[q] \in PcType
          BY <1>8, <1>9
        <5> QED BY <1>10, <5>1 DEF PcType
      <4> QED BY <1>6, <4>1, <4>2
    <3>2. q < p
      BY <1>4, <1>8, <1>13, <3>1
    <3> QED BY <1>4, <1>5, <1>8, <1>9, <1>10, <3>2, TilesApart
  <2>2. (hq + nq) * z <= hd * z /\ hd * z <= l * z
    BY <1>6, <2>1, Scaled
  <2>3. PICK a \in Nat, b \in Nat, c \in Nat : a = (hq + nq) * z /\ b = hd * z /\ c = l * z
    OBVIOUS
  <2>4. plan[q].end = Lesser(a, s)
    BY <1>8, <1>10, <2>3
  <2>5. a <= b /\ b < s
    BY <1>2, <2>2, <2>3
  <2>6. want < a
    BY <1>2, <1>8, <2>4, <2>5 DEF Lesser
  <2>7. Lesser(a, s) = a
    BY <2>5 DEF Lesser
  <2>8. want \in Nat
    BY <1>1
  <2> QED BY <2>3, <2>4, <2>5, <2>6, <2>7, <2>8
<1>14. (plan[q].end = s) <=> want >= hd * z
  BY <1>12, <1>13
<1>15. Len(<<hd * z, s>>) = 2 /\ <<hd * z, s>>[1] = hd * z /\ <<hd * z, s>>[2] = s
  OBVIOUS
<1>16. ans.last <=> want >= hd * z
  BY <1>11, <1>14, Zenon
<1> QED BY <1>2, <1>7, <1>15, <1>16

\* Every answer is its owner's extent.
LEMMA AnswerIs ==
  ASSUME Agreed, IndexInv
  PROVE  AnswersThePlan
<1>1. CollatorInv /\ WriterInv /\ ReaderInv /\ TableTold
  BY Retold DEF IndexInv
<1>2. FragmentIsLastExtent
  BY <1>1, LastIsFragment
<1>3. ASSUME rpc = "done", plan # <<>>
      PROVE  \E p \in DOMAIN plan :
               /\ plan[p].start <= want /\ want < plan[p].end
               /\ ans = [start |-> plan[p].start, end |-> plan[p].end, addr |-> plan[p].addr,
                         type |-> plan[p].type, last |-> plan[p].end = disk.size]
  <2>1. st = "image" /\ want \in 0 .. Size - 1 /\ ans = AnswerOf(OwnerOf(want \div LcSize))
    BY <1>1, <1>3 DEF ReaderInv
  <2>2. PICK p : p = OwnerOf(want \div LcSize)
    OBVIOUS
  <2>3. p \in DOMAIN plan /\ plan[p].start <= want /\ want < plan[p].end
    BY <1>1, <2>1, <2>2, OwnSpan
  <2>4. ans = AnswerOf(p)
    BY <2>1, <2>2
  <2> QED BY <2>3, <2>4 DEF AnswerOf
<1> QED BY <1>2, <1>3 DEF AnswersThePlan

\* The blocks counted are those the addresses leave between the file's and the next.
LEMMA AllottedIs ==
  ASSUME CollatorInv, WriterInv
  PROVE  BlocksAllotted
<1> SUFFICES ASSUME st = "image"
             PROVE  total = IF plan = <<>> THEN 0 ELSE AddrsOf(pclusters)[Len(plan)] - FirstBlock
  BY DEF BlocksAllotted
<1>1. pclusters \in Seq(PcType) /\ Each(pclusters, Target) /\ Target \in Nat
  BY WrittenFile, FileFacts DEF WriterInv, BlocksEach, Each
<1>2. PICK len \in Nat : len = Len(pclusters) /\ DOMAIN pclusters = 1 .. len
  BY <1>1
<1>3. DOMAIN plan = 1 .. len /\ plan = [p \in 1 .. len |-> plan[p]]
  <2>1. PlanIs
    BY DEF WriterInv
  <2> QED BY <1>2, <2>1 DEF PlanIs
<1>4. Len(plan) = len
  BY <1>3
<1>5. (plan = <<>>) <=> (pclusters = <<>>)
  <2>1. (plan = <<>>) <=> (len = 0)
    BY <1>3, <1>4
  <2>2. (pclusters = <<>>) <=> (len = 0)
    BY <1>1, <1>2
  <2> QED BY <2>1, <2>2
<1>6. TotalIs
  BY DEF WriterInv
<1>7. CASE pclusters = <<>>
  BY <1>5, <1>6, <1>7 DEF TotalIs
<1>8. CASE pclusters # <<>>
  <2>1. PICK b \in Nat, m \in Nat : b = pclusters[len].blocks /\ m = (len - 1) * Target
    <3>1. pclusters[len] \in PcType /\ len - 1 \in Nat
      BY <1>1, <1>2, <1>8
    <3> QED BY <1>1, <3>1 DEF PcType
  <2>2. total = m + b
    BY <1>2, <1>6, <1>8, <2>1 DEF TotalIs
  <2>3. AddrsOf(pclusters)[len] = FirstBlock + m + b
    BY <1>1, <1>2, <1>8, <2>1, AddrFacts
  <2>4. (FirstBlock + m + b) - FirstBlock = m + b
    BY PlaceAssumption
  <2> QED BY <1>4, <1>5, <1>8, <2>2, <2>3, <2>4
<1> QED BY <1>7, <1>8

\* The index says what was planned.
LEMMA AsPlanned ==
  ASSUME Agreed, IndexInv
  PROVE  IndexAsPlanned
<1>1. CollatorInv /\ WriterInv /\ TableTold
  BY Retold DEF IndexInv
<1>2. ASSUME st = "image", NEW k \in 0 .. Src.n - 1
      PROVE  LET e == Entry(k)  put == entries[k + 1] IN
             /\ e.type = TypeCode(put.type)
             /\ put.type = "NONHEAD" => e.u = put.lo
             /\ put.type # "NONHEAD" => e.ofs = put.lo
  <2>1. Told(k)
    BY <1>1, <1>2 DEF TableTold
  <2>2. entries[k + 1].type # "NONHEAD" => entries[k + 1].lo = 0
    BY <1>1, <1>2, Owners DEF Leads
  <2> QED BY <2>1, <2>2 DEF Told, Entry
<1>3. EncoderInvertsDecoder
  BY <1>2 DEF EncoderInvertsDecoder
<1>4. \A k \in DOMAIN entries : entries[k].type = "NONHEAD" => entries[k].lo <= MaxDelta
  <2> SUFFICES ASSUME NEW k \in DOMAIN entries PROVE entries[k].lo <= MaxDelta
    OBVIOUS
  <2>1. entries \in Seq(EntryType)
    BY <1>1 DEF CollatorInv, CollatorTypeOK, EntryType
  <2>2. entries[k] \in EntryType
    BY <2>1
  <2> QED BY <2>2 DEF EntryType
<1> QED BY <1>1, <1>3, <1>4, AllottedIs DEF IndexAsPlanned

-----------------------------------------------------------------------------
(***************************************************************************)
(* Where the trailer ends.                                                 *)
(***************************************************************************)
\* Packs that fill the bytes from at to end.
Fills(packs, at, end) ==
  /\ \A x \in packs : x.at \in Nat /\ x.pack.bytes \in Nat /\ x.at + x.pack.bytes <= end
  /\ end = at \/ \E x \in packs : x.at + x.pack.bytes = end

\* A region has so many bytes.
LEMMA BytesAre ==
  ASSUME NEW shape \in {Pack4, Pack2}, NEW n \in Nat
  PROVE  BytesFor(shape, n) \in Nat
<1>1. PICK vcnt \in Nat, bytes \in Nat : IsShape(shape, vcnt, bytes)
  BY Shapes
<1> QED BY <1>1, PackArith DEF IsShape, BytesFor

\* A region's packs fill it to its end.
LEMMA RegionEnds ==
  ASSUME NEW shape \in {Pack4, Pack2}, NEW put, NEW first \in Nat, NEW n \in Nat, NEW at \in Nat
  PROVE  Fills(RegionPacks(shape, put, first, n, at), at, at + BytesFor(shape, n))
<1>1. PICK vcnt \in Nat, bytes \in Nat : IsShape(shape, vcnt, bytes)
  BY Shapes
<1>2. PICK c \in Nat : c = CeilDiv(n, vcnt)
  BY <1>1, PackArith DEF IsShape
<1>3. PICK b : b = BytesFor(shape, n)
  OBVIOUS
<1>4. b = c * bytes
  BY <1>1, <1>2, <1>3 DEF IsShape, BytesFor
<1> DEFINE Of(p) == [at |-> at + p * bytes,
                     pack |-> EncodePack(shape, SubSeq(put, first + p * vcnt + 1,
                                                       Min({first + (p + 1) * vcnt, first + n})))]
<1>5. RegionPacks(shape, put, first, n, at) = {Of(p) : p \in 0 .. c - 1}
  BY <1>1, <1>2 DEF RegionPacks, IsShape
<1>6. \A p \in 0 .. c - 1 : Of(p).at = at + p * bytes /\ Of(p).pack.bytes = bytes
  BY <1>1 DEF EncodePack, IsShape
<1> HIDE DEF Of
<1>7. /\ \A p \in 0 .. c - 1 : p * bytes \in Nat /\ (p * bytes) + bytes <= c * bytes
      /\ c # 0 => ((c - 1) * bytes) + bytes = c * bytes
      /\ c * bytes \in Nat /\ (c = 0 => c * bytes = 0)
  <2>1. CASE bytes = 8
    BY <2>1
  <2>2. CASE bytes = 32
    BY <2>2
  <2> QED BY <1>1, <2>1, <2>2 DEF IsShape, IsPack
<1>8. b \in Nat
  BY <1>4, <1>7
<1>9. ASSUME NEW p \in 0 .. c - 1
      PROVE  Of(p).at \in Nat /\ Of(p).pack.bytes \in Nat /\ Of(p).at + Of(p).pack.bytes <= at + b
  <2>1. PICK s \in Nat : s = p * bytes /\ s + bytes <= b
    BY <1>4, <1>7
  <2> QED BY <1>6, <1>8, <2>1
<1>10. ASSUME c # 0 PROVE c - 1 \in 0 .. c - 1 /\ Of(c - 1).at + Of(c - 1).pack.bytes = at + b
  <2>1. PICK s \in Nat, l \in 0 .. c - 1 : l = c - 1 /\ s = l * bytes /\ s + bytes = b
    BY <1>4, <1>7, <1>10
  <2>2. Of(l).at = at + s /\ Of(l).pack.bytes = bytes
    BY <1>6, <2>1
  <2> QED BY <1>8, <2>1, <2>2
<1>11. c = 0 => at + b = at
  BY <1>4, <1>7
<1> QED BY <1>3, <1>5, <1>8, <1>9, <1>10, <1>11 DEF Fills

\* The greatest of a set is the one that no other exceeds.
LEMMA MaxIs ==
  ASSUME NEW S \in SUBSET Nat, NEW top \in S, \A x \in S : x <= top
  PROVE  Max(S) = top
<1>1. \A x, y \in S : (\A z \in S : x >= z) /\ (\A z \in S : y >= z) => x = y
  OBVIOUS
<1>2. \A z \in S : top >= z
  OBVIOUS
<1> QED BY <1>1, <1>2 DEF Max

\* The bytes of the packs, and where a compact index ends.
LEMMA CompactEnds ==
  ASSUME NEW bodyEnd \in Nat, NEW T, NEW put \in Seq(T), NEW d, d.bodyEnd = bodyEnd, d.n = Len(put),
         d.format = "compact", d.index = EncodeCompact(bodyEnd, put)
  PROVE  /\ WrittenEnd(d) = Ebase(bodyEnd) + AreaBytes(Geometry(Ebase(bodyEnd), Len(put)))
         /\ tail_inline_offset(d) = WrittenEnd(d)
<1>1. PICK start \in Nat : start = Ebase(bodyEnd) /\ PackStart(bodyEnd) = start
  BY PackStarts
<1>0. PICK n \in Nat : n = Len(put)
  OBVIOUS
<1>2. PICK a \in Nat, m \in Nat, t \in Nat : AreRegions(bodyEnd, n, a, m, t)
  BY RegionsAre
<1>3. PICK at2 \in Nat, at3 \in Nat : at2 = SecondAt(start, a) /\ at3 = ThirdAt(start, a, m)
  BY <1>0, <1>1, <1>2, PacksApart
<1>d. PICK packs : packs = PacksOf(put, start, a, m, t)
  OBVIOUS
<1>4. IsPacks(d.index, packs)
  BY <1>0, <1>1, <1>2, <1>d, PacksApart
<1>5. PICK p1, p2, p3 : /\ p1 = RegionPacks(Pack4, put, 0, a, start)
                        /\ p2 = RegionPacks(Pack2, put, a, m, at2)
                        /\ p3 = RegionPacks(Pack4, put, a + m, t, at3)
                        /\ packs = p1 \cup p2 \cup p3
  BY <1>3, <1>d DEF PacksOf
<1>6. PICK b1, b2, b3 : b1 = BytesFor(Pack4, a) /\ b2 = BytesFor(Pack2, m) /\ b3 = BytesFor(Pack4, t)
  OBVIOUS
<1>7. at2 = start + b1 /\ at3 = at2 + b2
  BY <1>3, <1>6 DEF SecondAt, ThirdAt
<1>e. Pack4 \in {Pack4, Pack2} /\ Pack2 \in {Pack4, Pack2} /\ 0 \in Nat /\ a + m \in Nat
  OBVIOUS
<1>8. b1 \in Nat /\ Fills(p1, start, start + b1)
  BY <1>5, <1>6, <1>e, RegionEnds, BytesAre
<1>9. b2 \in Nat /\ Fills(p2, at2, at2 + b2)
  BY <1>5, <1>6, <1>e, RegionEnds, BytesAre
<1>10. b3 \in Nat /\ Fills(p3, at3, at3 + b3)
  BY <1>5, <1>6, <1>e, RegionEnds, BytesAre
<1>11. PICK end \in Nat : end = at3 + b3 /\ at2 <= end /\ at3 <= end /\ start <= end
  BY <1>7, <1>8, <1>9, <1>10
<1>12. \A x \in packs : x.at \in Nat /\ x.pack.bytes \in Nat /\ x.at + x.pack.bytes <= end
  <2>1. ASSUME NEW x \in p1 PROVE x.at \in Nat /\ x.pack.bytes \in Nat /\ x.at + x.pack.bytes <= end
    <3>1. x.at \in Nat /\ x.pack.bytes \in Nat /\ x.at + x.pack.bytes <= at2
      BY <1>7, <1>8 DEF Fills
    <3> QED BY <1>11, <3>1
  <2>2. ASSUME NEW x \in p2 PROVE x.at \in Nat /\ x.pack.bytes \in Nat /\ x.at + x.pack.bytes <= end
    <3>1. x.at \in Nat /\ x.pack.bytes \in Nat /\ x.at + x.pack.bytes <= at3
      BY <1>7, <1>9 DEF Fills
    <3> QED BY <1>11, <3>1
  <2>3. ASSUME NEW x \in p3 PROVE x.at \in Nat /\ x.pack.bytes \in Nat /\ x.at + x.pack.bytes <= end
    BY <1>10, <1>11 DEF Fills
  <2> QED BY <1>5, <2>1, <2>2, <2>3
<1>13. end = start \/ \E x \in packs : x.at + x.pack.bytes = end
  <2>1. end = at3 \/ \E x \in packs : x.at + x.pack.bytes = end
    BY <1>5, <1>10, <1>11 DEF Fills
  <2>2. at3 = at2 \/ \E x \in packs : x.at + x.pack.bytes = at3
    BY <1>5, <1>7, <1>9 DEF Fills
  <2>3. at2 = start \/ \E x \in packs : x.at + x.pack.bytes = at2
    BY <1>5, <1>7, <1>8 DEF Fills
  <2> QED BY <2>1, <2>2, <2>3
<1> DEFINE ends == {PackStart(d.bodyEnd)} \cup {at + d.index[at].bytes : at \in DOMAIN d.index}
<1>14. ends = {start} \cup {x.at + x.pack.bytes : x \in packs}
  <2>1. \A at \in DOMAIN d.index : \E x \in packs : at = x.at /\ d.index[at] = x.pack
    BY <1>4 DEF IsPacks
  <2>2. \A x \in packs : x.at \in DOMAIN d.index /\ d.index[x.at] = x.pack
    BY <1>4 DEF IsPacks
  <2>3. {at + d.index[at].bytes : at \in DOMAIN d.index} = {x.at + x.pack.bytes : x \in packs}
    BY <2>1, <2>2
  <2> QED BY <1>1, <2>3
<1>15. WrittenEnd(d) = end
  <2> HIDE DEF ends
  <2>1. ends \in SUBSET Nat /\ end \in ends /\ \A x \in ends : x <= end
    BY <1>11, <1>12, <1>13, <1>14
  <2>2. Max(ends) = end
    BY <2>1, MaxIs
  <2>3. d.format # "legacy"
    OBVIOUS
  <2> QED BY <2>2, <2>3 DEF WrittenEnd, ends
<1>16. AreaBytes(Geometry(Ebase(bodyEnd), Len(put))) = b1 + b2 + b3
  <2>1. PICK g : g = Geometry(Ebase(bodyEnd), Len(put)) /\ a = g.initial /\ m = g.middle /\ t = g.tail
    BY <1>0, <1>2 DEF AreRegions
  <2> QED BY <1>6, <2>1 DEF AreaBytes
<1>17. tail_inline_offset(d) = start + (b1 + b2 + b3)
  <2>1. PICK r : r = ReadGeometry(Ebase(bodyEnd), Len(put), Compacted2B(bodyEnd, Len(put)))
                 /\ r.initial = a /\ r.middle = m /\ a + m + t = n
    BY <1>0, <1>2 DEF AreRegions
  <2>2. n - a - m = t
    BY <2>1
  <2>3. index_array_bytes(d) = b1 + b2 + b3
    <3>1. BytesFor(Pack4, d.n - r.initial - r.middle) = b3
      BY <1>0, <1>6, <2>1, <2>2
    <3> QED BY <1>6, <2>1, <3>1 DEF index_array_bytes
  <2> QED BY <1>1, <2>3 DEF tail_inline_offset
<1>18. start + (b1 + b2 + b3) = end
  BY <1>7, <1>8, <1>9, <1>10, <1>11
<1> QED BY <1>1, <1>15, <1>16, <1>17, <1>18

\* The packs set aside depend on where the inode ends by its remainder by 32 only.
LEMMA PlanOfRemainder ==
  ASSUME NEW bodyEnd \in Nat, NEW n \in Nat
  PROVE  bodyEnd + PlannedBytes("compact", bodyEnd, n)
         = Ebase(bodyEnd) + AreaBytes(Geometry(Ebase(bodyEnd), n))
<1>1. PICK end \in Nat : end = bodyEnd % 32
  OBVIOUS
<1>2. PICK ebase \in Nat : ebase = ((AlignUp(end, 8) % 32) + 8) % 32
  BY <1>1 DEF AlignUp, CeilDiv
<1>3. Ebase(bodyEnd) % 32 = ebase % 32
  BY <1>1, <1>2 DEF Ebase, AlignUp, CeilDiv
<1>4. Geometry(Ebase(bodyEnd), n) = Geometry(ebase, n)
  BY <1>3 DEF Geometry
<1>5. bodyEnd + (8 + PadBeforeIndex(end)) = Ebase(bodyEnd)
  BY <1>1 DEF Ebase, AlignUp, CeilDiv, PadBeforeIndex
<1>6. PICK g \in {Geometry(ebase, n)} : g.initial \in Nat /\ g.middle \in Nat /\ g.tail \in Nat
  BY Regions
<1>7. AreaBytes(g) \in Nat
  BY <1>6, BytesAre DEF AreaBytes
<1>8. PlannedBytes("compact", bodyEnd, n) = 8 + PadBeforeIndex(end) + AreaBytes(Geometry(ebase, n))
  BY <1>1, <1>2 DEF PlannedBytes
<1>9. PadBeforeIndex(end) \in Nat
  BY DEF PadBeforeIndex
<1> QED BY <1>4, <1>5, <1>6, <1>7, <1>8, <1>9

\* Where a legacy index ends.
LEMMA LegacyEnds ==
  ASSUME NEW bodyEnd \in Nat, bodyEnd % 8 = 0, NEW T, NEW put \in Seq(T), NEW d, d.bodyEnd = bodyEnd,
         d.n = Len(put), d.format = "legacy", d.index = EncodeLegacy(bodyEnd, put)
  PROVE  /\ WrittenEnd(d) = bodyEnd + PlannedBytes("legacy", bodyEnd, Len(put))
         /\ tail_inline_offset(d) = WrittenEnd(d)
<1>1. PICK n \in Nat, q \in Nat : n = Len(put) /\ bodyEnd = 8 * q
  <2>1. \E q \in Nat : bodyEnd = 8 * q
    BY SMTT(30)
  <2> QED BY <2>1
<1>2. PICK first \in Nat : first = 2 * q + 4 /\ LegacyStart(bodyEnd) \div 4 = first
                           /\ LegacyStart(bodyEnd) = 4 * first
  BY <1>1 DEF LegacyStart
<1>3. DOMAIN d.index = first .. first + 2 * n - 1
  BY <1>1, <1>2 DEF EncodeLegacy
<1> DEFINE ends == {LegacyStart(d.bodyEnd)} \cup {4 * w + 4 : w \in DOMAIN d.index}
<1>4. PICK end \in Nat : end = 4 * first + 8 * n
  OBVIOUS
<1>5. ends = {4 * first} \cup {4 * w + 4 : w \in first .. first + 2 * n - 1}
  BY <1>2, <1>3
<1> HIDE DEF ends
<1>6. end \in ends
  <2>1. CASE n = 0
    <3>1. end = 4 * first
      BY <1>4, <2>1
    <3> QED BY <1>5, <3>1
  <2>2. CASE n # 0
    <3>1. PICK w \in first .. first + 2 * n - 1 : w = first + 2 * n - 1
      BY <2>2
    <3>2. end = 4 * w + 4
      BY <1>4, <3>1
    <3> QED BY <1>5, <3>2
  <2> QED BY <2>1, <2>2
<1>7. ends \in SUBSET Nat /\ \A x \in ends : x <= end
  <2> SUFFICES ASSUME NEW x \in ends PROVE x \in Nat /\ x <= end
    OBVIOUS
  <2>1. CASE x = 4 * first
    BY <1>4, <2>1
  <2>2. ASSUME NEW w \in first .. first + 2 * n - 1, x = 4 * w + 4 PROVE x \in Nat /\ x <= end
    BY <1>4, <2>2
  <2> QED BY <1>5, <2>1, <2>2
<1>8. WrittenEnd(d) = end
  <2> HIDE DEF ends
  <2>1. Max(ends) = end
    BY <1>6, <1>7, MaxIs
  <2> QED BY <2>1 DEF WrittenEnd, ends
<1>9. end = bodyEnd + PlannedBytes("legacy", bodyEnd, Len(put))
  BY <1>1, <1>2, <1>4 DEF PlannedBytes
<1>10. tail_inline_offset(d) = end
  <2>1. (bodyEnd + 8 - 1) \div 8 = q
    BY <1>1
  <2>2. LegacyReadStart(bodyEnd) = 4 * first
    BY <1>1, <1>2, <2>1 DEF LegacyReadStart, Ebase, AlignUp, CeilDiv
  <2> QED BY <1>1, <1>4, <2>2 DEF tail_inline_offset, index_array_bytes
<1> QED BY <1>8, <1>9, <1>10

\* The trailer ends where it was planned to, and the tail is read from there.
LEMMA EndsAsPlanned ==
  ASSUME Agreed, CollatorInv, WriterInv
  PROVE  TrailerAsPlanned
<1> SUFFICES ASSUME st = "image"
             PROVE  /\ disk.bodyEnd + PlannedBytes(disk.format, disk.bodyEnd, Src.n) = WrittenEnd(disk)
                    /\ tail_inline_offset(disk) = WrittenEnd(disk)
  BY DEF TrailerAsPlanned
<1>1. PICK place \in Place[file] : WrittenAt(place)
  BY DEF WriterInv
<1>2. PICK form \in {"legacy", "compact"}, end \in Nat : form = place[1] /\ end = place[2]
  <2>1. file \in File
    BY WrittenFile
  <2>2. place \in {"legacy", "compact"} \X Nat
    BY <2>1, PlaceAssumption
  <2> QED BY <2>2
<1>3. PICK put : put = Addressed(AddrsOf(pclusters))
  OBVIOUS
<1>4. PICK T : put \in Seq(T)
  BY <1>3, PutIs
<1>5. PICK n \in Nat : n = Len(put) /\ n = Src.n
  BY <1>3, PutIs, WrittenFile
<1>6. /\ disk.format = form /\ disk.bodyEnd = end /\ disk.n = n
      /\ disk.index = IF form = "legacy" THEN EncodeLegacy(end, put) ELSE EncodeCompact(end, put)
  BY <1>1, <1>2, <1>3, <1>5 DEF WrittenAt
<1>7. CASE form = "legacy"
  <2>1. end % 8 = 0
    BY <1>2, <1>7, WrittenFile DEF Agreed
  <2>2. WrittenEnd(disk) = end + PlannedBytes("legacy", end, Len(put)) /\ tail_inline_offset(disk) = WrittenEnd(disk)
    BY <1>4, <1>5, <1>6, <1>7, <2>1, LegacyEnds
  <2> QED BY <1>5, <1>6, <1>7, <2>2
<1>8. CASE form = "compact"
  <2>1. /\ WrittenEnd(disk) = Ebase(end) + AreaBytes(Geometry(Ebase(end), Len(put)))
        /\ tail_inline_offset(disk) = WrittenEnd(disk)
    BY <1>4, <1>5, <1>6, <1>8, CompactEnds
  <2>2. end + PlannedBytes("compact", end, n) = Ebase(end) + AreaBytes(Geometry(Ebase(end), n))
    BY PlanOfRemainder
  <2> QED BY <1>5, <1>6, <1>8, <2>1, <2>2
<1> QED BY <1>7, <1>8

-----------------------------------------------------------------------------
(***************************************************************************)
(* The theorems, wherever builder and reader agree.                        *)
(***************************************************************************)
\* IndexInv is an invariant: the collator's, what was written, and where a lookup is.
THEOREM IndexInvCorrect ==
  ASSUME Agreed
  PROVE  Spec => []IndexInv
<1>1. Init => IndexInv
  <2>1. Init => CollatorInv
    BY InitInv
  <2>2. Init => ReaderInv
    BY DEF Init, ReaderInit, ReaderInv
  <2> QED BY <2>1, <2>2, WriterInit DEF IndexInv
<1>2. IndexInv /\ [Next]_vars => IndexInv'
  BY NextIndex
<1> QED BY <1>1, <1>2, PTL DEF Spec

\* Every entry is read as it was written, at every place of a compact or legacy
\* index, the blocks counted are those allotted, and every delta[0] fits its field.
THEOREM IndexCorrect ==
  ASSUME Agreed
  PROVE  Spec => []IndexAsPlanned
<1>1. IndexInv => IndexAsPlanned
  BY AsPlanned
<1> QED BY <1>1, IndexInvCorrect, PTL

\* The trailer fills the bytes the planner set aside for it, and an inlined tail is
\* read from right behind it (plan_body, encode_zmap_trailer, tail_inline_offset).
THEOREM TrailerCorrect ==
  ASSUME Agreed
  PROVE  Spec => []TrailerAsPlanned
<1>1. IndexInv => TrailerAsPlanned
  BY EndsAsPlanned DEF IndexInv
<1> QED BY <1>1, IndexInvCorrect, PTL

\* Every lookup of an offset of the file answers the extent that was planned for it, and
\* the search for a fragment agrees with it on which extent is the last.
THEOREM AnswersCorrect ==
  ASSUME Agreed
  PROVE  Spec => []AnswersThePlan
<1>1. IndexInv => AnswersThePlan
  BY AnswerIs
<1> QED BY <1>1, IndexInvCorrect, PTL
=============================================================================
