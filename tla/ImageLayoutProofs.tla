-------------------------- MODULE ImageLayoutProofs --------------------------
(***************************************************************************)
(* Building an image writes every byte of it once, seals the superblock    *)
(* last of what its checksum covers, fails only for cause, and can be read *)
(* back: for every plan, blobs, block size and number of blocks.           *)
(*                                                                         *)
(* The argument: but for the gap, all that is written is written in one    *)
(* line.  The planning passes fix three rows of places, each behind the    *)
(* last: the inodes' slots, the directories' blocks (the i-th's from block *)
(* f[i] on) and the data (the i-th's from g[i] on).  The emission then     *)
(* walks the rows in that order, and what it has written ends where the    *)
(* next place begins.  A pass looks the numbers of another up by NID, so   *)
(* the rows also say that a NID is one node's, and that a later insert     *)
(* under another NID moves nothing.                                        *)
(*                                                                         *)
(* Reading back rests on that: of writes that are apart, what each wrote   *)
(* stays whole.  FoundInv adds what was put under the NIDs and which       *)
(* writes were made; the lemmas after it take the reader's way to each     *)
(* kind of node's data.                                                    *)
(*                                                                         *)
(* The last part is about Directory, the walk of a directory's blocks.     *)
(* DirInv says what has been seen: the entries of the blocks walked and    *)
(* those of the current block up to `entry`; a listing holds them, and a   *)
(* lookup the first of them that has its name.  Of a directory the builder *)
(* made these are its children: the blocks cut its entries into runs, and  *)
(* each block reads back the entries encoded in it.                        *)
(***************************************************************************)
EXTENDS ImageLayout, DirectoryWalk, SequenceTheorems, FiniteSetTheorems, FunctionTheorems,
        NaturalsInduction, WellFoundedInduction, TLAPS

\* A sequence over its own elements.
IsSeq(s) == s \in Seq({s[k] : k \in DOMAIN s})

\* Writes one behind the other, from `from` to no further than `to`.
InLine(writes, from, to) ==
  /\ \A k \in DOMAIN writes : /\ writes[k].off \in Nat /\ writes[k].len \in Nat
                              /\ writes[k].off >= from
                              /\ writes[k].off + writes[k].len =< to
  /\ \A k \in DOMAIN writes : \A j \in 1..(k - 1) :
       writes[j].off + writes[j].len =< writes[k].off

\* WritesApart says it of img.
Apart(s) ==
  \A k \in DOMAIN s : \A j \in 1..(k - 1) : ~Overlap(s[j].off, s[j].len, s[k].off, s[k].len)
Placed(s) == IsSeq(s) /\ \A k \in DOMAIN s : s[k].off \in Nat /\ s[k].len \in Nat
EndsBy(s, x) == \A k \in DOMAIN s : s[k].off + s[k].len =< x

-----------------------------------------------------------------------------
(***************************************************************************)
(* The invariant.                                                          *)
(***************************************************************************)
Nodes == Len(plan)

\* Inodes one behind the other, each as large as its node's inode and trailers.
SlotsRight ==
  /\ slots \in Seq([start : Nat, span : Nat])
  /\ Len(slots) =< Nodes
  /\ \A i \in DOMAIN slots : slots[i].span = BodySpan(plan[i])
  /\ \A j \in DOMAIN slots : \A i \in 1..(j - 1) : SlotEnd(slots[i]) =< slots[j].start

\* The blocks of the first m nodes' directories, the i-th's from f[i] on.
DirsLie(f, m) ==
  /\ f \in [1..(m + 1) -> Nat]
  /\ \A i \in 1..m :
       IF plan[i].kind = "dir"
       THEN /\ Nid(i) \in DOMAIN packed /\ IsSeq(packed[Nid(i)])
            /\ Nid(i) \in DOMAIN blockOf /\ blockOf[Nid(i)] = f[i]
            /\ f[i + 1] = f[i] + Len(packed[Nid(i)])
       ELSE f[i + 1] = f[i]

\* A node's stored parts lie in order from block `from` to block `to`.
PartsLie(i, from, to) ==
  LET parts == StoredParts(plan[i]) IN
  \A p \in DOMAIN parts : parts[p] > 0 =>
    /\ StoredAt(i, p) \in Nat /\ StoredAt(i, p) >= from
    /\ StoredAt(i, p) * BlockSize + parts[p] =< to * BlockSize
    /\ \A q \in 1..(p - 1) : parts[q] > 0 =>
         StoredAt(i, q) * BlockSize + parts[q] =< StoredAt(i, p) * BlockSize

\* The data of the first m nodes, the i-th's from g[i] on.
DataLies(g, m) ==
  /\ g \in [1..(m + 1) -> Nat]
  /\ \A i \in 1..m :
       /\ g[i] =< g[i + 1] /\ PartsLie(i, g[i], g[i + 1])
       /\ plan[i].kind \in {"file", "symlink"} => Nid(i) \in DOMAIN blockOf
       /\ plan[i].kind \in {"chunked", "compressed"} =>
            Nid(i) \in DOMAIN addrsOf
       /\ plan[i].kind = "chunked" => Len(addrsOf[Nid(i)]) = Len(plan[i].chunks)

\* The first block behind every inode.
Behind(block) ==
  \A i \in DOMAIN slots : MetaBase + SlotEnd(slots[i]) =< block * BlockSize

\* What the superblock's checksum covers is written when it is.
Sealed(s) ==
  \A k \in DOMAIN s : s[k].what.kind = "super" =>
    \A j \in (k + 1)..Len(s) : s[j].off >= MetaBase

\* All that is written, and the places where the rest will be.
Planning == {"flatten", "bodies", "metadata", "directories", "data", "size", "gap"}
Emitting == {"inodes", "dirblocks", "filedata", "done"}

Placing ==
  /\ pass \in {"flatten", "bodies"} => slots = <<>> /\ at = 1
  /\ pass = "metadata" => Len(slots) = at - 1
  /\ pass \in {"directories", "data", "size", "gap"} \cup Emitting =>
       Len(slots) = Nodes /\ next >= 2
  /\ pass = "directories" =>
       \E f : DirsLie(f, at - 1) /\ f[at] = next /\ Behind(f[1])
  /\ pass = "data" =>
       \E f, g : /\ DirsLie(f, Nodes) /\ Behind(f[1]) /\ g[1] = f[Nodes + 1]
                 /\ DataLies(g, at - 1) /\ g[at] = next
  /\ pass \in {"size", "gap"} \cup Emitting =>
       \E f, g : /\ DirsLie(f, Nodes) /\ Behind(f[1]) /\ g[1] = f[Nodes + 1]
                 /\ DataLies(g, Nodes) /\ g[Nodes + 1] = next
                 /\ pass = "dirblocks" => EndsBy(img, f[at] * BlockSize)
                 /\ pass = "filedata" => EndsBy(img, g[at] * BlockSize)

LayoutInv ==
  /\ plan \in Plans /\ blobs \in BlobSizes
  /\ pass \in Planning \cup Emitting \cup {"failed"}
  /\ at \in 1..Nodes /\ next \in Nat
  /\ SlotsRight /\ Placing
  /\ pass \in Planning => img = <<>>
  /\ pass = "inodes" => EndsBy(img, MetaBase + slots[at].start)
  /\ Placed(img) /\ Apart(img) /\ EndsBy(img, next * BlockSize) /\ Sealed(img)
  /\ FailsForCause

-----------------------------------------------------------------------------
(***************************************************************************)
(* Numbers and lists.                                                      *)
(***************************************************************************)
\* A set of numbers has a least.
LEMMA NatMin ==
  ASSUME NEW T \in SUBSET Nat, T # {}
  PROVE  \E x \in T : \A y \in T : ~(y < x)
<1>1. \E x \in T : \A y \in T : ~(<<y, x>> \in OpToRel(<, Nat))
  BY NatLessThanWellFounded, WFMin
<1> QED BY <1>1 DEF OpToRel

\* Induction, with a set in the place of a predicate.
LEMMA NatInd ==
  ASSUME NEW S \in SUBSET Nat, 0 \in S, \A n \in S : n + 1 \in S
  PROVE  S = Nat
<1> SUFFICES ASSUME S # Nat PROVE FALSE
  OBVIOUS
<1>1. PICK x \in Nat \ S : \A y \in Nat \ S : ~(y < x)
  BY NatMin
<1>2. x # 0 /\ x - 1 \in Nat /\ x - 1 < x
  BY <1>1
<1>3. x - 1 \in S
  BY <1>1, <1>2
<1> QED BY <1>1, <1>2, <1>3
-----------------------------------------------------------------------------
\* What the proofs need of the block size.
LEMMA Blocks == BlockSize \in Nat /\ BlockSize >= 512
  BY ImagePlanAssumption

\* Rounding up reaches the number and goes no step beyond it.
LEMMA Ceiling ==
  ASSUME NEW a \in Nat, NEW b \in Nat, b > 0
  PROVE  /\ CeilDiv(a, b) \in Nat /\ CeilTo(a, b) \in Nat
         /\ CeilTo(a, b) >= a /\ CeilTo(a, b) < a + b
         /\ CeilTo(a, b) = CeilDiv(a, b) * b
         /\ a > 0 => CeilDiv(a, b) > 0
<1> DEFINE c == a + b - 1
           q == c \div b
           r == c % b
<1>1. c \in Nat
  OBVIOUS
<1>2. c = b * q + r /\ r \in 0 .. b - 1 /\ q \in Nat
  BY <1>1
<1>3. q * b = b * q /\ b * q \in Nat
  BY <1>2
<1>4. CeilDiv(a, b) = q /\ CeilTo(a, b) = q * b
  BY DEF CeilDiv, CeilTo
<1> HIDE DEF q, r
<1>5. q * b >= a /\ q * b < a + b
  BY <1>2, <1>3
<1>6. a > 0 => q > 0
  <2>1. q = 0 => b * q = 0
    BY <1>2
  <2> QED BY <1>2, <1>3, <1>5, <2>1
<1> QED BY <1>2, <1>3, <1>4, <1>5, <1>6

\* Blocks in bytes keep their order.
LEMMA Scaled ==
  ASSUME NEW a \in Nat, NEW b \in Nat, a =< b
  PROVE  a * BlockSize \in Nat /\ a * BlockSize =< b * BlockSize
<1>1. PICK d \in Nat : b = a + d
  <2>1. b - a \in Nat /\ b = a + (b - a)
    OBVIOUS
  <2> QED BY <2>1
<1>2. b * BlockSize = a * BlockSize + d * BlockSize
  BY <1>1, Blocks
<1>3. a * BlockSize \in Nat /\ d * BlockSize \in Nat
  BY Blocks
<1> QED BY <1>2, <1>3

\* Bytes of blocks added up.
LEMMA Added ==
  ASSUME NEW a \in Nat, NEW b \in Nat
  PROVE  (a + b) * BlockSize = a * BlockSize + b * BlockSize
  BY Blocks

\* The metadata begins in the first block behind the superblock.
LEMMA MetaFacts ==
  /\ MetaBlkaddr \in Nat /\ MetaBlkaddr >= 1
  /\ MetaBase \in Nat /\ MetaBase >= SuperEnd /\ MetaBase = MetaBlkaddr * BlockSize
  /\ HasChecksum => MetaBase >= ChecksumEnd
  /\ SuperEnd = 1152
<1>1. SuperEnd = 1152 /\ SuperEnd \in Nat
  BY DEF SuperEnd, SuperOffset
<1>2. /\ MetaBlkaddr \in Nat /\ MetaBlkaddr >= 1
      /\ MetaBase \in Nat /\ MetaBase >= SuperEnd /\ MetaBase = MetaBlkaddr * BlockSize
  BY <1>1, Blocks, Ceiling DEF MetaBlkaddr, MetaBase, CeilTo
<1>3. HasChecksum => MetaBase >= ChecksumEnd
  <2> SUFFICES ASSUME HasChecksum PROVE MetaBase >= ChecksumEnd
    OBVIOUS
  <2>1. SuperOffset % BlockSize = 1024
    BY ImagePlanAssumption DEF HasChecksum, SuperOffset
  <2>2. ChecksumEnd = BlockSize
    BY <2>1, Blocks DEF ChecksumEnd, SuperOffset
  <2>3. 1 * BlockSize =< MetaBlkaddr * BlockSize
    BY <1>2, Scaled
  <2> QED BY <1>2, <2>2, <2>3, Blocks
<1> QED BY <1>1, <1>2, <1>3
-----------------------------------------------------------------------------

\* What is kept of the first k writes, from what is kept of those in front, g.
Fill(g, s, k) ==
  IF k = 0 THEN <<>>
  ELSE IF s[k].len > 0 THEN Append(g[k - 1], s[k]) ELSE g[k - 1]
FilledTo(s) == CHOOSE g : g = [k \in 0..Len(s) |-> Fill(g, s, k)]

\* What Filled makes of a list is what Fill makes of its prefixes.
LEMMA FilledIs ==
  ASSUME NEW s, Len(s) \in Nat
  PROVE  /\ Filled(s) = FilledTo(s)[Len(s)]
         /\ \A k \in 0..Len(s) : FilledTo(s)[k] = Fill(FilledTo(s), s, k)
<1> DEFINE S == {n \in Nat : \E g : g = [k \in 0..n |-> Fill(g, s, k)]}
<1>1. 0 \in S
  <2> DEFINE g == [k \in 0..0 |-> <<>>]
  <2>1. g = [k \in 0..0 |-> Fill(g, s, k)]
    BY DEF Fill
  <2> QED BY <2>1
<1>2. ASSUME NEW n \in S PROVE n + 1 \in S
  <2>1. PICK g : g = [k \in 0..n |-> Fill(g, s, k)]
    BY <1>2
  <2> DEFINE h == [k \in 0..(n + 1) |-> Fill(g, s, k)]
  <2>2. ASSUME NEW k \in 0..(n + 1) PROVE h[k] = Fill(h, s, k)
    <3>1. k # 0 => k - 1 \in 0..n /\ h[k - 1] = g[k - 1]
      BY <2>1
    <3>2. h[k] = Fill(g, s, k)
      OBVIOUS
    <3> HIDE DEF h
    <3> QED BY <3>1, <3>2 DEF Fill
  <2>3. h = [k \in 0..(n + 1) |-> Fill(h, s, k)]
    BY <2>2
  <2> HIDE DEF h
  <2>4. \E f : f = [k \in 0..(n + 1) |-> Fill(f, s, k)]
    BY <2>3
  <2> QED BY <2>4
<1>3. S = Nat
  <2> HIDE DEF S
  <2>1. S \in SUBSET Nat
    BY DEF S
  <2> QED BY <1>1, <1>2, <2>1, NatInd
<1>4. \E g : g = [k \in 0..Len(s) |-> Fill(g, s, k)]
  BY <1>3
<1> DEFINE F == FilledTo(s)
<1>5. F = [k \in 0..Len(s) |-> Fill(F, s, k)]
  BY <1>4 DEF FilledTo
<1>6. Filled(s) = F[Len(s)]
  BY DEF Filled, FilledTo, Fill
<1> HIDE DEF F
<1>7. \A k \in 0..Len(s) : F[k] = Fill(F, s, k)
  BY <1>5
<1> QED BY <1>6, <1>7 DEF F

\* f picks out of s, in order, what writes something.
Picks(f, s) ==
  \E pos \in [1..Len(f) -> 1..Len(s)] :
    /\ \A j \in 1..Len(f) : f[j] = s[pos[j]] /\ s[pos[j]].len > 0
    /\ \A i, j \in 1..Len(f) : i < j => pos[i] < pos[j]

\* Filled picks out of a list.
LEMMA FilledFacts ==
  ASSUME NEW W, NEW s \in Seq(W)
  PROVE  Filled(s) \in Seq(W) /\ Picks(Filled(s), s)
<1> DEFINE F == FilledTo(s)
           n == Len(s)
           Up(k) == \E pos \in [1..Len(F[k]) -> 1..k] :
                      /\ \A j \in 1..Len(F[k]) : F[k][j] = s[pos[j]] /\ s[pos[j]].len > 0
                      /\ \A i, j \in 1..Len(F[k]) : i < j => pos[i] < pos[j]
           Right(k) == F[k] \in Seq(W) /\ Up(k)
           S == {k \in Nat : k <= n => Right(k)}
<1>0. n \in Nat /\ Filled(s) = F[n] /\ \A k \in 0..n : F[k] = Fill(F, s, k)
  BY FilledIs, LenProperties
<1>1. 0 \in S
  <2>1. F[0] = <<>>
    BY <1>0 DEF Fill
  <2>2. F[0] \in Seq(W) /\ Len(F[0]) = 0
    BY <2>1, EmptySeq
  <2>3. Up(0)
    <3> DEFINE pos == [j \in 1..0 |-> 1]
    <3>1. pos \in [1..Len(F[0]) -> 1..0]
      BY <2>2
    <3> HIDE DEF F, pos
    <3> QED BY <2>2, <3>1
  <2> QED BY <2>2, <2>3
<1>2. ASSUME NEW k \in S PROVE k + 1 \in S
  <2> SUFFICES ASSUME k + 1 <= n PROVE Right(k + 1)
    BY SMTT(30)
  <2>1. k \in Nat /\ F[k] \in Seq(W) /\ k + 1 \in 1..n /\ k + 1 \in 0..n /\ s[k + 1] \in W
    BY <1>0, ElementOfSeq
  <2>2. PICK pos \in [1..Len(F[k]) -> 1..k] :
                      /\ \A j \in 1..Len(F[k]) : F[k][j] = s[pos[j]] /\ s[pos[j]].len > 0
                      /\ \A i, j \in 1..Len(F[k]) : i < j => pos[i] < pos[j]
    BY <1>0
  <2>3. F[k + 1] = IF s[k + 1].len > 0 THEN Append(F[k], s[k + 1]) ELSE F[k]
    <3>1. F[k + 1] = Fill(F, s, k + 1)
      BY <1>0, <2>1
    <3>2. k + 1 # 0 /\ (k + 1) - 1 = k
      BY <2>1
    <3> QED BY <3>1, <3>2 DEF Fill
  <2> DEFINE f == F[k]
             h == F[k + 1]
             l == Len(f)
  <2>4. l \in Nat /\ f \in Seq(W)
    BY <2>1, LenProperties
  <2> HIDE DEF F
  <2>5. CASE s[k + 1].len > 0
    <3>1. h = Append(f, s[k + 1])
      BY <2>3, <2>5
    <3> HIDE DEF f, h
    <3>2. /\ h \in Seq(W) /\ Len(h) = l + 1
          /\ \A j \in 1..l : h[j] = f[j]
          /\ h[l + 1] = s[k + 1]
      BY <2>1, <2>4, <3>1, AppendProperties
    <3> DEFINE q == [j \in 1..(l + 1) |-> IF j = l + 1 THEN k + 1 ELSE pos[j]]
    <3>3. ASSUME NEW j \in 1..(l + 1)
          PROVE  \/ j = l + 1 /\ q[j] = k + 1
                 \/ j \in 1..l /\ j # l + 1 /\ q[j] = pos[j] /\ pos[j] \in 1..k
      <4>1. j = l + 1 \/ (j \in 1..l /\ j # l + 1)
        BY <2>4
      <4>2. pos \in [1..l -> 1..k]
        BY <2>2 DEF f
      <4> QED BY <4>1, <4>2
    <3>4. q \in [1..(l + 1) -> 1..(k + 1)]
      <4>1. \A j \in 1..(l + 1) : q[j] \in 1..(k + 1)
        BY <2>1, <3>3
      <4> QED BY <4>1
    <3> HIDE DEF q
    <3>5. ASSUME NEW j \in 1..(l + 1) PROVE h[j] = s[q[j]] /\ s[q[j]].len > 0
      <4>1. \A i \in 1..l : f[i] = s[pos[i]] /\ s[pos[i]].len > 0
        BY <2>2 DEF f
      <4> QED BY <2>5, <3>2, <3>3, <4>1
    <3>6. ASSUME NEW i \in 1..(l + 1), NEW j \in 1..(l + 1), i < j PROVE q[i] < q[j]
      <4>1. \A a, b \in 1..l : a < b => pos[a] < pos[b]
        BY <2>2 DEF f
      <4>2. i \in 1..l /\ i # l + 1
        BY <2>4, <3>6
      <4>3. q[i] = pos[i] /\ pos[i] \in 1..k
        BY <3>3, <4>2
      <4>4. CASE j = l + 1
        BY <2>1, <3>3, <4>3, <4>4
      <4>5. CASE j # l + 1
        <5>1. j \in 1..l /\ q[j] = pos[j]
          BY <3>3, <4>5
        <5> QED BY <3>6, <4>1, <4>2, <4>3, <5>1
      <4> QED BY <4>4, <4>5
    <3>7. h \in Seq(W) /\ Len(h) = l + 1
      BY <3>2
    <3>8. \E p \in [1..Len(h) -> 1..(k + 1)] :
            /\ \A j \in 1..Len(h) : h[j] = s[p[j]] /\ s[p[j]].len > 0
            /\ \A i, j \in 1..Len(h) : i < j => p[i] < p[j]
      BY <3>4, <3>5, <3>6, <3>7
    <3> QED BY <3>7, <3>8 DEF h
  <2>6. CASE ~(s[k + 1].len > 0)
    <3>1. h = f
      BY <2>3, <2>6
    <3>2. pos \in [1..Len(f) -> 1..(k + 1)]
      <4>1. \A j \in 1..Len(f) : pos[j] \in 1..(k + 1)
        BY <2>1, <2>2
      <4> QED BY <2>2, <4>1
    <3>3. Up(k + 1)
      BY <2>2, <3>1, <3>2
    <3> QED BY <2>4, <3>1, <3>3
  <2> QED BY <2>5, <2>6
<1>3. S = Nat
  <2> HIDE DEF S
  <2>1. S \in SUBSET Nat
    BY DEF S
  <2> QED BY <1>1, <1>2, <2>1, NatInd
<1>4. Right(n)
  <2>1. n \in S
    <3> HIDE DEF S
    <3> QED BY <1>0, <1>3
  <2> HIDE DEF Right
  <2> QED BY <1>0, <2>1
<1> QED BY <1>0, <1>4 DEF Picks

\* A running total g of the first n counts of c, from `from`.
Runs(g, c, n, from) ==
  /\ g[0] = from
  /\ \A k \in 1..n : g[k] = g[k - 1] + c[k]

Totals(g, c, n, from) == g = [k \in 0..n |-> IF k = 0 THEN from ELSE g[k - 1] + c[k]]

\* Running totals exist.
LEMMA RunsExist ==
  ASSUME NEW c, NEW n \in Nat, NEW from
  PROVE  \E g : Totals(g, c, n, from)
<1> DEFINE To(m) == \E g : g = [k \in 0..m |-> IF k = 0 THEN from ELSE g[k - 1] + c[k]]
           S == {m \in Nat : To(m)}
<1>1. 0 \in S
  <2> DEFINE g == [k \in 0..0 |-> from]
  <2>1. g = [k \in 0..0 |-> IF k = 0 THEN from ELSE g[k - 1] + c[k]]
    OBVIOUS
  <2> HIDE DEF g
  <2> QED BY <2>1
<1>2. ASSUME NEW m \in S PROVE m + 1 \in S
  <2>1. PICK g : g = [k \in 0..m |-> IF k = 0 THEN from ELSE g[k - 1] + c[k]]
    OBVIOUS
  <2> DEFINE h == [k \in 0..(m + 1) |-> IF k = 0 THEN from ELSE g[k - 1] + c[k]]
  <2>2. ASSUME NEW k \in 0..(m + 1) PROVE h[k] = IF k = 0 THEN from ELSE h[k - 1] + c[k]
    <3>1. k # 0 => k - 1 \in 0..m /\ h[k - 1] = g[k - 1]
      BY <2>1
    <3> QED BY <3>1
  <2>3. h = [k \in 0..(m + 1) |-> IF k = 0 THEN from ELSE h[k - 1] + c[k]]
    BY <2>2
  <2> HIDE DEF h
  <2>4. To(m + 1)
    BY <2>3
  <2> HIDE DEF To
  <2> QED BY <2>4
<1>3. S = Nat
  <2> HIDE DEF S
  <2>1. S \in SUBSET Nat
    BY DEF S
  <2> QED BY <1>1, <1>2, <2>1, NatInd
<1> QED BY <1>3 DEF Totals

\* A running total of counts never falls.
LEMMA RunFacts ==
  ASSUME NEW g, NEW c, NEW n \in Nat, NEW from \in Nat, Runs(g, c, n, from),
         \A k \in 1..n : c[k] \in Nat
  PROVE  /\ \A k \in 0..n : g[k] \in Nat /\ g[k] >= from
         /\ \A j, k \in 0..n : j =< k => g[j] =< g[k]
<1> DEFINE Rises(k) == g[k] \in Nat /\ \A j \in 0..k : g[j] =< g[k] /\ g[j] \in Nat
           S == {m \in Nat : m =< n => Rises(m)}
<1>1. 0 \in S
  BY DEF Runs
<1>2. ASSUME NEW m \in S PROVE m + 1 \in S
  <2> SUFFICES ASSUME m + 1 =< n PROVE Rises(m + 1)
    OBVIOUS
  <2>1. m \in Nat /\ Rises(m) /\ m + 1 \in 1..n /\ (m + 1) - 1 = m
    OBVIOUS
  <2>2. g[m + 1] = g[m] + c[m + 1] /\ c[m + 1] \in Nat
    BY <2>1 DEF Runs
  <2>3. g[m + 1] \in Nat /\ g[m] =< g[m + 1]
    BY <2>1, <2>2
  <2>4. ASSUME NEW j \in 0..(m + 1) PROVE g[j] =< g[m + 1] /\ g[j] \in Nat
    <3>1. CASE j = m + 1
      BY <2>3, <3>1
    <3>2. CASE j # m + 1
      <4>1. j \in 0..m
        BY <2>1, <3>2
      <4>2. g[j] =< g[m] /\ g[j] \in Nat /\ g[m] \in Nat
        BY <2>1, <4>1
      <4> QED BY <2>3, <4>2
    <3> QED BY <3>1, <3>2
  <2> QED BY <2>3, <2>4
<1>3. S = Nat
  <2> HIDE DEF S
  <2>1. S \in SUBSET Nat
    BY DEF S
  <2> QED BY <1>1, <1>2, <2>1, NatInd
<1>4. \A k \in 0..n : Rises(k)
  BY <1>3
<1>5. ASSUME NEW k \in 0..n PROVE g[k] \in Nat /\ g[k] >= from
  <2>1. Rises(k) /\ 0 \in 0..k
    BY <1>4
  <2>2. g[0] =< g[k] /\ g[k] \in Nat
    BY <2>1
  <2> QED BY <2>2 DEF Runs
<1>6. ASSUME NEW j \in 0..n, NEW k \in 0..n, j =< k PROVE g[j] =< g[k]
  <2>1. Rises(k) /\ j \in 0..k
    BY <1>4, <1>6
  <2> QED BY <2>1
<1> QED BY <1>5, <1>6
-----------------------------------------------------------------------------
\* Parts laid end to end are in line, and end where they sum up to.
Sized(parts, n) ==
  DOMAIN parts = 1..n /\ Len(parts) = n /\ \A k \in 1..n : parts[k][1] \in Nat
LaidOut(parts, n, from, laid) ==
  /\ DOMAIN laid.writes = 1..n
  /\ \A k \in 1..n : laid.writes[k].what = parts[k][2]
  /\ laid.end \in Nat /\ laid.end >= from
  /\ InLine(laid.writes, from, laid.end)
  /\ \E g : /\ g[0] = from /\ \A k \in 1..n : g[k] = g[k - 1] + parts[k][1]
            /\ \A k \in 1..n : /\ laid.writes[k].off = g[k - 1]
                               /\ laid.writes[k].len = parts[k][1]
            /\ laid.end = g[n]

\* What Laid makes of parts.
LEMMA LaidFacts ==
  ASSUME NEW parts, NEW n \in Nat, Sized(parts, n), NEW from \in Nat
  PROVE  LaidOut(parts, n, from, Laid(parts, from))
<1>0. DOMAIN parts = 1..n /\ Len(parts) = n /\ \A k \in 1..n : parts[k][1] \in Nat
  BY DEF Sized
<1> DEFINE c == [k \in 1..n |-> parts[k][1]]
           past == CHOOSE past : past = [k \in 0..Len(parts) |->
                     IF k = 0 THEN from ELSE past[k - 1] + parts[k][1]]
           laid == Laid(parts, from)
<1>1. /\ laid.writes = [k \in DOMAIN parts |-> Write(past[k - 1], parts[k][1], parts[k][2])]
      /\ laid.end = past[Len(parts)]
  BY <1>0 DEF Laid
<1>2. past = [k \in 0..n |-> IF k = 0 THEN from ELSE past[k - 1] + parts[k][1]]
  <2> HIDE DEF c
  <2>1. PICK g : Totals(g, c, n, from)
    BY RunsExist
  <2>2. g = [k \in 0..n |-> IF k = 0 THEN from ELSE g[k - 1] + parts[k][1]]
    <3>1. \A k \in 0..n : k # 0 => c[k] = parts[k][1]
      BY DEF c
    <3>2. \A k \in 0..n : g[k] = IF k = 0 THEN from ELSE g[k - 1] + parts[k][1]
      BY <2>1, <3>1 DEF Totals
    <3> QED BY <2>1, <3>2 DEF Totals
  <2>3. \E f : f = [k \in 0..n |-> IF k = 0 THEN from ELSE f[k - 1] + parts[k][1]]
    BY <2>2
  <2> QED BY <1>0, <2>3
<1> HIDE DEF past, laid
<1>3. Runs(past, c, n, from)
  BY <1>2 DEF Runs
<1>4. \A k \in 1..n : c[k] \in Nat /\ c[k] = parts[k][1]
  BY <1>0
<1> HIDE DEF c
<1>5. /\ \A k \in 0..n : past[k] \in Nat /\ past[k] >= from
      /\ \A j, k \in 0..n : j =< k => past[j] =< past[k]
  BY <1>3, <1>4, RunFacts
<1>6. /\ DOMAIN laid.writes = 1..n
      /\ \A k \in 1..n : /\ laid.writes[k].off = past[k - 1]
                         /\ laid.writes[k].len = c[k]
                         /\ laid.writes[k].what = parts[k][2]
  BY <1>0, <1>1, <1>4 DEF Write
<1>7. \A k \in 1..n : k - 1 \in 0..n /\ k \in 0..n /\ past[k] = past[k - 1] + c[k]
  BY <1>3 DEF Runs
<1>8. InLine(laid.writes, from, laid.end)
  <2>1. ASSUME NEW k \in 1..n
        PROVE  /\ laid.writes[k].off \in Nat /\ laid.writes[k].len \in Nat
               /\ laid.writes[k].off >= from
               /\ laid.writes[k].off + laid.writes[k].len =< laid.end
    <3>1. past[k] =< past[n] /\ past[k - 1] \in Nat /\ past[k - 1] >= from
          /\ past[k] = past[k - 1] + c[k]
      BY <1>5, <1>7
    <3>2. laid.end = past[n]
      BY <1>0, <1>1
    <3>3. laid.writes[k].off = past[k - 1] /\ laid.writes[k].len = c[k] /\ c[k] \in Nat
      BY <1>4, <1>6
    <3> QED BY <3>1, <3>2, <3>3
  <2>2. ASSUME NEW k \in 1..n, NEW j \in 1..(k - 1)
        PROVE  laid.writes[j].off + laid.writes[j].len =< laid.writes[k].off
    <3>1. j \in 1..n /\ j =< k - 1
      OBVIOUS
    <3>2. past[j] =< past[k - 1]
      BY <1>5, <1>7, <3>1
    <3> QED BY <1>6, <1>7, <3>1, <3>2
  <2> QED BY <1>6, <2>1, <2>2 DEF InLine
<1>9. laid.end = past[n] /\ n \in 0..n
  BY <1>0, <1>1
<1>10. past[0] = from /\ \A k \in 1..n : past[k] = past[k - 1] + parts[k][1]
  BY <1>3, <1>4 DEF Runs
<1>11. laid.end \in Nat /\ laid.end >= from
  BY <1>5, <1>9
<1>12. \A k \in 1..n : laid.writes[k].off = past[k - 1] /\ laid.writes[k].len = parts[k][1]
  BY <1>4, <1>6
<1>13. LaidOut(parts, n, from, laid)
  BY <1>6, <1>8, <1>9, <1>10, <1>11, <1>12 DEF LaidOut
<1> QED BY <1>13 DEF laid

\* Runs of blocks laid end to end: a hole takes none.
LEMMA AddressFacts ==
  ASSUME NEW counts \in Seq(Nat \cup {Hole}), NEW from \in Nat
  PROVE  LET given == Addresses(counts, from)
             a == given.addrs
         IN /\ DOMAIN a = DOMAIN counts /\ Len(a) = Len(counts)
            /\ given.end \in Nat /\ given.end >= from
            /\ \A k \in DOMAIN counts : counts[k] # Hole =>
                 /\ a[k] \in Nat /\ a[k] >= from /\ a[k] + counts[k] =< given.end
                 /\ \A j \in 1..(k - 1) : counts[j] # Hole => a[j] + counts[j] =< a[k]
<1> DEFINE n == Len(counts)
           c == [k \in 1..n |-> IF counts[k] = Hole THEN 0 ELSE counts[k]]
           past == CHOOSE past : past = [k \in 0..Len(counts) |->
                     IF k = 0 THEN from
                     ELSE past[k - 1] + IF counts[k] = Hole THEN 0 ELSE counts[k]]
           given == Addresses(counts, from)
           a == given.addrs
<1>1. /\ a = [k \in DOMAIN counts |-> IF counts[k] = Hole THEN NullAddr ELSE past[k - 1]]
      /\ given.end = past[Len(counts)]
  BY DEF Addresses
<1>0. n \in Nat /\ DOMAIN counts = 1..n /\ \A k \in 1..n : counts[k] \in Nat \cup {Hole}
  BY LenProperties, ElementOfSeq
<1>2. past = [k \in 0..n |-> IF k = 0 THEN from
                ELSE past[k - 1] + IF counts[k] = Hole THEN 0 ELSE counts[k]]
  <2>0. n \in Nat
    BY <1>0
  <2> HIDE DEF c, n
  <2>1. PICK g : Totals(g, c, n, from)
    BY <2>0, RunsExist
  <2>2. g = [k \in 0..n |-> IF k = 0 THEN from
              ELSE g[k - 1] + IF counts[k] = Hole THEN 0 ELSE counts[k]]
    <3>1. \A k \in 0..n : k # 0 => c[k] = IF counts[k] = Hole THEN 0 ELSE counts[k]
      BY <2>0 DEF c
    <3>2. \A k \in 0..n : g[k] = IF k = 0 THEN from
              ELSE g[k - 1] + IF counts[k] = Hole THEN 0 ELSE counts[k]
      BY <2>1, <3>1 DEF Totals
    <3> QED BY <2>1, <3>2 DEF Totals
  <2>3. \E f : f = [k \in 0..n |-> IF k = 0 THEN from
              ELSE f[k - 1] + IF counts[k] = Hole THEN 0 ELSE counts[k]]
    BY <2>2
  <2> QED BY <2>3 DEF n
<1> HIDE DEF past, given, n
<1>3. Runs(past, c, n, from)
  BY <1>0, <1>2 DEF Runs
<1>4. \A k \in 1..n : /\ c[k] \in Nat
                      /\ counts[k] # Hole => c[k] = counts[k]
  BY <1>0
<1> HIDE DEF c
<1>5. /\ \A k \in 0..n : past[k] \in Nat /\ past[k] >= from
      /\ \A j, k \in 0..n : j =< k => past[j] =< past[k]
  BY <1>0, <1>3, <1>4, RunFacts
<1>6. \A k \in 1..n : k - 1 \in 0..n /\ k \in 0..n /\ past[k] = past[k - 1] + c[k]
  BY <1>0, <1>3 DEF Runs
<1>7. ASSUME NEW k \in 1..n, counts[k] # Hole
      PROVE  /\ a[k] = past[k - 1] /\ a[k] \in Nat /\ a[k] >= from
             /\ a[k] + counts[k] = past[k] /\ past[k] =< past[n]
  <2>1. a[k] = past[k - 1]
    BY <1>0, <1>1, <1>7
  <2>2. past[k] =< past[n]
    BY <1>0, <1>5, <1>6
  <2> QED BY <1>4, <1>5, <1>6, <1>7, <2>1, <2>2
<1>8. ASSUME NEW k \in 1..n, counts[k] # Hole, NEW j \in 1..(k - 1), counts[j] # Hole
      PROVE  a[j] + counts[j] =< a[k]
  <2>1. j \in 1..n /\ j =< k - 1
    BY <1>0
  <2>2. past[j] =< past[k - 1]
    BY <1>5, <1>6, <2>1
  <2> QED BY <1>7, <1>8, <2>1, <2>2
<1>9. DOMAIN a = DOMAIN counts /\ Len(a) = n
  BY <1>0, <1>1
<1>10. given.end = past[n] /\ n \in 0..n
  BY <1>0, <1>1 DEF n
<1> HIDE DEF a
<1> QED BY <1>0, <1>5, <1>7, <1>8, <1>9, <1>10 DEF given, n, a

\* A sequence is one over its own elements; what is said below of sequences
\* needs no set that their elements are from.
LEMMA OwnSeq ==
  ASSUME NEW W, NEW f \in Seq(W)
  PROVE  IsSeq(f)
<1> DEFINE S == {f[k] : k \in DOMAIN f}
<1>1. Len(f) \in Nat /\ DOMAIN f = 1..Len(f) /\ f = [k \in 1..Len(f) |-> f[k]]
  BY LenProperties
<1>2. \A k \in 1..Len(f) : f[k] \in S
  BY <1>1
<1> HIDE DEF S
<1>3. [k \in 1..Len(f) |-> f[k]] \in Seq(S)
  BY <1>1, <1>2
<1>4. f \in Seq(S)
  BY <1>1, <1>3
<1> QED BY <1>4 DEF IsSeq, S

\* A sequence over its own elements is one over any set that holds them.
LEMMA SeqIn ==
  ASSUME NEW s, IsSeq(s), NEW W, \A k \in DOMAIN s : s[k] \in W
  PROVE  s \in Seq(W)
<1>1. Len(s) \in Nat /\ DOMAIN s = 1..Len(s) /\ s = [k \in 1..Len(s) |-> s[k]]
  BY LenProperties DEF IsSeq
<1>2. [k \in 1..Len(s) |-> s[k]] \in Seq(W)
  BY <1>1
<1> QED BY <1>1, <1>2

\* Its length and domain.
LEMMA SeqFacts ==
  ASSUME NEW s, IsSeq(s)
  PROVE  Len(s) \in Nat /\ DOMAIN s = 1..Len(s)
  BY LenProperties DEF IsSeq

\* One sequence behind another: each element is of the first or of the second.
LEMMA JoinFacts ==
  ASSUME NEW s, NEW t, IsSeq(s), IsSeq(t)
  PROVE  /\ IsSeq(s \o t) /\ Len(s \o t) = Len(s) + Len(t)
         /\ DOMAIN (s \o t) = 1..(Len(s) + Len(t))
         /\ \A k \in 1..(Len(s) + Len(t)) :
              \/ k \in DOMAIN s /\ (s \o t)[k] = s[k]
              \/ k > Len(s) /\ k - Len(s) \in DOMAIN t /\ (s \o t)[k] = t[k - Len(s)]
<1> DEFINE W == {s[k] : k \in DOMAIN s} \cup {t[k] : k \in DOMAIN t}
           u == s \o t
<1>1. s \in Seq(W) /\ t \in Seq(W)
  BY SeqIn
<1>2. u \in Seq(W) /\ Len(u) = Len(s) + Len(t)
      /\ \A k \in 1..Len(u) : u[k] = IF k =< Len(s) THEN s[k] ELSE t[k - Len(s)]
  <2> HIDE DEF W
  <2> QED BY <1>1, ConcatProperties
<1>3. Len(s) \in Nat /\ Len(t) \in Nat /\ DOMAIN s = 1..Len(s) /\ DOMAIN t = 1..Len(t)
  BY SeqFacts
<1>4. Len(u) \in Nat /\ DOMAIN u = 1..Len(u) /\ u = [k \in 1..Len(u) |-> u[k]]
  <2> HIDE DEF W, u
  <2> QED BY <1>2, LenProperties
<1>5. IsSeq(u)
  <2> HIDE DEF u, W
  <2> QED BY <1>2, OwnSeq
<1>6. ASSUME NEW k \in 1..(Len(s) + Len(t))
      PROVE  \/ k \in DOMAIN s /\ u[k] = s[k]
             \/ k > Len(s) /\ k - Len(s) \in DOMAIN t /\ u[k] = t[k - Len(s)]
  <2> HIDE DEF u, W
  <2>1. CASE k =< Len(s)
    BY <1>2, <1>3, <2>1
  <2>2. CASE ~(k =< Len(s))
    BY <1>2, <1>3, <2>2
  <2> QED BY <2>1, <2>2
<1> QED BY <1>2, <1>4, <1>5, <1>6
-----------------------------------------------------------------------------
\* What is kept of the writes is in line when they are, those left out aside.
LEMMA FilledLine ==
  ASSUME NEW s, IsSeq(s), NEW from, NEW to,
         \A k \in DOMAIN s : s[k].len > 0 =>
           /\ s[k].off \in Nat /\ s[k].len \in Nat
           /\ s[k].off >= from /\ s[k].off + s[k].len =< to
           /\ \A j \in 1..(k - 1) : s[j].len > 0 => s[j].off + s[j].len =< s[k].off
  PROVE  /\ IsSeq(Filled(s)) /\ InLine(Filled(s), from, to)
         /\ \A j \in DOMAIN Filled(s) : \E k \in DOMAIN s : Filled(s)[j] = s[k]
<1> DEFINE W == {s[k] : k \in DOMAIN s}
           f == Filled(s)
<1>1. f \in Seq(W) /\ Picks(f, s)
  <2>1. s \in Seq(W)
    BY DEF IsSeq
  <2> HIDE DEF W
  <2> QED BY <2>1, FilledFacts
<1>2. Len(f) \in Nat /\ DOMAIN f = 1..Len(f) /\ f = [k \in 1..Len(f) |-> f[k]]
  <2> HIDE DEF W, f
  <2> QED BY <1>1, LenProperties
<1> HIDE DEF f, W
<1>3. IsSeq(f)
  BY <1>1, OwnSeq
<1>4. PICK pos \in [1..Len(f) -> 1..Len(s)] :
        /\ \A j \in 1..Len(f) : f[j] = s[pos[j]] /\ s[pos[j]].len > 0
        /\ \A i, j \in 1..Len(f) : i < j => pos[i] < pos[j]
  BY <1>1 DEF Picks
<1>5. DOMAIN s = 1..Len(s) /\ Len(s) \in Nat
  BY SeqFacts
<1>6. \A j \in DOMAIN f : pos[j] \in DOMAIN s /\ f[j] = s[pos[j]] /\ s[pos[j]].len > 0
  BY <1>2, <1>4, <1>5
<1>7. ASSUME NEW k \in DOMAIN f, NEW j \in 1..(k - 1)
      PROVE  f[j].off + f[j].len =< f[k].off
  <2>1. j \in DOMAIN f /\ j < k
    BY <1>2
  <2>2. pos[j] < pos[k]
    BY <1>2, <1>4, <2>1
  <2>3. pos[j] \in 1..(pos[k] - 1)
    BY <1>5, <1>6, <2>1, <2>2
  <2> QED BY <1>6, <2>1, <2>3
<1>8. InLine(f, from, to)
  BY <1>6, <1>7 DEF InLine
<1> QED BY <1>3, <1>6, <1>8 DEF f

\* Writes in line behind all the others leave them apart.
LEMMA LineApart ==
  ASSUME NEW s, NEW t, NEW from \in Nat, NEW to \in Nat, from =< to,
         Placed(s), Apart(s), EndsBy(s, from), IsSeq(t), InLine(t, from, to)
  PROVE  Placed(s \o t) /\ Apart(s \o t) /\ EndsBy(s \o t, to)
<1> DEFINE u == s \o t
           n == Len(s)
<1>1. /\ IsSeq(u) /\ DOMAIN u = 1..(n + Len(t)) /\ n \in Nat /\ Len(t) \in Nat
      /\ DOMAIN s = 1..n /\ DOMAIN t = 1..Len(t)
      /\ \A k \in DOMAIN u :
           \/ k \in DOMAIN s /\ u[k] = s[k]
           \/ k > n /\ k - n \in DOMAIN t /\ u[k] = t[k - n]
  BY JoinFacts, SeqFacts DEF Placed
<1> HIDE DEF u, n
<1>2. \A k \in DOMAIN u : u[k].off \in Nat /\ u[k].len \in Nat /\ u[k].off + u[k].len =< to
  <2> TAKE k \in DOMAIN u
  <2>1. CASE k \in DOMAIN s /\ u[k] = s[k]
    <3>1. s[k].off \in Nat /\ s[k].len \in Nat /\ s[k].off + s[k].len =< from
      BY <2>1 DEF Placed, EndsBy
    <3> QED BY <2>1, <3>1
  <2>2. CASE k > n /\ k - n \in DOMAIN t /\ u[k] = t[k - n]
    BY <2>2 DEF InLine
  <2> QED BY <1>1, <2>1, <2>2
<1>3. ASSUME NEW k \in DOMAIN u, NEW j \in 1..(k - 1)
      PROVE  ~Overlap(u[j].off, u[j].len, u[k].off, u[k].len)
  <2>0. j \in DOMAIN u /\ j < k /\ k \in Nat /\ j \in Nat
    BY <1>1
  <2>1. CASE k \in DOMAIN s /\ u[k] = s[k]
    <3>1. j \in DOMAIN s /\ u[j] = s[j]
      BY <1>1, <2>0, <2>1
    <3> QED BY <2>1, <3>1 DEF Apart
  <2>2. CASE k > n /\ k - n \in DOMAIN t /\ u[k] = t[k - n]
    <3>1. u[j].off + u[j].len =< u[k].off
      <4>1. CASE j \in DOMAIN s /\ u[j] = s[j]
        <5>1. s[j].off + s[j].len =< from /\ t[k - n].off >= from
              /\ s[j].off \in Nat /\ s[j].len \in Nat /\ t[k - n].off \in Nat
          BY <2>2, <4>1 DEF EndsBy, InLine, Placed
        <5> QED BY <2>2, <4>1, <5>1
      <4>2. CASE j > n /\ j - n \in DOMAIN t /\ u[j] = t[j - n]
        <5>1. j - n \in 1..((k - n) - 1)
          BY <1>1, <2>0, <4>2
        <5> QED BY <2>2, <4>2, <5>1 DEF InLine
      <4> QED BY <1>1, <2>0, <4>1, <4>2
    <3> QED BY <1>2, <2>0, <3>1 DEF Overlap
  <2> QED BY <1>1, <2>1, <2>2
<1> QED BY <1>1, <1>2, <1>3 DEF Placed, Apart, EndsBy, u

\* The entries of a directory, as far as their size goes.
Named(entries) ==
  IsSeq(entries) /\ \A k \in DOMAIN entries : Len(entries[k].name) \in Nat

\* The bytes of the names and of the entries from one to another.
LEMMA NamesFacts ==
  ASSUME NEW entries, Named(entries), NEW from \in Nat \ {0}, NEW to \in Nat,
         from - 1 =< to, to =< Len(entries)
  PROVE  /\ NameBytes(entries, from, to) \in Nat
         /\ to = from - 1 => NameBytes(entries, from, to) = 0
         /\ to = from => NameBytes(entries, from, to) = Len(entries[from].name)
<1> DEFINE n == to - from + 1
           c == [k \in 1..n |-> Len(entries[from + k - 1].name)]
           upto == CHOOSE upto : upto = [k \in 0..(to - from + 1) |->
                     IF k = 0 THEN 0
                     ELSE upto[k - 1] + Len(entries[from + k - 1].name)]
<1>1. n \in Nat /\ n \in 0..n /\ NameBytes(entries, from, to) = upto[n]
  BY DEF NameBytes
<1>2. \A k \in 1..n : from + k - 1 \in DOMAIN entries
  BY SeqFacts DEF Named
<1>3. \A k \in 1..n : c[k] \in Nat /\ c[k] = Len(entries[from + k - 1].name)
  BY <1>2 DEF Named
<1>4. upto = [k \in 0..n |-> IF k = 0 THEN 0
                             ELSE upto[k - 1] + Len(entries[from + k - 1].name)]
  <2> HIDE DEF c, n
  <2>1. PICK g : Totals(g, c, n, 0)
    BY <1>1, RunsExist
  <2>2. \A k \in 0..n : k # 0 => c[k] = Len(entries[from + k - 1].name)
    BY <1>1, <1>3
  <2>3. \A k \in 0..n : g[k] = IF k = 0 THEN 0
                               ELSE g[k - 1] + Len(entries[from + k - 1].name)
    BY <2>1, <2>2 DEF Totals
  <2>4. g = [k \in 0..n |-> IF k = 0 THEN 0
                            ELSE g[k - 1] + Len(entries[from + k - 1].name)]
    BY <2>1, <2>3 DEF Totals
  <2>5. \E f : f = [k \in 0..n |-> IF k = 0 THEN 0
                            ELSE f[k - 1] + Len(entries[from + k - 1].name)]
    BY <2>4
  <2> QED BY <2>5 DEF n
<1> HIDE DEF upto
<1>5. Runs(upto, c, n, 0)
  <2> HIDE DEF n
  <2> QED BY <1>1, <1>3, <1>4 DEF Runs
<1>6. upto[n] \in Nat
  <2> HIDE DEF n, c
  <2> QED BY <1>1, <1>3, <1>5, RunFacts
<1>7. to = from - 1 => upto[n] = 0
  BY <1>5 DEF Runs
<1>8. ASSUME to = from PROVE upto[n] = Len(entries[from].name)
  <2>1. n = 1 /\ upto[1] = upto[0] + c[1] /\ upto[0] = 0
    BY <1>5, <1>8 DEF Runs
  <2>2. c[1] \in Nat /\ c[1] = Len(entries[from].name)
    BY <1>3, <1>8
  <2> QED BY <2>1, <2>2
<1> QED BY <1>1, <1>6, <1>7, <1>8

\* The bytes of entries: none take none, and one takes its record and its name.
LEMMA BytesFacts ==
  ASSUME NEW entries, Named(entries), NEW from \in Nat \ {0}, NEW to \in Nat,
         from - 1 =< to, to =< Len(entries)
  PROVE  /\ EntryBytes(entries, from, to) \in Nat
         /\ to = from - 1 => EntryBytes(entries, from, to) = 0
         /\ to = from => EntryBytes(entries, from, to) = DirentSize + Len(entries[from].name)
<1>1. DirentSize \in Nat /\ DirBlockSize \in Nat
  BY DirBlockAssumption
<1> DEFINE c == to - from + 1
           b == NameBytes(entries, from, to)
<1>2. c \in Nat /\ b \in Nat
  BY NamesFacts
<1>3. EntryBytes(entries, from, to) = c * DirentSize + b
  BY DEF EntryBytes
<1>4. to = from - 1 => c = 0 /\ b = 0
  BY NamesFacts
<1>5. to = from => c = 1 /\ b = Len(entries[from].name)
  BY NamesFacts
<1> HIDE DEF c, b
<1> QED BY <1>1, <1>2, <1>3, <1>4, <1>5

\* A block takes at least the entry it begins with.
LEMMA BlockEndFacts ==
  ASSUME NEW entries, Named(entries), Packable(entries), NEW from \in DOMAIN entries
  PROVE  BlockEnd(entries, from) \in from..Len(entries)
<1> DEFINE Full(to) == to < Len(entries) => EntryBytes(entries, from, to + 1) > DirBlockSize
           Fits(to) == EntryBytes(entries, from, to) =< DirBlockSize
           T == {to \in Nat : to \in (from - 1)..Len(entries) /\ Full(to)}
<1>0. /\ Len(entries) \in Nat /\ from \in Nat \ {0} /\ from =< Len(entries)
      /\ DirBlockSize \in Nat
  BY SeqFacts, DirBlockAssumption DEF Named
<1>1. Len(entries) \in T
  BY <1>0
<1>2. PICK to \in T : \A y \in T : ~(y < to)
  <2> HIDE DEF T
  <2>1. T \in SUBSET Nat
    BY DEF T
  <2> QED BY <1>1, <2>1, NatMin
<1>9. to \in Nat /\ from - 1 =< to /\ to =< Len(entries)
  BY <1>0, <1>2
<1>10. /\ EntryBytes(entries, from, to) \in Nat
       /\ to = from - 1 => EntryBytes(entries, from, to) = 0
  <2> HIDE DEF T
  <2> QED BY <1>0, <1>9, BytesFacts
<1>11. EntryBytes(entries, from, from) \in Nat
  <2> HIDE DEF T
  <2>1. from - 1 =< from /\ from =< Len(entries)
    BY <1>0
  <2> QED BY <1>0, <2>1, BytesFacts
<1>3. Fits(to)
  <2>1. CASE to = from - 1
    BY <1>0, <1>10, <2>1
  <2>2. CASE to # from - 1
    <3> DEFINE less == to - 1
    <3>1. less \in Nat /\ less \in (from - 1)..Len(entries) /\ less < Len(entries)
          /\ less < to /\ less + 1 = to /\ to \in Nat
      BY <1>0, <1>2, <2>2
    <3> HIDE DEF less
    <3>2. ~Full(less)
      <4> HIDE DEF Full
      <4> QED BY <1>2, <3>1
    <3>3. ~(EntryBytes(entries, from, to) > DirBlockSize)
      BY <3>1, <3>2
    <3> QED BY <1>0, <1>10, <3>3
  <2> QED BY <2>1, <2>2
<1>4. \E e \in (from - 1)..Len(entries) : Fits(e) /\ Full(e)
  <2> HIDE DEF Fits, Full
  <2> QED BY <1>2, <1>3
<1> DEFINE end == BlockEnd(entries, from)
<1>5. end \in (from - 1)..Len(entries) /\ Full(end)
  BY <1>4 DEF BlockEnd
<1>6. end # from - 1
  <2> SUFFICES ASSUME end = from - 1 PROVE FALSE
    OBVIOUS
  <2> HIDE DEF end
  <2>1. end + 1 = from /\ end < Len(entries)
    BY <1>0
  <2>2. EntryBytes(entries, from, from) > DirBlockSize
    BY <1>5, <2>1
  <2>3. EntryBytes(entries, from, from) =< DirBlockSize
    BY DEF Packable
  <2> QED BY <1>0, <1>11, <2>2, <2>3
<1> HIDE DEF end
<1>7. end \in from..Len(entries)
  BY <1>0, <1>5, <1>6
<1> QED BY <1>7 DEF end
-----------------------------------------------------------------------------
\* The blocks from an entry on, from those further back, g.
Pack(g, entries, from) ==
  IF from > Len(entries) THEN <<>>
  ELSE <<SubSeq(entries, from, BlockEnd(entries, from))>>
       \o g[BlockEnd(entries, from) + 1]

\* Entries that can be packed are packed from the last block back.
LEMMA PackExists ==
  ASSUME NEW entries, Named(entries), Packable(entries)
  PROVE  \E g : g = [from \in 1..(Len(entries) + 1) |-> Pack(g, entries, from)]
<1> DEFINE l == Len(entries)
           R(m) == (l + 1 - m)..(l + 1)
           To(m) == \E g : g = [from \in R(m) |-> Pack(g, entries, from)]
           S == {m \in Nat : m =< l => To(m)}
<1>0. l \in Nat /\ DOMAIN entries = 1..l
  BY SeqFacts DEF Named
<1>1. 0 \in S
  <2> DEFINE g == [from \in R(0) |-> <<>>]
  <2>1. \A from \in R(0) : from = l + 1 /\ from > Len(entries)
    BY <1>0
  <2>2. g = [from \in R(0) |-> Pack(g, entries, from)]
    BY <2>1 DEF Pack
  <2> HIDE DEF g, R
  <2> QED BY <2>2
<1>2. ASSUME NEW m \in S PROVE m + 1 \in S
  <2>0. m \in Nat /\ m + 1 \in Nat
    OBVIOUS
  <2> SUFFICES ASSUME m + 1 =< l PROVE To(m + 1)
    BY <2>0
  <2>1. PICK g : g = [from \in R(m) |-> Pack(g, entries, from)]
    BY <1>0, <2>0
  <2> DEFINE h == [from \in R(m + 1) |-> Pack(g, entries, from)]
  <2>2. ASSUME NEW from \in R(m + 1), ~(from > l)
        PROVE  BlockEnd(entries, from) + 1 \in R(m)
    <3>1. from \in DOMAIN entries
      BY <1>0, <2>0, <2>2
    <3>2. BlockEnd(entries, from) \in from..l
      BY <3>1, BlockEndFacts
    <3> HIDE DEF l
    <3> QED BY <1>0, <2>0, <2>2, <3>2
  <2>3. \A from \in R(m) : h[from] = g[from]
    <3>1. \A from \in R(m) : from \in R(m + 1)
      BY <1>0, <2>0
    <3> HIDE DEF R
    <3> QED BY <2>1, <3>1
  <2>4. ASSUME NEW from \in R(m + 1)
        PROVE  h[from] = Pack(h, entries, from)
    <3>1. CASE from > l
      BY <3>1 DEF Pack
    <3>2. CASE ~(from > l)
      <4> DEFINE to == BlockEnd(entries, from) + 1
      <4>1. h[to] = g[to]
        BY <2>2, <2>3, <3>2
      <4>2. h[from] = Pack(g, entries, from)
        OBVIOUS
      <4> HIDE DEF R, h
      <4> QED BY <4>1, <4>2 DEF Pack
    <3> QED BY <3>1, <3>2
  <2>5. h = [from \in R(m + 1) |-> Pack(h, entries, from)]
    <3>1. \A from \in R(m + 1) : h[from] = Pack(h, entries, from)
      BY <2>4
    <3> HIDE DEF R
    <3> QED BY <3>1
  <2> HIDE DEF h, R
  <2> QED BY <2>5
<1>3. S = Nat
  <2> HIDE DEF S
  <2>1. S \in SUBSET Nat
    BY DEF S
  <2> QED BY <1>1, <1>2, <2>1, NatInd
<1>4. To(l)
  BY <1>0, <1>3
<1>5. R(l) = 1..(Len(entries) + 1)
  BY <1>0
<1> HIDE DEF R
<1> QED BY <1>4, <1>5

\* A packing is a sequence of blocks.
LEMMA PackingFacts ==
  ASSUME NEW entries, Named(entries), Packable(entries)
  PROVE  IsSeq(Packing(entries))
<1> DEFINE l == Len(entries)
           q == CHOOSE q : q = [from \in 1..(Len(entries) + 1) |-> Pack(q, entries, from)]
           R(m) == (l + 1 - m)..(l + 1)
           Right(m) == \A from \in R(m) : IsSeq(q[from])
           S == {m \in Nat : m =< l => Right(m)}
<1>0. l \in Nat /\ DOMAIN entries = 1..l
  BY SeqFacts DEF Named
<1>1. Packing(entries) = q[1]
  BY DEF Packing, Pack
<1>2. q = [from \in 1..(Len(entries) + 1) |-> Pack(q, entries, from)]
  BY PackExists
<1> HIDE DEF q
<1>3. \A from \in 1..(l + 1) : q[from] = Pack(q, entries, from)
  BY <1>2
<1>4. IsSeq(<<>>)
  BY DEF IsSeq
<1>5. 0 \in S
  <2>1. \A from \in R(0) : from \in 1..(l + 1) /\ from > Len(entries)
    BY <1>0
  <2>2. \A from \in R(0) : q[from] = <<>>
    BY <1>3, <2>1 DEF Pack
  <2> HIDE DEF R
  <2> QED BY <1>4, <2>2
<1>6. ASSUME NEW m \in S PROVE m + 1 \in S
  <2>0. m \in Nat /\ m + 1 \in Nat
    OBVIOUS
  <2> SUFFICES ASSUME m + 1 =< l PROVE Right(m + 1)
    BY <2>0
  <2>1. \A from \in R(m) : IsSeq(q[from])
    BY <1>0, <2>0
  <2> SUFFICES ASSUME NEW from \in R(m + 1) PROVE IsSeq(q[from])
    OBVIOUS
  <2>2. CASE from \in R(m)
    BY <2>1, <2>2
  <2>3. CASE ~(from \in R(m))
    <3> DEFINE to == BlockEnd(entries, from) + 1
               b == <<SubSeq(entries, from, BlockEnd(entries, from))>>
    <3>1. from \in DOMAIN entries /\ ~(from > l) /\ from \in 1..(l + 1)
      BY <1>0, <2>0, <2>3
    <3>2. BlockEnd(entries, from) \in from..l
      BY <3>1, BlockEndFacts
    <3>3. to \in R(m)
      <4> HIDE DEF l
      <4> QED BY <1>0, <2>0, <3>2
    <3>4. q[from] = b \o q[to]
      <4> HIDE DEF R
      <4> QED BY <1>3, <3>1 DEF Pack
    <3>5. IsSeq(b)
      <4> HIDE DEF R
      <4>1. b \in Seq({b[1]})
        OBVIOUS
      <4> HIDE DEF b
      <4> QED BY <4>1, OwnSeq
    <3>6. IsSeq(q[to])
      BY <2>1, <3>3
    <3> HIDE DEF b, to, R
    <3> QED BY <3>4, <3>5, <3>6, JoinFacts
  <2> QED BY <2>2, <2>3
<1>7. S = Nat
  <2> HIDE DEF S
  <2>1. S \in SUBSET Nat
    BY DEF S
  <2> QED BY <1>5, <1>6, <2>1, NatInd
<1>8. Right(l) /\ 1 \in R(l)
  BY <1>0, <1>7
<1> HIDE DEF R
<1> QED BY <1>1, <1>8

\* A set of children that LexLess orders by their names.
Sortable(C) ==
  /\ IsFiniteSet(C)
  /\ \A a \in C : ~LexLess(a.name, a.name)
  /\ \A a, b \in C : a # b => LexLess(a.name, b.name) \/ LexLess(b.name, a.name)
  /\ \A a, b, c \in C :
       LexLess(a.name, b.name) /\ LexLess(b.name, c.name) => LexLess(a.name, c.name)

\* As many children sort before one as its place says: each place is taken.
LEMMA InOrderFacts ==
  ASSUME NEW C, Sortable(C)
  PROVE  /\ IsSeq(InOrder(C))
         /\ \A k \in DOMAIN InOrder(C) : InOrder(C)[k] \in C
         /\ Len(InOrder(C)) = Cardinality(C)
         /\ \A c \in C : \E k \in DOMAIN InOrder(C) : InOrder(C)[k] = c
<1> DEFINE Before(c) == {d \in C : LexLess(d.name, c.name)}
           n == Cardinality(C)
           Rank(c) == Cardinality(Before(c))
           r == [c \in C |-> Rank(c)]
<1>1. IsFiniteSet(C) /\ n \in Nat
  BY FS_CardinalityType DEF Sortable
<1>2. ASSUME NEW c \in C
      PROVE  IsFiniteSet(Before(c)) /\ Rank(c) \in Nat /\ Rank(c) < n
  <2>1. Before(c) \in SUBSET C /\ c \notin Before(c)
    BY DEF Sortable
  <2> DEFINE B == Before(c)
  <2>2. B \in SUBSET C /\ B # C
    BY <2>1
  <2> HIDE DEF B
  <2>3. IsFiniteSet(B) /\ Cardinality(B) =< Cardinality(C) /\ Cardinality(C) # Cardinality(B)
    BY <1>1, <2>2, FS_Subset
  <2>4. Cardinality(B) \in Nat
    BY <2>3, FS_CardinalityType
  <2> QED BY <1>1, <2>3, <2>4 DEF B
<1>3. ASSUME NEW a \in C, NEW b \in C, LexLess(a.name, b.name)
      PROVE  Rank(a) # Rank(b)
  <2> DEFINE A == Before(a)
             B == Before(b)
  <2>1. A \subseteq B /\ a \in B /\ a \notin A
    BY <1>3 DEF Sortable
  <2>2. IsFiniteSet(B)
    BY <1>2
  <2> HIDE DEF A, B
  <2>3. Cardinality(A) # Cardinality(B)
    BY <2>1, <2>2, FS_Subset
  <2> QED BY <2>3 DEF A, B
<1> HIDE DEF Before
<1>4. ASSUME NEW a \in C, NEW b \in C, r[a] = r[b]
      PROVE  a = b
  <2>1. Rank(a) = Rank(b)
    BY <1>4
  <2> HIDE DEF Rank
  <2> QED BY <1>3, <2>1 DEF Sortable
<1> DEFINE T == 0..(n - 1)
<1>5. r \in [C -> T]
  <2>1. \A c \in C : Rank(c) \in T
    BY <1>1, <1>2
  <2> HIDE DEF Rank, T
  <2> QED BY <2>1
<1>6. r \in Injection(C, T)
  <2> HIDE DEF r, T
  <2> QED BY <1>4, <1>5, Fun_IsInj
<1>7. IsFiniteSet(T) /\ Cardinality(T) = n
  <2>1. 0 \in Int /\ n - 1 \in Int
    BY <1>1
  <2>2. IsFiniteSet(T) /\ Cardinality(T) = IF 0 > n - 1 THEN 0 ELSE (n - 1) - 0 + 1
    BY <2>1, FS_Interval
  <2> HIDE DEF T, n
  <2> QED BY <1>1, <2>2
<1>8. \A t \in T : \E c \in C : r[c] = t
  <2> HIDE DEF r, T
  <2>1. r \in Surjection(C, T)
    BY <1>6, <1>7, FS_Injection
  <2> QED BY <2>1, Fun_SurjectionProperties
<1> DEFINE f == [i \in 1..n |-> CHOOSE c \in C : Rank(c) = i - 1]
<1>9. InOrder(C) = f
  BY DEF InOrder, Before
<1>10. \A i \in 1..n : f[i] \in C
  <2> TAKE i \in 1..n
  <2>1. i - 1 \in T
    BY <1>1
  <2> HIDE DEF Rank, T
  <2>2. \E c \in C : Rank(c) = i - 1
    BY <1>8, <2>1
  <2> QED BY <2>2
<1>14. \A c \in C : \E i \in 1..n : f[i] = c
  <2> TAKE c \in C
  <2>1. PICK i \in 1..n : i - 1 = r[c]
    <3>1. PICK t \in T : t = r[c]
      BY <1>5
    <3>2. t + 1 \in 1..n /\ (t + 1) - 1 = t
      BY <1>1
    <3> QED BY <3>1, <3>2
  <2>2. f[i] = CHOOSE e \in C : Rank(e) = i - 1
    OBVIOUS
  <2>3. \A e \in C : r[e] = Rank(e)
    OBVIOUS
  <2> HIDE DEF Rank, T, r, n, f
  <2>4. f[i] \in C /\ r[f[i]] = r[c]
    BY <2>1, <2>2, <2>3
  <2> QED BY <1>4, <2>4
<1>11. f \in Seq(C)
  <2> DEFINE V(i) == CHOOSE c \in C : Rank(c) = i - 1
  <2>1. \A i \in 1..n : V(i) \in C
    BY <1>10
  <2> HIDE DEF V, Rank, n
  <2>2. [i \in 1..n |-> V(i)] \in Seq(C)
    BY <1>1, <2>1
  <2> QED BY <2>2 DEF V
<1> HIDE DEF f, n
<1>12. IsSeq(f)
  BY <1>11, OwnSeq
<1>13. DOMAIN f = 1..n
  BY DEF f
<1>15. Len(f) = n
  BY <1>1, <1>12, <1>13, SeqFacts
<1> QED BY <1>9, <1>10, <1>12, <1>13, <1>14, <1>15 DEF n

\* What a plan is, and its nodes.
LEMMA PlanFacts ==
  ASSUME NEW p, IsFlattened(p)
  PROVE  /\ Len(p) \in Nat \ {0} /\ DOMAIN p = 1..Len(p)
         /\ \A i \in DOMAIN p : IsNode(p[i])
<1> DEFINE S == {p[i] : i \in DOMAIN p}
<1>1. p \in Seq(S) /\ p # <<>> /\ \A i \in DOMAIN p : IsNode(p[i])
  BY DEF IsFlattened
<1> HIDE DEF S
<1>2. Len(p) \in Nat /\ DOMAIN p = 1..Len(p)
  BY <1>1, LenProperties
<1>3. Len(p) # 0
  BY <1>1, EmptySeq
<1> QED BY <1>1, <1>2, <1>3

\* What an inode and its trailers take.
LEMMA SpanFacts ==
  ASSUME NEW n, IsNode(n)
  PROVE  /\ BodySize(n) \in {32, 64} /\ n.xattr \in Nat /\ TailBytes(n) \in Nat
         /\ MapBytes(n) \in Nat /\ EntrySize(n) \in {4, 8} /\ ZmapBytes(n) \in Nat
         /\ BodySpan(n) \in Nat /\ BodySpan(n) >= 32
         /\ BodySpan(n) = BodySize(n) + n.xattr + TailBytes(n) + MapBytes(n) + ZmapBytes(n)
<1>1. BodySize(n) \in {32, 64} /\ n.xattr \in Nat
  BY DEF BodySize, ExtendedSize, CompactSize, IsNode
<1>2. TailBytes(n) \in Nat
  BY DEF TailBytes, Inlined, IsNode
<1>3. EntrySize(n) \in {4, 8}
  BY DEF EntrySize
<1>4. MapBytes(n) \in Nat
  <2>1. n.kind = "chunked" => Len(n.chunks) \in Nat
    BY LenProperties DEF IsNode
  <2> QED BY <1>3, <2>1 DEF MapBytes
<1>5. ZmapBytes(n) \in Nat
  BY DEF ZmapBytes, IsNode
<1>6. BodySpan(n) = BodySize(n) + n.xattr + TailBytes(n) + MapBytes(n) + ZmapBytes(n)
  BY DEF BodySpan
<1> HIDE DEF BodySpan
<1> QED BY <1>1, <1>2, <1>3, <1>4, <1>5, <1>6

\* The parts of a file, in blocks, hold the parts it stores, in bytes.
LEMMA PartFacts ==
  ASSUME NEW n, IsNode(n), n.kind \in {"chunked", "compressed"}
  PROVE  /\ Parts(n) \in Seq(Nat \cup {Hole})
         /\ DOMAIN StoredParts(n) = DOMAIN Parts(n) /\ IsSeq(StoredParts(n))
         /\ n.kind = "chunked" => Len(Parts(n)) = Len(n.chunks)
         /\ \A k \in DOMAIN Parts(n) :
              /\ StoredParts(n)[k] \in Int
              /\ StoredParts(n)[k] > 0 =>
                   Parts(n)[k] # Hole /\ StoredParts(n)[k] =< Parts(n)[k] * BlockSize
<1>1. CASE n.kind = "chunked"
  <2> DEFINE s == n.chunks
             B(c) == IF s[c] = Hole THEN Hole ELSE ChunkBlocks(s[c])
             m == Len(s)
  <2>1. s \in Seq(Nat \cup {Hole})
    BY <1>1 DEF IsNode
  <2> HIDE DEF s
  <2>2. m \in Nat /\ DOMAIN s = 1..m /\ \A c \in 1..m : s[c] \in Nat \cup {Hole}
    BY <2>1, LenProperties, ElementOfSeq
  <2>3. Parts(n) = [c \in 1..m |-> B(c)]
    BY <1>1, <2>2 DEF Parts, s
  <2>4. StoredParts(n) = s
    BY <1>1 DEF StoredParts, Inlined, s
  <2>5. ASSUME NEW c \in 1..m
        PROVE  /\ B(c) \in Nat \cup {Hole} /\ s[c] \in Int
               /\ s[c] > 0 => B(c) # Hole /\ s[c] =< B(c) * BlockSize
    <3>1. CASE s[c] = Hole
      BY <3>1 DEF Hole
    <3>2. CASE s[c] = 0 /\ s[c] # Hole
      BY <3>2 DEF ChunkBlocks, Hole
    <3>3. CASE s[c] # 0 /\ s[c] # Hole
      <4> DEFINE l == s[c]
      <4>1. l \in Nat /\ B(c) = CeilDiv(l, BlockSize)
        BY <2>2, <3>3 DEF ChunkBlocks
      <4> HIDE DEF l
      <4>2. CeilDiv(l, BlockSize) \in Nat /\ CeilDiv(l, BlockSize) * BlockSize >= l
        <5>1. BlockSize > 0
          BY Blocks
        <5> QED BY <4>1, <5>1, Blocks, Ceiling
      <4>3. CeilDiv(l, BlockSize) # Hole /\ BlockSize \in Nat
        BY <4>2, Blocks DEF Hole
      <4> HIDE DEF B
      <4>4. CeilDiv(l, BlockSize) * BlockSize \in Int
        BY <4>2, <4>3
      <4> QED BY <4>1, <4>2, <4>3, <4>4 DEF l
    <3> QED BY <3>1, <3>2, <3>3
  <2>6. Parts(n) \in Seq(Nat \cup {Hole}) /\ Len(Parts(n)) = m
    <3> HIDE DEF B, m
    <3>1. [c \in 1..m |-> B(c)] \in Seq(Nat \cup {Hole})
      BY <2>2, <2>5
    <3>2. Len([c \in 1..m |-> B(c)]) = m
      BY <2>2
    <3> QED BY <2>3, <3>1, <3>2
  <2>7. IsSeq(s)
    BY <2>1, OwnSeq
  <2>8. DOMAIN Parts(n) = 1..m /\ \A c \in 1..m : Parts(n)[c] = B(c)
    <3> HIDE DEF B, m
    <3> QED BY <2>3
  <2> HIDE DEF B
  <2> QED BY <1>1, <2>2, <2>4, <2>5, <2>6, <2>7, <2>8 DEF s
<1>2. CASE n.kind = "compressed"
  <2> DEFINE s == n.blocks
             m == Len(s)
             V(k) == IF k = Len(n.blocks) /\ TailPacked(n) THEN 0 ELSE n.blocks[k]
             W(k) == PclusterBlocks(n)[k] * BlockSize
  <2>1. s \in Seq(Nat)
    BY <1>2 DEF IsNode
  <2> HIDE DEF s
  <2>2. m \in Nat /\ DOMAIN s = 1..m /\ \A k \in 1..m : s[k] \in Nat
    BY <2>1, LenProperties, ElementOfSeq
  <2>3. Parts(n) = PclusterBlocks(n) /\ PclusterBlocks(n) = [k \in 1..m |-> V(k)]
    BY <1>2, <2>2 DEF Parts, PclusterBlocks, s
  <2>4. StoredParts(n) = [k \in 1..m |-> W(k)]
    BY <1>2, <2>2 DEF StoredParts, Inlined, s
  <2>5. \A k \in 1..m : V(k) \in Nat
    BY <2>2 DEF s
  <2> HIDE DEF V, m
  <2>6. PclusterBlocks(n) \in Seq(Nat) /\ DOMAIN PclusterBlocks(n) = 1..m
        /\ \A k \in 1..m : PclusterBlocks(n)[k] = V(k)
    BY <2>2, <2>3, <2>5
  <2>7. \A k \in 1..m : W(k) \in Nat /\ W(k) = PclusterBlocks(n)[k] * BlockSize
                        /\ PclusterBlocks(n)[k] \in Nat /\ PclusterBlocks(n)[k] # Hole
    <3>1. \A a \in Nat : a * BlockSize \in Nat /\ a # Hole
      BY Blocks DEF Hole
    <3> QED BY <2>5, <2>6, <3>1
  <2> HIDE DEF W
  <2>8. StoredParts(n) \in Seq(Nat) /\ DOMAIN StoredParts(n) = 1..m
        /\ \A k \in 1..m : StoredParts(n)[k] = W(k)
    BY <2>2, <2>4, <2>7
  <2>9. Parts(n) \in Seq(Nat \cup {Hole})
    <3>1. [k \in 1..m |-> V(k)] \in Seq(Nat \cup {Hole})
      BY <2>2, <2>5
    <3> QED BY <2>3, <3>1
  <2>10. IsSeq(StoredParts(n))
    BY <2>8, OwnSeq
  <2> QED BY <1>2, <2>3, <2>6, <2>7, <2>8, <2>9, <2>10
<1> QED BY <1>1, <1>2

\* The children of a directory, as entries, are in the order of the nodes.
LEMMA ChildrenFacts ==
  ASSUME NEW p, IsFlattened(p), NEW i \in DOMAIN p, p[i].kind = "dir", NEW rec,
         \A c \in p[i].children : rec[c].name = c.name
  PROVE  Sortable({rec[c] : c \in p[i].children})
<1> DEFINE cs == p[i].children
           N == {c.node : c \in cs}
           C == {rec[c] : c \in cs}
           Of(j) == CHOOSE c \in cs : c.node = j
           f == [j \in N |-> rec[Of(j)]]
<1>1. /\ N \subseteq Nat /\ N \in SUBSET (1..Len(p))
      /\ \A c, d \in cs : c.node < d.node <=> LexLess(c.name, d.name)
      /\ \A c, d \in cs : c # d => c.node # d.node
  <2>1. /\ N = {j \in 2..Len(p) : p[j].parent = i}
        /\ \A c, d \in cs :
             /\ c.node < d.node <=> LexLess(c.name, d.name)
             /\ c # d => c.node # d.node
    BY DEF IsFlattened
  <2>2. Len(p) \in Nat
    BY PlanFacts
  <2> HIDE DEF N, cs
  <2>3. N \subseteq Nat /\ N \in SUBSET (1..Len(p))
    BY <2>1, <2>2
  <2> QED BY <2>1, <2>3
<1>2. IsFiniteSet(N)
  <2>1. IsFiniteSet(1..Len(p))
    <3>1. PICK l \in Int : l = Len(p)
      BY PlanFacts
    <3>2. 1 \in Int
      OBVIOUS
    <3>3. IsFiniteSet(1..l)
      BY <3>2, FS_Interval
    <3> QED BY <3>1, <3>3
  <2> HIDE DEF N
  <2> QED BY <1>1, <2>1, FS_Subset
<1>3. \A c \in cs : c.node \in N /\ c.node \in Nat /\ Of(c.node) = c
  <2> TAKE c \in cs
  <2>1. c.node \in N
    OBVIOUS
  <2>2. \E d \in cs : d.node = c.node
    OBVIOUS
  <2>3. Of(c.node) \in cs /\ Of(c.node).node = c.node
    BY <2>2
  <2> HIDE DEF Of, N
  <2> QED BY <1>1, <2>1, <2>3
<1> HIDE DEF Of
<1>4. f \in [N -> C]
  <2>1. \A j \in N : rec[Of(j)] \in C
    BY <1>3
  <2> HIDE DEF N, C
  <2> QED BY <2>1
<1>5. \A e \in C : \E j \in N : f[j] = e
  BY <1>3
<1>6. IsFiniteSet(C)
  <2> HIDE DEF N, C, f
  <2>1. f \in Surjection(N, C)
    BY <1>4, <1>5, Fun_IsSurj
  <2> QED BY <1>2, <2>1, FS_Surjection
<1>7. \A e \in C : \E c \in cs : e = rec[c] /\ e.name = c.name
  OBVIOUS
<1> HIDE DEF C, N, cs
<1>8. ASSUME NEW a \in C PROVE ~LexLess(a.name, a.name)
  BY <1>1, <1>3, <1>7
<1>9. ASSUME NEW a \in C, NEW b \in C, a # b
      PROVE  LexLess(a.name, b.name) \/ LexLess(b.name, a.name)
  <2>1. PICK c \in cs : a = rec[c] /\ a.name = c.name
    BY <1>7
  <2>2. PICK d \in cs : b = rec[d] /\ b.name = d.name
    BY <1>7
  <2>3. c # d
    BY <1>9, <2>1, <2>2
  <2>4. c.node # d.node /\ c.node \in Nat /\ d.node \in Nat
    BY <1>1, <1>3, <2>3
  <2>5. c.node < d.node \/ d.node < c.node
    BY <2>4
  <2> QED BY <1>1, <2>1, <2>2, <2>5
<1>10. ASSUME NEW a \in C, NEW b \in C, NEW c \in C,
              LexLess(a.name, b.name), LexLess(b.name, c.name)
       PROVE  LexLess(a.name, c.name)
  <2>1. PICK x \in cs : a.name = x.name
    BY <1>7
  <2>2. PICK y \in cs : b.name = y.name
    BY <1>7
  <2>3. PICK z \in cs : c.name = z.name
    BY <1>7
  <2>4. x.node < y.node /\ y.node < z.node
    BY <1>1, <1>10, <2>1, <2>2, <2>3
  <2>5. x.node < z.node
    BY <1>3, <2>4
  <2> QED BY <1>1, <2>1, <2>3, <2>5
<1> QED BY <1>6, <1>8, <1>9, <1>10 DEF Sortable, C, cs

\* An entry names the directory, its parent, or a child, and has its NID.
Leads(i, e) ==
  \/ e.name = DotName /\ e.nid = Nid(i)
  \/ e.name = DotDotName /\ e.nid = Nid(plan[i].parent)
  \/ \E c \in plan[i].children : e.name = c.name /\ e.nid = Nid(c.node)

\* A directory's entries can be packed, but for a name no block could hold.
LEMMA EntriesFacts ==
  ASSUME IsFlattened(plan), NEW i \in DOMAIN plan, plan[i].kind = "dir"
  PROVE  /\ Named(DirEntries(i))
         /\ ~Packable(DirEntries(i)) =>
              \E c \in plan[i].children : Len(c.name) > BlockSize - DirentSize
         /\ Len(DirEntries(i)) >= 2
         /\ \A k \in DOMAIN DirEntries(i) : Leads(i, DirEntries(i)[k])
<1> DEFINE cs == plan[i].children
           rec == [c \in cs |-> [name |-> c.name, nid |-> Nid(c.node),
                                 ft |-> TypeByte(plan[c.node])]]
           C == {rec[c] : c \in cs}
           dots == <<[name |-> DotName, nid |-> Nid(i), ft |-> "dir"],
                     [name |-> DotDotName, nid |-> Nid(plan[i].parent), ft |-> "dir"]>>
           es == DirEntries(i)
           tail == InOrder(C)
<1>1. \A c \in cs : rec[c].name = c.name
  OBVIOUS
<1>2. es = dots \o tail
  <2>1. {[name |-> c.name, nid |-> Nid(c.node), ft |-> TypeByte(plan[c.node])] :
           c \in plan[i].children} = C
    OBVIOUS
  <2> HIDE DEF C
  <2> QED BY <2>1 DEF DirEntries, AllEntries
<1>3. Sortable(C)
  <2> HIDE DEF rec
  <2> QED BY <1>1, ChildrenFacts
<1>4. \A e \in C : \E c \in cs : e.name = c.name /\ e.nid = Nid(c.node)
  <2>1. \A c \in cs : rec[c].name = c.name /\ rec[c].nid = Nid(c.node)
    OBVIOUS
  <2> HIDE DEF rec
  <2> QED BY <2>1
<1>5. IsNode(plan[i]) /\ \A c \in cs : Len(c.name) \in Nat
  <2>1. IsNode(plan[i])
    BY PlanFacts
  <2>2. \A c \in cs : c.name \in Seq(0..255)
    BY <2>1 DEF IsNode
  <2> QED BY <2>1, <2>2, LenProperties
<1>6. IsSeq(dots) /\ Len(dots) = 2 /\ DOMAIN dots = 1..2
      /\ Len(dots[1].name) = 1 /\ Len(dots[2].name) = 2
      /\ dots[1].name = DotName /\ dots[1].nid = Nid(i)
      /\ dots[2].name = DotDotName /\ dots[2].nid = Nid(plan[i].parent)
  <2>1. dots \in Seq({dots[1], dots[2]})
    OBVIOUS
  <2>2. IsSeq(dots)
    <3> HIDE DEF dots
    <3> QED BY <2>1, OwnSeq
  <2> QED BY <2>2 DEF DotName, DotDotName
<1> HIDE DEF C, dots
<1>7. IsSeq(tail) /\ \A k \in DOMAIN tail : tail[k] \in C
  BY <1>3, InOrderFacts
<1> HIDE DEF tail
<1>8. /\ IsSeq(es) /\ DOMAIN es = 1..Len(es) /\ Len(es) \in Nat /\ Len(es) >= 2
      /\ \A k \in DOMAIN es : \/ k \in DOMAIN dots /\ es[k] = dots[k]
                              \/ k - 2 \in DOMAIN tail /\ es[k] = tail[k - 2]
  <2>1. Len(tail) \in Nat
    BY <1>7, SeqFacts
  <2> DEFINE u == dots \o tail
             l == Len(tail)
  <2>2. /\ IsSeq(u) /\ Len(u) = 2 + l /\ DOMAIN u = 1..(2 + l)
        /\ \A k \in 1..(2 + l) :
             \/ k \in DOMAIN dots /\ u[k] = dots[k]
             \/ k > 2 /\ k - 2 \in DOMAIN tail /\ u[k] = tail[k - 2]
    <3>1. /\ IsSeq(u) /\ Len(u) = Len(dots) + l /\ DOMAIN u = 1..(Len(dots) + l)
          /\ \A k \in 1..(Len(dots) + l) :
               \/ k \in DOMAIN dots /\ u[k] = dots[k]
               \/ k > Len(dots) /\ k - Len(dots) \in DOMAIN tail /\ u[k] = tail[k - Len(dots)]
      <4>1. IsSeq(dots) /\ IsSeq(tail)
        BY <1>6, <1>7
      <4> HIDE DEF rec, cs, es
      <4> QED BY <4>1, JoinFacts
    <3>2. Len(dots) = 2
      BY <1>6
    <3> HIDE DEF u, l, rec, cs, es
    <3> QED BY <3>1, <3>2
  <2>3. es = u
    BY <1>2
  <2> HIDE DEF es, u, l
  <2>4. Len(u) \in Nat /\ DOMAIN u = 1..Len(u)
    BY <2>2, SeqFacts
  <2> QED BY <2>1, <2>2, <2>3, <2>4 DEF l
<1> HIDE DEF es
<1>9. ASSUME NEW k \in DOMAIN es
      PROVE  /\ Len(es[k].name) \in Nat
             /\ Len(es[k].name) > 2 => \E c \in cs : es[k].name = c.name
  <2>1. CASE k \in DOMAIN dots /\ es[k] = dots[k]
    <3>1. k = 1 \/ k = 2
      BY <1>6, <2>1
    <3> DEFINE x == Len(es[k].name)
    <3>2. x = 1 \/ x = 2
      <4> HIDE DEF rec, cs
      <4> QED BY <1>6, <2>1, <3>1
    <3> HIDE DEF x
    <3>3. x \in Nat /\ ~(x > 2)
      BY <3>2
    <3> QED BY <3>3 DEF x
  <2>2. CASE k - 2 \in DOMAIN tail /\ es[k] = tail[k - 2]
    <3>1. PICK c \in cs : es[k].name = c.name
      BY <1>4, <1>7, <2>2
    <3> QED BY <1>5, <3>1
  <2> QED BY <1>8, <2>1, <2>2
<1>10. Named(es)
  BY <1>8, <1>9 DEF Named
<1>11. ASSUME ~Packable(es) PROVE \E c \in cs : Len(c.name) > BlockSize - DirentSize
  <2>1. PICK k \in DOMAIN es : ~(EntryBytes(es, k, k) =< DirBlockSize)
    BY <1>11 DEF Packable
  <2> DEFINE x == Len(es[k].name)
  <2>2. EntryBytes(es, k, k) = DirentSize + x
    <3>1. k \in Nat \ {0} /\ k \in Nat /\ k - 1 =< k /\ k =< Len(es)
      BY <1>8
    <3> QED BY <1>10, <3>1, BytesFacts
  <2>3. x \in Nat /\ (x > 2 => \E c \in cs : es[k].name = c.name)
    BY <1>9
  <2>4. DirentSize = 12 /\ DirBlockSize = BlockSize
    BY ImageLayoutAssumption, ImagePlanAssumption
  <2> HIDE DEF x
  <2>5. x > BlockSize - DirentSize /\ x > 2
    BY <2>1, <2>2, <2>3, <2>4, Blocks
  <2>6. PICK c \in cs : es[k].name = c.name
    BY <2>3, <2>5
  <2> QED BY <2>5, <2>6 DEF x
<1>12. ASSUME NEW k \in DOMAIN es PROVE Leads(i, es[k])
  <2>1. CASE k \in DOMAIN dots /\ es[k] = dots[k]
    <3>1. k = 1 \/ k = 2
      BY <1>6, <2>1
    <3> HIDE DEF rec, cs
    <3> QED BY <1>6, <2>1, <3>1 DEF Leads
  <2>2. CASE k - 2 \in DOMAIN tail /\ es[k] = tail[k - 2]
    <3>1. \E c \in cs : es[k].name = c.name /\ es[k].nid = Nid(c.node)
      BY <1>4, <1>7, <2>2
    <3> QED BY <3>1 DEF Leads
  <2> QED BY <1>8, <2>1, <2>2
<1> QED BY <1>8, <1>10, <1>11, <1>12 DEF es
-----------------------------------------------------------------------------
(***************************************************************************)
(* What a step keeps of the places given.                                  *)
(***************************************************************************)
\* A line that never falls lies between its ends.
LEMMA Rising ==
  ASSUME NEW m \in Nat, NEW f \in [1..(m + 1) -> Nat],
         \A i \in 1..m : f[i] =< f[i + 1]
  PROVE  \A i \in 1..(m + 1) : f[1] =< f[i] /\ f[i] =< f[m + 1]
<1> DEFINE g == [k \in 0..m |-> f[k + 1]]
           c == [k \in 1..m |-> f[k + 1] - f[k]]
<1>1. \A k \in 1..(m + 1) : f[k] \in Nat
  OBVIOUS
<1>2. \A k \in 1..m : c[k] \in Nat /\ c[k] = f[k + 1] - f[k]
  <2> TAKE k \in 1..m
  <2>1. k \in 1..(m + 1) /\ k + 1 \in 1..(m + 1) /\ f[k] =< f[k + 1]
    OBVIOUS
  <2>2. f[k] \in Nat /\ f[k + 1] \in Nat
    BY <1>1, <2>1
  <2> QED BY <2>1, <2>2
<1>3. Runs(g, c, m, f[1])
  <2>1. g[0] = f[1]
    OBVIOUS
  <2>2. ASSUME NEW k \in 1..m PROVE g[k] = g[k - 1] + c[k]
    <3>1. g[k] = f[k + 1] /\ g[k - 1] = f[k]
      OBVIOUS
    <3>2. f[k] \in Nat /\ f[k + 1] \in Nat
      BY <1>1
    <3> QED BY <1>2, <3>1, <3>2
  <2> HIDE DEF g, c
  <2> QED BY <2>1, <2>2 DEF Runs
<1>4. f[1] \in Nat
  BY <1>1
<1>5. \A k \in 0..m : g[k] = f[k + 1]
  OBVIOUS
<1> HIDE DEF g, c
<1>6. \A j, k \in 0..m : j =< k => g[j] =< g[k]
  BY <1>2, <1>3, <1>4, RunFacts
<1>7. ASSUME NEW i \in 1..(m + 1) PROVE f[1] =< f[i] /\ f[i] =< f[m + 1]
  <2>1. 0 \in 0..m /\ i - 1 \in 0..m /\ m \in 0..m /\ 0 =< i - 1 /\ i - 1 =< m
    OBVIOUS
  <2>2. g[0] =< g[i - 1] /\ g[i - 1] =< g[m]
    BY <1>6, <2>1
  <2>3. g[0] = f[1] /\ g[i - 1] = f[i] /\ g[m] = f[m + 1]
    BY <1>5, <2>1
  <2> QED BY <2>2, <2>3
<1> QED BY <1>7

\* A slot, and where it ends.
LEMMA SlotFacts ==
  ASSUME SlotsRight, NEW j \in DOMAIN slots
  PROVE  /\ slots[j].start \in Nat /\ slots[j].span \in Nat
         /\ SlotEnd(slots[j]) \in Nat /\ SlotEnd(slots[j]) = slots[j].start + slots[j].span
         /\ Len(slots) \in Nat /\ DOMAIN slots = 1..Len(slots)
<1> DEFINE W == [start : Nat, span : Nat]
<1>1. slots \in Seq(W)
  BY DEF SlotsRight
<1> HIDE DEF W
<1>2. slots[j] \in W /\ Len(slots) \in Nat /\ DOMAIN slots = 1..Len(slots)
  BY <1>1, LenProperties, ElementOfSeq
<1> QED BY <1>2 DEF W, SlotEnd

\* Inodes have NIDs of their own.
LEMMA NidFacts ==
  ASSUME plan \in Plans, SlotsRight, NEW j \in DOMAIN slots, NEW i \in DOMAIN slots, i # j
  PROVE  Nid(i) # Nid(j)
<1>1. IsFlattened(plan)
  BY ImageLayoutAssumption
<1>2. ASSUME NEW a \in DOMAIN slots, NEW b \in DOMAIN slots, a < b
      PROVE  Nid(a) # Nid(b)
  <2>1. a \in 1..(b - 1) /\ a \in DOMAIN plan
    <3>1. Len(slots) \in Nat /\ DOMAIN slots = 1..Len(slots)
      BY SlotFacts
    <3>2. Len(plan) \in Nat /\ DOMAIN plan = 1..Len(plan)
      BY <1>1, PlanFacts
    <3>3. Len(slots) =< Len(plan)
      BY DEF SlotsRight, Nodes
    <3> QED BY <1>2, <3>1, <3>2, <3>3
  <2>2. SlotEnd(slots[a]) =< slots[b].start /\ slots[a].span = BodySpan(plan[a])
    BY <2>1 DEF SlotsRight
  <2>3. BodySpan(plan[a]) >= 32
    BY <1>1, <2>1, PlanFacts, SpanFacts
  <2> DEFINE x == slots[a].start
             y == slots[b].start
  <2>4. x \in Nat /\ y \in Nat /\ x + 32 =< y
    BY <2>2, <2>3, SlotFacts, SMTT(30)
  <2>5. Nid(a) = x \div 32 /\ Nid(b) = y \div 32
    BY DEF Nid, CompactSize
  <2> HIDE DEF x, y
  <2>6. x \div 32 < y \div 32
    BY <2>4
  <2>7. x \div 32 \in Nat /\ y \div 32 \in Nat
    BY <2>4
  <2> QED BY <2>5, <2>6, <2>7
<1>3. i \in Nat /\ j \in Nat
  BY SlotFacts
<1> QED BY <1>2, <1>3

\* What a step that plans nothing leaves as it was.
LEMMA Kept ==
  ASSUME UNCHANGED planned
  PROVE  /\ SlotsRight' <=> SlotsRight
         /\ \A f, m : DirsLie(f, m)' <=> DirsLie(f, m)
         /\ \A g, m : DataLies(g, m)' <=> DataLies(g, m)
         /\ \A b : Behind(b)' <=> Behind(b)
         /\ Nodes' = Nodes
<1>1. /\ plan' = plan /\ slots' = slots /\ packed' = packed
      /\ blockOf' = blockOf /\ addrsOf' = addrsOf
  BY DEF planned
<1>2. Nodes' = Nodes /\ (SlotsRight' <=> SlotsRight)
  BY <1>1 DEF Nodes, SlotsRight, SlotEnd
<1>3. \A i : Nid(i)' = Nid(i)
  BY <1>1 DEF Nid
<1>4. \A f, m : DirsLie(f, m)' <=> DirsLie(f, m)
  BY <1>1, <1>3 DEF DirsLie
<1>5. \A i, p : StoredAt(i, p)' = StoredAt(i, p)
  BY <1>1, <1>3 DEF StoredAt
<1>6. \A i, from, to : PartsLie(i, from, to)' <=> PartsLie(i, from, to)
  BY <1>1, <1>5 DEF PartsLie
<1>7. \A g, m : DataLies(g, m)' <=> DataLies(g, m)
  BY <1>1, <1>3, <1>6 DEF DataLies
<1>8. \A b : Behind(b)' <=> Behind(b)
  BY <1>1 DEF Behind, SlotEnd
<1> QED BY <1>2, <1>4, <1>7, <1>8

\* Where a pass goes after a node.
LEMMA StepFacts ==
  ASSUME NEW p, plan \in Plans, at \in 1..Nodes, Step(p)
  PROVE  /\ Nodes \in Nat \ {0} /\ at' \in 1..Nodes /\ at \in Nat
         /\ \/ at < Nodes /\ at' = at + 1 /\ pass' = pass
            \/ at = Nodes /\ at' = 1 /\ pass' = p
<1>1. Nodes \in Nat \ {0}
  BY ImageLayoutAssumption, PlanFacts DEF Nodes
<1> QED BY <1>1 DEF Step, Nodes
-----------------------------------------------------------------------------
\* The blobs and the superblock, when they fit in front of the metadata.
LEMMA GapFacts ==
  ASSUME blobs \in BlobSizes,
         ~ \E w \in {Cfgs, Dict} : w.len > 0 /\ w.off + w.len > MetaBase
  PROVE  /\ Placed(GapWrites) /\ Apart(GapWrites)
         /\ EndsBy(GapWrites, MetaBase) /\ Sealed(GapWrites)
<1> DEFINE s == <<Cfgs, Dict, Super>>
           W == {Cfgs, Dict, Super}
           f == Filled(s)
           b1 == blobs[1]
           b2 == blobs[2]
           d == CeilTo(SuperEnd + b1, 4)
<1>1. b1 \in Nat /\ b2 \in Nat
  BY ImageLayoutAssumption
<1>2. d \in Nat /\ d >= SuperEnd + b1 /\ SuperEnd = 1152 /\ MetaBase \in Nat
      /\ MetaBase >= 1152
  <2> DEFINE x == SuperEnd + b1
  <2>1. x \in Nat /\ 4 \in Nat /\ 4 > 0
    BY <1>1, MetaFacts
  <2>2. d = CeilTo(x, 4)
    OBVIOUS
  <2> HIDE DEF x, d
  <2>3. CeilTo(x, 4) \in Nat /\ CeilTo(x, 4) >= x
    BY <2>1, Ceiling
  <2> QED BY <2>2, <2>3, MetaFacts DEF x
<1>3. /\ Cfgs.off = 1152 /\ Cfgs.len = b1 /\ Cfgs.what.kind = "cfgs"
      /\ Dict.off = d /\ Dict.len = b2 /\ Dict.what.kind = "dict"
      /\ Super.off = 1024 /\ Super.len = 128 /\ Super.what.kind = "super"
  BY <1>2 DEF Cfgs, Dict, Super, Write, SuperOffset
<1> HIDE DEF b1, b2, d
<1>4. GapWrites = f /\ s \in Seq(W) /\ Len(s) = 3
      /\ s[1] = Cfgs /\ s[2] = Dict /\ s[3] = Super
  BY DEF GapWrites
<1> HIDE DEF W, s
<1>5. f \in Seq(W) /\ Picks(f, s)
  BY <1>4, FilledFacts
<1> HIDE DEF f
<1>6. IsSeq(f) /\ Len(f) \in Nat /\ DOMAIN f = 1..Len(f)
  BY <1>5, OwnSeq, SeqFacts
<1>7. PICK pos \in [1..Len(f) -> 1..3] :
        /\ \A j \in 1..Len(f) : f[j] = s[pos[j]] /\ s[pos[j]].len > 0
        /\ \A i, j \in 1..Len(f) : i < j => pos[i] < pos[j]
  BY <1>4, <1>5 DEF Picks
<1>8. \A j \in DOMAIN f : /\ f[j].len > 0
                          /\ \/ pos[j] = 1 /\ f[j] = Cfgs
                             \/ pos[j] = 2 /\ f[j] = Dict
                             \/ pos[j] = 3 /\ f[j] = Super
  BY <1>4, <1>6, <1>7
<1>9. ASSUME NEW j \in DOMAIN f
      PROVE  f[j].off \in Nat /\ f[j].len \in Nat /\ f[j].off + f[j].len =< MetaBase
  <2>1. CASE f[j] = Cfgs
    BY <1>1, <1>2, <1>3, <1>8, <2>1
  <2>2. CASE f[j] = Dict
    BY <1>1, <1>2, <1>3, <1>8, <2>2
  <2>3. CASE f[j] = Super
    BY <1>1, <1>2, <1>3, <1>8, <2>3
  <2> QED BY <1>8, <2>1, <2>2, <2>3
<1>10. ASSUME NEW k \in DOMAIN f, NEW j \in 1..(k - 1)
       PROVE  ~Overlap(f[j].off, f[j].len, f[k].off, f[k].len)
  <2>1. j \in DOMAIN f /\ pos[j] < pos[k] /\ pos[j] \in 1..3 /\ pos[k] \in 1..3
    BY <1>6, <1>7
  <2>2. CASE f[j] = Cfgs /\ f[k] = Dict
    BY <1>1, <1>2, <1>3, <2>2 DEF Overlap
  <2>3. CASE f[j] = Cfgs /\ f[k] = Super
    BY <1>1, <1>2, <1>3, <2>3 DEF Overlap
  <2>4. CASE f[j] = Dict /\ f[k] = Super
    BY <1>1, <1>2, <1>3, <2>4 DEF Overlap
  <2> QED BY <1>8, <2>1, <2>2, <2>3, <2>4
<1>11. ASSUME NEW k \in DOMAIN f, f[k].what.kind = "super"
       PROVE  (k + 1)..Len(f) = {}
  <2>1. pos[k] = 3
    BY <1>3, <1>8, <1>11
  <2>2. ASSUME NEW j \in (k + 1)..Len(f) PROVE FALSE
    <3>1. j \in 1..Len(f) /\ k \in 1..Len(f) /\ k < j
      BY <1>6
    <3>2. pos[k] < pos[j] /\ pos[j] \in 1..3
      BY <1>7, <3>1
    <3> QED BY <2>1, <3>2
  <2> QED BY <2>2
<1> QED BY <1>4, <1>6, <1>9, <1>10, <1>11 DEF Placed, Apart, EndsBy, Sealed

\* Writes in line behind the superblock leave it as it is.
LEMMA LineSealed ==
  ASSUME NEW s, NEW t, NEW from \in Nat, NEW to \in Nat, from >= MetaBase,
         IsSeq(s), IsSeq(t), InLine(t, from, to), Sealed(s),
         \A k \in DOMAIN t : t[k].what.kind # "super"
  PROVE  Sealed(s \o t)
<1> DEFINE u == s \o t
           n == Len(s)
<1>1. /\ IsSeq(u) /\ DOMAIN u = 1..(n + Len(t)) /\ n \in Nat /\ Len(t) \in Nat
      /\ DOMAIN s = 1..n /\ DOMAIN t = 1..Len(t) /\ Len(u) = n + Len(t)
      /\ \A k \in DOMAIN u :
           \/ k \in DOMAIN s /\ u[k] = s[k]
           \/ k > n /\ k - n \in DOMAIN t /\ u[k] = t[k - n]
  BY JoinFacts, SeqFacts
<1> HIDE DEF u, n
<1>2. ASSUME NEW k \in DOMAIN u, u[k].what.kind = "super", NEW j \in (k + 1)..Len(u)
      PROVE  u[j].off >= MetaBase
  <2>1. k \in DOMAIN s /\ u[k] = s[k]
    BY <1>1, <1>2
  <2>2. j \in DOMAIN u
    BY <1>1
  <2>3. CASE j \in DOMAIN s /\ u[j] = s[j]
    <3>1. j \in (k + 1)..Len(s)
      BY <1>1, <2>3 DEF n
    <3> QED BY <1>2, <2>1, <2>3, <3>1 DEF Sealed
  <2>4. CASE j > n /\ j - n \in DOMAIN t /\ u[j] = t[j - n]
    <3>1. t[j - n].off >= from /\ t[j - n].off \in Nat
      BY <2>4 DEF InLine
    <3> QED BY <2>4, <3>1, MetaFacts
  <2> QED BY <1>1, <2>2, <2>3, <2>4
<1> QED BY <1>2 DEF Sealed, u

\* A step that plans writes nothing.
LEMMA Planned ==
  ASSUME LayoutInv, pass \in Planning, plan' = plan, blobs' = blobs, img' = img,
         pass' \in Planning \cup {"failed"}, at' \in 1..Nodes, next' \in Nat,
         SlotsRight', Placing', FailsForCause'
  PROVE  LayoutInv'
<1>1. img' = <<>>
  BY DEF LayoutInv
<1>2. IsSeq(img)' /\ DOMAIN img' = {} /\ Nodes' = Nodes
  BY <1>1 DEF IsSeq, Nodes
<1>3. Placed(img)' /\ Apart(img)' /\ EndsBy(img, next * BlockSize)' /\ Sealed(img)'
  BY <1>2 DEF Placed, Apart, EndsBy, Sealed
<1>4. pass' # "inodes"
  BY DEF Planning
<1> QED BY <1>1, <1>2, <1>3, <1>4 DEF LayoutInv

\* A build that fails has nothing more to keep than why.
LEMMA Failing ==
  ASSUME LayoutInv, pass \in Planning, plan' = plan, blobs' = blobs, img' = img,
         slots' = slots, at' = at, next' = next, pass' = "failed", FailsForCause'
  PROVE  LayoutInv'
<1>1. SlotsRight'
  BY DEF LayoutInv, SlotsRight, SlotEnd, Nodes
<1>2. Placing'
  BY DEF Placing, Emitting
<1>3. at' \in 1..Nodes /\ next' \in Nat
  BY DEF LayoutInv
<1> QED BY <1>1, <1>2, <1>3, Planned

\* The steps that plan, one by one.
LEMMA FlattenKeeps == LayoutInv /\ Flatten => LayoutInv'
<1> SUFFICES ASSUME LayoutInv, Flatten PROVE LayoutInv'
  OBVIOUS
<1>0. pass = "flatten" /\ UNCHANGED <<planned, at, next, img>> /\ pass \in Planning
  BY DEF Flatten, Planning
<1>00. plan' = plan /\ blobs' = blobs /\ slots' = slots /\ img' = img /\ at' = at /\ next' = next
  BY <1>0 DEF planned
<1>1. CASE \E i \in DOMAIN plan : NamesRefused(plan[i])
  <2>1. pass' = "failed"
    BY <1>1 DEF Flatten, FailFor
  <2>2. PICK i \in DOMAIN plan : NamesRefused(plan[i])
    BY <1>1
  <2>3. plan[i].kind = "dir" /\ \E c \in plan[i].children : NameRefused(c.name)
    BY <2>2 DEF NamesRefused
  <2>4. FailsForCause'
    BY <1>00, <2>3 DEF FailsForCause
  <2> QED BY <1>0, <1>00, <2>1, <2>4, Failing
<1>2. CASE ~ \E i \in DOMAIN plan : NamesRefused(plan[i])
  <2>1. pass' = "bodies"
    BY <1>2 DEF Flatten
  <2>2. SlotsRight' /\ FailsForCause' /\ at' \in 1..Nodes /\ next' \in Nat
    BY <1>0, <1>00, <2>1, Kept DEF LayoutInv, FailsForCause
  <2>3. Placing'
    BY <1>0, <1>00, <2>1 DEF LayoutInv, Placing, Emitting
  <2> QED BY <1>0, <1>00, <2>1, <2>2, <2>3, Planned DEF Planning
<1> QED BY <1>1, <1>2

\* A chunk of the wrong size is what a body is refused for.
LEMMA PlanBodiesKeeps == LayoutInv /\ PlanBodies => LayoutInv'
<1> SUFFICES ASSUME LayoutInv, PlanBodies PROVE LayoutInv'
  OBVIOUS
<1>0. pass = "bodies" /\ UNCHANGED <<planned, at, next, img>> /\ pass \in Planning
  BY DEF PlanBodies, Planning
<1>00. plan' = plan /\ blobs' = blobs /\ slots' = slots /\ img' = img /\ at' = at /\ next' = next
  BY <1>0 DEF planned
<1>1. CASE \E i \in DOMAIN plan : BodyRefused(plan[i])
  <2>1. pass' = "failed"
    BY <1>1 DEF PlanBodies, FailFor
  <2>2. PICK i \in DOMAIN plan : BodyRefused(plan[i])
    BY <1>1
  <2>3. plan[i].kind = "chunked" /\ ChunksRefused(plan[i])
    BY <2>2 DEF BodyRefused
  <2>4. FailsForCause'
    BY <1>00, <2>3 DEF FailsForCause
  <2> QED BY <1>0, <1>00, <2>1, <2>4, Failing
<1>2. CASE ~ \E i \in DOMAIN plan : BodyRefused(plan[i])
  <2>1. pass' = "metadata"
    BY <1>2 DEF PlanBodies
  <2>2. SlotsRight' /\ FailsForCause' /\ at' \in 1..Nodes /\ next' \in Nat
    BY <1>0, <1>00, <2>1, Kept DEF LayoutInv, FailsForCause
  <2>3. slots' = <<>> /\ at' = 1
    BY <1>0, <1>00 DEF LayoutInv, Placing
  <2>4. Placing'
    BY <2>1, <2>3 DEF Placing, Emitting
  <2> QED BY <1>0, <1>00, <2>1, <2>2, <2>4, Planned DEF Planning
<1> QED BY <1>1, <1>2

\* An inode's place begins no earlier than the one before it ends.
LEMMA StartFacts ==
  ASSUME NEW from \in Nat, NEW span, NEW trailers
  PROVE  SlotStart(from, span, trailers) \in Nat /\ SlotStart(from, span, trailers) >= from
<1> DEFINE cursor == CeilTo(from, CompactSize)
<1>1. cursor \in Nat /\ cursor >= from
  <2>1. CompactSize \in Nat /\ CompactSize > 0
    BY DEF CompactSize
  <2> QED BY <2>1, Ceiling
<1>2. SlotStart(from, span, trailers) = cursor
      \/ SlotStart(from, span, trailers) = CeilTo(cursor, BlockSize)
  BY DEF SlotStart
<1> HIDE DEF cursor
<1>3. BlockSize > 0 /\ BlockSize \in Nat
  BY Blocks
<1>4. CeilTo(cursor, BlockSize) \in Nat /\ CeilTo(cursor, BlockSize) >= cursor
  BY <1>1, <1>3, Ceiling
<1> QED BY <1>1, <1>2, <1>4

\* An inode is placed behind those before it.
LEMMA PlaceInodeKeeps == LayoutInv /\ PlaceInode => LayoutInv'
<1> SUFFICES ASSUME LayoutInv, PlaceInode PROVE LayoutInv'
  OBVIOUS
<1> DEFINE n == Len(slots)
           from == IF slots = <<>> THEN 0 ELSE SlotEnd(Last(slots))
           span == BodySpan(Node)
           new == [start |-> SlotStart(from, span, span - BodySize(Node)), span |-> span]
           W == [start : Nat, span : Nat]
           end == SlotEnd(Last(slots'))
           behind == MetaBlkaddr + CeilDiv(CeilTo(end, CompactSize), BlockSize)
<1>0. /\ pass = "metadata" /\ pass \in Planning /\ Step("directories")
      /\ slots' = Append(slots, new)
      /\ next' = IF at < Len(plan) THEN next ELSE behind
      /\ plan' = plan /\ blobs' = blobs /\ packed' = packed /\ blockOf' = blockOf
      /\ addrsOf' = addrsOf /\ img' = img
  BY DEF PlaceInode, Planning
<1>1. /\ plan \in Plans /\ at \in 1..Nodes /\ next \in Nat /\ SlotsRight
      /\ n = at - 1
  BY <1>0 DEF LayoutInv, Placing
<1>2. IsFlattened(plan) /\ at \in DOMAIN plan /\ DOMAIN plan = 1..Nodes
  BY <1>1, ImageLayoutAssumption, PlanFacts DEF Nodes
<1>3. span \in Nat /\ span >= 32
  BY <1>2, PlanFacts, SpanFacts DEF Node
<1>4. slots \in Seq(W) /\ n \in Nat /\ DOMAIN slots = 1..n
  BY <1>1, LenProperties DEF SlotsRight
<1>5. from \in Nat /\ \A i \in DOMAIN slots : SlotEnd(slots[i]) \in Nat /\ SlotEnd(slots[i]) =< from
  <2>1. CASE slots = <<>>
    BY <2>1
  <2>2. CASE slots # <<>>
    <3>1. n \in DOMAIN slots /\ from = SlotEnd(slots[n])
      <4>1. n # 0
        BY <1>4, <2>2, EmptySeq
      <4> QED BY <1>4, <2>2, <4>1 DEF Last
    <3>2. SlotEnd(slots[n]) \in Nat /\ slots[n].start =< SlotEnd(slots[n])
          /\ slots[n].start \in Nat
      BY <1>1, <3>1, SlotFacts
    <3>3. ASSUME NEW i \in DOMAIN slots
          PROVE  SlotEnd(slots[i]) \in Nat /\ SlotEnd(slots[i]) =< from
      <4>1. SlotEnd(slots[i]) \in Nat
        BY <1>1, SlotFacts
      <4>2. CASE i = n
        BY <3>1, <4>1, <4>2
      <4>3. CASE i # n
        <5>1. i \in 1..(n - 1)
          BY <1>4, <4>3
        <5>2. SlotEnd(slots[i]) =< slots[n].start
          BY <1>1, <3>1, <5>1 DEF SlotsRight
        <5> HIDE DEF n, from
        <5> QED BY <3>1, <3>2, <4>1, <5>2
      <4> QED BY <4>2, <4>3
    <3> QED BY <3>1, <3>2, <3>3
  <2> QED BY <2>1, <2>2
<1> HIDE DEF from, span
<1>6. new \in W /\ new.start >= from /\ new.span = span /\ new.start \in Nat
      /\ SlotEnd(new) = new.start + span
  <2>1. SlotStart(from, span, span - BodySize(Node)) \in Nat
        /\ SlotStart(from, span, span - BodySize(Node)) >= from
    BY <1>5, StartFacts
  <2> QED BY <1>3, <2>1 DEF SlotEnd
<1> HIDE DEF new
<1>7. /\ slots' \in Seq(W) /\ Len(slots') = n + 1 /\ DOMAIN slots' = 1..(n + 1)
      /\ slots'[n + 1] = new /\ \A i \in 1..n : slots'[i] = slots[i]
  <2> HIDE DEF W
  <2>1. Append(slots, new) \in Seq(W) /\ Len(Append(slots, new)) = n + 1
        /\ Append(slots, new)[n + 1] = new
        /\ \A i \in 1..n : Append(slots, new)[i] = slots[i]
    BY <1>4, <1>6, AppendProperties
  <2>2. slots' \in Seq(W) /\ Len(slots') = n + 1 /\ slots'[n + 1] = new
        /\ \A i \in 1..n : slots'[i] = slots[i]
    BY <1>0, <2>1
  <2>3. DOMAIN slots' = 1..Len(slots')
    BY <2>2, LenProperties
  <2>4. DOMAIN slots' = 1..(n + 1)
    BY <2>2, <2>3
  <2> HIDE DEF n
  <2> QED BY <2>2, <2>4
<1>8. /\ Nodes' = Nodes /\ Nodes \in Nat \ {0} /\ at' \in 1..Nodes
      /\ \/ at < Nodes /\ at' = at + 1 /\ pass' = "metadata"
         \/ at = Nodes /\ at' = 1 /\ pass' = "directories"
  BY <1>0, <1>1, StepFacts DEF Nodes
<1>9. SlotsRight'
  <2>1. Len(slots') =< Nodes'
    <3> HIDE DEF n
    <3> QED BY <1>1, <1>7, <1>8
  <2>2. ASSUME NEW i \in 1..(n + 1) PROVE slots'[i].span = BodySpan(plan[i])
    <3>1. CASE i = n + 1
      BY <1>1, <1>6, <1>7, <3>1 DEF span, Node
    <3>2. CASE i # n + 1
      <4>1. i \in DOMAIN slots
        BY <1>4, <3>2
      <4>2. slots[i].span = BodySpan(plan[i])
        BY <1>1, <4>1 DEF SlotsRight
      <4>3. slots'[i] = slots[i]
        <5> HIDE DEF W
        <5> QED BY <1>4, <1>7, <4>1
      <4> QED BY <4>2, <4>3
    <3> QED BY <3>1, <3>2
  <2>3. ASSUME NEW j \in 1..(n + 1), NEW i \in 1..(j - 1)
        PROVE  SlotEnd(slots'[i]) =< slots'[j].start
    <3>1. i \in 1..n /\ slots'[i] = slots[i] /\ i \in DOMAIN slots
      <4> HIDE DEF n, W
      <4>1. i \in 1..n
        BY <1>4
      <4> QED BY <1>4, <1>7, <4>1
    <3>2. CASE j = n + 1
      <4>1. SlotEnd(slots[i]) \in Nat /\ SlotEnd(slots[i]) =< from /\ slots'[j] = new
        BY <1>5, <1>7, <3>1, <3>2
      <4> QED BY <1>5, <1>6, <3>1, <4>1
    <3>3. CASE j # n + 1
      <4>1. j \in DOMAIN slots /\ slots'[j] = slots[j]
        <5> HIDE DEF n, W
        <5>1. j \in 1..n
          BY <1>4, <3>3
        <5> QED BY <1>4, <1>7, <5>1
      <4> QED BY <1>1, <3>1, <4>1 DEF SlotsRight
    <3> QED BY <3>2, <3>3
  <2>4. slots' \in Seq([start : Nat, span : Nat])
    BY <1>7
  <2> HIDE DEF n, W
  <2>5. \A i \in DOMAIN slots' : slots'[i].span = BodySpan(plan'[i])
    BY <1>0, <1>7, <2>2
  <2>6. \A j \in DOMAIN slots' : \A i \in 1..(j - 1) : SlotEnd(slots'[i]) =< slots'[j].start
    BY <1>7, <2>3
  <2> QED BY <2>1, <2>4, <2>5, <2>6 DEF SlotsRight, SlotEnd
<1>10. FailsForCause'
  BY <1>8 DEF FailsForCause
<1>11. CASE at < Nodes
  <2>1. at' = at + 1 /\ pass' = "metadata" /\ next' = next
    BY <1>0, <1>8, <1>11 DEF Nodes
  <2>2. Placing'
    <3>1. Len(slots') = at' - 1
      <4> HIDE DEF n
      <4> QED BY <1>1, <1>7, <2>1
    <3> QED BY <2>1, <3>1 DEF Placing, Emitting
  <2> QED BY <1>0, <1>1, <1>8, <1>9, <1>10, <2>1, <2>2, Planned DEF Planning
<1>12. CASE ~(at < Nodes)
  <2>1. at = Nodes /\ at' = 1 /\ pass' = "directories" /\ next' = behind
    BY <1>0, <1>8, <1>12 DEF Nodes
  <2>2. end = SlotEnd(new) /\ end \in Nat /\ end > 0
    <3>1. Last(slots') = new
      BY <1>7 DEF Last
    <3> QED BY <1>3, <1>6, <3>1
  <2> DEFINE e32 == CeilTo(end, CompactSize)
             q == CeilDiv(e32, BlockSize)
  <2>3. e32 \in Nat /\ e32 >= end
    <3> HIDE DEF end
    <3>1. CompactSize \in Nat /\ CompactSize > 0
      BY DEF CompactSize
    <3> QED BY <2>2, <3>1, Ceiling
  <2>4. behind = MetaBlkaddr + q
    OBVIOUS
  <2> HIDE DEF end, e32
  <2>5. q \in Nat /\ q > 0 /\ q * BlockSize >= e32 /\ q * BlockSize \in Nat
    <3>1. BlockSize > 0 /\ BlockSize \in Nat /\ e32 > 0
      BY <2>2, <2>3, Blocks
    <3> QED BY <2>3, <3>1, Ceiling
  <2> HIDE DEF q
  <2>6. /\ next' \in Nat /\ next' >= 2
        /\ next' * BlockSize = MetaBase + q * BlockSize /\ MetaBase \in Nat
    <3>1. (MetaBlkaddr + q) * BlockSize = MetaBlkaddr * BlockSize + q * BlockSize
      BY <2>5, MetaFacts, Added
    <3> HIDE DEF behind
    <3> QED BY <2>1, <2>4, <2>5, <3>1, MetaFacts
  <2>7. ASSUME NEW i \in DOMAIN slots' PROVE MetaBase + SlotEnd(slots'[i]) =< next' * BlockSize
    <3>1. SlotEnd(slots'[i]) \in Nat /\ SlotEnd(slots'[i]) =< end
      <4>1. CASE i = n + 1
        BY <1>7, <2>2, <4>1
      <4>2. CASE i # n + 1
        <5>1. i \in DOMAIN slots /\ slots'[i] = slots[i]
          BY <1>4, <1>7, <4>2
        <5>2. SlotEnd(slots[i]) \in Nat /\ SlotEnd(slots[i]) =< from
          BY <1>5, <5>1
        <5> QED BY <1>3, <1>5, <1>6, <2>2, <5>1, <5>2
      <4> QED BY <4>1, <4>2
    <3> QED BY <2>2, <2>3, <2>5, <2>6, <3>1
  <2>11. PICK f : f = [k \in 1..1 |-> next']
    OBVIOUS
  <2>8. DirsLie(f, 0)' /\ f[1] = next'
    <3>1. f \in [1..(0 + 1) -> Nat] /\ 1..0 = {}
      BY <2>6, <2>11
    <3> QED BY <2>11, <3>1 DEF DirsLie
  <2>9. Behind(f[1])'
    BY <2>7, <2>8 DEF Behind, SlotEnd
  <2>10. Placing'
    <3>1. Len(slots') = Nodes' /\ at' - 1 = 0
      <4> HIDE DEF n
      <4> QED BY <1>1, <1>7, <1>8, <2>1
    <3>2. (\E h : DirsLie(h, at - 1) /\ h[at] = next /\ Behind(h[1]))'
      BY <2>1, <2>8, <2>9, <3>1
    <3> QED BY <2>1, <2>6, <3>1, <3>2 DEF Placing, Emitting
  <2> QED BY <1>0, <1>8, <1>9, <1>10, <2>1, <2>6, <2>10, Planned DEF Planning
<1> QED BY <1>11, <1>12

\* A node of the plan.
LEMMA NodeFacts ==
  ASSUME plan \in Plans, NEW i \in 1..Nodes
  PROVE  /\ IsFlattened(plan) /\ i \in DOMAIN plan /\ IsNode(plan[i])
         /\ Nodes \in Nat \ {0} /\ DOMAIN plan = 1..Nodes
<1>1. IsFlattened(plan)
  BY ImageLayoutAssumption
<1> QED BY <1>1, PlanFacts DEF Nodes

\* So no node is looked up under the NID of another.
LEMMA OwnNid ==
  ASSUME plan \in Plans, SlotsRight, Len(slots) = Nodes,
         NEW i \in 1..Nodes, NEW j \in 1..Nodes, i # j
  PROVE  Nid(i) # Nid(j)
<1>1. Nodes \in Nat
  BY NodeFacts
<1>2. DOMAIN slots = 1..Nodes
  <2> DEFINE W == [start : Nat, span : Nat]
  <2>1. slots \in Seq(W)
    BY DEF SlotsRight
  <2> HIDE DEF W
  <2> QED BY <2>1, LenProperties
<1> QED BY <1>2, NidFacts

\* Node i, if a directory, is given the blocks from a to b.
PlacesDir(i, a, b) ==
  IF plan[i].kind = "dir"
  THEN \E s : /\ IsSeq(s) /\ b = a + Len(s)
              /\ packed' = Put(packed, Nid(i), s)
              /\ blockOf' = Put(blockOf, Nid(i), a)
  ELSE b = a /\ packed' = packed /\ blockOf' = blockOf

\* One more directory is placed, or passed by.
LEMMA DirsGrow ==
  ASSUME NEW i \in 1..Nodes, NEW a \in Nat, NEW b \in Nat, NEW f, NEW m,
         m = i - 1, DirsLie(f, m), f[i] = a,
         plan \in Plans, SlotsRight, Len(slots) = Nodes, plan' = plan, slots' = slots,
         PlacesDir(i, a, b)
  PROVE  \E h : DirsLie(h, i)' /\ h[1] = f[1] /\ h[i + 1] = b
<1> DEFINE h == [k \in 1..(i + 1) |-> IF k = i + 1 THEN b ELSE f[k]]
<1>1. Nodes \in Nat
  BY NodeFacts
<1>2. f \in [1..i -> Nat]
  BY <1>1 DEF DirsLie
<1>3. h \in [1..(i + 1) -> Nat] /\ h[i + 1] = b /\ \A k \in 1..i : h[k] = f[k]
  BY <1>1, <1>2
<1>4. h[1] = f[1]
  BY <1>1, <1>3
<1> HIDE DEF h
<1>5. \A k : Nid(k)' = Nid(k)
  BY DEF Nid
<1>6. ASSUME NEW k \in 1..i
      PROVE  IF plan[k].kind = "dir"
             THEN /\ Nid(k) \in DOMAIN packed' /\ IsSeq(packed'[Nid(k)])
                  /\ Nid(k) \in DOMAIN blockOf' /\ blockOf'[Nid(k)] = h[k]
                  /\ h[k + 1] = h[k] + Len(packed'[Nid(k)])
             ELSE h[k + 1] = h[k]
  <2>1. CASE k = i
    <3>1. h[k] = a /\ h[k + 1] = b
      BY <1>1, <1>3, <2>1
    <3>2. CASE plan[i].kind = "dir"
      <4>1. PICK s : /\ IsSeq(s) /\ b = a + Len(s)
                     /\ packed' = Put(packed, Nid(i), s)
                     /\ blockOf' = Put(blockOf, Nid(i), a)
        BY <3>2 DEF PlacesDir
      <4>2. /\ Nid(i) \in DOMAIN packed' /\ packed'[Nid(i)] = s
            /\ Nid(i) \in DOMAIN blockOf' /\ blockOf'[Nid(i)] = a
        BY <4>1 DEF Put
      <4> QED BY <2>1, <3>1, <3>2, <4>1, <4>2
    <3>3. CASE plan[i].kind # "dir"
      BY <2>1, <3>1, <3>3 DEF PlacesDir
    <3> QED BY <3>2, <3>3
  <2>2. CASE k # i
    <3>1. k \in 1..(i - 1) /\ k \in 1..i /\ k + 1 \in 1..i /\ k \in 1..Nodes
      BY <1>1, <2>2
    <3>2. h[k] = f[k] /\ h[k + 1] = f[k + 1]
      BY <1>3, <3>1
    <3>3. CASE plan[k].kind = "dir"
      <4>1. /\ Nid(k) \in DOMAIN packed /\ IsSeq(packed[Nid(k)])
            /\ Nid(k) \in DOMAIN blockOf /\ blockOf[Nid(k)] = f[k]
            /\ f[k + 1] = f[k] + Len(packed[Nid(k)])
        BY <3>1, <3>3 DEF DirsLie
      <4>2. Nid(k) # Nid(i)
        BY <2>2, <3>1, OwnNid
      <4>3. /\ Nid(k) \in DOMAIN packed' /\ packed'[Nid(k)] = packed[Nid(k)]
            /\ Nid(k) \in DOMAIN blockOf' /\ blockOf'[Nid(k)] = blockOf[Nid(k)]
        <5>1. CASE plan[i].kind = "dir"
          <6>1. PICK s : /\ packed' = Put(packed, Nid(i), s)
                         /\ blockOf' = Put(blockOf, Nid(i), a)
            BY <5>1 DEF PlacesDir
          <6> QED BY <4>1, <4>2, <6>1 DEF Put
        <5>2. CASE plan[i].kind # "dir"
          BY <4>1, <5>2 DEF PlacesDir
        <5> QED BY <5>1, <5>2
      <4> QED BY <3>2, <3>3, <4>1, <4>3
    <3>4. CASE plan[k].kind # "dir"
      BY <3>1, <3>2, <3>4 DEF DirsLie
    <3> QED BY <3>3, <3>4
  <2> QED BY <2>1, <2>2
<1>7. DirsLie(h, i)'
  BY <1>3, <1>5, <1>6 DEF DirsLie
<1> QED BY <1>3, <1>4, <1>7

\* Data that is placed moves no directory.
LEMMA DirsStay ==
  ASSUME NEW i \in 1..Nodes, NEW f, DirsLie(f, Nodes), plan[i].kind # "dir",
         plan \in Plans, SlotsRight, Len(slots) = Nodes, plan' = plan, slots' = slots,
         packed' = packed,
         blockOf' = blockOf \/ \E v : blockOf' = Put(blockOf, Nid(i), v)
  PROVE  DirsLie(f, Nodes)'
<1>1. \A k : Nid(k)' = Nid(k)
  BY DEF Nid
<1>2. ASSUME NEW k \in 1..Nodes, plan[k].kind = "dir"
      PROVE  Nid(k) \in DOMAIN blockOf' /\ blockOf'[Nid(k)] = f[k]
  <2>1. Nid(k) \in DOMAIN blockOf /\ blockOf[Nid(k)] = f[k]
    BY <1>2 DEF DirsLie
  <2>2. Nid(k) # Nid(i)
    BY <1>2, OwnNid
  <2> QED BY <2>1, <2>2 DEF Put
<1>3. Nodes' = Nodes
  BY DEF Nodes
<1> QED BY <1>1, <1>2, <1>3 DEF DirsLie

\* Node i's data is given the blocks from a to b.
PlacesData(i, a, b) ==
  /\ a =< b /\ PartsLie(i, a, b)'
  /\ blockOf' = blockOf \/ \E v : blockOf' = Put(blockOf, Nid(i), v)
  /\ addrsOf' = addrsOf \/ \E v : addrsOf' = Put(addrsOf, Nid(i), v)
  /\ plan[i].kind \in {"file", "symlink"} => Nid(i) \in DOMAIN blockOf'
  /\ plan[i].kind \in {"chunked", "compressed"} => Nid(i) \in DOMAIN addrsOf'
  /\ plan[i].kind = "chunked" => Len(addrsOf'[Nid(i)]) = Len(plan[i].chunks)

\* The data of one more node is placed, and none of those before it moves.
LEMMA DataGrows ==
  ASSUME NEW i \in 1..Nodes, NEW a \in Nat, NEW b \in Nat, NEW g, NEW m,
         m = i - 1, DataLies(g, m), g[i] = a,
         plan \in Plans, SlotsRight, Len(slots) = Nodes, plan' = plan, slots' = slots,
         PlacesData(i, a, b)
  PROVE  \E h : DataLies(h, i)' /\ h[1] = g[1] /\ h[i + 1] = b
<1> DEFINE h == [k \in 1..(i + 1) |-> IF k = i + 1 THEN b ELSE g[k]]
<1>1. Nodes \in Nat
  BY NodeFacts
<1>2. g \in [1..i -> Nat]
  BY <1>1 DEF DataLies
<1>3. h \in [1..(i + 1) -> Nat] /\ h[i + 1] = b /\ \A k \in 1..i : h[k] = g[k]
  BY <1>1, <1>2
<1>4. h[1] = g[1]
  BY <1>1, <1>3
<1> HIDE DEF h
<1>5. \A k : Nid(k)' = Nid(k)
  BY DEF Nid
<1>6. ASSUME NEW k \in 1..(i - 1)
      PROVE  /\ PartsLie(k, g[k], g[k + 1])'
             /\ plan[k].kind \in {"file", "symlink"} => Nid(k) \in DOMAIN blockOf'
             /\ plan[k].kind \in {"chunked", "compressed"} => Nid(k) \in DOMAIN addrsOf'
             /\ plan[k].kind = "chunked" => Len(addrsOf'[Nid(k)]) = Len(plan[k].chunks)
  <2>1. k \in 1..Nodes /\ k # i
    BY <1>1
  <2>2. Nid(k) # Nid(i)
    BY <2>1, OwnNid
  <2>3. Nid(k) \in DOMAIN blockOf =>
          Nid(k) \in DOMAIN blockOf' /\ blockOf'[Nid(k)] = blockOf[Nid(k)]
    BY <2>2 DEF Put, PlacesData
  <2>4. Nid(k) \in DOMAIN addrsOf =>
          Nid(k) \in DOMAIN addrsOf' /\ addrsOf'[Nid(k)] = addrsOf[Nid(k)]
    BY <2>2 DEF Put, PlacesData
  <2>5. /\ PartsLie(k, g[k], g[k + 1])
        /\ plan[k].kind \in {"file", "symlink"} => Nid(k) \in DOMAIN blockOf
        /\ plan[k].kind \in {"chunked", "compressed"} => Nid(k) \in DOMAIN addrsOf
        /\ plan[k].kind = "chunked" => Len(addrsOf[Nid(k)]) = Len(plan[k].chunks)
    BY DEF DataLies
  <2>6. PartsLie(k, g[k], g[k + 1])'
    <3>1. CASE plan[k].kind \in {"file", "symlink", "chunked", "compressed"}
      <4>1. \A p : StoredAt(k, p)' = StoredAt(k, p)
        BY <1>5, <2>3, <2>4, <2>5, <3>1 DEF StoredAt
      <4> QED BY <2>5, <4>1 DEF PartsLie
    <3>2. CASE ~(plan[k].kind \in {"file", "symlink", "chunked", "compressed"})
      <4>1. StoredParts(plan[k]) = <<>>
        BY <3>2 DEF StoredParts
      <4> QED BY <4>1 DEF PartsLie
    <3> QED BY <3>1, <3>2
  <2>7. plan[k].kind = "chunked" => plan[k].kind \in {"chunked", "compressed"}
    OBVIOUS
  <2> QED BY <2>3, <2>4, <2>5, <2>6, <2>7
<1>7. ASSUME NEW k \in 1..i
      PROVE  /\ h[k] =< h[k + 1] /\ PartsLie(k, h[k], h[k + 1])'
             /\ plan[k].kind \in {"file", "symlink"} => Nid(k) \in DOMAIN blockOf'
             /\ plan[k].kind \in {"chunked", "compressed"} => Nid(k) \in DOMAIN addrsOf'
             /\ plan[k].kind = "chunked" => Len(addrsOf'[Nid(k)]) = Len(plan[k].chunks)
  <2>1. CASE k = i
    <3>1. h[k] = a /\ h[k + 1] = b
      BY <1>1, <1>3, <2>1
    <3> QED BY <2>1, <3>1 DEF PlacesData
  <2>2. CASE k # i
    <3>1. k \in 1..(i - 1) /\ k \in 1..i /\ k + 1 \in 1..i
      BY <1>1, <2>2
    <3>2. h[k] = g[k] /\ h[k + 1] = g[k + 1]
      BY <1>3, <3>1
    <3>3. g[k] =< g[k + 1]
      BY <3>1 DEF DataLies
    <3> QED BY <1>6, <3>1, <3>2, <3>3
  <2> QED BY <2>1, <2>2
<1>8. DataLies(h, i)'
  BY <1>3, <1>5, <1>7 DEF DataLies
<1> QED BY <1>3, <1>4, <1>8

\* A directory is placed behind those before it, and behind the inodes.
LEMMA PlaceDirectoryKeeps == LayoutInv /\ PlaceDirectory => LayoutInv'
<1> SUFFICES ASSUME LayoutInv, PlaceDirectory PROVE LayoutInv'
  OBVIOUS
<1> DEFINE entries == DirEntries(at)
<1>0. /\ pass = "directories" /\ pass \in Planning
      /\ plan' = plan /\ blobs' = blobs /\ slots' = slots /\ addrsOf' = addrsOf /\ img' = img
  BY DEF PlaceDirectory, Planning
<1>1. /\ plan \in Plans /\ at \in 1..Nodes /\ next \in Nat /\ SlotsRight
      /\ Len(slots) = Nodes /\ next >= 2
  BY <1>0 DEF LayoutInv, Placing
<1>2. IsFlattened(plan) /\ at \in DOMAIN plan /\ Nodes \in Nat
  BY <1>1, NodeFacts
<1>3. CASE plan[at].kind = "dir" /\ ~Packable(entries)
  <2>1. pass' = "failed" /\ at' = at /\ next' = next
    BY <1>3 DEF PlaceDirectory, FailFor, Node
  <2>2. \E c \in plan[at].children : Len(c.name) > BlockSize - DirentSize
    BY <1>2, <1>3, EntriesFacts
  <2>3. FailsForCause'
    BY <1>0, <1>2, <1>3, <2>2 DEF FailsForCause
  <2> QED BY <1>0, <2>1, <2>3, Failing
<1>4. CASE ~(plan[at].kind = "dir" /\ ~Packable(entries))
  <2>1. PICK i, a : i = at /\ a = next
    OBVIOUS
  <2>2. PICK b : b = next'
    OBVIOUS
  <2>3. Step("data") /\ PlacesDir(i, a, b)
    <3>1. CASE plan[at].kind = "dir"
      <4>1. /\ packed' = Put(packed, Nid(at), Packing(entries))
            /\ blockOf' = Put(blockOf, Nid(at), next)
            /\ next' = next + Len(Packing(entries)) /\ Step("data")
        BY <1>4, <3>1 DEF PlaceDirectory, Node
      <4>2. IsSeq(Packing(entries))
        BY <1>2, <1>4, <3>1, EntriesFacts, PackingFacts
      <4> HIDE DEF entries
      <4> QED BY <2>1, <2>2, <3>1, <4>1, <4>2 DEF PlacesDir
    <3>2. CASE plan[at].kind # "dir"
      BY <2>1, <2>2, <3>2 DEF PlaceDirectory, Node, PlacesDir
    <3> QED BY <3>1, <3>2
  <2> HIDE DEF entries
  <2>4. i \in 1..Nodes /\ a \in Nat /\ b \in Nat /\ b >= 2
    <3>1. CASE plan[i].kind = "dir"
      <4>1. PICK s : IsSeq(s) /\ b = a + Len(s)
        BY <2>3, <3>1 DEF PlacesDir
      <4>2. Len(s) \in Nat
        BY <4>1, SeqFacts
      <4> QED BY <1>1, <2>1, <4>1, <4>2
    <3>2. CASE plan[i].kind # "dir"
      BY <1>1, <2>1, <2>3, <3>2 DEF PlacesDir
    <3> QED BY <3>1, <3>2
  <2>12. PICK m : m = i - 1
    OBVIOUS
  <2>5. PICK f : DirsLie(f, m) /\ f[i] = a /\ Behind(f[1])
    BY <1>0, <2>1, <2>12 DEF LayoutInv, Placing
  <2>6. PICK h : DirsLie(h, i)' /\ h[1] = f[1] /\ h[i + 1] = b
    BY <1>0, <1>1, <2>3, <2>4, <2>5, <2>12, DirsGrow
  <2>7. Behind(h[1])'
    BY <1>0, <2>5, <2>6 DEF Behind, SlotEnd
  <2>8. /\ Nodes' = Nodes /\ at' \in 1..Nodes
        /\ \/ i < Nodes /\ at' = i + 1 /\ pass' = "directories"
           \/ i = Nodes /\ at' = 1 /\ pass' = "data"
    BY <1>0, <1>1, <2>1, <2>3, StepFacts DEF Nodes
  <2>9. SlotsRight'
    BY <1>0, <1>1 DEF SlotsRight, SlotEnd, Nodes
  <2>10. FailsForCause'
    BY <2>8 DEF FailsForCause
  <2>11. Placing'
    <3>1. CASE i < Nodes /\ at' = i + 1 /\ pass' = "directories"
      <4>1. (DirsLie(h, at - 1) /\ h[at] = next /\ Behind(h[1]))'
        <5>1. (i + 1) - 1 = i
          BY <2>4
        <5> QED BY <2>2, <2>6, <2>7, <3>1, <5>1
      <4> QED BY <1>0, <1>1, <2>2, <2>4, <2>8, <3>1, <4>1 DEF Placing, Emitting
    <3>2. CASE i = Nodes /\ at' = 1 /\ pass' = "data"
      <4>1. PICK g : g = [k \in 1..1 |-> b]
        OBVIOUS
      <4>2. DataLies(g, 0)' /\ g[1] = b
        <5>1. g \in [1..(0 + 1) -> Nat] /\ 1..0 = {}
          BY <2>4, <4>1
        <5> QED BY <4>1, <5>1 DEF DataLies
      <4>3. (/\ DirsLie(h, Nodes) /\ Behind(h[1]) /\ g[1] = h[Nodes + 1]
             /\ DataLies(g, at - 1) /\ g[at] = next)'
        <5>1. 1 - 1 = 0
          OBVIOUS
        <5> QED BY <2>2, <2>6, <2>7, <2>8, <3>2, <4>2, <5>1
      <4> QED BY <1>0, <1>1, <2>2, <2>4, <2>8, <3>2, <4>3 DEF Placing, Emitting
    <3> QED BY <2>8, <3>1, <3>2
  <2> QED BY <1>0, <2>2, <2>4, <2>8, <2>9, <2>10, <2>11, Planned DEF Planning
<1> QED BY <1>3, <1>4
-----------------------------------------------------------------------------
\* Parts that get their blocks one behind the other lie in order.
LEMMA AddressedLie ==
  ASSUME NEW i, NEW n, n = plan[i], IsNode(n), n.kind \in {"chunked", "compressed"},
         NEW a \in Nat, NEW given, given = Addresses(Parts(n), a),
         plan' = plan, slots' = slots, addrsOf' = Put(addrsOf, Nid(i), given.addrs)
  PROVE  /\ PartsLie(i, a, given.end)' /\ given.end \in Nat /\ given.end >= a
         /\ Nid(i) \in DOMAIN addrsOf'
         /\ n.kind = "chunked" => Len(addrsOf'[Nid(i)]) = Len(n.chunks)
         /\ Unaddressable(Parts(n), given.addrs) => given.end > MaxBlocks
<1> DEFINE c == Parts(n)
           s == StoredParts(n)
           d == given.addrs
           e == given.end
<1>1. /\ c \in Seq(Nat \cup {Hole}) /\ DOMAIN s = DOMAIN c /\ IsSeq(s)
      /\ n.kind = "chunked" => Len(c) = Len(n.chunks)
      /\ \A k \in DOMAIN c : /\ s[k] \in Int
                             /\ s[k] > 0 => c[k] # Hole /\ s[k] =< c[k] * BlockSize
  BY PartFacts
<1>2. /\ DOMAIN d = DOMAIN c /\ Len(d) = Len(c) /\ e \in Nat /\ e >= a
      /\ \A k \in DOMAIN c : c[k] # Hole =>
           /\ d[k] \in Nat /\ d[k] >= a /\ d[k] + c[k] =< e
           /\ \A j \in 1..(k - 1) : c[j] # Hole => d[j] + c[j] =< d[k]
  <2> HIDE DEF c
  <2> DEFINE t == Addresses(c, a)
  <2>1. /\ DOMAIN t.addrs = DOMAIN c /\ Len(t.addrs) = Len(c) /\ t.end \in Nat /\ t.end >= a
        /\ \A k \in DOMAIN c : c[k] # Hole =>
             /\ t.addrs[k] \in Nat /\ t.addrs[k] >= a /\ t.addrs[k] + c[k] =< t.end
             /\ \A j \in 1..(k - 1) : c[j] # Hole => t.addrs[j] + c[j] =< t.addrs[k]
    BY <1>1, AddressFacts
  <2>2. d = t.addrs /\ e = t.end
    BY DEF c
  <2> HIDE DEF t, d, e
  <2> QED BY <2>1, <2>2
<1>3. Nid(i) \in DOMAIN addrsOf' /\ addrsOf'[Nid(i)] = d /\ Nid(i)' = Nid(i)
  BY DEF Put, Nid
<1>4. \A p : StoredAt(i, p)' = d[p]
  BY <1>3 DEF StoredAt
<1> HIDE DEF c, s, d, e
<1>5. Len(c) \in Nat /\ DOMAIN c = 1..Len(c) /\ \A k \in DOMAIN c : c[k] \in Nat \cup {Hole}
  BY <1>1, LenProperties, ElementOfSeq
<1>6. ASSUME NEW k \in DOMAIN c, s[k] > 0, NEW to \in Nat, d[k] + c[k] =< to
      PROVE  /\ d[k] \in Nat /\ d[k] >= a
             /\ d[k] * BlockSize + s[k] =< to * BlockSize
  <2>1. /\ c[k] \in Nat /\ c[k] # Hole /\ s[k] =< c[k] * BlockSize /\ s[k] \in Int
        /\ d[k] \in Nat /\ d[k] >= a
    BY <1>1, <1>2, <1>5, <1>6 DEF Hole
  <2> DEFINE x == d[k]
             y == c[k]
             xy == x + y
  <2>2. x \in Nat /\ y \in Nat /\ xy \in Nat /\ xy =< to
    BY <1>6, <2>1
  <2> HIDE DEF x, y
  <2>3. xy * BlockSize = x * BlockSize + y * BlockSize
    BY <2>2, Added
  <2> HIDE DEF xy
  <2>4. xy * BlockSize =< to * BlockSize /\ xy * BlockSize \in Nat
    BY <2>2, Scaled
  <2>5. to * BlockSize \in Nat /\ x * BlockSize \in Nat /\ y * BlockSize \in Nat
    BY <1>6, <2>2, Scaled
  <2>6. x * BlockSize + s[k] =< to * BlockSize
    BY <2>1, <2>3, <2>4, <2>5 DEF y
  <2> QED BY <2>1, <2>6 DEF x
<1>7. PartsLie(i, a, e)'
  <2> SUFFICES ASSUME NEW k \in DOMAIN s, s[k] > 0
               PROVE  /\ d[k] \in Nat /\ d[k] >= a
                      /\ d[k] * BlockSize + s[k] =< e * BlockSize
                      /\ \A q \in 1..(k - 1) : s[q] > 0 =>
                           d[q] * BlockSize + s[q] =< d[k] * BlockSize
    BY <1>4 DEF PartsLie, s
  <2>1. k \in DOMAIN c /\ c[k] # Hole /\ d[k] + c[k] =< e /\ d[k] \in Nat
    BY <1>1, <1>2
  <2>2. d[k] >= a /\ d[k] * BlockSize + s[k] =< e * BlockSize
    BY <1>2, <1>6, <2>1
  <2>3. ASSUME NEW q \in 1..(k - 1), s[q] > 0
        PROVE  d[q] * BlockSize + s[q] =< d[k] * BlockSize
    <3>1. q \in DOMAIN c
      BY <1>5, <2>1
    <3>2. c[q] # Hole
      BY <1>1, <2>3, <3>1
    <3>3. d[q] + c[q] =< d[k]
      BY <1>2, <2>1, <3>2
    <3> QED BY <1>6, <2>1, <2>3, <3>1, <3>3
  <2> QED BY <2>1, <2>2, <2>3
<1>8. n.kind = "chunked" => Len(addrsOf'[Nid(i)]) = Len(n.chunks)
  BY <1>1, <1>2, <1>3
<1>9. ASSUME Unaddressable(c, d) PROVE e > MaxBlocks
  <2>1. PICK k \in DOMAIN d : c[k] # Hole /\ d[k] > MaxBlocks
    BY <1>9 DEF Unaddressable
  <2>2. d[k] \in Nat /\ d[k] + c[k] =< e /\ c[k] \in Nat
    BY <1>2, <1>5, <2>1
  <2>3. MaxBlocks \in Nat
    BY ImageLayoutAssumption
  <2> QED BY <1>2, <2>1, <2>2, <2>3
<1> QED BY <1>2, <1>3, <1>7, <1>8, <1>9 DEF c, d, e

\* A file or a symlink is placed in blocks of its own, from the next one on.
LEMMA FlatLie ==
  ASSUME NEW i, NEW n, n = plan[i], IsNode(n), n.kind \in {"file", "symlink"},
         NEW a \in Nat, NEW b \in Nat, a =< b,
         plan' = plan, slots' = slots,
         \E v : /\ blockOf' = Put(blockOf, Nid(i), v)
                /\ ~Inlined(n) /\ n.len > 0 => v = a /\ a * BlockSize + n.len =< b * BlockSize
  PROVE  PartsLie(i, a, b)' /\ Nid(i) \in DOMAIN blockOf'
<1>1. PICK v : /\ blockOf' = Put(blockOf, Nid(i), v)
               /\ ~Inlined(n) /\ n.len > 0 => v = a /\ a * BlockSize + n.len =< b * BlockSize
  OBVIOUS
<1>2. Nid(i) \in DOMAIN blockOf' /\ blockOf'[Nid(i)] = v /\ Nid(i)' = Nid(i)
  BY <1>1 DEF Put, Nid
<1>3. \A p : StoredAt(i, p)' = v
  BY <1>2 DEF StoredAt
<1> DEFINE s == StoredParts(n)
<1>4. \/ s = <<>>
      \/ ~Inlined(n) /\ s = <<n.len>> /\ DOMAIN s = {1} /\ s[1] = n.len /\ n.len \in Nat
  BY DEF StoredParts, IsNode, Inlined
<1> HIDE DEF s
<1>5. PartsLie(i, a, b)'
  <2> SUFFICES ASSUME NEW k \in DOMAIN s, s[k] > 0
               PROVE  /\ v \in Nat /\ v >= a /\ v * BlockSize + s[k] =< b * BlockSize
                      /\ \A q \in 1..(k - 1) : s[q] > 0 =>
                           v * BlockSize + s[q] =< v * BlockSize
    BY <1>3 DEF PartsLie, s
  <2>1. ~Inlined(n) /\ k = 1 /\ s[k] = n.len /\ n.len > 0
    BY <1>4
  <2>2. v = a /\ a * BlockSize + n.len =< b * BlockSize
    BY <1>1, <2>1
  <2>3. 1..(k - 1) = {}
    BY <2>1
  <2> QED BY <2>1, <2>2, <2>3
<1> QED BY <1>2, <1>5

\* What a node gets, as far as PlaceData places it.
LEMMA PlaceDataPlaces ==
  ASSUME LayoutInv, PlaceData, pass' # "failed",
         NEW i, i = at, NEW a, a = next, NEW b, b = next'
  PROVE  /\ PlacesData(i, a, b) /\ b \in Nat /\ a =< b /\ Step("size")
         /\ plan[i].kind = "dir" => blockOf' = blockOf
<1>0. pass = "data" /\ plan' = plan /\ slots' = slots /\ packed' = packed
  BY DEF PlaceData
<1>1. /\ plan \in Plans /\ i \in 1..Nodes /\ a \in Nat
  BY <1>0 DEF LayoutInv
<1> DEFINE n == plan[i]
<1>2. IsNode(n) /\ n = Node
  BY <1>1, NodeFacts DEF Node
<1>3. CASE n.kind = "file"
  <2>1. /\ blockOf' = Put(blockOf, Nid(at), IF Inlined(Node) \/ Node.len = 0 THEN 0 ELSE next)
        /\ next' = IF Inlined(Node) THEN next ELSE next + CeilDiv(Node.len, BlockSize)
        /\ Step("size") /\ addrsOf' = addrsOf
    BY <1>2, <1>3 DEF PlaceData
  <2> DEFINE l == n.len
             q == CeilDiv(l, BlockSize)
             v == IF Inlined(n) \/ l = 0 THEN 0 ELSE a
  <2>2. l \in Nat /\ BlockSize \in Nat /\ BlockSize > 0
    BY <1>2, <1>3, Blocks DEF IsNode
  <2>3. blockOf' = Put(blockOf, Nid(i), v) /\ b = IF Inlined(n) THEN a ELSE a + q
    BY <1>2, <2>1
  <2> HIDE DEF l
  <2>4. q \in Nat /\ q * BlockSize >= l /\ q * BlockSize \in Nat
    BY <2>2, Ceiling
  <2> HIDE DEF q
  <2>5. b \in Nat /\ a =< b
    BY <1>1, <2>3, <2>4
  <2>6. ASSUME ~Inlined(n), l > 0 PROVE v = a /\ a * BlockSize + l =< b * BlockSize
    <3>1. b = a + q /\ v = a
      BY <2>2, <2>3, <2>6
    <3>2. (a + q) * BlockSize = a * BlockSize + q * BlockSize
      BY <1>1, <2>4, Added
    <3>3. a * BlockSize \in Nat
      BY <1>1, Blocks
    <3> QED BY <2>2, <2>4, <3>1, <3>2, <3>3
  <2> HIDE DEF v
  <2>7. PartsLie(i, a, b)' /\ Nid(i) \in DOMAIN blockOf'
    BY <1>0, <1>1, <1>2, <1>3, <2>3, <2>5, <2>6, FlatLie DEF l
  <2>8. PlacesData(i, a, b)
    BY <1>3, <2>1, <2>3, <2>5, <2>7 DEF PlacesData
  <2> QED BY <1>3, <2>1, <2>5, <2>8
<1>4. CASE n.kind = "symlink"
  <2>0. Node.len =< BlockSize
    <3>1. n.len \in Nat /\ BlockSize \in Nat
      BY <1>2, <1>4, Blocks DEF IsNode
    <3> QED BY <1>2, <1>4, <3>1 DEF PlaceData, FailFor
  <2>1. /\ blockOf' = Put(blockOf, Nid(at), next)
        /\ next' = next + 1 /\ Step("size") /\ addrsOf' = addrsOf
    <3>1. n.len \in Nat /\ BlockSize \in Nat /\ ~(Node.len > BlockSize)
      BY <1>2, <1>4, <2>0, Blocks DEF IsNode
    <3> QED BY <1>2, <1>4, <3>1 DEF PlaceData
  <2> DEFINE l == n.len
  <2>2. l \in Nat /\ BlockSize \in Nat /\ l =< BlockSize
    BY <1>2, <1>4, <2>0, Blocks DEF IsNode
  <2>3. b \in Nat /\ a =< b /\ b = a + 1 /\ blockOf' = Put(blockOf, Nid(i), a)
    BY <1>1, <2>1
  <2> HIDE DEF l
  <2>4. a * BlockSize + l =< b * BlockSize
    <3>1. (a + 1) * BlockSize = a * BlockSize + BlockSize /\ a * BlockSize \in Nat
      BY <1>1, Blocks
    <3> QED BY <2>2, <2>3, <3>1
  <2>5. PartsLie(i, a, b)' /\ Nid(i) \in DOMAIN blockOf'
    BY <1>0, <1>1, <1>2, <1>4, <2>3, <2>4, FlatLie DEF l
  <2>6. PlacesData(i, a, b)
    BY <1>4, <2>1, <2>3, <2>5 DEF PlacesData
  <2> QED BY <1>4, <2>1, <2>3, <2>6
<1>5. CASE n.kind \in {"chunked", "compressed"}
  <2>0. PICK given : given = Addresses(Parts(n), a)
    OBVIOUS
  <2>1. /\ addrsOf' = Put(addrsOf, Nid(i), given.addrs) /\ b = given.end
        /\ Step("size") /\ blockOf' = blockOf
    BY <1>2, <1>5, <2>0 DEF PlaceData, FailFor
  <2>2. /\ PartsLie(i, a, given.end)' /\ given.end \in Nat /\ given.end >= a
        /\ Nid(i) \in DOMAIN addrsOf'
        /\ n.kind = "chunked" => Len(addrsOf'[Nid(i)]) = Len(n.chunks)
    <3>1. PICK m : m = n
      OBVIOUS
    <3>2. m = plan[i] /\ given = Addresses(Parts(m), a) /\ IsNode(m)
          /\ m.kind \in {"chunked", "compressed"}
      BY <1>2, <1>5, <2>0, <3>1
    <3>3. /\ PartsLie(i, a, given.end)' /\ given.end \in Nat /\ given.end >= a
          /\ Nid(i) \in DOMAIN addrsOf'
          /\ m.kind = "chunked" => Len(addrsOf'[Nid(i)]) = Len(m.chunks)
      BY <1>0, <1>1, <2>1, <3>2, AddressedLie
    <3> QED BY <3>1, <3>3
  <2>3. PartsLie(i, a, b)'
    BY <2>1, <2>2
  <2>4. a =< b /\ b \in Nat
    BY <1>1, <2>1, <2>2
  <2>5. PlacesData(i, a, b)
    BY <1>5, <2>1, <2>2, <2>3, <2>4 DEF PlacesData
  <2> QED BY <1>5, <2>1, <2>4, <2>5
<1>6. CASE n.kind \in {"dir", "special"}
  <2>1. b = a /\ blockOf' = blockOf /\ addrsOf' = addrsOf /\ Step("size")
    BY <1>2, <1>6 DEF PlaceData
  <2>2. StoredParts(n) = <<>>
    BY <1>6 DEF StoredParts
  <2>3. PartsLie(i, a, b)'
    BY <1>0, <2>2 DEF PartsLie
  <2>4. PlacesData(i, a, b)
    BY <1>1, <1>6, <2>1, <2>3 DEF PlacesData
  <2> QED BY <1>1, <1>6, <2>1, <2>4
<1> QED BY <1>2, <1>3, <1>4, <1>5, <1>6 DEF IsNode

\* A part that gets no address its field can hold lies past MaxBlocks.
LEMMA TooFar ==
  ASSUME NEW n, IsNode(n), n.kind \in {"chunked", "compressed"}, NEW a \in Nat,
         NEW given, given = Addresses(Parts(n), a), Unaddressable(Parts(n), given.addrs)
  PROVE  given.end > MaxBlocks
<1> DEFINE c == Parts(n)
           t == Addresses(c, a)
<1>1. c \in Seq(Nat \cup {Hole})
  BY PartFacts
<1> HIDE DEF c
<1>2. /\ DOMAIN t.addrs = DOMAIN c /\ t.end \in Nat
      /\ \A k \in DOMAIN c : c[k] # Hole => t.addrs[k] \in Nat /\ t.addrs[k] + c[k] =< t.end
  BY <1>1, AddressFacts
<1>3. given = t
  BY DEF c
<1> HIDE DEF t
<1>4. PICK k \in DOMAIN c : c[k] # Hole /\ t.addrs[k] > MaxBlocks
  BY <1>2, <1>3 DEF Unaddressable, c
<1>5. c[k] \in Nat
  BY <1>1, <1>4, ElementOfSeq, LenProperties
<1>6. MaxBlocks \in Nat
  BY ImageLayoutAssumption
<1> QED BY <1>2, <1>3, <1>4, <1>5, <1>6

\* What a step that plans nothing keeps of the places given.
LEMMA KeptLines ==
  ASSUME UNCHANGED planned, NEW f, NEW g, DirsLie(f, Nodes), DataLies(g, Nodes), Behind(f[1]),
         SlotsRight
  PROVE  /\ SlotsRight' /\ Nodes' = Nodes
         /\ DirsLie(f, Nodes)' /\ DataLies(g, Nodes)' /\ Behind(f[1])'
<1>1. PICK m : m = Nodes
  OBVIOUS
<1>2. Nodes' = m /\ SlotsRight'
  BY <1>1, Kept
<1>3. DirsLie(f, m)' /\ DataLies(g, m)'
  BY <1>1, Kept
<1>4. Behind(f[1])'
  BY Kept
<1> QED BY <1>1, <1>2, <1>3, <1>4

\* Data is placed behind the data before it, and behind the directories.
LEMMA PlaceDataKeeps == LayoutInv /\ PlaceData => LayoutInv'
<1> SUFFICES ASSUME LayoutInv, PlaceData PROVE LayoutInv'
  OBVIOUS
<1>0. /\ pass = "data" /\ pass \in Planning
      /\ plan' = plan /\ blobs' = blobs /\ slots' = slots /\ packed' = packed /\ img' = img
  BY DEF PlaceData, Planning
<1>1. /\ plan \in Plans /\ at \in 1..Nodes /\ next \in Nat /\ SlotsRight
      /\ Len(slots) = Nodes /\ next >= 2
  BY <1>0 DEF LayoutInv, Placing
<1>2. IsFlattened(plan) /\ at \in DOMAIN plan /\ Nodes \in Nat /\ IsNode(plan[at])
  BY <1>1, NodeFacts
<1>3. CASE pass' = "failed"
  <2>1. CASE Node.kind = "symlink" /\ Node.len > BlockSize
    <3>1. at' = at /\ next' = next
      <4>1. Node.len \in Nat /\ BlockSize \in Nat
        BY <1>2, <2>1, Blocks DEF IsNode, Node
      <4>2. ~(Node.len =< BlockSize)
        BY <2>1, <4>1
      <4> QED BY <2>1, <4>2 DEF PlaceData, FailFor
    <3>2. FailsForCause'
      BY <1>0, <1>2, <2>1 DEF FailsForCause, Node
    <3> QED BY <1>0, <1>3, <3>1, <3>2, Failing
  <2>2. CASE /\ Node.kind \in {"chunked", "compressed"}
             /\ Unaddressable(Parts(Node), Addresses(Parts(Node), next).addrs)
    <3>1. at' = at /\ next' = next
      <4>1. PICK given : given = Addresses(Parts(Node), next)
        OBVIOUS
      <4>2. Unaddressable(Parts(Node), given.addrs)
        BY <2>2, <4>1
      <4>3. \/ /\ Node.kind \in {"chunked", "compressed"}
               /\ IF Unaddressable(Parts(Node), given.addrs)
                  THEN FailFor("blocks") /\ UNCHANGED <<at, next, addrsOf>>
                  ELSE /\ addrsOf' = Put(addrsOf, Nid(at), given.addrs)
                       /\ next' = given.end
                       /\ Step("size") /\ UNCHANGED cause
        BY <2>2, <4>1 DEF PlaceData
      <4> QED BY <4>2, <4>3
    <3>2. Addresses(Parts(Node), next).end > MaxBlocks
      <4>1. PICK n : n = Node
        OBVIOUS
      <4>2. PICK a : a = next
        OBVIOUS
      <4>3. PICK given : given = Addresses(Parts(n), a)
        OBVIOUS
      <4>4. /\ IsNode(n) /\ n.kind \in {"chunked", "compressed"} /\ a \in Nat
            /\ Unaddressable(Parts(n), given.addrs)
        BY <1>1, <1>2, <2>2, <4>1, <4>2, <4>3 DEF Node
      <4>5. given.end > MaxBlocks
        BY <4>3, <4>4, TooFar
      <4> QED BY <4>1, <4>2, <4>3, <4>5
    <3>3. Node' = Node /\ Addresses(Parts(Node), next)' = Addresses(Parts(Node), next)
      <4>1. plan'[at'] = plan[at] /\ next' = next
        BY <1>0, <3>1
      <4> QED BY <4>1 DEF Node
    <3>4. FailsForCause'
      BY <2>2, <3>2, <3>3 DEF FailsForCause
    <3> QED BY <1>0, <1>3, <3>1, <3>4, Failing
  <2>3. CASE /\ ~(Node.kind = "symlink" /\ Node.len > BlockSize)
             /\ ~(/\ Node.kind \in {"chunked", "compressed"}
                  /\ Unaddressable(Parts(Node), Addresses(Parts(Node), next).addrs))
    <3>1. Step("size")
      BY <2>3 DEF PlaceData
    <3>2. pass' = "data" \/ pass' = "size"
      BY <1>0, <3>1 DEF Step
    <3> QED BY <1>3, <3>2
  <2> QED BY <2>1, <2>2, <2>3
<1>4. CASE pass' # "failed"
  <2>1. PICK i, a, b : i = at /\ a = next /\ b = next'
    OBVIOUS
  <2>2. PlacesData(i, a, b) /\ b \in Nat /\ a =< b /\ Step("size")
        /\ (plan[i].kind = "dir" => blockOf' = blockOf)
    BY <1>4, <2>1, PlaceDataPlaces
  <2>3. i \in 1..Nodes /\ a \in Nat /\ b \in Nat /\ PlacesData(i, a, b)
    BY <1>1, <2>1, <2>2
  <2>03. b >= 2
    BY <1>1, <2>1, <2>2
  <2>4. PICK m : m = i - 1
    OBVIOUS
  <2>5. PICK f, g : /\ DirsLie(f, Nodes) /\ Behind(f[1]) /\ g[1] = f[Nodes + 1]
                    /\ DataLies(g, m) /\ g[i] = a
    BY <1>0, <2>1, <2>4 DEF LayoutInv, Placing
  <2>6. PICK h : DataLies(h, i)' /\ h[1] = g[1] /\ h[i + 1] = b
    BY <1>0, <1>1, <2>3, <2>4, <2>5, DataGrows
  <2>7. DirsLie(f, Nodes)'
    <3>1. CASE plan[i].kind = "dir"
      <4>1. blockOf' = blockOf
        BY <2>2, <3>1
      <4> QED BY <1>0, <2>5, <4>1 DEF DirsLie, Nid, Nodes
    <3>2. CASE plan[i].kind # "dir"
      <4>1. blockOf' = blockOf \/ \E v : blockOf' = Put(blockOf, Nid(i), v)
        BY <2>2 DEF PlacesData
      <4> QED BY <1>0, <1>1, <2>3, <2>5, <3>2, <4>1, DirsStay
    <3> QED BY <3>1, <3>2
  <2>8. Behind(f[1])'
    BY <1>0, <2>5 DEF Behind, SlotEnd
  <2>9. /\ Nodes' = Nodes /\ at' \in 1..Nodes
        /\ \/ i < Nodes /\ at' = i + 1 /\ pass' = "data"
           \/ i = Nodes /\ at' = 1 /\ pass' = "size"
    BY <1>0, <1>1, <2>1, <2>2, StepFacts DEF Nodes
  <2>10. SlotsRight'
    BY <1>0, <1>1 DEF SlotsRight, SlotEnd, Nodes
  <2>11. FailsForCause'
    BY <2>9 DEF FailsForCause
  <2>12. Placing'
    <3>1. CASE i < Nodes /\ at' = i + 1 /\ pass' = "data"
      <4>1. (/\ DirsLie(f, Nodes) /\ Behind(f[1]) /\ h[1] = f[Nodes + 1]
             /\ DataLies(h, at - 1) /\ h[at] = next)'
        <5>1. (i + 1) - 1 = i
          BY <2>3
        <5> QED BY <2>1, <2>5, <2>6, <2>7, <2>8, <2>9, <3>1, <5>1
      <4> QED BY <1>0, <1>1, <2>1, <2>03, <2>9, <3>1, <4>1 DEF Placing, Emitting
    <3>2. CASE i = Nodes /\ at' = 1 /\ pass' = "size"
      <4>1. (/\ DirsLie(f, Nodes) /\ Behind(f[1]) /\ h[1] = f[Nodes + 1]
             /\ DataLies(h, Nodes) /\ h[Nodes + 1] = next)'
        BY <2>1, <2>5, <2>6, <2>7, <2>8, <2>9, <3>2
      <4> QED BY <1>0, <1>1, <2>1, <2>03, <2>9, <3>2, <4>1 DEF Placing, Emitting
    <3> QED BY <2>9, <3>1, <3>2
  <2> QED BY <1>0, <2>1, <2>2, <2>9, <2>10, <2>11, <2>12, Planned DEF Planning
<1> QED BY <1>3, <1>4

\* Nothing is written before its image is known to be small enough.
LEMMA SizeImageKeeps == LayoutInv /\ SizeImage => LayoutInv'
<1> SUFFICES ASSUME LayoutInv, SizeImage PROVE LayoutInv'
  OBVIOUS
<1>0. pass = "size" /\ UNCHANGED <<planned, at, next, img>> /\ pass \in Planning
  BY DEF SizeImage, Planning
<1>00. plan' = plan /\ blobs' = blobs /\ slots' = slots /\ img' = img /\ at' = at /\ next' = next
  BY <1>0 DEF planned
<1>1. next \in Nat /\ next >= 2 /\ Len(slots) = Nodes /\ at \in 1..Nodes /\ SlotsRight
  BY <1>0 DEF LayoutInv, Placing
<1>2. CASE TooLarge(next)
  <2>1. pass' = "failed"
    BY <1>2 DEF SizeImage, FailFor
  <2>2. FailsForCause'
    BY <1>00, <1>2 DEF FailsForCause, TooLarge
  <2> QED BY <1>0, <1>00, <2>1, <2>2, Failing
<1>3. CASE ~TooLarge(next)
  <2>1. pass' = "gap"
    BY <1>1, <1>3 DEF SizeImage
  <2>2. PICK f, g : /\ DirsLie(f, Nodes) /\ Behind(f[1]) /\ g[1] = f[Nodes + 1]
                    /\ DataLies(g, Nodes) /\ g[Nodes + 1] = next
    BY <1>0 DEF LayoutInv, Placing
  <2>3. /\ SlotsRight' /\ Nodes' = Nodes /\ DirsLie(f, Nodes)' /\ DataLies(g, Nodes)'
        /\ Behind(f[1])'
    BY <1>0, <1>1, <2>2, KeptLines
  <2>4. Placing'
    <3>1. (/\ DirsLie(f, Nodes) /\ Behind(f[1]) /\ g[1] = f[Nodes + 1]
           /\ DataLies(g, Nodes) /\ g[Nodes + 1] = next)'
      BY <1>00, <2>2, <2>3
    <3> QED BY <1>00, <1>1, <2>1, <2>3, <3>1 DEF Placing, Emitting
  <2>5. FailsForCause'
    BY <2>1 DEF FailsForCause
  <2> QED BY <1>0, <1>00, <1>1, <2>1, <2>3, <2>4, <2>5, Planned DEF Planning
<1> QED BY <1>2, <1>3

\* The blocks of directories and data lie between the inodes and the image's end.
LEMMA Between ==
  ASSUME plan \in Plans, NEW f, NEW g, DirsLie(f, Nodes), DataLies(g, Nodes),
         g[1] = f[Nodes + 1], NEW to, g[Nodes + 1] = to,
         NEW i \in 1..(Nodes + 1)
  PROVE  /\ f[i] \in Nat /\ g[i] \in Nat /\ f[1] \in Nat /\ to \in Nat
         /\ f[1] =< f[i] /\ f[i] =< g[1] /\ f[1] =< g[i] /\ g[i] =< to /\ f[i] =< to
<1>1. Nodes \in Nat
  BY NodeFacts, ImageLayoutAssumption, PlanFacts DEF Nodes
<1> DEFINE m == Nodes
<1>2. f \in [1..(m + 1) -> Nat] /\ g \in [1..(m + 1) -> Nat]
  BY DEF DirsLie, DataLies
<1>3. ASSUME NEW k \in 1..m PROVE f[k] =< f[k + 1]
  <2>1. f[k] \in Nat /\ f[k + 1] \in Nat
    BY <1>1, <1>2
  <2>2. CASE plan[k].kind = "dir"
    <3>1. f[k + 1] = f[k] + Len(packed[Nid(k)]) /\ IsSeq(packed[Nid(k)])
      BY <1>3, <2>2 DEF DirsLie
    <3> QED BY <2>1, <3>1, SeqFacts
  <2>3. CASE plan[k].kind # "dir"
    BY <1>3, <2>1, <2>3 DEF DirsLie
  <2> QED BY <2>2, <2>3
<1>4. \A k \in 1..m : g[k] =< g[k + 1]
  BY DEF DataLies
<1> HIDE DEF m
<1>5. f[1] =< f[i] /\ f[i] =< f[m + 1]
  BY <1>1, <1>2, <1>3, Rising DEF m
<1>6. g[1] =< g[i] /\ g[i] =< g[m + 1]
  BY <1>1, <1>2, <1>4, Rising DEF m
<1>7. /\ f[i] \in Nat /\ g[i] \in Nat /\ f[1] \in Nat /\ f[m + 1] \in Nat
      /\ g[1] \in Nat /\ g[m + 1] \in Nat
  BY <1>1, <1>2 DEF m
<1> QED BY <1>5, <1>6, <1>7 DEF m

\* One more line of writes, behind all that is written.
LEMMA Emits ==
  ASSUME Placed(img), Apart(img), Sealed(img), NEW from, NEW to, NEW end, NEW t,
         from \in Nat, to \in Nat, end \in Nat, from >= MetaBase, from =< to, to =< end,
         EndsBy(img, from), IsSeq(t), InLine(t, from, to),
         \A k \in DOMAIN t : t[k].what.kind # "super", img' = img \o t
  PROVE  Placed(img') /\ Apart(img') /\ Sealed(img') /\ EndsBy(img', to) /\ EndsBy(img', end)
<1>1. Placed(img \o t) /\ Apart(img \o t) /\ EndsBy(img \o t, to)
  BY LineApart
<1>2. Sealed(img \o t)
  BY LineSealed DEF Placed
<1>3. EndsBy(img', end)
  <2> SUFFICES ASSUME NEW k \in DOMAIN img' PROVE img'[k].off + img'[k].len =< end
    BY DEF EndsBy
  <2>1. img'[k].off \in Nat /\ img'[k].len \in Nat /\ img'[k].off + img'[k].len =< to
    BY <1>1 DEF EndsBy, Placed
  <2> QED BY <2>1
<1> QED BY <1>1, <1>2, <1>3

\* Where the inodes lie, in front of every block.
LEMMA Ahead ==
  ASSUME SlotsRight, NEW b \in Nat, Behind(b), NEW i \in DOMAIN slots
  PROVE  /\ MetaBase \in Nat /\ slots[i].start \in Nat /\ SlotEnd(slots[i]) \in Nat
         /\ b * BlockSize \in Nat /\ slots[i].start =< SlotEnd(slots[i])
         /\ MetaBase + SlotEnd(slots[i]) =< b * BlockSize
<1>1. /\ slots[i].start \in Nat /\ SlotEnd(slots[i]) \in Nat
      /\ slots[i].start =< SlotEnd(slots[i])
  BY SlotFacts
<1>2. MetaBase \in Nat /\ b * BlockSize \in Nat
  BY MetaFacts, Scaled
<1> QED BY <1>1, <1>2 DEF Behind

\* Once every inode has a slot.
LEMMA SlotsAll ==
  ASSUME plan \in Plans, SlotsRight, Len(slots) = Nodes
  PROVE  DOMAIN slots = 1..Nodes /\ 1 \in DOMAIN slots
<1> DEFINE W == [start : Nat, span : Nat]
<1>1. slots \in Seq(W)
  BY DEF SlotsRight
<1>2. Nodes \in Nat \ {0}
  BY ImageLayoutAssumption, PlanFacts DEF Nodes
<1> HIDE DEF W
<1> QED BY <1>1, <1>2, LenProperties

\* The gap's writes end in front of the inodes.
LEMMA WriteGapKeeps == LayoutInv /\ WriteGap => LayoutInv'
<1> SUFFICES ASSUME LayoutInv, WriteGap PROVE LayoutInv'
  OBVIOUS
<1>0. pass = "gap" /\ UNCHANGED <<planned, at, next>> /\ pass \in Planning
  BY DEF WriteGap, Planning
<1>00. plan' = plan /\ blobs' = blobs /\ slots' = slots /\ at' = at /\ next' = next
  BY <1>0 DEF planned
<1>1. /\ next \in Nat /\ next >= 2 /\ Len(slots) = Nodes /\ at \in 1..Nodes /\ SlotsRight
      /\ plan \in Plans /\ blobs \in BlobSizes /\ img = <<>>
  BY <1>0 DEF LayoutInv, Placing
<1>2. CASE \E w \in {Cfgs, Dict} : w.len > 0 /\ w.off + w.len > MetaBase
  <2>1. pass' = "failed" /\ img' = img
    BY <1>2 DEF WriteGap, FailFor
  <2> DEFINE b1 == blobs[1]
             b2 == blobs[2]
             x == SuperEnd + b1
             d == CeilTo(x, 4)
  <2>2. b1 \in Nat /\ b2 \in Nat /\ SuperEnd = 1152 /\ MetaBase \in Nat
    BY <1>1, ImageLayoutAssumption, MetaFacts
  <2>3. /\ Cfgs.off = SuperEnd /\ Cfgs.len = b1 /\ Dict.off = d /\ Dict.len = b2
    BY DEF Cfgs, Dict, Write
  <2> HIDE DEF b1, b2
  <2>4. x \in Nat
    BY <2>2
  <2> HIDE DEF x
  <2>5. d \in Nat /\ d < x + 4
    <3>1. 4 \in Nat /\ 4 > 0
      OBVIOUS
    <3> QED BY <2>4, <3>1, Ceiling
  <2> HIDE DEF d
  <2>6. b1 + b2 + 3 > MetaBase - SuperEnd
    <3>1. CASE Cfgs.off + Cfgs.len > MetaBase
      BY <2>2, <2>3, <3>1
    <3>2. CASE Dict.off + Dict.len > MetaBase
      BY <2>2, <2>3, <2>5, <3>2 DEF x
    <3> QED BY <1>2, <3>1, <3>2
  <2>7. FailsForCause'
    BY <1>00, <2>6 DEF FailsForCause, b1, b2
  <2> QED BY <1>0, <1>00, <2>1, <2>7, Failing
<1>3. CASE ~ \E w \in {Cfgs, Dict} : w.len > 0 /\ w.off + w.len > MetaBase
  <2>1. pass' = "inodes" /\ img' = img \o GapWrites
    BY <1>3 DEF WriteGap
  <2>2. PICK f, g : /\ DirsLie(f, Nodes) /\ Behind(f[1]) /\ g[1] = f[Nodes + 1]
                    /\ DataLies(g, Nodes) /\ g[Nodes + 1] = next
    BY <1>0 DEF LayoutInv, Placing
  <2>3. /\ SlotsRight' /\ Nodes' = Nodes /\ DirsLie(f, Nodes)' /\ DataLies(g, Nodes)'
        /\ Behind(f[1])'
    BY <1>0, <1>1, <2>2, KeptLines
  <2>4. Placing'
    <3>1. (/\ DirsLie(f, Nodes) /\ Behind(f[1]) /\ g[1] = f[Nodes + 1]
           /\ DataLies(g, Nodes) /\ g[Nodes + 1] = next)'
      BY <1>00, <2>2, <2>3
    <3> QED BY <1>00, <1>1, <2>1, <2>3, <3>1 DEF Placing, Emitting
  <2>5. /\ Placed(GapWrites) /\ Apart(GapWrites)
        /\ EndsBy(GapWrites, MetaBase) /\ Sealed(GapWrites)
    BY <1>1, <1>3, GapFacts
  <2>6. img' = GapWrites
    <3>1. IsSeq(GapWrites)
      BY <2>5 DEF Placed
    <3> QED BY <1>1, <2>1, <3>1 DEF IsSeq
  <2>7. /\ MetaBase \in Nat /\ slots[at].start \in Nat
        /\ MetaBase + slots[at].start =< next * BlockSize /\ next * BlockSize \in Nat
    <3>1. at \in DOMAIN slots /\ 1 \in 1..(Nodes + 1)
      BY <1>1, SlotsAll, NodeFacts
    <3>2. f[1] \in Nat /\ f[1] =< next
      BY <1>1, <2>2, <3>1, Between
    <3>3. /\ MetaBase \in Nat /\ slots[at].start \in Nat /\ SlotEnd(slots[at]) \in Nat
          /\ slots[at].start =< SlotEnd(slots[at])
          /\ f[1] * BlockSize \in Nat /\ MetaBase + SlotEnd(slots[at]) =< f[1] * BlockSize
      BY <1>1, <2>2, <3>1, <3>2, Ahead
    <3>4. f[1] * BlockSize =< next * BlockSize /\ next * BlockSize \in Nat
      BY <1>1, <3>2, Scaled
    <3> QED BY <3>3, <3>4
  <2>8. EndsBy(GapWrites, MetaBase + slots[at].start) /\ EndsBy(GapWrites, next * BlockSize)
    <3> DEFINE a == slots[at].start
               e == next * BlockSize
    <3>1. a \in Nat /\ e \in Nat /\ MetaBase \in Nat /\ MetaBase + a =< e
      BY <2>7
    <3> HIDE DEF a, e
    <3>2. ASSUME NEW k \in DOMAIN GapWrites
          PROVE  /\ GapWrites[k].off + GapWrites[k].len =< MetaBase + a
                 /\ GapWrites[k].off + GapWrites[k].len =< e
      <4>1. /\ GapWrites[k].off \in Nat /\ GapWrites[k].len \in Nat
            /\ GapWrites[k].off + GapWrites[k].len =< MetaBase
        BY <2>5 DEF Placed, EndsBy
      <4> QED BY <3>1, <4>1
    <3> QED BY <3>2 DEF EndsBy, a, e
  <2>9. FailsForCause'
    BY <2>1 DEF FailsForCause
  <2>10. /\ EndsBy(img', MetaBase + slots'[at'].start) /\ EndsBy(img', next' * BlockSize)
         /\ Placed(img') /\ Apart(img') /\ Sealed(img')
    BY <1>00, <2>5, <2>6, <2>8
  <2> QED BY <1>00, <1>1, <2>1, <2>3, <2>4, <2>9, <2>10 DEF LayoutInv, Planning, Emitting
<1> QED BY <1>2, <1>3

\* A function of 1..n is a sequence.
Lists(t, n) == t = [k \in 1..n |-> t[k]]
LEMMA ListSeq ==
  ASSUME NEW n \in Nat, NEW t, Lists(t, n)
  PROVE  IsSeq(t)
<1> DEFINE W == {t[k] : k \in 1..n}
<1>1. \A k \in 1..n : t[k] \in W
  OBVIOUS
<1>2. DOMAIN t = 1..n
  BY DEF Lists
<1> HIDE DEF W
<1>3. [k \in 1..n |-> t[k]] \in Seq(W)
  BY <1>1
<1>4. t \in Seq(W)
  BY <1>3 DEF Lists
<1> QED BY <1>2, <1>4 DEF W, IsSeq

\* Five parts, none of them the superblock, of so many bytes.
FiveParts(e, bytes) ==
  /\ DOMAIN e = 1..5 /\ Len(e) = 5
  /\ \A k \in 1..5 : e[k][1] \in Nat /\ e[k][2].kind # "super"
  /\ e[1][1] + e[2][1] + e[3][1] + e[4][1] + e[5][1] = bytes

\* What is emitted for a node is as large as what was planned for it.
LEMMA EmittedFacts ==
  ASSUME plan \in Plans, NEW i \in 1..Nodes,
         plan[i].kind = "chunked" => Len(addrsOf[Nid(i)]) = Len(plan[i].chunks)
  PROVE  FiveParts(Emitted(i), BodySpan(plan[i]))
<1> DEFINE n == plan[i]
           e == Emitted(i)
<1>1. IsNode(n)
  BY NodeFacts
<1>2. /\ BodySize(n) \in Nat /\ n.xattr \in Nat /\ TailBytes(n) \in Nat
      /\ MapBytes(n) \in Nat /\ ZmapBytes(n) \in Nat
      /\ BodySpan(n) = BodySize(n) + n.xattr + TailBytes(n) + MapBytes(n) + ZmapBytes(n)
  <2>1. PICK m : m = n
    OBVIOUS
  <2>2. /\ BodySize(m) \in {32, 64} /\ m.xattr \in Nat /\ TailBytes(m) \in Nat
        /\ MapBytes(m) \in Nat /\ ZmapBytes(m) \in Nat
        /\ BodySpan(m) = BodySize(m) + m.xattr + TailBytes(m) + MapBytes(m) + ZmapBytes(m)
    BY <1>1, <2>1, SpanFacts
  <2>3. BodySize(m) \in Nat
    BY <2>2
  <2> QED BY <2>1, <2>2, <2>3
<1>3. DOMAIN e = 1..5 /\ Len(e) = 5
  BY DEF Emitted
<1>4. e[1][1] = BodySize(n) /\ e[1][2].kind # "super"
  BY DEF Emitted, EncodeInode
<1>5. e[2][1] = n.xattr /\ e[2][2].kind # "super"
  BY DEF Emitted
<1>6. e[3][1] = TailBytes(n) /\ e[3][2].kind # "super"
  BY DEF Emitted
<1>7. e[4][1] = MapBytes(n) /\ e[4][2].kind # "super"
  <2>1. CASE n.kind # "chunked"
    BY <2>1 DEF Emitted, MapBytes
  <2>2. CASE n.kind = "chunked"
    <3>1. e[4][1] = Len(addrsOf[Nid(i)]) * EntrySize(n) /\ e[4][2].kind = "chunkmap"
      BY <2>2 DEF Emitted
    <3> QED BY <2>2, <3>1 DEF MapBytes
  <2> QED BY <2>1, <2>2
<1>8. e[5][1] = ZmapBytes(n) /\ e[5][2].kind # "super"
  BY DEF Emitted, ZmapBytes
<1> HIDE DEF e
<1>9. \A k \in 1..5 : k = 1 \/ k = 2 \/ k = 3 \/ k = 4 \/ k = 5
  OBVIOUS
<1>10. \A k \in 1..5 : e[k][1] \in Nat /\ e[k][2].kind # "super"
  BY <1>2, <1>4, <1>5, <1>6, <1>7, <1>8, <1>9
<1>11. e[1][1] + e[2][1] + e[3][1] + e[4][1] + e[5][1] = BodySpan(n)
  BY <1>2, <1>4, <1>5, <1>6, <1>7, <1>8
<1>12. FiveParts(e, BodySpan(n))
  BY <1>3, <1>10, <1>11 DEF FiveParts
<1> QED BY <1>12 DEF e

\* Five parts laid end to end are in line, and end where they sum up to.
LEMMA FiveLaid ==
  ASSUME NEW e, NEW from \in Nat, DOMAIN e = 1..5, Len(e) = 5,
         \A k \in 1..5 : e[k][1] \in Nat, NEW laid, laid = Laid(e, from)
  PROVE  /\ IsSeq(laid.writes) /\ DOMAIN laid.writes = 1..5
         /\ \A k \in 1..5 : laid.writes[k].what = e[k][2]
         /\ InLine(laid.writes, from, laid.end)
         /\ laid.end = from + (e[1][1] + e[2][1] + e[3][1] + e[4][1] + e[5][1])
<1>1. PICK n : n = 5
  OBVIOUS
<1>2. n \in Nat /\ DOMAIN e = 1..n /\ Sized(e, n)
  BY <1>1 DEF Sized
<1>3. LaidOut(e, 5, from, laid)
  BY <1>1, <1>2, LaidFacts
<1>4. PICK g : /\ g[0] = from /\ \A k \in 1..5 : g[k] = g[k - 1] + e[k][1]
               /\ laid.end = g[5]
  BY <1>3 DEF LaidOut
<1>5. PICK x \in [1..5 -> Nat] : \A k \in 1..5 : x[k] = e[k][1]
  <2>1. [k \in 1..5 |-> e[k][1]] \in [1..5 -> Nat]
    OBVIOUS
  <2> QED BY <2>1
<1>6. g[0] = from /\ \A k \in 1..5 : g[k] = g[k - 1] + x[k]
  BY <1>4, <1>5
<1>7. laid.end = from + (x[1] + x[2] + x[3] + x[4] + x[5])
  <2>1. g[1] = from + x[1] /\ g[1] \in Nat
    BY <1>6
  <2>2. g[2] = from + (x[1] + x[2])
    BY <1>6, <2>1
  <2>3. g[3] = from + (x[1] + x[2] + x[3])
    BY <1>6, <2>2
  <2>4. g[4] = from + (x[1] + x[2] + x[3] + x[4])
    BY <1>6, <2>3
  <2> QED BY <1>4, <1>6, <2>4
<1>8. IsSeq(laid.writes)
  <2> DEFINE past == CHOOSE past : past = [k \in 0..Len(e) |->
                       IF k = 0 THEN from ELSE past[k - 1] + e[k][1]]
  <2>1. laid.writes = [k \in DOMAIN e |-> Write(past[k - 1], e[k][1], e[k][2])]
    BY DEF Laid
  <2> HIDE DEF past
  <2>2. PICK w : w = laid.writes
    OBVIOUS
  <2>3. Lists(w, n)
    BY <1>2, <2>1, <2>2 DEF Lists
  <2> QED BY <1>2, <2>2, <2>3, ListSeq
<1> QED BY <1>3, <1>5, <1>7, <1>8 DEF LaidOut

\* So an inode's emission ends where its slot does.
LEMMA InodeLine ==
  ASSUME plan \in Plans, SlotsRight, NEW i \in 1..Nodes, i \in DOMAIN slots,
         plan[i].kind = "chunked" => Len(addrsOf[Nid(i)]) = Len(plan[i].chunks),
         NEW laid, laid = Laid(Emitted(i), MetaBase + slots[i].start)
  PROVE  /\ laid.end = MetaBase + SlotEnd(slots[i])
         /\ IsSeq(Filled(laid.writes))
         /\ InLine(Filled(laid.writes), MetaBase + slots[i].start, MetaBase + SlotEnd(slots[i]))
         /\ \A k \in DOMAIN Filled(laid.writes) : Filled(laid.writes)[k].what.kind # "super"
<1> DEFINE e == Emitted(i)
           from == MetaBase + slots[i].start
           w == laid.writes
<1>1. /\ DOMAIN e = 1..5 /\ Len(e) = 5
      /\ \A k \in 1..5 : e[k][1] \in Nat /\ e[k][2].kind # "super"
      /\ e[1][1] + e[2][1] + e[3][1] + e[4][1] + e[5][1] = BodySpan(plan[i])
  <2>1. FiveParts(e, BodySpan(plan[i]))
    BY EmittedFacts
  <2> HIDE DEF e
  <2> QED BY <2>1 DEF FiveParts
<1>2. from \in Nat /\ SlotEnd(slots[i]) = slots[i].start + slots[i].span
      /\ slots[i].span = BodySpan(plan[i]) /\ slots[i].span \in Nat
      /\ slots[i].start \in Nat /\ MetaBase \in Nat
  <2>1. /\ SlotEnd(slots[i]) = slots[i].start + slots[i].span
        /\ slots[i].span \in Nat /\ slots[i].start \in Nat
    BY SlotFacts
  <2>2. slots[i].span = BodySpan(plan[i])
    BY DEF SlotsRight
  <2>3. MetaBase \in Nat
    BY MetaFacts
  <2> QED BY <2>1, <2>2, <2>3
<1>3. laid = Laid(e, from)
  OBVIOUS
<1>4. \A k \in 1..5 : e[k][1] \in Nat
  BY <1>1
<1>6. PICK c, x : c = e /\ x = from
  OBVIOUS
<1> HIDE DEF e, from
<1>5. /\ IsSeq(w) /\ DOMAIN w = 1..5 /\ \A k \in 1..5 : w[k].what = e[k][2]
      /\ InLine(w, from, laid.end)
      /\ laid.end = from + (e[1][1] + e[2][1] + e[3][1] + e[4][1] + e[5][1])
  <2>1. x \in Nat /\ DOMAIN c = 1..5 /\ Len(c) = 5 /\ laid = Laid(c, x)
        /\ \A k \in 1..5 : c[k][1] \in Nat
    BY <1>1, <1>2, <1>3, <1>6
  <2>2. /\ IsSeq(laid.writes) /\ DOMAIN laid.writes = 1..5
        /\ \A k \in 1..5 : laid.writes[k].what = c[k][2]
        /\ InLine(laid.writes, x, laid.end)
        /\ laid.end = x + (c[1][1] + c[2][1] + c[3][1] + c[4][1] + c[5][1])
    BY <2>1, FiveLaid
  <2> QED BY <1>6, <2>2
<1>7. laid.end = from + BodySpan(plan[i])
  BY <1>1, <1>5
<1>8. laid.end = MetaBase + SlotEnd(slots[i])
  BY <1>2, <1>7 DEF from
<1>9. IsSeq(w)
  BY <1>5
<1> DEFINE v == Filled(w)
<1>10. /\ IsSeq(v) /\ InLine(v, from, laid.end)
       /\ \A j \in DOMAIN v : \E k \in DOMAIN w : v[j] = w[k]
  <2>1. ASSUME NEW k \in DOMAIN w, w[k].len > 0
        PROVE  /\ w[k].off \in Nat /\ w[k].len \in Nat
               /\ w[k].off >= from /\ w[k].off + w[k].len =< laid.end
               /\ \A j \in 1..(k - 1) : w[j].len > 0 => w[j].off + w[j].len =< w[k].off
    BY <1>5 DEF InLine
  <2> HIDE DEF w
  <2> QED BY <1>9, <2>1, FilledLine
<1>11. \A k \in DOMAIN v : v[k].what.kind # "super"
  <2> SUFFICES ASSUME NEW j \in DOMAIN v PROVE v[j].what.kind # "super"
    OBVIOUS
  <2>1. PICK k \in DOMAIN w : v[j] = w[k]
    BY <1>10
  <2> HIDE DEF v, w
  <2>2. w[k].what = e[k][2] /\ e[k][2].kind # "super"
    BY <1>1, <1>5, <2>1 DEF w
  <2> QED BY <2>1, <2>2
<1> QED BY <1>8, <1>10, <1>11 DEF from

\* The blocks of a directory, in line.
LEMMA DirLine ==
  ASSUME plan \in Plans, NEW f, DirsLie(f, Nodes), NEW i \in 1..Nodes,
         plan[i].kind = "dir", NEW a \in Nat, a = f[i], NEW b \in Nat, b = f[i + 1],
         NEW t,
         t = [k \in DOMAIN packed[Nid(i)] |->
                   Write((blockOf[Nid(i)] + k - 1) * BlockSize, BlockSize,
                         [kind |-> "dirblock", node |-> i, part |-> k,
                          entries |-> packed[Nid(i)][k]])]
  PROVE  /\ IsSeq(t) /\ InLine(t, a * BlockSize, b * BlockSize)
         /\ \A k \in DOMAIN t : t[k].what.kind # "super"
<1> DEFINE s == packed[Nid(i)]
           n == Len(s)
<1>1. IsSeq(s) /\ blockOf[Nid(i)] = a /\ b = a + n
  BY DEF DirsLie
<1>2. n \in Nat /\ DOMAIN s = 1..n
  BY <1>1, SeqFacts
<1> HIDE DEF s
<1>3. /\ DOMAIN t = 1..n
      /\ \A k \in 1..n : /\ t[k].off = (a + k - 1) * BlockSize /\ t[k].len = BlockSize
                         /\ t[k].what.kind = "dirblock"
  BY <1>1, <1>2 DEF Write, s
<1>4. IsSeq(t)
  <2>1. Lists(t, n)
    <3> HIDE DEF n
    <3> QED BY <1>2 DEF Lists, s
  <2> HIDE DEF n
  <2>2. n \in Nat
    BY <1>2
  <2> QED BY <2>1, <2>2, ListSeq
<1> HIDE DEF n
<1>5. ASSUME NEW k \in 1..n
      PROVE  /\ t[k].off \in Nat /\ t[k].len \in Nat /\ t[k].off >= a * BlockSize
             /\ t[k].off + t[k].len = (a + k) * BlockSize
             /\ t[k].off + t[k].len =< b * BlockSize
  <2>1. PICK c : c = a + k - 1
    OBVIOUS
  <2>2. c \in Nat /\ a =< c /\ c + 1 = a + k /\ c + 1 =< b /\ c + 1 \in Nat
    <3>1. b = a + n /\ k \in 1..n /\ n \in Nat
      BY <1>1, <1>2 DEF n
    <3> QED BY <2>1, <3>1
  <2>3. c * BlockSize \in Nat /\ a * BlockSize =< c * BlockSize
        /\ (c + 1) * BlockSize =< b * BlockSize
    BY <2>2, Scaled
  <2>4. (c + 1) * BlockSize = c * BlockSize + BlockSize
    BY <2>2, Blocks
  <2>5. t[k].off = c * BlockSize /\ t[k].len = BlockSize /\ BlockSize \in Nat
    BY <1>3, <2>1, Blocks
  <2> QED BY <2>2, <2>3, <2>4, <2>5
<1>6. ASSUME NEW k \in 1..n, NEW j \in 1..(k - 1) PROVE t[j].off + t[j].len =< t[k].off
  <2>1. PICK c : c = a + k - 1
    OBVIOUS
  <2>2. j \in 1..n /\ c \in Nat /\ a + j \in Nat /\ a + j =< c
    BY <1>2, <2>1
  <2>3. t[j].off + t[j].len = (a + j) * BlockSize
    BY <1>5, <2>2
  <2>4. (a + j) * BlockSize =< c * BlockSize
    BY <2>2, Scaled
  <2> QED BY <1>3, <2>1, <2>3, <2>4
<1>7. InLine(t, a * BlockSize, b * BlockSize)
  BY <1>3, <1>5, <1>6 DEF InLine
<1> QED BY <1>3, <1>4, <1>7

\* A node's data, in line.
LEMMA DataLine ==
  ASSUME plan \in Plans, NEW i \in 1..Nodes, NEW a \in Nat, NEW b \in Nat,
         PartsLie(i, a, b), NEW parts, parts = StoredParts(plan[i]), NEW t,
         t = [p \in DOMAIN parts |->
                Write(StoredAt(i, p) * BlockSize, parts[p],
                      [kind |-> "data", node |-> i, part |-> p])]
  PROVE  /\ IsSeq(t) /\ IsSeq(Filled(t)) /\ InLine(Filled(t), a * BlockSize, b * BlockSize)
         /\ \A k \in DOMAIN Filled(t) : Filled(t)[k].what.kind # "super"
<1> DEFINE n == Len(parts)
<1>1. IsNode(plan[i])
  BY NodeFacts
<1>2. IsSeq(parts) /\ \A p \in DOMAIN parts : parts[p] \in Int
  <2>1. CASE plan[i].kind \in {"chunked", "compressed"}
    BY <1>1, <2>1, PartFacts
  <2>2. CASE plan[i].kind \in {"file", "symlink"}
    <3>1. plan[i].len \in Nat
      BY <1>1, <2>2 DEF IsNode
    <3>2. parts = <<plan[i].len>> \/ parts = <<>>
      BY <2>2 DEF StoredParts
    <3>3. parts \in Seq(Nat) /\ \A p \in DOMAIN parts : parts[p] \in Int
      <4>1. CASE parts = <<>>
        BY <4>1
      <4>2. CASE parts = <<plan[i].len>>
        <5>1. PICK l \in Nat : parts = <<l>>
          BY <3>1, <4>2
        <5>2. <<l>> \in Seq(Nat) /\ DOMAIN <<l>> = {1} /\ <<l>>[1] = l
          OBVIOUS
        <5> QED BY <5>1, <5>2
      <4> QED BY <3>2, <4>1, <4>2
    <3> QED BY <3>3, OwnSeq
  <2>3. CASE plan[i].kind \in {"dir", "special"}
    <3>1. parts = <<>>
      BY <2>3 DEF StoredParts
    <3>2. parts \in Seq(Nat) /\ DOMAIN parts = {}
      BY <3>1
    <3> QED BY <3>2, OwnSeq
  <2> QED BY <1>1, <2>1, <2>2, <2>3 DEF IsNode
<1>3. n \in Nat /\ DOMAIN parts = 1..n
  BY <1>2, SeqFacts
<1> HIDE DEF n
<1>4. /\ DOMAIN t = 1..n
      /\ \A p \in 1..n : /\ t[p].off = StoredAt(i, p) * BlockSize /\ t[p].len = parts[p]
                         /\ t[p].what.kind = "data"
  BY <1>3 DEF Write
<1>5. IsSeq(t)
  <2>1. Lists(t, n)
    BY <1>3 DEF Lists
  <2> QED BY <1>3, <2>1, ListSeq
<1>6. ASSUME NEW k \in DOMAIN t, t[k].len > 0
      PROVE  /\ t[k].off \in Nat /\ t[k].len \in Nat
             /\ t[k].off >= a * BlockSize /\ t[k].off + t[k].len =< b * BlockSize
             /\ \A j \in 1..(k - 1) : t[j].len > 0 => t[j].off + t[j].len =< t[k].off
  <2>1. k \in DOMAIN parts /\ parts[k] > 0 /\ parts[k] \in Nat /\ t[k].len = parts[k]
    BY <1>2, <1>3, <1>4, <1>6
  <2>2. /\ StoredAt(i, k) \in Nat /\ StoredAt(i, k) >= a
        /\ StoredAt(i, k) * BlockSize + parts[k] =< b * BlockSize
        /\ \A q \in 1..(k - 1) : parts[q] > 0 =>
             StoredAt(i, q) * BlockSize + parts[q] =< StoredAt(i, k) * BlockSize
    BY <2>1 DEF PartsLie
  <2>3. PICK c : c = StoredAt(i, k)
    OBVIOUS
  <2>4. c * BlockSize \in Nat /\ a * BlockSize =< c * BlockSize /\ a * BlockSize \in Nat
    <3>1. c \in Nat /\ a =< c
      BY <2>2, <2>3
    <3> QED BY <3>1, Scaled
  <2>5. t[k].off = c * BlockSize
    BY <1>4, <2>3
  <2>6. \A j \in 1..(k - 1) : t[j].off = StoredAt(i, j) * BlockSize /\ t[j].len = parts[j]
    BY <1>3, <1>4
  <2>7. \A j \in 1..(k - 1) : t[j].len > 0 => t[j].off + t[j].len =< t[k].off
    BY <2>2, <2>3, <2>5, <2>6
  <2>8. c * BlockSize + parts[k] =< b * BlockSize
    BY <2>2, <2>3
  <2> QED BY <2>1, <2>4, <2>5, <2>7, <2>8
<1> DEFINE v == Filled(t)
<1>0. PICK x, y : x = a * BlockSize /\ y = b * BlockSize
  OBVIOUS
<1>7. /\ IsSeq(v) /\ InLine(v, x, y) /\ \A j \in DOMAIN v : \E k \in DOMAIN t : v[j] = t[k]
  <2>1. PICK s : s = t
    OBVIOUS
  <2>2. IsSeq(s) /\ \A k \in DOMAIN s : s[k].len > 0 =>
               /\ s[k].off \in Nat /\ s[k].len \in Nat
               /\ s[k].off >= x /\ s[k].off + s[k].len =< y
               /\ \A j \in 1..(k - 1) : s[j].len > 0 => s[j].off + s[j].len =< s[k].off
    BY <1>0, <1>5, <1>6, <2>1
  <2>3. /\ IsSeq(Filled(s)) /\ InLine(Filled(s), x, y)
        /\ \A j \in DOMAIN Filled(s) : \E k \in DOMAIN s : Filled(s)[j] = s[k]
    BY <2>2, FilledLine
  <2> QED BY <2>1, <2>3
<1>8. \A k \in DOMAIN v : v[k].what.kind # "super"
  <2> SUFFICES ASSUME NEW j \in DOMAIN v PROVE v[j].what.kind # "super"
    OBVIOUS
  <2>1. PICK k \in DOMAIN t : v[j] = t[k]
    BY <1>7
  <2> HIDE DEF v
  <2>2. t[k].what.kind = "data"
    BY <1>4, <2>1
  <2> QED BY <2>1, <2>2
<1> QED BY <1>0, <1>5, <1>7, <1>8

\* An emission that wrote its line has kept what it must.
LEMMA EmissionKeeps ==
  ASSUME LayoutInv, UNCHANGED planned, plan' = plan, slots' = slots, blobs' = blobs,
         next' = next, next >= 2, Len(slots) = Nodes, at' \in 1..Nodes,
         NEW f, NEW g, DirsLie(f, Nodes), Behind(f[1]), g[1] = f[Nodes + 1],
         DataLies(g, Nodes), g[Nodes + 1] = next, pass' \in Emitting,
         pass' = "inodes" => EndsBy(img', MetaBase + slots[at'].start),
         pass' = "dirblocks" => EndsBy(img', f[at'] * BlockSize),
         pass' = "filedata" => EndsBy(img', g[at'] * BlockSize),
         Placed(img'), Apart(img'), Sealed(img'), EndsBy(img', next * BlockSize)
  PROVE  LayoutInv'
<1>1. plan \in Plans /\ blobs \in BlobSizes /\ next \in Nat /\ SlotsRight
  BY DEF LayoutInv
<1>2. /\ SlotsRight' /\ Nodes' = Nodes /\ DirsLie(f, Nodes)' /\ DataLies(g, Nodes)'
      /\ Behind(f[1])'
  BY <1>1, KeptLines
<1>3. pass' \notin Planning /\ pass' # "failed"
  BY DEF Planning, Emitting
<1>4. Placing'
  <2>1. (/\ DirsLie(f, Nodes) /\ Behind(f[1]) /\ g[1] = f[Nodes + 1]
         /\ DataLies(g, Nodes) /\ g[Nodes + 1] = next
         /\ pass = "dirblocks" => EndsBy(img, f[at] * BlockSize)
         /\ pass = "filedata" => EndsBy(img, g[at] * BlockSize))'
    BY <1>2
  <2> QED BY <1>2, <2>1 DEF Placing, Emitting
<1>5. FailsForCause'
  BY <1>3 DEF FailsForCause
<1> QED BY <1>1, <1>2, <1>3, <1>4, <1>5 DEF LayoutInv

\* What holds while an emission runs.
LEMMA EmittingFacts ==
  ASSUME LayoutInv, pass \in Emitting
  PROVE  /\ plan \in Plans /\ SlotsRight /\ Len(slots) = Nodes /\ at \in 1..Nodes
         /\ next \in Nat /\ next >= 2 /\ Nodes \in Nat \ {0} /\ DOMAIN slots = 1..Nodes
         /\ Placed(img) /\ Apart(img) /\ Sealed(img) /\ EndsBy(img, next * BlockSize)
         /\ \E f, g : /\ DirsLie(f, Nodes) /\ Behind(f[1]) /\ g[1] = f[Nodes + 1]
                      /\ DataLies(g, Nodes) /\ g[Nodes + 1] = next
                      /\ pass = "dirblocks" => EndsBy(img, f[at] * BlockSize)
                      /\ pass = "filedata" => EndsBy(img, g[at] * BlockSize)
<1>1. plan \in Plans /\ SlotsRight /\ at \in 1..Nodes /\ next \in Nat /\ Placing
  BY DEF LayoutInv
<1>2. Len(slots) = Nodes /\ next >= 2
  BY <1>1 DEF Placing
<1>3. Nodes \in Nat \ {0} /\ DOMAIN slots = 1..Nodes
  BY <1>1, <1>2, NodeFacts, SlotsAll
<1> QED BY <1>1, <1>2, <1>3 DEF LayoutInv, Placing

\* What a step that plans nothing leaves.
LEMMA PlanParts ==
  ASSUME UNCHANGED planned
  PROVE  plan' = plan /\ slots' = slots /\ blobs' = blobs
BY DEF planned

\* What ends by one place ends by every later one.
LEMMA Later ==
  ASSUME NEW s, Placed(s), NEW x \in Nat, NEW y \in Nat, x =< y, EndsBy(s, x)
  PROVE  EndsBy(s, y)
<1> SUFFICES ASSUME NEW k \in DOMAIN s PROVE s[k].off + s[k].len =< y
  BY DEF EndsBy
<1>1. s[k].off \in Nat /\ s[k].len \in Nat /\ s[k].off + s[k].len =< x
  BY DEF EndsBy, Placed
<1> QED BY <1>1

\* The emission writes its lines where they were planned.
LEMMA EmitInodeKeeps == LayoutInv /\ EmitInode => LayoutInv'
<1> SUFFICES ASSUME LayoutInv, EmitInode PROVE LayoutInv'
  OBVIOUS
<1>0. pass = "inodes" /\ UNCHANGED <<planned, next>> /\ pass \in Emitting
  BY DEF EmitInode, Emitting
<1>1. plan' = plan /\ slots' = slots /\ blobs' = blobs /\ next' = next
  BY <1>0, PlanParts
<1>2. PICK f, g : /\ DirsLie(f, Nodes) /\ Behind(f[1]) /\ g[1] = f[Nodes + 1]
                  /\ DataLies(g, Nodes) /\ g[Nodes + 1] = next
  BY <1>0, EmittingFacts
<1>3. /\ plan \in Plans /\ SlotsRight /\ Len(slots) = Nodes /\ at \in 1..Nodes
      /\ next \in Nat /\ next >= 2 /\ Nodes \in Nat \ {0} /\ DOMAIN slots = 1..Nodes
      /\ Placed(img) /\ Apart(img) /\ Sealed(img) /\ EndsBy(img, next * BlockSize)
      /\ EndsBy(img, MetaBase + slots[at].start)
  BY <1>0, EmittingFacts DEF LayoutInv
<1>4. PICK i, laid : i = at /\ laid = Laid(Emitted(i), MetaBase + slots[i].start)
  OBVIOUS
<1>5. i \in 1..Nodes /\ i \in DOMAIN slots
      /\ (plan[i].kind = "chunked" => Len(addrsOf[Nid(i)]) = Len(plan[i].chunks))
  BY <1>2, <1>3, <1>4 DEF DataLies
<1> DEFINE t == Filled(laid.writes)
<1>6. PICK from, to, last, end :
        /\ from = MetaBase + slots[i].start /\ to = MetaBase + SlotEnd(slots[i])
        /\ last = f[1] * BlockSize /\ end = next * BlockSize
  OBVIOUS
<1>7. /\ laid.end = to /\ IsSeq(t) /\ InLine(t, from, to)
      /\ \A k \in DOMAIN t : t[k].what.kind # "super"
  <2> HIDE DEF t
  <2> QED BY <1>3, <1>4, <1>5, <1>6, InodeLine DEF t
<1>8. img' = img \o t /\ Step("dirblocks")
  <2>1. \A x : x = Laid(Emitted(at), MetaBase + slots[at].start) =>
          /\ img' = img \o Filled(x.writes)
          /\ IF x.end # MetaBase + SlotEnd(slots[at])
             THEN FailFor("emission") /\ UNCHANGED at
             ELSE Step("dirblocks") /\ UNCHANGED cause
    BY DEF EmitInode
  <2> QED BY <1>4, <1>6, <1>7, <2>1
<1> HIDE DEF t
<1>9. /\ from \in Nat /\ to \in Nat /\ last \in Nat /\ end \in Nat
      /\ from >= MetaBase /\ from =< to /\ to =< last /\ last =< end
  <2>1. 1 \in 1..(Nodes + 1)
    BY <1>3
  <2>2. f[1] \in Nat /\ f[1] =< next
    BY <1>2, <1>3, <2>1, Between
  <2>3. /\ MetaBase \in Nat /\ slots[i].start \in Nat /\ SlotEnd(slots[i]) \in Nat
        /\ slots[i].start =< SlotEnd(slots[i])
        /\ f[1] * BlockSize \in Nat /\ MetaBase + SlotEnd(slots[i]) =< f[1] * BlockSize
    BY <1>2, <1>3, <1>5, <2>2, Ahead
  <2>4. f[1] * BlockSize =< next * BlockSize /\ next * BlockSize \in Nat
    BY <1>3, <2>2, Scaled
  <2> QED BY <1>6, <2>3, <2>4
<1>10. to =< end /\ EndsBy(img, from)
  BY <1>3, <1>4, <1>6, <1>9
<1>11. Placed(img') /\ Apart(img') /\ Sealed(img') /\ EndsBy(img', to) /\ EndsBy(img', end)
  BY <1>3, <1>7, <1>8, <1>9, <1>10, Emits
<1>12. /\ at' \in 1..Nodes
       /\ \/ i < Nodes /\ at' = i + 1 /\ pass' = "inodes"
          \/ i = Nodes /\ at' = 1 /\ pass' = "dirblocks"
  BY <1>0, <1>3, <1>4, <1>8, StepFacts
<1>13. pass' = "inodes" => EndsBy(img', MetaBase + slots[at'].start)
  <2> SUFFICES ASSUME pass' = "inodes" PROVE EndsBy(img', MetaBase + slots[at'].start)
    OBVIOUS
  <2>1. PICK j : j = i + 1
    OBVIOUS
  <2>2. j \in DOMAIN slots /\ at' = j /\ i \in 1..(j - 1)
    BY <1>3, <1>5, <1>12, <2>1
  <2>3. SlotEnd(slots[i]) =< slots[j].start
    BY <1>3, <2>2 DEF SlotsRight
  <2>4. slots[j].start \in Nat /\ SlotEnd(slots[i]) \in Nat /\ MetaBase \in Nat
    BY <1>3, <1>5, <2>2, SlotFacts, MetaFacts
  <2>5. PICK y : y = MetaBase + slots[j].start
    OBVIOUS
  <2>6. y \in Nat /\ to =< y
    BY <1>6, <2>3, <2>4, <2>5
  <2>7. EndsBy(img', y)
    BY <1>9, <1>11, <2>6, Later
  <2> QED BY <2>2, <2>5, <2>7
<1>14. pass' = "dirblocks" => EndsBy(img', f[at'] * BlockSize)
  <2>1. EndsBy(img', last)
    BY <1>9, <1>11, Later
  <2> QED BY <1>6, <1>12, <2>1
<1>15. pass' \in Emitting /\ pass' # "filedata"
  BY <1>12 DEF Emitting
<1>16. EndsBy(img', next * BlockSize)
  BY <1>6, <1>11
<1> QED BY <1>0, <1>1, <1>2, <1>3, <1>11, <1>12, <1>13, <1>14, <1>15, <1>16, EmissionKeeps

\* The blocks of the directory, or nothing, are written next.
LEMMA EmitDirectoryKeeps == LayoutInv /\ EmitDirectory => LayoutInv'
<1> SUFFICES ASSUME LayoutInv, EmitDirectory PROVE LayoutInv'
  OBVIOUS
<1>0. pass = "dirblocks" /\ UNCHANGED <<planned, next, cause>> /\ pass \in Emitting
      /\ Step("filedata")
  BY DEF EmitDirectory, Emitting
<1>1. plan' = plan /\ slots' = slots /\ blobs' = blobs /\ next' = next
  BY <1>0, PlanParts
<1>2. PICK f, g : /\ DirsLie(f, Nodes) /\ Behind(f[1]) /\ g[1] = f[Nodes + 1]
                  /\ DataLies(g, Nodes) /\ g[Nodes + 1] = next
                  /\ EndsBy(img, f[at] * BlockSize)
  BY <1>0, EmittingFacts
<1>3. /\ plan \in Plans /\ SlotsRight /\ Len(slots) = Nodes /\ at \in 1..Nodes
      /\ next \in Nat /\ next >= 2 /\ Nodes \in Nat \ {0} /\ DOMAIN slots = 1..Nodes
      /\ Placed(img) /\ Apart(img) /\ Sealed(img) /\ EndsBy(img, next * BlockSize)
  BY <1>0, EmittingFacts
<1>4. PICK i, j, a, b : i = at /\ j = i + 1 /\ a = f[i] /\ b = f[j]
  OBVIOUS
<1>5. i \in 1..(Nodes + 1) /\ j \in 1..(Nodes + 1) /\ 1 \in 1..(Nodes + 1) /\ i \in 1..Nodes
      /\ Nodes + 1 \in 1..(Nodes + 1)
  BY <1>3, <1>4
<1>6. /\ a \in Nat /\ b \in Nat /\ f[1] \in Nat /\ f[1] =< a /\ b =< next
      /\ f[1] =< b
  BY <1>2, <1>3, <1>4, <1>5, Between
<1>7. PICK from, to, end : from = a * BlockSize /\ to = b * BlockSize /\ end = next * BlockSize
  OBVIOUS
<1>8. a =< b
  <2>1. CASE plan[i].kind = "dir"
    <3>1. b = a + Len(packed[Nid(i)]) /\ IsSeq(packed[Nid(i)])
      BY <1>2, <1>4, <1>5, <2>1 DEF DirsLie
    <3> QED BY <1>6, <3>1, SeqFacts
  <2>2. CASE plan[i].kind # "dir"
    BY <1>2, <1>4, <1>5, <1>6, <2>2 DEF DirsLie
  <2> QED BY <2>1, <2>2
<1>9. /\ from \in Nat /\ to \in Nat /\ end \in Nat
      /\ from >= MetaBase /\ from =< to /\ to =< end
  <2>1. f[1] * BlockSize =< a * BlockSize /\ f[1] * BlockSize \in Nat
    BY <1>6, Scaled
  <2>2. a * BlockSize =< b * BlockSize /\ a * BlockSize \in Nat
    BY <1>6, <1>8, Scaled
  <2>3. b * BlockSize =< next * BlockSize /\ b * BlockSize \in Nat
    BY <1>3, <1>6, Scaled
  <2>4. next * BlockSize \in Nat
    BY <1>3, Scaled
  <2>5. MetaBase =< f[1] * BlockSize /\ MetaBase \in Nat
    <3>1. /\ MetaBase \in Nat /\ SlotEnd(slots[i]) \in Nat
          /\ f[1] * BlockSize \in Nat /\ MetaBase + SlotEnd(slots[i]) =< f[1] * BlockSize
      BY <1>2, <1>3, <1>5, <1>6, Ahead
    <3> QED BY <3>1
  <2> QED BY <1>7, <2>1, <2>2, <2>3, <2>4, <2>5
<1>10. EndsBy(img, from)
  BY <1>2, <1>4, <1>7
<1>11. Placed(img') /\ Apart(img') /\ Sealed(img') /\ EndsBy(img', to) /\ EndsBy(img', end)
  <2>1. CASE plan[i].kind # "dir"
    <3>1. img' = img
      BY <1>4, <2>1 DEF EmitDirectory, Node
    <3>2. EndsBy(img, to)
      BY <1>3, <1>9, <1>10, Later
    <3> QED BY <1>3, <1>7, <3>1, <3>2
  <2>2. CASE plan[i].kind = "dir"
    <3>1. PICK t : t = [k \in DOMAIN packed[Nid(i)] |->
                   Write((blockOf[Nid(i)] + k - 1) * BlockSize, BlockSize,
                         [kind |-> "dirblock", node |-> i, part |-> k,
                          entries |-> packed[Nid(i)][k]])]
      OBVIOUS
    <3>2. img' = img \o t
      BY <1>4, <2>2, <3>1 DEF EmitDirectory, Node
    <3>3. /\ IsSeq(t) /\ InLine(t, a * BlockSize, b * BlockSize)
          /\ \A k \in DOMAIN t : t[k].what.kind # "super"
      <4>1. b = f[i + 1]
        BY <1>4
      <4> QED BY <1>2, <1>3, <1>4, <1>5, <1>6, <2>2, <3>1, <4>1, DirLine
    <3>4. InLine(t, from, to)
      BY <1>7, <3>3
    <3> QED BY <1>3, <1>9, <1>10, <3>2, <3>3, <3>4, Emits
  <2> QED BY <2>1, <2>2
<1>12. /\ at' \in 1..Nodes
       /\ \/ i < Nodes /\ at' = j /\ pass' = "dirblocks"
          \/ i = Nodes /\ at' = 1 /\ pass' = "filedata"
  BY <1>0, <1>3, <1>4, StepFacts
<1>13. pass' = "dirblocks" => EndsBy(img', f[at'] * BlockSize)
  BY <1>4, <1>7, <1>11, <1>12
<1>14. pass' = "filedata" => EndsBy(img', g[at'] * BlockSize)
  <2> SUFFICES ASSUME pass' = "filedata" PROVE EndsBy(img', g[at'] * BlockSize)
    OBVIOUS
  <2>1. at' = 1 /\ j = Nodes + 1
    BY <1>4, <1>12
  <2> QED BY <1>2, <1>4, <1>7, <1>11, <2>1
<1>15. pass' \in Emitting /\ pass' # "inodes"
  BY <1>12 DEF Emitting
<1>16. EndsBy(img', next * BlockSize)
  BY <1>7, <1>11
<1> QED BY <1>0, <1>1, <1>2, <1>3, <1>11, <1>12, <1>13, <1>14, <1>15, <1>16, EmissionKeeps

\* The data of the node, or nothing, is written next.
LEMMA EmitDataKeeps == LayoutInv /\ EmitData => LayoutInv'
<1> SUFFICES ASSUME LayoutInv, EmitData PROVE LayoutInv'
  OBVIOUS
<1>0. pass = "filedata" /\ UNCHANGED <<planned, next, cause>> /\ pass \in Emitting
      /\ Step("done")
  BY DEF EmitData, Emitting
<1>1. plan' = plan /\ slots' = slots /\ blobs' = blobs /\ next' = next
  BY <1>0, PlanParts
<1>2. PICK f, g : /\ DirsLie(f, Nodes) /\ Behind(f[1]) /\ g[1] = f[Nodes + 1]
                  /\ DataLies(g, Nodes) /\ g[Nodes + 1] = next
                  /\ EndsBy(img, g[at] * BlockSize)
  BY <1>0, EmittingFacts
<1>3. /\ plan \in Plans /\ SlotsRight /\ Len(slots) = Nodes /\ at \in 1..Nodes
      /\ next \in Nat /\ next >= 2 /\ Nodes \in Nat \ {0} /\ DOMAIN slots = 1..Nodes
      /\ Placed(img) /\ Apart(img) /\ Sealed(img) /\ EndsBy(img, next * BlockSize)
  BY <1>0, EmittingFacts
<1>4. PICK i, j, a, b : i = at /\ j = i + 1 /\ a = g[i] /\ b = g[j]
  OBVIOUS
<1>5. i \in 1..(Nodes + 1) /\ j \in 1..(Nodes + 1) /\ i \in 1..Nodes
  BY <1>3, <1>4
<1>6. /\ a \in Nat /\ b \in Nat /\ f[1] \in Nat /\ f[1] =< a /\ b =< next
  BY <1>2, <1>3, <1>4, <1>5, Between
<1>7. PICK from, to, end : from = a * BlockSize /\ to = b * BlockSize /\ end = next * BlockSize
  OBVIOUS
<1>8. a =< b /\ PartsLie(i, a, b)
  BY <1>2, <1>4, <1>5 DEF DataLies
<1>9. /\ from \in Nat /\ to \in Nat /\ end \in Nat
      /\ from >= MetaBase /\ from =< to /\ to =< end
  <2>1. f[1] * BlockSize =< a * BlockSize /\ f[1] * BlockSize \in Nat
    BY <1>6, Scaled
  <2>2. a * BlockSize =< b * BlockSize /\ a * BlockSize \in Nat
    BY <1>6, <1>8, Scaled
  <2>3. b * BlockSize =< next * BlockSize /\ b * BlockSize \in Nat
    BY <1>3, <1>6, Scaled
  <2>4. next * BlockSize \in Nat
    BY <1>3, Scaled
  <2>5. MetaBase =< f[1] * BlockSize /\ MetaBase \in Nat
    <3>1. /\ MetaBase \in Nat /\ SlotEnd(slots[i]) \in Nat
          /\ f[1] * BlockSize \in Nat /\ MetaBase + SlotEnd(slots[i]) =< f[1] * BlockSize
      BY <1>2, <1>3, <1>5, <1>6, Ahead
    <3> QED BY <3>1
  <2> QED BY <1>7, <2>1, <2>2, <2>3, <2>4, <2>5
<1>10. EndsBy(img, from)
  BY <1>2, <1>4, <1>7
<1>11. Placed(img') /\ Apart(img') /\ Sealed(img') /\ EndsBy(img', to) /\ EndsBy(img', end)
  <2>1. PICK parts : parts = StoredParts(plan[i])
    OBVIOUS
  <2>2. PICK t : t = [p \in DOMAIN parts |->
                Write(StoredAt(i, p) * BlockSize, parts[p],
                      [kind |-> "data", node |-> i, part |-> p])]
    OBVIOUS
  <2>3. img' = img \o Filled(t)
    BY <1>4, <2>1, <2>2 DEF EmitData, Node
  <2>4. /\ IsSeq(Filled(t)) /\ InLine(Filled(t), a * BlockSize, b * BlockSize)
        /\ \A k \in DOMAIN Filled(t) : Filled(t)[k].what.kind # "super"
    BY <1>3, <1>5, <1>6, <1>8, <2>1, <2>2, DataLine
  <2>5. PICK v : v = Filled(t)
    OBVIOUS
  <2>6. IsSeq(v) /\ InLine(v, from, to) /\ \A k \in DOMAIN v : v[k].what.kind # "super"
    BY <1>7, <2>4, <2>5
  <2> QED BY <1>3, <1>9, <1>10, <2>3, <2>5, <2>6, Emits
<1>12. /\ at' \in 1..Nodes
       /\ \/ i < Nodes /\ at' = j /\ pass' = "filedata"
          \/ i = Nodes /\ at' = 1 /\ pass' = "done"
  BY <1>0, <1>3, <1>4, StepFacts
<1>13. pass' = "filedata" => EndsBy(img', g[at'] * BlockSize)
  BY <1>4, <1>7, <1>11, <1>12
<1>15. pass' \in Emitting /\ pass' # "inodes" /\ pass' # "dirblocks"
  BY <1>12 DEF Emitting
<1>16. EndsBy(img', next * BlockSize)
  BY <1>7, <1>11
<1> QED BY <1>0, <1>1, <1>2, <1>3, <1>11, <1>12, <1>13, <1>15, <1>16, EmissionKeeps

\* The invariant holds of the first state.
LEMMA InitRight == Init => LayoutInv
<1> SUFFICES ASSUME Init PROVE LayoutInv
  OBVIOUS
<1>1. /\ plan \in Plans /\ blobs \in BlobSizes /\ pass = "flatten" /\ at = 1
      /\ slots = <<>> /\ next = 0 /\ img = <<>>
  BY DEF Init
<1>2. Nodes \in Nat \ {0}
  BY <1>1, ImageLayoutAssumption, PlanFacts DEF Nodes
<1>3. SlotsRight
  <2>1. slots \in Seq([start : Nat, span : Nat]) /\ Len(slots) = 0 /\ DOMAIN slots = {}
    BY <1>1
  <2> QED BY <1>2, <2>1 DEF SlotsRight
<1>4. Placing
  BY <1>1 DEF Placing, Emitting
<1>5. IsSeq(img) /\ DOMAIN img = {}
  BY <1>1 DEF IsSeq
<1>6. Placed(img) /\ Apart(img) /\ EndsBy(img, next * BlockSize) /\ Sealed(img)
  BY <1>5 DEF Placed, Apart, EndsBy, Sealed
<1>7. FailsForCause
  BY <1>1 DEF FailsForCause
<1> QED BY <1>1, <1>2, <1>3, <1>4, <1>6, <1>7 DEF LayoutInv, Planning

\* A step that does nothing keeps it.
LEMMA StutterKeeps == LayoutInv /\ UNCHANGED vars => LayoutInv'
<1> SUFFICES ASSUME LayoutInv, UNCHANGED vars PROVE LayoutInv'
  OBVIOUS
<1>1. /\ plan' = plan /\ blobs' = blobs /\ slots' = slots /\ img' = img /\ at' = at
      /\ next' = next /\ pass' = pass /\ UNCHANGED planned
  BY DEF vars, planned
<1>2. SlotsRight' /\ Nodes' = Nodes
  BY <1>1, Kept DEF LayoutInv
<1>3. Placing'
  <2>1. \A f, m : DirsLie(f, m)' <=> DirsLie(f, m)
    BY <1>1, Kept
  <2>2. \A g, m : DataLies(g, m)' <=> DataLies(g, m)
    BY <1>1, Kept
  <2>3. \A b : Behind(b)' <=> Behind(b)
    BY <1>1, Kept
  <2>4. Placing
    BY DEF LayoutInv
  <2>5. pass = "directories" =>
          (\E f : DirsLie(f, at - 1) /\ f[at] = next /\ Behind(f[1]))'
    <3> SUFFICES ASSUME pass = "directories"
                 PROVE  (\E f : DirsLie(f, at - 1) /\ f[at] = next /\ Behind(f[1]))'
      OBVIOUS
    <3>1. PICK f : DirsLie(f, at - 1) /\ f[at] = next /\ Behind(f[1])
      BY <2>4 DEF Placing
    <3>2. PICK m : m = at - 1
      OBVIOUS
    <3>3. DirsLie(f, m)' /\ Behind(f[1])' /\ m = at' - 1
      BY <1>1, <2>1, <2>3, <3>1, <3>2
    <3> QED BY <1>1, <3>1, <3>3
  <2>6. pass = "data" =>
          (\E f, g : /\ DirsLie(f, Nodes) /\ Behind(f[1]) /\ g[1] = f[Nodes + 1]
                     /\ DataLies(g, at - 1) /\ g[at] = next)'
    <3> SUFFICES ASSUME pass = "data"
                 PROVE  (\E f, g : /\ DirsLie(f, Nodes) /\ Behind(f[1]) /\ g[1] = f[Nodes + 1]
                                   /\ DataLies(g, at - 1) /\ g[at] = next)'
      OBVIOUS
    <3>1. PICK f, g : /\ DirsLie(f, Nodes) /\ Behind(f[1]) /\ g[1] = f[Nodes + 1]
                      /\ DataLies(g, at - 1) /\ g[at] = next
      BY <2>4 DEF Placing
    <3>2. PICK m, n : m = at - 1 /\ n = Nodes
      OBVIOUS
    <3>3. DirsLie(f, n)' /\ Behind(f[1])' /\ DataLies(g, m)' /\ m = at' - 1
      BY <1>1, <2>1, <2>2, <2>3, <3>1, <3>2
    <3> QED BY <1>1, <1>2, <3>1, <3>2, <3>3
  <2>7. pass \in {"size", "gap"} \cup Emitting =>
          (\E f, g : /\ DirsLie(f, Nodes) /\ Behind(f[1]) /\ g[1] = f[Nodes + 1]
                     /\ DataLies(g, Nodes) /\ g[Nodes + 1] = next
                     /\ pass = "dirblocks" => EndsBy(img, f[at] * BlockSize)
                     /\ pass = "filedata" => EndsBy(img, g[at] * BlockSize))'
    <3> SUFFICES ASSUME pass \in {"size", "gap"} \cup Emitting
                 PROVE  (\E f, g :
                     /\ DirsLie(f, Nodes) /\ Behind(f[1]) /\ g[1] = f[Nodes + 1]
                     /\ DataLies(g, Nodes) /\ g[Nodes + 1] = next
                     /\ pass = "dirblocks" => EndsBy(img, f[at] * BlockSize)
                     /\ pass = "filedata" => EndsBy(img, g[at] * BlockSize))'
      OBVIOUS
    <3>1. PICK f, g : /\ DirsLie(f, Nodes) /\ Behind(f[1]) /\ g[1] = f[Nodes + 1]
                      /\ DataLies(g, Nodes) /\ g[Nodes + 1] = next
                      /\ pass = "dirblocks" => EndsBy(img, f[at] * BlockSize)
                      /\ pass = "filedata" => EndsBy(img, g[at] * BlockSize)
      BY <2>4 DEF Placing
    <3>2. PICK n : n = Nodes
      OBVIOUS
    <3>3. DirsLie(f, n)' /\ Behind(f[1])' /\ DataLies(g, n)'
      BY <2>1, <2>2, <2>3, <3>1, <3>2
    <3> QED BY <1>1, <1>2, <3>1, <3>2, <3>3
  <2>8. /\ pass' \in {"flatten", "bodies"} => slots' = <<>> /\ at' = 1
        /\ pass' = "metadata" => Len(slots') = at' - 1
        /\ pass' \in {"directories", "data", "size", "gap"} \cup Emitting =>
             Len(slots') = Nodes' /\ next' >= 2
    BY <1>1, <1>2, <2>4 DEF Placing
  <2>9. Emitting' = Emitting
    BY DEF Emitting
  <2> QED BY <1>1, <2>5, <2>6, <2>7, <2>8, <2>9 DEF Placing
<1>4. FailsForCause'
  <2>1. CASE pass' # "failed"
    BY <2>1 DEF FailsForCause
  <2>2. CASE pass' = "failed"
    <3>1. FailsForCause /\ pass = "failed"
      BY <1>1, <2>2 DEF LayoutInv
    <3>2. Node' = Node
      BY <1>1 DEF Node
    <3>3. Addresses(Parts(Node), next)' = Addresses(Parts(Node), next)
      BY <1>1, <3>2
    <3> QED BY <1>1, <3>1, <3>2, <3>3 DEF FailsForCause
  <2> QED BY <2>1, <2>2
<1> QED BY <1>1, <1>2, <1>3, <1>4 DEF LayoutInv

\* LayoutInv is an invariant.
LEMMA LayoutAlways == Spec => []LayoutInv
<1>1. LayoutInv /\ [Next]_vars => LayoutInv'
  <2> SUFFICES ASSUME LayoutInv, [Next]_vars PROVE LayoutInv'
    OBVIOUS
  <2>1. CASE Flatten
    BY <2>1, FlattenKeeps
  <2>2. CASE PlanBodies
    BY <2>2, PlanBodiesKeeps
  <2>3. CASE PlaceInode
    BY <2>3, PlaceInodeKeeps
  <2>4. CASE PlaceDirectory
    BY <2>4, PlaceDirectoryKeeps
  <2>5. CASE PlaceData
    BY <2>5, PlaceDataKeeps
  <2>6. CASE SizeImage
    BY <2>6, SizeImageKeeps
  <2>7. CASE WriteGap
    BY <2>7, WriteGapKeeps
  <2>8. CASE EmitInode
    BY <2>8, EmitInodeKeeps
  <2>9. CASE EmitDirectory
    BY <2>9, EmitDirectoryKeeps
  <2>10. CASE EmitData
    BY <2>10, EmitDataKeeps
  <2>11. CASE UNCHANGED vars
    BY <2>11, StutterKeeps
  <2> QED BY <2>1, <2>2, <2>3, <2>4, <2>5, <2>6, <2>7, <2>8, <2>9, <2>10, <2>11 DEF Next
<1> QED BY InitRight, <1>1, PTL DEF Spec

\* No write of a build touches a byte that another wrote or leaves the image
\* (mkfs.rs, build_image_with), for every tree, blobs and size of block.
THEOREM WritesAlwaysApart == Spec => []WritesApart
<1>1. LayoutInv => WritesApart
  <2> SUFFICES ASSUME LayoutInv PROVE WritesApart
    OBVIOUS
  <2>1. Apart(img) /\ EndsBy(img, next * BlockSize)
    BY DEF LayoutInv
  <2> QED BY <2>1 DEF WritesApart, Apart, EndsBy, ImageSize
<1> QED BY LayoutAlways, <1>1, PTL

\* What the superblock's checksum covers is final when it is computed (mkfs.rs,
\* build_image_with), for every tree, blobs and size of block.
THEOREM ChecksumAlwaysHolds == Spec => []ChecksumHolds
<1>1. LayoutInv => ChecksumHolds
  <2> SUFFICES ASSUME LayoutInv, HasChecksum, NEW k \in DOMAIN img, NEW j \in (k + 1)..Len(img),
                      img[k].what.kind = "super"
               PROVE  ~Overlap(img[j].off, img[j].len, SuperOffset, ChecksumEnd - SuperOffset)
    BY DEF ChecksumHolds
  <2>1. img[j].off >= MetaBase
    BY DEF LayoutInv, Sealed
  <2>2. img[j].off \in Nat
    <3>1. Placed(img)
      BY DEF LayoutInv
    <3>2. Len(img) \in Nat /\ DOMAIN img = 1..Len(img)
      BY <3>1, SeqFacts DEF Placed
    <3>3. j \in DOMAIN img
      BY <3>2
    <3> QED BY <3>1, <3>3 DEF Placed
  <2>3. MetaBase \in Nat /\ MetaBase >= ChecksumEnd
    BY MetaFacts
  <2>4. ChecksumEnd \in Int /\ SuperOffset \in Nat
    <3>1. 1024 % BlockSize \in Int /\ BlockSize \in Int
      BY Blocks
    <3> QED BY <3>1 DEF ChecksumEnd, SuperOffset
  <2>5. ~(img[j].off < SuperOffset + (ChecksumEnd - SuperOffset))
    BY <2>1, <2>2, <2>3, <2>4
  <2> QED BY <2>5 DEF Overlap
<1> QED BY LayoutAlways, <1>1, PTL

\* A build fails only for what the tree or the options ask: the sizes its emission
\* checks are those it planned (mkfs.rs, build_image_with).
THEOREM AlwaysFailsForCause == Spec => []FailsForCause
<1>1. LayoutInv => FailsForCause
  BY DEF LayoutInv
<1> QED BY LayoutAlways, <1>1, PTL

-----------------------------------------------------------------------------
(***************************************************************************)
(* What the reader finds.                                                  *)
(***************************************************************************)
\* Where each of five parts laid end to end from `from` lies.
FiveAt(w, e, from) ==
  /\ DOMAIN w = 1..5
  /\ \A k \in 1..5 : w[k].what = e[k][2] /\ w[k].len = e[k][1] /\ e[k][1] \in Nat
  /\ w[1].off = from
  /\ w[3].off = from + (e[1][1] + e[2][1])
  /\ w[4].off = from + (e[1][1] + e[2][1] + e[3][1])
  /\ w[5].off = from + (e[1][1] + e[2][1] + e[3][1] + e[4][1])

LEMMA FivePlaces ==
  ASSUME NEW e, NEW from \in Nat, DOMAIN e = 1..5, Len(e) = 5,
         \A k \in 1..5 : e[k][1] \in Nat, NEW laid, laid = Laid(e, from)
  PROVE  FiveAt(laid.writes, e, from)
<1> DEFINE w == laid.writes
<1>1. PICK n : n = 5
  OBVIOUS
<1>2. n \in Nat /\ DOMAIN e = 1..n /\ Sized(e, n)
  BY <1>1 DEF Sized
<1>3. LaidOut(e, 5, from, laid) /\ w = laid.writes
  BY <1>1, <1>2, LaidFacts
<1>4. PICK g : /\ g[0] = from /\ \A k \in 1..5 : g[k] = g[k - 1] + e[k][1]
               /\ \A k \in 1..5 : w[k].off = g[k - 1] /\ w[k].len = e[k][1]
  BY <1>3 DEF LaidOut
<1>5. PICK x \in [1..5 -> Nat] : \A k \in 1..5 : x[k] = e[k][1]
  <2>1. [k \in 1..5 |-> e[k][1]] \in [1..5 -> Nat]
    OBVIOUS
  <2> QED BY <2>1
<1>6. g[0] = from /\ \A k \in 1..5 : g[k] = g[k - 1] + x[k]
  BY <1>4, <1>5
<1>7. /\ g[0] = from /\ g[2] = from + (x[1] + x[2])
      /\ g[3] = from + (x[1] + x[2] + x[3])
      /\ g[4] = from + (x[1] + x[2] + x[3] + x[4])
  <2>1. g[1] = from + x[1]
    BY <1>6
  <2>2. g[2] = from + (x[1] + x[2])
    BY <1>6, <2>1
  <2>3. g[3] = from + (x[1] + x[2] + x[3])
    BY <1>6, <2>2
  <2>4. g[4] = from + (x[1] + x[2] + x[3] + x[4])
    BY <1>6, <2>3
  <2> QED BY <1>6, <2>2, <2>3, <2>4
<1>8. w[1].off = g[0] /\ w[3].off = g[2] /\ w[4].off = g[3] /\ w[5].off = g[4]
  <2>1. 1 \in 1..5 /\ 3 \in 1..5 /\ 4 \in 1..5 /\ 5 \in 1..5
    OBVIOUS
  <2> QED BY <1>4, <2>1
<1>9. x[1] = e[1][1] /\ x[2] = e[2][1] /\ x[3] = e[3][1] /\ x[4] = e[4][1]
  BY <1>5
<1>10. DOMAIN w = 1..5 /\ \A k \in 1..5 : w[k].what = e[k][2] /\ w[k].len = e[k][1]
  BY <1>3, <1>4 DEF LaidOut
<1> QED BY <1>7, <1>8, <1>9, <1>10 DEF FiveAt

\* Filled leaves out only what writes nothing.
LEMMA FilledHolds ==
  ASSUME NEW s, IsSeq(s)
  PROVE  /\ IsSeq(Filled(s))
         /\ \A k \in DOMAIN s : s[k].len > 0 =>
              \E j \in DOMAIN Filled(s) : Filled(s)[j] = s[k]
         /\ \A j \in DOMAIN Filled(s) : \E k \in DOMAIN s : Filled(s)[j] = s[k]
<1> DEFINE F == FilledTo(s)
           n == Len(s)
           W == {s[k] : k \in DOMAIN s}
           Right(k) == /\ IsSeq(F[k])
                       /\ \A i \in 1..k : s[i].len > 0 => \E j \in DOMAIN F[k] : F[k][j] = s[i]
                       /\ \A j \in DOMAIN F[k] : \E i \in 1..k : F[k][j] = s[i]
           S == {k \in Nat : k <= n => Right(k)}
<1>0. n \in Nat /\ Filled(s) = F[n] /\ (\A k \in 0..n : F[k] = Fill(F, s, k)) /\ DOMAIN s = 1..n
  BY FilledIs, SeqFacts
<1> HIDE DEF F, n
<1>1. 0 \in S
  <2>1. F[0] = <<>>
    BY <1>0 DEF Fill
  <2>2. IsSeq(F[0]) /\ DOMAIN F[0] = {}
    BY <2>1 DEF IsSeq
  <2> QED BY <2>2
<1>2. ASSUME NEW k \in S PROVE k + 1 \in S
  <2>0. k \in Nat /\ k + 1 \in Nat
    OBVIOUS
  <2> SUFFICES ASSUME k + 1 <= n PROVE Right(k + 1)
    BY <2>0
  <2>1. Right(k)
    BY <1>0, <2>0
  <2>2. F[k + 1] = IF s[k + 1].len > 0 THEN Append(F[k], s[k + 1]) ELSE F[k]
    <3>1. k + 1 \in 0..n /\ k + 1 # 0 /\ (k + 1) - 1 = k
      BY <1>0, <2>0
    <3> QED BY <1>0, <3>1 DEF Fill
  <2>3. \A i \in 1..(k + 1) : i \in 1..k \/ i = k + 1
    BY <2>0
  <2>4. CASE ~(s[k + 1].len > 0)
    BY <2>0, <2>1, <2>2, <2>3, <2>4
  <2>5. CASE s[k + 1].len > 0
    <3> DEFINE b == <<s[k + 1]>>
    <3>1. b \in Seq({s[k + 1]}) /\ Len(b) = 1 /\ b[1] = s[k + 1] /\ DOMAIN b = 1..1
      OBVIOUS
    <3>2. IsSeq(b) /\ IsSeq(F[k])
      BY <2>1, <3>1, OwnSeq
    <3>3. F[k + 1] = F[k] \o b
      <4> DEFINE V == {F[k][j] : j \in DOMAIN F[k]} \cup {s[k + 1]}
      <4>1. F[k] \in Seq(V) /\ s[k + 1] \in V
        BY <3>2, SeqIn
      <4> HIDE DEF V
      <4>2. Append(F[k], s[k + 1]) = F[k] \o b
        BY <4>1, AppendIsConcat
      <4> QED BY <2>2, <2>5, <4>2
    <3> DEFINE u == F[k] \o b
               l == Len(F[k])
    <3>12. F[k + 1] = u
      BY <3>3
    <3> HIDE DEF b
    <3>4. /\ IsSeq(u) /\ DOMAIN u = 1..(l + Len(b))
          /\ \A j \in 1..(l + Len(b)) :
               \/ j \in DOMAIN F[k] /\ u[j] = F[k][j]
               \/ j > l /\ j - l \in DOMAIN b /\ u[j] = b[j - l]
      BY <3>2, JoinFacts
    <3>5. l \in Nat /\ DOMAIN F[k] = 1..l
      BY <3>2, SeqFacts
    <3> HIDE DEF u, l
    <3>6. ASSUME NEW j \in DOMAIN F[k] PROVE j \in DOMAIN u /\ u[j] = F[k][j]
      <4>1. j \in 1..(l + Len(b)) /\ ~(j > l)
        BY <3>1, <3>5
      <4> QED BY <3>4, <4>1
    <3>7. l + 1 \in DOMAIN u /\ u[l + 1] = s[k + 1]
      <4>1. l + 1 \in 1..(l + Len(b)) /\ l + 1 \notin DOMAIN F[k] /\ (l + 1) - l = 1
        BY <3>1, <3>5
      <4> QED BY <3>1, <3>4, <4>1
    <3>8. \A j \in DOMAIN u : (j \in DOMAIN F[k] /\ u[j] = F[k][j]) \/ u[j] = s[k + 1]
      <4> TAKE j \in DOMAIN u
      <4>1. j - l \in DOMAIN b => j - l = 1
        BY <3>1
      <4> QED BY <3>1, <3>4, <4>1
    <3>9. \A i \in 1..k : s[i].len > 0 => \E j \in DOMAIN u : u[j] = s[i]
      BY <2>1, <3>6
    <3>10. \A j \in DOMAIN u : \E i \in 1..(k + 1) : u[j] = s[i]
      <4> TAKE j \in DOMAIN u
      <4>1. CASE j \in DOMAIN F[k] /\ u[j] = F[k][j]
        <5>1. PICK i \in 1..k : F[k][j] = s[i]
          BY <2>1, <4>1
        <5> QED BY <2>0, <4>1, <5>1
      <4>2. CASE u[j] = s[k + 1]
        BY <2>0, <4>2
      <4> QED BY <3>8, <4>1, <4>2
    <3>11. \A i \in 1..(k + 1) : s[i].len > 0 => \E j \in DOMAIN u : u[j] = s[i]
      BY <2>3, <3>7, <3>9
    <3> QED BY <3>4, <3>10, <3>11, <3>12
  <2> QED BY <2>4, <2>5
<1>3. S = Nat
  <2> HIDE DEF S
  <2>1. S \in SUBSET Nat
    BY DEF S
  <2> QED BY <1>1, <1>2, <2>1, NatInd
<1>4. Right(n)
  BY <1>0, <1>3
<1> QED BY <1>0, <1>4

\* A power of two.
LEMMA PowerFacts ==
  ASSUME NEW k \in Nat
  PROVE  2^k \in Nat /\ 2^k > 0
<1> DEFINE S == 1..k
<1>1. IsFiniteSet(S) /\ Cardinality(S) = k
  BY FS_Interval
<1> HIDE DEF S
<1>2. IsFiniteSet(SUBSET S) /\ Cardinality(SUBSET S) = 2^k
  BY <1>1, FS_SUBSET
<1>3. Cardinality(SUBSET S) \in Nat
  BY <1>2, FS_CardinalityType
<1>4. Cardinality(SUBSET S) # 0
  BY <1>2, FS_EmptySet
<1> QED BY <1>2, <1>3, <1>4

\* What one write wrote is found where it was written.
LEMMA Read ==
  ASSUME NEW s, Placed(s), Apart(s), NEW k \in DOMAIN s, NEW off \in Nat, NEW len \in Nat,
         len > 0, s[k].off =< off, off + len =< s[k].off + s[k].len
  PROVE  At(s, off, len) = <<s[k].what, off - s[k].off>>
<1> DEFINE whole(j) == /\ s[j].off =< off
                       /\ off + len =< s[j].off + s[j].len
                       /\ \A i \in (j + 1)..Len(s) :
                            ~Overlap(s[i].off, s[i].len, off, len)
           holders == {j \in DOMAIN s : whole(j)}
<1>1. Len(s) \in Nat /\ DOMAIN s = 1..Len(s)
  BY SeqFacts DEF Placed
<1>2. \A j \in DOMAIN s : s[j].off \in Nat /\ s[j].len \in Nat
  BY DEF Placed
<1>3. ASSUME NEW j \in DOMAIN s, j # k PROVE ~Overlap(s[j].off, s[j].len, s[k].off, s[k].len)
  <2>1. CASE j < k
    <3>1. j \in 1..(k - 1)
      BY <1>1, <2>1
    <3> QED BY <3>1 DEF Apart
  <2>2. CASE k < j
    <3>1. k \in 1..(j - 1)
      BY <1>1, <2>2
    <3>2. ~Overlap(s[k].off, s[k].len, s[j].off, s[j].len)
      BY <3>1 DEF Apart
    <3> QED BY <3>2 DEF Overlap
  <2>3. j < k \/ k < j
    BY <1>1, <1>3
  <2> QED BY <2>1, <2>2, <2>3
<1>4. ASSUME NEW j \in DOMAIN s, j # k PROVE ~Overlap(s[j].off, s[j].len, off, len)
  BY <1>2, <1>3, <1>4 DEF Overlap
<1>5. k \in holders
  <2>1. \A i \in (k + 1)..Len(s) : i \in DOMAIN s /\ i # k
    BY <1>1
  <2> QED BY <1>4, <2>1
<1>6. ASSUME NEW j \in holders PROVE j = k
  <2> SUFFICES ASSUME j # k PROVE FALSE
    OBVIOUS
  <2>1. ~Overlap(s[j].off, s[j].len, off, len)
    BY <1>4
  <2>2. s[j].off =< off /\ off + len =< s[j].off + s[j].len /\ s[j].off \in Nat /\ s[j].len \in Nat
    BY <1>2
  <2> QED BY <2>1, <2>2 DEF Overlap
<1>7. At(s, off, len) =
        IF holders = {} THEN <<"lost">>
        ELSE <<s[CHOOSE j \in holders : TRUE].what, off - s[CHOOSE j \in holders : TRUE].off>>
  BY DEF At
<1> HIDE DEF holders
<1>8. (CHOOSE j \in holders : TRUE) = k
  BY <1>5, <1>6
<1> QED BY <1>5, <1>7, <1>8

\* A packing's blocks hold nothing but the entries, and there is one if there are any.
LEMMA PackedFrom ==
  ASSUME NEW entries, Named(entries), Packable(entries)
  PROVE  /\ \A p \in DOMAIN Packing(entries) : \A x \in DOMAIN Packing(entries)[p] :
              \E y \in DOMAIN entries : Packing(entries)[p][x] = entries[y]
         /\ Len(entries) > 0 => Len(Packing(entries)) > 0
<1> DEFINE l == Len(entries)
           q == CHOOSE q : q = [from \in 1..(Len(entries) + 1) |-> Pack(q, entries, from)]
           R(m) == (l + 1 - m)..(l + 1)
           Own(b) == \A p \in DOMAIN b : \A x \in DOMAIN b[p] :
                       \E y \in DOMAIN entries : b[p][x] = entries[y]
           Right(m) == \A from \in R(m) : IsSeq(q[from]) /\ Own(q[from])
           S == {m \in Nat : m =< l => Right(m)}
<1>0. l \in Nat /\ DOMAIN entries = 1..l
  BY SeqFacts DEF Named
<1>1. Packing(entries) = q[1]
  BY DEF Packing, Pack
<1>2. q = [from \in 1..(Len(entries) + 1) |-> Pack(q, entries, from)]
  BY PackExists
<1> HIDE DEF q
<1>3. \A from \in 1..(l + 1) : q[from] = Pack(q, entries, from)
  BY <1>2
<1>4. IsSeq(<<>>) /\ Own(<<>>)
  BY DEF IsSeq
<1>40. ASSUME NEW from \in DOMAIN entries
       PROVE  /\ BlockEnd(entries, from) \in from..l
              /\ IsSeq(<<SubSeq(entries, from, BlockEnd(entries, from))>>)
              /\ Own(<<SubSeq(entries, from, BlockEnd(entries, from))>>)
              /\ q[from] = <<SubSeq(entries, from, BlockEnd(entries, from))>>
                           \o q[BlockEnd(entries, from) + 1]
  <2> DEFINE to == BlockEnd(entries, from)
             c == SubSeq(entries, from, to)
             b == <<c>>
  <2>1. to \in from..l
    BY BlockEndFacts
  <2>2. b \in Seq({c}) /\ DOMAIN b = 1..1 /\ b[1] = c
    <3> HIDE DEF c
    <3> QED OBVIOUS
  <2>3. IsSeq(b)
    <3> HIDE DEF b
    <3> QED BY <2>2, OwnSeq
  <2>4. \A x \in DOMAIN c : \E y \in DOMAIN entries : c[x] = entries[y]
    <3> DEFINE W == {entries[k] : k \in DOMAIN entries}
    <3>1. entries \in Seq(W)
      BY DEF Named, IsSeq
    <3> HIDE DEF W, to
    <3>2. from \in 1..l /\ to \in 1..l
      BY <1>0, <2>1
    <3>3. c = [k \in 1..(to - from + 1) |-> entries[from + k - 1]]
      BY <3>1, <3>2
    <3>4. \A k \in 1..(to - from + 1) : from + k - 1 \in 1..l
      BY <1>0, <3>2
    <3> HIDE DEF c, l
    <3> QED BY <1>0, <3>3, <3>4
  <2> HIDE DEF c
  <2>5. Own(b)
    BY <2>2, <2>4
  <2>6. q[from] = b \o q[to + 1]
    <3>1. from \in 1..(l + 1) /\ ~(from > l)
      BY <1>0
    <3> QED BY <1>3, <3>1 DEF Pack, c
  <2> QED BY <2>1, <2>3, <2>5, <2>6 DEF c
<1>41. ASSUME NEW b, NEW d, IsSeq(b), IsSeq(d), Own(b), Own(d)
       PROVE  IsSeq(b \o d) /\ Own(b \o d)
  <2> DEFINE u == b \o d
             n == Len(b)
  <2>1. /\ IsSeq(u) /\ DOMAIN u = 1..(n + Len(d))
        /\ \A k \in 1..(n + Len(d)) : \/ k \in DOMAIN b /\ u[k] = b[k]
                                      \/ k > n /\ k - n \in DOMAIN d /\ u[k] = d[k - n]
    BY <1>41, JoinFacts
  <2> HIDE DEF u, n
  <2>2. Own(u)
    BY <1>41, <2>1
  <2> QED BY <2>1, <2>2 DEF u
<1>5. 0 \in S
  <2>1. \A from \in R(0) : from \in 1..(l + 1) /\ from > Len(entries)
    BY <1>0
  <2>2. \A from \in R(0) : q[from] = <<>>
    BY <1>3, <2>1 DEF Pack
  <2> HIDE DEF R, Own
  <2> QED BY <1>4, <2>2
<1>6. ASSUME NEW m \in S PROVE m + 1 \in S
  <2>0. m \in Nat /\ m + 1 \in Nat
    OBVIOUS
  <2> SUFFICES ASSUME m + 1 =< l PROVE Right(m + 1)
    BY <2>0
  <2>1. \A from \in R(m) : IsSeq(q[from]) /\ Own(q[from])
    BY <1>0, <2>0
  <2> SUFFICES ASSUME NEW from \in R(m + 1) PROVE IsSeq(q[from]) /\ Own(q[from])
    OBVIOUS
  <2> HIDE DEF Own
  <2>2. CASE from \in R(m)
    BY <2>1, <2>2
  <2>3. CASE ~(from \in R(m))
    <3> DEFINE to == BlockEnd(entries, from) + 1
               b == <<SubSeq(entries, from, BlockEnd(entries, from))>>
    <3>1. from \in DOMAIN entries
      BY <1>0, <2>0, <2>3
    <3>2. /\ BlockEnd(entries, from) \in from..l /\ IsSeq(b) /\ Own(b) /\ q[from] = b \o q[to]
      BY <1>40, <3>1
    <3>3. to \in R(m)
      <4> HIDE DEF l
      <4> QED BY <1>0, <2>0, <3>1, <3>2
    <3>6. IsSeq(q[to]) /\ Own(q[to])
      BY <2>1, <3>3
    <3> HIDE DEF b, to, R
    <3> QED BY <1>41, <3>2, <3>6
  <2> QED BY <2>2, <2>3
<1>7. S = Nat
  <2> HIDE DEF S
  <2>1. S \in SUBSET Nat
    BY DEF S
  <2> QED BY <1>5, <1>6, <2>1, NatInd
<1>8. Right(l) /\ \A from \in 1..(l + 1) : from \in R(l)
  BY <1>0, <1>7
<1> HIDE DEF R
<1>9. \A from \in 1..(l + 1) : IsSeq(q[from]) /\ Own(q[from])
  BY <1>8
<1>10. Own(q[1])
  BY <1>0, <1>9
<1>11. ASSUME l > 0 PROVE Len(q[1]) > 0
  <2> DEFINE to == BlockEnd(entries, 1) + 1
             b == <<SubSeq(entries, 1, BlockEnd(entries, 1))>>
  <2>1. 1 \in DOMAIN entries
    BY <1>0, <1>11
  <2>2. BlockEnd(entries, 1) \in 1..l /\ IsSeq(b) /\ q[1] = b \o q[to] /\ Len(b) = 1
    BY <1>40, <2>1
  <2>3. IsSeq(q[to])
    BY <1>0, <1>9, <2>2
  <2>4. PICK t : t = q[to]
    OBVIOUS
  <2> HIDE DEF b, to
  <2>5. Len(b \o t) = Len(b) + Len(t) /\ Len(t) \in Nat
    BY <2>2, <2>3, <2>4, JoinFacts, SeqFacts
  <2> QED BY <2>2, <2>4, <2>5
<1> QED BY <1>1, <1>10, <1>11

-----------------------------------------------------------------------------
(***************************************************************************)
(* What the reader finds rests on more than the places: on what a pass has *)
(* put under the NIDs of the nodes behind it, and on what an emission has  *)
(* written of them.                                                        *)
(***************************************************************************)
\* The nodes that pass p is done with, when those after it are `later`.
Through(p, later) == IF pass = p THEN at - 1 ELSE IF pass \in later THEN Nodes ELSE 0

DirsDone  == Through("directories", {"data", "size", "gap"} \cup Emitting)
DataDone  == Through("data", {"size", "gap"} \cup Emitting)
InodesOut == Through("inodes", {"dirblocks", "filedata", "done"})
BlocksOut == Through("dirblocks", {"filedata", "done"})
DataOut   == Through("filedata", {"done"})

\* What is to be written for a node in each pass of the emission.
InodeWrites(i) == Laid(Emitted(i), MetaBase + slots[i].start).writes
BlockWrites(i) ==
  [k \in DOMAIN packed[Nid(i)] |->
     Write((blockOf[Nid(i)] + k - 1) * BlockSize, BlockSize,
           [kind |-> "dirblock", node |-> i, part |-> k,
            entries |-> packed[Nid(i)][k]])]
DataWrites(i) ==
  [p \in DOMAIN StoredParts(plan[i]) |->
     Write(StoredAt(i, p) * BlockSize, StoredParts(plan[i])[p],
           [kind |-> "data", node |-> i, part |-> p])]
Written(s, writes) ==
  \A k \in DOMAIN writes : writes[k].len > 0 => \E j \in DOMAIN s : s[j] = writes[k]

\* An inode begins where a NID can say, and is in one block with a tail it has.
SlotsFit ==
  /\ slots # <<>> => slots[1].start = 0
  /\ \A i \in DOMAIN slots :
       /\ slots[i].start % 32 = 0
       /\ Inlined(plan[i]) => (slots[i].start % BlockSize) + slots[i].span =< BlockSize

\* The last passes of the plan begin at its first node.
Rewound == pass \in {"size", "gap"} => at = 1

BodiesSound ==
  pass \notin {"flatten", "bodies", "failed"} => \A i \in DOMAIN plan : ~BodyRefused(plan[i])

DirsPacked ==
  \A i \in 1..DirsDone : plan[i].kind = "dir" =>
    Packable(DirEntries(i)) /\ packed[Nid(i)] = Packing(DirEntries(i))

HolesNull ==
  \A i \in 1..DataDone : plan[i].kind = "chunked" =>
    \A c \in DOMAIN plan[i].chunks : plan[i].chunks[c] = Hole => addrsOf[Nid(i)][c] = NullAddr

AddrsFit ==
  /\ \A nid \in DOMAIN addrsOf : \A k \in DOMAIN addrsOf[nid] : addrsOf[nid][k] =< MaxBlocks
  /\ pass \in {"gap"} \cup Emitting => next =< MaxBlocks

AllWritten ==
  /\ \A i \in 1..InodesOut : Written(img, InodeWrites(i))
  /\ \A i \in 1..BlocksOut : plan[i].kind = "dir" => Written(img, BlockWrites(i))
  /\ \A i \in 1..DataOut : Written(img, DataWrites(i))

\* A directory block that was written is one of the directory's.
OfDir(what) ==
  what.kind = "dirblock" =>
    /\ what.node \in DOMAIN plan /\ plan[what.node].kind = "dir"
    /\ \E p \in DOMAIN packed[Nid(what.node)] : what.entries = packed[Nid(what.node)][p]
BlocksOfDirs == \A k \in DOMAIN img : OfDir(img[k].what)

FoundInv ==
  /\ SlotsFit /\ Rewound /\ BodiesSound /\ DirsPacked /\ HolesNull /\ AddrsFit
  /\ AllWritten /\ BlocksOfDirs

-----------------------------------------------------------------------------
\* Where an inode is placed.
LEMMA StartFits ==
  ASSUME NEW from \in Nat, NEW span \in Nat, NEW trailers
  PROVE  /\ SlotStart(from, span, trailers) % 32 = 0
         /\ trailers > 0 /\ span =< BlockSize =>
              (SlotStart(from, span, trailers) % BlockSize) + span =< BlockSize
         /\ from = 0 => SlotStart(from, span, trailers) = 0
<1> DEFINE cursor == CeilTo(from, CompactSize)
           up == CeilTo(cursor, BlockSize)
<1>1. cursor \in Nat /\ cursor % 32 = 0
  <2>1. CompactSize = 32 /\ CompactSize \in Nat /\ CompactSize > 0
    BY DEF CompactSize
  <2>2. CeilDiv(from, 32) \in Nat /\ cursor = CeilDiv(from, 32) * 32
    BY <2>1, Ceiling
  <2> HIDE DEF cursor
  <2> QED BY <2>2
<1>2. SlotStart(from, span, trailers) =
        IF trailers > 0 /\ (cursor % BlockSize) + span > BlockSize THEN up ELSE cursor
  BY DEF SlotStart
<1> HIDE DEF cursor
<1>3. BlockSize > 0 /\ BlockSize \in Nat
  BY Blocks
<1>4. PICK q \in Nat : up = q * BlockSize
  BY <1>1, <1>3, Ceiling
<1> HIDE DEF up
<1>5. up % 32 = 0 /\ up % BlockSize = 0
  <2>1. BlockSize \in {512, 1024, 2048, 4096, 8192, 16384, 32768, 65536}
    BY ImagePlanAssumption
  <2>2. ASSUME NEW b \in {512, 1024, 2048, 4096, 8192, 16384, 32768, 65536}
        PROVE  (q * b) % 32 = 0 /\ (q * b) % b = 0
    OBVIOUS
  <2> QED BY <1>4, <2>1, <2>2
<1>6. cursor % BlockSize \in Int
  BY <1>1, <1>3
<1> DEFINE Fits == /\ SlotStart(from, span, trailers) % 32 = 0
                   /\ trailers > 0 /\ span =< BlockSize =>
                        (SlotStart(from, span, trailers) % BlockSize) + span =< BlockSize
<1>7. ASSUME trailers > 0 /\ (cursor % BlockSize) + span > BlockSize PROVE Fits
  BY <1>2, <1>3, <1>5, <1>7
<1>8. ASSUME ~(trailers > 0 /\ (cursor % BlockSize) + span > BlockSize) PROVE Fits
  BY <1>1, <1>2, <1>3, <1>6, <1>8
<1>9. ASSUME from = 0 PROVE SlotStart(from, span, trailers) = 0
  <2>1. CeilTo(0, 32) = 0
    BY DEF CeilTo, CeilDiv
  <2>2. BlockSize \in {512, 1024, 2048, 4096, 8192, 16384, 32768, 65536}
    BY ImagePlanAssumption
  <2>3. ASSUME NEW b \in {512, 1024, 2048, 4096, 8192, 16384, 32768, 65536}
        PROVE  CeilTo(0, b) = 0
    BY DEF CeilTo, CeilDiv
  <2>4. CeilTo(0, BlockSize) = 0
    BY <2>2, <2>3
  <2>5. CompactSize = 32
    BY DEF CompactSize
  <2> QED BY <1>9, <2>1, <2>4, <2>5 DEF SlotStart
<1> QED BY <1>7, <1>8, <1>9

\* An inlined tail is a trailer that fits its block.
LEMMA InlinedFits ==
  ASSUME NEW n, IsNode(n), Inlined(n)
  PROVE  BodySpan(n) - BodySize(n) > 0 /\ BodySpan(n) =< BlockSize
         /\ BodySpan(n) = BodySize(n) + n.xattr + n.len /\ n.len \in Nat /\ n.len > 0
<1>1. /\ BodySize(n) \in {32, 64} /\ n.xattr \in Nat
      /\ BodySpan(n) = BodySize(n) + n.xattr + TailBytes(n) + MapBytes(n) + ZmapBytes(n)
  BY SpanFacts
<1>2. n.kind = "file" /\ n.len \in 1..(BlockSize - 1)
      /\ n.len =< BlockSize - (BodySize(n) + n.xattr)
  BY DEF Inlined
<1>3. TailBytes(n) = n.len /\ MapBytes(n) = 0 /\ ZmapBytes(n) = 0
  BY <1>2 DEF TailBytes, MapBytes, ZmapBytes
<1>4. n.len \in Nat /\ n.len > 0
  BY <1>2, Blocks
<1> QED BY <1>1, <1>2, <1>3, <1>4, Blocks

\* What the steps leave as it was.
LEMMA SlotsStay ==
  ASSUME LayoutInv, [Next]_vars, ~PlaceInode
  PROVE  plan' = plan /\ slots' = slots
<1>1. CASE UNCHANGED vars
  BY <1>1 DEF vars
<1>2. CASE Flatten \/ PlanBodies \/ SizeImage \/ WriteGap
  BY <1>2 DEF Flatten, PlanBodies, SizeImage, WriteGap, planned
<1>3. CASE PlaceDirectory
  BY <1>3 DEF PlaceDirectory
<1>4. CASE PlaceData
  BY <1>4 DEF PlaceData
<1>5. CASE EmitInode
  BY <1>5 DEF EmitInode, planned
<1>6. CASE EmitDirectory
  BY <1>6 DEF EmitDirectory, planned
<1>7. CASE EmitData
  BY <1>7 DEF EmitData, planned
<1> QED BY <1>1, <1>2, <1>3, <1>4, <1>5, <1>6, <1>7 DEF Next

LEMMA SlotsFitKeeps == LayoutInv /\ SlotsFit /\ [Next]_vars => SlotsFit'
<1> SUFFICES ASSUME LayoutInv, SlotsFit, [Next]_vars PROVE SlotsFit'
  OBVIOUS
<1>1. CASE ~PlaceInode
  BY <1>1, SlotsStay DEF SlotsFit
<1>2. CASE PlaceInode
  <2> DEFINE n == Len(slots)
             from == IF slots = <<>> THEN 0 ELSE SlotEnd(Last(slots))
             span == BodySpan(Node)
             new == [start |-> SlotStart(from, span, span - BodySize(Node)), span |-> span]
             W == [start : Nat, span : Nat]
  <2>1. pass = "metadata" /\ slots' = Append(slots, new) /\ plan' = plan
    BY <1>2 DEF PlaceInode
  <2>2. /\ plan \in Plans /\ at \in 1..Nodes /\ SlotsRight /\ n = at - 1
    BY <2>1 DEF LayoutInv, Placing
  <2>3. IsNode(Node)
    BY <2>2, NodeFacts DEF Node
  <2>4. slots \in Seq(W) /\ n \in Nat /\ DOMAIN slots = 1..n
    BY <2>2, LenProperties DEF SlotsRight
  <2>5. from \in Nat
    <3>1. CASE slots = <<>>
      BY <3>1
    <3>2. CASE slots # <<>>
      <4>1. n \in DOMAIN slots
        <5>1. n # 0
          BY <2>4, <3>2, EmptySeq
        <5> QED BY <2>4, <5>1
      <4>2. from = SlotEnd(slots[n])
        BY <3>2 DEF Last
      <4>3. SlotEnd(slots[n]) \in Nat
        BY <2>2, <4>1, SlotFacts
      <4> QED BY <4>2, <4>3
    <3> QED BY <3>1, <3>2
  <2> HIDE DEF from
  <2>6. span \in Nat
    BY <2>3, SpanFacts
  <2>7. /\ new.start % 32 = 0
        /\ from = 0 => new.start = 0
        /\ Inlined(Node) => (new.start % BlockSize) + new.span =< BlockSize
    <3>1. Inlined(Node) => span - BodySize(Node) > 0 /\ span =< BlockSize
      BY <2>3, InlinedFits
    <3> DEFINE trailers == span - BodySize(Node)
    <3>2. new.start = SlotStart(from, span, trailers) /\ new.span = span
      OBVIOUS
    <3> HIDE DEF span, trailers, new
    <3>3. /\ SlotStart(from, span, trailers) % 32 = 0
          /\ from = 0 => SlotStart(from, span, trailers) = 0
          /\ trailers > 0 /\ span =< BlockSize =>
               (SlotStart(from, span, trailers) % BlockSize) + span =< BlockSize
      BY <2>5, <2>6, StartFits
    <3> QED BY <3>1, <3>2, <3>3 DEF trailers
  <2>8. new \in W
    <3>1. SlotStart(from, span, span - BodySize(Node)) \in Nat
      BY <2>5, StartFacts
    <3> QED BY <2>6, <3>1
  <2> HIDE DEF new, W
  <2>9. /\ DOMAIN slots' = 1..(n + 1) /\ slots'[n + 1] = new
        /\ \A i \in 1..n : slots'[i] = slots[i]
    <3>1. Append(slots, new) \in Seq(W) /\ Len(Append(slots, new)) = n + 1
          /\ Append(slots, new)[n + 1] = new
          /\ \A i \in 1..n : Append(slots, new)[i] = slots[i]
      BY <2>4, <2>8, AppendProperties
    <3>2. DOMAIN Append(slots, new) = 1..Len(Append(slots, new))
      BY <3>1, LenProperties
    <3> QED BY <2>1, <3>1, <3>2
  <2>10. n + 1 = at /\ plan'[n + 1] = Node
    BY <2>1, <2>2 DEF Node
  <2>13. slots'[1].start = 0
    <3>1. CASE slots = <<>>
      <4>1. from = 0 /\ n = 0
        BY <3>1 DEF from
      <4> QED BY <2>7, <2>9, <4>1
    <3>2. CASE slots # <<>>
      <4>1. n # 0
        BY <2>4, <3>2, EmptySeq
      <4>2. 1 \in 1..n
        BY <2>4, <4>1
      <4>3. slots'[1] = slots[1]
        BY <2>9, <4>2
      <4> QED BY <3>2, <4>3 DEF SlotsFit
    <3> QED BY <3>1, <3>2
  <2> SUFFICES ASSUME NEW i \in DOMAIN slots'
               PROVE  /\ slots'[i].start % 32 = 0
                      /\ Inlined(plan'[i]) => (slots'[i].start % BlockSize) + slots'[i].span =< BlockSize
    BY <2>13 DEF SlotsFit
  <2>11. CASE i = n + 1
    BY <2>7, <2>9, <2>10, <2>11
  <2>12. CASE i # n + 1
    <3> HIDE DEF n
    <3>1. i \in DOMAIN slots /\ slots'[i] = slots[i] /\ plan'[i] = plan[i]
      BY <2>1, <2>4, <2>9, <2>12
    <3> QED BY <3>1 DEF SlotsFit
  <2> QED BY <2>11, <2>12
<1> QED BY <1>1, <1>2

\* Where each step goes from where it may be taken.
LEMMA Passes ==
  ASSUME LayoutInv, Next
  PROVE  \/ Flatten /\ pass = "flatten" /\ pass' \in {"bodies", "failed"} /\ at' = at
         \/ PlanBodies /\ pass = "bodies" /\ pass' \in {"metadata", "failed"} /\ at' = at
         \/ PlaceInode /\ pass = "metadata" /\ Step("directories")
         \/ PlaceDirectory /\ pass = "directories" /\ (pass' = "failed" \/ Step("data"))
         \/ PlaceData /\ pass = "data" /\ (pass' = "failed" \/ Step("size"))
         \/ SizeImage /\ pass = "size" /\ pass' \in {"gap", "failed"} /\ at' = at
         \/ WriteGap /\ pass = "gap" /\ pass' \in {"inodes", "failed"} /\ at' = at
         \/ EmitInode /\ pass = "inodes" /\ (pass' = "failed" \/ Step("dirblocks"))
         \/ EmitDirectory /\ pass = "dirblocks" /\ Step("filedata")
         \/ EmitData /\ pass = "filedata" /\ Step("done")
<1>1. CASE Flatten \/ PlanBodies \/ SizeImage \/ WriteGap
  BY <1>1 DEF Flatten, PlanBodies, SizeImage, WriteGap, FailFor
<1>2. CASE PlaceInode
  BY <1>2 DEF PlaceInode
<1>3. CASE PlaceDirectory
  BY <1>3 DEF PlaceDirectory, FailFor
<1>4. CASE PlaceData
  BY <1>4 DEF PlaceData, FailFor
<1>5. CASE EmitInode
  BY <1>5 DEF EmitInode, FailFor
<1>6. CASE EmitDirectory \/ EmitData
  BY <1>6 DEF EmitDirectory, EmitData
<1> QED BY <1>1, <1>2, <1>3, <1>4, <1>5, <1>6 DEF Next

LEMMA RewoundKeeps == LayoutInv /\ Rewound /\ [Next]_vars => Rewound'
<1> SUFFICES ASSUME LayoutInv, Rewound, [Next]_vars PROVE Rewound'
  OBVIOUS
<1>1. CASE UNCHANGED vars
  BY <1>1 DEF Rewound, vars
<1>2. CASE Next
  BY <1>2, Passes DEF Rewound, Step
<1> QED BY <1>1, <1>2

LEMMA BodiesSoundKeeps == LayoutInv /\ BodiesSound /\ [Next]_vars => BodiesSound'
<1> SUFFICES ASSUME LayoutInv, BodiesSound, [Next]_vars,
                    pass' \notin {"flatten", "bodies", "failed"}
             PROVE  (\A i \in DOMAIN plan : ~BodyRefused(plan[i]))'
  BY DEF BodiesSound
<1>1. plan' = plan
  <2>1. PlaceInode => plan' = plan
    BY DEF PlaceInode
  <2> QED BY <2>1, SlotsStay
<1>2. \A i \in DOMAIN plan : ~BodyRefused(plan[i])
  <2>1. CASE PlanBodies
    BY <2>1 DEF PlanBodies, FailFor
  <2>2. CASE ~PlanBodies
    <3>1. pass \notin {"flatten", "bodies", "failed"}
      <4>1. CASE UNCHANGED vars
        BY <4>1 DEF vars
      <4>2. CASE Next
        BY <2>2, <4>2, Passes
      <4> QED BY <4>1, <4>2
    <3> QED BY <3>1 DEF BodiesSound
  <2> QED BY <2>1, <2>2
<1> QED BY <1>1, <1>2

-----------------------------------------------------------------------------
\* What a step does to the nodes a pass is done with: its own step adds one.
LEMMA ThroughFacts ==
  ASSUME NEW p, NEW q, NEW later, p \notin later, q \in later, "failed" \notin later,
         p # "failed", at \in 1..Nodes, plan' = plan,
         \/ pass' = "failed"
         \/ pass = p /\ pass' = p /\ at' = at + 1
         \/ pass = p /\ pass' = q /\ at = Nodes
         \/ pass # p /\ pass \notin later /\ pass' = p /\ at' = 1
         \/ pass # p /\ pass \notin later /\ pass' # p /\ pass' \notin later
         \/ pass \in later /\ pass' \in later
  PROVE  \/ Through(p, later)' \in {0, Through(p, later)}
         \/ pass = p /\ pass' # "failed" /\ Through(p, later) = at - 1 /\ Through(p, later)' = at
<1>1. Nodes' = Nodes
  BY DEF Nodes
<1>2. /\ Through(p, later) = IF pass = p THEN at - 1 ELSE IF pass \in later THEN Nodes ELSE 0
      /\ Through(p, later)' = IF pass' = p THEN at' - 1 ELSE IF pass' \in later THEN Nodes ELSE 0
  BY <1>1 DEF Through
<1>3. at \in Int /\ (at + 1) - 1 = at
  OBVIOUS
<1>4. \/ Through(p, later)' = 0 \/ Through(p, later)' = Through(p, later)
      \/ pass = p /\ pass' # "failed" /\ Through(p, later) = at - 1 /\ Through(p, later)' = at
  <2> DEFINE x == Through(p, later)
             y == Through(p, later)'
  <2>1. /\ pass = p => x = at - 1
        /\ pass \in later => x = Nodes
        /\ pass # p /\ pass \notin later => x = 0
        /\ pass' = p => y = at' - 1
        /\ pass' \in later => y = Nodes
        /\ pass' # p /\ pass' \notin later => y = 0
    BY <1>2
  <2> HIDE DEF x, y
  <2>2. \/ y = 0 \/ y = x
        \/ pass = p /\ pass' # "failed" /\ x = at - 1 /\ y = at
    BY <1>3, <2>1
  <2> QED BY <2>2 DEF x, y
<1> QED BY <1>4

\* The nodes that each pass is done with: one more after its own step.
LEMMA DoneFacts ==
  ASSUME LayoutInv, Rewound, [Next]_vars, plan' = plan
  PROVE  /\ \/ DirsDone' \in {0, DirsDone}
            \/ PlaceDirectory /\ pass' # "failed" /\ DirsDone = at - 1 /\ DirsDone' = at
         /\ \/ DataDone' \in {0, DataDone}
            \/ PlaceData /\ pass' # "failed" /\ DataDone = at - 1 /\ DataDone' = at
         /\ \/ InodesOut' \in {0, InodesOut}
            \/ EmitInode /\ pass' # "failed" /\ InodesOut = at - 1 /\ InodesOut' = at
         /\ \/ BlocksOut' \in {0, BlocksOut}
            \/ EmitDirectory /\ BlocksOut = at - 1 /\ BlocksOut' = at
         /\ \/ DataOut' \in {0, DataOut}
            \/ EmitData /\ DataOut = at - 1 /\ DataOut' = at
<1>1. CASE UNCHANGED vars
  <2>1. plan' = plan /\ pass' = pass /\ at' = at
    BY <1>1 DEF vars
  <2> QED BY <2>1 DEF DirsDone, DataDone, InodesOut, BlocksOut, DataOut, Through, Nodes
<1>2. CASE Next
  <2>1. at \in 1..Nodes
    BY DEF LayoutInv
  <2>2. \A p : Step(p) => \/ at' = at + 1 /\ pass' = pass
                          \/ at = Nodes /\ at' = 1 /\ pass' = p
    BY <2>1, StepFacts DEF LayoutInv
  <2>4. \/ pass' = "failed"
        \/ /\ pass \in {"flatten", "bodies", "metadata"}
           /\ pass' \in {"flatten", "bodies", "metadata"}
        \/ pass = "metadata" /\ pass' = "directories" /\ at' = 1
        \/ /\ PlaceDirectory /\ pass = "directories"
           /\ \/ pass' = "directories" /\ at' = at + 1
              \/ pass' = "data" /\ at = Nodes /\ at' = 1
        \/ /\ PlaceData /\ pass = "data"
           /\ \/ pass' = "data" /\ at' = at + 1
              \/ pass' = "size" /\ at = Nodes /\ at' = 1
        \/ pass = "size" /\ pass' = "gap"
        \/ pass = "gap" /\ pass' = "inodes" /\ at' = 1
        \/ /\ EmitInode /\ pass = "inodes"
           /\ \/ pass' = "inodes" /\ at' = at + 1
              \/ pass' = "dirblocks" /\ at = Nodes /\ at' = 1
        \/ /\ EmitDirectory /\ pass = "dirblocks"
           /\ \/ pass' = "dirblocks" /\ at' = at + 1
              \/ pass' = "filedata" /\ at = Nodes /\ at' = 1
        \/ /\ EmitData /\ pass = "filedata"
           /\ \/ pass' = "filedata" /\ at' = at + 1
              \/ pass' = "done" /\ at = Nodes
    BY <1>2, <2>2, Passes DEF Rewound
  <2> DEFINE Moves(p, q, later) ==
               \/ pass' = "failed"
               \/ pass = p /\ pass' = p /\ at' = at + 1
               \/ pass = p /\ pass' = q /\ at = Nodes
               \/ pass # p /\ pass \notin later /\ pass' = p /\ at' = 1
               \/ pass # p /\ pass \notin later /\ pass' # p /\ pass' \notin later
               \/ pass \in later /\ pass' \in later
             Done(p, later) ==
               \/ Through(p, later)' \in {0, Through(p, later)}
               \/ pass = p /\ pass' # "failed" /\ Through(p, later) = at - 1
                  /\ Through(p, later)' = at
             afterDirs == {"data", "size", "gap"} \cup Emitting
             afterData == {"size", "gap"} \cup Emitting
             afterInodes == {"dirblocks", "filedata", "done"}
             afterBlocks == {"filedata", "done"}
  <2>5. ASSUME NEW p, NEW q, NEW later, p \notin later, q \in later, "failed" \notin later,
               p # "failed", Moves(p, q, later)
        PROVE  Done(p, later)
    BY <2>1, <2>5, ThroughFacts
  <2>6. Done("directories", afterDirs)
    <3>1. Moves("directories", "data", afterDirs)
      BY <2>4 DEF Emitting
    <3> HIDE DEF Moves, Done
    <3> QED BY <2>5, <3>1 DEF Emitting
  <2>7. Done("data", afterData)
    <3>1. Moves("data", "size", afterData)
      BY <2>4 DEF Emitting
    <3> HIDE DEF Moves, Done
    <3> QED BY <2>5, <3>1 DEF Emitting
  <2>8. Done("inodes", afterInodes)
    <3>1. Moves("inodes", "dirblocks", afterInodes)
      BY <2>4
    <3> HIDE DEF Moves, Done
    <3> QED BY <2>5, <3>1
  <2>9. Done("dirblocks", afterBlocks)
    <3>1. Moves("dirblocks", "filedata", afterBlocks)
      BY <2>4
    <3> HIDE DEF Moves, Done
    <3> QED BY <2>5, <3>1
  <2>10. Done("filedata", {"done"})
    <3>1. Moves("filedata", "done", {"done"})
      BY <2>4
    <3> HIDE DEF Moves, Done
    <3> QED BY <2>5, <3>1
  <2>11. /\ pass = "directories" => PlaceDirectory
         /\ pass = "data" => PlaceData
         /\ pass = "inodes" => EmitInode
         /\ pass = "dirblocks" => EmitDirectory
         /\ pass = "filedata" => EmitData
    BY <1>2, Passes
  <2> QED BY <2>6, <2>7, <2>8, <2>9, <2>10, <2>11
       DEF DirsDone, DataDone, InodesOut, BlocksOut, DataOut
<1> QED BY <1>1, <1>2

\* What a pass is done with was placed.
LEMMA DoneWhere ==
  ASSUME LayoutInv
  PROVE  /\ DirsDone \in 0..Nodes /\ DataDone \in 0..Nodes /\ Nodes \in Nat
         /\ \A i \in 1..DirsDone : plan[i].kind = "dir" =>
              Nid(i) \in DOMAIN packed /\ IsSeq(packed[Nid(i)])
         /\ \A i \in 1..DataDone :
              plan[i].kind \in {"chunked", "compressed"} => Nid(i) \in DOMAIN addrsOf
         /\ DirsDone > 0 \/ DataDone > 0 => Len(slots) = Nodes
<1>1. at \in 1..Nodes /\ Nodes \in Nat
  BY NodeFacts DEF LayoutInv
<1>2. DirsDone \in 0..Nodes /\ DataDone \in 0..Nodes
  BY <1>1 DEF DirsDone, DataDone, Through
<1>3. ASSUME DirsDone > 0
      PROVE  Len(slots) = Nodes /\ \E f : DirsLie(f, DirsDone)
  <2>1. CASE pass = "directories"
    BY <2>1 DEF LayoutInv, Placing, DirsDone, Through
  <2>2. CASE pass = "data"
    BY <2>2 DEF LayoutInv, Placing, DirsDone, Through
  <2>3. CASE pass \in {"size", "gap"} \cup Emitting
    <3>1. DirsDone = Nodes
      BY <2>3 DEF DirsDone, Through, Emitting
    <3> QED BY <2>3, <3>1 DEF LayoutInv, Placing
  <2>4. pass \in {"directories", "data"} \cup {"size", "gap"} \cup Emitting
    BY <1>3 DEF DirsDone, Through
  <2> QED BY <2>1, <2>2, <2>3, <2>4
<1>4. ASSUME DataDone > 0
      PROVE  Len(slots) = Nodes /\ \E g : DataLies(g, DataDone)
  <2>1. CASE pass = "data"
    BY <2>1 DEF LayoutInv, Placing, DataDone, Through
  <2>2. CASE pass \in {"size", "gap"} \cup Emitting
    <3>1. DataDone = Nodes
      BY <2>2 DEF DataDone, Through, Emitting
    <3> QED BY <2>2, <3>1 DEF LayoutInv, Placing
  <2>3. pass \in {"data"} \cup {"size", "gap"} \cup Emitting
    BY <1>4 DEF DataDone, Through
  <2> QED BY <2>1, <2>2, <2>3
<1>5. \A i \in 1..DirsDone : plan[i].kind = "dir" =>
        Nid(i) \in DOMAIN packed /\ IsSeq(packed[Nid(i)])
  <2> TAKE i \in 1..DirsDone
  <2>1. DirsDone > 0
    BY <1>2
  <2> QED BY <1>3, <2>1 DEF DirsLie
<1>6. \A i \in 1..DataDone :
        plan[i].kind \in {"chunked", "compressed"} => Nid(i) \in DOMAIN addrsOf
  <2> TAKE i \in 1..DataDone
  <2>1. DataDone > 0
    BY <1>2
  <2> QED BY <1>4, <2>1 DEF DataLies
<1> QED BY <1>1, <1>2, <1>3, <1>4, <1>5, <1>6

LEMMA DirsPackedKeeps ==
  LayoutInv /\ Rewound /\ DirsPacked /\ [Next]_vars => DirsPacked'
<1> SUFFICES ASSUME LayoutInv, Rewound, DirsPacked, [Next]_vars PROVE DirsPacked'
  OBVIOUS
<1>1. CASE DirsDone' = 0
  BY <1>1 DEF DirsPacked
<1>2. CASE DirsDone' # 0
  <2>1. ~PlaceInode
    BY <1>2 DEF PlaceInode, DirsDone, Through, Step, Emitting
  <2>2. plan' = plan /\ slots' = slots
    BY <2>1, SlotsStay
  <2>3. \A i : DirEntries(i)' = DirEntries(i) /\ Nid(i)' = Nid(i)
    BY <2>2 DEF DirEntries, Nid
  <2>4. \/ DirsDone' = DirsDone
        \/ PlaceDirectory /\ pass' # "failed" /\ DirsDone = at - 1 /\ DirsDone' = at
    BY <1>2, <2>2, DoneFacts
  <2>5. CASE PlaceDirectory /\ pass' # "failed" /\ DirsDone = at - 1 /\ DirsDone' = at
    <3>1. pass = "directories" /\ at \in 1..Nodes /\ plan \in Plans /\ SlotsRight
          /\ Len(slots) = Nodes
      BY <2>5 DEF PlaceDirectory, LayoutInv, Placing
    <3>2. \/ plan[at].kind # "dir" /\ packed' = packed
          \/ /\ plan[at].kind = "dir" /\ Packable(DirEntries(at))
             /\ packed' = Put(packed, Nid(at), Packing(DirEntries(at)))
      BY <2>5 DEF PlaceDirectory, Node, FailFor
    <3> SUFFICES ASSUME NEW i \in 1..at, plan[i].kind = "dir"
                 PROVE  /\ Packable(DirEntries(i))
                        /\ packed'[Nid(i)] = Packing(DirEntries(i))
      BY <2>2, <2>3, <2>5 DEF DirsPacked
    <3>5. plan[at].kind = "dir" =>
            /\ packed'[Nid(at)] = Packing(DirEntries(at))
            /\ \A x \in DOMAIN packed : x # Nid(at) => packed'[x] = packed[x]
      <4> HIDE DEF Nid
      <4> QED BY <3>2 DEF Put
    <3>3. CASE i = at
      BY <3>2, <3>3, <3>5
    <3>4. CASE i # at
      <4>1. i \in 1..DirsDone /\ i \in 1..Nodes
        BY <2>5, <3>1, <3>4
      <4>2. Packable(DirEntries(i)) /\ packed[Nid(i)] = Packing(DirEntries(i))
        BY <4>1 DEF DirsPacked
      <4>3. Nid(i) # Nid(at) /\ Nid(i) \in DOMAIN packed
        BY <3>1, <3>4, <4>1, OwnNid, DoneWhere
      <4>4. packed'[Nid(i)] = packed[Nid(i)]
        <5>1. CASE plan[at].kind # "dir"
          BY <3>2, <5>1
        <5>2. CASE plan[at].kind = "dir"
          BY <3>5, <4>3, <5>2
        <5> QED BY <5>1, <5>2
      <4> QED BY <4>2, <4>4
    <3> QED BY <3>3, <3>4
  <2>6. CASE ~PlaceDirectory /\ DirsDone' = DirsDone
    <3>1. packed' = packed
      <4>1. CASE UNCHANGED vars
        BY <4>1 DEF vars
      <4>2. CASE Next
        BY <2>1, <2>6, <4>2 DEF Next, Flatten, PlanBodies, SizeImage, WriteGap, EmitInode,
             EmitDirectory, EmitData, PlaceData, planned
      <4> QED BY <4>1, <4>2
    <3> QED BY <2>2, <2>3, <2>6, <3>1 DEF DirsPacked
  <2>7. CASE PlaceDirectory /\ DirsDone' = DirsDone
    <3>1. pass = "directories" /\ at \in 1..Nodes
      BY <2>7 DEF PlaceDirectory, LayoutInv
    <3>2. DirsDone' = at
      BY <1>2, <2>2, <2>7, <3>1, StepFacts DEF LayoutInv, PlaceDirectory, FailFor, DirsDone,
           Through, Emitting, Nodes
    <3> QED BY <2>7, <3>1, <3>2 DEF DirsDone, Through
  <2> QED BY <2>4, <2>5, <2>6, <2>7
<1> QED BY <1>1, <1>2

\* A hole is given no address.
LEMMA HoleFacts ==
  ASSUME NEW n, n.kind = "chunked", NEW from, NEW c \in DOMAIN n.chunks, n.chunks[c] = Hole
  PROVE  Addresses(Parts(n), from).addrs[c] = NullAddr
<1>1. c \in DOMAIN Parts(n) /\ Parts(n)[c] = Hole
  BY DEF Parts
<1> QED BY <1>1 DEF Addresses

\* What else PlaceData does not touch: addresses are put under one NID.
LEMMA AddrsPut ==
  ASSUME LayoutInv, [Next]_vars
  PROVE  \/ addrsOf' = addrsOf
         \/ /\ PlaceData /\ Node.kind \in {"chunked", "compressed"}
            /\ ~Unaddressable(Parts(Node), Addresses(Parts(Node), next).addrs)
            /\ addrsOf' = Put(addrsOf, Nid(at), Addresses(Parts(Node), next).addrs)
<1>1. CASE UNCHANGED vars
  BY <1>1 DEF vars
<1>2. CASE PlaceData
  BY <1>2 DEF PlaceData
<1>3. CASE PlaceInode \/ PlaceDirectory
  BY <1>3 DEF PlaceInode, PlaceDirectory
<1>4. CASE Flatten \/ PlanBodies \/ SizeImage \/ WriteGap \/ EmitInode \/ EmitDirectory \/ EmitData
  BY <1>4 DEF Flatten, PlanBodies, SizeImage, WriteGap, EmitInode, EmitDirectory, EmitData,
       planned
<1> QED BY <1>1, <1>2, <1>3, <1>4 DEF Next

LEMMA HolesNullKeeps ==
  LayoutInv /\ Rewound /\ HolesNull /\ [Next]_vars => HolesNull'
<1> SUFFICES ASSUME LayoutInv, Rewound, HolesNull, [Next]_vars PROVE HolesNull'
  OBVIOUS
<1>1. CASE DataDone' = 0
  BY <1>1 DEF HolesNull
<1>2. CASE DataDone' # 0
  <2>1. ~PlaceInode
    BY <1>2 DEF PlaceInode, DataDone, Through, Step, Emitting
  <2>2. plan' = plan /\ slots' = slots
    BY <2>1, SlotsStay
  <2>3. \A i : Nid(i)' = Nid(i)
    BY <2>2 DEF Nid
  <2>4. \/ DataDone' = DataDone
        \/ PlaceData /\ pass' # "failed" /\ DataDone = at - 1 /\ DataDone' = at
    BY <1>2, <2>2, DoneFacts
  <2>5. DataDone \in 0..Nodes /\ Nodes \in Nat /\ at \in 1..Nodes
    BY DoneWhere DEF LayoutInv
  <2> SUFFICES ASSUME NEW i \in 1..DataDone', plan[i].kind = "chunked",
                      NEW c \in DOMAIN plan[i].chunks, plan[i].chunks[c] = Hole
               PROVE  addrsOf'[Nid(i)][c] = NullAddr
    BY <2>2, <2>3 DEF HolesNull
  <2>6. CASE PlaceData /\ i = at /\ plan[i] = Node /\ pass' # "failed"
    <3>1. addrsOf' = Put(addrsOf, Nid(at), Addresses(Parts(Node), next).addrs)
      BY <2>6 DEF PlaceData, FailFor
    <3>2. addrsOf'[Nid(i)] = Addresses(Parts(Node), next).addrs
      <4> HIDE DEF Nid
      <4> QED BY <2>6, <3>1 DEF Put
    <3> QED BY <2>6, <3>2, HoleFacts
  <2>7. CASE i \in 1..DataDone /\ (PlaceData => i # at)
    <3>1. Nid(i) \in DOMAIN addrsOf /\ addrsOf[Nid(i)][c] = NullAddr /\ Len(slots) = Nodes
      BY <2>5, <2>7, DoneWhere DEF HolesNull
    <3>2. CASE addrsOf' = addrsOf
      BY <3>1, <3>2
    <3>3. CASE /\ PlaceData
               /\ addrsOf' = Put(addrsOf, Nid(at), Addresses(Parts(Node), next).addrs)
      <4>1. i \in 1..Nodes /\ i # at
        BY <2>5, <2>7, <3>3
      <4>2. Nid(i) # Nid(at)
        BY <2>5, <3>1, <4>1, OwnNid DEF LayoutInv
      <4>3. addrsOf'[Nid(i)] = addrsOf[Nid(i)]
        <5> HIDE DEF Nid
        <5> QED BY <3>1, <3>3, <4>2 DEF Put
      <4> QED BY <3>1, <4>3
    <3> QED BY <3>2, <3>3, AddrsPut
  <2>8. PlaceData => DataDone = at - 1 \/ pass' = "failed"
    BY DEF PlaceData, DataDone, Through
  <2>9. PlaceData /\ pass' # "failed" => DataDone' = at
    <3> SUFFICES ASSUME PlaceData, pass' # "failed" PROVE DataDone' = at
      OBVIOUS
    <3>1. pass = "data" /\ Step("size") /\ plan \in Plans
      BY DEF PlaceData, FailFor, LayoutInv
    <3>2. Nodes' = Nodes
      BY <2>2 DEF Nodes
    <3>3. \/ at' = at + 1 /\ pass' = "data"
          \/ at = Nodes /\ pass' = "size"
      BY <2>5, <3>1, StepFacts
    <3> QED BY <2>5, <3>2, <3>3 DEF DataDone, Through
  <2>10. pass' # "failed"
    BY <1>2 DEF DataDone, Through, Emitting
  <2> QED BY <2>4, <2>5, <2>6, <2>7, <2>8, <2>9, <2>10 DEF Node
<1> QED BY <1>1, <1>2

LEMMA AddrsFitKeeps ==
  LayoutInv /\ AddrsFit /\ [Next]_vars => AddrsFit'
<1> SUFFICES ASSUME LayoutInv, AddrsFit, [Next]_vars PROVE AddrsFit'
  OBVIOUS
<1>1. ASSUME NEW nid \in DOMAIN addrsOf', NEW k \in DOMAIN addrsOf'[nid]
      PROVE  addrsOf'[nid][k] =< MaxBlocks
  <2>1. CASE addrsOf' = addrsOf
    BY <1>1, <2>1 DEF AddrsFit
  <2> DEFINE a == Addresses(Parts(Node), next).addrs
  <2>2. CASE /\ PlaceData /\ Node.kind \in {"chunked", "compressed"}
             /\ ~Unaddressable(Parts(Node), a) /\ addrsOf' = Put(addrsOf, Nid(at), a)
    <3>1. at \in 1..Nodes /\ plan \in Plans /\ next \in Nat
      BY DEF LayoutInv
    <3>2. Parts(Node) \in Seq(Nat \cup {Hole})
      BY <2>2, <3>1, NodeFacts, PartFacts DEF Node
    <3>3. ASSUME NEW j \in DOMAIN a PROVE a[j] =< MaxBlocks
      <4>1. j \in DOMAIN Parts(Node)
        BY DEF Addresses
      <4>2. CASE Parts(Node)[j] = Hole
        <5>1. a[j] = NullAddr
          BY <4>1, <4>2 DEF Addresses
        <5> QED BY <5>1, ImageLayoutAssumption
      <4>3. CASE Parts(Node)[j] # Hole
        <5>1. a[j] \in Nat
          BY <3>1, <3>2, <4>1, <4>3, AddressFacts
        <5>2. ~(a[j] > MaxBlocks)
          BY <2>2, <4>3 DEF Unaddressable
        <5> HIDE DEF a
        <5> QED BY <5>1, <5>2, ImageLayoutAssumption
      <4> QED BY <4>2, <4>3
    <3> HIDE DEF a, Nid
    <3>4. nid = Nid(at) => addrsOf'[nid] = a
      BY <2>2 DEF Put
    <3>5. nid # Nid(at) => nid \in DOMAIN addrsOf /\ addrsOf'[nid] = addrsOf[nid]
      BY <1>1, <2>2 DEF Put
    <3> QED BY <1>1, <3>3, <3>4, <3>5 DEF AddrsFit
  <2> QED BY <2>1, <2>2, AddrsPut
<1>2. ASSUME pass' \in {"gap"} \cup Emitting PROVE next' =< MaxBlocks
  <2>1. next \in Nat /\ MaxBlocks \in Nat
    BY ImageLayoutAssumption DEF LayoutInv
  <2>2. CASE UNCHANGED vars
    BY <1>2, <2>2 DEF vars, AddrsFit
  <2>3. CASE Next
    <3>1. CASE SizeImage
      BY <1>2, <2>1, <3>1 DEF SizeImage, FailFor, TooLarge, Emitting
    <3>2. CASE WriteGap \/ EmitInode \/ EmitDirectory \/ EmitData
      BY <3>2 DEF WriteGap, EmitInode, EmitDirectory, EmitData, AddrsFit, Emitting
    <3>3. CASE Flatten \/ PlanBodies \/ PlaceInode \/ PlaceDirectory \/ PlaceData
      <4>1. pass' \in {"bodies", "metadata", "directories", "data", "size", "failed"}
        BY <3>3 DEF Flatten, PlanBodies, PlaceInode, PlaceDirectory, PlaceData, FailFor, Step
      <4> QED BY <1>2, <4>1 DEF Emitting
    <3> QED BY <2>3, <3>1, <3>2, <3>3 DEF Next
  <2> QED BY <2>2, <2>3
<1> QED BY <1>1, <1>2 DEF AddrsFit

-----------------------------------------------------------------------------
\* What is written stays written, when only more is.
LEMMA WrittenGrows ==
  ASSUME NEW s, NEW t, IsSeq(s), IsSeq(t), NEW w, Written(s, w) \/ Written(t, w)
  PROVE  Written(s \o t, w)
<1>0. /\ Len(s) \in Nat /\ DOMAIN s = 1..Len(s) /\ Len(t) \in Nat /\ DOMAIN t = 1..Len(t)
      /\ DOMAIN (s \o t) = 1..(Len(s) + Len(t))
      /\ \A k \in 1..(Len(s) + Len(t)) :
           \/ k \in DOMAIN s /\ (s \o t)[k] = s[k]
           \/ k > Len(s) /\ k - Len(s) \in DOMAIN t /\ (s \o t)[k] = t[k - Len(s)]
  BY SeqFacts, JoinFacts
<1> DEFINE u == s \o t
<1>1. ASSUME NEW j \in DOMAIN s PROVE j \in DOMAIN u /\ u[j] = s[j]
  <2>1. j \in 1..(Len(s) + Len(t)) /\ ~(j > Len(s))
    BY <1>0, <1>1
  <2> QED BY <1>0, <2>1
<1>2. ASSUME NEW j \in DOMAIN t PROVE Len(s) + j \in DOMAIN u /\ u[Len(s) + j] = t[j]
  <2>1. /\ Len(s) + j \in 1..(Len(s) + Len(t)) /\ Len(s) + j \notin DOMAIN s
        /\ (Len(s) + j) - Len(s) = j
    BY <1>0, <1>2
  <2> QED BY <1>0, <2>1
<1> HIDE DEF u
<1>3. Written(s, w) => Written(u, w)
  BY <1>1 DEF Written
<1>4. Written(t, w) => Written(u, w)
  BY <1>2 DEF Written
<1> QED BY <1>3, <1>4 DEF u

\* What Filled keeps of writes is all of them that was to be written.
LEMMA FilledWritten ==
  ASSUME NEW w, IsSeq(w)
  PROVE  IsSeq(Filled(w)) /\ Written(Filled(w), w)
BY FilledHolds DEF Written

\* The writes of an inode and what follows it.
LEMMA InodeOut ==
  ASSUME plan \in Plans, SlotsRight, NEW i \in 1..Nodes, i \in DOMAIN slots,
         plan[i].kind = "chunked" => Len(addrsOf[Nid(i)]) = Len(plan[i].chunks),
         NEW w, w = InodeWrites(i), NEW e, e = Emitted(i),
         NEW from, from = MetaBase + slots[i].start
  PROVE  IsSeq(w) /\ from \in Nat /\ FiveAt(w, e, from)
<1>1. /\ DOMAIN e = 1..5 /\ Len(e) = 5 /\ \A k \in 1..5 : e[k][1] \in Nat
  BY EmittedFacts DEF FiveParts
<1>2. from \in Nat
  BY SlotFacts, MetaFacts
<1>3. PICK laid : laid = Laid(e, from)
  OBVIOUS
<1>4. w = laid.writes
  BY <1>3 DEF InodeWrites
<1>5. IsSeq(laid.writes) /\ FiveAt(laid.writes, e, from)
  BY <1>1, <1>2, <1>3, FiveLaid, FivePlaces
<1> QED BY <1>2, <1>4, <1>5

\* None of them is a directory's block.
LEMMA NoBlock ==
  ASSUME NEW i, NEW k \in 1..5
  PROVE  Emitted(i)[k][2].kind # "dirblock"
BY DEF Emitted, EncodeInode

\* What the steps of the emission write, and that nothing else writes.
LEMMA Outs ==
  ASSUME LayoutInv, Next, pass' \in Emitting
  PROVE  /\ UNCHANGED planned /\ IsSeq(img)
         /\ \E t : /\ IsSeq(t) /\ img' = img \o t
                   /\ EmitInode => Written(t, InodeWrites(at))
                   /\ EmitDirectory /\ plan[at].kind = "dir" => t = BlockWrites(at)
                   /\ EmitData => Written(t, DataWrites(at))
                   /\ ~(EmitDirectory /\ plan[at].kind = "dir") =>
                        \A k \in DOMAIN t : t[k].what.kind # "dirblock"
<1>0. IsSeq(img)
  BY DEF LayoutInv, Placed
<1>1. CASE Flatten \/ PlanBodies \/ PlaceInode \/ PlaceDirectory \/ PlaceData \/ SizeImage
  <2>1. pass' \in {"bodies", "metadata", "directories", "data", "size", "gap", "failed"}
    BY <1>1 DEF Flatten, PlanBodies, PlaceInode, PlaceDirectory, PlaceData, SizeImage, FailFor, Step
  <2> QED BY <2>1 DEF Emitting
<1>2. CASE WriteGap
  <2>1. /\ pass = "gap" /\ UNCHANGED planned
        /\ ~ \E w \in {Cfgs, Dict} : w.len > 0 /\ w.off + w.len > MetaBase
        /\ img' = img \o GapWrites
    BY <1>2 DEF WriteGap, FailFor, Emitting
  <2>2. Placed(GapWrites)
    BY <2>1, GapFacts DEF LayoutInv
  <2>3. \A k \in DOMAIN GapWrites : GapWrites[k].what.kind # "dirblock"
    <3> DEFINE s == <<Cfgs, Dict, Super>>
    <3>1. s \in Seq({Cfgs, Dict, Super}) /\ DOMAIN s = 1..3
      OBVIOUS
    <3>2. \A k \in DOMAIN s : s[k].what.kind # "dirblock"
      BY DEF Cfgs, Dict, Super, Write
    <3>3. GapWrites = Filled(s)
      BY DEF GapWrites
    <3> HIDE DEF s
    <3>4. IsSeq(s)
      BY <3>1, OwnSeq
    <3>5. \A j \in DOMAIN Filled(s) : \E k \in DOMAIN s : Filled(s)[j] = s[k]
      BY <3>4, FilledHolds
    <3> QED BY <3>2, <3>3, <3>5
  <2>4. ~EmitInode /\ ~EmitDirectory /\ ~EmitData
    BY <2>1 DEF EmitInode, EmitDirectory, EmitData
  <2> QED BY <1>0, <2>1, <2>2, <2>3, <2>4 DEF Placed
<1>3. CASE EmitInode
  <2>1. pass = "inodes" /\ UNCHANGED planned /\ pass \in Emitting
    BY <1>3 DEF EmitInode, Emitting
  <2>2. PICK w : w = InodeWrites(at)
    OBVIOUS
  <2>3. img' = img \o Filled(w)
    BY <1>3, <2>2 DEF EmitInode, InodeWrites
  <2>4. /\ plan \in Plans /\ SlotsRight /\ at \in 1..Nodes /\ at \in DOMAIN slots
        /\ plan[at].kind = "chunked" => Len(addrsOf[Nid(at)]) = Len(plan[at].chunks)
    BY <2>1, EmittingFacts DEF DataLies
  <2>5. IsSeq(w) /\ DOMAIN w = 1..5 /\ \A k \in 1..5 : w[k].what = Emitted(at)[k][2]
    <3>1. PICK i, e, from : i = at /\ e = Emitted(i) /\ from = MetaBase + slots[i].start
      OBVIOUS
    <3>2. IsSeq(w) /\ DOMAIN w = 1..5 /\ \A k \in 1..5 : w[k].what = e[k][2]
      BY <2>2, <2>4, <3>1, InodeOut DEF FiveAt
    <3> QED BY <3>1, <3>2
  <2>6. /\ IsSeq(Filled(w)) /\ Written(Filled(w), w)
        /\ \A j \in DOMAIN Filled(w) : \E k \in DOMAIN w : Filled(w)[j] = w[k]
    BY <2>5, FilledWritten, FilledHolds
  <2>7. \A j \in DOMAIN Filled(w) : Filled(w)[j].what.kind # "dirblock"
    BY <2>5, <2>6, NoBlock
  <2>8. ~EmitDirectory /\ ~EmitData
    BY <2>1 DEF EmitDirectory, EmitData
  <2> QED BY <1>0, <2>1, <2>2, <2>3, <2>6, <2>7, <2>8
<1>4. CASE EmitDirectory
  <2>1. pass = "dirblocks" /\ UNCHANGED planned /\ pass \in Emitting
    BY <1>4 DEF EmitDirectory, Emitting
  <2>2. ~EmitInode /\ ~EmitData
    BY <2>1 DEF EmitInode, EmitData
  <2>3. CASE plan[at].kind # "dir"
    <3>1. img' = img
      BY <1>4, <2>3 DEF EmitDirectory, Node
    <3>2. IsSeq(<<>>) /\ img = img \o <<>> /\ DOMAIN <<>> = {}
      <4>1. PICK W : img \in Seq(W)
        BY <1>0 DEF IsSeq
      <4>2. img \o <<>> = img
        BY <4>1, ConcatEmptySeq
      <4> QED BY <4>2 DEF IsSeq
    <3> QED BY <1>0, <2>1, <2>2, <2>3, <3>1, <3>2
  <2>4. CASE plan[at].kind = "dir"
    <3>1. PICK f, i, t : DirsLie(f, Nodes) /\ i = at /\ t = BlockWrites(i)
      BY <2>1, EmittingFacts
    <3>2. img' = img \o t
      BY <1>4, <2>4, <3>1 DEF EmitDirectory, Node, BlockWrites
    <3>3. IsSeq(t)
      <4>1. IsSeq(packed[Nid(i)])
        BY <2>1, <2>4, <3>1, EmittingFacts DEF DirsLie
      <4>2. Len(packed[Nid(i)]) \in Nat /\ DOMAIN packed[Nid(i)] = 1..Len(packed[Nid(i)])
        BY <4>1, SeqFacts
      <4>3. PICK n : n = Len(packed[Nid(i)])
        OBVIOUS
      <4>4. Lists(t, n) /\ n \in Nat
        BY <3>1, <4>2, <4>3 DEF Lists, BlockWrites
      <4> QED BY <4>4, ListSeq
    <3> QED BY <1>0, <1>4, <2>1, <2>2, <2>4, <3>1, <3>2, <3>3
  <2> QED BY <2>3, <2>4
<1>5. CASE EmitData
  <2>1. pass = "filedata" /\ UNCHANGED planned /\ pass \in Emitting
    BY <1>5 DEF EmitData, Emitting
  <2>2. PICK i, w : i = at /\ w = DataWrites(i)
    OBVIOUS
  <2>3. img' = img \o Filled(w)
    BY <1>5, <2>2 DEF EmitData, DataWrites, Node
  <2>4. IsSeq(w)
    <3>1. PICK f, g : DirsLie(f, Nodes) /\ DataLies(g, Nodes) /\ at \in 1..Nodes /\ plan \in Plans
                      /\ Nodes \in Nat
      BY <2>1, EmittingFacts
    <3>2. PICK a, b : a = g[i] /\ b = g[i + 1]
      OBVIOUS
    <3>3. a \in Nat /\ b \in Nat /\ PartsLie(i, a, b) /\ i \in 1..Nodes
      <4>1. i \in 1..Nodes /\ i \in 1..(Nodes + 1) /\ i + 1 \in 1..(Nodes + 1)
        BY <2>2, <3>1
      <4>2. g \in [1..(Nodes + 1) -> Nat] /\ PartsLie(i, g[i], g[i + 1])
        BY <3>1, <4>1 DEF DataLies
      <4>3. g[i] \in Nat /\ g[i + 1] \in Nat
        BY <4>1, <4>2
      <4> QED BY <3>2, <4>1, <4>2, <4>3
    <3>4. PICK parts : parts = StoredParts(plan[i])
      OBVIOUS
    <3>5. w = [p \in DOMAIN parts |->
                Write(StoredAt(i, p) * BlockSize, parts[p],
                      [kind |-> "data", node |-> i, part |-> p])]
      BY <2>2, <3>4 DEF DataWrites
    <3> QED BY <3>1, <3>3, <3>4, <3>5, DataLine
  <2>5. /\ IsSeq(Filled(w)) /\ Written(Filled(w), w)
        /\ \A j \in DOMAIN Filled(w) : \E k \in DOMAIN w : Filled(w)[j] = w[k]
    BY <2>4, FilledWritten, FilledHolds
  <2>6. \A k \in DOMAIN w : w[k].what.kind = "data"
    BY <2>2 DEF DataWrites, Write
  <2>7. \A j \in DOMAIN Filled(w) : Filled(w)[j].what.kind # "dirblock"
    BY <2>5, <2>6
  <2>8. ~EmitDirectory /\ ~EmitInode
    BY <2>1 DEF EmitDirectory, EmitInode
  <2> QED BY <1>0, <2>1, <2>2, <2>3, <2>5, <2>7, <2>8
<1> QED BY <1>1, <1>2, <1>3, <1>4, <1>5 DEF Next

\* What is to be written stays the same, once it is planned.
LEMMA WritesStay ==
  ASSUME UNCHANGED planned
  PROVE  /\ plan' = plan /\ \A i : Nid(i)' = Nid(i) /\ packed' = packed
         /\ \A i : /\ InodeWrites(i)' = InodeWrites(i) /\ BlockWrites(i)' = BlockWrites(i)
                   /\ DataWrites(i)' = DataWrites(i)
<1>1. /\ plan' = plan /\ slots' = slots /\ packed' = packed /\ blockOf' = blockOf
      /\ addrsOf' = addrsOf
  BY DEF planned
<1>2. \A i : Nid(i)' = Nid(i)
  BY <1>1 DEF Nid
<1>3. \A i : Emitted(i)' = Emitted(i)
  BY <1>1, <1>2 DEF Emitted, EncodeInode, FileSize, RawU
<1>4. \A i : InodeWrites(i)' = InodeWrites(i)
  BY <1>1, <1>3 DEF InodeWrites
<1>5. \A i : BlockWrites(i)' = BlockWrites(i)
  BY <1>1, <1>2 DEF BlockWrites
<1>6. \A i : DataWrites(i)' = DataWrites(i)
  BY <1>1, <1>2 DEF DataWrites, StoredAt
<1> QED BY <1>1, <1>2, <1>4, <1>5, <1>6

LEMMA AllWrittenKeeps ==
  LayoutInv /\ Rewound /\ AllWritten /\ [Next]_vars => AllWritten'
<1> SUFFICES ASSUME LayoutInv, Rewound, AllWritten, [Next]_vars PROVE AllWritten'
  OBVIOUS
<1>1. CASE UNCHANGED vars
  <2>1. UNCHANGED planned /\ img' = img /\ pass' = pass /\ at' = at
    BY <1>1 DEF vars, planned
  <2>2. InodesOut' = InodesOut /\ BlocksOut' = BlocksOut /\ DataOut' = DataOut
    BY <2>1, WritesStay DEF InodesOut, BlocksOut, DataOut, Through, Nodes
  <2> QED BY <2>1, <2>2, WritesStay DEF AllWritten, Written
<1>2. CASE pass' \notin Emitting
  <2>1. InodesOut' = 0 /\ BlocksOut' = 0 /\ DataOut' = 0
    BY <1>2 DEF InodesOut, BlocksOut, DataOut, Through, Emitting
  <2> QED BY <2>1 DEF AllWritten
<1>3. CASE Next /\ pass' \in Emitting
  <2>1. UNCHANGED planned /\ IsSeq(img)
    BY <1>3, Outs
  <2>2. PICK t : /\ IsSeq(t) /\ img' = img \o t
                 /\ EmitInode => Written(t, InodeWrites(at))
                 /\ EmitDirectory /\ plan[at].kind = "dir" => t = BlockWrites(at)
                 /\ EmitData => Written(t, DataWrites(at))
    BY <1>3, Outs
  <2>3. plan' = plan
    BY <2>1, WritesStay
  <2>4. at \in 1..Nodes /\ Nodes \in Nat
    BY NodeFacts DEF LayoutInv
  <2>5. \A w : Written(img, w) \/ Written(t, w) => Written(img', w)
    BY <2>1, <2>2, WrittenGrows
  <2>6. ASSUME NEW i \in 1..InodesOut' PROVE Written(img', InodeWrites(i))
    <3>1. i \in 1..InodesOut \/ (EmitInode /\ i = at)
      <4>1. \/ InodesOut' \in {0, InodesOut}
            \/ EmitInode /\ InodesOut = at - 1 /\ InodesOut' = at
        BY <2>3, DoneFacts
      <4> QED BY <2>4, <2>6, <4>1
    <3>2. Written(img, InodeWrites(i)) \/ Written(t, InodeWrites(i))
      BY <2>2, <3>1 DEF AllWritten
    <3> QED BY <2>5, <3>2
  <2>7. ASSUME NEW i \in 1..BlocksOut', plan[i].kind = "dir" PROVE Written(img', BlockWrites(i))
    <3>1. i \in 1..BlocksOut \/ (EmitDirectory /\ i = at)
      <4>1. \/ BlocksOut' \in {0, BlocksOut}
            \/ EmitDirectory /\ BlocksOut = at - 1 /\ BlocksOut' = at
        BY <2>3, DoneFacts
      <4> QED BY <2>4, <2>7, <4>1
    <3>2. Written(img, BlockWrites(i)) \/ Written(t, BlockWrites(i))
      BY <2>2, <2>7, <3>1 DEF AllWritten, Written
    <3> QED BY <2>5, <3>2
  <2>8. ASSUME NEW i \in 1..DataOut' PROVE Written(img', DataWrites(i))
    <3>1. i \in 1..DataOut \/ (EmitData /\ i = at)
      <4>1. \/ DataOut' \in {0, DataOut}
            \/ EmitData /\ DataOut = at - 1 /\ DataOut' = at
        BY <2>3, DoneFacts
      <4> QED BY <2>4, <2>8, <4>1
    <3>2. Written(img, DataWrites(i)) \/ Written(t, DataWrites(i))
      BY <2>2, <3>1 DEF AllWritten
    <3> QED BY <2>5, <3>2
  <2>9. \A i : /\ InodeWrites(i)' = InodeWrites(i) /\ BlockWrites(i)' = BlockWrites(i)
               /\ DataWrites(i)' = DataWrites(i)
    BY <2>1, WritesStay
  <2> QED BY <2>3, <2>6, <2>7, <2>8, <2>9 DEF AllWritten, Written
<1> QED BY <1>1, <1>2, <1>3

LEMMA BlocksOfDirsKeeps ==
  LayoutInv /\ BlocksOfDirs /\ [Next]_vars => BlocksOfDirs'
<1> SUFFICES ASSUME LayoutInv, BlocksOfDirs, [Next]_vars PROVE BlocksOfDirs'
  OBVIOUS
<1>0. ASSUME UNCHANGED planned, NEW what
      PROVE  OfDir(what)' <=> OfDir(what)
  BY <1>0, WritesStay DEF OfDir
<1>1. CASE UNCHANGED <<planned, img>>
  BY <1>0, <1>1 DEF BlocksOfDirs
<1>2. CASE img' = <<>>
  BY <1>2 DEF BlocksOfDirs
<1>3. CASE Next /\ pass' \in Emitting
  <2>1. UNCHANGED planned /\ IsSeq(img)
    BY <1>3, Outs
  <2>2. PICK t : /\ IsSeq(t) /\ img' = img \o t
                 /\ EmitDirectory /\ plan[at].kind = "dir" => t = BlockWrites(at)
                 /\ ~(EmitDirectory /\ plan[at].kind = "dir") =>
                      \A k \in DOMAIN t : t[k].what.kind # "dirblock"
    BY <1>3, Outs
  <2>3. at \in DOMAIN plan
    BY NodeFacts DEF LayoutInv
  <2>4. ASSUME NEW k \in DOMAIN t PROVE OfDir(t[k].what)
    <3>1. CASE EmitDirectory /\ plan[at].kind = "dir"
      <4>1. /\ k \in DOMAIN packed[Nid(at)] /\ t[k].what.node = at
            /\ t[k].what.entries = packed[Nid(at)][k]
        BY <2>2, <2>4, <3>1 DEF BlockWrites, Write
      <4> QED BY <2>3, <3>1, <4>1 DEF OfDir
    <3>2. CASE ~(EmitDirectory /\ plan[at].kind = "dir")
      BY <2>2, <2>4, <3>2 DEF OfDir
    <3> QED BY <3>1, <3>2
  <2>5. ASSUME NEW k \in DOMAIN (img \o t) PROVE OfDir((img \o t)[k].what)
    <3>1. \/ k \in DOMAIN img /\ (img \o t)[k] = img[k]
          \/ k - Len(img) \in DOMAIN t /\ (img \o t)[k] = t[k - Len(img)]
      BY <2>1, <2>2, <2>5, JoinFacts
    <3> QED BY <2>4, <3>1 DEF BlocksOfDirs
  <2> QED BY <1>0, <2>1, <2>2, <2>5 DEF BlocksOfDirs
<1>4. \/ UNCHANGED <<planned, img>> \/ img' = <<>>
      \/ Next /\ pass' \in Emitting
  <2>1. CASE UNCHANGED vars
    BY <2>1 DEF vars, planned
  <2>2. CASE Flatten \/ PlanBodies \/ SizeImage
    BY <2>2 DEF Flatten, PlanBodies, SizeImage
  <2>3. CASE PlaceInode \/ PlaceDirectory \/ PlaceData
    <3>1. pass \in Planning /\ img' = img
      BY <2>3 DEF PlaceInode, PlaceDirectory, PlaceData, Planning
    <3> QED BY <3>1 DEF LayoutInv
  <2>4. CASE WriteGap
    <3>1. \/ UNCHANGED <<planned, img>>
          \/ pass' = "inodes"
      BY <2>4 DEF WriteGap, FailFor
    <3> QED BY <2>4, <3>1 DEF Next, Emitting
  <2>5. CASE EmitInode /\ pass' # "failed"
    <3>1. pass' \in Emitting
      BY <2>5 DEF EmitInode, FailFor, Step, Emitting
    <3> QED BY <2>5, <3>1 DEF Next
  <2>6. CASE EmitInode /\ pass' = "failed"
    \* InodeLine: the emission never disagrees with the plan.
    <3>1. pass = "inodes" /\ pass \in Emitting
      BY <2>6 DEF EmitInode, Emitting
    <3>2. /\ plan \in Plans /\ SlotsRight /\ at \in 1..Nodes /\ at \in DOMAIN slots
          /\ plan[at].kind = "chunked" => Len(addrsOf[Nid(at)]) = Len(plan[at].chunks)
      BY <3>1, EmittingFacts DEF DataLies
    <3>3. PICK i, laid : i = at /\ laid = Laid(Emitted(i), MetaBase + slots[i].start)
      OBVIOUS
    <3>4. laid.end = MetaBase + SlotEnd(slots[at])
      BY <3>2, <3>3, InodeLine
    <3>5. Step("dirblocks")
      BY <2>6, <3>3, <3>4 DEF EmitInode
    <3> QED BY <2>6, <3>1, <3>5 DEF Step
  <2>7. CASE EmitDirectory \/ EmitData
    <3>1. pass' \in Emitting
      BY <2>7 DEF EmitDirectory, EmitData, Step, Emitting
    <3> QED BY <2>7, <3>1 DEF Next
  <2> QED BY <2>1, <2>2, <2>3, <2>4, <2>5, <2>6, <2>7 DEF Next
<1> QED BY <1>1, <1>2, <1>3, <1>4

-----------------------------------------------------------------------------
\* FoundInv is an invariant.
LEMMA FoundStarts == Init => FoundInv
<1> SUFFICES ASSUME Init PROVE FoundInv
  OBVIOUS
<1>1. pass = "flatten" /\ slots = <<>> /\ addrsOf = <<>> /\ img = <<>>
  BY DEF Init
<1>2. /\ DirsDone = 0 /\ DataDone = 0 /\ InodesOut = 0 /\ BlocksOut = 0 /\ DataOut = 0
      /\ pass \notin {"gap"} \cup Emitting
  BY <1>1 DEF DirsDone, DataDone, InodesOut, BlocksOut, DataOut, Through, Emitting
<1>3. SlotsFit /\ Rewound /\ BodiesSound
  BY <1>1 DEF SlotsFit, Rewound, BodiesSound
<1>4. DirsPacked /\ HolesNull /\ AddrsFit
  BY <1>1, <1>2 DEF DirsPacked, HolesNull, AddrsFit
<1>5. AllWritten /\ BlocksOfDirs
  BY <1>1, <1>2 DEF AllWritten, BlocksOfDirs
<1> QED BY <1>3, <1>4, <1>5 DEF FoundInv

LEMMA FoundAlways == Spec => []FoundInv
<1>1. LayoutInv /\ FoundInv /\ [Next]_vars => FoundInv'
  BY SlotsFitKeeps, RewoundKeeps, BodiesSoundKeeps, DirsPackedKeeps, HolesNullKeeps,
     AddrsFitKeeps, AllWrittenKeeps, BlocksOfDirsKeeps DEF FoundInv
<1> QED BY <1>1, FoundStarts, LayoutAlways, PTL DEF Spec

-----------------------------------------------------------------------------
(***************************************************************************)
(* What the reader finds in the image when the build is done.              *)
(***************************************************************************)
\* All of it is there, and stays where it was written.
LEMMA Ended ==
  ASSUME LayoutInv, FoundInv, pass = "done", NEW i \in 1..Nodes
  PROVE  /\ plan \in Plans /\ SlotsRight /\ i \in DOMAIN slots /\ IsNode(plan[i])
         /\ Len(slots) = Nodes /\ Nodes \in Nat \ {0} /\ next \in Nat /\ next =< MaxBlocks
         /\ Written(img, InodeWrites(i)) /\ Written(img, DataWrites(i))
         /\ plan[i].kind = "dir" => /\ Written(img, BlockWrites(i)) /\ Packable(DirEntries(i))
                                    /\ packed[Nid(i)] = Packing(DirEntries(i))
         /\ ~BodyRefused(plan[i])
         /\ plan[i].kind = "chunked" =>
              \A c \in DOMAIN plan[i].chunks :
                plan[i].chunks[c] = Hole => addrsOf[Nid(i)][c] = NullAddr
<1>1. /\ plan \in Plans /\ SlotsRight /\ Len(slots) = Nodes /\ Nodes \in Nat \ {0}
      /\ next \in Nat /\ DOMAIN slots = 1..Nodes
  BY EmittingFacts DEF Emitting
<1>2. i \in DOMAIN plan /\ IsNode(plan[i])
  BY <1>1, NodeFacts
<1>3. /\ DirsDone = Nodes /\ DataDone = Nodes /\ InodesOut = Nodes /\ BlocksOut = Nodes
      /\ DataOut = Nodes
  BY DEF DirsDone, DataDone, InodesOut, BlocksOut, DataOut, Through, Emitting
<1>4. next =< MaxBlocks
  BY DEF FoundInv, AddrsFit, Emitting
<1>5. /\ Written(img, InodeWrites(i)) /\ Written(img, DataWrites(i))
      /\ plan[i].kind = "dir" => Written(img, BlockWrites(i))
  BY <1>3 DEF FoundInv, AllWritten
<1>6. plan[i].kind = "dir" => /\ Packable(DirEntries(i))
                              /\ packed[Nid(i)] = Packing(DirEntries(i))
  BY <1>3 DEF FoundInv, DirsPacked
<1>7. ~BodyRefused(plan[i])
  BY <1>2 DEF FoundInv, BodiesSound
<1>8. plan[i].kind = "chunked" =>
        \A c \in DOMAIN plan[i].chunks :
          plan[i].chunks[c] = Hole => addrsOf[Nid(i)][c] = NullAddr
  BY <1>3 DEF FoundInv, HolesNull
<1> QED BY <1>1, <1>2, <1>4, <1>5, <1>6, <1>7, <1>8

\* What is within a write that was made is read as it was written.
LEMMA Got ==
  ASSUME LayoutInv, NEW w, Written(img, w), NEW k \in DOMAIN w, w[k].len > 0,
         NEW off \in Nat, NEW len \in Nat, len > 0,
         w[k].off =< off, off + len =< w[k].off + w[k].len
  PROVE  At(img, off, len) = <<w[k].what, off - w[k].off>>
<1>1. PICK j \in DOMAIN img : img[j] = w[k]
  BY DEF Written
<1>2. Placed(img) /\ Apart(img)
  BY DEF LayoutInv
<1>3. PICK s : s = img
  OBVIOUS
<1>4. At(s, off, len) = <<s[j].what, off - s[j].off>>
  BY <1>1, <1>2, <1>3, Read
<1> QED BY <1>1, <1>3, <1>4

\* A NID leads to the place its inode was given.
LEMMA NidLeads ==
  ASSUME LayoutInv, SlotsFit, NEW i \in DOMAIN slots
  PROVE  /\ Iloc(Nid(i)) = MetaBase + slots[i].start /\ Iloc(Nid(i)) \in Nat
         /\ slots[i].start \in Nat /\ MetaBase \in Nat
<1>1. slots[i].start \in Nat /\ MetaBase \in Nat
  BY SlotFacts, MetaFacts DEF LayoutInv
<1>2. slots[i].start % 32 = 0
  BY DEF SlotsFit
<1>3. PICK x \in Nat : x = slots[i].start
  BY <1>1
<1>4. (x \div 32) * 32 = x
  BY <1>2, <1>3
<1>5. Iloc(Nid(i)) = MetaBase + x
  BY <1>3, <1>4 DEF Iloc, Nid, CompactSize
<1> QED BY <1>1, <1>3, <1>5

\* The root, unless it is all there is, is a directory.
LEMMA RootDir ==
  ASSUME NEW p, IsFlattened(p), Len(p) > 1
  PROVE  p[1].kind = "dir"
<1>1. Len(p) \in Nat
  BY PlanFacts
<1>2. 2 \in 2..Len(p)
  BY <1>1
<1>3. p[2].parent \in 1..(2 - 1) /\ p[p[2].parent].kind = "dir"
  BY <1>2 DEF IsFlattened
<1>4. p[2].parent = 1
  BY <1>3
<1> QED BY <1>3, <1>4

\* A directory has a block: it lists itself.
LEMMA DirHasBlock ==
  ASSUME IsFlattened(plan), NEW i \in DOMAIN plan, plan[i].kind = "dir", Packable(DirEntries(i))
  PROVE  IsSeq(Packing(DirEntries(i))) /\ Len(Packing(DirEntries(i))) > 0
         /\ Len(Packing(DirEntries(i))) \in Nat
<1>1. PICK es : es = DirEntries(i)
  OBVIOUS
<1>2. Named(es) /\ Packable(es)
  BY <1>1, EntriesFacts
<1>3. IsSeq(Packing(es)) /\ (Len(es) > 0 => Len(Packing(es)) > 0) /\ Len(Packing(es)) \in Nat
  BY <1>2, PackingFacts, PackedFrom, SeqFacts
<1>4. Len(es) > 0
  <2>1. Len(es) >= 2 /\ Len(es) \in Nat
    BY <1>1, <1>2, EntriesFacts, SeqFacts DEF Named
  <2> QED BY <2>1
<1> QED BY <1>1, <1>3, <1>4

\* The first inode is at the start of the metadata, and another one's image has
\* the root's block behind it: an extended inode can be read of either.
LEMMA RoomBehind ==
  ASSUME LayoutInv, FoundInv, pass = "done", NEW i \in 1..Nodes
  PROVE  Iloc(Nid(i)) + 64 =< ImageSize
<1>0. /\ plan \in Plans /\ SlotsRight /\ i \in DOMAIN slots /\ SlotsFit /\ Nodes \in Nat \ {0}
      /\ next \in Nat /\ Len(slots) = Nodes /\ IsFlattened(plan)
  BY Ended, NodeFacts DEF FoundInv
<1>1. Iloc(Nid(i)) = MetaBase + slots[i].start /\ slots[i].start \in Nat /\ MetaBase \in Nat
  BY <1>0, NidLeads
<1>2. PICK f, g : /\ DirsLie(f, Nodes) /\ Behind(f[1]) /\ g[1] = f[Nodes + 1]
                  /\ DataLies(g, Nodes) /\ g[Nodes + 1] = next
  BY EmittingFacts DEF Emitting
<1>3. 1 \in 1..(Nodes + 1) /\ 2 \in 1..(Nodes + 1)
  BY <1>0
<1>4. f[1] \in Nat /\ f[1] =< next /\ f[2] \in Nat /\ f[2] =< next
  BY <1>0, <1>2, <1>3, Between
<1>5. /\ slots[i].start + slots[i].span = SlotEnd(slots[i]) /\ slots[i].span \in Nat
      /\ slots[i].span >= 32
  <2>1. /\ slots[i].start + slots[i].span = SlotEnd(slots[i]) /\ slots[i].span \in Nat
    BY <1>0, SlotFacts
  <2>2. IsNode(plan[i])
    BY Ended
  <2>3. BodySpan(plan[i]) >= 32
    BY <2>2, SpanFacts
  <2>4. slots[i].span = BodySpan(plan[i])
    BY <1>0 DEF SlotsRight
  <2> QED BY <2>1, <2>3, <2>4
<1>6. PICK n, b, c : n = next * BlockSize /\ b = f[1] * BlockSize /\ c = f[2] * BlockSize
  OBVIOUS
<1>7. /\ b \in Nat /\ n \in Nat /\ c \in Nat /\ b =< n /\ c =< n
  BY <1>0, <1>4, <1>6, Scaled, SMTT(30)
<1>8. MetaBase + SlotEnd(slots[i]) =< b
  BY <1>0, <1>2, <1>6 DEF Behind
<1>9. CASE Nodes > 1
  <2>1. plan[1].kind = "dir" /\ 1 \in DOMAIN plan /\ 1 \in 1..Nodes
    BY <1>0, <1>9, RootDir, PlanFacts DEF Nodes
  <2>2. /\ f[1 + 1] = f[1] + Len(packed[Nid(1)]) /\ Packable(DirEntries(1))
        /\ packed[Nid(1)] = Packing(DirEntries(1))
    BY <1>2, <2>1, Ended DEF DirsLie
  <2>3. Len(packed[Nid(1)]) \in Nat /\ Len(packed[Nid(1)]) > 0
    BY <1>0, <2>1, <2>2, DirHasBlock
  <2>4. f[1] + 1 =< f[2] /\ 1 + 1 = 2
    BY <1>4, <2>2, <2>3
  <2>5. (f[1] + 1) * BlockSize =< f[2] * BlockSize
    BY <1>4, <2>4, Scaled
  <2>6. (f[1] + 1) * BlockSize = f[1] * BlockSize + 1 * BlockSize
    BY <1>4, Added
  <2>7. b + BlockSize =< c
    BY <1>6, <2>5, <2>6, Blocks
  <2> QED BY <1>1, <1>5, <1>6, <1>7, <1>8, <2>7, Blocks DEF ImageSize
<1>10. CASE Nodes = 1
  <2>1. i = 1 /\ slots[i].start = 0
    <3>1. i = 1
      BY <1>10
    <3>2. slots # <<>>
      BY <1>0
    <3> QED BY <1>0, <3>1, <3>2 DEF SlotsFit
  \* The data begins a whole block behind where the inode does.
  <2>2. MetaBase = MetaBlkaddr * BlockSize /\ MetaBlkaddr \in Nat
    BY MetaFacts
  <2>3. MetaBlkaddr < f[1]
    <3>1. MetaBlkaddr * BlockSize < f[1] * BlockSize
      BY <1>1, <1>5, <1>6, <1>7, <1>8, <2>1, <2>2
    <3>2. f[1] =< MetaBlkaddr => f[1] * BlockSize =< MetaBlkaddr * BlockSize
      BY <1>4, <2>2, Scaled
    <3>3. f[1] * BlockSize \in Nat /\ MetaBlkaddr * BlockSize \in Nat
      BY <1>4, <2>2, Scaled
    <3> QED BY <1>4, <2>2, <3>1, <3>2, <3>3
  <2>4. (MetaBlkaddr + 1) * BlockSize =< f[1] * BlockSize
    BY <1>4, <2>2, <2>3, Scaled
  <2>5. (MetaBlkaddr + 1) * BlockSize = MetaBlkaddr * BlockSize + 1 * BlockSize
    BY <2>2, Added
  <2>6. MetaBase + BlockSize =< b
    BY <1>6, <2>2, <2>4, <2>5, Blocks
  <2> QED BY <1>1, <1>6, <1>7, <2>1, <2>6, Blocks DEF ImageSize
<1> QED BY <1>0, <1>9, <1>10

\* Every inode is found where its NID says.
LEMMA InodeFound ==
  ASSUME LayoutInv, FoundInv, pass = "done", NEW i \in 1..Nodes
  PROVE  InodeAt(img, ImageSize, Nid(i)) = <<EncodeInode(i), 0>>
<1>0. /\ plan \in Plans /\ SlotsRight /\ i \in DOMAIN slots /\ SlotsFit
      /\ Written(img, InodeWrites(i)) /\ IsNode(plan[i])
  BY Ended DEF FoundInv
<1>1. plan[i].kind = "chunked" => Len(addrsOf[Nid(i)]) = Len(plan[i].chunks)
  BY EmittingFacts DEF Emitting, DataLies
<1>2. PICK w, e, from : w = InodeWrites(i) /\ e = Emitted(i) /\ from = MetaBase + slots[i].start
  OBVIOUS
<1>3. from \in Nat /\ FiveAt(w, e, from)
  BY <1>0, <1>1, <1>2, InodeOut
<1>4. e[1][1] = BodySize(plan[i]) /\ e[1][2] = EncodeInode(i)
  BY <1>2 DEF Emitted
<1>5. BodySize(plan[i]) \in Nat /\ BodySize(plan[i]) >= 32
  BY <1>0, SpanFacts
<1>6. /\ 1 \in DOMAIN w /\ w[1].off = from /\ w[1].len = BodySize(plan[i])
      /\ w[1].what = EncodeInode(i)
  BY <1>3, <1>4 DEF FiveAt
<1>7. At(img, from, 32) = <<w[1].what, from - w[1].off>>
  BY <1>0, <1>2, <1>3, <1>5, <1>6, Got
<1>8. Iloc(Nid(i)) = from /\ Iloc(Nid(i)) + 64 =< ImageSize /\ ImageSize \in Nat
  <2>1. Iloc(Nid(i)) = from
    BY <1>0, <1>2, NidLeads
  <2>2. ImageSize \in Nat
    BY Scaled, Ended DEF ImageSize
  <2> QED BY <2>1, <2>2, RoomBehind
<1>9. InodeAt(img, ImageSize, Nid(i)) = At(img, from, 32)
  BY <1>3, <1>8 DEF InodeAt, CompactSize, ExtendedSize
<1> QED BY <1>3, <1>6, <1>7, <1>9

\* A directory's entries lead to what they name.
LEMMA NamesFound == LayoutInv /\ FoundInv => NamesLead
<1> SUFFICES ASSUME LayoutInv, FoundInv, pass = "done",
                    NEW k \in DOMAIN img, img[k].what.kind = "dirblock",
                    NEW e \in ToSet(img[k].what.entries), NEW i, i = img[k].what.node,
                    NEW w, w = InodeAt(img, ImageSize, e.nid)
             PROVE  /\ w # <<"lost">> /\ w[1].kind = "inode"
                    /\ \/ e.name = DotName /\ w[1].node = i
                       \/ e.name = DotDotName /\ w[1].node = plan[i].parent
                       \/ \E c \in plan[i].children : c.name = e.name /\ c.node = w[1].node
  BY DEF NamesLead
<1>1. /\ plan \in Plans /\ IsFlattened(plan) /\ DOMAIN plan = 1..Nodes /\ Nodes \in Nat
  BY NodeFacts DEF LayoutInv, Nodes
<1>2. /\ i \in DOMAIN plan /\ plan[i].kind = "dir"
      /\ \E p \in DOMAIN packed[Nid(i)] : img[k].what.entries = packed[Nid(i)][p]
  BY DEF FoundInv, BlocksOfDirs, OfDir
<1>3. Leads(i, e)
  <2>1. Packable(DirEntries(i)) /\ packed[Nid(i)] = Packing(DirEntries(i))
    BY <1>1, <1>2, Ended
  <2>2. PICK es : es = DirEntries(i)
    OBVIOUS
  <2>3. Named(es) /\ Packable(es) /\ \A y \in DOMAIN es : Leads(i, es[y])
    BY <1>1, <1>2, <2>1, <2>2, EntriesFacts
  <2>4. PICK p \in DOMAIN Packing(es) : img[k].what.entries = Packing(es)[p]
    BY <1>2, <2>1, <2>2
  <2>5. PICK x \in DOMAIN Packing(es)[p] : e = Packing(es)[p][x]
    BY <2>4 DEF ToSet
  <2>6. PICK y \in DOMAIN es : e = es[y]
    BY <2>3, <2>5, PackedFrom
  <2> QED BY <2>3, <2>6
<1>4. ASSUME NEW j \in 1..Nodes, e.nid = Nid(j)
      PROVE  w # <<"lost">> /\ w[1].kind = "inode" /\ w[1].node = j
  <2>1. w = <<EncodeInode(j), 0>>
    BY <1>4, InodeFound
  <2> QED BY <2>1 DEF EncodeInode
<1>5. CASE e.name = DotName /\ e.nid = Nid(i)
  BY <1>1, <1>2, <1>4, <1>5
<1>6. CASE e.name = DotDotName /\ e.nid = Nid(plan[i].parent)
  <2>1. plan[i].parent \in 1..Nodes
    <3>1. CASE i = 1
      BY <1>1, <3>1 DEF IsFlattened, Nodes
    <3>2. CASE i # 1
      <4>1. i \in 2..Len(plan)
        BY <1>1, <1>2, <3>2 DEF Nodes
      <4>2. plan[i].parent \in 1..(i - 1)
        BY <1>1, <4>1 DEF IsFlattened
      <4> QED BY <1>1, <1>2, <4>2 DEF Nodes
    <3> QED BY <3>1, <3>2
  <2> QED BY <1>4, <1>6, <2>1
<1>7. ASSUME NEW c \in plan[i].children, e.name = c.name, e.nid = Nid(c.node)
      PROVE  /\ w # <<"lost">> /\ w[1].kind = "inode"
             /\ c.name = e.name /\ c.node = w[1].node
  <2>1. c.node \in 2..Len(plan)
    BY <1>1, <1>2, <1>7 DEF IsFlattened
  <2>2. c.node \in 1..Nodes
    BY <1>1, <2>1 DEF Nodes
  <2> QED BY <1>4, <1>7, <2>2
<1> QED BY <1>3, <1>5, <1>6, <1>7 DEF Leads

\* A tail that fits its block is in one.
LEMMA TailFits == LayoutInv /\ SlotsFit => TailInOneBlock
<1> SUFFICES ASSUME LayoutInv, SlotsFit, NEW i \in DOMAIN slots, Inlined(plan[i])
             PROVE  slots[i].start \div BlockSize = (SlotEnd(slots[i]) - 1) \div BlockSize
  BY DEF TailInOneBlock
<1>1. /\ slots[i].start \in Nat /\ slots[i].span \in Nat
      /\ SlotEnd(slots[i]) = slots[i].start + slots[i].span
  BY SlotFacts DEF LayoutInv
<1>2. slots[i].span >= 32
  <2>1. i \in 1..Nodes
    <3>1. plan \in Plans /\ SlotsRight /\ Len(slots) =< Nodes /\ Nodes \in Nat
      BY NodeFacts DEF LayoutInv, SlotsRight
    <3>2. Len(slots) \in Nat /\ DOMAIN slots = 1..Len(slots)
      BY SlotFacts DEF LayoutInv
    <3> QED BY <3>1, <3>2
  <2>2. IsNode(plan[i])
    BY <2>1, NodeFacts DEF LayoutInv
  <2> QED BY <2>2, SpanFacts DEF LayoutInv, SlotsRight
<1>3. (slots[i].start % BlockSize) + slots[i].span =< BlockSize
  BY DEF SlotsFit
<1>4. ASSUME NEW b \in {512, 1024, 2048, 4096, 8192, 16384, 32768, 65536},
             NEW s \in Nat, NEW n \in Nat, n >= 32, (s % b) + n =< b
      PROVE  s \div b = (s + n - 1) \div b
  <2>1. CASE b = 512
    BY <1>4, <2>1
  <2>2. CASE b = 1024
    BY <1>4, <2>2
  <2>3. CASE b = 2048
    BY <1>4, <2>3
  <2>4. CASE b = 4096
    BY <1>4, <2>4
  <2>5. CASE b = 8192
    BY <1>4, <2>5
  <2>6. CASE b = 16384
    BY <1>4, <2>6
  <2>7. CASE b = 32768
    BY <1>4, <2>7
  <2>8. CASE b = 65536
    BY <1>4, <2>8
  <2> QED BY <2>1, <2>2, <2>3, <2>4, <2>5, <2>6, <2>7, <2>8
<1>5. BlockSize \in {512, 1024, 2048, 4096, 8192, 16384, 32768, 65536}
  BY ImagePlanAssumption
<1>6. PICK s, n : s = slots[i].start /\ n = slots[i].span
  OBVIOUS
<1>7. s \div BlockSize = (s + n - 1) \div BlockSize
  BY <1>1, <1>2, <1>3, <1>4, <1>5, <1>6
<1> QED BY <1>1, <1>6, <1>7

-----------------------------------------------------------------------------
\* The bytes asked of a block are some, no more than a block, and the file's.
LEMMA Asked ==
  ASSUME NEW size \in Nat, NEW b \in 0..(CeilDiv(size, BlockSize) - 1), NEW len,
         len = Smaller(size - b * BlockSize, BlockSize)
  PROVE  /\ b \in Nat /\ b * BlockSize \in Nat /\ len \in Nat /\ len > 0 /\ len =< BlockSize
         /\ b * BlockSize + len =< size /\ size > 0
<1>1. BlockSize \in Nat /\ BlockSize > 0
  BY Blocks
<1>2. /\ CeilDiv(size, BlockSize) \in Nat /\ CeilTo(size, BlockSize) < size + BlockSize
      /\ CeilTo(size, BlockSize) = CeilDiv(size, BlockSize) * BlockSize
  BY <1>1, Ceiling
<1>3. b \in Nat /\ b + 1 =< CeilDiv(size, BlockSize)
  BY <1>2
<1>4. (b + 1) * BlockSize =< CeilDiv(size, BlockSize) * BlockSize
  BY <1>2, <1>3, Scaled
<1>5. (b + 1) * BlockSize = b * BlockSize + 1 * BlockSize
  BY <1>3, Added
<1>6. PICK x : x = b * BlockSize
  OBVIOUS
<1>7. x \in Nat
  BY <1>3, <1>6, Scaled
<1>8. x < size
  BY <1>1, <1>2, <1>4, <1>5, <1>6, <1>7
<1>9. len = IF size - x < BlockSize THEN size - x ELSE BlockSize
  BY <1>6 DEF Smaller
<1> QED BY <1>1, <1>3, <1>6, <1>7, <1>8, <1>9

\* The inode's facts, and what follows it.
LEMMA Behinds ==
  ASSUME LayoutInv, FoundInv, pass = "done", NEW i \in 1..Nodes, NEW w, w = InodeWrites(i),
         NEW e, e = Emitted(i), NEW end, end = BodyEnd(EncodeInode(i))
  PROVE  /\ FiveAt(w, e, MetaBase + slots[i].start) /\ Written(img, w) /\ end \in Nat
         /\ w[3].off = end /\ w[4].off = end + TailBytes(plan[i])
         /\ w[5].off = end + TailBytes(plan[i]) + e[4][1]
<1>0. /\ plan \in Plans /\ SlotsRight /\ i \in DOMAIN slots /\ SlotsFit
      /\ Written(img, InodeWrites(i)) /\ IsNode(plan[i])
  BY Ended DEF FoundInv
<1>1. plan[i].kind = "chunked" => Len(addrsOf[Nid(i)]) = Len(plan[i].chunks)
  BY EmittingFacts DEF Emitting, DataLies
<1>2. PICK from : from = MetaBase + slots[i].start
  OBVIOUS
<1>3. from \in Nat /\ FiveAt(w, e, from)
  BY <1>0, <1>1, <1>2, InodeOut
<1>4. /\ e[1][1] = BodySize(plan[i]) /\ e[2][1] = plan[i].xattr
      /\ e[3][1] = TailBytes(plan[i])
  BY DEF Emitted
<1>5. /\ BodySize(plan[i]) \in Nat /\ plan[i].xattr \in Nat /\ TailBytes(plan[i]) \in Nat
  BY <1>0, SpanFacts
<1>6. e[4][1] \in Nat
  BY <1>3 DEF FiveAt
<1>7. end = from + BodySize(plan[i]) + plan[i].xattr
  <2>1. Iloc(Nid(i)) = from
    BY <1>0, <1>2, NidLeads
  <2>2. EncodeInode(i).nid = Nid(i) /\ EncodeInode(i).ext = plan[i].ext
        /\ EncodeInode(i).xattr = plan[i].xattr
    BY DEF EncodeInode
  <2> QED BY <2>1, <2>2 DEF BodyEnd, BodySize
<1>8. /\ w[3].off = from + (e[1][1] + e[2][1])
      /\ w[4].off = from + (e[1][1] + e[2][1] + e[3][1])
      /\ w[5].off = from + (e[1][1] + e[2][1] + e[3][1] + e[4][1])
  BY <1>3 DEF FiveAt
<1>9. /\ end \in Nat /\ w[3].off = end /\ w[4].off = end + TailBytes(plan[i])
      /\ w[5].off = end + TailBytes(plan[i]) + e[4][1]
  BY <1>3, <1>4, <1>5, <1>6, <1>7, <1>8
<1> QED BY <1>0, <1>2, <1>3, <1>9

\* What the reader is to find of node i's data.
ReadsAll(i) ==
  \A b \in 0..(CeilDiv(FileSize(i), BlockSize) - 1) :
    BlockAt(img, EncodeInode(i), b, Smaller(FileSize(i) - b * BlockSize, BlockSize))
      = Stored(i, b)

\* The tail of a small file is behind its inode.
LEMMA InlineFound ==
  ASSUME LayoutInv, FoundInv, pass = "done", NEW i \in 1..Nodes, Inlined(plan[i])
  PROVE  ReadsAll(i)
<1>0. IsNode(plan[i])
  BY Ended
<1>1. /\ plan[i].kind = "file" /\ plan[i].len \in Nat /\ plan[i].len > 0
      /\ plan[i].len < BlockSize /\ Layout(plan[i]) = "inline"
      /\ TailBytes(plan[i]) = plan[i].len
  BY <1>0, InlinedFits, Blocks DEF Inlined, Layout, TailBytes
<1>2. FileSize(i) = plan[i].len
  BY <1>1 DEF FileSize
<1> SUFFICES ASSUME NEW b \in 0..(CeilDiv(FileSize(i), BlockSize) - 1), NEW len,
                    len = Smaller(FileSize(i) - b * BlockSize, BlockSize)
             PROVE  BlockAt(img, EncodeInode(i), b, len) = Stored(i, b)
  BY DEF ReadsAll
<1>3. PICK size \in Nat : size = FileSize(i)
  BY <1>1, <1>2
<1>4. /\ b \in Nat /\ b * BlockSize \in Nat /\ len \in Nat /\ len > 0 /\ len =< BlockSize
      /\ b * BlockSize + len =< size
  BY <1>3, Asked
<1>5. b = 0
  <2>1. 1 =< b => 1 * BlockSize =< b * BlockSize
    BY <1>4, Scaled
  <2> QED BY <1>1, <1>2, <1>3, <1>4, <2>1, Blocks
<1>6. b = CeilDiv(FileSize(i), BlockSize) - 1
  <2>0. BlockSize \in Nat /\ BlockSize > 0
    BY Blocks
  <2>1. /\ CeilDiv(size, BlockSize) \in Nat /\ CeilTo(size, BlockSize) < size + BlockSize
        /\ CeilTo(size, BlockSize) = CeilDiv(size, BlockSize) * BlockSize
        /\ CeilDiv(size, BlockSize) > 0
    BY <1>1, <1>2, <1>3, <2>0, Ceiling
  <2>2. 2 =< CeilDiv(size, BlockSize) => 2 * BlockSize =< CeilDiv(size, BlockSize) * BlockSize
    BY <2>1, Scaled
  <2>3. ~(2 =< CeilDiv(size, BlockSize))
    BY <1>1, <1>2, <1>3, <2>1, <2>2, Blocks
  <2> QED BY <1>3, <1>5, <2>1, <2>3
<1>7. PICK w, e, end : w = InodeWrites(i) /\ e = Emitted(i) /\ end = BodyEnd(EncodeInode(i))
  OBVIOUS
<1>8. /\ FiveAt(w, e, MetaBase + slots[i].start) /\ Written(img, w) /\ end \in Nat
      /\ w[3].off = end
  BY <1>7, Behinds
<1>9. /\ 3 \in DOMAIN w /\ w[3].len = plan[i].len
      /\ w[3].what = [kind |-> "data", node |-> i, part |-> 1]
  BY <1>1, <1>7, <1>8 DEF FiveAt, Emitted
<1>10. len =< plan[i].len
  BY <1>2, <1>3, <1>4, <1>5, Blocks
<1>11. At(img, end, len) = <<w[3].what, end - w[3].off>>
  BY <1>1, <1>4, <1>8, <1>9, <1>10, Got
<1>12. BlockAt(img, EncodeInode(i), b, len) = At(img, end, len)
  <2>1. EncodeInode(i).layout = "inline" /\ EncodeInode(i).size = FileSize(i)
    BY <1>1 DEF EncodeInode
  <2> QED BY <1>6, <1>7, <2>1 DEF BlockAt
<1>13. Stored(i, b) = <<[kind |-> "data", node |-> i, part |-> 1], 0>>
  <2>1. b * BlockSize = 0
    BY <1>5, Blocks
  <2> QED BY <1>1, <2>1 DEF Stored
<1> QED BY <1>8, <1>9, <1>11, <1>12, <1>13

\* A directory's blocks are where i_u says.
LEMMA DirFound ==
  ASSUME LayoutInv, FoundInv, pass = "done", NEW i \in 1..Nodes, plan[i].kind = "dir"
  PROVE  ReadsAll(i)
<1> DEFINE p == packed[Nid(i)]
           L == Len(p)
<1>1. PICK f : DirsLie(f, Nodes) /\ plan \in Plans
  BY EmittingFacts DEF Emitting
<1>2. f \in [1..(Nodes + 1) -> Nat] /\ Nodes \in Nat
  BY <1>1, NodeFacts DEF DirsLie
<1>3. IsSeq(p) /\ blockOf[Nid(i)] = f[i] /\ f[i] \in Nat
  BY <1>1, <1>2 DEF DirsLie
<1>4. L \in Nat /\ DOMAIN p = 1..L
  BY <1>3, SeqFacts
<1>5. ~Inlined(plan[i]) /\ Layout(plan[i]) = "plain"
  BY DEF Inlined, Layout
<1>6. FileSize(i) = L * BlockSize /\ RawU(i) = f[i]
  BY <1>3, <1>5 DEF FileSize, RawU
<1> HIDE DEF p, L
<1> SUFFICES ASSUME NEW b \in 0..(CeilDiv(FileSize(i), BlockSize) - 1), NEW len,
                    len = Smaller(FileSize(i) - b * BlockSize, BlockSize)
             PROVE  BlockAt(img, EncodeInode(i), b, len) = Stored(i, b)
  BY DEF ReadsAll
<1>7. PICK size \in Nat : size = FileSize(i)
  BY <1>4, <1>6, Scaled
<1>8. /\ b \in Nat /\ b * BlockSize \in Nat /\ len \in Nat /\ len > 0 /\ len =< BlockSize
      /\ b * BlockSize + len =< size
  BY <1>7, Asked
<1>9. b < L
  <2>1. L =< b => L * BlockSize =< b * BlockSize
    BY <1>4, <1>8, Scaled
  <2>2. b * BlockSize < L * BlockSize /\ L * BlockSize \in Nat
    BY <1>6, <1>7, <1>8
  <2> QED BY <1>4, <1>8, <2>1, <2>2
<1>10. PICK w, u : w = BlockWrites(i) /\ u = f[i]
  OBVIOUS
<1>11. b + 1 \in 1..L /\ u \in Nat /\ Written(img, w)
  BY <1>3, <1>4, <1>8, <1>9, <1>10, Ended
<1>12. /\ b + 1 \in DOMAIN w /\ w[b + 1].off = (u + (b + 1) - 1) * BlockSize
       /\ w[b + 1].len = BlockSize
       /\ w[b + 1].what = [kind |-> "dirblock", node |-> i, part |-> b + 1,
                           entries |-> p[b + 1]]
  BY <1>3, <1>4, <1>10, <1>11 DEF BlockWrites, Write, p
<1>13. w[b + 1].off = (u + b) * BlockSize /\ (u + b) * BlockSize \in Nat
  <2>1. u + (b + 1) - 1 = u + b /\ u + b \in Nat
    BY <1>8, <1>11
  <2> QED BY <1>12, <2>1, Scaled
<1>14. At(img, (u + b) * BlockSize, len)
         = <<w[b + 1].what, (u + b) * BlockSize - w[b + 1].off>>
  <2>1. PICK k, off : k = b + 1 /\ off = (u + b) * BlockSize
    OBVIOUS
  <2>2. k \in DOMAIN w /\ w[k].len > 0 /\ off \in Nat /\ w[k].off =< off
        /\ off + len =< w[k].off + w[k].len
    BY <1>8, <1>12, <1>13, <2>1, Blocks
  <2>3. At(img, off, len) = <<w[k].what, off - w[k].off>>
    BY <1>8, <1>11, <2>2, Got
  <2> QED BY <2>1, <2>3
<1>15. BlockAt(img, EncodeInode(i), b, len) = At(img, (u + b) * BlockSize, len)
  <2>1. EncodeInode(i).layout = "plain" /\ EncodeInode(i).rawU = u
    BY <1>5, <1>6, <1>10 DEF EncodeInode
  <2> QED BY <2>1 DEF BlockAt
<1>16. Stored(i, b) = <<w[b + 1].what, 0>>
  BY <1>12 DEF Stored, p
<1> QED BY <1>13, <1>14, <1>15, <1>16

\* A file or a symlink with blocks of its own is where i_u says.
LEMMA FlatFound ==
  ASSUME LayoutInv, FoundInv, pass = "done", NEW i \in 1..Nodes,
         plan[i].kind \in {"file", "symlink"}, ~Inlined(plan[i])
  PROVE  ReadsAll(i)
<1>1. PICK f, g : DataLies(g, Nodes) /\ plan \in Plans /\ IsNode(plan[i])
  BY EmittingFacts, Ended DEF Emitting
<1>2. plan[i].len \in Nat
  BY <1>1 DEF IsNode
<1>3. Layout(plan[i]) = "plain" /\ FileSize(i) = plan[i].len /\ RawU(i) = blockOf[Nid(i)]
  BY DEF Layout, FileSize, RawU
<1> SUFFICES ASSUME NEW b \in 0..(CeilDiv(FileSize(i), BlockSize) - 1), NEW len,
                    len = Smaller(FileSize(i) - b * BlockSize, BlockSize)
             PROVE  BlockAt(img, EncodeInode(i), b, len) = Stored(i, b)
  BY DEF ReadsAll
<1>4. PICK size \in Nat : size = FileSize(i)
  BY <1>2, <1>3
<1>5. /\ b \in Nat /\ b * BlockSize \in Nat /\ len \in Nat /\ len > 0 /\ len =< BlockSize
      /\ b * BlockSize + len =< size /\ size > 0
  BY <1>4, Asked
<1>6. StoredParts(plan[i]) = <<plan[i].len>> /\ StoredAt(i, 1) = blockOf[Nid(i)]
  BY DEF StoredParts, StoredAt
<1>7. blockOf[Nid(i)] \in Nat
  <2>1. PartsLie(i, g[i], g[i + 1])
    BY <1>1 DEF DataLies
  <2>2. 1 \in DOMAIN StoredParts(plan[i]) /\ StoredParts(plan[i])[1] > 0
    BY <1>3, <1>4, <1>5, <1>6
  <2> QED BY <1>6, <2>1, <2>2 DEF PartsLie
<1>8. PICK w, u : w = DataWrites(i) /\ u = blockOf[Nid(i)]
  OBVIOUS
<1>9. Written(img, w)
  BY <1>8, Ended
<1>10. /\ 1 \in DOMAIN w /\ w[1].off = u * BlockSize /\ w[1].len = size
       /\ w[1].what = [kind |-> "data", node |-> i, part |-> 1]
  BY <1>3, <1>4, <1>6, <1>8 DEF DataWrites, Write
<1>11. /\ (u + b) * BlockSize = u * BlockSize + b * BlockSize
       /\ u * BlockSize \in Nat /\ (u + b) * BlockSize \in Nat
  <2>1. u \in Nat /\ u + b \in Nat
    BY <1>5, <1>7, <1>8
  <2>2. u * BlockSize \in Nat /\ (u + b) * BlockSize \in Nat
    BY <2>1, Scaled
  <2>3. (u + b) * BlockSize = u * BlockSize + b * BlockSize
    BY <1>5, <2>1, Added
  <2> QED BY <2>2, <2>3
<1>12. At(img, (u + b) * BlockSize, len) = <<w[1].what, (u + b) * BlockSize - w[1].off>>
  <2>1. PICK off, x, y : off = (u + b) * BlockSize /\ x = u * BlockSize /\ y = b * BlockSize
    OBVIOUS
  <2>2. w[1].len > 0 /\ off \in Nat /\ w[1].off =< off
        /\ off + len =< w[1].off + w[1].len
    BY <1>5, <1>10, <1>11, <2>1
  <2>3. At(img, off, len) = <<w[1].what, off - w[1].off>>
    BY <1>5, <1>9, <1>10, <2>2, Got
  <2> QED BY <2>1, <2>3
<1>13. BlockAt(img, EncodeInode(i), b, len) = At(img, (u + b) * BlockSize, len)
  <2>1. EncodeInode(i).layout = "plain" /\ EncodeInode(i).rawU = u
    BY <1>3, <1>8 DEF EncodeInode
  <2> QED BY <2>1 DEF BlockAt
<1>14. Stored(i, b) = <<w[1].what, b * BlockSize>>
  BY <1>10 DEF Stored
<1>15. (u + b) * BlockSize - w[1].off = b * BlockSize
  <2>1. PICK x, y : x = u * BlockSize /\ y = b * BlockSize
    OBVIOUS
  <2> QED BY <1>5, <1>10, <1>11, <2>1
<1> QED BY <1>12, <1>13, <1>14, <1>15

-----------------------------------------------------------------------------
\* Quotient and remainder.
LEMMA DivFacts ==
  ASSUME NEW b \in Nat, NEW per \in Nat, per > 0
  PROVE  /\ b \div per \in Nat /\ b % per \in Nat /\ b % per < per
         /\ b = (b \div per) * per + (b % per)
<1> DEFINE q == b \div per
           r == b % per
<1>1. b = per * q + r /\ r \in 0 .. per - 1 /\ q \in Nat
  OBVIOUS
<1> HIDE DEF q, r
<1>2. per * q = q * per
  BY <1>1
<1>3. b = q * per + r /\ r \in Nat /\ r < per
  BY <1>1, <1>2
<1> QED BY <1>1, <1>3 DEF q, r

\* Multiples grow.
LEMMA Multiples ==
  ASSUME NEW m \in Nat, NEW a \in Nat, NEW b \in Nat
  PROVE  /\ a * m \in Nat /\ (a + b) * m = a * m + b * m
         /\ a =< b => a * m =< b * m
<1>1. (a + b) * m = a * m + b * m /\ a * m \in Nat /\ b * m \in Nat
  OBVIOUS
<1>2. ASSUME a =< b PROVE a * m =< b * m
  <2>1. PICK d \in Nat : b = a + d
    <3>1. b - a \in Nat /\ b = a + (b - a)
      BY <1>2
    <3> QED BY <3>1
  <2>2. b * m = a * m + d * m /\ d * m \in Nat
    BY <2>1
  <2> QED BY <1>1, <2>2
<1> QED BY <1>1, <1>2

\* What a chunk stands for of the file's bytes.
ChunkBytes(n, c) == IF n.chunks[c] = Hole THEN ChunkSize(n) ELSE n.chunks[c]

\* A chunked file's size: all of its chunks but the last one are whole.
LEMMA ChunkedFacts ==
  ASSUME NEW n, IsNode(n), n.kind = "chunked", ~ChunksRefused(n), NEW l, l = Len(n.chunks)
  PROVE  /\ l \in Nat /\ DOMAIN n.chunks = 1..l /\ ChunkSize(n) \in Nat
         /\ \A c \in 1..l : /\ n.chunks[c] # Hole => n.chunks[c] \in Nat
                            /\ ChunkBytes(n, c) \in Nat /\ ChunkBytes(n, c) =< ChunkSize(n)
                            /\ c < l => ChunkBytes(n, c) = ChunkSize(n)
         /\ l = 0 => ChunkedSize(n) = 0
         /\ l > 0 => ChunkedSize(n) = (l - 1) * ChunkSize(n) + ChunkBytes(n, l)
<1>1. n.bits \in Nat /\ n.chunks \in Seq(Nat \cup {Hole})
  BY DEF IsNode
<1>2. l \in Nat /\ DOMAIN n.chunks = 1..l /\ \A c \in 1..l : n.chunks[c] \in Nat \cup {Hole}
  BY <1>1
<1>3. PICK s : s = ChunkSize(n)
  OBVIOUS
<1>4. s \in Nat
  <2>1. 2^n.bits \in Nat
    BY <1>1, PowerFacts
  <2>2. PICK p \in Nat : p = 2^n.bits
    BY <2>1
  <2>3. s = BlockSize * p
    BY <1>3, <2>2 DEF ChunkSize
  <2> QED BY <2>3, Blocks
<1>5. ASSUME NEW c \in 1..l
      PROVE  /\ n.chunks[c] # Hole => n.chunks[c] \in Nat
             /\ ChunkBytes(n, c) \in Nat /\ ChunkBytes(n, c) =< s
             /\ c < l => ChunkBytes(n, c) = s
  <2>1. n.chunks[c] # Hole => n.chunks[c] \in Nat /\ n.chunks[c] =< s
                              /\ (c < l => n.chunks[c] = s)
    BY <1>2, <1>3, <1>4 DEF ChunksRefused
  <2> QED BY <1>3, <1>4, <2>1 DEF ChunkBytes
<1>51. PICK d : d = [k \in 1..l |-> ChunkBytes(n, k)]
  OBVIOUS
<1> DEFINE T(t) == t = [k \in 0..l |-> IF k = 0 THEN 0 ELSE t[k - 1] + d[k]]
           total == CHOOSE t : T(t)
<1>6. ChunkedSize(n) = total[l]
  <2>1. ASSUME NEW t
        PROVE  T(t) <=> t = [k \in 0..Len(n.chunks) |->
                 IF k = 0 THEN 0
                 ELSE t[k - 1] + IF n.chunks[k] = Hole THEN ChunkSize(n) ELSE n.chunks[k]]
    <3>1. \A k \in 0..l : k # 0 =>
            d[k] = IF n.chunks[k] = Hole THEN ChunkSize(n) ELSE n.chunks[k]
      BY <1>2, <1>51 DEF ChunkBytes
    <3>2. [k \in 0..l |-> IF k = 0 THEN 0 ELSE t[k - 1] + d[k]]
            = [k \in 0..l |-> IF k = 0 THEN 0 ELSE t[k - 1] +
                 IF n.chunks[k] = Hole THEN ChunkSize(n) ELSE n.chunks[k]]
      BY <3>1
    <3> QED BY <3>2
  <2> QED BY <2>1 DEF ChunkedSize
<1>7. \E t : T(t)
  <2>1. PICK t : Totals(t, d, l, 0)
    BY <1>2, RunsExist
  <2>2. T(t)
    BY <2>1 DEF Totals
  <2> HIDE DEF T
  <2> QED BY <2>2
<1>8. T(total)
  BY <1>7
<1> HIDE DEF total
<1>9. PICK t : t = total
  OBVIOUS
<1>10. /\ t[0] = 0
       /\ \A k \in 1..l : t[k] = t[k - 1] + ChunkBytes(n, k)
  <2>1. t = [k \in 0..l |-> IF k = 0 THEN 0 ELSE t[k - 1] + d[k]]
    BY <1>8, <1>9
  <2>2. \A k \in 1..l : d[k] = ChunkBytes(n, k)
    BY <1>51
  <2>3. 0 \in 0..l /\ \A k \in 1..l : k \in 0..l /\ k # 0
    BY <1>2
  <2> QED BY <2>1, <2>2, <2>3
<1> DEFINE S == {k \in Nat : k =< l - 1 => t[k] = k * s}
<1> HIDE DEF T
<1>11. 0 \in S
  BY <1>4, <1>10
<1>12. ASSUME NEW k \in S PROVE k + 1 \in S
  <2> SUFFICES ASSUME k + 1 =< l - 1 PROVE t[k + 1] = (k + 1) * s
    OBVIOUS
  <2>1. k \in Nat /\ t[k] = k * s /\ k + 1 \in 1..l /\ (k + 1) - 1 = k /\ k + 1 < l
    BY <1>2
  <2>2. t[k + 1] = k * s + s
    BY <1>5, <1>10, <2>1
  <2>3. (k + 1) * s = k * s + 1 * s /\ 1 * s = s
    BY <1>4, <2>1, Multiples
  <2> QED BY <2>2, <2>3
<1>13. S = Nat
  <2> HIDE DEF S
  <2>1. S \in SUBSET Nat
    BY DEF S
  <2> QED BY <1>11, <1>12, <2>1, NatInd
<1>14. l > 0 => t[l] = (l - 1) * s + ChunkBytes(n, l)
  <2> SUFFICES ASSUME l > 0 PROVE t[l] = (l - 1) * s + ChunkBytes(n, l)
    OBVIOUS
  <2>1. l - 1 \in Nat /\ l \in 1..l
    BY <1>2
  <2>2. t[l - 1] = (l - 1) * s
    BY <1>13, <2>1
  <2> QED BY <1>10, <2>1, <2>2
<1> QED BY <1>2, <1>3, <1>4, <1>5, <1>6, <1>9, <1>10, <1>14

\* The bytes asked of a block are all in its chunk.
LEMMA InChunk ==
  ASSUME NEW n, IsNode(n), n.kind = "chunked", ~ChunksRefused(n),
         NEW b \in Nat, NEW len \in Nat, len > 0, len =< BlockSize,
         b * BlockSize + len =< ChunkedSize(n),
         NEW c, c = b \div 2^n.bits, NEW r, r = b % 2^n.bits
  PROVE  /\ c \in Nat /\ r \in Nat /\ c + 1 \in DOMAIN n.chunks
         /\ n.chunks[c + 1] # Hole =>
              n.chunks[c + 1] \in Nat /\ r * BlockSize + len =< n.chunks[c + 1]
<1>1. PICK l, s, p, B : l = Len(n.chunks) /\ s = ChunkSize(n) /\ p = 2^n.bits /\ B = BlockSize
  OBVIOUS
<1>2. p \in Nat /\ p > 0 /\ B \in Nat /\ B > 0 /\ s = B * p
  <2>1. n.bits \in Nat
    BY DEF IsNode
  <2> QED BY <1>1, <2>1, PowerFacts, Blocks, SMTT(30) DEF ChunkSize
<1>3. /\ l \in Nat /\ DOMAIN n.chunks = 1..l /\ s \in Nat
      /\ \A k \in 1..l : /\ n.chunks[k] # Hole => n.chunks[k] \in Nat
                         /\ ChunkBytes(n, k) \in Nat /\ ChunkBytes(n, k) =< s
                         /\ k < l => ChunkBytes(n, k) = s
      /\ l = 0 => ChunkedSize(n) = 0
      /\ l > 0 => ChunkedSize(n) = (l - 1) * s + ChunkBytes(n, l)
  BY <1>1, ChunkedFacts
<1>4. /\ c \in Nat /\ r \in Nat /\ r < p /\ b = c * p + r
  BY <1>1, <1>2, DivFacts
<1>5. b * B = c * s + r * B /\ c * s \in Nat /\ r * B \in Nat
  <2>1. (c * p) * B = c * s
    BY <1>2, <1>4
  <2>2. c * p \in Nat
    BY <1>2, <1>4
  <2>3. b * B = (c * p) * B + r * B
    BY <1>2, <1>4, <2>2, Multiples
  <2>4. c * s \in Nat /\ r * B \in Nat
    BY <1>2, <1>3, <1>4, Multiples
  <2> QED BY <2>1, <2>3, <2>4
<1>6. l > 0
  <2>1. b * B \in Nat /\ b * B + len =< ChunkedSize(n)
    BY <1>1, <1>2
  <2> QED BY <1>3, <2>1
<1>7. l - 1 \in Nat /\ l \in 1..l
  BY <1>3, <1>6
<1>8. PICK x, y, z : x = c * s /\ y = (l - 1) * s /\ z = r * B
  OBVIOUS
<1>9. x + z + len =< y + ChunkBytes(n, l) /\ x \in Nat /\ y \in Nat /\ z \in Nat
  <2>1. y \in Nat
    BY <1>3, <1>7, <1>8, Multiples
  <2>2. b * B = x + z
    BY <1>5, <1>8
  <2> QED BY <1>1, <1>3, <1>5, <1>6, <1>8, <2>1, <2>2
<1>10. c < l
  <2>1. l =< c => l * s =< c * s
    BY <1>3, <1>4, Multiples
  <2>2. l * s = y + s
    <3>1. ((l - 1) + 1) * s = (l - 1) * s + 1 * s /\ (l - 1) + 1 = l /\ 1 * s = s
      BY <1>3, <1>7, Multiples
    <3> QED BY <1>8, <3>1
  <2>3. ChunkBytes(n, l) =< s /\ ChunkBytes(n, l) \in Nat
    BY <1>3, <1>7
  <2>4. PICK m : m = l * s
    OBVIOUS
  <2>5. l =< c => m =< x
    BY <1>8, <2>1, <2>4
  <2>6. m = y + s
    BY <2>2, <2>4
  <2>7. ~(m =< x)
    BY <1>3, <1>9, <2>3, <2>6
  <2> QED BY <1>3, <1>4, <2>5, <2>7
<1>11. c + 1 \in 1..l
  BY <1>3, <1>4, <1>10
<1>12. z + len =< ChunkBytes(n, c + 1)
  <2>1. CASE c + 1 < l
    <3>1. (r + 1) * B =< p * B /\ (r + 1) * B = r * B + 1 * B /\ 1 * B = B
      <4>1. PICK q : q = r + 1
        OBVIOUS
      <4>2. q \in Nat /\ q =< p
        <5>1. \A u, v \in Nat : u < v => u + 1 \in Nat /\ u + 1 =< v
          OBVIOUS
        <5>2. r \in Nat /\ p \in Nat /\ r < p
          BY <1>2, <1>4
        <5>3. r + 1 \in Nat /\ r + 1 =< p
          BY <5>1, <5>2
        <5> QED BY <4>1, <5>3
      <4>3. q * B =< p * B
        BY <1>2, <4>2, Multiples
      <4>4. (r + 1) * B = r * B + 1 * B
        BY <1>2, <1>4, Multiples
      <4> QED BY <1>2, <4>1, <4>3, <4>4
    <3>2. p * B = s
      BY <1>2
    <3>3. z + B =< s /\ len =< B
      BY <1>1, <1>8, <3>1, <3>2
    <3>4. ChunkBytes(n, c + 1) = s
      BY <1>3, <1>11, <2>1
    <3> QED BY <1>2, <1>3, <1>9, <3>3, <3>4
  <2>2. CASE c + 1 = l
    <3>1. c = l - 1
      BY <1>4, <1>7, <2>2
    <3>2. x = y
      BY <1>8, <3>1
    <3>3. ChunkBytes(n, l) \in Nat
      BY <1>3, <1>7
    <3> QED BY <1>9, <2>2, <3>2, <3>3
  <2> QED BY <1>3, <1>11, <2>1, <2>2
<1>13. n.chunks[c + 1] # Hole => ChunkBytes(n, c + 1) = n.chunks[c + 1]
  BY DEF ChunkBytes
<1>14. r * BlockSize = z
  BY <1>1, <1>8
<1> QED BY <1>3, <1>4, <1>11, <1>12, <1>13, <1>14

\* A chunk's entry in the map behind the inode is the address it was given.
LEMMA EntryFound ==
  ASSUME LayoutInv, FoundInv, pass = "done", NEW i \in 1..Nodes, plan[i].kind = "chunked",
         NEW c \in Nat, c + 1 \in DOMAIN plan[i].chunks
  PROVE  ChunkAddr(img, EncodeInode(i), c) = addrsOf[Nid(i)][c + 1]
<1>0. /\ IsNode(plan[i]) /\ ~ChunksRefused(plan[i])
      /\ Len(addrsOf[Nid(i)]) = Len(plan[i].chunks)
  BY Ended, EmittingFacts DEF BodyRefused, Emitting, DataLies
<1>1. PICK n, l, addrs, stride, ino : /\ n = plan[i] /\ l = Len(n.chunks) /\ addrs = addrsOf[Nid(i)]
                                      /\ stride = EntrySize(n) /\ ino = EncodeInode(i)
  OBVIOUS
<1>2. l \in Nat /\ c + 1 =< l /\ Len(addrs) = l /\ stride \in {4, 8}
  <2>1. l \in Nat /\ DOMAIN n.chunks = 1..l
    BY <1>0, <1>1, ChunkedFacts
  <2> QED BY <1>0, <1>1, <2>1, SpanFacts
<1>3. TailBytes(n) = 0
  BY <1>1 DEF TailBytes, Inlined
<1>4. PICK w, e, end : w = InodeWrites(i) /\ e = Emitted(i) /\ end = BodyEnd(ino)
  OBVIOUS
<1>5. /\ FiveAt(w, e, MetaBase + slots[i].start) /\ Written(img, w) /\ end \in Nat
      /\ w[4].off = end + TailBytes(n)
  BY <1>1, <1>4, Behinds
<1>6. PICK what : what = [kind |-> "chunkmap", node |-> i, addrs |-> addrs, stride |-> stride]
  OBVIOUS
<1>7. /\ 4 \in DOMAIN w /\ w[4].what = what /\ w[4].len = l * stride /\ w[4].off = end
  <2>1. e[4] = <<l * stride, what>>
    BY <1>0, <1>1, <1>2, <1>4, <1>6 DEF Emitted
  <2>2. 4 \in DOMAIN w /\ w[4].what = e[4][2] /\ w[4].len = e[4][1]
    BY <1>5 DEF FiveAt
  <2> QED BY <1>3, <1>5, <2>1, <2>2
<1>8. PICK x, y : x = c * stride /\ y = l * stride
  OBVIOUS
<1>9. x \in Nat /\ x + stride =< y /\ stride \in Nat /\ stride > 0 /\ x \div stride = c
  BY <1>2, <1>8
<1>10. At(img, end + x, stride) = <<what, x>>
  <2>1. PICK off : off = end + x
    OBVIOUS
  <2>2. /\ off \in Nat /\ w[4].len > 0 /\ w[4].off =< off /\ off + stride =< w[4].off + w[4].len
        /\ off - w[4].off = x
    <3>1. w[4].len = y /\ w[4].off = end /\ x + stride =< y /\ x \in Nat /\ stride \in Nat
          /\ stride > 0 /\ end \in Nat
      BY <1>5, <1>7, <1>8, <1>9
    <3>2. y \in Nat /\ y > 0
      <4>1. y \in Nat
        BY <1>2, <1>8
      <4> QED BY <3>1, <4>1
    <3> QED BY <2>1, <3>1, <3>2
  <2>3. At(img, off, stride) = <<w[4].what, off - w[4].off>>
    BY <1>5, <1>7, <1>9, <2>2, Got
  <2> QED BY <1>7, <2>1, <2>2, <2>3
<1>11. ChunkAddr(img, ino, c) = MapEntry(img, ino, c, stride)
  <2>1. ino.indexed = n.indexed /\ n.indexed \in BOOLEAN
    BY <1>0, <1>1 DEF EncodeInode, IsNode
  <2> QED BY <1>1, <2>1 DEF ChunkAddr, EntrySize
<1>12. MapEntry(img, ino, c, stride) = addrs[c + 1]
  <2>1. PICK a : a = At(img, end + x, stride)
    OBVIOUS
  <2>2. a = <<what, x>> /\ a # <<"lost">> /\ a[1] = what /\ a[2] = x
    <3>1. a = <<what, x>>
      BY <1>10, <2>1
    <3>2. Len(<<what, x>>) = 2 /\ Len(<<"lost">>) = 1
      OBVIOUS
    <3> QED BY <3>1, <3>2
  <2>3. a[1].kind = "chunkmap" /\ a[1].stride = stride /\ a[1].addrs = addrs
    BY <1>6, <2>2
  <2>4. MapEntry(img, ino, c, stride) = addrs[a[2] \div stride + 1]
    BY <1>4, <1>8, <2>1, <2>2, <2>3 DEF MapEntry
  <2> QED BY <1>9, <2>2, <2>4
<1> QED BY <1>1, <1>11, <1>12

\* A stored chunk's address is one no hole has, and none the reader stops at.
LEMMA AddressGood ==
  ASSUME LayoutInv, FoundInv, pass = "done", NEW i \in 1..Nodes,
         NEW p \in DOMAIN StoredParts(plan[i]), StoredParts(plan[i])[p] \in Nat,
         StoredParts(plan[i])[p] > 0
  PROVE  StoredAt(i, p) \in Nat /\ StoredAt(i, p) # NullAddr /\ StoredAt(i, p) # NoAddr
<1>1. PICK f, g : DirsLie(f, Nodes) /\ plan \in Plans /\ g[1] = f[Nodes + 1]
                  /\ DataLies(g, Nodes) /\ g[Nodes + 1] = next
  BY EmittingFacts DEF Emitting
<1>2. Nodes \in Nat /\ next =< MaxBlocks /\ next \in Nat /\ MaxBlocks \in Nat /\ NullAddr = MaxBlocks
  BY Ended, ImageLayoutAssumption
<1>3. i + 1 \in 1..(Nodes + 1)
  BY <1>2
<1>4. g[i + 1] =< next /\ g[i + 1] \in Nat
  BY <1>1, <1>3, Between
<1>5. PartsLie(i, g[i], g[i + 1])
  BY <1>1 DEF DataLies
<1>6. PICK a, to, part : a = StoredAt(i, p) /\ to = g[i + 1] /\ part = StoredParts(plan[i])[p]
  OBVIOUS
<1>7. a \in Nat /\ a * BlockSize + part =< to * BlockSize /\ part \in Nat /\ part > 0 /\ to \in Nat
  BY <1>4, <1>5, <1>6 DEF PartsLie
<1>8. a < to
  <2>1. to =< a => to * BlockSize =< a * BlockSize
    BY <1>7, Scaled
  <2>2. a * BlockSize \in Nat /\ to * BlockSize \in Nat
    BY <1>7, Scaled
  <2> QED BY <1>7, <2>1, <2>2
<1> QED BY <1>2, <1>4, <1>6, <1>7, <1>8 DEF NoAddr

\* Every chunk is found through the map, and a hole is found to be one.
LEMMA ChunkedFound ==
  ASSUME LayoutInv, FoundInv, pass = "done", NEW i \in 1..Nodes, plan[i].kind = "chunked"
  PROVE  ReadsAll(i)
<1>1. /\ IsNode(plan[i]) /\ ~ChunksRefused(plan[i])
      /\ \A c \in DOMAIN plan[i].chunks :
           plan[i].chunks[c] = Hole => addrsOf[Nid(i)][c] = NullAddr
  BY Ended DEF BodyRefused
<1>2. Layout(plan[i]) = "chunked" /\ FileSize(i) = ChunkedSize(plan[i])
  BY DEF Layout, FileSize, Inlined
<1>3. PICK size \in Nat : size = FileSize(i)
  <2>1. PICK l, s : l = Len(plan[i].chunks) /\ s = ChunkSize(plan[i])
    OBVIOUS
  <2>2. /\ l \in Nat /\ s \in Nat
        /\ \A c \in 1..l : ChunkBytes(plan[i], c) \in Nat
        /\ l = 0 => ChunkedSize(plan[i]) = 0
        /\ l > 0 => ChunkedSize(plan[i]) = (l - 1) * s + ChunkBytes(plan[i], l)
    BY <1>1, <2>1, ChunkedFacts
  <2>3. l > 0 => (l - 1) * s \in Nat /\ ChunkBytes(plan[i], l) \in Nat
    <3>1. l > 0 => l - 1 \in Nat /\ l \in 1..l
      BY <2>2
    <3> QED BY <2>2, <3>1, Multiples
  <2>4. ChunkedSize(plan[i]) \in Nat
    BY <2>2, <2>3
  <2> QED BY <1>2, <2>4
<1> SUFFICES ASSUME NEW b \in 0..(CeilDiv(FileSize(i), BlockSize) - 1), NEW len,
                    len = Smaller(FileSize(i) - b * BlockSize, BlockSize)
             PROVE  BlockAt(img, EncodeInode(i), b, len) = Stored(i, b)
  BY DEF ReadsAll
<1>4. /\ b \in Nat /\ b * BlockSize \in Nat /\ len \in Nat /\ len > 0 /\ len =< BlockSize
      /\ b * BlockSize + len =< size
  BY <1>3, Asked
<1>5. PICK c, r : c = b \div 2^plan[i].bits /\ r = b % 2^plan[i].bits
  OBVIOUS
<1>6. /\ c \in Nat /\ r \in Nat /\ c + 1 \in DOMAIN plan[i].chunks
      /\ plan[i].chunks[c + 1] # Hole =>
           plan[i].chunks[c + 1] \in Nat /\ r * BlockSize + len =< plan[i].chunks[c + 1]
  <2>1. b * BlockSize + len =< ChunkedSize(plan[i])
    BY <1>2, <1>3, <1>4
  <2> QED BY <1>1, <1>4, <1>5, <2>1, InChunk
<1>7. PICK k, a, ino : k = c + 1 /\ a = addrsOf[Nid(i)][k] /\ ino = EncodeInode(i)
  OBVIOUS
<1>8. ChunkAddr(img, ino, c) = a
  BY <1>6, <1>7, EntryFound
<1>9. /\ BlockAt(img, ino, b, len) =
           IF a = NullAddr THEN <<"hole">>
           ELSE IF a = NoAddr THEN <<"lost">>
           ELSE At(img, (a + r) * BlockSize, len)
      /\ Stored(i, b) = IF plan[i].chunks[k] = Hole THEN <<"hole">>
                        ELSE <<[kind |-> "data", node |-> i, part |-> k], r * BlockSize>>
  <2>1. ino.layout = "chunked" /\ ino.bits = plan[i].bits
    BY <1>2, <1>7 DEF EncodeInode
  <2>2. BlockAt(img, ino, b, len) =
           IF a = NullAddr THEN <<"hole">>
           ELSE IF a = NoAddr THEN <<"lost">>
           ELSE At(img, (a + r) * BlockSize, len)
    BY <1>5, <1>8, <2>1 DEF BlockAt
  <2>3. Stored(i, b) = IF plan[i].chunks[k] = Hole THEN <<"hole">>
                        ELSE <<[kind |-> "data", node |-> i, part |-> k], r * BlockSize>>
    BY <1>5, <1>7 DEF Stored
  <2> QED BY <2>2, <2>3
<1>10. CASE plan[i].chunks[k] = Hole
  BY <1>1, <1>6, <1>7, <1>9, <1>10
<1>11. CASE plan[i].chunks[k] # Hole
  <2>1. StoredParts(plan[i]) = plan[i].chunks /\ StoredAt(i, k) = a
    BY <1>7 DEF StoredParts, StoredAt
  <2>2. PICK part, z : part = plan[i].chunks[k] /\ z = r * BlockSize
    OBVIOUS
  <2>3. part \in Nat /\ z \in Nat /\ z + len =< part /\ part > 0 /\ k \in DOMAIN plan[i].chunks
    <3>1. z \in Nat
      BY <1>6, <2>2, Scaled
    <3> QED BY <1>4, <1>6, <1>7, <1>11, <2>2, <3>1
  <2>4. a \in Nat /\ a # NullAddr /\ a # NoAddr
    BY <2>1, <2>2, <2>3, AddressGood
  <2>5. PICK w, x, off : w = DataWrites(i) /\ x = a * BlockSize /\ off = (a + r) * BlockSize
    OBVIOUS
  <2>6. Written(img, w)
    BY <2>5, Ended
  <2>7. /\ k \in DOMAIN w /\ w[k].off = x /\ w[k].len = part
        /\ w[k].what = [kind |-> "data", node |-> i, part |-> k]
    BY <2>1, <2>2, <2>3, <2>5 DEF DataWrites, Write
  <2>8. x \in Nat /\ off = x + z
    <3>1. x \in Nat
      BY <2>4, <2>5, Scaled
    <3>2. (a + r) * BlockSize = a * BlockSize + r * BlockSize
      BY <1>6, <2>4, Added
    <3> QED BY <2>2, <2>5, <3>1, <3>2
  <2>9. off \in Nat /\ w[k].len > 0 /\ w[k].off =< off /\ off + len =< w[k].off + w[k].len
        /\ off - w[k].off = z
    BY <1>4, <2>3, <2>7, <2>8
  <2>10. At(img, off, len) = <<w[k].what, off - w[k].off>>
    BY <1>4, <2>6, <2>7, <2>9, Got
  <2> QED BY <1>7, <1>9, <1>11, <2>2, <2>4, <2>5, <2>7, <2>9, <2>10
<1> QED BY <1>7, <1>10, <1>11

\* A device, a FIFO or a socket has no block to read.
LEMMA SpecialFound ==
  ASSUME NEW i \in 1..Nodes, plan[i].kind = "special"
  PROVE  ReadsAll(i)
<1>1. FileSize(i) = 0
  BY DEF FileSize
<1>2. CeilDiv(0, BlockSize) = 0
  <2>1. PICK x \in Nat : x = BlockSize /\ x > 0
    BY Blocks
  <2>2. (0 + x - 1) \div x = 0
    BY <2>1
  <2> QED BY <2>1, <2>2 DEF CeilDiv
<1>3. ~\E b \in 0..(CeilDiv(FileSize(i), BlockSize) - 1) : TRUE
  BY <1>1, <1>2
<1> QED BY <1>3 DEF ReadsAll

\* What the reader is to find of a compressed file: its trailer, which holds the
\* pclusters' addresses, and each pcluster that has blocks.
ReadsCompressed(i) ==
  /\ At(img, BodyEnd(EncodeInode(i)), plan[i].index)
       = <<[kind |-> "zmap", node |-> i, addrs |-> addrsOf[Nid(i)]], 0>>
  /\ \A p \in DOMAIN plan[i].blocks :
       PclusterBlocks(plan[i])[p] > 0 =>
         At(img, addrsOf[Nid(i)][p] * BlockSize, PclusterBlocks(plan[i])[p] * BlockSize)
           = <<[kind |-> "data", node |-> i, part |-> p], 0>>

LEMMA CompressedFound ==
  ASSUME LayoutInv, FoundInv, pass = "done", NEW i \in 1..Nodes, plan[i].kind = "compressed"
  PROVE  ReadsCompressed(i)
<1>1. PICK n : n = plan[i]
  OBVIOUS
<1>2. /\ n.index \in Nat /\ n.index > 0 /\ n.raw \in Nat /\ n.blocks \in Seq(Nat)
      /\ n.kind = "compressed"
  BY <1>1, Ended DEF IsNode
<1>3. TailBytes(n) = 0 /\ ZmapBytes(n) \in Nat /\ ZmapBytes(n) >= n.index
  BY <1>2 DEF TailBytes, Inlined, ZmapBytes
<1>4. PICK w, e, end : w = InodeWrites(i) /\ e = Emitted(i) /\ end = BodyEnd(EncodeInode(i))
  OBVIOUS
<1>5. /\ FiveAt(w, e, MetaBase + slots[i].start) /\ Written(img, w) /\ end \in Nat
      /\ w[5].off = end + TailBytes(n) + e[4][1]
  BY <1>1, <1>4, Behinds
<1>6. PICK what : what = [kind |-> "zmap", node |-> i, addrs |-> addrsOf[Nid(i)]]
  OBVIOUS
<1>7. /\ 5 \in DOMAIN w /\ w[5].what = what /\ w[5].len = ZmapBytes(n) /\ w[5].off = end
  <2>1. e[5] = <<ZmapBytes(n), what>> /\ e[4][1] = 0
    BY <1>1, <1>2, <1>4, <1>6 DEF Emitted
  <2>2. 5 \in DOMAIN w /\ w[5].what = e[5][2] /\ w[5].len = e[5][1]
    BY <1>5 DEF FiveAt
  <2> QED BY <1>3, <1>5, <2>1, <2>2
<1>8. At(img, end, n.index) = <<what, 0>>
  <2>1. /\ w[5].len > 0 /\ w[5].off =< end /\ end + n.index =< w[5].off + w[5].len
        /\ end - w[5].off = 0
    BY <1>2, <1>3, <1>5, <1>7
  <2>2. At(img, end, n.index) = <<w[5].what, end - w[5].off>>
    BY <1>2, <1>5, <1>7, <2>1, Got
  <2> QED BY <1>7, <2>1, <2>2
<1>9. ASSUME NEW p \in DOMAIN n.blocks, PclusterBlocks(n)[p] > 0
      PROVE  At(img, addrsOf[Nid(i)][p] * BlockSize, PclusterBlocks(n)[p] * BlockSize)
               = <<[kind |-> "data", node |-> i, part |-> p], 0>>
  <2>1. PICK k, a, u : k = PclusterBlocks(n)[p] /\ a = addrsOf[Nid(i)][p] /\ u = k * BlockSize
    OBVIOUS
  <2>2. k \in Nat /\ k > 0
    BY <1>2, <1>9, <2>1 DEF PclusterBlocks
  <2>3. u \in Nat /\ u > 0
    <3>1. 1 * BlockSize =< k * BlockSize /\ k * BlockSize \in Nat
      BY <2>2, Scaled
    <3> QED BY <2>1, <3>1, Blocks
  <2>4. /\ p \in DOMAIN StoredParts(n) /\ StoredParts(n)[p] = u /\ StoredAt(i, p) = a
    BY <1>1, <1>2, <2>1 DEF StoredParts, StoredAt
  <2>5. a \in Nat
    BY <1>1, <2>3, <2>4, AddressGood
  <2>6. PICK d, x : d = DataWrites(i) /\ x = a * BlockSize
    OBVIOUS
  <2>7. x \in Nat /\ Written(img, d)
    BY <2>5, <2>6, Scaled, Ended
  <2>8. /\ p \in DOMAIN d /\ d[p].off = x /\ d[p].len = u
        /\ d[p].what = [kind |-> "data", node |-> i, part |-> p]
    BY <1>1, <2>4, <2>6 DEF DataWrites, Write
  <2>9. d[p].off =< x /\ x + u =< d[p].off + d[p].len /\ x - d[p].off = 0
    BY <2>3, <2>7, <2>8
  <2>10. At(img, x, u) = <<d[p].what, x - d[p].off>>
    BY <2>3, <2>7, <2>8, <2>9, Got
  <2> QED BY <2>1, <2>6, <2>8, <2>9, <2>10
<1> QED BY <1>1, <1>4, <1>6, <1>8, <1>9 DEF ReadsCompressed

\* A node is one of those.
LEMMA NodeFound ==
  ASSUME LayoutInv, FoundInv, pass = "done", NEW i \in 1..Nodes
  PROVE  /\ Layout(plan[i]) # "compressed" => ReadsAll(i)
         /\ Layout(plan[i]) = "compressed" => ReadsCompressed(i)
<1>1. plan[i].kind \in {"file", "symlink", "dir", "special", "chunked", "compressed"}
  BY Ended DEF IsNode
<1>2. Inlined(plan[i]) => plan[i].kind = "file"
  BY DEF Inlined
<1>3. Layout(plan[i]) = "compressed" <=> plan[i].kind = "compressed"
  BY <1>2 DEF Layout
<1>4. CASE Inlined(plan[i])
  BY <1>2, <1>3, <1>4, InlineFound
<1>5. CASE ~Inlined(plan[i]) /\ plan[i].kind \in {"file", "symlink"}
  BY <1>3, <1>5, FlatFound
<1>6. CASE plan[i].kind = "dir"
  BY <1>3, <1>6, DirFound
<1>7. CASE plan[i].kind = "special"
  BY <1>3, <1>7, SpecialFound
<1>8. CASE plan[i].kind = "chunked"
  BY <1>3, <1>8, ChunkedFound
<1>9. CASE plan[i].kind = "compressed"
  BY <1>3, <1>9, CompressedFound
<1> QED BY <1>1, <1>4, <1>5, <1>6, <1>7, <1>8, <1>9

LEMMA Finds == LayoutInv /\ FoundInv => ReaderFinds
<1> SUFFICES ASSUME LayoutInv, FoundInv PROVE ReaderFinds
  OBVIOUS
<1>1. TailInOneBlock /\ NamesLead
  BY TailFits, NamesFound DEF FoundInv
<1>2. \A nid \in DOMAIN addrsOf : \A k \in DOMAIN addrsOf[nid] : addrsOf[nid][k] <= MaxBlocks
  BY DEF FoundInv, AddrsFit
<1>3. ASSUME pass = "done", NEW i \in DOMAIN plan, NEW w, w = InodeAt(img, ImageSize, Nid(i))
      PROVE  /\ w = <<EncodeInode(i), 0>>
             /\ w[1].layout # "compressed" =>
                  \A b \in 0..(CeilDiv(w[1].size, BlockSize) - 1) :
                    BlockAt(img, w[1], b, Smaller(w[1].size - b * BlockSize, BlockSize))
                      = Stored(i, b)
             /\ w[1].layout = "compressed" =>
                  /\ At(img, BodyEnd(w[1]), plan[i].index)
                       = <<[kind |-> "zmap", node |-> i, addrs |-> addrsOf[Nid(i)]], 0>>
                  /\ \A p \in DOMAIN plan[i].blocks :
                       PclusterBlocks(plan[i])[p] > 0 =>
                         At(img, addrsOf[Nid(i)][p] * BlockSize,
                            PclusterBlocks(plan[i])[p] * BlockSize)
                           = <<[kind |-> "data", node |-> i, part |-> p], 0>>
  <2>1. i \in 1..Nodes
    <3>1. plan \in Plans
      BY <1>3, EmittingFacts DEF Emitting
    <3> QED BY <1>3, <3>1, ImageLayoutAssumption, PlanFacts DEF Nodes
  <2>2. w = <<EncodeInode(i), 0>>
    BY <1>3, <2>1, InodeFound
  <2>3. PICK ino : ino = EncodeInode(i)
    OBVIOUS
  <2>4. w[1] = ino
    BY <2>2, <2>3
  <2>5. ino.layout = Layout(plan[i]) /\ ino.size = FileSize(i)
    BY <2>3 DEF EncodeInode
  <2>6. Layout(plan[i]) # "compressed" => ReadsAll(i)
    BY <1>3, <2>1, NodeFound
  <2>7. Layout(plan[i]) = "compressed" => ReadsCompressed(i)
    BY <1>3, <2>1, NodeFound
  <2>8. w[1].layout # "compressed" =>
          \A b \in 0..(CeilDiv(w[1].size, BlockSize) - 1) :
            BlockAt(img, w[1], b, Smaller(w[1].size - b * BlockSize, BlockSize)) = Stored(i, b)
    BY <2>3, <2>4, <2>5, <2>6 DEF ReadsAll
  <2>9. w[1].layout = "compressed" =>
          /\ At(img, BodyEnd(w[1]), plan[i].index)
               = <<[kind |-> "zmap", node |-> i, addrs |-> addrsOf[Nid(i)]], 0>>
          /\ \A p \in DOMAIN plan[i].blocks :
               PclusterBlocks(plan[i])[p] > 0 =>
                 At(img, addrsOf[Nid(i)][p] * BlockSize,
                    PclusterBlocks(plan[i])[p] * BlockSize)
                   = <<[kind |-> "data", node |-> i, part |-> p], 0>>
    BY <2>3, <2>4, <2>5, <2>7 DEF ReadsCompressed
  <2> QED BY <2>2, <2>8, <2>9
<1> QED BY <1>1, <1>2, <1>3 DEF ReaderFinds

\* From its NID the reader finds every inode build_image_with (src/src/mkfs.rs) wrote,
\* and from the inode every block of its data, through i_u, behind the inode or
\* through the chunk map (src/src/fs.rs read_data_block_for, src/src/chunked.rs
\* lookup_chunk_blkaddr); the NIDs directories hold lead to the inodes they name.
THEOREM ReaderAlwaysFinds == Spec => []ReaderFinds
  BY LayoutAlways, FoundAlways, Finds, PTL

-----------------------------------------------------------------------------
(***************************************************************************)
(* A directory as the reader walks it, in blocks of the same sizes.        *)
(***************************************************************************)
\* What a directory of the model is.
LEMMA DirFacts ==
  ASSUME NEW d, Walk!IsDir(d)
  PROVE  /\ d.size \in Nat /\ d.isDir \in BOOLEAN
         /\ d.isDir =>
              /\ IsSeq(d.blocks) /\ Len(d.blocks) = CeilDiv(d.size, WalkBlockSize)
              /\ \A k \in DOMAIN d.blocks : Walk!IsBlock(d.blocks[k])
BY DEF Walk!IsDir, IsSeq, CeilDiv

\* What the end of a directory leaves of a block is one.
LEMMA BufferIsBlock ==
  ASSUME NEW d, Walk!IsDir(d), d.isDir, NEW k \in Nat, k < Len(d.blocks)
  PROVE  Walk!IsBlock(Walk!Buffer(d, k))
<1> DEFINE raw == d.blocks[k + 1]
           len == Walk!Smaller(d.size - k * WalkBlockSize, WalkBlockSize)
           b == Walk!Buffer(d, k)
<1>1. Walk!IsBlock(raw)
  BY DirFacts, SeqFacts
<1>2. /\ DOMAIN b.ents = DOMAIN raw.ents
      /\ \A j \in DOMAIN raw.ents : b.ents[j].nameoff = IF j * WalkDirentSize =< len THEN raw.ents[j].nameoff ELSE 0
  BY DEF Walk!Buffer
<1>3. WalkDirentSize \in Nat \ {0} /\ WalkBlockSize \in Nat
  BY WalkAssumption
<1> HIDE DEF raw, b, len
<1>4. \A j \in DOMAIN b.ents : b.ents[j].nameoff \in Nat
  BY <1>1, <1>2 DEF Walk!IsBlock
<1>5. 1 \in DOMAIN b.ents
  BY <1>1, <1>2 DEF Walk!IsBlock
<1>6. ASSUME ~Walk!CountRefused(b)
      PROVE  ~Walk!CountRefused(raw) /\ Walk!DirentCount(b) = Walk!DirentCount(raw)
  <2>1. b.ents[1].nameoff = raw.ents[1].nameoff
    BY <1>2, <1>3, <1>5, <1>6 DEF Walk!CountRefused, Walk!FirstNameOff
  <2> QED BY <1>6, <2>1 DEF Walk!CountRefused, Walk!FirstNameOff, Walk!DirentCount
<1>7. ~Walk!CountRefused(b) => \A j \in 1..Walk!DirentCount(b) : j \in DOMAIN b.ents
  BY <1>1, <1>2, <1>6 DEF Walk!IsBlock
<1>8. Walk!IsBlock(b)
  BY <1>4, <1>5, <1>7 DEF Walk!IsBlock
<1> QED BY <1>8 DEF b

\* A count that is accepted is one.
LEMMA CountFacts ==
  ASSUME NEW b, Walk!IsBlock(b), ~Walk!CountRefused(b)
  PROVE  Walk!DirentCount(b) \in Nat \ {0}
<1>1. PICK f \in Nat : f = b.ents[1].nameoff /\ f >= WalkDirentSize /\ f % WalkDirentSize = 0
  BY WalkAssumption DEF Walk!IsBlock, Walk!CountRefused, Walk!FirstNameOff
<1>2. PICK s \in Nat \ {0} : s = WalkDirentSize
  BY WalkAssumption
<1>3. f >= s /\ s > 0 => f \div s \in Nat /\ f \div s >= 1
  OBVIOUS
<1> QED BY <1>1, <1>2, <1>3 DEF Walk!DirentCount, Walk!FirstNameOff

\* The end of a name is found, no further than the end of the block.
LEMMA NameEnds ==
  ASSUME NEW b, Walk!IsBlock(b), ~Walk!CountRefused(b), NEW j \in 1..Walk!DirentCount(b),
         ~Walk!OffsetsRefused(b, j)
  PROVE  /\ b.ents[j].nameoff \in Nat /\ b.ents[j].nameoff =< WalkBlockSize
         /\ Walk!NameEnd(b, j) \in b.ents[j].nameoff..WalkBlockSize
<1>1. PICK off \in Nat : off = b.ents[j].nameoff
  BY DEF Walk!IsBlock
<1>2. off =< WalkBlockSize /\ WalkBlockSize \in Nat
  BY <1>1, WalkAssumption DEF Walk!OffsetsRefused
<1>3. CASE j < Walk!DirentCount(b)
  <2>1. j + 1 \in 1..Walk!DirentCount(b)
    BY <1>3, CountFacts
  <2>2. b.ents[j + 1].nameoff \in Nat
    BY <2>1 DEF Walk!IsBlock
  <2> QED BY <1>1, <1>2, <1>3, <2>2 DEF Walk!OffsetsRefused, Walk!NameEnd
<1>4. CASE ~(j < Walk!DirentCount(b))
  <2> DEFINE Stop(e) == e < WalkBlockSize => b.text[e] = Walk!Nul
             Clear(e) == \A k \in off..(e - 1) : b.text[k] # Walk!Nul
             T == {e \in off..WalkBlockSize : Stop(e)}
             end == CHOOSE e \in off..WalkBlockSize : Clear(e) /\ Stop(e)
  <2>1. T \in SUBSET Nat /\ WalkBlockSize \in T
    BY <1>2
  <2>2. PICK e \in T : \A y \in T : ~(y < e)
    <3> HIDE DEF T
    <3> QED BY <2>1, NatMin
  <2>3. Clear(e) /\ Stop(e) /\ e \in off..WalkBlockSize
    <3>1. e \in off..WalkBlockSize /\ Stop(e)
      BY <2>2
    <3>2. ASSUME NEW k \in off..(e - 1), b.text[k] = Walk!Nul PROVE FALSE
      <4>1. k \in off..WalkBlockSize /\ k < e
        BY <1>2, <3>1
      <4>2. k \in T
        BY <3>2, <4>1
      <4> QED BY <2>2, <4>1, <4>2
    <3> QED BY <3>1, <3>2
  <2>4. end \in off..WalkBlockSize
    <3> HIDE DEF Clear, Stop
    <3> QED BY <2>3
  <2>5. Walk!NameEnd(b, j) = end
    BY <1>1, <1>4 DEF Walk!NameEnd
  <2> HIDE DEF end
  <2> QED BY <1>1, <1>2, <2>4, <2>5
<1> QED BY <1>3, <1>4

\* A name that is handed out is one.
LEMMA NameIsClean ==
  ASSUME NEW b, Walk!IsBlock(b), ~Walk!CountRefused(b), NEW j \in 1..Walk!DirentCount(b),
         ~Walk!EntryRefused(b, j)
  PROVE  LET name == Walk!EntryAt(b, j).name IN
         Len(name) > 0 /\ \A k \in DOMAIN name : name[k] \notin {Walk!Nul, Walk!Slash}
<1>1. PICK off \in Nat, end \in Nat : off = b.ents[j].nameoff /\ end = Walk!NameEnd(b, j) /\ off =< end
  BY NameEnds, WalkAssumption DEF Walk!EntryRefused
<1>2. PICK n \in Nat : n = end - off
  BY <1>1
<1>3. PICK name : name = Walk!NameOf(b, j)
  OBVIOUS
<1>4. name = [k \in 1..n |-> b.text[off + k - 1]]
  BY <1>1, <1>2, <1>3 DEF Walk!NameOf
<1>5. Len(name) = n /\ DOMAIN name = 1..n
  BY <1>4
<1>6. name # <<>> /\ ~Walk!Contains(name, Walk!Nul) /\ ~Walk!Contains(name, Walk!Slash)
  BY <1>3 DEF Walk!EntryRefused, Walk!NameRefused
<1>7. n > 0
  <2>1. n = 0 => name = <<>>
    BY <1>4
  <2> QED BY <1>6, <2>1
<1>8. \A k \in 1..n : name[k] \notin {Walk!Nul, Walk!Slash}
  BY <1>5, <1>6 DEF Walk!Contains
<1>9. Walk!EntryAt(b, j).name = name
  BY <1>3 DEF Walk!EntryAt
<1> QED BY <1>5, <1>7, <1>8, <1>9

\* The first n entries of block k, and all it has.
Part(d, k, n) == [j \in 1..n |-> Walk!EntryAt(Walk!Buffer(d, k), j)]
Whole(d, k) == Part(d, k, Walk!DirentCount(Walk!Buffer(d, k)))

\* What the first k blocks list, and that they can be listed.
Heard(d) ==
  LET h[k \in 0..Len(d.blocks)] == IF k = 0 THEN <<>> ELSE h[k - 1] \o Whole(d, k - 1) IN h
GoodBlock(d, k) ==
  /\ ~Walk!CountRefused(Walk!Buffer(d, k))
  /\ \A j \in 1..Walk!DirentCount(Walk!Buffer(d, k)) : ~Walk!EntryRefused(Walk!Buffer(d, k), j)

\* Sequences, one behind the other.
LEMMA ConcatExists ==
  ASSUME NEW n \in Nat, NEW s
  PROVE  \E g : g = [k \in 0..n |-> IF k = 0 THEN <<>> ELSE g[k - 1] \o s[k]]
<1> DEFINE To(m) == \E g : g = [k \in 0..m |-> IF k = 0 THEN <<>> ELSE g[k - 1] \o s[k]]
           S == {m \in Nat : To(m)}
<1>1. 0 \in S
  <2> DEFINE g == [k \in 0..0 |-> <<>>]
  <2>1. g = [k \in 0..0 |-> IF k = 0 THEN <<>> ELSE g[k - 1] \o s[k]]
    OBVIOUS
  <2> HIDE DEF g
  <2> QED BY <2>1
<1>2. ASSUME NEW m \in S PROVE m + 1 \in S
  <2>1. PICK g : g = [k \in 0..m |-> IF k = 0 THEN <<>> ELSE g[k - 1] \o s[k]]
    OBVIOUS
  <2> DEFINE h == [k \in 0..(m + 1) |-> IF k = 0 THEN <<>> ELSE g[k - 1] \o s[k]]
  <2>2. m \in Nat /\ m + 1 \in Nat
    OBVIOUS
  <2>3. ASSUME NEW k \in 0..m PROVE h[k] = g[k]
    <3>1. k \in 0..(m + 1)
      BY <2>2
    <3>2. h[k] = IF k = 0 THEN <<>> ELSE g[k - 1] \o s[k]
      BY <3>1
    <3> HIDE DEF h
    <3>3. g[k] = IF k = 0 THEN <<>> ELSE g[k - 1] \o s[k]
      BY <2>1
    <3> QED BY <3>2, <3>3
  <2>4. \A k \in 0..(m + 1) : k # 0 => h[k] = h[k - 1] \o s[k]
    <3>1. \A k \in 0..(m + 1) : k # 0 => k - 1 \in 0..m
      BY <2>2
    <3>2. \A k \in 0..(m + 1) : k # 0 => h[k] = g[k - 1] \o s[k]
      OBVIOUS
    <3> HIDE DEF h
    <3> QED BY <2>3, <3>1, <3>2
  <2>5. \A k \in 0..(m + 1) : k = 0 => h[k] = <<>>
    OBVIOUS
  <2>6. h = [k \in 0..(m + 1) |-> h[k]]
    OBVIOUS
  <2> HIDE DEF h
  <2>7. h = [k \in 0..(m + 1) |-> IF k = 0 THEN <<>> ELSE h[k - 1] \o s[k]]
    BY <2>4, <2>5, <2>6
  <2> QED BY <2>2, <2>7
<1>3. S = Nat
  <2>1. S \in SUBSET Nat
    OBVIOUS
  <2> HIDE DEF S
  <2> QED BY <1>1, <1>2, <2>1, NatInd
<1> QED BY <1>3

\* What is heard, block by block.
LEMMA HeardFacts ==
  ASSUME NEW d, Walk!IsDir(d), d.isDir
  PROVE  /\ Heard(d)[0] = <<>>
         /\ \A k \in 0..(Len(d.blocks) - 1) : Heard(d)[k + 1] = Heard(d)[k] \o Whole(d, k)
<1> DEFINE n == Len(d.blocks)
           s == [k \in 1..n |-> Whole(d, k - 1)]
           h == CHOOSE h : h = [k \in 0..Len(d.blocks) |-> IF k = 0 THEN <<>> ELSE h[k - 1] \o Whole(d, k - 1)]
<1>1. n \in Nat
  BY DirFacts, SeqFacts
<1>2. Heard(d) = h
  BY DEF Heard
<1>3. \E g : g = [k \in 0..n |-> IF k = 0 THEN <<>> ELSE g[k - 1] \o Whole(d, k - 1)]
  <2>1. \A k \in 0..n : k # 0 => s[k] = Whole(d, k - 1)
    BY <1>1
  <2> HIDE DEF s, n
  <2>2. PICK g : g = [k \in 0..n |-> IF k = 0 THEN <<>> ELSE g[k - 1] \o s[k]]
    BY <1>1, ConcatExists
  <2>3. g = [k \in 0..n |-> IF k = 0 THEN <<>> ELSE g[k - 1] \o Whole(d, k - 1)]
    BY <2>1, <2>2
  <2> QED BY <2>3
<1>4. h = [k \in 0..n |-> IF k = 0 THEN <<>> ELSE h[k - 1] \o Whole(d, k - 1)]
  BY <1>3
<1> HIDE DEF h, n
<1>5. h[0] = <<>>
  BY <1>1, <1>4
<1>6. ASSUME NEW k \in 0..(n - 1) PROVE h[k + 1] = h[k] \o Whole(d, k)
  <2>1. k + 1 \in 0..n /\ k + 1 # 0 /\ (k + 1) - 1 = k
    BY <1>1
  <2>2. h[k + 1] = h[(k + 1) - 1] \o Whole(d, (k + 1) - 1)
    BY <1>4, <2>1
  <2> QED BY <2>1, <2>2
<1> QED BY <1>2, <1>5, <1>6 DEF n

\* A part of a block is a sequence, which grows by an entry at its end.
LEMMA SliceFacts ==
  ASSUME NEW d, NEW k, NEW n \in Nat
  PROVE  IsSeq(Part(d, k, n)) /\ Len(Part(d, k, n)) = n /\ DOMAIN Part(d, k, n) = 1..n
<1>1. PICK p : p = Part(d, k, n) /\ p = [j \in 1..n |-> Walk!EntryAt(Walk!Buffer(d, k), j)]
  BY DEF Part
<1>2. DOMAIN p = 1..n /\ p = [j \in 1..n |-> p[j]]
  BY <1>1
<1>3. p \in Seq({p[j] : j \in 1..n})
  BY <1>2
<1>4. IsSeq(p) /\ Len(p) = n
  BY <1>2, <1>3 DEF IsSeq
<1> QED BY <1>1, <1>2, <1>4

LEMMA PartGrows ==
  ASSUME NEW d, NEW k, NEW n \in Nat, NEW h, IsSeq(h)
  PROVE  /\ IsSeq(h \o Part(d, k, n))
         /\ h \o Part(d, k, n + 1) = Append(h \o Part(d, k, n), Walk!EntryAt(Walk!Buffer(d, k), n + 1))
<1> DEFINE e == Walk!EntryAt(Walk!Buffer(d, k), n + 1)
           p == Part(d, k, n)
           q == Part(d, k, n + 1)
           W == {h[j] : j \in DOMAIN h} \cup {Walk!EntryAt(Walk!Buffer(d, k), j) : j \in Nat}
<1>1. h \in Seq(W)
  <2>1. h \in Seq({h[j] : j \in DOMAIN h})
    BY DEF IsSeq
  <2>2. Len(h) \in Nat /\ DOMAIN h = 1..Len(h)
    BY SeqFacts
  <2>3. h = [j \in 1..Len(h) |-> h[j]]
    BY <2>1, <2>2
  <2>4. \A j \in 1..Len(h) : h[j] \in W
    BY <2>2
  <2> HIDE DEF W
  <2> QED BY <2>2, <2>3, <2>4
<1>2. /\ p = [j \in 1..n |-> Walk!EntryAt(Walk!Buffer(d, k), j)]
      /\ q = [j \in 1..(n + 1) |-> Walk!EntryAt(Walk!Buffer(d, k), j)]
  BY DEF Part
<1>3. p \in Seq(W) /\ q \in Seq(W) /\ e \in W
  <2>1. \A j \in 1..(n + 1) : Walk!EntryAt(Walk!Buffer(d, k), j) \in W
    OBVIOUS
  <2> HIDE DEF W, p, q
  <2>2. p \in Seq(W) /\ q \in Seq(W)
    BY <1>2, <2>1
  <2> QED BY <2>1, <2>2
<1>4. q = Append(p, e)
  BY <1>2
<1> HIDE DEF W, p, q, e
<1>5. h \o Append(p, e) = Append(h \o p, e)
  BY <1>1, <1>3
<1>6. IsSeq(h \o p)
  BY <1>1, <1>3, OwnSeq, ConcatProperties
<1> QED BY <1>2, <1>4, <1>5, <1>6 DEF p, q, e

\* In front of its first entry a block has added nothing.
LEMMA NoPart ==
  ASSUME NEW d, NEW k, NEW h, IsSeq(h)
  PROVE  h \o Part(d, k, 0) = h /\ h \o Part(d, k, -1) = h
<1>1. Part(d, k, 0) = <<>> /\ Part(d, k, -1) = <<>>
  BY DEF Part
<1>2. h \o <<>> = h
  BY ConcatEmptySeq DEF IsSeq
<1> QED BY <1>1, <1>2

\* What good blocks list is a sequence.
LEMMA HeardIsSeq ==
  ASSUME NEW d, Walk!IsDir(d), d.isDir, NEW k \in 0..Len(d.blocks), \A x \in 0..(k - 1) : GoodBlock(d, x)
  PROVE  IsSeq(Heard(d)[k])
<1> DEFINE S == {m \in Nat : m =< k => IsSeq(Heard(d)[m])}
<1>0. Len(d.blocks) \in Nat /\ k \in Nat
  BY DirFacts, SeqFacts
<1>1. 0 \in S
  <2>1. IsSeq(<<>>)
    BY DEF IsSeq
  <2> QED BY <2>1, HeardFacts
<1>2. ASSUME NEW m \in S PROVE m + 1 \in S
  <2>0. m \in Nat /\ m + 1 \in Nat
    OBVIOUS
  <2> SUFFICES ASSUME m + 1 =< k PROVE IsSeq(Heard(d)[m + 1])
    BY <2>0
  <2>1. IsSeq(Heard(d)[m]) /\ m < Len(d.blocks) /\ m \in 0..(Len(d.blocks) - 1)
    BY <1>0, <2>0
  <2>2. GoodBlock(d, m) /\ Walk!IsBlock(Walk!Buffer(d, m))
    BY <1>0, <2>0, <2>1, BufferIsBlock
  <2>3. Walk!DirentCount(Walk!Buffer(d, m)) \in Nat
    BY <2>2, CountFacts DEF GoodBlock
  <2>4. IsSeq(Heard(d)[m] \o Whole(d, m))
    BY <2>1, <2>3, PartGrows DEF Whole
  <2> QED BY <2>1, <2>4, HeardFacts
<1>3. S = Nat
  <2>1. S \in SUBSET Nat
    OBVIOUS
  <2> HIDE DEF S
  <2> QED BY <1>1, <1>2, <2>1, NatInd
<1> QED BY <1>0, <1>3

\* All that is heard of a sound directory is its listing.
LEMMA HeardIsListing ==
  ASSUME NEW d, Walk!IsDir(d), d.isDir, Walk!Sound(d)
  PROVE  Walk!Listing(d) = Heard(d)[Len(d.blocks)] /\ IsSeq(Walk!Listing(d))
<1>0. PICK n \in Nat : n = Len(d.blocks) /\ DOMAIN d.blocks = 1..n
  BY DirFacts, SeqFacts
<1>1. \A k \in 0..(n - 1) : GoodBlock(d, k)
  BY <1>0 DEF Walk!Sound, GoodBlock
<1>2. \A k \in 0..n : IsSeq(Heard(d)[k])
  BY <1>0, <1>1, HeardIsSeq
<1> DEFINE s == [k \in 1..n |-> Whole(d, k - 1)]
<1>3. Walk!Listing(d) = Walk!FlattenSeq(s)
  BY <1>0 DEF Walk!Listing, Whole, Part
<1>4. s \in Seq({s[k] : k \in 1..n}) /\ Len(s) = n
  <2>1. DOMAIN s = 1..n /\ s = [k \in 1..n |-> s[k]]
    OBVIOUS
  <2> HIDE DEF s
  <2>2. s \in Seq({s[k] : k \in 1..n})
    BY <2>1
  <2> QED BY <2>1, <2>2
<1>5. CASE n = 0
  <2>1. s = <<>>
    BY <1>5
  <2> HIDE DEF s
  <2>2. Walk!FlattenSeq(s) = <<>>
    BY <1>4, <1>5, <2>1 DEF Walk!FlattenSeq
  <2>3. Heard(d)[0] = <<>>
    BY HeardFacts
  <2> QED BY <1>0, <1>2, <1>3, <1>5, <2>2, <2>3
<1>6. CASE n # 0
  <2> DEFINE flatten == CHOOSE flatten : flatten = [x \in 1..Len(s) |->
                          IF x = 1 THEN s[x] ELSE flatten[x - 1] \o s[x]]
             f == [x \in 1..n |-> Heard(d)[x]]
             S == {m \in Nat : (m >= 1 /\ m =< n) => flatten[m] = Heard(d)[m]}
  <2>0. Walk!FlattenSeq(s) = flatten[Len(s)]
    BY <1>4, <1>6 DEF Walk!FlattenSeq
  <2>1. \A x \in 1..n : s[x] = Whole(d, x - 1) /\ x - 1 \in 0..(n - 1)
    BY <1>0
  <2>2. ASSUME NEW x \in 1..n
        PROVE  Heard(d)[x] = Heard(d)[x - 1] \o s[x]
    <3>1. x - 1 \in 0..(n - 1) /\ (x - 1) + 1 = x
      BY <1>0
    <3>2. Heard(d)[(x - 1) + 1] = Heard(d)[x - 1] \o Whole(d, x - 1)
      BY <1>0, <3>1, HeardFacts
    <3> HIDE DEF s
    <3> QED BY <2>1, <3>1, <3>2
  <2>3. Heard(d)[1] = s[1]
    <3>1. 1 \in 1..n /\ s[1] = Whole(d, 0) /\ 0 \in 0..(n - 1)
      BY <1>0, <1>6
    <3>2. GoodBlock(d, 0) /\ Walk!IsBlock(Walk!Buffer(d, 0))
      BY <1>0, <1>1, <3>1, BufferIsBlock
    <3>3. PICK c \in Nat : c = Walk!DirentCount(Walk!Buffer(d, 0))
      BY <3>2, CountFacts DEF GoodBlock
    <3>4. PICK w : w = Whole(d, 0) /\ IsSeq(w)
      BY <3>3, SliceFacts DEF Whole
    <3>5. Heard(d)[1] = <<>> \o w
      <4>1. 0 + 1 = 1
        OBVIOUS
      <4> HIDE DEF s
      <4> QED BY <1>0, <3>1, <3>4, <4>1, HeardFacts
    <3>6. <<>> \o w = w
      BY <3>4, ConcatEmptySeq DEF IsSeq
    <3> HIDE DEF s
    <3> QED BY <3>1, <3>4, <3>5, <3>6
  <2> HIDE DEF s
  <2>4. f = [x \in 1..Len(s) |-> IF x = 1 THEN s[x] ELSE f[x - 1] \o s[x]]
    <3>1. \A x \in 1..n : f[x] = Heard(d)[x]
      OBVIOUS
    <3>2. \A x \in 1..n : x # 1 => x - 1 \in 1..n
      BY <1>0
    <3>3. f = [x \in 1..n |-> f[x]]
      OBVIOUS
    <3> HIDE DEF f
    <3>4. \A x \in 1..n : f[x] = IF x = 1 THEN s[x] ELSE f[x - 1] \o s[x]
      BY <2>2, <2>3, <3>1, <3>2
    <3> QED BY <1>4, <3>3, <3>4
  <2> HIDE DEF f
  <2>5. flatten = [x \in 1..Len(s) |-> IF x = 1 THEN s[x] ELSE flatten[x - 1] \o s[x]]
    BY <2>4
  <2> HIDE DEF flatten
  <2>6. \A x \in 1..n : flatten[x] = IF x = 1 THEN s[x] ELSE flatten[x - 1] \o s[x]
    BY <1>4, <2>5
  <2>7. 0 \in S
    OBVIOUS
  <2>8. ASSUME NEW m \in S PROVE m + 1 \in S
    <3>0. m \in Nat /\ m + 1 \in Nat
      OBVIOUS
    <3> SUFFICES ASSUME m + 1 =< n PROVE flatten[m + 1] = Heard(d)[m + 1]
      BY <3>0
    <3>1. m + 1 \in 1..n
      BY <1>0, <3>0
    <3>2. CASE m = 0
      <4>1. m + 1 = 1
        BY <3>2
      <4> QED BY <2>3, <2>6, <3>1, <4>1
    <3>3. CASE m # 0
      <4>1. m >= 1 /\ m =< n /\ (m + 1) - 1 = m /\ m + 1 # 1
        BY <1>0, <3>0, <3>3
      <4>2. flatten[m] = Heard(d)[m]
        BY <4>1
      <4>3. flatten[m + 1] = flatten[m] \o s[m + 1]
        BY <2>6, <3>1, <4>1
      <4>4. Heard(d)[m + 1] = Heard(d)[(m + 1) - 1] \o s[m + 1]
        BY <2>2, <3>1
      <4> QED BY <4>1, <4>2, <4>3, <4>4
    <3> QED BY <3>2, <3>3
  <2>9. S = Nat
    <3>1. S \in SUBSET Nat
      OBVIOUS
    <3> HIDE DEF S
    <3> QED BY <2>7, <2>8, <3>1, NatInd
  <2>10. n >= 1 /\ n =< n
    BY <1>0, <1>6
  <2>11. flatten[n] = Heard(d)[n]
    BY <2>9, <2>10
  <2> HIDE DEF S
  <2> QED BY <1>0, <1>2, <1>3, <1>4, <2>0, <2>10, <2>11
<1> QED BY <1>5, <1>6

-----------------------------------------------------------------------------
(***************************************************************************)
(* The walk's invariant.                                                   *)
(***************************************************************************)
\* What has been handed out: the blocks behind the walk and the entries of its own.
Seen == Heard(walkDir)[walkBlock] \o Part(walkDir, walkBlock, walkEntry)

\* The first of the entries with the name, if there is one.
FirstOf(nids, entries, name) ==
  \/ nids = {} /\ \A j \in DOMAIN entries : entries[j].name # name
  \/ \E j \in DOMAIN entries : /\ entries[j].name = name /\ nids = {entries[j].nid}
                               /\ \A x \in 1..(j - 1) : entries[x].name # name

\* What is gathered is what was seen of it.
GatheredFrom(seen) ==
  /\ walkOp[1] = "list" => walkOut = seen
  /\ walkOp[1] # "list" => FirstOf(walkFound, seen, walkOp[2])

IsCall == walkOp = <<"list">> \/ \E name \in WalkWanted : walkOp = <<"lookup", name>>

\* Where the walk is: how much is behind it and that it was good.
WalkStands ==
  /\ walkBlock \in 0..Len(walkDir.blocks) /\ walkEntry \in Int
  /\ walkLeft = IF walkDir.size =< walkBlock * WalkBlockSize THEN 0 ELSE walkDir.size - walkBlock * WalkBlockSize
  /\ \A k \in 0..(walkBlock - 1) : GoodBlock(walkDir, k)
  /\ \/ walkEntry = -1
     \/ /\ walkEntry >= 0 /\ walkBlock < Len(walkDir.blocks) /\ ~Walk!CountRefused(Walk!Held)
        /\ walkEntry < Walk!DirentCount(Walk!Held)
        /\ \A j \in 1..walkEntry : ~Walk!EntryRefused(Walk!Held, j)
  /\ GatheredFrom(Seen)

\* What a call has answered.
AnswerStands ==
  \/ walkResult = <<>> \/ walkResult = <<"device">>
  \/ walkResult = <<"error">> /\ (walkDir.isDir => ~Walk!Sound(walkDir))
  \/ /\ walkDir.isDir /\ Walk!Sound(walkDir) /\ GatheredFrom(Walk!Listing(walkDir))
     /\ \/ walkOp[1] = "list" /\ walkResult = <<"listed", walkOut>>
        \/ walkOp[1] # "list" /\ walkFound = {} /\ walkResult = <<"not found">>
        \/ walkOp[1] # "list" /\ \E nid : walkFound = {nid} /\ walkResult = <<"found", nid>>

DirInv ==
  /\ walkDir \in WalkDirs
  /\ walkOp = <<>> =>
       /\ walkResult = <<>> /\ walkEntry = -1 /\ walkBlock = 0 /\ walkOut = <<>> /\ walkFound = {} /\ walkLeft = 0
  /\ walkOp # <<>> => IsCall /\ (walkDir.isDir => WalkStands) /\ (~walkDir.isDir => walkResult # <<>> /\ walkLeft = walkDir.size)
  /\ AnswerStands

\* What gathers from a listing gathers from it with one entry more.
LEMMA HandFacts ==
  ASSUME NEW seen, IsSeq(seen), NEW e, IsCall, GatheredFrom(seen), Walk!Hand(e)
  PROVE  /\ walkOp[1] = "list" => walkOut' = Append(seen, e)
         /\ walkOp[1] # "list" => FirstOf(walkFound', Append(seen, e), walkOp[2])
<1>1. CASE walkOp[1] = "list"
  BY <1>1 DEF Walk!Hand, GatheredFrom
<1>2. CASE walkOp[1] # "list"
  <2>1. PICK more : more = Append(seen, e)
    OBVIOUS
  <2>2. PICK n \in Nat : n = Len(seen) /\ DOMAIN seen = 1..n
    BY SeqFacts
  <2>3. /\ DOMAIN more = 1..(n + 1) /\ more[n + 1] = e /\ \A j \in 1..n : more[j] = seen[j]
    BY <2>1, <2>2 DEF IsSeq
  <2>4. walkFound' = IF walkFound = {} /\ e.name = walkOp[2] THEN {e.nid} ELSE walkFound
    BY <1>2 DEF Walk!Hand
  <2>5. FirstOf(walkFound, seen, walkOp[2])
    BY <1>2 DEF GatheredFrom
  <2>6. CASE walkFound = {} /\ \A j \in DOMAIN seen : seen[j].name # walkOp[2]
    <3>1. CASE e.name = walkOp[2]
      <4>1. n + 1 \in DOMAIN more /\ \A x \in 1..((n + 1) - 1) : more[x].name # walkOp[2]
        BY <2>2, <2>3, <2>6
      <4>2. walkFound' = {more[n + 1].nid} /\ more[n + 1].name = walkOp[2]
        BY <2>3, <2>4, <2>6, <3>1
      <4>3. FirstOf(walkFound', more, walkOp[2])
        BY <4>1, <4>2 DEF FirstOf
      <4> QED BY <1>2, <2>1, <4>3
    <3>2. CASE e.name # walkOp[2]
      <4>1. \A j \in DOMAIN more : more[j].name # walkOp[2]
        BY <2>2, <2>3, <2>6, <3>2
      <4>2. FirstOf(walkFound', more, walkOp[2])
        BY <2>4, <2>6, <3>2, <4>1 DEF FirstOf
      <4> QED BY <1>2, <2>1, <4>2
    <3> QED BY <3>1, <3>2
  <2>7. ASSUME NEW j \in DOMAIN seen, seen[j].name = walkOp[2], walkFound = {seen[j].nid},
               \A x \in 1..(j - 1) : seen[x].name # walkOp[2]
        PROVE  FirstOf(walkFound', more, walkOp[2])
    <3>1. walkFound' = walkFound
      BY <2>4, <2>7
    <3>2. j \in DOMAIN more /\ more[j] = seen[j] /\ \A x \in 1..(j - 1) : more[x] = seen[x]
      BY <2>2, <2>3
    <3>3. walkFound' = {more[j].nid} /\ more[j].name = walkOp[2] /\ \A x \in 1..(j - 1) : more[x].name # walkOp[2]
      BY <2>7, <3>1, <3>2
    <3> QED BY <3>2, <3>3 DEF FirstOf
  <2> QED BY <1>2, <2>1, <2>5, <2>6, <2>7 DEF FirstOf
<1> QED BY <1>1, <1>2

\* There is a block to read as long as there is something left.
LEMMA BlocksLeft ==
  ASSUME NEW d, Walk!IsDir(d), d.isDir, NEW k \in Nat
  PROVE  k < Len(d.blocks) <=> d.size > k * WalkBlockSize
<1>1. PICK s \in Nat, bs \in Nat \ {0} : s = d.size /\ bs = WalkBlockSize
  BY DirFacts, WalkAssumption
<1>2. PICK n \in Nat : n = Len(d.blocks) /\ n = CeilDiv(s, bs)
  BY DirFacts, <1>1, SeqFacts
<1>3. PICK q \in Nat, r \in Nat : (s + bs) - 1 = (q * bs) + r /\ r < bs /\ q = ((s + bs) - 1) \div bs
  <2>1. PICK t \in Nat : t = (s + bs) - 1
    OBVIOUS
  <2>2. t \div bs \in Nat /\ t % bs \in Nat /\ t % bs < bs /\ t = ((t \div bs) * bs) + (t % bs)
    OBVIOUS
  <2> QED BY <2>1, <2>2
<1>4. n = q
  BY <1>2, <1>3 DEF CeilDiv
<1>5. k < q => (k + 1) * bs =< q * bs
  OBVIOUS
<1>6. k >= q => q * bs =< k * bs
  OBVIOUS
<1>7. (k + 1) * bs = (k * bs) + bs
  OBVIOUS
<1>8. PICK a \in Nat, b \in Nat : a = q * bs /\ b = k * bs
  OBVIOUS
<1>9. k < q <=> s > b
  BY <1>3, <1>5, <1>6, <1>7, <1>8
<1> QED BY <1>1, <1>2, <1>4, <1>8, <1>9

\* A call begins with nothing seen.
LEMMA CallInv ==
  ASSUME Walk!AreDirs, DirInv, NEW o, o = <<"list">> \/ \E name \in WalkWanted : o = <<"lookup", name>>, Walk!Call(o)
  PROVE  DirInv'
<1>1. /\ walkOp = <<>> /\ walkOp' = o /\ o # <<>> /\ walkDir' = walkDir /\ walkBlock' = 0 /\ walkEntry' = -1 /\ walkOut' = <<>> /\ walkFound' = {}
      /\ walkLeft' = walkDir.size /\ walkResult' = IF walkDir.isDir THEN <<>> ELSE <<"error">>
  BY DEF Walk!Call, DirInv
<1>2. walkDir \in WalkDirs /\ Walk!IsDir(walkDir)
  BY DEF DirInv, Walk!AreDirs
<1>3. IsCall'
  BY <1>1 DEF IsCall
<1>4. ASSUME walkDir.isDir PROVE WalkStands'
  <2>1. Seen' = <<>>
    <3>1. Heard(walkDir)[0] = <<>> /\ IsSeq(<<>>)
      BY <1>2, <1>4, HeardFacts DEF IsSeq
    <3>2. Part(walkDir, 0, -1) = <<>> /\ <<>> \o <<>> = <<>>
      BY DEF Part
    <3> QED BY <1>1, <3>1, <3>2 DEF Seen
  <2>2. GatheredFrom(Seen)'
    BY <1>1, <2>1 DEF GatheredFrom, FirstOf
  <2>3. /\ walkLeft' = IF walkDir'.size =< walkBlock' * WalkBlockSize THEN 0 ELSE walkDir'.size - walkBlock' * WalkBlockSize
    <3>1. 0 * WalkBlockSize = 0 /\ walkDir.size \in Nat
      BY DirFacts, <1>2, WalkAssumption
    <3> QED BY <1>1, <3>1
  <2>4. walkBlock' \in 0..Len(walkDir'.blocks) /\ walkEntry' \in Int
    BY DirFacts, <1>1, <1>2, <1>4, SeqFacts
  <2> QED BY <1>1, <2>2, <2>3, <2>4 DEF WalkStands
<1>5. AnswerStands'
  BY <1>1 DEF AnswerStands
<1> QED BY <1>1, <1>2, <1>3, <1>4, <1>5 DEF DirInv

\* A call that runs is on a directory and stands somewhere.
LEMMA RunningFacts ==
  ASSUME Walk!AreDirs, DirInv, Walk!Running
  PROVE  Walk!IsDir(walkDir) /\ walkDir.isDir /\ IsCall /\ WalkStands /\ walkOp # <<>> /\ walkDir \in WalkDirs
BY DEF DirInv, Walk!Running, Walk!AreDirs

\* A block that is refused is not sound, and one that is read stands at its first entry.
LEMMA ReadInv ==
  ASSUME Walk!AreDirs, DirInv, Walk!ReadBlock
  PROVE  DirInv'
<1>1. Walk!Running /\ walkEntry = -1 /\ walkLeft > 0 /\ UNCHANGED <<walkDir, walkOp, walkLeft, walkBlock, walkOut, walkFound>>
  BY DEF Walk!ReadBlock
<1>2. Walk!IsDir(walkDir) /\ walkDir.isDir /\ IsCall /\ WalkStands /\ walkOp # <<>> /\ walkDir \in WalkDirs
  BY <1>1, RunningFacts
<1>3. walkBlock \in Nat /\ walkBlock < Len(walkDir.blocks) /\ Len(walkDir.blocks) \in Nat
  <2>1. walkBlock \in Nat /\ Len(walkDir.blocks) \in Nat
    BY DirFacts, <1>2, SeqFacts DEF WalkStands
  <2>2. walkBlock * WalkBlockSize \in Nat /\ walkDir.size \in Nat
    BY DirFacts, <1>2, <2>1, WalkAssumption
  <2>3. walkDir.size > walkBlock * WalkBlockSize
    BY <1>1, <1>2, <2>2 DEF WalkStands
  <2> QED BY <1>2, <2>1, <2>3, BlocksLeft
<1>4. IsCall'
  BY <1>1, <1>2 DEF IsCall
<1>5. CASE ~Walk!CountRefused(Walk!Held) /\ walkEntry' = 0 /\ UNCHANGED walkResult
  <2>1. Walk!IsBlock(Walk!Held)
    BY <1>2, <1>3, BufferIsBlock DEF Walk!Held
  <2>2. Walk!DirentCount(Walk!Held) \in Nat \ {0}
    BY <1>5, <2>1, CountFacts
  <2>3. Seen' = Seen
    <3>1. IsSeq(Heard(walkDir)[walkBlock])
      BY <1>2, <1>3, HeardIsSeq DEF WalkStands
    <3>2. Heard(walkDir)[walkBlock] \o Part(walkDir, walkBlock, 0) = Heard(walkDir)[walkBlock] \o Part(walkDir, walkBlock, -1)
      <4>1. PICK h, k : h = Heard(walkDir)[walkBlock] /\ k = walkBlock
        OBVIOUS
      <4>2. h \o Part(walkDir, k, 0) = h /\ h \o Part(walkDir, k, -1) = h
        BY <3>1, <4>1, NoPart
      <4> QED BY <4>1, <4>2
    <3> QED BY <1>1, <1>5, <3>2 DEF Seen
  <2>4. GatheredFrom(Seen)'
    BY <1>1, <1>2, <2>3 DEF WalkStands, GatheredFrom
  <2>5. Walk!Held' = Walk!Held
    BY <1>1 DEF Walk!Held
  <2>6. WalkStands'
    BY <1>1, <1>2, <1>3, <1>5, <2>2, <2>4, <2>5 DEF WalkStands
  <2>7. AnswerStands'
    BY <1>1, <1>5 DEF AnswerStands, Walk!Running
  <2> QED BY <1>1, <1>2, <1>4, <2>6, <2>7 DEF DirInv
<1>6. CASE Walk!CountRefused(Walk!Held) /\ Walk!Fail /\ UNCHANGED walkEntry
  <2>1. ~Walk!Sound(walkDir)
    BY <1>3, <1>6 DEF Walk!Sound, Walk!Held
  <2>2. AnswerStands'
    BY <1>1, <1>6, <2>1 DEF AnswerStands, Walk!Fail
  <2>3. Walk!Held' = Walk!Held /\ Seen' = Seen
    BY <1>1, <1>6 DEF Walk!Held, Seen
  <2>4. WalkStands'
    BY <1>1, <1>2, <1>6, <2>3 DEF WalkStands, GatheredFrom
  <2> QED BY <1>1, <1>2, <1>4, <2>2, <2>4 DEF DirInv
<1> QED BY <1>5, <1>6 DEF Walk!ReadBlock

\* A device that fails leaves the walk where it stands.
LEMMA FailsInv ==
  ASSUME Walk!AreDirs, DirInv, Walk!ReadFails
  PROVE  DirInv'
<1>1. Walk!Running /\ UNCHANGED <<walkDir, walkOp, walkLeft, walkBlock, walkEntry, walkOut, walkFound>> /\ walkResult' = <<"device">>
  BY DEF Walk!ReadFails
<1>2. Walk!IsDir(walkDir) /\ walkDir.isDir /\ IsCall /\ WalkStands /\ walkOp # <<>> /\ walkDir \in WalkDirs
  BY <1>1, RunningFacts
<1>3. IsCall' /\ AnswerStands'
  BY <1>1, <1>2 DEF IsCall, AnswerStands
<1>4. Walk!Held' = Walk!Held /\ Seen' = Seen
  BY <1>1 DEF Walk!Held, Seen
<1>5. WalkStands'
  BY <1>1, <1>2, <1>4 DEF WalkStands, GatheredFrom
<1> QED BY <1>1, <1>2, <1>3, <1>5 DEF DirInv

\* An entry is handed out, or refused with all that was gathered.
LEMMA VisitInv ==
  ASSUME Walk!AreDirs, DirInv, Walk!VisitEntry
  PROVE  DirInv'
<1>1. Walk!Running /\ walkEntry >= 0 /\ UNCHANGED <<walkDir, walkOp>>
  BY DEF Walk!VisitEntry
<1>2. Walk!IsDir(walkDir) /\ walkDir.isDir /\ IsCall /\ WalkStands /\ walkOp # <<>> /\ walkDir \in WalkDirs
  BY <1>1, RunningFacts
<1>3. /\ walkBlock \in Nat /\ walkBlock < Len(walkDir.blocks) /\ Len(walkDir.blocks) \in Nat /\ walkEntry \in Nat
      /\ ~Walk!CountRefused(Walk!Held) /\ walkEntry < Walk!DirentCount(Walk!Held)
      /\ \A j \in 1..walkEntry : ~Walk!EntryRefused(Walk!Held, j)
  BY DirFacts, <1>1, <1>2, SeqFacts DEF WalkStands
<1>4. Walk!IsBlock(Walk!Held) /\ Walk!DirentCount(Walk!Held) \in Nat \ {0}
  BY <1>2, <1>3, BufferIsBlock, CountFacts DEF Walk!Held
<1>5. IsCall'
  BY <1>1, <1>2 DEF IsCall
<1>6. IsSeq(Heard(walkDir)[walkBlock])
  BY <1>2, <1>3, HeardIsSeq DEF WalkStands
<1>7. CASE Walk!EntryRefused(Walk!Held, walkEntry + 1)
  <2>1. Walk!Fail /\ UNCHANGED <<walkOut, walkFound, walkEntry, walkBlock, walkLeft>>
    BY <1>7 DEF Walk!VisitEntry
  <2>2. ~Walk!Sound(walkDir)
    BY <1>3, <1>4, <1>7 DEF Walk!Sound, Walk!Held
  <2>3. AnswerStands'
    BY <1>1, <2>1, <2>2 DEF AnswerStands, Walk!Fail
  <2>4. Walk!Held' = Walk!Held /\ Seen' = Seen
    BY <1>1, <2>1 DEF Walk!Held, Seen
  <2>5. WalkStands'
    BY <1>1, <1>2, <2>1, <2>4 DEF WalkStands, GatheredFrom
  <2> QED BY <1>1, <1>2, <1>5, <2>3, <2>5 DEF DirInv
<1>8. CASE ~Walk!EntryRefused(Walk!Held, walkEntry + 1)
  <2> DEFINE e == Walk!EntryAt(Walk!Held, walkEntry + 1)
             more == Append(Seen, e)
  <2>1. /\ Walk!Hand(e) /\ UNCHANGED walkResult
        /\ IF walkEntry + 1 < Walk!DirentCount(Walk!Held)
           THEN walkEntry' = walkEntry + 1 /\ UNCHANGED <<walkBlock, walkLeft>>
           ELSE Walk!BlockDone
    BY <1>8 DEF Walk!VisitEntry
  <2>2. /\ IsSeq(Seen)
        /\ Heard(walkDir)[walkBlock] \o Part(walkDir, walkBlock, walkEntry + 1) = more
    <3>1. PICK h, k, n : n \in Nat /\ h = Heard(walkDir)[walkBlock] /\ k = walkBlock /\ n = walkEntry
      BY <1>3
    <3>2. /\ IsSeq(h \o Part(walkDir, k, n))
          /\ h \o Part(walkDir, k, n + 1) = Append(h \o Part(walkDir, k, n), Walk!EntryAt(Walk!Buffer(walkDir, k), n + 1))
      BY <1>6, <3>1, PartGrows
    <3> QED BY <3>1, <3>2 DEF Seen, Walk!Held
  <2>3. GatheredFrom(Seen)
    BY <1>2 DEF WalkStands
  <2>4. /\ walkOp[1] = "list" => walkOut' = more
        /\ walkOp[1] # "list" => FirstOf(walkFound', more, walkOp[2])
    BY <1>2, <2>1, <2>2, <2>3, HandFacts
  <2> HIDE DEF e, more
  <2>5. \A j \in 1..(walkEntry + 1) : ~Walk!EntryRefused(Walk!Held, j)
    BY <1>3, <1>8
  <2>6. CASE walkEntry + 1 < Walk!DirentCount(Walk!Held)
    <3>1. walkEntry' = walkEntry + 1 /\ UNCHANGED <<walkBlock, walkLeft>>
      BY <2>1, <2>6
    <3>2. Seen' = more /\ Walk!Held' = Walk!Held
      BY <1>1, <2>2, <3>1 DEF Seen, Walk!Held
    <3>3. GatheredFrom(Seen)'
      BY <1>1, <2>4, <3>2 DEF GatheredFrom
    <3>4. WalkStands'
      BY <1>1, <1>2, <1>3, <2>5, <2>6, <3>1, <3>2, <3>3 DEF WalkStands
    <3>5. AnswerStands'
      BY <1>1, <2>1 DEF AnswerStands, Walk!Running
    <3> QED BY <1>1, <1>2, <1>5, <3>4, <3>5 DEF DirInv
  <2>7. CASE ~(walkEntry + 1 < Walk!DirentCount(Walk!Held))
    <3>1. /\ walkEntry' = -1 /\ walkBlock' = walkBlock + 1
          /\ walkLeft' = walkLeft - Walk!Smaller(walkLeft, WalkBlockSize)
      BY <2>1, <2>7 DEF Walk!BlockDone
    <3>2. walkEntry + 1 = Walk!DirentCount(Walk!Held)
      BY <1>3, <1>4, <2>7
    <3>3. GoodBlock(walkDir, walkBlock)
      BY <1>3, <2>5, <3>2 DEF GoodBlock, Walk!Held
    <3>4. walkBlock' \in Nat /\ walkBlock' =< Len(walkDir.blocks) /\ walkBlock \in 0..(Len(walkDir.blocks) - 1)
      BY <1>3, <3>1
    <3>5. Heard(walkDir)[walkBlock'] = more
      <4>1. Heard(walkDir)[walkBlock + 1] = Heard(walkDir)[walkBlock] \o Whole(walkDir, walkBlock)
        BY <1>2, <3>4, HeardFacts
      <4> QED BY <2>2, <3>1, <3>2, <4>1 DEF Whole, Walk!Held
    <3>6. \A k \in 0..(walkBlock' - 1) : GoodBlock(walkDir, k)
      BY <1>2, <1>3, <3>1, <3>3 DEF WalkStands
    <3>7. Seen' = more
      <4>1. IsSeq(Heard(walkDir)[walkBlock'])
        <5>1. PICK k : k = walkBlock' /\ k \in 0..Len(walkDir.blocks)
          BY <1>3, <3>4
        <5>2. \A x \in 0..(k - 1) : GoodBlock(walkDir, x)
          BY <3>6, <5>1
        <5> QED BY <1>2, <5>1, <5>2, HeardIsSeq
      <4>2. Heard(walkDir)[walkBlock'] \o Part(walkDir, walkBlock', -1) = Heard(walkDir)[walkBlock']
        <5>1. PICK h, k : h = Heard(walkDir)[walkBlock'] /\ k = walkBlock'
          OBVIOUS
        <5> QED BY <4>1, <5>1, NoPart
      <4> QED BY <1>1, <3>1, <3>5, <4>2 DEF Seen
    <3>8. GatheredFrom(Seen)'
      BY <1>1, <2>4, <3>7 DEF GatheredFrom
    <3>9. walkLeft' = IF walkDir'.size =< walkBlock' * WalkBlockSize THEN 0
                       ELSE walkDir'.size - walkBlock' * WalkBlockSize
      <4>1. PICK s \in Nat, bs \in Nat \ {0}, b \in Nat :
              s = walkDir.size /\ bs = WalkBlockSize /\ b = walkBlock
        BY DirFacts, <1>2, <1>3, WalkAssumption
      <4>2. PICK x \in Nat : x = b * bs /\ (b + 1) * bs = x + bs
        BY <4>1
      <4>3. walkLeft = IF s =< x THEN 0 ELSE s - x
        BY <1>2, <4>1, <4>2 DEF WalkStands
      <4>4. walkLeft' = walkLeft - IF walkLeft < bs THEN walkLeft ELSE bs
        BY <3>1, <4>1 DEF Walk!Smaller
      <4>5. walkLeft' = IF s =< x + bs THEN 0 ELSE s - (x + bs)
        BY <4>1, <4>2, <4>3, <4>4
      <4>6. walkDir'.size = s /\ walkBlock' * WalkBlockSize = x + bs
        BY <1>1, <3>1, <4>1, <4>2
      <4> QED BY <4>5, <4>6
    <3>10. WalkStands'
      BY <1>1, <3>1, <3>4, <3>6, <3>8, <3>9 DEF WalkStands
    <3>11. AnswerStands'
      BY <1>1, <2>1 DEF AnswerStands, Walk!Running
    <3> QED BY <1>1, <1>2, <1>5, <3>10, <3>11 DEF DirInv
  <2> QED BY <2>6, <2>7
<1> QED BY <1>7, <1>8

\* Behind the last block all of the listing has been seen.
LEMMA FinishDirInv ==
  ASSUME Walk!AreDirs, DirInv, Walk!Finish
  PROVE  DirInv'
<1>1. Walk!Running /\ walkEntry = -1 /\ walkLeft = 0 /\ UNCHANGED <<walkDir, walkOp, walkLeft, walkBlock, walkEntry, walkOut, walkFound>>
  BY DEF Walk!Finish
<1>2. Walk!IsDir(walkDir) /\ walkDir.isDir /\ IsCall /\ WalkStands /\ walkOp # <<>> /\ walkDir \in WalkDirs
  BY <1>1, RunningFacts
<1>3. walkBlock = Len(walkDir.blocks) /\ walkBlock \in Nat
  <2>1. walkBlock \in Nat /\ Len(walkDir.blocks) \in Nat /\ walkBlock =< Len(walkDir.blocks)
    BY DirFacts, <1>2, SeqFacts DEF WalkStands
  <2>2. walkBlock * WalkBlockSize \in Nat /\ walkDir.size \in Nat
    BY DirFacts, <1>2, <2>1, WalkAssumption
  <2>3. ~(walkDir.size > walkBlock * WalkBlockSize)
    BY <1>1, <1>2, <2>2 DEF WalkStands
  <2>4. ~(walkBlock < Len(walkDir.blocks))
    BY <1>2, <2>1, <2>3, BlocksLeft
  <2> QED BY <2>1, <2>4
<1>4. Walk!Sound(walkDir)
  BY <1>2, <1>3 DEF WalkStands, GoodBlock, Walk!Sound
<1>5. Seen = Walk!Listing(walkDir)
  <2>1. Walk!Listing(walkDir) = Heard(walkDir)[walkBlock] /\ IsSeq(Walk!Listing(walkDir))
    BY <1>2, <1>3, <1>4, HeardIsListing
  <2>2. Heard(walkDir)[walkBlock] \o Part(walkDir, walkBlock, -1) = Heard(walkDir)[walkBlock]
    <3>1. PICK h, k : h = Heard(walkDir)[walkBlock] /\ k = walkBlock
      OBVIOUS
    <3> QED BY <2>1, <3>1, NoPart
  <2> QED BY <1>1, <2>1, <2>2 DEF Seen
<1>6. GatheredFrom(Walk!Listing(walkDir))
  BY <1>2, <1>5 DEF WalkStands
<1>7. GatheredFrom(Walk!Listing(walkDir))' /\ Walk!Sound(walkDir)' /\ IsCall'
  BY <1>1, <1>2, <1>4, <1>6 DEF GatheredFrom, IsCall
<1>8. walkResult' = IF walkOp[1] = "list" THEN <<"listed", walkOut>>
              ELSE IF walkFound = {} THEN <<"not found">> ELSE <<"found", CHOOSE n \in walkFound : TRUE>>
  BY DEF Walk!Finish
<1>9. walkOp[1] = "list" \/ walkOp[1] = "lookup"
  BY <1>2 DEF IsCall
<1>10. walkOp[1] # "list" => walkFound = {} \/ \E nid : walkFound = {nid}
  BY <1>6 DEF GatheredFrom, FirstOf
<1>11. AnswerStands'
  <2>1. CASE walkOp[1] = "list"
    <3>1. walkOp'[1] = "list" /\ walkResult' = <<"listed", walkOut'>> /\ walkDir'.isDir
      <4>1. walkResult' = <<"listed", walkOut>>
        BY <1>8, <2>1
      <4> QED BY <1>1, <1>2, <2>1, <4>1
    <3> QED BY <1>7, <3>1 DEF AnswerStands
  <2>2. CASE walkOp[1] # "list" /\ walkFound = {}
    <3>1. walkOp'[1] # "list" /\ walkResult' = <<"not found">> /\ walkFound' = {} /\ walkDir'.isDir
      BY <1>1, <1>2, <1>8, <2>2
    <3> QED BY <1>7, <3>1 DEF AnswerStands
  <2>3. ASSUME walkOp[1] # "list", NEW nid, walkFound = {nid} PROVE AnswerStands'
    <3>1. walkOp'[1] # "list" /\ walkFound' = {nid} /\ walkDir'.isDir
      BY <1>1, <1>2, <2>3
    <3>2. walkResult' = <<"found", CHOOSE n \in walkFound : TRUE>>
      BY <1>8, <2>3
    <3>3. (CHOOSE n \in walkFound : TRUE) = nid
      BY <2>3
    <3> QED BY <1>7, <3>1, <3>2, <3>3 DEF AnswerStands
  <2> QED BY <1>10, <2>1, <2>2, <2>3
<1>12. Walk!Held' = Walk!Held /\ Seen' = Seen
  BY <1>1 DEF Walk!Held, Seen
<1>13. WalkStands'
  BY <1>1, <1>2, <1>12 DEF WalkStands, GatheredFrom
<1> QED BY <1>1, <1>2, <1>7, <1>11, <1>13 DEF DirInv

LEMMA DirStutters ==
  ASSUME DirInv, UNCHANGED Walk!vars
  PROVE  DirInv'
<1>1. UNCHANGED <<walkDir, walkOp, walkLeft, walkBlock, walkEntry, walkOut, walkFound, walkResult>>
  BY DEF Walk!vars
<1>2. Seen' = Seen /\ Walk!Held' = Walk!Held
  BY <1>1 DEF Seen, Walk!Held
<1>3. GatheredFrom(Seen)' <=> GatheredFrom(Seen)
  BY <1>1, <1>2 DEF GatheredFrom
<1>4. AnswerStands' <=> AnswerStands
  BY <1>1 DEF AnswerStands, GatheredFrom
<1>5. WalkStands' <=> WalkStands
  BY <1>1, <1>2, <1>3 DEF WalkStands
<1> QED BY <1>1, <1>4, <1>5 DEF DirInv, IsCall

\* DirInv is an invariant of every walk of a directory.
LEMMA DirInvCorrect ==
  ASSUME Walk!AreDirs
  PROVE  Walk!Spec => []DirInv
<1>1. Walk!Init => DirInv
  BY DEF Walk!Init, DirInv, AnswerStands
<1>2. DirInv /\ [Walk!Next]_Walk!vars => DirInv'
  <2> SUFFICES ASSUME DirInv, [Walk!Next]_Walk!vars PROVE DirInv'
    OBVIOUS
  <2>1. CASE Walk!Next
    BY <2>1, CallInv, ReadInv, FailsInv, VisitInv, FinishDirInv DEF Walk!Next
  <2>2. CASE UNCHANGED Walk!vars
    BY <2>2, DirStutters
  <2> QED BY <2>1, <2>2
<1> QED BY <1>1, <1>2, PTL DEF Walk!Spec

\* What is heard comes from the blocks.
LEMMA HeardFrom ==
  ASSUME NEW d, Walk!IsDir(d), d.isDir, NEW k \in 0..Len(d.blocks), \A x \in 0..(k - 1) : GoodBlock(d, x)
  PROVE  \A j \in DOMAIN Heard(d)[k] : \E x \in 0..(k - 1) : \E y \in 1..Walk!DirentCount(Walk!Buffer(d, x)) :
           Heard(d)[k][j] = Walk!EntryAt(Walk!Buffer(d, x), y)
<1> DEFINE From(m) == \A j \in DOMAIN Heard(d)[m] : \E x \in 0..(m - 1) :
                        \E y \in 1..Walk!DirentCount(Walk!Buffer(d, x)) :
                          Heard(d)[m][j] = Walk!EntryAt(Walk!Buffer(d, x), y)
           S == {m \in Nat : m =< k => From(m)}
<1>0. Len(d.blocks) \in Nat /\ k \in Nat
  BY DirFacts, SeqFacts
<1>1. 0 \in S
  <2>1. Heard(d)[0] = <<>>
    BY HeardFacts
  <2> QED BY <2>1
<1>2. ASSUME NEW m \in S PROVE m + 1 \in S
  <2>0. m \in Nat /\ m + 1 \in Nat
    OBVIOUS
  <2> SUFFICES ASSUME m + 1 =< k PROVE From(m + 1)
    BY <2>0
  <2>1. From(m) /\ m \in 0..(Len(d.blocks) - 1) /\ m < Len(d.blocks) /\ m \in 0..Len(d.blocks)
    BY <1>0, <2>0
  <2>2. GoodBlock(d, m) /\ Walk!IsBlock(Walk!Buffer(d, m))
    BY <1>0, <2>0, <2>1, BufferIsBlock
  <2>3. PICK c \in Nat : c = Walk!DirentCount(Walk!Buffer(d, m))
    BY <2>2, CountFacts DEF GoodBlock
  <2>4. \A x \in 0..(m - 1) : GoodBlock(d, x)
    BY <1>0, <2>0
  <2>5. PICK h, w : h = Heard(d)[m] /\ w = Whole(d, m)
    OBVIOUS
  <2>6. IsSeq(h)
    BY <2>1, <2>4, <2>5, HeardIsSeq
  <2>7. IsSeq(w) /\ DOMAIN w = 1..c /\ \A y \in 1..c : w[y] = Walk!EntryAt(Walk!Buffer(d, m), y)
    BY <2>3, <2>5, SliceFacts DEF Whole, Part
  <2>8. Heard(d)[m + 1] = h \o w
    BY <2>1, <2>5, HeardFacts
  <2> SUFFICES ASSUME NEW j \in DOMAIN (h \o w)
               PROVE  \E x \in 0..((m + 1) - 1) : \E y \in 1..Walk!DirentCount(Walk!Buffer(d, x)) :
                        (h \o w)[j] = Walk!EntryAt(Walk!Buffer(d, x), y)
    BY <2>8
  <2>9. \/ j \in DOMAIN h /\ (h \o w)[j] = h[j]
        \/ j - Len(h) \in DOMAIN w /\ (h \o w)[j] = w[j - Len(h)]
    BY <2>6, <2>7, JoinFacts
  <2>10. CASE j \in DOMAIN h /\ (h \o w)[j] = h[j]
    <3>1. PICK x \in 0..(m - 1) : \E y \in 1..Walk!DirentCount(Walk!Buffer(d, x)) :
            h[j] = Walk!EntryAt(Walk!Buffer(d, x), y)
      BY <2>1, <2>5, <2>10
    <3>2. x \in 0..((m + 1) - 1)
      BY <2>0
    <3> QED BY <2>10, <3>1, <3>2
  <2>11. CASE j - Len(h) \in DOMAIN w /\ (h \o w)[j] = w[j - Len(h)]
    <3>1. PICK y \in 1..c : y = j - Len(h)
      BY <2>7, <2>11
    <3>2. m \in 0..((m + 1) - 1)
      BY <2>0
    <3>3. (h \o w)[j] = Walk!EntryAt(Walk!Buffer(d, m), y)
      BY <2>7, <2>11, <3>1
    <3> QED BY <2>3, <3>2, <3>3
  <2> QED BY <2>9, <2>10, <2>11
<1>3. S = Nat
  <2>1. S \in SUBSET Nat
    OBVIOUS
  <2> HIDE DEF S
  <2> QED BY <1>1, <1>2, <2>1, NatInd
<1> QED BY <1>0, <1>3

\* What is listed has clean names.
LEMMA ListedClean ==
  ASSUME NEW d, Walk!IsDir(d), d.isDir, Walk!Sound(d), NEW e \in Walk!ToSet(Walk!Listing(d))
  PROVE  Len(e.name) > 0 /\ \A k \in DOMAIN e.name : e.name[k] \notin {Walk!Nul, Walk!Slash}
<1>0. PICK n \in Nat : n = Len(d.blocks)
  BY DirFacts, SeqFacts
<1>1. \A x \in 0..(n - 1) : GoodBlock(d, x)
  BY <1>0 DEF Walk!Sound, GoodBlock
<1>2. PICK h : h = Heard(d)[n] /\ Walk!Listing(d) = h
  BY <1>0, HeardIsListing
<1>3. PICK j \in DOMAIN h : e = h[j]
  BY <1>2 DEF Walk!ToSet
<1>4. PICK x \in 0..(n - 1) : \E y \in 1..Walk!DirentCount(Walk!Buffer(d, x)) : e = Walk!EntryAt(Walk!Buffer(d, x), y)
  <2>1. n \in 0..Len(d.blocks)
    BY <1>0
  <2>2. \A i \in DOMAIN Heard(d)[n] : \E x \in 0..(n - 1) : \E y \in 1..Walk!DirentCount(Walk!Buffer(d, x)) :
          Heard(d)[n][i] = Walk!EntryAt(Walk!Buffer(d, x), y)
    BY <1>1, <2>1, HeardFrom
  <2> QED BY <1>2, <1>3, <2>2
<1>5. PICK b : b = Walk!Buffer(d, x) /\ Walk!IsBlock(b) /\ ~Walk!CountRefused(b)
             /\ \A i \in 1..Walk!DirentCount(b) : ~Walk!EntryRefused(b, i)
  BY <1>0, <1>1, BufferIsBlock DEF GoodBlock
<1>6. PICK y \in 1..Walk!DirentCount(Walk!Buffer(d, x)) : e = Walk!EntryAt(Walk!Buffer(d, x), y)
  BY <1>4
<1>7. ~Walk!EntryRefused(b, y) /\ y \in 1..Walk!DirentCount(b) /\ e = Walk!EntryAt(b, y)
  BY <1>5, <1>6
<1> QED BY <1>5, <1>7, NameIsClean

\* What was gathered from a listing answers for it.
LEMMA AnswerAgrees ==
  ASSUME Walk!AreDirs, DirInv
  PROVE  Walk!LookupAgreesWithListing
<1>1. Walk!IsDir(walkDir) /\ walkDir.size \in Nat
  BY DirFacts DEF Walk!AreDirs, DirInv
<1>2. walkLeft \in 0..walkDir.size
  <2>1. CASE walkOp = <<>>
    BY <1>1, <2>1 DEF DirInv
  <2>2. CASE walkOp # <<>> /\ ~walkDir.isDir
    BY <1>1, <2>2 DEF DirInv
  <2>3. CASE walkOp # <<>> /\ walkDir.isDir
    <3>1. WalkStands /\ walkBlock \in Nat
      BY DirFacts, <1>1, <2>3, SeqFacts DEF DirInv, WalkStands
    <3>2. PICK x \in Nat : x = walkBlock * WalkBlockSize
      BY <3>1, WalkAssumption
    <3> QED BY <1>1, <3>1, <3>2 DEF WalkStands
  <2> QED BY DirFacts, <2>1, <2>2, <2>3
<1> DEFINE l == Walk!Listing(walkDir)
<1>3. ASSUME walkResult # <<>>, walkResult # <<"device">>, walkDir.isDir
      PROVE  /\ walkResult[1] = "error" <=> ~Walk!Sound(walkDir)
             /\ walkResult[1] = "listed" =>
                  /\ walkResult[2] = Walk!Listing(walkDir)
                  /\ \A e \in Walk!ToSet(walkResult[2]) :
                       Len(e.name) > 0 /\ \A i \in DOMAIN e.name : e.name[i] \notin {Walk!Nul, Walk!Slash}
             /\ walkResult[1] = "not found" => \A e \in Walk!ToSet(Walk!Listing(walkDir)) : e.name # walkOp[2]
             /\ walkResult[1] = "found" =>
                  \E i \in DOMAIN l : /\ l[i].name = walkOp[2] /\ l[i].nid = walkResult[2]
                                      /\ \A j \in 1..(i - 1) : l[j].name # walkOp[2]
  <2>1. CASE walkResult = <<"error">> /\ ~Walk!Sound(walkDir)
    BY <2>1
  <2>2. CASE Walk!Sound(walkDir) /\ GatheredFrom(l) /\ walkOp[1] = "list" /\ walkResult = <<"listed", walkOut>>
    <3>1. walkResult[1] = "listed" /\ walkResult[2] = l
      BY <2>2 DEF GatheredFrom
    <3>2. \A e \in Walk!ToSet(l) :
            Len(e.name) > 0 /\ \A i \in DOMAIN e.name : e.name[i] \notin {Walk!Nul, Walk!Slash}
      BY <1>1, <1>3, <2>2, ListedClean
    <3> QED BY <2>2, <3>1, <3>2
  <2>3. CASE Walk!Sound(walkDir) /\ GatheredFrom(l) /\ walkOp[1] # "list" /\ walkFound = {} /\ walkResult = <<"not found">>
    <3>1. FirstOf({}, l, walkOp[2])
      BY <2>3 DEF GatheredFrom
    <3>2. \A j \in DOMAIN l : l[j].name # walkOp[2]
      BY <3>1 DEF FirstOf
    <3>3. \A e \in Walk!ToSet(l) : e.name # walkOp[2]
      BY <3>2 DEF Walk!ToSet
    <3> QED BY <2>3, <3>3
  <2>4. ASSUME Walk!Sound(walkDir), GatheredFrom(l), walkOp[1] # "list", NEW nid, walkFound = {nid}, walkResult = <<"found", nid>>
        PROVE  /\ walkResult[1] = "found"
               /\ \E i \in DOMAIN l : /\ l[i].name = walkOp[2] /\ l[i].nid = walkResult[2]
                                      /\ \A j \in 1..(i - 1) : l[j].name # walkOp[2]
    <3>1. FirstOf({nid}, l, walkOp[2]) /\ walkResult[2] = nid /\ walkResult[1] = "found"
      BY <2>4 DEF GatheredFrom
    <3>2. PICK i \in DOMAIN l : /\ l[i].name = walkOp[2] /\ {nid} = {l[i].nid}
                                /\ \A j \in 1..(i - 1) : l[j].name # walkOp[2]
      BY <3>1 DEF FirstOf
    <3>3. l[i].nid = nid
      BY <3>2
    <3> QED BY <3>1, <3>2, <3>3
  <2>5. AnswerStands
    BY DEF DirInv
  <2> HIDE DEF l
  <2>6. \/ walkResult = <<"error">> /\ ~Walk!Sound(walkDir)
        \/ Walk!Sound(walkDir) /\ GatheredFrom(l) /\ walkOp[1] = "list" /\ walkResult = <<"listed", walkOut>>
        \/ Walk!Sound(walkDir) /\ GatheredFrom(l) /\ walkOp[1] # "list" /\ walkFound = {} /\ walkResult = <<"not found">>
        \/ Walk!Sound(walkDir) /\ GatheredFrom(l) /\ walkOp[1] # "list" /\ \E nid : walkFound = {nid} /\ walkResult = <<"found", nid>>
    BY <1>3, <2>5 DEF AnswerStands, l
  <2> QED BY <2>1, <2>2, <2>3, <2>4, <2>6
<1> QED BY <1>2, <1>3 DEF Walk!LookupAgreesWithListing

\* On any directory, damaged ones included, a lookup answers and refuses as a listing
\* does, and what is listed has clean names (fs.rs, read_dir and lookup).
THEOREM LookupCorrect ==
  ASSUME Walk!AreDirs
  PROVE  Walk!Spec => []LookupAgreesWithListing
<1>1. DirInv => LookupAgreesWithListing
  BY AnswerAgrees DEF LookupAgreesWithListing
<1> QED BY <1>1, DirInvCorrect, PTL

-----------------------------------------------------------------------------
(***************************************************************************)
(* A directory of the builder: what its blocks hold is what was encoded.   *)
(***************************************************************************)
\* Running totals of the same counts are the same.
LEMMA SameTotals ==
  ASSUME NEW n \in Nat, NEW m \in 0..n, NEW c, NEW e, NEW g, NEW h, NEW from,
         Totals(g, c, n, from), Totals(h, e, m, from), \A k \in 1..m : c[k] = e[k]
  PROVE  \A k \in 0..m : g[k] = h[k]
<1> DEFINE S == {k \in Nat : k =< m => g[k] = h[k]}
<1>0. m \in Nat /\ m =< n
  OBVIOUS
<1>1. /\ g[0] = from /\ h[0] = from
      /\ \A k \in 1..n : g[k] = g[k - 1] + c[k]
      /\ \A k \in 1..m : h[k] = h[k - 1] + e[k]
  BY DEF Totals
<1>2. 0 \in S
  BY <1>1
<1>3. ASSUME NEW k \in S PROVE k + 1 \in S
  <2>0. k \in Nat /\ k + 1 \in Nat /\ (k + 1) - 1 = k
    OBVIOUS
  <2> SUFFICES ASSUME k + 1 =< m PROVE g[k + 1] = h[k + 1]
    BY <2>0
  <2>1. k + 1 \in 1..n /\ k + 1 \in 1..m /\ g[k] = h[k]
    BY <1>0, <2>0
  <2> QED BY <1>1, <2>0, <2>1
<1>4. S = Nat
  <2>1. S \in SUBSET Nat
    OBVIOUS
  <2> HIDE DEF S
  <2> QED BY <1>2, <1>3, <2>1, NatInd
<1> QED BY <1>0, <1>4

\* The lengths of names, n of them from one on.
Lengths(entries, from, n) == [k \in 1..n |-> Len(entries[from + k - 1].name)]

\* The bytes of names are a running total of their lengths.
LEMMA NamesRun ==
  ASSUME NEW entries, Named(entries), NEW from \in Nat \ {0}, NEW n \in Nat,
         from + n - 1 =< Len(entries),
         NEW g, Totals(g, Lengths(entries, from, n), n, 0), NEW m \in 0..n
  PROVE  NameBytes(entries, from, from + m - 1) = g[m]
<1> DEFINE to == from + m - 1
           e == Lengths(entries, from, m)
           upto == CHOOSE upto : upto = [k \in 0..(to - from + 1) |->
                     IF k = 0 THEN 0
                     ELSE upto[k - 1] + Len(entries[from + k - 1].name)]
<1>1. m \in Nat /\ m =< n /\ to - from + 1 = m
  OBVIOUS
<1>2. NameBytes(entries, from, to) = upto[m]
  BY <1>1 DEF NameBytes
<1>3. Totals(upto, e, m, 0)
  <2>1. \A k \in 1..m : e[k] = Len(entries[from + k - 1].name)
    BY DEF Lengths
  <2> HIDE DEF e
  <2>2. PICK h : Totals(h, e, m, 0)
    BY <1>1, RunsExist
  <2>3. h = [k \in 0..m |-> IF k = 0 THEN 0 ELSE h[k - 1] + Len(entries[from + k - 1].name)]
    <3>1. \A k \in 0..m : k # 0 => e[k] = Len(entries[from + k - 1].name)
      BY <1>1, <2>1
    <3> QED BY <2>2, <3>1 DEF Totals
  <2>4. upto = [k \in 0..m |-> IF k = 0 THEN 0
                               ELSE upto[k - 1] + Len(entries[from + k - 1].name)]
    <3> HIDE DEF to
    <3> QED BY <1>1, <2>3
  <2> HIDE DEF upto
  <2>5. \A k \in 0..m : k # 0 => e[k] = Len(entries[from + k - 1].name)
    BY <1>1, <2>1
  <2> QED BY <2>4, <2>5 DEF Totals
<1> HIDE DEF upto
<1>4. \A k \in 1..m : Lengths(entries, from, n)[k] = e[k]
  BY <1>1 DEF Lengths
<1>5. g[m] = upto[m]
  <2> HIDE DEF e, to
  <2>1. m \in 0..m
    BY <1>1
  <2> QED BY <1>3, <1>4, <2>1, SameTotals
<1> QED BY <1>2, <1>5

\* And so they are where the directory is walked.
LEMMA SameNames ==
  ASSUME NEW entries, NEW from, NEW to
  PROVE  Walk!NameBytes(entries, from, to) = NameBytes(entries, from, to)
BY DEF Walk!NameBytes, NameBytes

\* An entry that may be listed, and a sequence of such.
IsEntry(e) ==
  /\ e = [name |-> e.name, nid |-> e.nid, ft |-> e.ft]
  /\ e.name \in Seq(Nat) /\ Len(e.name) > 0
  /\ \A i \in DOMAIN e.name : e.name[i] \notin {Walk!Nul, Walk!Slash}
Entries(entries) == IsSeq(entries) /\ \A k \in DOMAIN entries : IsEntry(entries[k])

\* The running total p of the names' lengths, and where the i-th name starts in the
\* block that is encoded; behind the last name it is the block's free end.
NamesUpTo(p, entries) == Totals(p, Lengths(entries, 1, Len(entries)), Len(entries), 0)
Start(p, entries, i) == Len(entries) * WalkDirentSize + p[i - 1]

LEMMA EntryTypes ==
  ASSUME NEW entries, Entries(entries)
  PROVE  /\ Named(entries) /\ Len(entries) \in Nat /\ DOMAIN entries = 1..Len(entries)
         /\ \A i \in 1..Len(entries) : /\ Len(entries[i].name) \in Nat \ {0}
                                       /\ DOMAIN entries[i].name = 1..Len(entries[i].name)
<1>1. Len(entries) \in Nat /\ DOMAIN entries = 1..Len(entries)
  BY SeqFacts DEF Entries
<1>2. ASSUME NEW i \in 1..Len(entries)
      PROVE  Len(entries[i].name) \in Nat \ {0} /\ DOMAIN entries[i].name = 1..Len(entries[i].name)
  <2>1. PICK name \in Seq(Nat) : name = entries[i].name /\ Len(name) > 0
    BY <1>1 DEF Entries, IsEntry
  <2> QED BY <2>1
<1> QED BY <1>1, <1>2 DEF Entries, Named

\* Names lie behind the dirents, one behind the other.
LEMMA StartFacts2 ==
  ASSUME NEW entries, Entries(entries), NEW p, NamesUpTo(p, entries)
  PROVE  /\ \A i \in 1..(Len(entries) + 1) :
              /\ Start(p, entries, i) \in Nat
              /\ Start(p, entries, i) >= Len(entries) * WalkDirentSize
         /\ Start(p, entries, 1) = Len(entries) * WalkDirentSize
         /\ \A i \in 1..Len(entries) :
              Start(p, entries, i + 1) = Start(p, entries, i) + Len(entries[i].name)
         /\ \A i, j \in 1..(Len(entries) + 1) : i =< j => Start(p, entries, i) =< Start(p, entries, j)
<1> DEFINE n == Len(entries)
           c == Lengths(entries, 1, n)
<1>1. n \in Nat
  BY EntryTypes
<1>2. \A k \in 1..n : c[k] = Len(entries[k].name) /\ c[k] \in Nat
  BY <1>1, EntryTypes DEF Lengths
<1>3. PICK z \in Nat : z = n * WalkDirentSize
  BY <1>1, WalkAssumption
<1>4. Totals(p, c, n, 0)
  BY DEF NamesUpTo
<1> HIDE DEF c
<1>5. Runs(p, c, n, 0)
  BY <1>1, <1>4 DEF Runs, Totals
<1>6. /\ \A k \in 0..n : p[k] \in Nat
      /\ \A j, k \in 0..n : j =< k => p[j] =< p[k]
      /\ p[0] = 0 /\ \A k \in 1..n : p[k] = p[k - 1] + c[k]
  BY <1>1, <1>2, <1>5, RunFacts DEF Runs
<1>7. \A i : Start(p, entries, i) = z + p[i - 1]
  BY <1>3 DEF Start
<1> HIDE DEF n
<1>8. ASSUME NEW i \in 1..(n + 1)
      PROVE  Start(p, entries, i) \in Nat /\ Start(p, entries, i) >= z
  <2>1. p[i - 1] \in Nat
    BY <1>1, <1>6
  <2> QED BY <1>7, <2>1
<1>9. Start(p, entries, 1) = z
  BY <1>6, <1>7
<1>10. ASSUME NEW i \in 1..n
       PROVE  Start(p, entries, i + 1) = Start(p, entries, i) + Len(entries[i].name)
  <2>1. p[i - 1] \in Nat /\ c[i] \in Nat /\ p[i] = p[i - 1] + c[i] /\ c[i] = Len(entries[i].name)
        /\ (i + 1) - 1 = i
    BY <1>1, <1>2, <1>6
  <2>2. Start(p, entries, i + 1) = z + p[i] /\ Start(p, entries, i) = z + p[i - 1]
    BY <1>7, <2>1
  <2> QED BY <2>1, <2>2
<1>11. ASSUME NEW i \in 1..(n + 1), NEW j \in 1..(n + 1), i =< j
       PROVE  Start(p, entries, i) =< Start(p, entries, j)
  <2>1. p[i - 1] \in Nat /\ p[j - 1] \in Nat /\ p[i - 1] =< p[j - 1]
    BY <1>1, <1>6, <1>11
  <2> QED BY <1>7, <2>1
<1> QED BY <1>3, <1>8, <1>9, <1>10, <1>11 DEF n

\* A place within a stretch of bytes, and how far in it is.
LEMMA Within ==
  ASSUME NEW a \in Nat, NEW m \in Nat, NEW w \in Nat, a + m =< w
  PROVE  /\ \A k \in 1..m : /\ a + k - 1 \in Nat /\ a + k - 1 \in 0..(w - 1)
                           /\ a + k - 1 \in a..(a + m - 1) /\ (a + k - 1) - a + 1 = k
         /\ \A off \in a..(a + m - 1) : off \in Nat /\ off >= a /\ off < a + m
OBVIOUS

\* What encode_one_dir_block lays down: the dirents, each name where its dirent says,
\* and zeros.
LEMMA EncodedFacts ==
  ASSUME NEW entries, Entries(entries), NEW p, NamesUpTo(p, entries),
         Start(p, entries, Len(entries) + 1) =< WalkBlockSize,
         NEW b, b = Walk!EncodeBlock(entries)
  PROVE  /\ b.ents = [i \in 1..Len(entries) |->
                        [nid |-> entries[i].nid, nameoff |-> Start(p, entries, i), ft |-> entries[i].ft]]
         /\ b.text = [off \in 0..(WalkBlockSize - 1) |-> b.text[off]]
         /\ \A i \in 1..Len(entries) : \A k \in 1..Len(entries[i].name) :
              b.text[Start(p, entries, i) + k - 1] = entries[i].name[k]
         /\ \A off \in Start(p, entries, Len(entries) + 1)..(WalkBlockSize - 1) :
              b.text[off] = Walk!Nul
<1> DEFINE n == Len(entries)
           start(i) == n * WalkDirentSize + Walk!NameBytes(entries, 1, i - 1)
           over(off) == {i \in DOMAIN entries : off \in start(i)..(start(i) + Len(entries[i].name) - 1)}
           Byte(off) == IF over(off) = {} THEN Walk!Nul
                        ELSE LET i == CHOOSE j \in over(off) : TRUE IN
                             entries[i].name[off - start(i) + 1]
           st(i) == Start(p, entries, i)
<1>1. /\ b.ents = [i \in DOMAIN entries |->
                     [nid |-> entries[i].nid, nameoff |-> start(i), ft |-> entries[i].ft]]
      /\ b.text = [off \in 0..(WalkBlockSize - 1) |-> Byte(off)]
  BY DEF Walk!EncodeBlock
<1>2. n \in Nat /\ DOMAIN entries = 1..n /\ Named(entries)
      /\ \A i \in 1..n : Len(entries[i].name) \in Nat \ {0}
  BY EntryTypes
<1>3. ASSUME NEW i \in 1..n PROVE start(i) = st(i)
  <2>1. i - 1 \in 0..n /\ 1 + (i - 1) - 1 = i - 1 /\ 1 + n - 1 =< n /\ 1 \in Nat \ {0}
    BY <1>2
  <2>2. Totals(p, Lengths(entries, 1, n), n, 0)
    BY DEF NamesUpTo
  <2> HIDE DEF n
  <2>3. NameBytes(entries, 1, 1 + (i - 1) - 1) = p[i - 1]
    BY <1>2, <2>1, <2>2, NamesRun DEF n
  <2>4. Walk!NameBytes(entries, 1, i - 1) = p[i - 1]
    BY <2>1, <2>3, SameNames
  <2> QED BY <2>4 DEF Start, n
<1>4. /\ \A i \in 1..(n + 1) : st(i) \in Nat
      /\ \A i \in 1..n : st(i + 1) = st(i) + Len(entries[i].name)
      /\ \A i, j \in 1..(n + 1) : i =< j => st(i) =< st(j)
      /\ st(n + 1) =< WalkBlockSize /\ WalkBlockSize \in Nat
  BY StartFacts2, WalkAssumption
<1>5. \A off : over(off) = {i \in 1..n : off \in st(i)..(st(i) + Len(entries[i].name) - 1)}
  <2> HIDE DEF start, st, n
  <2> QED BY <1>2, <1>3
<1> HIDE DEF over, st, start
<1>6. \A off \in 0..(WalkBlockSize - 1) : b.text[off] = Byte(off)
  BY <1>1
<1>7. DOMAIN b.text = 0..(WalkBlockSize - 1) /\ b.text = [off \in 0..(WalkBlockSize - 1) |-> b.text[off]]
  BY <1>1
<1>8. b.ents = [i \in 1..n |-> [nid |-> entries[i].nid, nameoff |-> st(i), ft |-> entries[i].ft]]
  BY <1>1, <1>2, <1>3
<1> HIDE DEF n
<1>9. ASSUME NEW i \in 1..n, NEW k \in 1..Len(entries[i].name)
      PROVE  b.text[st(i) + k - 1] = entries[i].name[k]
  <2> DEFINE off == st(i) + k - 1
             l == Len(entries[i].name)
  <2>1. l \in Nat /\ st(i) \in Nat /\ st(i + 1) = st(i) + l /\ st(i + 1) =< st(n + 1)
        /\ i + 1 \in 1..(n + 1) /\ st(n + 1) \in Nat
    <3>1. i \in 1..(n + 1) /\ i + 1 \in 1..(n + 1) /\ n + 1 \in 1..(n + 1) /\ i + 1 =< n + 1
      BY <1>2
    <3> QED BY <1>2, <1>4, <3>1
  <2>2. off \in 0..(WalkBlockSize - 1) /\ off \in st(i)..(st(i) + l - 1) /\ off - st(i) + 1 = k
        /\ off \in Nat
    <3>1. PICK a \in Nat, z \in Nat : a = st(i) /\ z = st(i + 1) /\ z =< WalkBlockSize
      BY <1>4, <2>1
    <3>2. PICK m \in Nat : m = l /\ z = a + m
      BY <2>1, <3>1
    <3>3. k \in 1..m /\ a + m =< WalkBlockSize /\ WalkBlockSize \in Nat
      BY <1>4, <3>1, <3>2
    <3>4. /\ a + k - 1 \in Nat /\ a + k - 1 \in 0..(WalkBlockSize - 1)
          /\ a + k - 1 \in a..(a + m - 1) /\ (a + k - 1) - a + 1 = k
      BY <3>3, Within
    <3> QED BY <3>1, <3>2, <3>4
  <2>3. ASSUME NEW j \in 1..n, off \in st(j)..(st(j) + Len(entries[j].name) - 1)
        PROVE  j = i
    <3>1. Len(entries[j].name) \in Nat /\ st(j) \in Nat /\ st(j + 1) = st(j) + Len(entries[j].name)
          /\ j \in 1..(n + 1) /\ j + 1 \in 1..(n + 1) /\ i \in 1..(n + 1)
      BY <1>2, <1>4, SMTT(30)
    <3>2. j < i => st(j + 1) =< st(i)
      BY <1>2, <1>4, <3>1
    <3>3. i < j => st(i + 1) =< st(j)
      BY <1>2, <1>4, <2>1, <3>1
    <3> HIDE DEF off
    <3>4. off \in Nat /\ off < st(j + 1) /\ off >= st(j) /\ off < st(i + 1) /\ off >= st(i)
          /\ st(j + 1) \in Nat /\ st(i + 1) \in Nat
      <4>1. PICK a \in Nat, l1 \in Nat, c \in Nat, l2 \in Nat :
              a = st(i) /\ l1 = l /\ c = st(j) /\ l2 = Len(entries[j].name)
        BY <2>1, <3>1
      <4>2. off \in a..(a + l1 - 1) /\ off \in c..(c + l2 - 1)
        BY <2>2, <2>3, <4>1
      <4>3. off \in Nat /\ off >= a /\ off < a + l1 /\ off >= c /\ off < c + l2
        BY <4>2
      <4>4. PICK z1 \in Nat, z2 \in Nat : z1 = st(i + 1) /\ z2 = st(j + 1) /\ z1 = a + l1 /\ z2 = c + l2
        <5>1. a + l1 \in Nat /\ c + l2 \in Nat
          OBVIOUS
        <5> QED BY <2>1, <3>1, <4>1, <5>1
      <4> QED BY <4>1, <4>3, <4>4
    <3>5. ~(j < i) /\ ~(i < j)
      BY <2>1, <3>1, <3>2, <3>3, <3>4
    <3> QED BY <1>2, <3>5
  <2>4. over(off) = {i}
    <3> HIDE DEF off
    <3> QED BY <1>5, <2>2, <2>3
  <2>5. (CHOOSE j \in over(off) : TRUE) = i
    <3> HIDE DEF off
    <3> QED BY <2>4
  <2>6. start(i) = st(i)
    BY <1>3
  <2> HIDE DEF off
  <2>7. Byte(off) = entries[i].name[off - st(i) + 1]
    BY <2>4, <2>5, <2>6
  <2>8. b.text[off] = entries[i].name[k]
    BY <1>6, <2>2, <2>7
  <2> QED BY <2>8 DEF off
<1>10. ASSUME NEW off \in st(n + 1)..(WalkBlockSize - 1)
       PROVE  b.text[off] = Walk!Nul
  <2>1. st(n + 1) \in Nat /\ off \in 0..(WalkBlockSize - 1) /\ off >= st(n + 1)
    <3>1. n + 1 \in 1..(n + 1)
      BY <1>2
    <3> QED BY <1>4, <3>1
  <2>2. ASSUME NEW j \in 1..n, off \in st(j)..(st(j) + Len(entries[j].name) - 1)
        PROVE  FALSE
    <3>1. Len(entries[j].name) \in Nat /\ st(j) \in Nat /\ st(j + 1) = st(j) + Len(entries[j].name)
          /\ j + 1 \in 1..(n + 1) /\ n + 1 \in 1..(n + 1) /\ j + 1 =< n + 1 /\ j \in 1..(n + 1)
      BY <1>2, <1>4
    <3>2. st(j + 1) =< st(n + 1)
      BY <1>4, <3>1
    <3> QED BY <2>1, <2>2, <3>1, <3>2
  <2>3. over(off) = {}
    BY <1>5, <2>2
  <2>4. Byte(off) = Walk!Nul
    BY <2>3
  <2> QED BY <1>6, <2>1, <2>4
<1> QED BY <1>7, <1>8, <1>9, <1>10 DEF n, st

\* What reading a block back rests on.
Encodes(b, p, entries) ==
  /\ b.ents = [i \in 1..Len(entries) |->
                 [nid |-> entries[i].nid, nameoff |-> Start(p, entries, i), ft |-> entries[i].ft]]
  /\ \A i \in 1..Len(entries) : \A k \in 1..Len(entries[i].name) :
       b.text[Start(p, entries, i) + k - 1] = entries[i].name[k]
  /\ \A off \in Start(p, entries, Len(entries) + 1)..(WalkBlockSize - 1) : b.text[off] = Walk!Nul

\* A multiple is divided.
LEMMA Divided ==
  ASSUME NEW n \in Nat, NEW s \in Nat, s > 0
  PROVE  (n * s) \div s = n /\ (n * s) % s = 0
<1>1. PICK m \in Nat : m = n * s
  OBVIOUS
<1>2. PICK q \in Nat, r \in Nat : q = m \div s /\ r = m % s /\ r < s /\ m = q * s + r
  BY <1>1, DivFacts
<1>3. PICK x \in Nat : x = q * s
  OBVIOUS
<1>4. ~(q < n)
  <2> SUFFICES ASSUME q < n PROVE FALSE
    OBVIOUS
  <2>1. (q + 1) * s =< n * s /\ (q + 1) * s = q * s + 1 * s /\ 1 * s = s
    BY Multiples
  <2> QED BY <1>1, <1>2, <1>3, <2>1
<1>5. ~(n < q)
  <2> SUFFICES ASSUME n < q PROVE FALSE
    OBVIOUS
  <2>1. (n + 1) * s =< q * s /\ (n + 1) * s = n * s + 1 * s /\ 1 * s = s
    BY Multiples
  <2> QED BY <1>1, <1>2, <1>3, <2>1
<1>6. q = n
  BY <1>4, <1>5
<1>7. r = 0
  BY <1>1, <1>2, <1>3, <1>6
<1> QED BY <1>1, <1>2, <1>6, <1>7

\* The reader counts the entries of such a block.
LEMMA CountedBack ==
  ASSUME NEW entries, Entries(entries), Len(entries) > 0, NEW p, NamesUpTo(p, entries),
         Start(p, entries, Len(entries) + 1) =< WalkBlockSize, NEW b, Encodes(b, p, entries)
  PROVE  ~Walk!CountRefused(b) /\ Walk!DirentCount(b) = Len(entries)
         /\ Walk!FirstNameOff(b) = Start(p, entries, 1)
<1>1. PICK n \in Nat, s \in Nat, m \in Nat :
        n = Len(entries) /\ s = WalkDirentSize /\ m = n * s /\ n > 0 /\ s > 0
  <2>1. Len(entries) \in Nat /\ WalkDirentSize \in Nat /\ WalkDirentSize > 0
    BY EntryTypes, WalkAssumption
  <2> QED BY <2>1
<1>2. Start(p, entries, 1) = m /\ m =< WalkBlockSize
  <2>1. 1 \in 1..(n + 1) /\ n + 1 \in 1..(n + 1) /\ 1 =< n + 1
    BY <1>1
  <2>2. /\ Start(p, entries, 1) = m /\ Start(p, entries, 1) =< Start(p, entries, n + 1)
        /\ Start(p, entries, n + 1) \in Nat
    BY <1>1, <2>1, StartFacts2
  <2> QED BY <1>1, <2>2, WalkAssumption
<1>3. Walk!FirstNameOff(b) = m
  <2>1. 1 \in 1..Len(entries)
    BY <1>1
  <2> QED BY <1>2, <2>1 DEF Encodes, Walk!FirstNameOff
<1>4. m \div s = n /\ m % s = 0
  BY <1>1, Divided
<1>5. s =< m
  <2>1. 1 * s =< n * s /\ 1 * s = s
    BY <1>1, Multiples
  <2> QED BY <1>1, <2>1
<1> QED BY <1>1, <1>2, <1>3, <1>4, <1>5, WalkAssumption DEF Walk!CountRefused, Walk!DirentCount

\* The byte at k of a stretch, counted from one.
LEMMA Depth ==
  ASSUME NEW off \in Nat, NEW len \in Nat, NEW k \in off..(off + len - 1)
  PROVE  k - off + 1 \in 1..len /\ off + (k - off + 1) - 1 = k
OBVIOUS

\* It finds the end of each name.
LEMMA EndsBack ==
  ASSUME NEW entries, Entries(entries), Len(entries) > 0, NEW p, NamesUpTo(p, entries),
         Start(p, entries, Len(entries) + 1) =< WalkBlockSize, NEW b, Encodes(b, p, entries),
         NEW i \in 1..Len(entries)
  PROVE  /\ b.ents[i].nameoff = Start(p, entries, i)
         /\ Walk!NameEnd(b, i) = Start(p, entries, i + 1)
<1>1. PICK n \in Nat : n = Len(entries) /\ n > 0 /\ i \in 1..n
  BY EntryTypes
<1>2. b.ents[i].nameoff = Start(p, entries, i)
  BY DEF Encodes
<1>3. Walk!DirentCount(b) = n
  BY <1>1, CountedBack
<1>4. CASE i < n
  <2>1. i + 1 \in 1..Len(entries)
    BY <1>1, <1>4
  <2>2. b.ents[i + 1].nameoff = Start(p, entries, i + 1)
    BY <2>1 DEF Encodes
  <2> QED BY <1>2, <1>3, <1>4, <2>2 DEF Walk!NameEnd
<1>5. CASE ~(i < n)
  <2>0. i = n
    BY <1>1, <1>5
  <2>1. PICK off \in Nat, len \in Nat, end \in Nat :
          /\ off = Start(p, entries, i) /\ len = Len(entries[i].name) /\ end = Start(p, entries, i + 1)
          /\ end = off + len /\ end =< WalkBlockSize
    <3>1. i \in 1..(n + 1) /\ i + 1 \in 1..(n + 1) /\ i + 1 = Len(entries) + 1
      BY <1>1, <2>0
    <3>2. Start(p, entries, i) \in Nat /\ Start(p, entries, i + 1) \in Nat
      BY <1>1, <3>1, StartFacts2
    <3>3. Start(p, entries, i + 1) = Start(p, entries, i) + Len(entries[i].name)
      BY StartFacts2
    <3>4. Len(entries[i].name) \in Nat
      BY EntryTypes
    <3> QED BY <3>1, <3>2, <3>3, <3>4
  <2> DEFINE Clear(e) == \A k \in off..(e - 1) : b.text[k] # Walk!Nul
             Stop(e) == e < WalkBlockSize => b.text[e] = Walk!Nul
  <2>2. ASSUME NEW k \in off..(end - 1) PROVE b.text[k] # Walk!Nul
    <3>1. PICK x \in 1..len : x = k - off + 1 /\ off + x - 1 = k
      <4>1. k \in off..(off + len - 1)
        BY <2>1
      <4>2. k - off + 1 \in 1..len /\ off + (k - off + 1) - 1 = k
        BY <4>1, Depth
      <4> QED BY <4>2
    <3>2. b.text[k] = entries[i].name[x]
      <4>1. i \in 1..Len(entries) /\ x \in 1..Len(entries[i].name)
        BY <1>1, <2>0, <2>1, <3>1
      <4>2. b.text[Start(p, entries, i) + x - 1] = entries[i].name[x]
        BY <4>1 DEF Encodes
      <4>3. Start(p, entries, i) + x - 1 = k
        BY <2>1, <3>1
      <4> QED BY <4>2, <4>3
    <3>3. x \in DOMAIN entries[i].name
      BY <2>1, <3>1, EntryTypes
    <3>4. IsEntry(entries[i])
      BY EntryTypes DEF Entries
    <3> QED BY <3>2, <3>3, <3>4 DEF IsEntry
  <2>3. Clear(end)
    BY <2>2
  <2>4. Stop(end)
    <3> SUFFICES ASSUME end < WalkBlockSize PROVE b.text[end] = Walk!Nul
      OBVIOUS
    <3>1. end \in end..(WalkBlockSize - 1)
      BY WalkAssumption
    <3> QED BY <1>1, <2>0, <2>1, <3>1 DEF Encodes
  <2>5. ASSUME NEW e \in off..WalkBlockSize, Clear(e), Stop(e) PROVE e = end
    <3>1. e \in Nat
      BY <2>1, WalkAssumption
    <3>2. ~(e < end)
      <4> SUFFICES ASSUME e < end PROVE FALSE
        OBVIOUS
      <4>1. e < WalkBlockSize /\ e \in off..(end - 1)
        BY <2>1, <3>1, WalkAssumption
      <4> QED BY <2>2, <2>5, <4>1
    <3>3. ~(end < e)
      <4> SUFFICES ASSUME end < e PROVE FALSE
        OBVIOUS
      <4>1. end < WalkBlockSize /\ end \in off..(e - 1)
        BY <2>1, <3>1, WalkAssumption
      <4> QED BY <2>4, <2>5, <4>1
    <3> QED BY <2>1, <3>1, <3>2, <3>3
  <2>6. end \in off..WalkBlockSize
    BY <2>1, WalkAssumption
  <2>7. Walk!NameEnd(b, i) = CHOOSE e \in off..WalkBlockSize : Clear(e) /\ Stop(e)
    BY <1>2, <1>3, <1>5, <2>1 DEF Walk!NameEnd
  <2> HIDE DEF Clear, Stop
  <2>8. Walk!NameEnd(b, i) = end
    BY <2>3, <2>4, <2>5, <2>6, <2>7
  <2> QED BY <1>2, <2>1, <2>8
<1> QED BY <1>4, <1>5

\* It reads back what was encoded, and refuses none of it.
LEMMA ReadsBack ==
  ASSUME NEW entries, Entries(entries), Len(entries) > 0, NEW p, NamesUpTo(p, entries),
         Start(p, entries, Len(entries) + 1) =< WalkBlockSize, NEW b, Encodes(b, p, entries),
         NEW i \in 1..Len(entries)
  PROVE  ~Walk!EntryRefused(b, i) /\ Walk!EntryAt(b, i) = entries[i]
<1>1. PICK n \in Nat : n = Len(entries) /\ n > 0 /\ i \in 1..n
  BY EntryTypes
<1>2. PICK off \in Nat, len \in Nat, end \in Nat :
        /\ off = Start(p, entries, i) /\ len = Len(entries[i].name) /\ end = Start(p, entries, i + 1)
        /\ end = off + len /\ end =< WalkBlockSize /\ off =< end /\ Start(p, entries, 1) =< off
  <2>1. 1 \in 1..(n + 1) /\ i \in 1..(n + 1) /\ i + 1 \in 1..(n + 1) /\ n + 1 \in 1..(n + 1) /\ i + 1 =< n + 1
        /\ 1 =< i
    BY <1>1
  <2>2. /\ Start(p, entries, 1) \in Nat /\ Start(p, entries, i) \in Nat /\ Start(p, entries, i + 1) \in Nat
        /\ Start(p, entries, n + 1) \in Nat
        /\ Start(p, entries, 1) =< Start(p, entries, i)
        /\ Start(p, entries, i + 1) =< Start(p, entries, n + 1)
    BY <1>1, <2>1, StartFacts2
  <2>3. Start(p, entries, i + 1) = Start(p, entries, i) + Len(entries[i].name)
    BY StartFacts2
  <2>4. Len(entries[i].name) \in Nat
    BY EntryTypes
  <2>5. Start(p, entries, i + 1) =< WalkBlockSize
    BY <1>1, <2>2, WalkAssumption
  <2> QED BY <2>2, <2>3, <2>4, <2>5
<1>3. b.ents[i].nameoff = off /\ Walk!NameEnd(b, i) = end
  BY <1>2, EndsBack
<1>4. PICK name : name = entries[i].name /\ name \in Seq(Nat)
  BY EntryTypes DEF Entries, IsEntry
<1>5. Walk!NameOf(b, i) = name
  <2>1. end - off = len
    BY <1>2
  <2>2. Walk!NameOf(b, i) = [k \in 1..len |-> b.text[off + k - 1]]
    BY <1>3, <2>1 DEF Walk!NameOf
  <2>3. \A k \in 1..len : b.text[off + k - 1] = name[k]
    BY <1>2, <1>4 DEF Encodes
  <2>4. name = [k \in 1..len |-> name[k]]
    BY <1>2, <1>4
  <2> QED BY <2>2, <2>3, <2>4
<1>6. IsEntry(entries[i])
  BY EntryTypes DEF Entries
<1>7. ~Walk!NameRefused(name)
  <2>1. DOMAIN name = 1..Len(name) /\ Len(name) > 0 /\ \A k \in DOMAIN name : name[k] \notin {Walk!Nul, Walk!Slash}
    BY <1>4, <1>6 DEF IsEntry
  <2>2. name # <<>>
    BY <2>1
  <2> QED BY <2>1, <2>2 DEF Walk!NameRefused, Walk!Contains
<1>8. ~Walk!OffsetsRefused(b, i)
  <2>1. Walk!FirstNameOff(b) = Start(p, entries, 1) /\ Walk!DirentCount(b) = n
    BY <1>1, CountedBack
  <2>2. off >= Walk!FirstNameOff(b) /\ off =< WalkBlockSize
    <3>0. 1 \in 1..(n + 1)
      BY <1>1
    <3>1. Start(p, entries, 1) \in Nat
      BY <1>1, <3>0, StartFacts2
    <3> QED BY <1>2, <2>1, <3>1, WalkAssumption
  <2>3. i < n => b.ents[i + 1].nameoff = end
    <3>1. i < n => i + 1 \in 1..Len(entries)
      BY <1>1
    <3> QED BY <1>2, <3>1, EndsBack
  <2>4. ~(b.ents[i].nameoff < Walk!FirstNameOff(b)) /\ ~(b.ents[i].nameoff > WalkBlockSize)
    <3>1. PICK first \in Nat : first = Walk!FirstNameOff(b)
      <4>1. 1 \in 1..(n + 1)
        BY <1>1
      <4>2. Start(p, entries, 1) \in Nat
        BY <1>1, <4>1, StartFacts2
      <4> QED BY <2>1, <4>2
    <3> QED BY <1>3, <2>2, <3>1, WalkAssumption
  <2>5. i < n => /\ ~(b.ents[i + 1].nameoff < b.ents[i].nameoff)
                 /\ ~(b.ents[i + 1].nameoff > WalkBlockSize)
    <3>1. ~(end < off) /\ ~(end > WalkBlockSize)
      BY <1>2, WalkAssumption
    <3> QED BY <1>3, <2>3, <3>1
  <2> QED BY <2>1, <2>4, <2>5 DEF Walk!OffsetsRefused
<1>9. b.ents[i].nid = entries[i].nid /\ b.ents[i].ft = entries[i].ft
  BY DEF Encodes
<1>10. Walk!EntryAt(b, i) = entries[i]
  BY <1>4, <1>5, <1>6, <1>9 DEF Walk!EntryAt, IsEntry
<1> QED BY <1>5, <1>7, <1>8, <1>10 DEF Walk!EntryRefused

-----------------------------------------------------------------------------
(***************************************************************************)
(* How a directory's entries are cut into its blocks.                      *)
(***************************************************************************)
\* What entries take of a block, the directory's own size of block.
LEMMA WalkBytes ==
  ASSUME NEW entries, Named(entries), NEW from \in Nat \ {0}, NEW to \in Nat,
         from - 1 =< to, to =< Len(entries)
  PROVE  /\ Walk!EntryBytes(entries, from, to) \in Nat
         /\ to = from - 1 => Walk!EntryBytes(entries, from, to) = 0
         /\ Walk!EntryBytes(entries, from, to)
              = (to - from + 1) * WalkDirentSize + NameBytes(entries, from, to)
<1>1. PICK s \in Nat : s = WalkDirentSize
  BY WalkAssumption
<1>2. PICK c \in Nat, b \in Nat :
        /\ c = to - from + 1 /\ b = NameBytes(entries, from, to)
        /\ to = from - 1 => c = 0 /\ b = 0
  <2>1. to - from + 1 \in Nat /\ (to = from - 1 => to - from + 1 = 0)
    OBVIOUS
  <2>2. NameBytes(entries, from, to) \in Nat /\ (to = from - 1 => NameBytes(entries, from, to) = 0)
    BY NamesFacts
  <2> QED BY <2>1, <2>2
<1>3. Walk!EntryBytes(entries, from, to) = c * s + b
  BY <1>1, <1>2, SameNames DEF Walk!EntryBytes
<1>4. c * s \in Nat /\ (c = 0 => c * s = 0)
  OBVIOUS
<1> QED BY <1>1, <1>2, <1>3, <1>4

\* A block takes at least the entry it begins with, and no more than it can hold.
LEMMA CutFacts ==
  ASSUME NEW entries, Named(entries), Walk!Packable(entries), NEW from \in DOMAIN entries
  PROVE  /\ Walk!BlockEnd(entries, from) \in from..Len(entries)
         /\ Walk!EntryBytes(entries, from, Walk!BlockEnd(entries, from)) =< WalkBlockSize
<1> DEFINE Full(to) == to < Len(entries) => Walk!EntryBytes(entries, from, to + 1) > WalkBlockSize
           Fits(to) == Walk!EntryBytes(entries, from, to) =< WalkBlockSize
           T == {to \in Nat : to \in (from - 1)..Len(entries) /\ Full(to)}
<1>0. /\ Len(entries) \in Nat /\ from \in Nat \ {0} /\ from =< Len(entries)
      /\ WalkBlockSize \in Nat
  BY SeqFacts, WalkAssumption DEF Named
<1>1. Len(entries) \in T
  BY <1>0
<1>2. PICK to \in T : \A y \in T : ~(y < to)
  <2> HIDE DEF T
  <2>1. T \in SUBSET Nat
    BY DEF T
  <2> QED BY <1>1, <2>1, NatMin
<1>9. to \in Nat /\ from - 1 =< to /\ to =< Len(entries)
  BY <1>0, <1>2
<1>10. /\ Walk!EntryBytes(entries, from, to) \in Nat
       /\ to = from - 1 => Walk!EntryBytes(entries, from, to) = 0
  <2> HIDE DEF T
  <2> QED BY <1>0, <1>9, WalkBytes
<1>11. Walk!EntryBytes(entries, from, from) \in Nat
  <2> HIDE DEF T
  <2>1. from - 1 =< from /\ from =< Len(entries)
    BY <1>0
  <2> QED BY <1>0, <2>1, WalkBytes
<1>3. Fits(to)
  <2>1. CASE to = from - 1
    BY <1>0, <1>10, <2>1
  <2>2. CASE to # from - 1
    <3> DEFINE less == to - 1
    <3>1. less \in Nat /\ less \in (from - 1)..Len(entries) /\ less < Len(entries)
          /\ less < to /\ less + 1 = to /\ to \in Nat
      BY <1>0, <1>2, <2>2
    <3> HIDE DEF less
    <3>2. ~Full(less)
      <4> HIDE DEF Full
      <4> QED BY <1>2, <3>1
    <3>3. ~(Walk!EntryBytes(entries, from, to) > WalkBlockSize)
      BY <3>1, <3>2
    <3> QED BY <1>0, <1>10, <3>3
  <2> QED BY <2>1, <2>2
<1>4. \E e \in (from - 1)..Len(entries) : Fits(e) /\ Full(e)
  <2> HIDE DEF Fits, Full
  <2> QED BY <1>2, <1>3
<1> DEFINE end == Walk!BlockEnd(entries, from)
<1>5. end \in (from - 1)..Len(entries) /\ Fits(end) /\ Full(end)
  BY <1>4 DEF Walk!BlockEnd
<1>6. end # from - 1
  <2> SUFFICES ASSUME end = from - 1 PROVE FALSE
    OBVIOUS
  <2> HIDE DEF end
  <2>1. end + 1 = from /\ end < Len(entries)
    BY <1>0
  <2>2. Walk!EntryBytes(entries, from, from) > WalkBlockSize
    BY <1>5, <2>1
  <2>3. Walk!EntryBytes(entries, from, from) =< WalkBlockSize
    BY DEF Walk!Packable
  <2> QED BY <1>0, <1>11, <2>2, <2>3
<1> HIDE DEF end
<1>7. end \in from..Len(entries)
  BY <1>0, <1>5, <1>6
<1> QED BY <1>5, <1>7 DEF end

\* The blocks of the entries from one on, and where the last entry of each lies.
Cut(p, c, entries, from) ==
  /\ IsSeq(p) /\ c[0] = from - 1 /\ c[Len(p)] = Len(entries)
  /\ \A k \in 0..Len(p) : c[k] \in Nat /\ c[k] =< Len(entries)
  /\ \A k \in 1..Len(p) :
       /\ c[k - 1] < c[k]
       /\ p[k] = SubSeq(entries, c[k - 1] + 1, c[k])
       /\ Walk!EntryBytes(entries, c[k - 1] + 1, c[k]) =< WalkBlockSize

\* One block in front of those.
LEMMA CutMore ==
  ASSUME NEW entries, Named(entries), NEW from \in DOMAIN entries, NEW to \in from..Len(entries),
         Walk!EntryBytes(entries, from, to) =< WalkBlockSize,
         NEW p, NEW c, Cut(p, c, entries, to + 1)
  PROVE  \E e : Cut(<<SubSeq(entries, from, to)>> \o p, e, entries, from)
<1> DEFINE b == <<SubSeq(entries, from, to)>>
           u == b \o p
<1>1. PICK n \in Nat, l \in Nat : n = Len(p) /\ l = Len(entries)
  BY SeqFacts DEF Named, Cut
<1>2. from \in Nat \ {0} /\ to \in Nat /\ from =< to /\ to =< l /\ (to + 1) - 1 = to
      /\ from - 1 \in Nat /\ (from - 1) + 1 = from /\ from - 1 < to
  BY <1>1, SeqFacts DEF Named
<1>3. b \in Seq({b[1]}) /\ Len(b) = 1 /\ b[1] = SubSeq(entries, from, to) /\ DOMAIN b = 1..1
  OBVIOUS
<1>4. IsSeq(b)
  <2> HIDE DEF b
  <2> QED BY <1>3, OwnSeq
<1>5. /\ IsSeq(u) /\ Len(u) = 1 + n
      /\ \A k \in 1..(1 + n) : \/ k = 1 /\ u[k] = b[1]
                               \/ k > 1 /\ k - 1 \in 1..n /\ u[k] = p[k - 1]
  <2>1. IsSeq(p) /\ DOMAIN p = 1..n
    BY <1>1, SeqFacts DEF Cut
  <2> HIDE DEF b
  <2>2. /\ IsSeq(u) /\ Len(u) = Len(b) + Len(p)
        /\ \A k \in 1..(Len(b) + Len(p)) :
             \/ k \in DOMAIN b /\ u[k] = b[k]
             \/ k > Len(b) /\ k - Len(b) \in DOMAIN p /\ u[k] = p[k - Len(b)]
    BY <1>4, <2>1, JoinFacts
  <2> HIDE DEF u
  <2>3. \A k \in 1..(1 + n) : \/ k \in 1..1 /\ u[k] = b[k]
                              \/ k > 1 /\ k - 1 \in 1..n /\ u[k] = p[k - 1]
    BY <1>1, <1>3, <2>1, <2>2
  <2>4. \A k \in 1..1 : k = 1
    OBVIOUS
  <2> QED BY <1>1, <1>3, <2>2, <2>3, <2>4
<1> DEFINE e == [k \in 0..(n + 1) |-> IF k = 0 THEN from - 1 ELSE c[k - 1]]
<1>6. e[0] = from - 1 /\ \A k \in 1..(n + 1) : e[k] = c[k - 1]
  <2>1. \A k \in 1..(n + 1) : k \in 0..(n + 1) /\ k # 0
    OBVIOUS
  <2> QED BY <2>1
<1> HIDE DEF e, b, u
<1>7. /\ c[0] = to /\ c[n] = l
      /\ \A k \in 0..n : c[k] \in Nat /\ c[k] =< l
      /\ \A k \in 1..n : /\ c[k - 1] < c[k]
                         /\ p[k] = SubSeq(entries, c[k - 1] + 1, c[k])
                         /\ Walk!EntryBytes(entries, c[k - 1] + 1, c[k]) =< WalkBlockSize
  BY <1>1, <1>2 DEF Cut
<1>8. ASSUME NEW k \in 0..(n + 1) PROVE e[k] \in Nat /\ e[k] =< l
  <2>1. CASE k = 0
    BY <1>1, <1>2, <1>6, <2>1
  <2>2. CASE k # 0
    <3>1. k \in 1..(n + 1) /\ k - 1 \in 0..n
      BY <2>2
    <3> QED BY <1>6, <1>7, <3>1
  <2> QED BY <2>1, <2>2
<1>9. ASSUME NEW k \in 1..(n + 1)
      PROVE  /\ e[k - 1] < e[k]
             /\ u[k] = SubSeq(entries, e[k - 1] + 1, e[k])
             /\ Walk!EntryBytes(entries, e[k - 1] + 1, e[k]) =< WalkBlockSize
  <2>1. CASE k = 1
    <3>1. 1 \in 1..(n + 1) /\ 1 \in 1..(1 + n) /\ 1 - 1 = 0
      OBVIOUS
    <3>2. e[1] = to /\ e[0] = from - 1 /\ u[1] = b[1]
      BY <1>5, <1>6, <1>7, <3>1
    <3> QED BY <1>2, <1>3, <2>1, <3>1, <3>2
  <2>2. CASE k # 1
    <3>1. PICK j \in 1..n : j = k - 1 /\ k \in 1..(1 + n) /\ j \in 1..(n + 1)
      <4>1. k - 1 \in 1..n /\ k \in 1..(1 + n) /\ k - 1 \in 1..(n + 1)
        BY <2>2
      <4> QED BY <4>1
    <3>2. e[k] = c[j] /\ e[j] = c[j - 1] /\ u[k] = p[j]
      BY <1>5, <1>6, <2>2, <3>1
    <3> QED BY <1>7, <3>1, <3>2
  <2> QED BY <2>1, <2>2
<1>10. e[n + 1] = l
  <2>1. n + 1 \in 1..(n + 1) /\ (n + 1) - 1 = n
    OBVIOUS
  <2> QED BY <1>6, <1>7, <2>1
<1>11. Len(u) = n + 1
  BY <1>5
<1>12. Cut(u, e, entries, from)
  BY <1>1, <1>5, <1>6, <1>8, <1>9, <1>10, <1>11 DEF Cut
<1> QED BY <1>12 DEF u, b

\* The blocks from an entry on, from those further back, g.
CutBack(g, entries, from) ==
  IF from > Len(entries) THEN <<>>
  ELSE LET to == Walk!BlockEnd(entries, from) IN <<SubSeq(entries, from, to)>> \o g[to + 1]

LEMMA CutBackExists ==
  ASSUME NEW entries, Named(entries), Walk!Packable(entries)
  PROVE  \E g : g = [from \in 1..(Len(entries) + 1) |-> CutBack(g, entries, from)]
<1> DEFINE l == Len(entries)
           R(m) == (l + 1 - m)..(l + 1)
           To(m) == \E g : g = [from \in R(m) |-> CutBack(g, entries, from)]
           S == {m \in Nat : m =< l => To(m)}
<1>0. l \in Nat /\ DOMAIN entries = 1..l
  BY SeqFacts DEF Named
<1>1. 0 \in S
  <2> DEFINE g == [from \in R(0) |-> <<>>]
  <2>1. \A from \in R(0) : from = l + 1 /\ from > Len(entries)
    BY <1>0
  <2>2. g = [from \in R(0) |-> CutBack(g, entries, from)]
    BY <2>1 DEF CutBack
  <2> HIDE DEF g, R
  <2> QED BY <2>2
<1>2. ASSUME NEW m \in S PROVE m + 1 \in S
  <2>0. m \in Nat /\ m + 1 \in Nat
    OBVIOUS
  <2> SUFFICES ASSUME m + 1 =< l PROVE To(m + 1)
    BY <2>0
  <2>1. PICK g : g = [from \in R(m) |-> CutBack(g, entries, from)]
    BY <1>0, <2>0
  <2> DEFINE h == [from \in R(m + 1) |-> CutBack(g, entries, from)]
  <2>2. ASSUME NEW from \in R(m + 1), ~(from > l)
        PROVE  Walk!BlockEnd(entries, from) + 1 \in R(m)
    <3>1. from \in DOMAIN entries
      BY <1>0, <2>0, <2>2
    <3>2. Walk!BlockEnd(entries, from) \in from..l
      BY <3>1, CutFacts
    <3> HIDE DEF l
    <3> QED BY <1>0, <2>0, <2>2, <3>2
  <2>3. \A from \in R(m) : h[from] = g[from]
    <3>1. \A from \in R(m) : from \in R(m + 1)
      BY <1>0, <2>0
    <3> HIDE DEF R
    <3> QED BY <2>1, <3>1
  <2>4. ASSUME NEW from \in R(m + 1)
        PROVE  h[from] = CutBack(h, entries, from)
    <3>1. CASE from > l
      BY <3>1 DEF CutBack
    <3>2. CASE ~(from > l)
      <4> DEFINE to == Walk!BlockEnd(entries, from) + 1
      <4>1. h[to] = g[to]
        BY <2>2, <2>3, <3>2
      <4>2. h[from] = CutBack(g, entries, from)
        OBVIOUS
      <4> HIDE DEF R, h
      <4> QED BY <4>1, <4>2 DEF CutBack
    <3> QED BY <3>1, <3>2
  <2>5. h = [from \in R(m + 1) |-> CutBack(h, entries, from)]
    <3>1. \A from \in R(m + 1) : h[from] = CutBack(h, entries, from)
      BY <2>4
    <3> HIDE DEF R
    <3> QED BY <3>1
  <2> HIDE DEF h, R
  <2> QED BY <2>5
<1>3. S = Nat
  <2> HIDE DEF S
  <2>1. S \in SUBSET Nat
    BY DEF S
  <2> QED BY <1>1, <1>2, <2>1, NatInd
<1>4. To(l)
  BY <1>0, <1>3
<1>5. R(l) = 1..(Len(entries) + 1)
  BY <1>0
<1> HIDE DEF R
<1> QED BY <1>4, <1>5

\* A packing cuts the entries into blocks that hold them.
LEMMA PackingCuts ==
  ASSUME NEW entries, Named(entries), Walk!Packable(entries)
  PROVE  \E c : Cut(Walk!Packing(entries), c, entries, 1)
<1> DEFINE l == Len(entries)
           q == CHOOSE q : q = [from \in 1..(Len(entries) + 1) |-> CutBack(q, entries, from)]
           R(m) == (l + 1 - m)..(l + 1)
           Right(m) == \A from \in R(m) : \E c : Cut(q[from], c, entries, from)
           S == {m \in Nat : m =< l => Right(m)}
<1>0. l \in Nat /\ DOMAIN entries = 1..l
  BY SeqFacts DEF Named
<1>1. Walk!Packing(entries) = q[1]
  BY DEF Walk!Packing, CutBack
<1>2. q = [from \in 1..(Len(entries) + 1) |-> CutBack(q, entries, from)]
  BY CutBackExists
<1> HIDE DEF q
<1>3. \A from \in 1..(l + 1) : q[from] = CutBack(q, entries, from)
  BY <1>2
<1>4. \E c : Cut(<<>>, c, entries, l + 1)
  <2> DEFINE c == [k \in 0..0 |-> l]
  <2>1. c[0] = l /\ l = (l + 1) - 1 /\ Len(<<>>) = 0
    BY <1>0
  <2>2. \A k \in 0..0 : c[k] \in Nat /\ c[k] =< l
    BY <1>0
  <2> HIDE DEF c
  <2>3. IsSeq(<<>>)
    BY DEF IsSeq
  <2>4. 1..0 = {}
    OBVIOUS
  <2>5. Cut(<<>>, c, entries, l + 1)
    BY <2>1, <2>2, <2>3, <2>4 DEF Cut
  <2> QED BY <2>5
<1>5. 0 \in S
  <2>1. \A from \in R(0) : from \in 1..(l + 1) /\ from > Len(entries) /\ from = l + 1
    BY <1>0
  <2>2. \A from \in R(0) : q[from] = <<>>
    BY <1>3, <2>1 DEF CutBack
  <2> HIDE DEF R
  <2> QED BY <1>4, <2>1, <2>2
<1>6. ASSUME NEW m \in S PROVE m + 1 \in S
  <2>0. m \in Nat /\ m + 1 \in Nat
    OBVIOUS
  <2> SUFFICES ASSUME m + 1 =< l PROVE Right(m + 1)
    BY <2>0
  <2>1. \A from \in R(m) : \E c : Cut(q[from], c, entries, from)
    BY <1>0, <2>0
  <2> SUFFICES ASSUME NEW from \in R(m + 1) PROVE \E c : Cut(q[from], c, entries, from)
    OBVIOUS
  <2>2. CASE from \in R(m)
    BY <2>1, <2>2
  <2>3. CASE ~(from \in R(m))
    <3>1. from \in DOMAIN entries /\ ~(from > l) /\ from \in 1..(l + 1)
      BY <1>0, <2>0, <2>3
    <3>2. PICK to : to = Walk!BlockEnd(entries, from) /\ to \in from..l
                    /\ Walk!EntryBytes(entries, from, to) =< WalkBlockSize
      BY <3>1, CutFacts
    <3>3. to + 1 \in R(m)
      <4> HIDE DEF l
      <4> QED BY <1>0, <2>0, <3>2
    <3>4. q[from] = <<SubSeq(entries, from, to)>> \o q[to + 1]
      <4> HIDE DEF R
      <4> QED BY <1>3, <3>1, <3>2 DEF CutBack
    <3>5. PICK c : Cut(q[to + 1], c, entries, to + 1)
      BY <2>1, <3>3
    <3> HIDE DEF R
    <3>6. to \in from..Len(entries)
      BY <3>2
    <3> HIDE DEF l
    <3> QED BY <3>1, <3>2, <3>4, <3>5, <3>6, CutMore
  <2> QED BY <2>2, <2>3
<1>7. S = Nat
  <2> HIDE DEF S
  <2>1. S \in SUBSET Nat
    BY DEF S
  <2> QED BY <1>5, <1>6, <2>1, NatInd
<1>8. Right(l) /\ 1 \in R(l)
  BY <1>0, <1>7
<1> HIDE DEF R
<1> QED BY <1>1, <1>8

\* Ranges that are one end where the other does.
LEMMA SameEnd ==
  ASSUME NEW a \in Nat, NEW b \in Nat, 1..a = 1..b
  PROVE  a = b
<1>1. ~(a < b)
  <2> SUFFICES ASSUME a < b PROVE FALSE
    OBVIOUS
  <2>1. b \in 1..b /\ b \notin 1..a
    OBVIOUS
  <2> QED BY <2>1
<1>2. ~(b < a)
  <2> SUFFICES ASSUME b < a PROVE FALSE
    OBVIOUS
  <2>1. a \in 1..a /\ a \notin 1..b
    OBVIOUS
  <2> QED BY <2>1
<1> QED BY <1>1, <1>2

\* Entries that fit one block, and what they take of it.
Piece(entries, from, to) ==
  /\ from \in Nat \ {0} /\ to \in Nat /\ from =< to /\ to =< Len(entries)
  /\ Walk!EntryBytes(entries, from, to) =< WalkBlockSize
Slice(entries, from, to) == SubSeq(entries, from, to)
Width(from, to) == to - from + 1

LEMMA PieceFacts ==
  ASSUME NEW entries, Entries(entries), NEW from, NEW to, Piece(entries, from, to),
         NEW sub, sub = Slice(entries, from, to)
  PROVE  /\ Entries(sub) /\ Len(sub) = Width(from, to) /\ Len(sub) > 0
         /\ \A i \in 1..Len(sub) : sub[i] = entries[from + i - 1]
         /\ \E p : NamesUpTo(p, sub) /\ Start(p, sub, Len(sub) + 1) =< WalkBlockSize
<1> SUFFICES ASSUME from \in Nat \ {0}, to \in Nat, from =< to, to =< Len(entries),
                    Walk!EntryBytes(entries, from, to) =< WalkBlockSize
             PROVE  /\ Entries(sub) /\ Len(sub) = to - from + 1 /\ Len(sub) > 0
                    /\ \A i \in 1..Len(sub) : sub[i] = entries[from + i - 1]
                    /\ \E p : NamesUpTo(p, sub) /\ Start(p, sub, Len(sub) + 1) =< WalkBlockSize
  BY DEF Piece, Width
<1>1. PICK l \in Nat : l = Len(entries) /\ DOMAIN entries = 1..l
  BY EntryTypes
<1>2. PICK n \in Nat : n = to - from + 1 /\ n > 0
  BY <1>1
<1>3. from - 1 =< to /\ to =< l /\ from + n - 1 =< l
      /\ from + n - 1 = to /\ from \in 1..l /\ to \in 1..l
  BY <1>1, <1>2
<1>4. \A k \in 1..n : from + k - 1 \in 1..l
  BY <1>3
<1>5. sub = [k \in 1..n |-> entries[from + k - 1]]
  <2>1. PICK W : entries \in Seq(W)
    BY DEF Entries, IsSeq
  <2>2. SubSeq(entries, from, to) = [k \in 1..(to - from + 1) |-> entries[from + k - 1]]
    BY <1>1, <1>3, <2>1
  <2> QED BY <1>2, <2>2 DEF Slice
<1>6. DOMAIN sub = 1..n /\ sub = [k \in 1..n |-> sub[k]]
      /\ \A k \in 1..n : sub[k] = entries[from + k - 1]
  BY <1>5
<1>7. IsSeq(sub) /\ Len(sub) = n
  <2>1. PICK W : entries \in Seq(W)
    BY DEF Entries, IsSeq
  <2>2. SubSeq(entries, from, to) \in Seq(W)
    BY <1>1, <1>3, <2>1
  <2>3. IsSeq(sub)
    BY <2>2, OwnSeq DEF Slice
  <2>4. Len(sub) \in Nat /\ DOMAIN sub = 1..Len(sub)
    BY <2>3, SeqFacts
  <2>5. 1..Len(sub) = 1..n
    BY <1>6, <2>4
  <2>6. Len(sub) = n
    BY <2>4, <2>5, SameEnd
  <2> QED BY <2>3, <2>6
<1>8. Entries(sub)
  <2>2. \A k \in 1..n : IsEntry(sub[k])
    BY <1>1, <1>4, <1>6 DEF Entries
  <2> QED BY <1>6, <1>7, <2>2 DEF Entries
<1>9. PICK p : Totals(p, Lengths(sub, 1, n), n, 0)
  BY RunsExist
<1>10. PICK g : Totals(g, Lengths(entries, from, n), n, 0)
  BY RunsExist
<1>11. p[n] = g[n]
  <2>1. \A k \in 1..n : Lengths(sub, 1, n)[k] = Lengths(entries, from, n)[k]
    <3> TAKE k \in 1..n
    <3>1. 1 + k - 1 = k
      OBVIOUS
    <3>2. sub[k] = entries[from + k - 1]
      BY <1>6
    <3>3. Lengths(sub, 1, n)[k] = Len(sub[1 + k - 1].name)
      BY DEF Lengths
    <3>4. Lengths(entries, from, n)[k] = Len(entries[from + k - 1].name)
      BY DEF Lengths
    <3> QED BY <3>1, <3>2, <3>3, <3>4
  <2>2. n \in 0..n
    OBVIOUS
  <2> QED BY <1>9, <1>10, <2>1, <2>2, SameTotals
<1>12. NameBytes(entries, from, to) = g[n]
  <2>1. n \in 0..n /\ Named(entries) /\ from + n - 1 =< Len(entries)
    BY <1>1, <1>3, EntryTypes
  <2>2. NameBytes(entries, from, from + n - 1) = g[n]
    <3>1. PICK m \in 0..n : m = n
      BY <2>1
    <3>2. NameBytes(entries, from, from + m - 1) = g[m]
      BY <1>10, <2>1, NamesRun
    <3> QED BY <3>1, <3>2
  <2> QED BY <1>3, <2>2
<1>13. Walk!EntryBytes(entries, from, to) = n * WalkDirentSize + g[n]
  <2>1. Named(entries) /\ to =< Len(entries)
    BY <1>1, <1>3, EntryTypes
  <2>2. Walk!EntryBytes(entries, from, to)
          = (to - from + 1) * WalkDirentSize + NameBytes(entries, from, to)
    BY <1>3, <2>1, WalkBytes
  <2> QED BY <1>2, <1>12, <2>2
<1>14. Start(p, sub, Len(sub) + 1) = n * WalkDirentSize + p[n]
  <2>1. (n + 1) - 1 = n
    OBVIOUS
  <2> QED BY <1>7, <2>1 DEF Start
<1>15. NamesUpTo(p, sub) /\ Start(p, sub, Len(sub) + 1) =< WalkBlockSize
  BY <1>7, <1>9, <1>11, <1>13, <1>14 DEF NamesUpTo
<1> QED BY <1>2, <1>6, <1>7, <1>8, <1>15

\* A block that lies wholly in the directory is held as it was encoded.
LEMMA HeldWhole ==
  ASSUME NEW d, d.size = Len(d.blocks) * WalkBlockSize, IsSeq(d.blocks), NEW k \in Nat, k < Len(d.blocks),
         NEW sub, Entries(sub), Len(sub) > 0, d.blocks[k + 1] = Walk!EncodeBlock(sub),
         NEW p, NamesUpTo(p, sub), Start(p, sub, Len(sub) + 1) =< WalkBlockSize
  PROVE  Encodes(Walk!Buffer(d, k), p, sub)
<1> DEFINE raw == Walk!EncodeBlock(sub)
           len == Walk!Smaller(d.size - k * WalkBlockSize, WalkBlockSize)
           b == Walk!Buffer(d, k)
<1>1. /\ b.ents = [i \in DOMAIN raw.ents |->
                     IF i * WalkDirentSize =< len THEN raw.ents[i]
                     ELSE [nid |-> 0, nameoff |-> 0, ft |-> "unknown"]]
      /\ b.text = [off \in 0..(WalkBlockSize - 1) |-> IF off < len THEN raw.text[off] ELSE Walk!Nul]
  BY DEF Walk!Buffer
<1>2. len = WalkBlockSize
  <2>1. PICK n \in Nat, s \in Nat : n = Len(d.blocks) /\ s = WalkBlockSize
    BY SeqFacts, WalkAssumption
  <2>2. (k + 1) * s =< n * s /\ (k + 1) * s = k * s + 1 * s /\ 1 * s = s
    <3>1. k + 1 =< n /\ k + 1 \in Nat
      BY <2>1
    <3> QED BY <2>1, <3>1, Multiples
  <2>3. PICK x \in Nat, y \in Nat : x = n * s /\ y = k * s
    BY <2>1
  <2>4. y + s =< x
    BY <2>2, <2>3
  <2>5. x - y >= s
    BY <2>1, <2>3, <2>4
  <2>6. d.size - k * WalkBlockSize = x - y
    BY <2>1, <2>3
  <2>7. len = IF x - y < s THEN x - y ELSE s
    BY <2>1, <2>6 DEF Walk!Smaller
  <2>8. ~(x - y < s)
    BY <2>5
  <2> HIDE DEF len
  <2> QED BY <2>1, <2>7, <2>8
<1>3. /\ raw.ents = [i \in 1..Len(sub) |->
                       [nid |-> sub[i].nid, nameoff |-> Start(p, sub, i), ft |-> sub[i].ft]]
      /\ raw.text = [off \in 0..(WalkBlockSize - 1) |-> raw.text[off]]
      /\ \A i \in 1..Len(sub) : \A x \in 1..Len(sub[i].name) :
           raw.text[Start(p, sub, i) + x - 1] = sub[i].name[x]
      /\ \A off \in Start(p, sub, Len(sub) + 1)..(WalkBlockSize - 1) : raw.text[off] = Walk!Nul
  BY EncodedFacts
<1> HIDE DEF raw, len, b
<1>4. b.text = raw.text
  <2>1. \A off \in 0..(WalkBlockSize - 1) : off < len
    BY <1>2, WalkAssumption
  <2>2. b.text = [off \in 0..(WalkBlockSize - 1) |-> raw.text[off]]
    BY <1>1, <2>1
  <2> QED BY <1>3, <2>2
<1>5. PICK n \in Nat : n = Len(sub)
  BY EntryTypes
<1>6. ASSUME NEW i \in 1..n PROVE i * WalkDirentSize =< len
  <2>1. PICK s \in Nat : s = WalkDirentSize
    BY WalkAssumption
  <2>2. i * s =< n * s
    BY <2>1, Multiples
  <2>3. n + 1 \in 1..(n + 1)
    OBVIOUS
  <2>4. Start(p, sub, n + 1) \in Nat /\ Start(p, sub, n + 1) >= n * s
    BY <1>5, <2>1, <2>3, StartFacts2
  <2>6. i * s \in Nat /\ n * s \in Nat
    OBVIOUS
  <2>5. PICK x \in Nat, y \in Nat, z \in Nat : x = i * s /\ y = n * s /\ z = Start(p, sub, n + 1)
    BY <2>4, <2>6
  <2> QED BY <1>2, <1>5, <2>1, <2>2, <2>4, <2>5, WalkAssumption
<1>7. b.ents = raw.ents
  <2>1. DOMAIN raw.ents = 1..n /\ raw.ents = [i \in 1..n |-> raw.ents[i]]
    BY <1>3, <1>5
  <2>2. b.ents = [i \in 1..n |-> raw.ents[i]]
    BY <1>1, <1>6, <2>1
  <2> QED BY <2>1, <2>2
<1>8. Encodes(b, p, sub)
  BY <1>3, <1>4, <1>7 DEF Encodes
<1> QED BY <1>8 DEF b

\* And lists what was encoded.
LEMMA PieceHeard ==
  ASSUME NEW d, d.size = Len(d.blocks) * WalkBlockSize, IsSeq(d.blocks), NEW k \in Nat, k < Len(d.blocks),
         NEW entries, Entries(entries), NEW from, NEW to, Piece(entries, from, to),
         d.blocks[k + 1] = Walk!EncodeBlock(Slice(entries, from, to))
  PROVE  GoodBlock(d, k) /\ Whole(d, k) = Slice(entries, from, to)
<1>1. PICK sub : sub = Slice(entries, from, to)
  OBVIOUS
<1>2. PICK p : /\ Entries(sub) /\ Len(sub) > 0 /\ NamesUpTo(p, sub)
               /\ Start(p, sub, Len(sub) + 1) =< WalkBlockSize
  BY <1>1, PieceFacts
<1>3. PICK b : b = Walk!Buffer(d, k) /\ Encodes(b, p, sub)
  BY <1>1, <1>2, HeldWhole
<1>4. ~Walk!CountRefused(b) /\ Walk!DirentCount(b) = Len(sub)
  BY <1>2, <1>3, CountedBack
<1>5. \A i \in 1..Len(sub) : ~Walk!EntryRefused(b, i) /\ Walk!EntryAt(b, i) = sub[i]
  BY <1>2, <1>3, ReadsBack
<1>6. GoodBlock(d, k)
  BY <1>3, <1>4, <1>5 DEF GoodBlock
<1>7. Whole(d, k) = [i \in 1..Len(sub) |-> sub[i]]
  BY <1>3, <1>4, <1>5 DEF Whole, Part
<1>8. sub = [i \in 1..Len(sub) |-> sub[i]]
  BY <1>2, LenProperties DEF Entries, IsSeq
<1> QED BY <1>1, <1>6, <1>7, <1>8

\* All of the blocks list all of the entries.
LEMMA AllHeard ==
  ASSUME NEW d, Walk!IsDir(d), d.isDir, d.size = Len(d.blocks) * WalkBlockSize,
         NEW entries, Entries(entries), Walk!Packable(entries),
         d.blocks = [k \in DOMAIN Walk!Packing(entries) |-> Walk!EncodeBlock(Walk!Packing(entries)[k])]
  PROVE  Walk!Sound(d) /\ Walk!Listing(d) = entries
<1>1. PICK f : f = Walk!Packing(entries)
  OBVIOUS
<1>2. Named(entries)
  BY EntryTypes
<1>3. PICK c : Cut(f, c, entries, 1)
  BY <1>1, <1>2, PackingCuts
<1>4. PICK n \in Nat, l \in Nat :
        /\ n = Len(f) /\ DOMAIN f = 1..n /\ n = Len(d.blocks) /\ IsSeq(d.blocks)
        /\ l = Len(entries) /\ DOMAIN entries = 1..l
  <2>1. Len(f) \in Nat /\ DOMAIN f = 1..Len(f)
    BY <1>3, SeqFacts DEF Cut
  <2>2. IsSeq(d.blocks)
    BY DirFacts
  <2>3. Len(d.blocks) \in Nat /\ DOMAIN d.blocks = 1..Len(d.blocks)
    BY <2>2, SeqFacts
  <2>4. DOMAIN d.blocks = 1..Len(f)
    BY <1>1, <2>1
  <2>5. Len(d.blocks) = Len(f)
    <3>1. PICK a \in Nat, b \in Nat : a = Len(f) /\ b = Len(d.blocks) /\ 1..a = 1..b
      BY <2>1, <2>3, <2>4
    <3>2. a = b
      BY <3>1, SameEnd
    <3> QED BY <3>1, <3>2
  <2>6. Len(entries) \in Nat /\ DOMAIN entries = 1..Len(entries)
    BY EntryTypes
  <2> QED BY <2>1, <2>2, <2>3, <2>5, <2>6
<1>5. /\ c[0] = 0 /\ c[n] = l
      /\ \A k \in 0..n : c[k] \in Nat /\ c[k] =< l
      /\ \A k \in 1..n : /\ c[k - 1] < c[k] /\ f[k] = SubSeq(entries, c[k - 1] + 1, c[k])
                         /\ Walk!EntryBytes(entries, c[k - 1] + 1, c[k]) =< WalkBlockSize
  <2>1. 1 - 1 = 0
    OBVIOUS
  <2> QED BY <1>3, <1>4, <2>1 DEF Cut
<1>6. ASSUME NEW k \in 0..(n - 1)
      PROVE  /\ GoodBlock(d, k) /\ Whole(d, k) = Slice(entries, c[k] + 1, c[k + 1])
             /\ Piece(entries, c[k] + 1, c[k + 1])
  <2>1. k \in Nat /\ k < Len(d.blocks) /\ k + 1 \in 1..n /\ (k + 1) - 1 = k /\ k \in 0..n /\ k + 1 \in 0..n
    BY <1>4
  <2>2. PICK x \in Nat, y \in Nat : x = c[k] /\ y = c[k + 1] /\ x < y /\ y =< l
    BY <1>5, <2>1
  <2>3. PICK from \in Nat \ {0} : from = x + 1 /\ from =< y
    <3>1. x + 1 \in Nat \ {0} /\ x + 1 =< y
      BY <2>2
    <3> QED BY <3>1
  <2>4. f[k + 1] = Slice(entries, from, y) /\ Walk!EntryBytes(entries, from, y) =< WalkBlockSize
    BY <1>5, <2>1, <2>2, <2>3 DEF Slice
  <2>5. d.blocks[k + 1] = Walk!EncodeBlock(Slice(entries, from, y))
    BY <1>1, <1>4, <2>1, <2>4
  <2>6. y =< Len(entries)
    BY <1>4, <2>2
  <2>8. Piece(entries, from, y)
    BY <2>3, <2>4, <2>6 DEF Piece
  <2>7. GoodBlock(d, k) /\ Whole(d, k) = Slice(entries, from, y)
    BY <1>4, <2>1, <2>5, <2>8, PieceHeard, SMTT(30)
  <2> QED BY <2>2, <2>3, <2>7, <2>8
<1>7. Walk!Sound(d)
  BY <1>4, <1>6 DEF Walk!Sound, GoodBlock
<1> DEFINE S == {m \in Nat : m =< n => Heard(d)[m] = [j \in 1..c[m] |-> entries[j]]}
<1>8. 0 \in S
  <2>1. Heard(d)[0] = <<>> /\ c[0] = 0
    BY <1>5, HeardFacts
  <2>2. [j \in 1..0 |-> entries[j]] = <<>>
    OBVIOUS
  <2> QED BY <2>1, <2>2
<1>9. ASSUME NEW m \in S PROVE m + 1 \in S
  <2>0. m \in Nat /\ m + 1 \in Nat
    OBVIOUS
  <2> SUFFICES ASSUME m + 1 =< n PROVE Heard(d)[m + 1] = [j \in 1..c[m + 1] |-> entries[j]]
    BY <2>0
  <2>1. m \in 0..(n - 1) /\ m \in 0..n /\ m + 1 \in 0..n /\ m =< n /\ m \in 0..(Len(d.blocks) - 1)
        /\ m \in 0..Len(d.blocks)
    BY <1>4, <2>0
  <2>2. PICK x \in Nat, y \in Nat : x = c[m] /\ y = c[m + 1]
    BY <1>5, <2>1
  <2>15. PICK from \in Nat \ {0} : from = x + 1
    <3>1. x + 1 \in Nat \ {0}
      OBVIOUS
    <3> QED BY <3>1
  <2>3. PICK sub : sub = Slice(entries, from, y) /\ Whole(d, m) = sub
    BY <1>6, <2>1, <2>2, <2>15
  <2>4. Piece(entries, from, y)
    BY <1>6, <2>1, <2>2, <2>15
  <2>16. /\ Entries(sub) /\ Len(sub) = y - from + 1
         /\ \A i \in 1..Len(sub) : sub[i] = entries[from + i - 1]
    <3> HIDE DEF S
    <3>1. sub = Slice(entries, from, y)
      BY <2>3
    <3>2. Entries(sub) /\ Len(sub) = y - from + 1
      <4>1. Entries(sub) /\ Len(sub) = Width(from, y)
        BY <2>4, <3>1, PieceFacts
      <4> QED BY <4>1 DEF Width
    <3>3. \A i \in 1..Len(sub) : sub[i] = entries[from + i - 1]
      BY <2>4, <3>1, PieceFacts
    <3> QED BY <3>2, <3>3
  <2>5. /\ Entries(sub) /\ Len(sub) = y - (x + 1) + 1
        /\ \A i \in 1..Len(sub) : sub[i] = entries[(x + 1) + i - 1]
    BY <2>15, <2>16
  <2>6. PICK h : h = Heard(d)[m] /\ h = [j \in 1..x |-> entries[j]]
    BY <2>1, <2>2
  <2>7. DOMAIN h = 1..x /\ Len(h) = x /\ IsSeq(h) /\ \A j \in 1..x : h[j] = entries[j]
    <3>1. \A q \in 0..(m - 1) : GoodBlock(d, q)
      BY <1>6, <2>1
    <3>2. IsSeq(h)
      BY <2>1, <2>6, <3>1, HeardIsSeq
    <3>3. DOMAIN h = 1..x /\ \A j \in 1..x : h[j] = entries[j]
      BY <2>6
    <3> QED BY <3>2, <3>3, SeqFacts
  <2>8. PICK u : u = h \o sub
    OBVIOUS
  <2>9. y - (x + 1) + 1 = y - x /\ x + (y - x) = y /\ y > x
    BY <1>4, <2>4, <2>15 DEF Piece
  <2>10. /\ DOMAIN u = 1..y
         /\ \A j \in 1..y : \/ j \in 1..x /\ u[j] = h[j]
                            \/ j - x \in 1..(y - x) /\ u[j] = sub[j - x]
    <3>1. IsSeq(sub) /\ DOMAIN sub = 1..(y - x) /\ Len(sub) = y - x
      BY <2>5, <2>9, SeqFacts DEF Entries
    <3>2. DOMAIN u = 1..(Len(h) + Len(sub))
          /\ \A j \in 1..(Len(h) + Len(sub)) :
               \/ j \in DOMAIN h /\ u[j] = h[j]
               \/ j > Len(h) /\ j - Len(h) \in DOMAIN sub /\ u[j] = sub[j - Len(h)]
      BY <2>7, <2>8, <3>1, JoinFacts
    <3>3. Len(h) + Len(sub) = y
      BY <2>7, <2>9, <3>1
    <3> QED BY <2>7, <3>1, <3>2, <3>3
  <2>11. ASSUME NEW j \in 1..y PROVE u[j] = entries[j]
    <3>1. CASE j \in 1..x /\ u[j] = h[j]
      BY <2>7, <3>1
    <3>2. CASE j - x \in 1..(y - x) /\ u[j] = sub[j - x]
      <4>1. (x + 1) + (j - x) - 1 = j /\ j - x \in 1..Len(sub)
        BY <2>5, <2>9, <3>2
      <4> QED BY <2>5, <3>2, <4>1
    <3> QED BY <2>10, <3>1, <3>2
  <2>12. Heard(d)[m + 1] = u
    <3>1. \A k \in 0..(Len(d.blocks) - 1) : Heard(d)[k + 1] = Heard(d)[k] \o Whole(d, k)
      BY HeardFacts
    <3>2. Heard(d)[m + 1] = Heard(d)[m] \o Whole(d, m)
      BY <2>1, <3>1
    <3> QED BY <2>3, <2>6, <2>8, <3>2
  <2>13. u = [j \in 1..y |-> u[j]]
    <3>1. IsSeq(u)
      BY <2>5, <2>7, <2>8, JoinFacts DEF Entries
    <3> QED BY <2>10, <3>1, SeqFacts, LenProperties DEF IsSeq
  <2>14. u = [j \in 1..y |-> entries[j]]
    BY <2>11, <2>13
  <2> QED BY <2>2, <2>12, <2>14
<1>10. S = Nat
  <2>1. S \in SUBSET Nat
    OBVIOUS
  <2> HIDE DEF S
  <2> QED BY <1>8, <1>9, <2>1, NatInd
<1>11. Heard(d)[n] = [j \in 1..l |-> entries[j]]
  <2>1. n \in S
    <3> HIDE DEF S
    <3> QED BY <1>10
  <2>2. Heard(d)[n] = [j \in 1..c[n] |-> entries[j]]
    BY <2>1
  <2> QED BY <1>5, <2>2
<1>12. entries = [j \in 1..l |-> entries[j]]
  BY <1>4, LenProperties DEF Entries, IsSeq
<1>13. Walk!Listing(d) = Heard(d)[n]
  BY <1>4, <1>7, HeardIsListing
<1> QED BY <1>7, <1>11, <1>12, <1>13

-----------------------------------------------------------------------------
(***************************************************************************)
(* The order of names.                                                     *)
(***************************************************************************)
\* a comes before b, and i is the first place where they differ: a ends there or
\* has the smaller byte.
Before(a, b, i) ==
  /\ i \in Nat \ {0} /\ i =< Len(b) /\ i - 1 =< Len(a)
  /\ \A j \in 1..(i - 1) : a[j] = b[j]
  /\ i =< Len(a) => a[i] < b[i]

LEMMA PrefixIs ==
  ASSUME NEW a \in Seq(Nat), NEW b \in Seq(Nat)
  PROVE  IsPrefix(a, b) <=> Len(a) =< Len(b) /\ \A j \in 1..Len(a) : a[j] = b[j]
<1>1. PICK m \in Nat, n \in Nat : m = Len(a) /\ n = Len(b)
  OBVIOUS
<1>2. SubSeq(a, 1, m) = [j \in 1..m |-> a[j]]
  <2>1. \A j \in 1..m : 1 + j - 1 = j
    OBVIOUS
  <2>2. SubSeq(a, 1, m) = [j \in 1..m |-> a[1 + j - 1]]
    BY <1>1
  <2> QED BY <2>1, <2>2
<1>3. m =< n => SubSeq(b, 1, m) = [j \in 1..m |-> b[j]]
  <2>1. \A j \in 1..m : 1 + j - 1 = j
    OBVIOUS
  <2>2. m =< n => SubSeq(b, 1, m) = [j \in 1..m |-> b[1 + j - 1]]
    BY <1>1
  <2> QED BY <2>1, <2>2
<1>4. ASSUME NEW f, NEW g, f = [j \in 1..m |-> a[j]], g = [j \in 1..m |-> b[j]]
      PROVE  f = g <=> \A j \in 1..m : a[j] = b[j]
  BY <1>4
<1>5. IsPrefix(a, b) <=> m =< n /\ SubSeq(a, 1, m) = SubSeq(b, 1, m)
  BY <1>1 DEF IsPrefix
<1> QED BY <1>1, <1>2, <1>3, <1>4, <1>5

LEMMA LexIs ==
  ASSUME NEW a \in Seq(Nat), NEW b \in Seq(Nat)
  PROVE  LexLess(a, b) <=> \E i : Before(a, b, i)
<1>1. PICK m \in Nat, n \in Nat : m = Len(a) /\ n = Len(b) /\ DOMAIN a = 1..m /\ DOMAIN b = 1..n
      /\ a = [j \in 1..m |-> a[j]] /\ b = [j \in 1..n |-> b[j]]
  BY LenProperties
<1>2. ASSUME IsPrefix(a, b), a # b PROVE Before(a, b, m + 1)
  <2>1. m =< n /\ \A j \in 1..m : a[j] = b[j]
    BY <1>1, <1>2, PrefixIs
  <2>2. m # n
    BY <1>1, <1>2, <2>1
  <2>3. m + 1 \in Nat \ {0} /\ m + 1 =< n /\ (m + 1) - 1 = m /\ ~(m + 1 =< m)
    BY <2>1, <2>2
  <2>4. PICK i \in Nat \ {0} : i = m + 1
    BY <2>3
  <2>5. i =< n /\ i - 1 = m /\ ~(i =< m)
    BY <2>3, <2>4
  <2>6. \A j \in 1..(i - 1) : a[j] = b[j]
    BY <2>1, <2>5
  <2>7. Before(a, b, i)
    <3>1. i - 1 =< m
      BY <2>5
    <3>2. i =< Len(b) /\ i - 1 =< Len(a) /\ ~(i =< Len(a))
      BY <1>1, <2>5, <3>1
    <3> QED BY <2>6, <3>2 DEF Before
  <2> QED BY <2>4, <2>7
<1>3. ASSUME NEW i \in DOMAIN a \cap DOMAIN b, a[i] < b[i], \A j \in 1..(i - 1) : a[j] = b[j]
      PROVE  Before(a, b, i)
  <2>1. i \in 1..m /\ i \in 1..n
    BY <1>1
  <2>2. i \in Nat \ {0} /\ i =< n /\ i - 1 =< m
    BY <2>1
  <2> QED BY <1>1, <1>3, <2>2 DEF Before
<1>4. ASSUME NEW i, Before(a, b, i) PROVE LexLess(a, b)
  <2>0. i \in Nat \ {0} /\ i =< n /\ i - 1 =< m
        /\ (\A j \in 1..(i - 1) : a[j] = b[j]) /\ (i =< m => a[i] < b[i])
    BY <1>1, <1>4 DEF Before
  <2>1. CASE i =< m
    <3>1. i \in DOMAIN a \cap DOMAIN b
      BY <1>1, <2>0, <2>1
    <3> QED BY <2>0, <2>1, <3>1 DEF LexLess
  <2>2. CASE ~(i =< m)
    <3>1. i - 1 = m /\ m =< n /\ m # n
      BY <2>0, <2>2
    <3>2. IsPrefix(a, b) /\ a # b
      BY <1>1, <2>0, <3>1, PrefixIs
    <3> QED BY <3>2 DEF LexLess, IsStrictPrefix
  <2> QED BY <2>1, <2>2
<1>5. LexLess(a, b) => \E i : Before(a, b, i)
  <2> SUFFICES ASSUME LexLess(a, b) PROVE \E i : Before(a, b, i)
    OBVIOUS
  <2>1. CASE IsPrefix(a, b) /\ a # b
    BY <1>2, <2>1
  <2>2. CASE \E i \in DOMAIN a \cap DOMAIN b : a[i] < b[i] /\ \A j \in 1..(i - 1) : a[j] = b[j]
    BY <1>3, <2>2
  <2> QED BY <2>1, <2>2 DEF LexLess, IsStrictPrefix
<1> QED BY <1>4, <1>5

\* It is a strict order, and of any two names one comes first.
LEMMA LexOrders ==
  /\ \A a \in Seq(Nat) : ~LexLess(a, a)
  /\ \A a, b \in Seq(Nat) : a # b => LexLess(a, b) \/ LexLess(b, a)
  /\ \A a, b, c \in Seq(Nat) : LexLess(a, b) /\ LexLess(b, c) => LexLess(a, c)
<1>1. ASSUME NEW a \in Seq(Nat) PROVE ~LexLess(a, a)
  <2> SUFFICES ASSUME NEW i, Before(a, a, i) PROVE FALSE
    BY LexIs
  <2>1. i \in Nat \ {0} /\ i =< Len(a) /\ a[i] < a[i]
    BY DEF Before
  <2>2. a[i] \in Nat
    BY <2>1
  <2> QED BY <2>1, <2>2
<1>2. ASSUME NEW a \in Seq(Nat), NEW b \in Seq(Nat), a # b
      PROVE  LexLess(a, b) \/ LexLess(b, a)
  <2>1. PICK m \in Nat, n \in Nat : m = Len(a) /\ n = Len(b)
        /\ a = [j \in 1..m |-> a[j]] /\ b = [j \in 1..n |-> b[j]]
        /\ (\A j \in 1..m : a[j] \in Nat) /\ (\A j \in 1..n : b[j] \in Nat)
    BY LenProperties, ElementOfSeq
  <2> DEFINE T == {j \in Nat : /\ j # 0 /\ j =< m + 1 /\ j =< n + 1
                               /\ j =< m /\ j =< n => a[j] # b[j]}
  <2>2. m =< n => m + 1 \in T
    OBVIOUS
  <2>3. n =< m => n + 1 \in T
    OBVIOUS
  <2>4. PICK i \in T : \A y \in T : ~(y < i)
    <3>1. T \in SUBSET Nat
      OBVIOUS
    <3>2. T # {}
      <4> HIDE DEF T
      <4> QED BY <2>2, <2>3
    <3>3. PICK t : t \in T
      BY <3>2
    <3> HIDE DEF T
    <3> QED BY <3>1, <3>3, NatMin
  <2>5. i \in Nat \ {0} /\ i =< m + 1 /\ i =< n + 1 /\ (i =< m /\ i =< n => a[i] # b[i])
    OBVIOUS
  <2>6. ASSUME NEW j \in 1..(i - 1) PROVE a[j] = b[j]
    <3>1. j \in Nat /\ j # 0 /\ j < i /\ j =< m /\ j =< n
      BY <2>5
    <3>2. j \notin T
      <4> HIDE DEF T
      <4> QED BY <2>4, <3>1
    <3> QED BY <3>1, <3>2
  <2>7. ~(i > m /\ i > n)
    <3> SUFFICES ASSUME i > m, i > n PROVE FALSE
      OBVIOUS
    <3>1. i - 1 = m /\ m = n
      BY <2>5
    <3>2. a = b
      BY <2>1, <2>6, <3>1
    <3> QED BY <1>2, <3>2
  <2> HIDE DEF T
  <2>8. CASE i > m
    <3>1. i =< n /\ i - 1 =< m /\ ~(i =< m)
      BY <2>5, <2>7, <2>8
    <3>2. Before(a, b, i)
      BY <2>1, <2>5, <2>6, <2>8, <3>1 DEF Before
    <3> QED BY <3>2, LexIs
  <2>9. CASE i > n
    <3>1. i =< m /\ i - 1 =< n /\ ~(i =< n)
      BY <2>5, <2>7, <2>9
    <3>2. Before(b, a, i)
      BY <2>1, <2>5, <2>6, <2>9, <3>1 DEF Before
    <3> QED BY <3>2, LexIs
  <2>10. CASE i =< m /\ i =< n
    <3>1. PICK x \in Nat, y \in Nat : x = a[i] /\ y = b[i] /\ x # y
      BY <2>1, <2>5, <2>10
    <3>2. i - 1 =< m /\ i - 1 =< n
      BY <2>5, <2>10
    <3>3. CASE x < y
      <4>1. Before(a, b, i)
        BY <2>1, <2>5, <2>6, <2>10, <3>1, <3>2, <3>3 DEF Before
      <4> QED BY <4>1, LexIs
    <3>4. CASE y < x
      <4>1. Before(b, a, i)
        BY <2>1, <2>5, <2>6, <2>10, <3>1, <3>2, <3>4 DEF Before
      <4> QED BY <4>1, LexIs
    <3> QED BY <3>1, <3>3, <3>4
  <2> QED BY <2>5, <2>8, <2>9, <2>10
<1>3. ASSUME NEW a \in Seq(Nat), NEW b \in Seq(Nat), NEW c \in Seq(Nat), LexLess(a, b), LexLess(b, c)
      PROVE  LexLess(a, c)
  <2>1. PICK i : Before(a, b, i)
    BY <1>3, LexIs
  <2>2. PICK k : Before(b, c, k)
    BY <1>3, LexIs
  <2>3. PICK l \in Nat, m \in Nat, n \in Nat : l = Len(a) /\ m = Len(b) /\ n = Len(c)
        /\ (\A j \in 1..l : a[j] \in Nat) /\ (\A j \in 1..m : b[j] \in Nat)
        /\ (\A j \in 1..n : c[j] \in Nat)
    BY LenProperties, ElementOfSeq
  <2>4. /\ i \in Nat \ {0} /\ i =< m /\ i - 1 =< l
        /\ (\A j \in 1..(i - 1) : a[j] = b[j]) /\ (i =< l => a[i] < b[i])
        /\ k \in Nat \ {0} /\ k =< n /\ k - 1 =< m
        /\ (\A j \in 1..(k - 1) : b[j] = c[j]) /\ (k =< m => b[k] < c[k])
    BY <2>1, <2>2, <2>3 DEF Before
  <2>5. CASE i < k
    <3>1. i =< n /\ i \in 1..(k - 1) /\ \A j \in 1..(i - 1) : j \in 1..(k - 1)
      BY <2>3, <2>4, <2>5
    <3>2. Before(a, c, i)
      BY <2>3, <2>4, <3>1 DEF Before
    <3> QED BY <3>2, LexIs
  <2>6. CASE i = k
    <3>1. i =< l => a[i] < c[i]
      <4> SUFFICES ASSUME i =< l PROVE a[i] < c[i]
        OBVIOUS
      <4>1. PICK x \in Nat, y \in Nat, z \in Nat : x = a[i] /\ y = b[i] /\ z = c[i]
        BY <2>3, <2>4, <2>6
      <4>2. x < y /\ y < z
        BY <2>4, <2>6, <4>1
      <4> QED BY <4>1, <4>2
    <3>2. Before(a, c, i)
      BY <2>3, <2>4, <2>6, <3>1 DEF Before
    <3> QED BY <3>2, LexIs
  <2>7. CASE k < i
    <3>1. k =< l /\ k - 1 =< l /\ k =< m /\ k \in 1..(i - 1) /\ \A j \in 1..(k - 1) : j \in 1..(i - 1)
      BY <2>3, <2>4, <2>7
    <3>2. Before(a, c, k)
      BY <2>3, <2>4, <3>1 DEF Before
    <3> QED BY <3>2, LexIs
  <2> QED BY <2>4, <2>5, <2>6, <2>7
<1> QED BY <1>1, <1>2, <1>3

\* Where the directory is walked, sets are counted and names ordered as here.
LEMMA SameCount ==
  ASSUME NEW S
  PROVE  /\ Walk!Cardinality(S) = Cardinality(S)
         /\ Walk!IsFiniteSet(S) <=> IsFiniteSet(S)
BY DEF Walk!Cardinality, Cardinality, Walk!IsFiniteSet, IsFiniteSet

LEMMA SameOrder ==
  ASSUME NEW C
  PROVE  Walk!InOrder(C) = InOrder(C)
<1>1. ASSUME NEW a, NEW b PROVE Walk!LexLess(a, b) <=> LexLess(a, b)
  BY DEF Walk!LexLess, LexLess, Walk!IsStrictPrefix, IsStrictPrefix, Walk!IsPrefix, IsPrefix
<1>2. \A c \in C : {d \in C : Walk!LexLess(d.name, c.name)} = {d \in C : LexLess(d.name, c.name)}
  BY <1>1
<1> DEFINE A(c) == {d \in C : Walk!LexLess(d.name, c.name)}
           B(c) == {d \in C : LexLess(d.name, c.name)}
<1>8. \A S : Walk!Cardinality(S) = Cardinality(S)
  BY SameCount
<1>9. Walk!InOrder(C) = [i \in 1..Walk!Cardinality(C) |->
                           CHOOSE c \in C : Walk!Cardinality(A(c)) = i - 1]
  BY DEF Walk!InOrder
<1>3. Walk!InOrder(C) = [i \in 1..Cardinality(C) |-> CHOOSE c \in C : Cardinality(A(c)) = i - 1]
  <2> HIDE DEF A
  <2> QED BY <1>8, <1>9
<1>4. InOrder(C) = [i \in 1..Cardinality(C) |-> CHOOSE c \in C : Cardinality(B(c)) = i - 1]
  BY DEF InOrder
<1> HIDE DEF A, B
<1>5. \A c \in C : A(c) = B(c)
  BY <1>2 DEF A, B
<1>6. \A i : {c \in C : Cardinality(A(c)) = i - 1} = {c \in C : Cardinality(B(c)) = i - 1}
  BY <1>5
<1>7. \A i : (CHOOSE c \in C : Cardinality(A(c)) = i - 1) = (CHOOSE c \in C : Cardinality(B(c)) = i - 1)
  BY <1>5
<1> QED BY <1>3, <1>4, <1>7

-----------------------------------------------------------------------------
(***************************************************************************)
(* A directory the builder made lists what it was made of.                 *)
(***************************************************************************)
\* The entry of the directory itself or of its parent.
Dot(name, nid) == [name |-> name, nid |-> nid, ft |-> "dir"]

\* Children that may be encoded are sorted by their names.
LEMMA ChildrenSort ==
  ASSUME NEW C, Walk!AreChildren(C)
  PROVE  Sortable(C) /\ \A c \in C : IsEntry(c)
<1>1. /\ \A c \in C : /\ c = [name |-> c.name, nid |-> c.nid, ft |-> c.ft]
                      /\ c.name \in Seq(Nat) /\ ~Walk!NameRefused(c.name)
      /\ \A c, d \in C : c.name = d.name => c = d
      /\ IsFiniteSet(C)
  BY SameCount DEF Walk!AreChildren
<1>2. \A a \in C : ~LexLess(a.name, a.name)
  BY <1>1, LexOrders
<1>3. \A a, b \in C : a # b => LexLess(a.name, b.name) \/ LexLess(b.name, a.name)
  BY <1>1, LexOrders
<1>4. \A a, b, c \in C : LexLess(a.name, b.name) /\ LexLess(b.name, c.name) => LexLess(a.name, c.name)
  BY <1>1, LexOrders
<1>5. ASSUME NEW c \in C PROVE IsEntry(c)
  <2>1. PICK name \in Seq(Nat) : name = c.name /\ ~Walk!NameRefused(name)
    BY <1>1
  <2>2. name # <<>> /\ \A i \in DOMAIN name : name[i] \notin {Walk!Nul, Walk!Slash}
    BY <2>1 DEF Walk!NameRefused, Walk!Contains
  <2>3. Len(name) > 0
    BY <2>2
  <2> QED BY <1>1, <2>1, <2>2, <2>3 DEF IsEntry
<1> QED BY <1>1, <1>2, <1>3, <1>4, <1>5 DEF Sortable

\* The entries of a directory: itself, its parent and each child once.
LEMMA AllEntriesFacts ==
  ASSUME NEW C, Walk!AreChildren(C), NEW self, NEW parent,
         NEW entries, entries = Walk!AllEntries(self, parent, C)
  PROVE  /\ Entries(entries) /\ Len(entries) = Walk!Cardinality(C) + 2
         /\ Walk!ToSet(entries) = C \cup {Dot(Walk!DotName, self), Dot(Walk!DotDotName, parent)}
<1> DEFINE a == Dot(Walk!DotName, self)
           b == Dot(Walk!DotDotName, parent)
           dots == <<a, b>>
<1>1. PICK tail : tail = InOrder(C)
  OBVIOUS
<1>2. PICK l \in Nat : l = Len(tail) /\ DOMAIN tail = 1..l /\ IsSeq(tail)
        /\ l = Walk!Cardinality(C)
        /\ (\A k \in 1..l : tail[k] \in C) /\ \A c \in C : \E k \in 1..l : tail[k] = c
  <2>1. Sortable(C)
    BY ChildrenSort
  <2>2. /\ IsSeq(tail) /\ (\A k \in DOMAIN tail : tail[k] \in C) /\ Len(tail) = Cardinality(C)
        /\ \A c \in C : \E k \in DOMAIN tail : tail[k] = c
    BY <1>1, <2>1, InOrderFacts
  <2>3. Len(tail) \in Nat /\ DOMAIN tail = 1..Len(tail)
    BY <2>2, SeqFacts
  <2> QED BY <2>2, <2>3, SameCount
<1>3. entries = dots \o tail
  BY <1>1, SameOrder DEF Walk!AllEntries, Dot
<1>4. IsEntry(a) /\ IsEntry(b)
  BY DEF IsEntry, Dot, Walk!DotName, Walk!DotDotName, Walk!Nul, Walk!Slash
<1>5. dots \in Seq({a, b}) /\ Len(dots) = 2 /\ DOMAIN dots = 1..2 /\ dots[1] = a /\ dots[2] = b
  <2> HIDE DEF a, b
  <2> QED OBVIOUS
<1> HIDE DEF dots, a, b
<1>6. IsSeq(dots)
  BY <1>5, OwnSeq
<1>7. /\ IsSeq(entries) /\ Len(entries) = 2 + l /\ DOMAIN entries = 1..(2 + l)
      /\ \A k \in 1..(2 + l) : \/ k \in 1..2 /\ entries[k] = dots[k]
                               \/ k > 2 /\ k - 2 \in 1..l /\ entries[k] = tail[k - 2]
  <2>1. PICK u : u = dots \o tail /\ u = entries
    BY <1>3
  <2>2. /\ IsSeq(u) /\ Len(u) = Len(dots) + Len(tail) /\ DOMAIN u = 1..(Len(dots) + Len(tail))
        /\ \A k \in 1..(Len(dots) + Len(tail)) :
             \/ k \in DOMAIN dots /\ u[k] = dots[k]
             \/ k > Len(dots) /\ k - Len(dots) \in DOMAIN tail /\ u[k] = tail[k - Len(dots)]
    <3>1. IsSeq(dots) /\ IsSeq(tail)
      BY <1>2, <1>6
    <3> DEFINE v == dots \o tail
    <3>2. /\ IsSeq(v) /\ Len(v) = Len(dots) + Len(tail) /\ DOMAIN v = 1..(Len(dots) + Len(tail))
          /\ \A k \in 1..(Len(dots) + Len(tail)) :
               \/ k \in DOMAIN dots /\ v[k] = dots[k]
               \/ k > Len(dots) /\ k - Len(dots) \in DOMAIN tail /\ v[k] = tail[k - Len(dots)]
      BY <3>1, JoinFacts
    <3>3. u = v
      BY <2>1
    <3> HIDE DEF v
    <3> QED BY <3>2, <3>3
  <2> QED BY <1>2, <1>5, <2>1, <2>2
<1>8. \A k \in 1..2 : k = 1 \/ k = 2
  OBVIOUS
<1>9. \A k \in 1..(2 + l) : entries[k] = a \/ entries[k] = b \/ entries[k] \in C
  BY <1>2, <1>5, <1>7, <1>8
<1>10. Entries(entries)
  <2>1. \A k \in DOMAIN entries : IsEntry(entries[k])
    BY <1>4, <1>7, <1>9, ChildrenSort
  <2> QED BY <1>7, <2>1 DEF Entries
<1>11. \E k \in DOMAIN entries : entries[k] = a
  <2>1. 1 \in 1..(2 + l) /\ ~(1 > 2)
    OBVIOUS
  <2> QED BY <1>5, <1>7, <2>1
<1>12. \E k \in DOMAIN entries : entries[k] = b
  <2>1. 2 \in 1..(2 + l) /\ ~(2 > 2)
    OBVIOUS
  <2> QED BY <1>5, <1>7, <2>1
<1>13. ASSUME NEW c \in C PROVE \E k \in DOMAIN entries : entries[k] = c
  <2>1. PICK k \in 1..l : tail[k] = c
    BY <1>2
  <2>2. PICK j \in 1..(2 + l) : j = k + 2 /\ j - 2 = k /\ ~(j \in 1..2)
    <3>1. k + 2 \in 1..(2 + l) /\ (k + 2) - 2 = k /\ ~(k + 2 \in 1..2)
      OBVIOUS
    <3> QED BY <3>1
  <2>3. entries[j] = tail[k]
    BY <1>7, <2>2
  <2> QED BY <1>7, <2>1, <2>3
<1>14. Walk!ToSet(entries) = {entries[k] : k \in DOMAIN entries}
  BY DEF Walk!ToSet
<1>15. Walk!ToSet(entries) = C \cup {a, b}
  BY <1>7, <1>9, <1>11, <1>12, <1>13, <1>14
<1>16. Len(entries) = Walk!Cardinality(C) + 2
  BY <1>2, <1>7
<1> QED BY <1>10, <1>15, <1>16 DEF a, b

\* A directory made as encode_dir_blocks makes it can be listed, and lists all entries.
LEMMA BuiltLists ==
  ASSUME NEW d, Walk!IsDir(d), Walk!AsBuilt(d)
  PROVE  /\ d.isDir /\ Walk!Sound(d) /\ Walk!AreChildren(d.made.children)
         /\ Walk!Listing(d) = Walk!AllEntries(d.made.self, d.made.parent, d.made.children)
<1>1. PICK entries : entries = Walk!AllEntries(d.made.self, d.made.parent, d.made.children)
  OBVIOUS
<1>2. /\ d.isDir /\ Walk!AreChildren(d.made.children) /\ Walk!Packable(entries)
      /\ d.blocks = [k \in DOMAIN Walk!Packing(entries) |-> Walk!EncodeBlock(Walk!Packing(entries)[k])]
      /\ d.size = Len(d.blocks) * WalkBlockSize
  BY <1>1 DEF Walk!AsBuilt
<1>3. Entries(entries)
  BY <1>1, <1>2, AllEntriesFacts
<1>4. Walk!Sound(d) /\ Walk!Listing(d) = entries
  BY <1>2, <1>3, AllHeard
<1> QED BY <1>1, <1>2, <1>4

\* What a walk of it answers.
LEMMA BuiltAnswers ==
  ASSUME Walk!AreDirs, Walk!AreBuilt, DirInv
  PROVE  Walk!ListsWhatWasMade
<1> SUFFICES ASSUME walkResult # <<>>, walkResult # <<"device">>, walkDir.made # NotMade
             PROVE  /\ walkResult[1] = "listed" =>
                         /\ Len(walkResult[2]) = Walk!Cardinality(walkDir.made.children) + 2
                         /\ Walk!ToSet(walkResult[2]) = walkDir.made.children \cup
                              {[name |-> Walk!DotName, nid |-> walkDir.made.self, ft |-> "dir"],
                               [name |-> Walk!DotDotName, nid |-> walkDir.made.parent, ft |-> "dir"]}
                    /\ \A c \in walkDir.made.children :
                         walkOp = <<"lookup", c.name>> => walkResult = <<"found", c.nid>>
                    /\ walkResult[1] # "error"
  BY DEF Walk!ListsWhatWasMade
<1> DEFINE C == walkDir.made.children
           a == Dot(Walk!DotName, walkDir.made.self)
           b == Dot(Walk!DotDotName, walkDir.made.parent)
<1>1. Walk!IsDir(walkDir) /\ Walk!AsBuilt(walkDir)
  BY DEF Walk!AreDirs, Walk!AreBuilt, DirInv
<1>2. PICK l : l = Walk!Listing(walkDir)
               /\ l = Walk!AllEntries(walkDir.made.self, walkDir.made.parent, walkDir.made.children)
  BY <1>1, BuiltLists
<1>3. walkDir.isDir /\ Walk!Sound(walkDir) /\ Walk!AreChildren(C)
  BY <1>1, BuiltLists
<1>4. Entries(l) /\ Len(l) = Walk!Cardinality(C) + 2 /\ Walk!ToSet(l) = C \cup {a, b}
  BY <1>2, <1>3, AllEntriesFacts
<1>5. /\ GatheredFrom(l)
      /\ \/ walkOp[1] = "list" /\ walkResult = <<"listed", walkOut>>
         \/ walkOp[1] # "list" /\ walkFound = {} /\ walkResult = <<"not found">>
         \/ walkOp[1] # "list" /\ \E nid : walkFound = {nid} /\ walkResult = <<"found", nid>>
  <2>1. AnswerStands
    BY DEF DirInv
  <2> QED BY <1>2, <1>3, <2>1 DEF AnswerStands
<1>9. \/ walkOp[1] = "list" /\ walkResult = <<"listed", walkOut>> /\ walkResult[1] = "listed"
      \/ walkOp[1] # "list" /\ walkFound = {} /\ walkResult[1] = "not found"
      \/ walkOp[1] # "list" /\ walkResult[1] = "found"
         /\ \E nid : walkFound = {nid} /\ walkResult = <<"found", nid>>
  <2>1. CASE walkOp[1] = "list" /\ walkResult = <<"listed", walkOut>>
    BY <2>1
  <2>2. CASE walkOp[1] # "list" /\ walkFound = {} /\ walkResult = <<"not found">>
    BY <2>2
  <2>3. CASE walkOp[1] # "list" /\ \E nid : walkFound = {nid} /\ walkResult = <<"found", nid>>
    <3>1. PICK nid : walkFound = {nid} /\ walkResult = <<"found", nid>>
      BY <2>3
    <3>2. walkResult[1] = "found"
      BY <3>1
    <3> QED BY <2>3, <3>2
  <2> QED BY <1>5, <2>1, <2>2, <2>3
<1>6. walkResult[1] # "error"
  BY <1>9
<1>7. ASSUME walkResult[1] = "listed"
      PROVE  Len(walkResult[2]) = Walk!Cardinality(C) + 2 /\ Walk!ToSet(walkResult[2]) = C \cup {a, b}
  <2>1. walkOp[1] = "list" /\ walkResult = <<"listed", walkOut>>
    BY <1>7, <1>9
  <2>2. walkResult[2] = l
    BY <1>5, <2>1 DEF GatheredFrom
  <2> QED BY <1>4, <2>2
<1>8. ASSUME NEW c \in C, walkOp = <<"lookup", c.name>>
      PROVE  walkResult = <<"found", c.nid>>
  <2>1. walkOp[1] # "list" /\ walkOp[2] = c.name
    BY <1>8
  <2>2. FirstOf(walkFound, l, c.name)
    BY <1>5, <2>1 DEF GatheredFrom
  <2>3. \E k \in DOMAIN l : l[k] = c
    BY <1>4 DEF Walk!ToSet
  <2>4. PICK j \in DOMAIN l : l[j].name = c.name /\ walkFound = {l[j].nid}
    BY <2>2, <2>3 DEF FirstOf
  <2>5. l[j] \in C \cup {a, b}
    BY <1>4 DEF Walk!ToSet
  <2>6. /\ c.name \notin {Walk!DotName, Walk!DotDotName}
        /\ \A e \in C : e.name = c.name => e = c
    BY <1>3 DEF Walk!AreChildren
  <2>7. a.name = Walk!DotName /\ b.name = Walk!DotDotName
    BY DEF Dot
  <2> HIDE DEF a, b, C
  <2>8. l[j] = c
    BY <2>4, <2>5, <2>6, <2>7
  <2>9. walkFound = {c.nid}
    BY <2>4, <2>8
  <2>10. PICK nid : walkFound = {nid} /\ walkResult = <<"found", nid>>
    BY <1>5, <2>1, <2>9
  <2>11. nid = c.nid
    BY <2>9, <2>10
  <2> QED BY <2>10, <2>11
<1> QED BY <1>6, <1>7, <1>8 DEF Dot

\* A directory made of children lists itself, its parent and every child once, finds
\* each child under its name, and is never refused, however its blocks were cut
\* (mkfs.rs, encode_dir_blocks; fs.rs, read_dir and lookup).
THEOREM ListsCorrect ==
  ASSUME Walk!AreDirs, Walk!AreBuilt
  PROVE  Walk!Spec => []ListsWhatWasMade
<1>1. DirInv => ListsWhatWasMade
  BY BuiltAnswers DEF ListsWhatWasMade
<1> QED BY <1>1, DirInvCorrect, PTL
=============================================================================
