-------------------------- MODULE CachedReadProofs --------------------------
(***************************************************************************)
(* Proofs about CachedRead, for any number of readers, any image and any   *)
(* schedule of lookups, inserts and resizes.                               *)
(***************************************************************************)
EXTENDS CachedRead, SequenceTheorems, FiniteSetTheorems, NaturalsInduction,
        WellFoundedInduction, TLAPS

\* The facts about one cache that its critical sections preserve.
WellFormed(c) ==
  /\ DOMAIN c = CacheField
  /\ c.cap \in Nat
  /\ c.age \in [Held(c) -> Nat]
  /\ \A k \in Held(c) : c.age[k] < c.cap
  /\ \A j, k \in Held(c) : c.age[j] = c.age[k] => j = k

\* A lookup changes recency and counters, never what is held.
LEMMA LookupFacts ==
  ASSUME NEW c, NEW k, WellFormed(c)
  PROVE  /\ WellFormed(AfterLookup(c, k))
         /\ AfterLookup(c, k).val = c.val
         /\ AfterLookup(c, k).cap = c.cap
         /\ c.hits \in Nat /\ c.misses \in Nat =>
              AfterLookup(c, k).hits \in Nat /\ AfterLookup(c, k).misses \in Nat
<1> DEFINE d == AfterLookup(c, k)
<1>1. CASE ~Live(c)
  BY <1>1 DEF AfterLookup
<1>2. CASE Live(c) /\ k \notin Held(c)
  BY <1>2 DEF AfterLookup, WellFormed, CacheField, Held
<1>3. CASE Live(c) /\ k \in Held(c)
  <2>1. d = [c EXCEPT !.age = Touch(c.age, k), !.hits = @ + 1]
    BY <1>3 DEF AfterLookup
  <2>2. /\ DOMAIN d = CacheField /\ d.val = c.val /\ d.cap = c.cap
        /\ d.age = Touch(c.age, k) /\ d.misses = c.misses /\ d.hits = c.hits + 1
    BY <2>1 DEF WellFormed, CacheField
  <2>3. Held(d) = Held(c)
    BY <2>2 DEF Held
  <2>4. d.age \in [Held(c) -> Nat]
    BY <1>3, <2>2 DEF Touch, WellFormed
  <2>5. \A x \in Held(c) : d.age[x] < c.cap
    BY <1>3, <2>2 DEF Touch, WellFormed
  <2>6. \A x, y \in Held(c) : d.age[x] = d.age[y] => x = y
    BY <1>3, <2>2 DEF Touch, WellFormed
  <2> QED
    BY <2>2, <2>3, <2>4, <2>5, <2>6 DEF WellFormed
<1> QED
  BY <1>1, <1>2, <1>3

\* A push displaces what LruCache::push displaces and keeps the rest.
LEMMA PushFacts ==
  ASSUME NEW c, NEW k, NEW v, WellFormed(c), Live(c)
  PROVE  /\ WellFormed(Pushed(c, k, v))
         /\ Pushed(c, k, v).cap = c.cap
         /\ Pushed(c, k, v).hits = c.hits /\ Pushed(c, k, v).misses = c.misses
         /\ Held(Pushed(c, k, v)) \subseteq Held(c) \cup {k}
         /\ \A x \in Held(Pushed(c, k, v)) :
              Pushed(c, k, v).val[x] = IF x = k THEN v ELSE c.val[x]
<1> DEFINE d == Pushed(c, k, v)
           kept == (Held(c) \ Displaced(c, k)) \cup {k}
           age == Touch(c.age, k)
<1>1. d = [c EXCEPT !.age   = [x \in kept |-> age[x]],
                    !.val   = [x \in kept |-> IF x = k THEN v ELSE c.val[x]],
                    !.bytes = @ + Len(v) - Weight(c, Displaced(c, k))]
  BY DEF Pushed
<1>2. /\ DOMAIN d = CacheField /\ d.cap = c.cap
      /\ d.hits = c.hits /\ d.misses = c.misses
      /\ d.age = [x \in kept |-> age[x]]
      /\ d.val = [x \in kept |-> IF x = k THEN v ELSE c.val[x]]
  BY <1>1 DEF WellFormed, CacheField
<1>3. Held(d) = kept
  BY <1>2 DEF Held
<1>4. \A x \in kept :
        d.age[x] = IF x = k THEN 0
                   ELSE IF k \in Held(c) /\ c.age[x] > c.age[k] THEN c.age[x]
                   ELSE c.age[x] + 1
  BY <1>2 DEF Touch, WellFormed
<1>5. kept \subseteq Held(c) \cup {k}
  OBVIOUS
<1>6. \A x \in kept : x # k => x \in Held(c) /\ c.age[x] \in Nat /\ c.age[x] < c.cap
  BY DEF WellFormed
<1>7. d.age \in [kept -> Nat]
  <2>1. ASSUME NEW x \in kept PROVE d.age[x] \in Nat
    BY <1>4, <1>6
  <2> HIDE DEF d
  <2> QED
    BY <1>2, <2>1
<1>8. \A x \in kept : d.age[x] < c.cap
  <2> SUFFICES ASSUME NEW x \in kept PROVE d.age[x] < c.cap
    OBVIOUS
  <2>1. CASE x = k
    BY <2>1, <1>4 DEF Live
  <2>2. CASE x # k /\ k \in Held(c)
    <3>1. c.age[k] \in Nat /\ c.age[k] < c.cap /\ c.age[x] # c.age[k] /\ c.cap \in Nat
      BY <2>2, <1>6 DEF WellFormed
    <3> QED
      BY <3>1, <2>2, <1>4, <1>6
  <2>3. CASE x # k /\ k \notin Held(c)
    <3>1. c.age[x] # c.cap - 1
      BY <2>3 DEF Displaced
    <3> QED
      BY <3>1, <2>3, <1>4, <1>6 DEF WellFormed
  <2> QED
    BY <2>1, <2>2, <2>3
<1>9. \A x, y \in kept : d.age[x] = d.age[y] => x = y
  BY <1>4, <1>6 DEF WellFormed
<1> QED
  BY <1>2, <1>3, <1>5, <1>7, <1>8, <1>9 DEF WellFormed

\* Trimming only takes entries away.
LEMMA TrimFacts ==
  ASSUME NEW c, WellFormed(c)
  PROVE  /\ WellFormed(Trimmed(c))
         /\ Trimmed(c).cap = c.cap
         /\ Trimmed(c).hits = c.hits /\ Trimmed(c).misses = c.misses
         /\ Held(Trimmed(c)) \subseteq Held(c)
         /\ \A x \in Held(Trimmed(c)) : Trimmed(c).val[x] = c.val[x]
<1> SUFFICES ASSUME NEW kept, kept \subseteq Held(c), NEW b,
                    Trimmed(c) = [c EXCEPT !.age   = [x \in kept |-> c.age[x]],
                                           !.val   = [x \in kept |-> c.val[x]],
                                           !.bytes = b]
             PROVE  /\ WellFormed(Trimmed(c))
                    /\ Trimmed(c).cap = c.cap
                    /\ Trimmed(c).hits = c.hits /\ Trimmed(c).misses = c.misses
                    /\ Held(Trimmed(c)) \subseteq Held(c)
                    /\ \A x \in Held(Trimmed(c)) : Trimmed(c).val[x] = c.val[x]
  BY DEF Trimmed, Newest
<1> DEFINE d == Trimmed(c)
<1>1. /\ DOMAIN d = CacheField /\ d.cap = c.cap
      /\ d.hits = c.hits /\ d.misses = c.misses
      /\ d.age = [x \in kept |-> c.age[x]]
      /\ d.val = [x \in kept |-> c.val[x]]
  BY DEF WellFormed, CacheField
<1>2. Held(d) = kept
  BY <1>1 DEF Held
<1> HIDE DEF d
<1>3. \A x \in kept : /\ d.age[x] = c.age[x] /\ d.val[x] = c.val[x]
                      /\ c.age[x] \in Nat /\ c.age[x] < c.cap
  BY <1>1 DEF WellFormed
<1>4. /\ d.cap \in Nat /\ d.age \in [kept -> Nat]
      /\ \A x \in kept : d.age[x] < d.cap
  BY <1>1, <1>3 DEF WellFormed
<1>5. \A x, y \in kept : d.age[x] = d.age[y] => x = y
  BY <1>3 DEF WellFormed
<1>6. WellFormed(d)
  BY <1>1, <1>2, <1>4, <1>5 DEF WellFormed
<1> QED
  BY <1>1, <1>2, <1>3, <1>6 DEF d

\* The insert critical section, whatever state of the cache it finds.
LEMMA InsertFacts ==
  ASSUME NEW c, NEW k, NEW v, WellFormed(c)
  PROVE  /\ WellFormed(Insert(c, k, v))
         /\ Insert(c, k, v).cap = c.cap
         /\ Insert(c, k, v).hits = c.hits /\ Insert(c, k, v).misses = c.misses
         /\ Held(Insert(c, k, v)) \subseteq Held(c) \cup {k}
         /\ \A x \in Held(Insert(c, k, v)) :
              \/ x = k /\ Insert(c, k, v).val[x] = v
              \/ x \in Held(c) /\ Insert(c, k, v).val[x] = c.val[x]
<1>1. CASE ~Live(c) \/ Len(v) > ByteLimit
  BY <1>1 DEF Insert
<1>2. CASE Live(c) /\ ~(Len(v) > ByteLimit)
  <2>1. Insert(c, k, v) = Trimmed(Pushed(c, k, v))
    BY <1>2 DEF Insert
  <2> QED
    BY <1>2, <2>1, PushFacts, TrimFacts
<1> QED
  BY <1>1, <1>2

\* A new cache holds nothing.
LEMMA NewFacts ==
  ASSUME NEW n \in Nat
  PROVE  /\ WellFormed(New(n))
         /\ Held(New(n)) = {}
         /\ New(n).cap = n /\ New(n).hits = 0 /\ New(n).misses = 0
<1>1. DOMAIN <<>> = {}
  OBVIOUS
<1>2. /\ DOMAIN New(n) = CacheField /\ New(n).cap = n
      /\ New(n).age = <<>> /\ New(n).val = <<>>
      /\ New(n).hits = 0 /\ New(n).misses = 0
  BY DEF New, CacheField
<1>3. Held(New(n)) = {}
  BY <1>1, <1>2 DEF Held
<1>4. New(n).age \in [{} -> Nat]
  BY <1>1, <1>2
<1> QED
  BY <1>2, <1>3, <1>4 DEF WellFormed

-----------------------------------------------------------------------------
\* Where a reader inside read_file can be.
Position(r) ==
  /\ pc[r] \notin Mid => block[r] = <<>>
  /\ pc[r] = "open" => buf[r] = <<>>
  /\ pc[r] \in Mid => /\ req[r].off + req[r].len <= FileSize[req[r].nid]
                      /\ Len(buf[r]) < req[r].len
                      /\ Len(block[r]) < ValidInBlock(r)
  /\ pc[r] \in {"decode", "insert"} => Brackets(r) /\ Ext(r).kind \in Coded
  /\ pc[r] = "insert" => Ext(r).kind = "compressed" /\ got[r] = Payload[Ext(r)]
  /\ res[r] = "ok" => pc[r] = "done" /\ Len(buf[r]) = req[r].len

LocalType ==
  /\ pc \in [Reader -> {"idle", "open", "done"} \cup Mid]
  /\ req \in [Reader -> Request]
  /\ buf \in [Reader -> Seq(Bytes)]
  /\ block \in [Reader -> Seq(Bytes)]
  /\ got \in [Reader -> Seq(Bytes)]
  /\ res \in [Reader -> {"none", "ok"} \cup Errors]

\* Only reader r moved.
OthersUnmoved(r) ==
  \A q \in Reader \ {r} :
    /\ pc'[q] = pc[q] /\ req'[q] = req[q] /\ buf'[q] = buf[q]
    /\ block'[q] = block[q] /\ got'[q] = got[q] /\ res'[q] = res[q]

\* The block of an offset inside the file: it holds the offset and ends in the
\* file.
LEMMA Geometry ==
  ASSUME NEW c \in Nat, NEW size \in Nat, c < size
  PROVE  /\ c % BlockSize \in 0 .. BlockSize - 1
         /\ c - (c % BlockSize) \in Nat
         /\ Least(size - (c - (c % BlockSize)), BlockSize) \in Nat
         /\ c % BlockSize < Least(size - (c - (c % BlockSize)), BlockSize)
         /\ (c - (c % BlockSize)) + Least(size - (c - (c % BlockSize)), BlockSize) <= size
<1>1. BlockSize \in Nat \ {0}
  BY ImageAssumption
<1>2. c % BlockSize \in 0 .. BlockSize - 1 /\ c % BlockSize <= c
  <2>1. c = BlockSize * (c \div BlockSize) + (c % BlockSize) /\ c % BlockSize \in 0 .. BlockSize - 1
    BY <1>1
  <2>2. c \div BlockSize \in Nat
    BY <1>1
  <2>3. BlockSize * (c \div BlockSize) \in Nat
    BY <1>1, <2>2
  <2> QED
    BY <2>1, <2>3, <1>1
<1> QED
  BY <1>1, <1>2 DEF Least

\* The same facts for the cursor of a reader that is filling a block.
LEMMA FillFacts ==
  ASSUME LocalType, NEW r \in Reader, Position(r), pc[r] \in Mid
  PROVE  /\ req[r].nid \in Nid /\ req[r].off \in Nat /\ req[r].len \in Nat
         /\ Cursor(r) \in Nat /\ BlockStart(r) \in Nat
         /\ Cursor(r) = BlockStart(r) + InBlockOff(r)
         /\ InBlockOff(r) \in Nat /\ ValidInBlock(r) \in Nat
         /\ BlockStart(r) + ValidInBlock(r) <= FileSize[req[r].nid]
         /\ Take(r) \in Nat /\ Take(r) > 0
         /\ InBlockOff(r) + Take(r) <= ValidInBlock(r)
         /\ Len(buf[r]) + Take(r) <= req[r].len
         /\ Len(buf[r]) \in Nat /\ Len(block[r]) \in Nat
         /\ Len(block[r]) < ValidInBlock(r)
         /\ FileSize[req[r].nid] \in Nat
         /\ FillAt(r) \in Nat /\ FillAt(r) = BlockStart(r) + Len(block[r])
         /\ FillAt(r) \in 0 .. FileSize[req[r].nid] - 1
         /\ Ext(r) \in Extent /\ Ext(r).nid = req[r].nid
         /\ Ext(r).start \in Nat /\ Ext(r).end \in Nat
         /\ Payload[Ext(r)] \in Seq(Bytes)
<1>1. /\ req[r].nid \in Nid /\ req[r].off \in Nat /\ req[r].len \in Nat
      /\ buf[r] \in Seq(Bytes) /\ block[r] \in Seq(Bytes)
  BY CallAssumption DEF LocalType
<1>2. Len(buf[r]) \in Nat /\ Len(block[r]) \in Nat
  BY <1>1, LenProperties
<1>3. FileSize[req[r].nid] \in Nat
  BY <1>1, ImageAssumption
<1>4. Cursor(r) \in Nat /\ Cursor(r) < FileSize[req[r].nid]
  BY <1>1, <1>2, <1>3 DEF Cursor, Position
<1>5. /\ InBlockOff(r) \in Nat /\ BlockStart(r) \in Nat /\ ValidInBlock(r) \in Nat
      /\ Cursor(r) = BlockStart(r) + InBlockOff(r)
      /\ InBlockOff(r) < ValidInBlock(r)
      /\ BlockStart(r) + ValidInBlock(r) <= FileSize[req[r].nid]
  <2> DEFINE c == Cursor(r)
             size == FileSize[req[r].nid]
  <2>1. BlockSize \in Nat \ {0}
    BY ImageAssumption
  <2> HIDE DEF c, size
  <2>2. c \in Nat /\ size \in Nat /\ c < size
    BY <1>3, <1>4 DEF c, size
  <2>3. /\ c % BlockSize \in 0 .. BlockSize - 1
        /\ c - (c % BlockSize) \in Nat
        /\ Least(size - (c - (c % BlockSize)), BlockSize) \in Nat
        /\ c % BlockSize < Least(size - (c - (c % BlockSize)), BlockSize)
        /\ (c - (c % BlockSize)) + Least(size - (c - (c % BlockSize)), BlockSize) <= size
    BY <2>2, Geometry
  <2>4. /\ InBlockOff(r) = c % BlockSize
        /\ BlockStart(r) = c - (c % BlockSize)
        /\ ValidInBlock(r) = Least(size - (c - (c % BlockSize)), BlockSize)
    BY DEF InBlockOff, BlockStart, ValidInBlock, c, size
  <2>5. c = (c - (c % BlockSize)) + (c % BlockSize)
    BY <2>1, <2>2, <2>3
  <2> QED
    BY <2>1, <2>3, <2>4, <2>5 DEF c, size
<1>6. Len(buf[r]) < req[r].len /\ Len(block[r]) < ValidInBlock(r)
  BY DEF Position
<1>7. /\ Take(r) \in Nat /\ Take(r) > 0
      /\ InBlockOff(r) + Take(r) <= ValidInBlock(r)
      /\ Len(buf[r]) + Take(r) <= req[r].len
  <2> DEFINE i == InBlockOff(r)
             v == ValidInBlock(r)
             n == Len(buf[r])
             l == req[r].len
  <2>1. i \in Nat /\ v \in Nat /\ n \in Nat /\ l \in Nat /\ i < v /\ n < l
    BY <1>1, <1>2, <1>5, <1>6
  <2>2. Take(r) = IF v - i <= l - n THEN v - i ELSE l - n
    BY DEF Take, Least
  <2> HIDE DEF i, v, n, l
  <2>3. CASE v - i <= l - n
    <3>1. v - i \in Nat /\ v - i > 0 /\ i + (v - i) <= v /\ n + (v - i) <= l
      BY <2>1, <2>3
    <3> QED
      BY <2>2, <2>3, <3>1 DEF i, v, n, l
  <2>4. CASE ~(v - i <= l - n)
    <3>1. l - n \in Nat /\ l - n > 0 /\ i + (l - n) <= v /\ n + (l - n) <= l
      BY <2>1, <2>4
    <3> QED
      BY <2>2, <2>4, <3>1 DEF i, v, n, l
  <2> QED
    BY <2>3, <2>4
<1>8. FillAt(r) \in 0 .. FileSize[req[r].nid] - 1
  <2> DEFINE s == BlockStart(r)
             b == Len(block[r])
             v == ValidInBlock(r)
             z == FileSize[req[r].nid]
  <2>1. FillAt(r) = s + b
    BY DEF FillAt
  <2>2. s \in Nat /\ b \in Nat /\ v \in Nat /\ z \in Nat /\ b < v /\ s + v <= z
    BY <1>2, <1>3, <1>5, <1>6
  <2> HIDE DEF s, b, v, z
  <2>3. s + b \in 0 .. z - 1
    BY <2>2
  <2> QED
    BY <2>1, <2>3 DEF z
<1>9. Index[req[r].nid] \in [0 .. FileSize[req[r].nid] - 1 -> {e \in Extent : e.nid = req[r].nid}]
  BY <1>1, ImageAssumption
<1>10. Ext(r) \in {e \in Extent : e.nid = req[r].nid}
  BY <1>8, <1>9 DEF Ext
<1>11. FillAt(r) = BlockStart(r) + Len(block[r])
  BY DEF FillAt
<1> QED
  BY <1>1, <1>2, <1>3, <1>4, <1>5, <1>6, <1>7, <1>8, <1>10, <1>11, ImageAssumption

\* A fill stays inside its block and inside its extent.
LEMMA SliceFacts ==
  ASSUME LocalType, NEW r \in Reader, Position(r), pc[r] \in Mid, Brackets(r),
         NEW v \in Seq(Bytes), FillAt(r) - Ext(r).start + FillTake(r) <= Len(v)
  PROVE  /\ FillTake(r) \in Nat
         /\ Len(block[r]) + FillTake(r) <= ValidInBlock(r)
         /\ Slice(r, v) \in Seq(Bytes)
         /\ Len(Slice(r, v)) = FillTake(r)
         /\ \A i \in 1 .. FillTake(r) : Slice(r, v)[i] = v[FillAt(r) - Ext(r).start + i]
<1>0. /\ Len(block[r]) \in Nat /\ ValidInBlock(r) \in Nat
      /\ Len(block[r]) < ValidInBlock(r)
      /\ FillAt(r) \in Nat /\ Ext(r).start \in Nat /\ Ext(r).end \in Nat
      /\ Payload[Ext(r)] \in Seq(Bytes)
  BY FillFacts
<1>1. FillTake(r) \in Nat /\ Len(block[r]) + FillTake(r) <= ValidInBlock(r)
  <2>1. /\ FillAt(r) <= Ext(r).end
        /\ FillTake(r) = Least(ValidInBlock(r) - Len(block[r]), Ext(r).end - FillAt(r))
    BY DEF FillTake, Brackets
  <2> DEFINE b == Len(block[r])
             w == ValidInBlock(r)
             f == FillAt(r)
             e == Ext(r).end
  <2>2. b \in Nat /\ w \in Nat /\ f \in Nat /\ e \in Nat /\ b < w /\ f <= e
    BY <1>0, <2>1
  <2>3. FillTake(r) = IF w - b <= e - f THEN w - b ELSE e - f
    BY <2>1 DEF Least
  <2> HIDE DEF b, w, f, e
  <2>4. CASE w - b <= e - f
    BY <2>2, <2>3, <2>4 DEF b, w
  <2>5. CASE ~(w - b <= e - f)
    <3>1. e - f \in Nat /\ b + (e - f) <= w
      BY <2>2, <2>5
    <3> QED
      BY <2>3, <2>5, <3>1 DEF b, w
  <2> QED
    BY <2>4, <2>5
<1> DEFINE m == FillAt(r) - Ext(r).start + 1
           n == FillAt(r) - Ext(r).start + FillTake(r)
<1>2. m \in Int /\ n \in Int /\ m >= 1 /\ n <= Len(v) /\ n - m + 1 = FillTake(r)
  <2>1. /\ Ext(r).start <= FillAt(r) /\ Len(v) \in Nat
        /\ FillAt(r) - Ext(r).start + FillTake(r) <= Len(v)
    BY LenProperties DEF Brackets
  <2> QED
    BY <1>0, <1>1, <2>1
<1>3. \A i \in m .. n : v[i] \in Bytes
  <2> SUFFICES ASSUME NEW i \in m .. n PROVE v[i] \in Bytes
    OBVIOUS
  <2>1. i \in 1 .. Len(v)
    BY <1>2, LenProperties
  <2> QED
    BY <2>1, ElementOfSeq
<1>4. Slice(r, v) = SubSeq(v, m, n)
  BY DEF Slice
<1> HIDE DEF m, n
<1>5. /\ Slice(r, v) \in Seq(Bytes)
      /\ Len(Slice(r, v)) = IF m <= n THEN n - m + 1 ELSE 0
      /\ \A i \in 1 .. n - m + 1 : Slice(r, v)[i] = v[m + i - 1]
  BY <1>2, <1>3, <1>4, SubSeqProperties
<1>6. Len(Slice(r, v)) = FillTake(r)
  BY <1>1, <1>2, <1>5
<1>7. ASSUME NEW i \in 1 .. FillTake(r)
      PROVE Slice(r, v)[i] = v[FillAt(r) - Ext(r).start + i]
  <2>1. m + i - 1 = FillAt(r) - Ext(r).start + i
    BY <1>0 DEF m
  <2> QED
    BY <1>2, <1>5, <2>1
<1> QED
  BY <1>1, <1>5, <1>6, <1>7

\* The payload of a bracketing extent is long enough for the fill.
LEMMA PayloadCovers ==
  ASSUME LocalType, NEW r \in Reader, Position(r), pc[r] \in Mid, Brackets(r)
  PROVE  FillAt(r) - Ext(r).start + FillTake(r) <= Len(Payload[Ext(r)])
<1>0. /\ Len(block[r]) \in Nat /\ ValidInBlock(r) \in Nat
      /\ Len(block[r]) < ValidInBlock(r)
      /\ FillAt(r) \in Nat /\ Ext(r).start \in Nat /\ Ext(r).end \in Nat
      /\ Payload[Ext(r)] \in Seq(Bytes)
  BY FillFacts
<1>1. Len(Payload[Ext(r)]) = Ext(r).end - Ext(r).start
  BY FillFacts, ImageAssumption DEF Brackets
<1> QED
  BY <1>0, <1>1 DEF FillTake, Least, Brackets

LEMMA ZerosFacts ==
  ASSUME NEW n \in Nat
  PROVE  /\ Zeros(n) \in Seq(Bytes)
         /\ Len(Zeros(n)) = n
         /\ \A i \in 1 .. n : Zeros(n)[i] = Zero
<1>1. Zero \in Bytes
  BY DEF Bytes
<1>2. Zeros(n) \in [1 .. n -> Bytes]
  BY <1>1 DEF Zeros
<1>3. Zeros(n) \in Seq(Bytes)
  BY <1>2, SeqDef
<1>4. Len(Zeros(n)) \in Nat /\ DOMAIN Zeros(n) = 1 .. Len(Zeros(n))
  BY <1>3, LenProperties
<1>5. DOMAIN Zeros(n) = 1 .. n
  BY <1>2
<1>6. Len(Zeros(n)) = n
  <2>1. \A i \in Nat : i \in 1 .. n <=> i \in 1 .. Len(Zeros(n))
    BY <1>4, <1>5
  <2> DEFINE k == Len(Zeros(n))
  <2>2. k \in Nat /\ \A i \in Nat : i \in 1 .. n <=> i \in 1 .. k
    BY <1>4, <2>1
  <2> HIDE DEF k
  <2>3. n <= k /\ k <= n
    BY <2>2
  <2>4. k = n
    BY <2>2, <2>3
  <2> QED
    BY <2>4 DEF k
<1> QED
  BY <1>3, <1>6 DEF Zeros

\* A grown block is no longer than its valid part, and longer than before.
LEMMA GrownFacts ==
  ASSUME LocalType, NEW r \in Reader, Position(r), pc[r] \in Mid,
         NEW v \in Seq(Bytes), Len(block[r]) + Len(v) <= ValidInBlock(r)
  PROVE  /\ Grown(r, v) \in Seq(Bytes)
         /\ Len(Grown(r, v)) \in Nat
         /\ Len(Grown(r, v)) <= ValidInBlock(r)
         /\ Len(block[r]) < Len(Grown(r, v))
<1>0. /\ Len(block[r]) \in Nat /\ ValidInBlock(r) \in Nat
      /\ Len(block[r]) < ValidInBlock(r) /\ block[r] \in Seq(Bytes)
  BY FillFacts DEF LocalType
<1>1. CASE v = <<>>
  <2> DEFINE z == ValidInBlock(r) - Len(block[r])
  <2>1. z \in Nat /\ z > 0 /\ Len(block[r]) + z = ValidInBlock(r)
    BY <1>0
  <2> HIDE DEF z
  <2>2. Zeros(z) \in Seq(Bytes) /\ Len(Zeros(z)) = z
    BY <2>1, ZerosFacts
  <2>3. Grown(r, v) = block[r] \o Zeros(z)
    BY <1>1 DEF Grown, z
  <2> QED
    BY <1>0, <2>1, <2>2, <2>3, ConcatProperties
<1>2. CASE v # <<>>
  <2>1. Grown(r, v) = block[r] \o v /\ Len(v) \in Nat /\ Len(v) > 0
    BY <1>2, EmptySeq DEF Grown
  <2> QED
    BY <1>0, <2>1, ConcatProperties
<1> QED
  BY <1>1, <1>2

\* A place after the first `a` of `a + b` places.
LEMMA LaterPlace ==
  ASSUME NEW a \in Nat, NEW b \in Nat, NEW k \in Nat, 1 <= k, k <= b
  PROVE  a + k \in 1 .. a + b /\ ~(a + k <= a)
  OBVIOUS

\* Copying a finished block out.
LEMMA CopyOutFacts ==
  ASSUME LocalType, NEW r \in Reader, Position(r), pc[r] \in Mid,
         NEW full \in Seq(Bytes), Len(full) = ValidInBlock(r), NEW out,
         out = buf[r] \o SubSeq(full, InBlockOff(r) + 1, InBlockOff(r) + Take(r))
  PROVE  /\ out \in Seq(Bytes)
         /\ Len(out) = Len(buf[r]) + Take(r)
         /\ \A i \in 1 .. Len(buf[r]) : out[i] = buf[r][i]
         /\ \A k \in 1 .. Take(r) : out[Len(buf[r]) + k] = full[InBlockOff(r) + k]
<1>0. /\ InBlockOff(r) \in Nat /\ Take(r) \in Nat /\ Take(r) > 0
      /\ InBlockOff(r) + Take(r) <= Len(full)
      /\ buf[r] \in Seq(Bytes) /\ Len(buf[r]) \in Nat /\ Len(full) \in Nat
  BY FillFacts DEF LocalType
<1> DEFINE m == InBlockOff(r) + 1
           n == InBlockOff(r) + Take(r)
           s == SubSeq(full, m, n)
<1>1. m \in Int /\ n \in Int /\ m >= 1 /\ n <= Len(full) /\ m <= n /\ n - m + 1 = Take(r)
  BY <1>0
<1>2. ASSUME NEW i \in m .. n PROVE full[i] \in Bytes
  <2>1. i \in 1 .. Len(full)
    BY <1>0, <1>1
  <2> QED
    BY <2>1, ElementOfSeq
<1>3. out = buf[r] \o s
  OBVIOUS
<1> HIDE DEF m, n
<1>4. /\ s \in Seq(Bytes)
      /\ Len(s) = Take(r)
      /\ \A i \in 1 .. Take(r) : s[i] = full[m + i - 1]
  BY <1>1, <1>2, SubSeqProperties
<1> HIDE DEF s
<1>5. /\ out \in Seq(Bytes) /\ Len(out) = Len(buf[r]) + Take(r)
      /\ \A i \in 1 .. Len(out) :
           out[i] = IF i <= Len(buf[r]) THEN buf[r][i] ELSE s[i - Len(buf[r])]
  <2>1. /\ buf[r] \o s \in Seq(Bytes)
        /\ Len(buf[r] \o s) = Len(buf[r]) + Len(s)
        /\ \A i \in 1 .. Len(buf[r]) + Len(s) :
             (buf[r] \o s)[i] = IF i <= Len(buf[r]) THEN buf[r][i] ELSE s[i - Len(buf[r])]
    BY <1>0, <1>4, ConcatProperties
  <2>2. Len(out) = Len(buf[r]) + Take(r) /\ out \in Seq(Bytes)
    BY <2>1, <1>3, <1>4
  <2>3. ASSUME NEW i \in 1 .. Len(out)
        PROVE  out[i] = IF i <= Len(buf[r]) THEN buf[r][i] ELSE s[i - Len(buf[r])]
    <3>1. i \in 1 .. Len(buf[r]) + Len(s)
      BY <2>2, <1>4
    <3> QED
      BY <3>1, <2>1, <1>3
  <2>4. \A i \in 1 .. Len(out) :
          out[i] = IF i <= Len(buf[r]) THEN buf[r][i] ELSE s[i - Len(buf[r])]
    BY ONLY <2>3
  <2> QED
    BY ONLY <2>2, <2>4
<1>6. ASSUME NEW i \in 1 .. Len(buf[r]) PROVE out[i] = buf[r][i]
  <2>0. Len(out) = Len(buf[r]) + Take(r) /\ Len(buf[r]) \in Nat /\ Take(r) \in Nat
    BY ONLY <1>0, <1>5
  <2>1. i \in 1 .. Len(out) /\ i <= Len(buf[r])
    BY ONLY <2>0, <1>6
  <2> QED
    BY <1>5, <2>1
<1>7. ASSUME NEW k \in 1 .. Take(r)
      PROVE  out[Len(buf[r]) + k] = full[InBlockOff(r) + k]
  <2> DEFINE i == Len(buf[r]) + k
  <2>0. k \in Nat /\ 1 <= k /\ k <= Take(r)
    BY <1>0, <1>7
  <2>1. i \in 1 .. Len(out) /\ ~(i <= Len(buf[r]))
    BY <1>0, <1>5, <2>0, LaterPlace
  <2>9. i - Len(buf[r]) = k
    BY <1>0, <2>0
  <2> HIDE DEF i
  <2>2. out[i] = s[k]
    BY <1>5, <2>1, <2>9
  <2>3. s[k] = full[m + k - 1]
    BY <1>4, <1>7
  <2>4. m + k - 1 = InBlockOff(r) + k
    BY <1>0, <1>7 DEF m
  <2> QED
    BY <2>2, <2>3, <2>4 DEF i
<1> QED
  BY <1>5, <1>6, <1>7

\* Absorb moves one reader, keeps every type and leaves the reader placed.
LEMMA AbsorbFacts ==
  ASSUME LocalType, NEW r \in Reader, Position(r), pc[r] \in Mid,
         NEW v \in Seq(Bytes), Len(block[r]) + Len(v) <= ValidInBlock(r),
         Absorb(r, v), req' = req
  PROVE  /\ LocalType' /\ OthersUnmoved(r) /\ Position(r)'
         /\ res'[r] \in {res[r], "ok"}
<1> DEFINE full == Grown(r, v)
           out == buf[r] \o SubSeq(full, InBlockOff(r) + 1, InBlockOff(r) + Take(r))
           last == Len(out) = req[r].len
<1>0. /\ got' = [got EXCEPT ![r] = <<>>]
      /\ Len(full) < ValidInBlock(r) =>
           /\ block' = [block EXCEPT ![r] = full]
           /\ pc' = [pc EXCEPT ![r] = "fill"]
           /\ buf' = buf /\ res' = res
      /\ ~(Len(full) < ValidInBlock(r)) =>
           /\ block' = [block EXCEPT ![r] = <<>>]
           /\ buf' = [buf EXCEPT ![r] = out]
           /\ pc' = [pc EXCEPT ![r] = IF last THEN "done" ELSE "fill"]
           /\ res' = [res EXCEPT ![r] = IF last THEN "ok" ELSE res[r]]
  BY DEF Absorb
<1>1. full \in Seq(Bytes) /\ Len(full) \in Nat /\ Len(full) <= ValidInBlock(r)
  BY GrownFacts
<1>2. <<>> \in Seq(Bytes) /\ Len(<<>>) = 0
  BY EmptySeq
<1>3. res[r] # "ok"
  BY DEF Position, Mid
<1> HIDE DEF full
<1>4. CASE Len(full) < ValidInBlock(r)
  <2>1. /\ got' = [got EXCEPT ![r] = <<>>] /\ block' = [block EXCEPT ![r] = full]
        /\ pc' = [pc EXCEPT ![r] = "fill"] /\ buf' = buf /\ res' = res
    BY <1>0, <1>4
  <2>2. LocalType'
    BY <1>1, <1>2, <2>1 DEF LocalType, Mid
  <2>3. OthersUnmoved(r)
    BY <2>1 DEF OthersUnmoved, LocalType
  <2>4. pc'[r] = "fill" /\ block'[r] = full /\ buf'[r] = buf[r] /\ res'[r] = res[r]
    BY <2>1 DEF LocalType
  <2>5. ValidInBlock(r)' = ValidInBlock(r)
    BY <2>4 DEF ValidInBlock, BlockStart, Cursor
  <2>6. Position(r)'
    BY <1>3, <1>4, <2>4, <2>5 DEF Position, Mid
  <2> QED
    BY <2>2, <2>3, <2>4, <2>6
<1>5. CASE ~(Len(full) < ValidInBlock(r))
  <2>0. Len(full) = ValidInBlock(r)
    BY <1>1, <1>5, FillFacts
  <2>1. out \in Seq(Bytes) /\ Len(out) = Len(buf[r]) + Take(r)
    BY <1>1, <2>0, CopyOutFacts
  <2> HIDE DEF out
  <2>2. Len(out) \in Nat /\ Len(out) <= req[r].len
    BY <2>1, FillFacts
  <2>3. /\ got' = [got EXCEPT ![r] = <<>>] /\ block' = [block EXCEPT ![r] = <<>>]
        /\ buf' = [buf EXCEPT ![r] = out]
        /\ pc' = [pc EXCEPT ![r] = IF last THEN "done" ELSE "fill"]
        /\ res' = [res EXCEPT ![r] = IF last THEN "ok" ELSE res[r]]
    BY <1>0, <1>5
  <2>4. LocalType'
    BY <1>2, <2>1, <2>3 DEF LocalType, Mid
  <2>5. OthersUnmoved(r)
    BY <2>3 DEF OthersUnmoved, LocalType
  <2>6. /\ pc'[r] = (IF last THEN "done" ELSE "fill") /\ block'[r] = <<>>
        /\ buf'[r] = out /\ res'[r] = (IF last THEN "ok" ELSE res[r]) /\ req'[r] = req[r]
    BY <2>3 DEF LocalType
  <2>7. last => Position(r)' /\ res'[r] = "ok"
    BY <2>6 DEF Position, Mid
  <2>8. CASE ~last
    <3>1. pc'[r] = "fill" /\ res'[r] = res[r] /\ buf'[r] = out
      BY <2>6, <2>8
    <3>2. Len(out) < req[r].len
      BY <2>2, <2>8, FillFacts
    <3>3. /\ req[r].off + req[r].len <= FileSize[req[r].nid]
      BY DEF Position
    <3>4. Len(block'[r]) < ValidInBlock(r)'
      <4> DEFINE c == req[r].off + Len(out)
                 size == FileSize[req[r].nid]
      <4>1. c \in Nat /\ size \in Nat /\ c < size
        <5>1. req[r].off \in Nat /\ req[r].len \in Nat /\ FileSize[req[r].nid] \in Nat
          BY FillFacts
        <5> QED
          BY <5>1, <2>2, <3>2, <3>3
      <4>2. ValidInBlock(r)' = Least(size - (c - (c % BlockSize)), BlockSize)
        BY <3>1, <2>6 DEF ValidInBlock, BlockStart, Cursor
      <4> HIDE DEF c, size
      <4>3. /\ c % BlockSize \in 0 .. BlockSize - 1
            /\ Least(size - (c - (c % BlockSize)), BlockSize) \in Nat
            /\ c % BlockSize < Least(size - (c - (c % BlockSize)), BlockSize)
        BY <4>1, Geometry
      <4> QED
        BY <4>2, <4>3, <2>6, <1>2
    <3>5. Position(r)'
      BY <1>3, <2>6, <3>1, <3>2, <3>3, <3>4 DEF Position, Mid
    <3> QED
      BY <2>4, <2>5, <3>1, <3>5
  <2> QED
    BY <2>4, <2>5, <2>6, <2>7, <2>8
<1> QED
  BY <1>4, <1>5

\* Fail ends the call and moves nobody else.
LEMMA FailFacts ==
  ASSUME LocalType, NEW r \in Reader, NEW why \in Errors, Fail(r, why), req' = req
  PROVE  /\ LocalType' /\ OthersUnmoved(r) /\ Position(r)'
         /\ res'[r] = why /\ pc'[r] = "done" /\ buf' = buf
<1>1. <<>> \in Seq(Bytes)
  BY EmptySeq
<1>2. LocalType'
  BY <1>1 DEF Fail, LocalType, Mid
<1>3. OthersUnmoved(r)
  BY DEF Fail, LocalType, OthersUnmoved
<1>4. pc'[r] = "done" /\ block'[r] = <<>> /\ res'[r] = why /\ buf' = buf
  BY DEF Fail, LocalType
<1>5. Position(r)'
  BY <1>4 DEF Position, Mid, Errors, Refusals
<1> QED
  BY <1>2, <1>3, <1>4, <1>5

-----------------------------------------------------------------------------
\* The inductive invariant of the cache and of the readers' positions.
CacheInv ==
  /\ WellFormed(cache)
  /\ cache.cap \in Capacity
  /\ \A k \in Held(cache) : cache.val[k] \in Seq(Bytes)
  /\ cache.hits \in Nat /\ cache.misses \in Nat
  /\ CacheCoherent

CountersType ==
  /\ reads \in [Reader -> 0 .. MaxReads]
  /\ resizes \in 0 .. MaxResizes

Inv ==
  /\ CacheInv /\ LocalType /\ CountersType
  /\ \A r \in Reader : Position(r)

LEMMA InvGives == Inv => TypeOK /\ CacheCoherent /\ CacheWithinCapacity
  BY DEF Inv, CacheInv, LocalType, CountersType, TypeOK, WellFormed, CacheWithinCapacity

\* What one reader's step must establish.
LEMMA ReaderStep ==
  ASSUME Inv, NEW r \in Reader, LocalType', OthersUnmoved(r), Position(r)',
         CacheInv', CountersType'
  PROVE  Inv'
<1>1. ASSUME NEW q \in Reader PROVE Position(q)'
  <2>1. CASE q = r
    BY <2>1
  <2>2. CASE q # r
    <3>1. /\ pc'[q] = pc[q] /\ req'[q] = req[q] /\ buf'[q] = buf[q]
          /\ block'[q] = block[q] /\ got'[q] = got[q] /\ res'[q] = res[q]
      BY <2>2 DEF OthersUnmoved
    <3>2. Position(q)
      BY DEF Inv
    <3>3. BlockStart(q)' = BlockStart(q)
      BY <3>1 DEF BlockStart, Cursor
    <3>4. ValidInBlock(q)' = ValidInBlock(q) /\ FillAt(q)' = FillAt(q)
      BY <3>1, <3>3 DEF ValidInBlock, FillAt
    <3>5. Ext(q)' = Ext(q)
      BY <3>1, <3>4 DEF Ext
    <3>6. Brackets(q)' = Brackets(q)
      BY <3>4, <3>5 DEF Brackets
    <3> QED
      BY <3>1, <3>2, <3>4, <3>5, <3>6 DEF Position
  <2> QED
    BY <2>1, <2>2
<1> QED
  BY <1>1 DEF Inv

\* Two extents under one key are one extent.
LEMMA KeyInjective ==
  ASSUME NEW e \in Extent, NEW f \in Extent, KeyOf(e) = KeyOf(f)
  PROVE  e = f
  BY ExtentAssumption DEF KeyOf

\* Inserting the payload of an extent that decodes keeps the cache coherent.
LEMMA InsertCoherent ==
  ASSUME CacheInv, NEW e \in Extent, e.kind = "compressed", cache' = Insert(cache, KeyOf(e), Payload[e])
  PROVE  CacheInv'
<1> DEFINE c == cache
           d == Insert(cache, KeyOf(e), Payload[e])
<1>1. /\ WellFormed(d) /\ d.cap = c.cap /\ d.hits = c.hits /\ d.misses = c.misses
      /\ Held(d) \subseteq Held(c) \cup {KeyOf(e)}
      /\ \A x \in Held(d) : \/ x = KeyOf(e) /\ d.val[x] = Payload[e]
                            \/ x \in Held(c) /\ d.val[x] = c.val[x]
  BY InsertFacts DEF CacheInv
<1>2. Payload[e] \in Seq(Bytes)
  BY ImageAssumption
<1>3. \A x \in Held(d) : d.val[x] \in Seq(Bytes)
  BY <1>1, <1>2 DEF CacheInv
<1>4. ASSUME NEW f \in Extent, KeyOf(f) \in Held(d)
      PROVE  f.kind = "compressed" /\ d.val[KeyOf(f)] = Payload[f]
  <2>1. CASE KeyOf(f) = KeyOf(e) /\ d.val[KeyOf(f)] = Payload[e]
    BY <2>1, KeyInjective
  <2>2. CASE KeyOf(f) \in Held(c) /\ d.val[KeyOf(f)] = c.val[KeyOf(f)]
    BY <2>2 DEF CacheInv, CacheCoherent
  <2> QED
    BY <1>1, <1>4, <2>1, <2>2
<1> HIDE DEF c, d
<1>5. cache' = d /\ c = cache
  BY DEF d, c
<1> QED
  BY <1>1, <1>3, <1>4, <1>5 DEF CacheInv, CacheCoherent

LEMMA LookupCoherent ==
  ASSUME CacheInv, NEW k, cache' = AfterLookup(cache, k)
  PROVE  CacheInv'
<1>1. /\ WellFormed(cache') /\ cache'.val = cache.val /\ cache'.cap = cache.cap
      /\ cache'.hits \in Nat /\ cache'.misses \in Nat
  BY LookupFacts DEF CacheInv
<1> QED
  BY <1>1 DEF CacheInv, CacheCoherent, Held

LEMMA ResizeCoherent ==
  ASSUME NEW n \in Capacity, cache' = New(n)
  PROVE  CacheInv'
<1>1. n \in Nat
  BY CallAssumption
<1> QED
  BY <1>1, NewFacts DEF CacheInv, CacheCoherent

LEMMA InitInv == Init => Inv
<1> SUFFICES ASSUME Init PROVE Inv
  OBVIOUS
<1>1. PICK n \in Capacity : cache = New(n)
  BY DEF Init
<1>2. n \in Nat
  BY CallAssumption
<1>3. CacheInv
  BY <1>1, <1>2, NewFacts DEF CacheInv, CacheCoherent
<1>4. <<>> \in Seq(Bytes)
  BY EmptySeq
<1>5. (CHOOSE q \in Request : TRUE) \in Request
  BY CallAssumption
<1>6. LocalType
  BY <1>4, <1>5 DEF Init, LocalType
<1>7. CountersType
  BY CallAssumption DEF Init, CountersType
<1>8. \A r \in Reader : Position(r)
  BY DEF Init, Position, Mid
<1> QED
  BY <1>3, <1>6, <1>7, <1>8 DEF Inv

LEMMA PayloadSlice ==
  ASSUME LocalType, NEW r \in Reader, Position(r), pc[r] \in Mid, Brackets(r)
  PROVE  /\ Slice(r, Payload[Ext(r)]) \in Seq(Bytes)
         /\ FillTake(r) \in Nat
         /\ Len(Slice(r, Payload[Ext(r)])) = FillTake(r)
         /\ Len(block[r]) + FillTake(r) <= ValidInBlock(r)
         /\ \A i \in 1 .. FillTake(r) :
              Slice(r, Payload[Ext(r)])[i] = Payload[Ext(r)][FillAt(r) - Ext(r).start + i]
<1>1. Payload[Ext(r)] \in Seq(Bytes)
  BY FillFacts
<1>2. FillAt(r) - Ext(r).start + FillTake(r) <= Len(Payload[Ext(r)])
  BY PayloadCovers
<1> QED
  BY <1>1, <1>2, SliceFacts

\* A hit is of an extent that decodes, never shorter than it, and its slice is the
\* payload's.
LEMMA HitFacts ==
  ASSUME Inv, NEW r \in Reader, pc[r] \in Mid, Brackets(r),
         Hit(cache, KeyOf(Ext(r)))
  PROVE  /\ Ext(r).kind = "compressed"
         /\ cache.val[KeyOf(Ext(r))] = Payload[Ext(r)]
         /\ ~(FillAt(r) - Ext(r).start + FillTake(r) > Len(cache.val[KeyOf(Ext(r))]))
<1>1. LocalType /\ Position(r)
  BY DEF Inv
<1>2. Ext(r) \in Extent /\ FillAt(r) \in Nat /\ Ext(r).start \in Nat
      /\ Payload[Ext(r)] \in Seq(Bytes)
  BY <1>1, FillFacts
<1>3. Ext(r).kind = "compressed" /\ cache.val[KeyOf(Ext(r))] = Payload[Ext(r)]
  BY <1>2 DEF Inv, CacheInv, CacheCoherent, Hit
<1>4. FillAt(r) - Ext(r).start + FillTake(r) <= Len(Payload[Ext(r)]) /\ FillTake(r) \in Nat
  BY <1>1, PayloadCovers, PayloadSlice
<1>5. Len(Payload[Ext(r)]) \in Nat
  BY <1>2, LenProperties
<1> QED
  BY <1>2, <1>3, <1>4, <1>5

\* Each action of a reader inside read_file preserves the invariant.
LEMMA StepInv ==
  ASSUME Inv, NEW r \in Reader, Step(r)
  PROVE  Inv' /\ OthersUnmoved(r)
<1>1. LocalType /\ Position(r) /\ CacheInv /\ CountersType
  BY DEF Inv
<1>2. req' = req /\ reads' = reads /\ resizes' = resizes
  BY DEF Step, Open, Refuse, Untruthful, ReadPlain, CutShort, Lookup, NoCodec,
         DecodeRefused, Decode, InsertDecoded, DeviceFails, local
<1>3. CountersType'
  BY <1>1, <1>2 DEF CountersType
<1>4. cache' = cache => CacheInv'
  BY <1>1 DEF CacheInv, CacheCoherent, WellFormed, Held
<1> SUFFICES LocalType' /\ OthersUnmoved(r) /\ Position(r)' /\ CacheInv'
  BY <1>3, ReaderStep
<1>5. ASSUME NEW why \in Errors, Fail(r, why), cache' = cache
      PROVE  LocalType' /\ OthersUnmoved(r) /\ Position(r)' /\ CacheInv'
  BY <1>1, <1>2, <1>4, <1>5, FailFacts
<1>6. CASE Open(r)
  <2>1. CASE Fail(r, "OutOfRange")
    BY <1>5, <1>6, <2>1 DEF Open, Errors
  <2>2. CASE /\ req[r].off + req[r].len <= FileSize[req[r].nid]
             /\ pc' = [pc EXCEPT ![r] = IF req[r].len = 0 THEN "done" ELSE "fill"]
             /\ res' = [res EXCEPT ![r] = IF req[r].len = 0 THEN "ok" ELSE res[r]]
             /\ UNCHANGED <<buf, block, got>>
    <3>1. LocalType'
      BY <1>1, <1>2, <2>2 DEF LocalType, Mid
    <3>2. OthersUnmoved(r)
      BY <1>1, <1>2, <2>2 DEF LocalType, OthersUnmoved
    <3>3. /\ pc[r] = "open" /\ cache' = cache /\ res[r] # "ok"
          /\ buf[r] = <<>> /\ block[r] = <<>>
      BY <1>1, <1>6 DEF Open, Position, Mid
    <3>4. /\ req[r].off \in Nat /\ req[r].len \in Nat /\ FileSize[req[r].nid] \in Nat
          /\ Len(<<>>) = 0
      BY <1>1, CallAssumption, ImageAssumption, EmptySeq DEF LocalType
    <3>5. /\ pc'[r] = (IF req[r].len = 0 THEN "done" ELSE "fill")
          /\ res'[r] = (IF req[r].len = 0 THEN "ok" ELSE res[r])
          /\ req'[r] = req[r] /\ buf'[r] = <<>> /\ block'[r] = <<>>
      BY <1>1, <1>2, <2>2, <3>3 DEF LocalType
    <3>6. CASE req[r].len = 0
      BY <1>4, <3>1, <3>2, <3>3, <3>4, <3>5, <3>6 DEF Position, Mid
    <3>7. CASE req[r].len # 0
      <4> DEFINE c == req[r].off
                 size == FileSize[req[r].nid]
      <4>1. c \in Nat /\ size \in Nat /\ c < size
        BY <2>2, <3>4, <3>7
      <4>2. ValidInBlock(r)' = Least(size - ((c + 0) - ((c + 0) % BlockSize)), BlockSize)
        BY <3>4, <3>5 DEF ValidInBlock, BlockStart, Cursor
      <4>3. c + 0 = c
        BY <4>1
      <4> HIDE DEF c, size
      <4>4. /\ c % BlockSize \in 0 .. BlockSize - 1
            /\ Least(size - (c - (c % BlockSize)), BlockSize) \in Nat
            /\ c % BlockSize < Least(size - (c - (c % BlockSize)), BlockSize)
        BY <4>1, Geometry
      <4>5. 0 < ValidInBlock(r)'
        BY <4>2, <4>3, <4>4, ImageAssumption
      <4>6. pc'[r] = "fill" /\ res'[r] # "ok"
        BY <3>3, <3>5, <3>7
      <4>7. Position(r)'
        BY <2>2, <3>4, <3>5, <3>7, <4>5, <4>6 DEF Position, Mid
      <4> QED
        BY <1>4, <3>1, <3>2, <3>3, <4>7
    <3> QED
      BY <3>6, <3>7
  <2> QED
    BY <1>6, <2>1, <2>2 DEF Open
<1>7. CASE Refuse(r)
  BY <1>5, <1>7 DEF Refuse, Errors, Refusals
<1>8. CASE CutShort(r) \/ NoCodec(r) \/ DecodeRefused(r) \/ DeviceFails(r)
  BY <1>5, <1>8 DEF CutShort, NoCodec, DecodeRefused, DeviceFails, Errors, Refusals
<1>9. CASE Untruthful(r)
  <2>1. CASE Fail(r, "BadInode")
    BY <1>5, <1>9, <2>1 DEF Untruthful, Errors, Refusals
  <2>2. CASE Absorb(r, Zeros(FillTake(r)))
    <3>1. pc[r] \in Mid /\ Brackets(r) /\ cache' = cache
      BY <1>9 DEF Untruthful, Mid
    <3>2. FillTake(r) \in Nat /\ Len(block[r]) + FillTake(r) <= ValidInBlock(r)
      BY <1>1, <3>1, PayloadSlice
    <3>3. Zeros(FillTake(r)) \in Seq(Bytes) /\ Len(Zeros(FillTake(r))) = FillTake(r)
      BY <3>2, ZerosFacts
    <3> QED
      BY <1>1, <1>2, <1>4, <2>2, <3>1, <3>2, <3>3, AbsorbFacts
  <2> QED
    BY <1>9, <2>1, <2>2 DEF Untruthful
<1>10. CASE ReadPlain(r)
  <2>1. pc[r] \in Mid /\ Brackets(r) /\ cache' = cache /\ Absorb(r, Slice(r, Payload[Ext(r)]))
    BY <1>10 DEF ReadPlain, Mid
  <2> QED
    BY <1>1, <1>2, <1>4, <2>1, PayloadSlice, AbsorbFacts
<1>11. CASE Lookup(r)
  <2>1. /\ pc[r] \in Mid /\ Brackets(r) /\ pc[r] = "fill"
        /\ Ext(r).kind \in Coded
        /\ cache' = AfterLookup(cache, KeyOf(Ext(r)))
    BY <1>11 DEF Lookup, Mid
  <2>2. CacheInv'
    BY <1>1, <2>1, LookupCoherent
  <2>3. CASE ~Hit(cache, KeyOf(Ext(r)))
    <3>1. pc' = [pc EXCEPT ![r] = "decode"] /\ UNCHANGED <<buf, block, got, res>>
      BY <1>11, <2>3 DEF Lookup
    <3>2. LocalType' /\ OthersUnmoved(r)
      BY <1>1, <1>2, <3>1 DEF LocalType, OthersUnmoved, Mid
    <3>3. pc'[r] = "decode"
      BY <1>1, <3>1 DEF LocalType
    <3>4. Position(r)'
      BY <1>1, <1>2, <2>1, <3>1, <3>3
      DEF Position, Mid, ValidInBlock, BlockStart, Cursor, Brackets, Ext, FillAt
    <3> QED
      BY <2>2, <3>2, <3>4
  <2>4. CASE Hit(cache, KeyOf(Ext(r)))
    <3>1. /\ cache.val[KeyOf(Ext(r))] = Payload[Ext(r)]
          /\ ~(FillAt(r) - Ext(r).start + FillTake(r) > Len(cache.val[KeyOf(Ext(r))]))
      BY <2>1, <2>4, HitFacts
    <3>2. Absorb(r, Slice(r, Payload[Ext(r)]))
      BY <1>11, <2>4, <3>1 DEF Lookup
    <3> QED
      BY <1>1, <1>2, <2>1, <2>2, <3>2, PayloadSlice, AbsorbFacts
  <2> QED
    BY <2>3, <2>4
<1>12. CASE Decode(r)
  <2>1. /\ pc[r] = "decode" /\ Ext(r).kind = "compressed"
        /\ pc' = [pc EXCEPT ![r] = "insert"]
        /\ got' = [got EXCEPT ![r] = Payload[Ext(r)]]
        /\ UNCHANGED <<cache, buf, block, res>>
    BY <1>12 DEF Decode
  <2>2. Payload[Ext(r)] \in Seq(Bytes) /\ pc[r] \in Mid
    BY <1>1, <2>1, FillFacts DEF Mid
  <2>3. LocalType' /\ OthersUnmoved(r)
    BY <1>1, <1>2, <2>1, <2>2 DEF LocalType, OthersUnmoved, Mid
  <2>4. pc'[r] = "insert" /\ got'[r] = Payload[Ext(r)]
    BY <1>1, <2>1 DEF LocalType
  <2>5. Position(r)'
    BY <1>1, <1>2, <2>1, <2>4
    DEF Position, Mid, ValidInBlock, BlockStart, Cursor, Brackets, Ext, FillAt
  <2> QED
    BY <1>4, <2>1, <2>3, <2>5
<1>13. CASE InsertDecoded(r)
  <2>1. /\ pc[r] = "insert" /\ pc[r] \in Mid
        /\ cache' = Insert(cache, KeyOf(Ext(r)), got[r])
        /\ Absorb(r, Slice(r, got[r]))
    BY <1>13 DEF InsertDecoded, Mid
  <2>2. got[r] = Payload[Ext(r)] /\ Brackets(r) /\ Ext(r).kind = "compressed"
    BY <1>1, <2>1 DEF Position
  <2>3. Ext(r) \in Extent
    BY <1>1, <2>1, FillFacts
  <2>4. CacheInv'
    BY <1>1, <2>1, <2>2, <2>3, InsertCoherent
  <2> QED
    BY <1>1, <1>2, <2>1, <2>2, <2>4, PayloadSlice, AbsorbFacts
<1> QED
  BY <1>6, <1>7, <1>8, <1>9, <1>10, <1>11, <1>12, <1>13 DEF Step

\* A new call, and a resize.
LEMMA BeginInv ==
  ASSUME Inv, NEW r \in Reader, NEW q \in Request, Begin(r, q)
  PROVE  Inv' /\ OthersUnmoved(r)
<1>1. LocalType /\ Position(r) /\ CacheInv /\ CountersType
  BY DEF Inv
<1>2. <<>> \in Seq(Bytes)
  BY EmptySeq
<1>3. LocalType' /\ OthersUnmoved(r)
  BY <1>1, <1>2 DEF Begin, LocalType, OthersUnmoved
<1>4. pc'[r] = "open" /\ buf'[r] = <<>> /\ block'[r] = <<>> /\ res'[r] = "none"
  BY <1>1 DEF Begin, LocalType, Position, Mid
<1>5. Position(r)'
  BY <1>4 DEF Position, Mid
<1>6. CountersType'
  BY <1>1, CallAssumption DEF Begin, CountersType
<1>7. CacheInv'
  BY <1>1 DEF Begin, CacheInv, CacheCoherent, WellFormed, Held
<1> QED
  BY <1>3, <1>5, <1>6, <1>7, ReaderStep

LEMMA ResizeInv ==
  ASSUME Inv, NEW n \in Capacity, Resize(n)
  PROVE  Inv'
<1>1. CacheInv'
  BY ResizeCoherent DEF Resize
<1>2. UNCHANGED <<pc, req, buf, block, got, res, reads>>
  BY DEF Resize
<1>3. LocalType'
  BY <1>2 DEF Inv, LocalType
<1>4. CountersType'
  BY <1>2, CallAssumption DEF Inv, CountersType, Resize
<1>5. \A r \in Reader : Position(r)'
  BY <1>2 DEF Inv, Position, ValidInBlock, BlockStart, Cursor, Brackets, Ext, FillAt
<1> QED
  BY <1>1, <1>3, <1>4, <1>5 DEF Inv

LEMMA NextInv == Inv /\ [Next]_vars => Inv'
<1> SUFFICES ASSUME Inv, [Next]_vars PROVE Inv'
  OBVIOUS
<1>1. ASSUME NEW r \in Reader, NEW q \in Request, Begin(r, q) PROVE Inv'
  BY <1>1, BeginInv
<1>2. ASSUME NEW r \in Reader, Step(r) PROVE Inv'
  BY <1>2, StepInv
<1>3. ASSUME NEW n \in Capacity, Resize(n) PROVE Inv'
  BY <1>3, ResizeInv
<1>4. CASE UNCHANGED vars
  <2> USE <1>4 DEF vars
  <2>1. CacheInv' /\ LocalType' /\ CountersType'
    BY DEF Inv, CacheInv, CacheCoherent, WellFormed, Held, LocalType, CountersType
  <2>2. \A r \in Reader : Position(r)'
    BY DEF Inv, Position, ValidInBlock, BlockStart, Cursor, Brackets, Ext, FillAt
  <2> QED
    BY <2>1, <2>2 DEF Inv
<1> QED
  BY <1>1, <1>2, <1>3, <1>4 DEF Next

THEOREM Invariance == Spec => []Inv
<1>1. Init => Inv
  BY InitInv
<1>2. Inv /\ [Next]_vars => Inv'
  BY NextInv
<1> QED
  BY <1>1, <1>2, PTL DEF Spec

\* Every variable keeps its type, whatever the image and the schedule.
THEOREM TypeCorrect == Spec => []TypeOK
  BY Invariance, InvGives, PTL

\* Whatever the interleaving of lookups, decodes, inserts and resizes, every
\* cached value is the payload of the extent its key names.
THEOREM CoherenceCorrect == Spec => []CacheCoherent
  BY Invariance, InvGives, PTL

\* The entry limit holds in every state: an insert that lands after a resize is
\* bound by the new capacity, and a disabled cache stays empty.
THEOREM CapacityCorrect == Spec => []CacheWithinCapacity
  BY Invariance, InvGives, PTL

-----------------------------------------------------------------------------
\* The byte total.  A weight is a sum of lengths over a finite set; the facts about
\* such sums go by induction on the size of the set.

LEMMA NatMin ==
  ASSUME NEW T \in SUBSET Nat, T # {}
  PROVE  \E x \in T : \A y \in T : ~(y < x)
<1>1. \E x \in T : \A y \in T : ~(<<y, x>> \in OpToRel(<, Nat))
  BY NatLessThanWellFounded, WFMin
<1> QED BY <1>1 DEF OpToRel

LEMMA NatInd ==
  ASSUME NEW S \in SUBSET Nat, 0 \in S, \A n \in S : n + 1 \in S
  PROVE  S = Nat
<1> SUFFICES ASSUME S # Nat PROVE FALSE
  OBVIOUS
<1>1. PICK x \in Nat \ S : \A y \in Nat \ S : ~(y < x)
  BY NatMin
<1>2. x # 0 /\ x - 1 \in Nat /\ x - 1 < x
  BY <1>1
<1>3. x - 1 \in S
  BY <1>1, <1>2
<1> QED BY <1>1, <1>2, <1>3

\* One step of the sum of the entries' lengths: what is added for a set s of keys to
\* the sum without the first key, from the sums g of the smaller sets.
First(s) == CHOOSE x \in s : TRUE
SumOf(g, c, s) == IF s = {} THEN 0 ELSE Len(c.val[First(s)]) + g[s \ {First(s)}]

\* S is finite, and every entry in it has a length.
Weighable(c, S) == IsFiniteSet(S) /\ \A k \in S : Len(c.val[k]) \in Nat

Small(S, n) == {s \in SUBSET S : Cardinality(s) <= n}
Summed(c, S, n) == \E g : g = [s \in Small(S, n) |-> SumOf(g, c, s)]

\* The sums of all subsets of a finite set exist.
LEMMA SumExists ==
  ASSUME NEW c, NEW S, IsFiniteSet(S)
  PROVE  \E g : g = [s \in SUBSET S |-> SumOf(g, c, s)]
<1> DEFINE T == {n \in Nat : Summed(c, S, n)}
<1>0. \A s \in SUBSET S : IsFiniteSet(s) /\ Cardinality(s) \in Nat
  BY FS_Subset, FS_CardinalityType
<1>1. 0 \in T
  <2> DEFINE g == [s \in Small(S, 0) |-> 0]
  <2>1. \A s \in Small(S, 0) : s = {}
    BY <1>0, FS_EmptySet DEF Small
  <2>2. g = [s \in Small(S, 0) |-> SumOf(g, c, s)]
    BY <2>1 DEF SumOf
  <2> HIDE DEF g
  <2>3. Summed(c, S, 0)
    BY <2>2 DEF Summed
  <2> QED BY <2>3
<1>2. ASSUME NEW n \in T PROVE n + 1 \in T
  <2>1. PICK g : g = [s \in Small(S, n) |-> SumOf(g, c, s)]
    BY <1>2 DEF Summed
  <2> DEFINE h == [s \in Small(S, n + 1) |-> SumOf(g, c, s)]
  <2>2. ASSUME NEW s \in Small(S, n + 1), s # {} PROVE s \ {First(s)} \in Small(S, n)
    <3>1. First(s) \in s
      BY <2>2 DEF First
    <3>2. Cardinality(s \ {First(s)}) = Cardinality(s) - 1
      BY <1>0, <3>1, FS_RemoveElement DEF Small
    <3> QED BY <1>0, <3>2 DEF Small
  <2>3. \A s \in Small(S, n) : s \in Small(S, n + 1)
    BY <1>0 DEF Small
  <2>4. \A s \in Small(S, n) : h[s] = g[s]
    BY <2>1, <2>3
  <2>5. ASSUME NEW s \in Small(S, n + 1) PROVE h[s] = SumOf(h, c, s)
    <3>1. h[s] = SumOf(g, c, s)
      OBVIOUS
    <3>2. s # {} => h[s \ {First(s)}] = g[s \ {First(s)}]
      BY <2>2, <2>4
    <3> HIDE DEF h
    <3> QED BY <3>1, <3>2 DEF SumOf
  <2>6. h = [s \in Small(S, n + 1) |-> SumOf(h, c, s)]
    BY <2>5
  <2> HIDE DEF h
  <2>7. Summed(c, S, n + 1)
    BY <2>6 DEF Summed
  <2> QED BY <2>7
<1>3. T = Nat
  <2> HIDE DEF T
  <2>1. T \in SUBSET Nat
    BY DEF T
  <2> QED BY <1>1, <1>2, <2>1, NatInd
<1>4. Small(S, Cardinality(S)) = SUBSET S
  BY <1>0, FS_Subset, FS_CardinalityType DEF Small
<1>5. Cardinality(S) \in T
  BY <1>0, <1>3
<1> QED BY <1>4, <1>5 DEF Summed

\* The sums of the subsets of S, as Weight computes them.
Sums(c, S) == CHOOSE g : g = [s \in SUBSET S |-> SumOf(g, c, s)]

LEMMA WeightIs ==
  ASSUME NEW c, NEW S
  PROVE  Weight(c, S) = Sums(c, S)[S]
<1>1. Weight(c, S) =
        LET iter[s \in SUBSET S] ==
              IF s = {} THEN 0
              ELSE LET x == CHOOSE x \in s : TRUE
                   IN  Len(c.val[x]) + iter[s \ {x}]
        IN  iter[S]
  BY DEF Weight, MapThenSumSet, MapThenFoldSet
<1>2. Sums(c, S) =
        LET iter[s \in SUBSET S] ==
              IF s = {} THEN 0
              ELSE LET x == CHOOSE x \in s : TRUE
                   IN  Len(c.val[x]) + iter[s \ {x}]
        IN  iter
  BY DEF Sums, SumOf, First
<1> QED BY <1>1, <1>2

LEMMA SumsAre ==
  ASSUME NEW c, NEW S, IsFiniteSet(S), NEW T \in SUBSET S
  PROVE  Sums(c, S)[T] = SumOf(Sums(c, S), c, T)
<1> DEFINE G == Sums(c, S)
<1>1. G = [s \in SUBSET S |-> SumOf(G, c, s)]
  BY SumExists DEF Sums
<1> HIDE DEF G
<1>2. G[T] = SumOf(G, c, T)
  BY <1>1
<1> QED BY <1>2 DEF G

\* A sum is the same wherever the set it is of lies, and depends on nothing but the
\* lengths of its entries.
LEMMA SumsAgree ==
  ASSUME NEW c, NEW d, NEW S, NEW R, IsFiniteSet(S), IsFiniteSet(R),
         NEW T \in SUBSET S, T \in SUBSET R,
         \A k \in T : Len(c.val[k]) = Len(d.val[k])
  PROVE  Sums(c, S)[T] = Sums(d, R)[T]
<1> DEFINE Same(t) == Sums(c, S)[t] = Sums(d, R)[t]
           N == {n \in Nat : \A t \in SUBSET T : Cardinality(t) = n => Same(t)}
<1>1. \A t \in SUBSET T : /\ IsFiniteSet(t) /\ Cardinality(t) \in Nat
                          /\ t \in SUBSET S /\ t \in SUBSET R
  BY FS_Subset, FS_CardinalityType
<1>2. \A t \in SUBSET T : /\ Sums(c, S)[t] = SumOf(Sums(c, S), c, t)
                          /\ Sums(d, R)[t] = SumOf(Sums(d, R), d, t)
  BY <1>1, SumsAre
<1>3. Same({})
  BY <1>2 DEF SumOf
<1>4. 0 \in N
  BY <1>1, <1>3, FS_EmptySet
<1>5. ASSUME NEW n \in N PROVE n + 1 \in N
  <2>0. n \in Nat /\ n + 1 # 0
    OBVIOUS
  <2>1. ASSUME NEW t \in SUBSET T, Cardinality(t) = n + 1 PROVE Same(t)
    <3>1. t # {}
      BY <2>0, <2>1, FS_EmptySet
    <3>2. First(t) \in t
      BY <3>1 DEF First
    <3>3. Cardinality(t \ {First(t)}) = n
      BY <1>1, <2>1, <3>2, FS_RemoveElement
    <3>4. Same(t \ {First(t)})
      BY <1>5, <3>3
    <3>5. Len(c.val[First(t)]) = Len(d.val[First(t)])
      BY <3>2
    <3> QED BY <1>2, <3>1, <3>4, <3>5 DEF SumOf
  <2> HIDE DEF Same
  <2> QED BY <2>1
<1>6. N = Nat
  <2> HIDE DEF N
  <2>1. N \in SUBSET Nat
    BY DEF N
  <2> QED BY <1>4, <1>5, <2>1, NatInd
<1> QED BY <1>1, <1>6

LEMMA WeightSame ==
  ASSUME NEW c, NEW d, NEW S, IsFiniteSet(S), \A k \in S : Len(c.val[k]) = Len(d.val[k])
  PROVE  Weight(c, S) = Weight(d, S)
<1>1. Sums(c, S)[S] = Sums(d, S)[S]
  BY SumsAgree
<1> QED BY <1>1, WeightIs

\* Weight is the sum with the first key put aside.
LEMMA WeightStep ==
  ASSUME NEW c, NEW S, IsFiniteSet(S), S # {}
  PROVE  Weight(c, S) = Len(c.val[First(S)]) + Weight(c, S \ {First(S)})
<1> DEFINE R == S \ {First(S)}
<1>1. IsFiniteSet(R) /\ R \in SUBSET S /\ R \in SUBSET R /\ S \in SUBSET S
  BY FS_Subset
<1>2. Sums(c, S)[S] = SumOf(Sums(c, S), c, S)
  BY SumsAre
<1>3. Sums(c, S)[S] = Len(c.val[First(S)]) + Sums(c, S)[R]
  BY <1>1, <1>2 DEF SumOf
<1>4. Sums(c, S)[R] = Sums(c, R)[R]
  <2> HIDE DEF R
  <2> QED BY <1>1, SumsAgree
<1> QED BY <1>3, <1>4, WeightIs

LEMMA WeightEmpty == \A c : Weight(c, {}) = 0
<1> TAKE c
<1>1. Sums(c, {})[{}] = SumOf(Sums(c, {}), c, {})
  BY SumsAre, FS_EmptySet
<1>2. Sums(c, {})[{}] = 0
  BY <1>1 DEF SumOf
<1> QED BY <1>2, WeightIs

LEMMA WeightNat ==
  ASSUME NEW c, NEW S, Weighable(c, S)
  PROVE  Weight(c, S) \in Nat
<1> DEFINE N == {n \in Nat : \A t \in SUBSET S : Cardinality(t) = n => Weight(c, t) \in Nat}
<1>1. \A t \in SUBSET S : IsFiniteSet(t) /\ Cardinality(t) \in Nat
  BY FS_Subset, FS_CardinalityType DEF Weighable
<1>2. 0 \in N
  BY <1>1, WeightEmpty, FS_EmptySet
<1>3. ASSUME NEW n \in N PROVE n + 1 \in N
  <2>0. n \in Nat /\ n + 1 # 0
    OBVIOUS
  <2>1. ASSUME NEW t \in SUBSET S, Cardinality(t) = n + 1 PROVE Weight(c, t) \in Nat
    <3>1. t # {}
      BY <2>0, <2>1, FS_EmptySet
    <3>2. First(t) \in t /\ Len(c.val[First(t)]) \in Nat
      BY <3>1 DEF First, Weighable
    <3>3. Cardinality(t \ {First(t)}) = n
      BY <1>1, <2>0, <2>1, <3>2, FS_RemoveElement
    <3>4. Weight(c, t \ {First(t)}) \in Nat
      BY <1>3, <3>3
    <3> QED BY <1>1, <3>1, <3>2, <3>4, WeightStep
  <2> QED BY <2>1
<1>4. N = Nat
  <2> HIDE DEF N
  <2>1. N \in SUBSET Nat
    BY DEF N
  <2> QED BY <1>2, <1>3, <2>1, NatInd
<1> QED BY <1>1, <1>4

\* Any key may be put aside in place of the first.
LEMMA WeightRemove ==
  ASSUME NEW c, NEW S, Weighable(c, S), NEW x \in S
  PROVE  Weight(c, S) = Len(c.val[x]) + Weight(c, S \ {x})
<1> DEFINE L(k) == Len(c.val[k])
           W(s) == Weight(c, s)
           Any(t) == \A k \in t : W(t) = L(k) + W(t \ {k})
           N == {n \in Nat : \A t \in SUBSET S : Cardinality(t) = n => Any(t)}
<1>1. \A t \in SUBSET S : IsFiniteSet(t) /\ Cardinality(t) \in Nat /\ W(t) \in Nat
  <2>1. ASSUME NEW t \in SUBSET S PROVE IsFiniteSet(t) /\ Cardinality(t) \in Nat
    BY FS_Subset, FS_CardinalityType DEF Weighable
  <2>2. ASSUME NEW t \in SUBSET S PROVE W(t) \in Nat
    <3>1. Weighable(c, t)
      BY <2>1 DEF Weighable
    <3> QED BY <3>1, WeightNat
  <2> QED BY <2>1, <2>2
<1>2. 0 \in N
  BY <1>1, FS_EmptySet
<1>3. ASSUME NEW n \in N PROVE n + 1 \in N
  <2>0. n \in Nat /\ n + 1 # 0
    OBVIOUS
  <2>1. ASSUME NEW t \in SUBSET S, Cardinality(t) = n + 1 PROVE Any(t)
    <3> DEFINE y == First(t)
    <3>1. t # {}
      BY <2>0, <2>1, FS_EmptySet
    <3>2. y \in t
      BY <3>1 DEF First
    <3>3. W(t) = L(y) + W(t \ {y})
      BY <1>1, <3>1, WeightStep
    <3> SUFFICES ASSUME NEW k \in t, k # y PROVE W(t) = L(k) + W(t \ {k})
      BY <3>3
    <3>4. Any(t \ {k}) /\ Any(t \ {y})
      <4>1. Cardinality(t \ {k}) = n /\ Cardinality(t \ {y}) = n
        BY <1>1, <2>0, <2>1, <3>2, FS_RemoveElement
      <4> QED BY <1>3, <4>1
    <3> DEFINE u == (t \ {y}) \ {k}
    <3>5. W(t \ {y}) = L(k) + W(u) /\ W(t \ {k}) = L(y) + W(u)
      <4>1. k \in t \ {y} /\ y \in t \ {k} /\ u = (t \ {k}) \ {y}
        BY <3>2
      <4> QED BY <3>4, <4>1
    <3>6. W(u) \in Nat /\ L(k) \in Nat /\ L(y) \in Nat
      BY <1>1, <3>2 DEF Weighable
    <3> HIDE DEF W, L, u
    <3> QED BY <3>3, <3>5, <3>6
  <2> HIDE DEF Any
  <2> QED BY <2>1
<1>4. N = Nat
  <2> HIDE DEF N
  <2>1. N \in SUBSET Nat
    BY DEF N
  <2> QED BY <1>2, <1>3, <2>1, NatInd
<1> QED BY <1>1, <1>4

\* A set weighs what a part of it weighs and what the rest does.
LEMMA WeightSplit ==
  ASSUME NEW c, NEW S, Weighable(c, S), NEW T \in SUBSET S
  PROVE  Weight(c, S) = Weight(c, T) + Weight(c, S \ T)
<1> DEFINE W(s) == Weight(c, s)
           Even(t) == W(S) = W(t) + W(S \ t)
           N == {n \in Nat : \A t \in SUBSET S : Cardinality(t) = n => Even(t)}
<1>1. \A t \in SUBSET S : Weighable(c, t) /\ Cardinality(t) \in Nat /\ W(t) \in Nat
  <2>1. ASSUME NEW t \in SUBSET S PROVE Weighable(c, t) /\ Cardinality(t) \in Nat
    BY FS_Subset, FS_CardinalityType DEF Weighable
  <2> QED BY <2>1, WeightNat
<1>2. 0 \in N
  <2>1. Even({})
    BY <1>1, WeightEmpty
  <2> QED BY <1>1, <2>1, FS_EmptySet DEF Weighable
<1>3. ASSUME NEW n \in N PROVE n + 1 \in N
  <2>0. n \in Nat /\ n + 1 # 0
    OBVIOUS
  <2>1. ASSUME NEW t \in SUBSET S, Cardinality(t) = n + 1 PROVE Even(t)
    <3>1. t # {}
      BY <2>0, <2>1, FS_EmptySet
    <3>2. PICK x \in t : TRUE
      BY <3>1
    <3> DEFINE u == t \ {x}
               l == Len(c.val[x])
    <3>3. Cardinality(u) = n
      BY <1>1, <2>0, <2>1, FS_RemoveElement DEF Weighable
    <3>4. W(S) = W(u) + W(S \ u)
      BY <1>3, <3>3
    <3>5. W(t) = l + W(u)
      BY <1>1, WeightRemove
    <3>6. W(S \ u) = l + W(S \ t)
      <4>1. x \in S \ u /\ (S \ u) \ {x} = S \ t
        OBVIOUS
      <4> HIDE DEF u
      <4> QED BY <1>1, <4>1, WeightRemove
    <3>7. W(u) \in Nat /\ W(t) \in Nat /\ W(S \ t) \in Nat /\ l \in Nat
      BY <1>1 DEF Weighable
    <3> HIDE DEF W, u, l
    <3>8. W(S) = W(t) + W(S \ t)
      BY <3>4, <3>5, <3>6, <3>7
    <3> QED BY <3>8 DEF W
  <2> HIDE DEF Even
  <2> QED BY <2>1
<1>4. N = Nat
  <2> HIDE DEF N
  <2>1. N \in SUBSET Nat
    BY DEF N
  <2> QED BY <1>2, <1>3, <2>1, NatInd
<1> QED BY <1>1, <1>4

\* The entries have lengths, and the byte total is theirs.
Accounted(c) ==
  /\ Weighable(c, Held(c))
  /\ c.bytes = Weight(c, Held(c))

\* A push keeps the account: what it displaces leaves the total.
LEMMA PushAccounted ==
  ASSUME NEW c, NEW k, NEW v, WellFormed(c), Accounted(c), Len(v) \in Nat
  PROVE  Accounted(Pushed(c, k, v))
<1> DEFINE d == Pushed(c, k, v)
           out == Displaced(c, k)
           rest == Held(c) \ out
           kept == rest \cup {k}
           age == Touch(c.age, k)
<1>1. d = [c EXCEPT !.age   = [x \in kept |-> age[x]],
                    !.val   = [x \in kept |-> IF x = k THEN v ELSE c.val[x]],
                    !.bytes = @ + Len(v) - Weight(c, out)]
  BY DEF Pushed
<1>2. /\ d.val = [x \in kept |-> IF x = k THEN v ELSE c.val[x]]
      /\ d.bytes = c.bytes + Len(v) - Weight(c, out)
  BY <1>1 DEF WellFormed, CacheField
<1>3. /\ out \in SUBSET Held(c) /\ k \notin rest
      /\ rest \in SUBSET Held(c) /\ Held(c) \ out = rest
  BY DEF Displaced
<1> HIDE DEF d, out, rest, age
<1>4. Held(d) = kept
  BY <1>2 DEF Held
<1>5. IsFiniteSet(rest) /\ IsFiniteSet(out) /\ Weighable(c, rest) /\ Weighable(c, out)
  BY <1>3, FS_Subset DEF Accounted, Weighable
<1>6. Weighable(d, kept)
  <2>1. IsFiniteSet(kept)
    BY <1>5, FS_AddElement
  <2>2. \A x \in kept : Len(d.val[x]) \in Nat
    BY <1>2, <1>3 DEF Accounted, Weighable
  <2> QED BY <2>1, <2>2 DEF Weighable
<1>7. Weight(d, kept) = Len(v) + Weight(c, rest)
  <2>1. k \in kept /\ kept \ {k} = rest
    BY <1>3
  <2>2. Weight(d, kept) = Len(d.val[k]) + Weight(d, rest)
    BY <1>6, <2>1, WeightRemove
  <2>3. d.val[k] = v /\ \A x \in rest : d.val[x] = c.val[x]
    BY <1>2, <1>3
  <2>4. Weight(d, rest) = Weight(c, rest)
    BY <1>5, <2>3, WeightSame
  <2> QED BY <2>2, <2>3, <2>4
<1>8. Weight(c, Held(c)) = Weight(c, out) + Weight(c, rest)
  BY <1>3, WeightSplit DEF Accounted
<1>9. Weight(c, out) \in Nat /\ Weight(c, rest) \in Nat
  BY <1>5, WeightNat
<1>10. d.bytes = Weight(d, kept)
  BY <1>2, <1>7, <1>8, <1>9 DEF Accounted
<1> QED BY <1>4, <1>6, <1>10 DEF Accounted, d

\* The loop over pop_lru ends within the limit, the total still that of the entries.
LEMMA TrimAccounted ==
  ASSUME NEW c, WellFormed(c), Accounted(c)
  PROVE  Accounted(Trimmed(c)) /\ Trimmed(c).bytes <= ByteLimit
<1> DEFINE n == Fitting(c)
           kept == Newest(c, n)
           all == Cardinality(Held(c))
           d == Trimmed(c)
           total(m) == c.bytes - Weight(c, Held(c) \ Newest(c, m))
           Fits(m) == m = 0 \/ total(m) <= ByteLimit
<1>1. d = [c EXCEPT !.age   = [x \in kept |-> c.age[x]],
                    !.val   = [x \in kept |-> c.val[x]],
                    !.bytes = @ - Weight(c, Held(c) \ kept)]
  BY DEF Trimmed
<1>2. d.val = [x \in kept |-> c.val[x]] /\ d.bytes = c.bytes - Weight(c, Held(c) \ kept)
  BY <1>1 DEF WellFormed, CacheField
<1>3. \A m : Newest(c, m) \in SUBSET Held(c)
  BY DEF Newest
<1>4. all \in Nat /\ IsFiniteSet(Held(c))
  BY FS_CardinalityType DEF Accounted, Weighable
<1>5. \A m : total(m) = Weight(c, Newest(c, m)) /\ total(m) \in Nat
  <2> TAKE m
  <2> DEFINE s == Newest(c, m)
  <2>1. s \in SUBSET Held(c) /\ Held(c) \ s \in SUBSET Held(c)
    BY <1>3
  <2>2. Weighable(c, s) /\ Weighable(c, Held(c) \ s)
    BY <1>4, <2>1, FS_Subset DEF Accounted, Weighable
  <2>3. Weight(c, s) \in Nat /\ Weight(c, Held(c) \ s) \in Nat
    BY <2>2, WeightNat
  <2>4. c.bytes = Weight(c, s) + Weight(c, Held(c) \ s)
    BY <2>1, WeightSplit DEF Accounted
  <2> HIDE DEF s
  <2> QED BY <2>3, <2>4 DEF s
<1> HIDE DEF total
<1>6. \E m \in 0 .. all : Fits(m) /\ \A i \in m + 1 .. all : total(i) > ByteLimit
  <2> DEFINE T == {j \in 0 .. all : Fits(all - j)}
  <2>1. T \in SUBSET Nat /\ all \in T
    BY <1>4
  <2>2. PICK j \in T : \A i \in T : ~(i < j)
    BY <2>1, NatMin
  <2>3. all - j \in 0 .. all /\ Fits(all - j)
    BY <1>4, <2>2
  <2>4. ASSUME NEW i \in (all - j) + 1 .. all PROVE total(i) > ByteLimit
    <3>1. all - i \in 0 .. all /\ all - i < j /\ all - (all - i) = i /\ i # 0
      BY <1>4, <2>2, <2>3
    <3>2. ~Fits(i)
      BY <2>2, <3>1
    <3> QED BY <1>5, <3>2, LimitAssumption
  <2> QED BY <2>3, <2>4
<1>7. n \in 0 .. all /\ Fits(n)
  <2>1. n = CHOOSE m \in 0 .. all : Fits(m) /\ \A i \in m + 1 .. all : total(i) > ByteLimit
    BY DEF Fitting, total
  <2> HIDE DEF n, Fits
  <2> QED BY <1>6, <2>1
<1> HIDE DEF n
<1>8. total(n) <= ByteLimit
  <2>1. CASE n = 0
    <3>1. \A k \in Held(c) :
            Cardinality({j \in Held(c) : c.age[j] < c.age[k]}) \in Nat
      <4> TAKE k \in Held(c)
      <4>1. {j \in Held(c) : c.age[j] < c.age[k]} \in SUBSET Held(c)
        OBVIOUS
      <4> QED BY <1>4, <4>1, FS_Subset, FS_CardinalityType
    <3>2. Newest(c, 0) = {}
      BY <3>1 DEF Newest
    <3> QED BY <1>5, <2>1, <3>2, WeightEmpty, LimitAssumption
  <2> QED BY <1>7, <2>1
<1>9. kept \in SUBSET Held(c) /\ d.bytes = total(n) /\ total(n) = Weight(c, kept)
  BY <1>2, <1>3, <1>5 DEF total
<1> HIDE DEF d, kept
<1>10. Held(d) = kept /\ \A x \in kept : d.val[x] = c.val[x]
  BY <1>2 DEF Held
<1>11. Weighable(d, kept)
  BY <1>4, <1>9, <1>10, FS_Subset DEF Accounted, Weighable
<1>12. Weight(d, kept) = Weight(c, kept)
  BY <1>10, <1>11, WeightSame DEF Weighable
<1> QED BY <1>8, <1>9, <1>10, <1>11, <1>12 DEF Accounted, d

\* What holds of the byte total beside Inv.
BytesInv == Accounted(cache) /\ cache.bytes <= ByteLimit

LEMMA InsertAccounted ==
  ASSUME NEW c, NEW k, NEW v, WellFormed(c), Accounted(c), c.bytes <= ByteLimit, Len(v) \in Nat
  PROVE  Accounted(Insert(c, k, v)) /\ Insert(c, k, v).bytes <= ByteLimit
<1>1. CASE ~Live(c) \/ Len(v) > ByteLimit
  BY <1>1 DEF Insert
<1>2. CASE ~(~Live(c) \/ Len(v) > ByteLimit)
  <2>1. Insert(c, k, v) = Trimmed(Pushed(c, k, v))
    BY <1>2 DEF Insert
  <2>2. WellFormed(Pushed(c, k, v))
    BY <1>2, PushFacts
  <2> QED BY <2>1, <2>2, PushAccounted, TrimAccounted
<1> QED BY <1>1, <1>2

LEMMA NewAccounted ==
  ASSUME NEW n
  PROVE  Accounted(New(n)) /\ New(n).bytes <= ByteLimit
<1>1. Held(New(n)) = {} /\ New(n).bytes = 0
  <2>1. DOMAIN <<>> = {}
    OBVIOUS
  <2> QED BY <2>1 DEF New, Held
<1> QED BY <1>1, WeightEmpty, FS_EmptySet, LimitAssumption DEF Accounted, Weighable

\* A lookup does not touch the account.
LEMMA LookupAccounted ==
  ASSUME NEW c, NEW k, WellFormed(c), Accounted(c)
  PROVE  Accounted(AfterLookup(c, k)) /\ AfterLookup(c, k).bytes = c.bytes
<1> DEFINE d == AfterLookup(c, k)
<1>1. d.val = c.val /\ d.bytes = c.bytes
  BY DEF AfterLookup, WellFormed, CacheField
<1>2. Held(d) = Held(c)
  BY <1>1 DEF Held
<1> HIDE DEF d
<1>3. Weighable(d, Held(d))
  BY <1>1, <1>2 DEF Accounted, Weighable
<1>4. Weight(d, Held(d)) = Weight(c, Held(c))
  BY <1>1, <1>2, <1>3, WeightSame DEF Weighable
<1> QED BY <1>1, <1>3, <1>4 DEF Accounted, d

LEMMA NextBytes == Inv /\ BytesInv /\ [Next]_vars => BytesInv'
<1> SUFFICES ASSUME Inv, BytesInv, [Next]_vars PROVE BytesInv'
  OBVIOUS
<1>0. WellFormed(cache)
  BY DEF Inv, CacheInv
<1>1. CASE cache' = cache
  <2>1. Accounted(cache)' <=> Accounted(cache')
    BY DEF Accounted, Weighable, Weight, MapThenSumSet, MapThenFoldSet, Held
  <2> QED BY <1>1, <2>1 DEF BytesInv
<1>2. ASSUME NEW r \in Reader, Lookup(r) PROVE BytesInv'
  <2>1. cache' = AfterLookup(cache, KeyOf(Ext(r)))
    BY <1>2 DEF Lookup
  <2>2. Accounted(cache') /\ cache'.bytes = cache.bytes
    BY <1>0, <2>1, LookupAccounted DEF BytesInv
  <2> QED BY <2>2 DEF BytesInv
<1>3. ASSUME NEW r \in Reader, InsertDecoded(r) PROVE BytesInv'
  <2>1. pc[r] = "insert" /\ cache' = Insert(cache, KeyOf(Ext(r)), got[r])
    BY <1>3 DEF InsertDecoded
  <2>2. Len(got[r]) \in Nat
    BY LenProperties DEF Inv, LocalType
  <2>3. Accounted(cache') /\ cache'.bytes <= ByteLimit
    BY <1>0, <2>1, <2>2, InsertAccounted DEF BytesInv
  <2> QED BY <2>3 DEF BytesInv
<1>4. ASSUME NEW n \in Capacity, Resize(n) PROVE BytesInv'
  <2>1. cache' = New(n)
    BY <1>4 DEF Resize
  <2> QED BY <2>1, NewAccounted DEF BytesInv
<1>5. ASSUME NEW r \in Reader,
             \/ \E q \in Request : Begin(r, q)
             \/ Open(r) \/ Refuse(r) \/ Untruthful(r) \/ ReadPlain(r) \/ CutShort(r)
             \/ NoCodec(r) \/ DecodeRefused(r) \/ Decode(r) \/ DeviceFails(r)
      PROVE  BytesInv'
  <2>1. cache' = cache
    BY <1>5 DEF Begin, Open, Refuse, Untruthful, ReadPlain, CutShort, NoCodec,
                DecodeRefused, Decode, DeviceFails
  <2> QED BY <1>1, <2>1
<1>6. CASE UNCHANGED vars
  BY <1>1, <1>6 DEF vars
<1> QED BY <1>2, <1>3, <1>4, <1>5, <1>6 DEF Next, Step

\* The byte total kept by hand is what the entries held come to, and never above the
\* limit, whatever inserts, evictions and resizes came before (PclusterCache).
THEOREM BytesAlwaysAccounted == Spec => []BytesAccounted
<1>1. Init => BytesInv
  BY NewAccounted DEF Init, BytesInv
<1>2. BytesInv => BytesAccounted
  BY DEF BytesInv, Accounted, BytesAccounted
<1> QED
  BY Invariance, NextBytes, <1>1, <1>2, PTL DEF Spec

-----------------------------------------------------------------------------
\* What callers of `read_file` are promised: the bytes are the file's, a refusal has
\* a cause, and the whole call implements the service that has no cache, no blocks
\* and no steps inside a call.

\* x is the byte the image has at o of inode n, and it can be vouched for.
Good(n, o, x) == x = FileByte(n, o) /\ ~Unreadable(n, o)

\* Place k of the block reader r is filling is one the caller asked for.
AskedPlace(r, k) == InBlockOff(r) < k /\ k <= InBlockOff(r) + Take(r)

BlockRight(r, blk) ==
  \A k \in 1 .. Len(blk) :
    AskedPlace(r, k) => Good(req[r].nid, BlockStart(r) + k - 1, blk[k])

BufferRight(q, b) == \A i \in 1 .. Len(b) : Good(q.nid, q.off + i - 1, b[i])

\* What reader r has gathered is the file's, wherever its call is.
Right(r) ==
  Sound(req[r].nid) =>
    /\ pc[r] \in Mid \/ res[r] = "ok" => BufferRight(req[r], buf[r])
    /\ pc[r] \in Mid => BlockRight(r, block[r])
    /\ res[r] \in Refusals => Cause(req[r], res[r])

RightInv == Inv /\ \A r \in Reader : Right(r)
-----------------------------------------------------------------------------
\* On a sound inode the extent of the cursor holds it, a fill moves at least
\* one byte, and every byte of the fill belongs to that extent.
LEMMA SoundFill ==
  ASSUME LocalType, NEW r \in Reader, Position(r), pc[r] \in Mid, Sound(req[r].nid)
  PROVE  /\ Brackets(r)
         /\ FillTake(r) \in Nat /\ FillTake(r) > 0
         /\ Len(block[r]) + FillTake(r) <= ValidInBlock(r)
         /\ \A i \in 1 .. FillTake(r) : Index[req[r].nid][FillAt(r) + i - 1] = Ext(r)
<1> DEFINE n == req[r].nid
           e == Ext(r)
           f == FillAt(r)
           t == FillTake(r)
           b == Len(block[r])
           v == ValidInBlock(r)
           z == FileSize[n]
<1>1. /\ n \in Nid /\ f \in 0 .. z - 1 /\ z \in Nat /\ f \in Nat
      /\ e.start \in Nat /\ e.end \in Nat
      /\ b \in Nat /\ v \in Nat /\ b < v
      /\ f = BlockStart(r) + b /\ BlockStart(r) \in Nat /\ BlockStart(r) + v <= z
  BY FillFacts
<1>2. DOMAIN Index[n] = 0 .. z - 1
  BY <1>1, ImageAssumption
<1>3. /\ Index[n][f].start <= f /\ f < Index[n][f].end
      /\ \A p \in DOMAIN Index[n] :
           Index[n][f].start <= p /\ p < Index[n][f].end => Index[n][p] = Index[n][f]
  <2>1. n \in SoundInodes
    BY DEF Sound
  <2> QED
    BY <1>1, <1>2, <2>1 DEF SoundInodes
<1>4. e = Index[n][f]
  BY DEF Ext
<1>5. e.start <= f /\ f < e.end
  BY <1>3, <1>4
<1>7. t = IF v - b <= e.end - f THEN v - b ELSE e.end - f
  BY DEF FillTake, Least
<1> HIDE DEF e, f, t, b, v, z, n
<1>6. Brackets(r)
  <2>1. e.start <= f /\ f <= e.end
    BY <1>1, <1>5
  <2> QED
    BY <2>1 DEF Brackets, e, f
<1>8. t \in Nat /\ t > 0 /\ b + t <= v /\ f + t <= e.end
  <2>1. CASE v - b <= e.end - f
    BY <1>1, <1>5, <1>7, <2>1
  <2>2. CASE ~(v - b <= e.end - f)
    BY <1>1, <1>5, <1>7, <2>2
  <2> QED
    BY <2>1, <2>2
<1>9. ASSUME NEW i \in 1 .. t PROVE Index[n][f + i - 1] = e
  <2>1. /\ f + i - 1 \in 0 .. z - 1
        /\ e.start <= f + i - 1 /\ f + i - 1 < e.end
    BY <1>1, <1>5, <1>8
  <2> QED
    BY <2>1, <1>2, <1>3, <1>4
<1> QED
  BY <1>6, <1>8, <1>9 DEF e, f, t, b, v, n

\* The bytes of a fill are of the extent at its start, and of a block the call
\* touches: the one that holds its cursor.
LEMMA FillTouched ==
  ASSUME LocalType, NEW r \in Reader, Position(r), pc[r] \in Mid, Sound(req[r].nid),
         NEW o \in FillAt(r) .. FillAt(r) + FillTake(r) - 1
  PROVE  o \in Touched(req[r]) /\ Index[req[r].nid][o] = Ext(r)
<1> DEFINE n == req[r].nid
           f == FillAt(r)
           t == FillTake(r)
           b == Len(block[r])
           v == ValidInBlock(r)
           z == FileSize[n]
           s == BlockStart(r)
           c == Cursor(r)
<1>1. /\ n \in Nid /\ z \in Nat /\ b \in Nat /\ v \in Nat /\ f = s + b
      /\ s \in Nat /\ s + v <= z /\ c \in Nat /\ req[r].off \in Nat /\ req[r].len \in Nat
      /\ Len(buf[r]) \in Nat
  BY FillFacts
<1>0. \A i \in 1 .. t : Index[n][f + i - 1] = Ext(r)
  BY SoundFill
<1>2. t \in Nat /\ b + t <= v
  BY SoundFill
<1>3. BlockSize \in Nat /\ v <= BlockSize
  <2> DEFINE w == z - s
  <2>1. BlockSize \in Nat /\ w \in Int /\ v = IF w <= BlockSize THEN w ELSE BlockSize
    BY <1>1, ImageAssumption DEF ValidInBlock, Least
  <2> HIDE DEF w, v, n, f, t, b, z, s, c
  <2> QED BY <2>1
<1>4. s = c - (c % BlockSize)
  BY DEF BlockStart
<1>5. c \in Asked(req[r])
  <2> DEFINE g == Len(buf[r])
             p == req[r].off
             l == req[r].len
  <2>1. c = p + g /\ g < l /\ Asked(req[r]) = p .. p + l - 1
    BY DEF Cursor, Position, Asked
  <2>2. g \in Nat /\ p \in Nat /\ l \in Nat
    BY <1>1
  <2> HIDE DEF c, g, p, l
  <2>3. p + g \in p .. p + l - 1
    BY <2>1, <2>2
  <2> QED BY <2>1, <2>3
<1>6. DOMAIN Index[n] = 0 .. z - 1
  BY <1>1, ImageAssumption
<1> HIDE DEF n, f, t, b, v, z, s, c
<1>7. o \in 0 .. z - 1 /\ o \in s .. s + BlockSize - 1 /\ o - f + 1 \in 1 .. t
  <2>1. o \in f .. f + t - 1
    BY DEF f, t
  <2>2. o \in Int /\ f <= o /\ o <= f + t - 1
    BY <1>1, <1>2, <2>1
  <2>3. f \in Int /\ s \in Int /\ z \in Int /\ s <= f /\ f + t <= s + v
    BY <1>1, <1>2
  <2>4. f + t <= z /\ f + t <= s + BlockSize
    BY <1>1, <1>2, <1>3, <2>3
  <2>5. o \in 0 .. z - 1 /\ o \in s .. s + BlockSize - 1
    BY <1>1, <1>2, <1>3, <2>2, <2>3, <2>4
  <2>6. o - f + 1 \in 1 .. t
    BY <1>2, <2>2, <2>3
  <2> QED
    BY <2>5, <2>6
<1>8. Index[n][o] = Ext(r)
  <2>1. f + (o - f + 1) - 1 = o
    BY <1>1, <1>7
  <2> QED
    BY <1>0, <1>7, <2>1
<1>9. \E a \in Asked(req[r]) : o \in a - (a % BlockSize) .. a - (a % BlockSize) + BlockSize - 1
  BY <1>4, <1>5, <1>7
<1> QED
  BY <1>6, <1>7, <1>8, <1>9 DEF Touched, n

\* What is stored gives reader r the bytes of its fill.
Given(r) == Ext(r).kind = "compressed" \/ (Ext(r).kind = "plain" /\ ~RunsShort(r))

\* The slice of an extent that can be read is the file's bytes at the fill.
LEMMA SliceRight ==
  ASSUME LocalType, NEW r \in Reader, Position(r), pc[r] \in Mid, Sound(req[r].nid),
         Given(r)
  PROVE  \A i \in 1 .. FillTake(r) :
           Good(req[r].nid, FillAt(r) + i - 1, Slice(r, Payload[Ext(r)])[i])
<1>1. /\ Brackets(r) /\ FillTake(r) \in Nat
      /\ \A i \in 1 .. FillTake(r) : Index[req[r].nid][FillAt(r) + i - 1] = Ext(r)
  BY SoundFill
<1> SUFFICES ASSUME NEW i \in 1 .. FillTake(r)
             PROVE  Good(req[r].nid, FillAt(r) + i - 1, Slice(r, Payload[Ext(r)])[i])
  OBVIOUS
<1>2. Slice(r, Payload[Ext(r)])[i] = Payload[Ext(r)][FillAt(r) - Ext(r).start + i]
  BY <1>1, PayloadSlice
<1>3. FillAt(r) - Ext(r).start + i = (FillAt(r) + i - 1) - Ext(r).start + 1
  BY <1>1, FillFacts
<1>4. FillAt(r) + i - 1 \in FillAt(r) .. FillAt(r) + FillTake(r) - 1
  BY <1>1, FillFacts
<1>5. ~Unreadable(req[r].nid, FillAt(r) + i - 1)
  <2> DEFINE o == FillAt(r) + i - 1
  <2>1. Index[req[r].nid][o] = Ext(r)
    BY <1>1
  <2>2. Ext(r).kind = "plain" => o \notin Gone[Ext(r)]
    BY <1>4 DEF Given, RunsShort
  <2> HIDE DEF o
  <2>3. ~Unreadable(req[r].nid, o)
    BY <2>1, <2>2 DEF Unreadable, Spoilt, Given
  <2> QED
    BY <2>3 DEF o
<1> QED
  BY <1>1, <1>2, <1>3, <1>5 DEF Good, FileByte

\* A wanted fill covers a byte of the range asked for, and only such a fill
\* has a place the caller asked for.
LEMMA WantedFacts ==
  ASSUME LocalType, NEW r \in Reader, Position(r), pc[r] \in Mid, Sound(req[r].nid)
  PROVE  /\ Wanted(r) => \E o \in Asked(req[r]) : Index[req[r].nid][o] = Ext(r)
         /\ \A i \in 1 .. FillTake(r) : AskedPlace(r, Len(block[r]) + i) => Wanted(r)
<1> DEFINE a == InBlockOff(r)
           w == Take(r)
           b == Len(block[r])
           t == FillTake(r)
           s == BlockStart(r)
           u == Len(buf[r])
           off == req[r].off
           len == req[r].len
<1>1. /\ a \in Nat /\ w \in Nat /\ w > 0 /\ b \in Nat /\ s \in Nat /\ u \in Nat
      /\ off \in Nat /\ len \in Nat /\ u + w <= len
      /\ s + a = Cursor(r) /\ FillAt(r) = s + b
  BY FillFacts
<1>2. Cursor(r) = off + u
  BY DEF Cursor
<1>3. t \in Nat /\ t > 0 /\ \A i \in 1 .. t : Index[req[r].nid][FillAt(r) + i - 1] = Ext(r)
  BY SoundFill
<1>4. Wanted(r) <=> a < b + t /\ b < a + w
  BY DEF Wanted
<1>5. \A i \in 1 .. t : AskedPlace(r, b + i) <=> a < b + i /\ b + i <= a + w
  BY DEF AskedPlace
<1>6. Asked(req[r]) = off .. (off + len - 1)
  BY DEF Asked
<1> HIDE DEF a, w, b, t, s, u, off, len
<1>7. ASSUME a < b + t, b < a + w PROVE \E o \in Asked(req[r]) : Index[req[r].nid][o] = Ext(r)
  <2> DEFINE i == IF a <= b THEN 1 ELSE a - b + 1
             o == FillAt(r) + i - 1
  <2>1. i \in 1 .. t /\ a < b + i /\ b + i <= a + w
    BY <1>1, <1>3, <1>7
  <2> HIDE DEF i
  <2>2. o \in off .. (off + len - 1)
    BY <1>1, <1>2, <2>1
  <2>3. Index[req[r].nid][o] = Ext(r)
    BY <1>3, <2>1
  <2> QED
    BY <1>6, <2>2, <2>3
<1>8. ASSUME NEW i \in 1 .. t, a < b + i, b + i <= a + w PROVE a < b + t /\ b < a + w
  BY <1>1, <1>3, <1>8
<1> QED
  BY <1>4, <1>5, <1>7, <1>8 DEF b, t

-----------------------------------------------------------------------------
\* A fill whose asked places are right leaves the reader right.
LEMMA AbsorbRight ==
  ASSUME LocalType, NEW r \in Reader, Position(r), pc[r] \in Mid, Right(r),
         Sound(req[r].nid), NEW v \in Seq(Bytes), Len(v) = FillTake(r),
         \A i \in 1 .. Len(v) : AskedPlace(r, Len(block[r]) + i) =>
           Good(req[r].nid, FillAt(r) + i - 1, v[i]),
         Absorb(r, v), req' = req
  PROVE  Right(r)'
<1> DEFINE full == Grown(r, v)
           out == buf[r] \o SubSeq(full, InBlockOff(r) + 1, InBlockOff(r) + Take(r))
           last == Len(out) = req[r].len
<1>1. /\ FillTake(r) \in Nat /\ FillTake(r) > 0
      /\ Len(block[r]) + FillTake(r) <= ValidInBlock(r)
  BY SoundFill
<1>2. /\ BufferRight(req[r], buf[r]) /\ BlockRight(r, block[r])
      /\ res[r] \in Refusals => Cause(req[r], res[r])
  BY DEF Right
<1>3. /\ full \in Seq(Bytes) /\ Len(full) \in Nat /\ Len(full) <= ValidInBlock(r)
      /\ Len(full) = Len(block[r]) + Len(v)
      /\ \A k \in 1 .. Len(full) :
           full[k] = IF k <= Len(block[r]) THEN block[r][k] ELSE v[k - Len(block[r])]
  <2>1. v # <<>>
    BY <1>1, EmptySeq
  <2>2. full = block[r] \o v
    BY <2>1 DEF Grown
  <2>3. block[r] \in Seq(Bytes)
    BY DEF LocalType
  <2>4. full \in Seq(Bytes) /\ Len(full) \in Nat /\ Len(full) <= ValidInBlock(r)
    BY <1>1, GrownFacts
  <2> HIDE DEF full
  <2>5. /\ Len(full) = Len(block[r]) + Len(v)
        /\ \A k \in 1 .. Len(block[r]) + Len(v) :
             full[k] = IF k <= Len(block[r]) THEN block[r][k] ELSE v[k - Len(block[r])]
    BY <2>2, <2>3, ConcatProperties
  <2> QED
    BY <2>4, <2>5
<1> HIDE DEF full
<1>4. BlockRight(r, full)
  <2> SUFFICES ASSUME NEW k \in 1 .. Len(full), AskedPlace(r, k)
               PROVE  Good(req[r].nid, BlockStart(r) + k - 1, full[k])
    BY DEF BlockRight
  <2>1. Len(block[r]) \in Nat /\ BlockStart(r) \in Nat /\ FillAt(r) = BlockStart(r) + Len(block[r])
    BY FillFacts
  <2>2. CASE k <= Len(block[r])
    <3>1. k \in 1 .. Len(block[r])
      BY <1>3, <2>1, <2>2
    <3> QED
      BY <1>2, <1>3, <2>2, <3>1 DEF BlockRight
  <2>3. CASE ~(k <= Len(block[r]))
    <3> DEFINE i == k - Len(block[r])
    <3>1. /\ i \in 1 .. Len(v) /\ Len(block[r]) + i = k
          /\ FillAt(r) + i - 1 = BlockStart(r) + k - 1
      BY <1>1, <1>3, <2>1, <2>3
    <3>2. full[k] = v[i]
      BY <1>3, <2>3
    <3> HIDE DEF i
    <3> QED
      BY <3>1, <3>2
  <2> QED
    BY <2>2, <2>3
<1>5. /\ Len(full) < ValidInBlock(r) =>
           /\ block' = [block EXCEPT ![r] = full]
           /\ pc' = [pc EXCEPT ![r] = "fill"]
           /\ buf' = buf /\ res' = res
      /\ ~(Len(full) < ValidInBlock(r)) =>
           /\ block' = [block EXCEPT ![r] = <<>>]
           /\ buf' = [buf EXCEPT ![r] = out]
           /\ pc' = [pc EXCEPT ![r] = IF last THEN "done" ELSE "fill"]
           /\ res' = [res EXCEPT ![r] = IF last THEN "ok" ELSE res[r]]
  BY DEF Absorb, full
<1>6. CASE Len(full) < ValidInBlock(r)
  <2>1. pc'[r] = "fill" /\ block'[r] = full /\ buf'[r] = buf[r] /\ res'[r] = res[r]
    BY <1>5, <1>6 DEF LocalType
  <2>2. Cursor(r)' = Cursor(r)
    BY <2>1 DEF Cursor
  <2>3. BlockStart(r)' = BlockStart(r) /\ InBlockOff(r)' = InBlockOff(r)
    BY <2>2 DEF BlockStart, InBlockOff
  <2>4. Take(r)' = Take(r)
    BY <2>1, <2>3 DEF Take, ValidInBlock
  <2>5. ASSUME NEW k \in 1 .. Len(full), AskedPlace(r, k)'
        PROVE  Good(req[r].nid, BlockStart(r)' + k - 1, full[k])
    <3>1. AskedPlace(r, k)
      BY <2>3, <2>4, <2>5 DEF AskedPlace
    <3> QED
      BY <1>4, <2>3, <3>1 DEF BlockRight
  <2>6. BlockRight(r, block[r])'
    BY <2>1, <2>5 DEF BlockRight
  <2>7. BufferRight(req[r], buf[r])'
    BY <1>2, <2>1 DEF BufferRight
  <2> QED
    BY <1>2, <2>1, <2>6, <2>7 DEF Right
<1>7. CASE ~(Len(full) < ValidInBlock(r))
  <2>0. Len(full) = ValidInBlock(r)
    BY <1>3, <1>7, FillFacts
  <2>1. /\ Len(out) = Len(buf[r]) + Take(r)
        /\ \A i \in 1 .. Len(buf[r]) : out[i] = buf[r][i]
        /\ \A k \in 1 .. Take(r) : out[Len(buf[r]) + k] = full[InBlockOff(r) + k]
    <3>1. out = buf[r] \o SubSeq(full, InBlockOff(r) + 1, InBlockOff(r) + Take(r))
      OBVIOUS
    <3>2. full \in Seq(Bytes)
      BY <1>3
    <3> HIDE DEF out
    <3> QED
      BY ONLY LocalType, r \in Reader, Position(r), pc[r] \in Mid, <2>0, <3>1, <3>2,
         CopyOutFacts, ZenonT(40)
  <2>2. /\ pc'[r] = (IF last THEN "done" ELSE "fill") /\ block'[r] = <<>>
        /\ buf'[r] = out /\ res'[r] = (IF last THEN "ok" ELSE res[r])
    BY <1>5, <1>7 DEF LocalType
  <2> HIDE DEF out
  <2>3. BufferRight(req[r], out)
    <3> SUFFICES ASSUME NEW i \in 1 .. Len(out)
                 PROVE  Good(req[r].nid, req[r].off + i - 1, out[i])
      BY DEF BufferRight
    <3>0. /\ InBlockOff(r) \in Nat /\ Take(r) \in Nat /\ BlockStart(r) \in Nat
          /\ Len(buf[r]) \in Nat /\ req[r].off \in Nat
          /\ Cursor(r) = BlockStart(r) + InBlockOff(r)
          /\ InBlockOff(r) + Take(r) <= Len(full)
      BY <2>0, FillFacts
    <3>1. CASE i <= Len(buf[r])
      <4>1. i \in 1 .. Len(buf[r])
        BY <2>1, <3>0, <3>1
      <4> QED
        BY <1>2, <2>1, <4>1 DEF BufferRight
    <3>2. CASE ~(i <= Len(buf[r]))
      <4> DEFINE j == i - Len(buf[r])
                 k == InBlockOff(r) + j
      <4>1. j \in 1 .. Take(r) /\ Len(buf[r]) + j = i
        BY <2>1, <3>0, <3>2
      <4>2. Cursor(r) = req[r].off + Len(buf[r])
        BY DEF Cursor
      <4> HIDE DEF j
      <4>3. out[i] = full[k]
        BY <2>1, <4>1
      <4>4. /\ k \in 1 .. Len(full)
            /\ BlockStart(r) + k - 1 = req[r].off + i - 1
            /\ InBlockOff(r) < k /\ k <= InBlockOff(r) + Take(r)
        <5> DEFINE a == InBlockOff(r)
                   t == Take(r)
                   u == Len(buf[r])
                   o == req[r].off
                   c == BlockStart(r)
                   l == Len(full)
        <5>1. /\ a \in Nat /\ t \in Nat /\ u \in Nat /\ o \in Nat /\ c \in Nat /\ l \in Nat
              /\ o + u = c + a /\ a + t <= l /\ j \in 1 .. t /\ u + j = i /\ k = a + j
          BY <1>3, <3>0, <4>1, <4>2
        <5> HIDE DEF a, t, u, o, c, l, k
        <5>2. k \in 1 .. l /\ c + k - 1 = o + i - 1 /\ a < k /\ k <= a + t
          BY ONLY <5>1
        <5> QED
          BY <5>2 DEF a, t, o, c, l
      <4> HIDE DEF k
      <4>5. AskedPlace(r, k)
        BY <4>4 DEF AskedPlace
      <4> QED
        BY <1>4, <4>3, <4>4, <4>5 DEF BlockRight
    <3> QED
      BY <3>1, <3>2
  <2>4. BufferRight(req[r], buf[r])'
    BY <2>2, <2>3 DEF BufferRight
  <2>5. BlockRight(r, block[r])'
    BY <2>2, EmptySeq DEF BlockRight
  <2>6. res'[r] \in Refusals => Cause(req[r], res'[r])
    BY <1>2, <2>2 DEF Refusals
  <2> QED
    BY <2>4, <2>5, <2>6 DEF Right
<1> QED
  BY <1>6, <1>7

\* A call that ends in an error it has a cause for leaves the reader right.
LEMMA FailRight ==
  ASSUME LocalType, NEW r \in Reader, NEW why \in Errors, Fail(r, why), req' = req,
         why \in Refusals /\ Sound(req[r].nid) => Cause(req[r], why)
  PROVE  Right(r)'
<1>1. res'[r] = why /\ pc'[r] = "done"
  BY FailFacts
<1>2. why # "ok" /\ pc'[r] \notin Mid
  BY <1>1 DEF Errors, Refusals, Mid
<1> QED
  BY <1>1, <1>2 DEF Right

-----------------------------------------------------------------------------
\* What a reader has gathered is judged by its call and its bytes alone.
LEMMA SameGathered ==
  ASSUME NEW r \in Reader, UNCHANGED <<req[r], buf[r], block[r]>>
  PROVE  /\ BlockRight(r, block[r])' <=> BlockRight(r, block[r])
         /\ BufferRight(req[r], buf[r])' <=> BufferRight(req[r], buf[r])
<1>1. Cursor(r)' = Cursor(r)
  BY DEF Cursor
<1>2. BlockStart(r)' = BlockStart(r) /\ InBlockOff(r)' = InBlockOff(r)
  BY <1>1 DEF BlockStart, InBlockOff
<1>3. Take(r)' = Take(r)
  BY <1>2 DEF Take, ValidInBlock
<1> QED
  BY <1>2, <1>3 DEF BlockRight, AskedPlace, BufferRight

\* A reader that is not moved, or moved inside a fill without a byte, stays
\* right.
LEMMA StillRight ==
  ASSUME NEW r \in Reader, Right(r), UNCHANGED <<req[r], buf[r], block[r], res[r]>>,
         pc'[r] = pc[r] \/ (pc[r] \in Mid /\ pc'[r] \in Mid)
  PROVE  Right(r)'
  BY SameGathered DEF Right

\* Absorbing the payload of an extent that can be read leaves the reader right.
LEMMA PayloadRight ==
  ASSUME LocalType, NEW r \in Reader, Position(r), pc[r] \in Mid, Right(r),
         Brackets(r), Given(r), Absorb(r, Slice(r, Payload[Ext(r)])), req' = req
  PROVE  Right(r)'
<1>1. CASE Sound(req[r].nid)
  <2> DEFINE v == Slice(r, Payload[Ext(r)])
  <2>1. v \in Seq(Bytes) /\ Len(v) = FillTake(r)
    BY PayloadSlice
  <2>2. \A i \in 1 .. FillTake(r) : Good(req[r].nid, FillAt(r) + i - 1, v[i])
    BY <1>1, SliceRight
  <2> HIDE DEF v
  <2>3. Absorb(r, v)
    BY DEF v
  <2> QED
    BY <1>1, <2>1, <2>2, <2>3, AbsorbRight
<1>2. CASE ~Sound(req[r].nid)
  BY <1>2 DEF Right, Sound
<1> QED
  BY <1>1, <1>2

\* A step of a reader leaves it right.
LEMMA StepRight ==
  ASSUME Inv, NEW r \in Reader, Right(r), Step(r)
  PROVE  Right(r)'
<1>1. LocalType /\ Position(r)
  BY DEF Inv
<1>2. req' = req
  BY DEF Step, Open, Refuse, Untruthful, ReadPlain, CutShort, Lookup, NoCodec,
         DecodeRefused, Decode, InsertDecoded, DeviceFails, local
<1>3. CASE ~Sound(req[r].nid)
  BY <1>2, <1>3 DEF Right, Sound
<1> SUFFICES ASSUME Sound(req[r].nid) PROVE Right(r)'
  BY <1>3
<1>4. CASE Open(r)
  <2>1. CASE Fail(r, "OutOfRange")
    BY <1>1, <1>2, <2>1, FailRight DEF Errors, Refusals
  <2>2. CASE /\ pc' = [pc EXCEPT ![r] = IF req[r].len = 0 THEN "done" ELSE "fill"]
             /\ res' = [res EXCEPT ![r] = IF req[r].len = 0 THEN "ok" ELSE res[r]]
             /\ UNCHANGED <<buf, block, got>>
    <3>1. buf'[r] = <<>> /\ block'[r] = <<>>
      BY <1>1, <1>4, <2>2 DEF Open, Position, Mid
    <3>2. res'[r] \in Refusals => res'[r] = res[r]
      BY <1>1, <2>2 DEF LocalType, Refusals
    <3>3. BufferRight(req[r], buf[r])' /\ BlockRight(r, block[r])'
      BY <3>1, EmptySeq DEF BufferRight, BlockRight
    <3>4. res'[r] \in Refusals => Cause(req[r], res'[r])
      BY <3>2 DEF Right
    <3>5. pc'[r] # "idle" /\ req'[r] = req[r]
      BY <1>1, <1>2, <1>4, <2>2 DEF LocalType, Open
    <3> QED
      BY <3>3, <3>4, <3>5 DEF Right
  <2> QED
    BY <1>4, <2>1, <2>2 DEF Open
<1>5. CASE Refuse(r)
  <2>1. pc[r] \in Mid /\ ~Brackets(r)
    BY <1>5 DEF Refuse, Mid
  <2> QED
    BY <1>1, <2>1, SoundFill
<1>6. CASE Untruthful(r)
  <2>1. pc[r] \in Mid /\ Ext(r).kind = "untruthful"
    BY <1>6 DEF Untruthful, Mid
  <2>2. FillTake(r) \in Nat /\ FillTake(r) > 0
    BY <1>1, <2>1, SoundFill
  <2>3. CASE Wanted(r)
    <3>1. Fail(r, "BadInode")
      BY <1>6, <2>2, <2>3 DEF Untruthful
    <3>2. Cause(req[r], "BadInode")
      BY <1>1, <2>1, <2>3, WantedFacts DEF Cause
    <3> QED
      BY <1>1, <1>2, <3>1, <3>2, FailRight DEF Errors, Refusals
  <2>4. CASE ~Wanted(r)
    <3> DEFINE v == Zeros(FillTake(r))
    <3>1. Absorb(r, v)
      BY <1>6, <2>4 DEF Untruthful
    <3>2. v \in Seq(Bytes) /\ Len(v) = FillTake(r)
      BY <2>2, ZerosFacts
    <3> HIDE DEF v
    <3>3. \A i \in 1 .. FillTake(r) : ~AskedPlace(r, Len(block[r]) + i)
      BY <1>1, <2>1, <2>4, WantedFacts
    <3> QED
      BY <1>1, <1>2, <2>1, <3>1, <3>2, <3>3, AbsorbRight
  <2> QED
    BY <2>3, <2>4
<1>7. CASE ReadPlain(r)
  <2>1. /\ pc[r] \in Mid /\ Brackets(r) /\ Given(r)
        /\ Absorb(r, Slice(r, Payload[Ext(r)]))
    BY <1>7 DEF ReadPlain, Mid, Given
  <2> QED
    BY <1>1, <1>2, <2>1, PayloadRight
<1>8. CASE Lookup(r)
  <2>1. pc[r] = "fill" /\ pc[r] \in Mid /\ Brackets(r)
    BY <1>8 DEF Lookup, Mid
  <2>2. CASE ~Hit(cache, KeyOf(Ext(r)))
    <3>1. pc' = [pc EXCEPT ![r] = "decode"] /\ UNCHANGED <<buf, block, got, res>>
      BY <1>8, <2>2 DEF Lookup
    <3>2. pc'[r] = "decode"
      BY <1>1, <3>1 DEF LocalType
    <3> QED
      BY <1>1, <1>2, <2>1, <3>1, <3>2, StillRight DEF Mid
  <2>3. CASE Hit(cache, KeyOf(Ext(r)))
    <3>1. /\ Given(r) /\ cache.val[KeyOf(Ext(r))] = Payload[Ext(r)]
          /\ ~(FillAt(r) - Ext(r).start + FillTake(r) > Len(cache.val[KeyOf(Ext(r))]))
      BY <2>1, <2>3, HitFacts DEF Given
    <3>2. Absorb(r, Slice(r, Payload[Ext(r)]))
      BY <1>8, <2>3, <3>1 DEF Lookup
    <3> QED
      BY <1>1, <1>2, <2>1, <3>1, <3>2, PayloadRight
  <2> QED
    BY <2>2, <2>3
<1>9. CASE Decode(r)
  <2>1. /\ pc[r] = "decode" /\ pc' = [pc EXCEPT ![r] = "insert"]
        /\ UNCHANGED <<buf, block, res>>
    BY <1>9 DEF Decode
  <2>2. pc[r] \in Mid /\ pc'[r] \in Mid
    BY <1>1, <2>1 DEF LocalType, Mid
  <2> QED
    BY <1>1, <1>2, <2>1, <2>2, StillRight
<1>10. CASE InsertDecoded(r)
  <2>1. pc[r] = "insert" /\ pc[r] \in Mid /\ Absorb(r, Slice(r, got[r]))
    BY <1>10 DEF InsertDecoded, Mid
  <2>2. got[r] = Payload[Ext(r)] /\ Brackets(r) /\ Given(r)
    BY <1>1, <2>1 DEF Position, Given
  <2> QED
    BY <1>1, <1>2, <2>1, <2>2, PayloadRight
<1>11. CASE DeviceFails(r)
  BY <1>1, <1>2, <1>11, FailRight DEF DeviceFails, Errors, Refusals
<1>12. ASSUME pc[r] \in Mid, NEW why \in Refusals, Fail(r, why),
              \A n, o : Index[n][o] = Ext(r) /\ (RunsShort(r) => o \in Gone[Ext(r)])
                         => Spoilt(n, o, why)
       PROVE  Right(r)'
  <2>1. ASSUME Sound(req[r].nid) PROVE Cause(req[r], why)
    <3>1. FillTake(r) \in Nat /\ FillTake(r) > 0 /\ FillAt(r) \in Nat
      BY <1>1, <1>12, <2>1, SoundFill, FillFacts
    <3>2. PICK o \in FillAt(r) .. FillAt(r) + FillTake(r) - 1 : RunsShort(r) => o \in Gone[Ext(r)]
      BY <3>1 DEF RunsShort
    <3>3. o \in Touched(req[r]) /\ Index[req[r].nid][o] = Ext(r)
      BY <1>1, <1>12, <2>1, FillTouched
    <3> QED
      BY <1>12, <3>2, <3>3 DEF Cause
  <2> QED
    BY <1>1, <1>2, <1>12, <2>1, FailRight DEF Errors, Refusals
<1>13. CASE CutShort(r)
  BY <1>12, <1>13 DEF CutShort, Mid, Refusals, Spoilt
<1>14. CASE NoCodec(r)
  BY <1>12, <1>14 DEF NoCodec, Mid, Refusals, Spoilt
<1>15. CASE DecodeRefused(r)
  BY <1>12, <1>15 DEF DecodeRefused, Mid, Refusals, Spoilt
<1> QED
  BY <1>4, <1>5, <1>6, <1>7, <1>8, <1>9, <1>10, <1>11, <1>13, <1>14, <1>15 DEF Step

-----------------------------------------------------------------------------
LEMMA InitRight == Init => RightInv
<1> SUFFICES ASSUME Init PROVE RightInv
  OBVIOUS
<1>1. \A r \in Reader : pc[r] = "idle" /\ res[r] = "none"
  BY DEF Init
<1> QED
  BY <1>1, InitInv DEF RightInv, Right, Mid, Refusals

LEMMA NextRight == RightInv /\ [Next]_vars => RightInv'
<1> SUFFICES ASSUME RightInv, [Next]_vars PROVE RightInv'
  OBVIOUS
<1>1. Inv /\ Inv' /\ \A r \in Reader : Right(r)
  BY NextInv DEF RightInv
<1>2. ASSUME NEW q \in Reader, NEW r \in Reader, OthersUnmoved(q), r # q PROVE Right(r)'
  BY <1>1, <1>2, StillRight DEF OthersUnmoved
<1>3. ASSUME NEW q \in Reader, Step(q) PROVE \A r \in Reader : Right(r)'
  BY <1>1, <1>2, <1>3, StepInv, StepRight
<1>4. ASSUME NEW q \in Reader, NEW a \in Request, Begin(q, a)
      PROVE  \A r \in Reader : Right(r)'
  <2>1. OthersUnmoved(q)
    BY <1>1, <1>4, BeginInv
  <2>2. pc'[q] = "open" /\ res'[q] = "none"
    BY <1>1, <1>4 DEF Begin, Inv, LocalType
  <2>3. Right(q)'
    BY <2>2 DEF Right, Mid, Refusals
  <2> QED
    BY <1>2, <2>1, <2>3
<1>5. ASSUME UNCHANGED <<pc, req, buf, block, res>> PROVE \A r \in Reader : Right(r)'
  BY <1>1, <1>5, StillRight
<1>6. CASE \E n \in Capacity : Resize(n)
  BY <1>1, <1>5, <1>6 DEF Resize, RightInv
<1>7. CASE UNCHANGED vars
  BY <1>1, <1>5, <1>7 DEF vars, RightInv
<1> QED
  BY <1>1, <1>3, <1>4, <1>6, <1>7 DEF Next, RightInv

THEOREM RightAlways == Spec => []RightInv
<1>1. Init => RightInv
  BY InitRight
<1>2. RightInv /\ [Next]_vars => RightInv'
  BY NextRight
<1> QED
  BY <1>1, <1>2, PTL DEF Spec

\* A read that returns Ok on a sound index returns the file's bytes at the asked
\* length, and none that cannot be read truthfully, whatever the other readers and
\* the cache did meanwhile.
THEOREM ReadCorrectness == Spec => []ReadCorrect
<1>1. RightInv => ReadCorrect
  BY DEF RightInv, Right, Inv, Position, BufferRight, Good, ReadCorrect
<1> QED
  BY <1>1, RightAlways, PTL

\* On a sound index a read is refused only for an untruthful byte it asked for, or
\* for one of a block it touches that is stored short, does not decode or has no
\* codec, and with the error that damage has: no hit is too short for its extent.
THEOREM RefusalCaused == Spec => []RefusedOnlyForCause
<1>1. RightInv => RefusedOnlyForCause
  BY DEF RightInv, Right, RefusedOnlyForCause
<1> QED
  BY <1>1, RightAlways, PTL

-----------------------------------------------------------------------------
Calls == [x \in Reader |-> View(x)]

LEMMA ServiceTerms ==
  /\ Service!Byte = Bytes
  /\ \A n \in Nid : Service!Sound(n) <=> Sound(n)
  /\ \A n, o : Service!FileByte(n, o) = FileByte(n, o)
  /\ \A q : Service!Asked(q) = Asked(q) /\ Service!Beside(q) = Touched(q)
  /\ \A n, o : /\ Service!Refused(n, o) <=> Spoilt(n, o, "BadInode")
               /\ Service!Foreign(n, o) <=> Spoilt(n, o, "UnsupportedLayout")
               /\ Service!Untrue(n, o) <=> Index[n][o].kind = "untruthful"
<1>1. Service!Byte = Bytes
  BY DEF Service!Byte, Service!ImageByte, Bytes, ImageByte
<1>2. \A n \in Nid : Service!Sound(n) <=> Sound(n)
  BY DEF Service!Sound, Sound, SoundInodes
<1>3. \A n, o : Service!FileByte(n, o) = FileByte(n, o)
  BY DEF Service!FileByte, FileByte
<1>4. \A q : Service!Asked(q) = Asked(q)
  BY DEF Service!Asked, Asked
<1>5. \A q : Service!Beside(q) = Touched(q)
  BY <1>4 DEF Service!Beside, Touched
<1>6. \A n, o : /\ Service!Refused(n, o) <=> Spoilt(n, o, "BadInode")
                /\ Service!Foreign(n, o) <=> Spoilt(n, o, "UnsupportedLayout")
                /\ Service!Untrue(n, o) <=> Index[n][o].kind = "untruthful"
  BY DEF Service!Refused, Service!Foreign, Service!Untrue, Spoilt
<1> QED
  BY <1>1, <1>2, <1>3, <1>4, <1>5, <1>6

\* A step that moves reader r alone changes one call.
LEMMA OneCall ==
  ASSUME NEW r \in Reader, OthersUnmoved(r)
  PROVE  Calls' = [Calls EXCEPT ![r] = View(r)']
<1>1. ASSUME NEW q \in Reader, q # r PROVE View(q)' = View(q)
  BY <1>1 DEF OthersUnmoved, View
<1> QED
  BY <1>1 DEF Calls

\* A call that ended with its asked range, or with an error for cause, is a
\* return of the service.
LEMMA EndsAsService ==
  ASSUME NEW r \in Reader, OthersUnmoved(r), req' = req,
         pc[r] \in Mid \cup {"open"}, pc'[r] = "done",
         \/ res'[r] = "ok" /\ Service!Answers(req[r], buf'[r])
         \/ res'[r] # "ok" /\ Service!Fails(req[r], res'[r])
  PROVE  Service!Next
<1>1. Calls' = [Calls EXCEPT ![r] = View(r)'] /\ Calls[r] = View(r) /\ Calls'[r] = View(r)'
  BY OneCall DEF Calls
<1>2. View(r).st = "busy" /\ View(r).req = req[r]
  BY DEF View
<1>3. View(r)' = [st |-> "done", req |-> req[r], res |-> res'[r],
                  out |-> IF res'[r] = "ok" THEN buf'[r] ELSE <<>>]
  BY DEF View, Mid
<1>4. Service!Return(r)
  <2> DEFINE now == Calls'[r]
  <2>1. now = View(r)' /\ Calls' = [Calls EXCEPT ![r] = now]
    BY <1>1
  <2> HIDE DEF now
  <2>2. /\ Calls[r].st = "busy"
        /\ now = [st |-> "done", req |-> Calls[r].req, res |-> now.res, out |-> now.out]
    BY <1>1, <1>2, <1>3, <2>1
  <2>3. \/ now.res = "ok" /\ Service!Answers(now.req, now.out)
        \/ now.out = <<>> /\ Service!Fails(now.req, now.res)
    BY <1>3, <2>1
  <2> QED
    BY <2>1, <2>2, <2>3 DEF Service!Return, Calls, now
<1> QED
  BY <1>4 DEF Service!Next

\* A step inside a call is no step of the service.
LEMMA StillBusy ==
  ASSUME NEW r \in Reader, OthersUnmoved(r), req' = req,
         pc[r] \in Mid \cup {"open"}, pc'[r] \in Mid, res'[r] = res[r], res[r] # "ok"
  PROVE  Calls' = Calls
<1>1. View(r)' = View(r)
  BY DEF View
<1> QED
  BY <1>1, OneCall DEF Calls

\* What a right reader returns with Ok is an answer of the service.
LEMMA OkAnswers ==
  ASSUME LocalType, NEW r \in Reader, LocalType', Position(r)', Right(r)', req' = req,
         res'[r] = "ok", req[r].off + req[r].len <= FileSize[req[r].nid]
  PROVE  Service!Answers(req[r], buf'[r])
<1> DEFINE q == req[r]
           out == buf'[r]
<1>1. q.nid \in Nid /\ q.off \in Nat /\ q.len \in Nat
  BY CallAssumption DEF LocalType
<1>2. Service!InFile(q)
  BY DEF Service!InFile
<1>3. out \in Seq(Service!Byte)
  BY ServiceTerms DEF LocalType
<1>4. Len(out) = q.len
  BY DEF Position
<1>5. ASSUME Sound(q.nid)
      PROVE  /\ Service!Readable(q)
             /\ \A i \in 1 .. q.len : out[i] = FileByte(q.nid, q.off + i - 1)
  <2>1. \A i \in 1 .. q.len : Good(q.nid, q.off + i - 1, out[i])
    BY <1>4, <1>5 DEF Right, BufferRight, Sound
  <2>2. ASSUME NEW o \in Asked(q) PROVE ~Unreadable(q.nid, o)
    <3> DEFINE i == o - q.off + 1
    <3>1. i \in 1 .. q.len /\ q.off + i - 1 = o
      BY <1>1 DEF Asked
    <3> HIDE DEF i, q
    <3> QED
      BY <2>1, <3>1 DEF Good
  <2>3. Service!Readable(q)
    BY <2>2, ServiceTerms DEF Service!Readable, Unreadable, Refusals
  <2> QED
    BY <2>1, <2>3 DEF Good
<1> HIDE DEF q, out
<1>6. Service!Answers(q, out)
  BY <1>1, <1>2, <1>3, <1>4, <1>5, ServiceTerms DEF Service!Answers
<1> QED
  BY <1>6 DEF q, out

\* A block that grows keeps the call busy; the last block ends it with an answer.
LEMMA AbsorbSimulates ==
  ASSUME LocalType, NEW r \in Reader, Position(r), pc[r] \in Mid, NEW v, Absorb(r, v),
         req' = req, OthersUnmoved(r), LocalType', Position(r)', Right(r)'
  PROVE  Service!Next \/ Calls' = Calls
<1>1. \/ pc'[r] = "fill" /\ res'[r] = res[r]
      \/ pc'[r] = "done" /\ res'[r] = "ok"
  BY DEF Absorb, LocalType
<1>2. res[r] # "ok" /\ req[r].off + req[r].len <= FileSize[req[r].nid]
  BY DEF Position, Mid
<1>3. CASE pc'[r] = "fill" /\ res'[r] = res[r]
  BY <1>2, <1>3, StillBusy DEF Mid
<1>4. CASE pc'[r] = "done" /\ res'[r] = "ok"
  <2>1. Service!Answers(req[r], buf'[r])
    BY <1>2, <1>4, OkAnswers
  <2> QED
    BY <1>4, <2>1, EndsAsService
<1> QED
  BY <1>1, <1>3, <1>4

\* A call that fails has one of the service's causes.
LEMMA FailSimulates ==
  ASSUME LocalType, NEW r \in Reader, pc[r] \in Mid \cup {"open"},
         NEW why \in Errors, Fail(r, why), req' = req, OthersUnmoved(r), Right(r)',
         why = "OutOfRange" <=> ~Service!InFile(req[r]),
         why = "Io" => req[r].len > 0
  PROVE  Service!Next
<1>1. res'[r] = why /\ pc'[r] = "done" /\ why # "ok"
  BY FailFacts DEF Errors, Refusals
<1>2. req[r].nid \in Nid
  BY CallAssumption DEF LocalType
<1>3. ASSUME why \in Refusals, Service!Sound(req[r].nid) PROVE Cause(req[r], why)
  <2>1. Sound(req[r].nid)
    BY <1>2, <1>3, ServiceTerms
  <2> QED
    BY <1>1, <1>3, <2>1 DEF Right, Sound
<1>4. ASSUME why = "BadInode" PROVE Service!Fails(req[r], why)
  <2>1. ASSUME Service!Sound(req[r].nid)
        PROVE  \/ \E o \in Service!Asked(req[r]) : Service!Untrue(req[r].nid, o)
               \/ \E o \in Service!Beside(req[r]) : Service!Refused(req[r].nid, o)
    BY <1>3, <1>4, <2>1, ServiceTerms DEF Cause, Refusals
  <2> QED
    BY <1>4, <2>1 DEF Service!Fails
<1>5. ASSUME why = "UnsupportedLayout" PROVE Service!Fails(req[r], why)
  <2>1. ASSUME Service!Sound(req[r].nid)
        PROVE  \E o \in Service!Beside(req[r]) : Service!Foreign(req[r].nid, o)
    BY <1>3, <1>5, <2>1, ServiceTerms DEF Cause, Refusals
  <2> QED
    BY <1>5, <2>1 DEF Service!Fails
<1>6. Service!Fails(req[r], why)
  BY <1>4, <1>5 DEF Service!Fails, Errors, Refusals
<1> QED
  BY <1>1, <1>6, EndsAsService

LEMMA StepSimulates ==
  ASSUME Inv, Inv', NEW r \in Reader, Right(r)', Step(r)
  PROVE  Service!Next \/ Calls' = Calls
<1>1. /\ LocalType /\ LocalType' /\ Position(r) /\ Position(r)'
      /\ OthersUnmoved(r) /\ req[r] \in Request
  BY StepInv DEF Inv, LocalType
<1>2. req' = req
  BY DEF Step, Open, Refuse, Untruthful, ReadPlain, CutShort, Lookup, NoCodec,
         DecodeRefused, Decode, InsertDecoded, DeviceFails, local
<1>3. pc[r] \in Mid => Service!InFile(req[r]) /\ res[r] # "ok" /\ req[r].len > 0
  <2> SUFFICES ASSUME pc[r] \in Mid
               PROVE  Service!InFile(req[r]) /\ res[r] # "ok" /\ req[r].len > 0
    OBVIOUS
  <2>1. Service!InFile(req[r]) /\ res[r] # "ok" /\ Len(buf[r]) < req[r].len
    BY <1>1 DEF Position, Mid, Service!InFile
  <2>2. Len(buf[r]) \in Nat /\ req[r].len \in Nat
    BY <1>1, FillFacts
  <2> QED BY <2>1, <2>2
<1>4. ASSUME pc[r] \in Mid, NEW why \in Refusals \cup {"Io"}, Fail(r, why) PROVE Service!Next
  BY <1>1, <1>2, <1>3, <1>4, FailSimulates DEF Errors, Refusals
<1>5. ASSUME pc[r] \in Mid, NEW v, Absorb(r, v) PROVE Service!Next \/ Calls' = Calls
  BY <1>1, <1>2, <1>5, AbsorbSimulates
<1>6. CASE Open(r)
  <2>1. CASE req[r].off + req[r].len > FileSize[req[r].nid] /\ Fail(r, "OutOfRange")
    <3>1. req[r].off \in Nat /\ req[r].len \in Nat /\ FileSize[req[r].nid] \in Nat
      BY <1>1, CallAssumption, ImageAssumption
    <3>2. ~Service!InFile(req[r])
      BY <2>1, <3>1 DEF Service!InFile
    <3> QED
      BY <1>1, <1>2, <1>6, <2>1, <3>2, FailSimulates DEF Errors, Open
  <2>2. CASE /\ req[r].off + req[r].len <= FileSize[req[r].nid]
             /\ pc' = [pc EXCEPT ![r] = IF req[r].len = 0 THEN "done" ELSE "fill"]
             /\ res' = [res EXCEPT ![r] = IF req[r].len = 0 THEN "ok" ELSE res[r]]
    <3>1. /\ pc[r] = "open" /\ res[r] # "ok"
          /\ pc'[r] = (IF req[r].len = 0 THEN "done" ELSE "fill")
          /\ res'[r] = (IF req[r].len = 0 THEN "ok" ELSE res[r])
      BY <1>1, <1>6, <2>2 DEF Open, LocalType, Position
    <3>2. CASE req[r].len = 0
      <4>1. Service!Answers(req[r], buf'[r])
        BY <1>1, <1>2, <2>2, <3>1, <3>2, OkAnswers
      <4> QED
        BY <1>1, <1>2, <3>1, <3>2, <4>1, EndsAsService
    <3>3. CASE req[r].len # 0
      BY <1>1, <1>2, <3>1, <3>3, StillBusy DEF Mid
    <3> QED
      BY <3>2, <3>3
  <2> QED
    BY <1>6, <2>1, <2>2 DEF Open
<1>7. CASE Refuse(r) \/ CutShort(r) \/ NoCodec(r) \/ DecodeRefused(r)
  BY <1>4, <1>7 DEF Refuse, CutShort, NoCodec, DecodeRefused, Mid, Refusals
<1>8. CASE Untruthful(r)
  BY <1>4, <1>5, <1>8 DEF Untruthful, Mid, Refusals
<1>9. CASE ReadPlain(r)
  BY <1>5, <1>9 DEF ReadPlain, Mid
<1>10. CASE Lookup(r)
  <2>1. CASE ~Hit(cache, KeyOf(Ext(r)))
    <3>1. pc[r] \in Mid /\ pc'[r] = "decode" /\ res'[r] = res[r]
      BY <1>1, <1>10, <2>1 DEF Lookup, Mid, LocalType
    <3> QED
      BY <1>1, <1>2, <1>3, <3>1, StillBusy DEF Mid
  <2>2. CASE Hit(cache, KeyOf(Ext(r)))
    BY <1>4, <1>5, <1>10, <2>2 DEF Lookup, Mid, Refusals
  <2> QED
    BY <2>1, <2>2
<1>11. CASE Decode(r)
  <2>1. pc[r] \in Mid /\ pc'[r] = "insert" /\ res'[r] = res[r]
    BY <1>1, <1>11 DEF Decode, Mid, LocalType
  <2> QED
    BY <1>1, <1>2, <1>3, <2>1, StillBusy DEF Mid
<1>12. CASE InsertDecoded(r)
  BY <1>5, <1>12 DEF InsertDecoded, Mid
<1>13. CASE DeviceFails(r)
  <2>1. CASE pc[r] \in Mid
    BY <1>4, <1>13, <2>1 DEF DeviceFails
  <2>2. CASE pc[r] = "open"
    <3>1. Fail(r, "Io") /\ req[r].len > 0 /\ Service!InFile(req[r])
      BY <1>13, <2>2 DEF DeviceFails, Service!InFile
    <3> QED
      BY <1>1, <1>2, <2>2, <3>1, FailSimulates DEF Errors
  <2> QED
    BY <1>13, <2>1, <2>2 DEF DeviceFails, Mid
<1> QED
  BY <1>6, <1>7, <1>8, <1>9, <1>10, <1>11, <1>12, <1>13 DEF Step

\* Whatever the cache holds and however calls interleave, a caller cannot tell
\* `read_file` from one step that answers from the image.
THEOREM RefinesService == Spec => ImplementsService
<1>1. Init => Service!Init
  BY DEF Init, Service!Init, View, Mid
<1>2. RightInv /\ RightInv' /\ [Next]_vars => [Service!Next]_Calls
  <2> SUFFICES ASSUME RightInv, RightInv', [Next]_vars PROVE Service!Next \/ Calls' = Calls
    OBVIOUS
  <2>1. ASSUME NEW r \in Reader, Step(r) PROVE Service!Next \/ Calls' = Calls
    BY <2>1, StepSimulates DEF RightInv
  <2>2. ASSUME NEW r \in Reader, NEW q \in Request, Begin(r, q) PROVE Service!Next
    <3>1. /\ Calls' = [Calls EXCEPT ![r] = View(r)'] /\ Calls[r] = View(r)
          /\ Calls'[r] = View(r)'
      BY <2>2, BeginInv, OneCall DEF RightInv, Calls
    <3>2. View(r)' = [st |-> "busy", req |-> q, res |-> "none", out |-> <<>>]
      BY <2>2 DEF RightInv, Inv, LocalType, Begin, View
    <3>3. View(r).st # "busy"
      BY <2>2 DEF Begin, View, Mid
    <3>4. Service!Begin(r, q)
      BY <3>1, <3>2, <3>3 DEF Service!Begin, Calls
    <3> QED
      BY <3>4 DEF Service!Next
  <2>3. ASSUME UNCHANGED <<pc, req, buf, res>> PROVE Calls' = Calls
    BY <2>3 DEF Calls, View
  <2> QED
    BY <2>1, <2>2, <2>3 DEF Next, Resize, vars
<1>3. RightInv /\ RightInv' /\ [Next]_vars => [Service!Next]_([r \in Reader |-> View(r)])
  BY <1>2 DEF Calls
<1> QED
  BY <1>1, <1>3, RightAlways, PTL DEF Spec, ImplementsService, Service!Spec
=============================================================================
