-------------------------- MODULE LazyTablesProofs ---------------------------
(***************************************************************************)
(* However many threads load a table at once, one copy is kept and all use *)
(* it; and what they read through it is right.                             *)
(*                                                                         *)
(* OneCopy is inductive with two facts beside it: a thread outside a call  *)
(* holds nothing, so that a new call's table is not taken for the old      *)
(* one's, and one about to store has something to store.  What is read is  *)
(* right by RightInv: where each call is (Placed), that every byte it has  *)
(* gathered is the file's, those of its block that nobody asked for as     *)
(* well (Gathered), that what is in a cell parsed (Kept), and that each    *)
(* failure has a cause (Caused).                                           *)
(***************************************************************************)
EXTENDS LazyTables, SequenceTheorems, TLAPS

Label == {"idle", "open", "fill", "get", "load", "store", "use", "done"}
Result == {"none", "ok", "OutOfRange", "BadInode", "BadXattr", "Io"}
Slot == Copy \cup {Empty}

\* A thread outside a call holds no table; one about to store has loaded it.
Hands ==
  /\ \A r \in Reader : pc[r] \in {"idle", "done"} => held[r] = Empty
  /\ \A r \in Reader : pc[r] = "store" => loaded[r] # Empty

Inv == LazyTypeOK /\ Hands /\ OneCopy

\* What a step of r does to the threads' own state, the cells unchanged.
Effect(r) ==
  /\ pc' \in [Reader -> Label] /\ res' \in [Reader -> Result]
  /\ loaded' \in [Reader -> Slot] /\ held' \in [Reader -> Slot]
  /\ known' \in [Reader -> BOOLEAN]
  /\ \A q \in Reader \ {r} :
       pc'[q] = pc[q] /\ loaded'[q] = loaded[q] /\ held'[q] = held[q]
  /\ held'[r] \in {Empty, held[r], cell[Needed(r)]}
  /\ pc'[r] \in {"idle", "done"} => held'[r] = Empty
  /\ pc'[r] = "store" => loaded'[r] # Empty
  /\ pc'[r] = "use" => cell[Needed(r)] # Empty
-----------------------------------------------------------------------------
LEMMA NeededIsTable == \A r : Needed(r) \in Table
BY DEF Needed, Table

LEMMA InitInv == Init => Inv
<1> SUFFICES ASSUME Init PROVE Inv
  OBVIOUS
<1>1. req \in [Reader -> Request]
  BY LazyTablesAssumption DEF Init
<1>2. LazyTypeOK
  BY <1>1, LazyTablesAssumption DEF Init, LazyTypeOK, Table
<1>3. Hands /\ OneCopy
  BY DEF Init, Hands, OneCopy
<1> QED
  BY <1>2, <1>3 DEF Inv

\* Ending a call, and going on to a step that is neither "store" nor "use".
LEMMA DoneEffect ==
  ASSUME Inv, NEW r \in Reader, NEW why \in Result, Done(r, why), known' = known
  PROVE  Effect(r)
BY DEF Inv, LazyTypeOK, Done, Effect, Label, Result, Slot

LEMMA FailEffect ==
  ASSUME Inv, NEW r \in Reader, NEW why \in Result, Fail(r, why)
  PROVE  Effect(r)
BY DoneEffect DEF Fail

LEMMA GotoEffect ==
  ASSUME Inv, NEW r \in Reader, NEW label \in {"open", "fill", "get", "load"},
         Goto(r, label), UNCHANGED <<loaded, known>>, res' \in [Reader -> Result],
         held' = held \/ held' = [held EXCEPT ![r] = Empty]
  PROVE  Effect(r)
BY DEF Inv, LazyTypeOK, Goto, Effect, Label, Result, Slot

LEMMA AbsorbEffect ==
  ASSUME Inv, NEW r \in Reader, NEW v, Absorb(r, v)
  PROVE  Effect(r)
<1>1. res \in [Reader -> Result]
  BY DEF Inv, LazyTypeOK, Result
<1>2. \/ Goto(r, "fill") /\ UNCHANGED <<known, loaded, res>>
         /\ held' = [held EXCEPT ![r] = Empty]
      \/ Done(r, "ok") /\ known' = known
  BY DEF Absorb
<1> QED
  BY <1>1, <1>2, GotoEffect, DoneEffect DEF Result

LEMMA LocalEffect ==
  ASSUME Inv, NEW r \in Reader, LocalStep(r)
  PROVE  Effect(r)
<1>1. res \in [Reader -> Result]
  BY DEF Inv, LazyTypeOK, Result
<1>2. CASE OpenFile(r)
  BY <1>1, <1>2, FailEffect, DoneEffect, GotoEffect DEF OpenFile, Result
<1>3. CASE WorkOutRange(r)
  <2>1. CASE Fail(r, "BadInode")
    BY <2>1, FailEffect DEF Result
  <2>2. CASE known' = [known EXCEPT ![r] = TRUE] /\ UNCHANGED <<pc, loaded, held, res>>
               /\ pc[r] = "fill"
    BY <2>2 DEF Inv, LazyTypeOK, Effect, Label, Result, Slot
  <2> QED
    BY <1>3, <2>1, <2>2 DEF WorkOutRange
<1>4. CASE FillOrdinary(r)
  BY <1>4, AbsorbEffect DEF FillOrdinary
<1>5. CASE FillFragment(r)
  BY <1>1, <1>5, GotoEffect DEF FillFragment
<1>6. CASE ReadEntries(r)
  BY <1>1, <1>6, DoneEffect, GotoEffect DEF ReadEntries, Result
<1>7. CASE Get(r)
  <2>1. CASE cell[Needed(r)] # Empty
    <3>1. /\ held' = [held EXCEPT ![r] = cell[Needed(r)]] /\ pc' = [pc EXCEPT ![r] = "use"]
          /\ UNCHANGED <<known, loaded, res>>
      BY <1>7, <2>1 DEF Get, Goto
    <3>2. cell[Needed(r)] \in Slot
      BY NeededIsTable DEF Inv, LazyTypeOK, Slot
    <3> QED
      BY <2>1, <3>1, <3>2 DEF Inv, LazyTypeOK, Effect, Label, Result, Slot
  <2>2. CASE Fail(r, "BadInode")
    BY <2>2, FailEffect DEF Result
  <2>3. CASE Goto(r, "load") /\ UNCHANGED <<known, loaded, held, res>>
    BY <1>1, <2>3, GotoEffect
  <2> QED
    BY <1>7, <2>1, <2>2, <2>3 DEF Get
<1>8. CASE Load(r)
  <2>1. CASE Fail(r, Refusal(Needed(r)))
    BY <2>1, FailEffect DEF Refusal, Result
  <2>2. CASE /\ loaded' = [loaded EXCEPT ![r] = [by |-> r]]
             /\ Goto(r, "store") /\ UNCHANGED <<known, held, res>>
    <3>1. [by |-> r] \in Copy /\ [by |-> r] # Empty
      BY LazyTablesAssumption DEF Copy
    <3> QED
      BY <2>2, <3>1 DEF Goto, Inv, LazyTypeOK, Effect, Label, Result, Slot
  <2> QED
    BY <1>8, <2>1, <2>2 DEF Load
<1>9. CASE ReadPacked(r)
  BY <1>9, FailEffect, AbsorbEffect DEF ReadPacked, Result
<1>10. CASE Resolve(r)
  BY <1>10, FailEffect, DoneEffect DEF Resolve, Result
<1> QED
  BY <1>2, <1>3, <1>4, <1>5, <1>6, <1>7, <1>8, <1>9, <1>10 DEF LocalStep

\* A step that leaves the cells alone keeps the invariant.
LEMMA EffectInv ==
  ASSUME Inv, NEW r \in Reader, Effect(r), UNCHANGED <<image, cell, req, calls, before>>,
         faults' \in 0 .. MaxFaults
  PROVE  Inv'
<1>1. LazyTypeOK'
  <2>1. ASSUME NEW q \in Reader, pc'[q] = "use" PROVE cell'[Needed(q)'] # Empty
    <3>1. Needed(q)' = Needed(q) /\ cell' = cell
      BY DEF Needed, Reading
    <3>2. CASE q = r
      BY <2>1, <3>1, <3>2 DEF Effect
    <3>3. CASE q # r
      BY <2>1, <3>1, <3>3 DEF Effect, Inv, LazyTypeOK
    <3> QED
      BY <3>2, <3>3
  <2> QED
    BY <2>1 DEF Inv, LazyTypeOK, Effect, Label, Result, Slot
<1>2. Hands'
  BY DEF Inv, Hands, Effect
<1>3. OneCopy'
  <2> SUFFICES ASSUME NEW q \in Reader, held'[q] # Empty PROVE held'[q] = cell'[Needed(q)']
    BY DEF OneCopy
  <2>1. Needed(q)' = Needed(q) /\ cell' = cell
    BY DEF Needed, Reading
  <2> QED
    BY <2>1 DEF Inv, OneCopy, Effect
<1> QED
  BY <1>1, <1>2, <1>3 DEF Inv

LEMMA StoreInv ==
  ASSUME Inv, NEW r \in Reader, Store(r), UNCHANGED <<image, req, calls, faults, before>>
  PROVE  Inv' /\ \A t \in Table : cell[t] # Empty => cell'[t] = cell[t]
<1>1. /\ Needed(r) \in Table /\ loaded[r] # Empty /\ loaded[r] \in Slot
      /\ Stored(r) \in Slot /\ Stored(r) # Empty
  BY NeededIsTable DEF Store, Stored, Inv, Hands, LazyTypeOK, Slot
<1>2. \A q \in Reader : Needed(q)' = Needed(q) /\ Needed(q) \in Table
  BY NeededIsTable DEF Needed, Reading
<1>3. \A t \in Table : cell[t] # Empty => cell'[t] = cell[t]
  BY DEF Store, Stored, Inv, LazyTypeOK
<1>4. /\ cell' \in [Table -> Slot] /\ cell'[Needed(r)] = Stored(r)
      /\ held' = [held EXCEPT ![r] = Stored(r)] /\ loaded' = [loaded EXCEPT ![r] = Empty]
      /\ pc' = [pc EXCEPT ![r] = "use"] /\ UNCHANGED <<known, res>>
  BY <1>1 DEF Store, HeldAfter, Goto, Inv, LazyTypeOK, Slot
<1>5. LazyTypeOK'
  <2>1. ASSUME NEW q \in Reader, pc'[q] = "use" PROVE cell'[Needed(q)'] # Empty
    <3>1. CASE q = r
      BY <1>1, <1>2, <1>4, <3>1
    <3>2. CASE q # r
      BY <1>2, <1>3, <1>4, <2>1, <3>2 DEF Inv, LazyTypeOK
    <3> QED
      BY <3>1, <3>2
  <2> QED
    BY <1>1, <1>4, <2>1 DEF Inv, LazyTypeOK, Slot
<1>6. Hands'
  BY <1>4 DEF Inv, LazyTypeOK, Hands
<1>7. OneCopy'
  <2> SUFFICES ASSUME NEW q \in Reader, held'[q] # Empty PROVE held'[q] = cell'[Needed(q)']
    BY DEF OneCopy
  <2>1. CASE q = r
    BY <1>2, <1>4, <2>1 DEF Inv, LazyTypeOK
  <2>2. CASE q # r
    BY <1>2, <1>3, <1>4, <2>2 DEF Inv, OneCopy, LazyTypeOK
  <2> QED
    BY <2>1, <2>2
<1> QED
  BY <1>3, <1>5, <1>6, <1>7 DEF Inv

LEMMA BeginInv ==
  ASSUME Inv, NEW r \in Reader, NEW q \in Request, Begin(r, q)
  PROVE  Inv'
<1>1. held[r] = Empty
  BY DEF Begin, Inv, Hands
<1>2. /\ req' = [req EXCEPT ![r] = q] /\ pc' = [pc EXCEPT ![r] = "open"]
      /\ UNCHANGED <<image, cell, loaded, held, faults>>
  BY DEF Begin, Goto
<1>3. \A p \in Reader \ {r} : Needed(p)' = Needed(p)
  BY <1>2 DEF Needed, Reading
<1>4. LazyTypeOK'
  <2>1. calls' \in [Reader -> 0 .. MaxCalls]
    BY LazyTablesAssumption DEF Begin, Inv, LazyTypeOK
  <2>2. before' \in [Reader -> 0 .. MaxFaults] /\ known' \in [Reader -> BOOLEAN]
        /\ res' \in [Reader -> Result]
    BY DEF Begin, Inv, LazyTypeOK, Result
  <2>3. \A p \in Reader : pc'[p] = "use" => cell'[Needed(p)'] # Empty
    BY <1>2, <1>3 DEF Inv, LazyTypeOK
  <2> QED
    BY <1>2, <2>1, <2>2, <2>3 DEF Inv, LazyTypeOK, Result
<1>5. Hands'
  BY <1>2 DEF Inv, LazyTypeOK, Hands
<1>6. OneCopy'
  BY <1>1, <1>2, <1>3 DEF Inv, OneCopy
<1> QED
  BY <1>4, <1>5, <1>6 DEF Inv

LEMMA NextInv ==
  ASSUME Inv, [Next]_vars
  PROVE  Inv' /\ \A t \in Table : cell[t] # Empty => cell'[t] = cell[t]
<1>1. ASSUME NEW r \in Reader, NEW q \in Request, Begin(r, q)
      PROVE  Inv' /\ cell' = cell
  BY <1>1, BeginInv DEF Begin
<1>2. ASSUME NEW r \in Reader, Step(r)
      PROVE  Inv' /\ \A t \in Table : cell[t] # Empty => cell'[t] = cell[t]
  <2>1. CASE Store(r)
    BY <1>2, <2>1, StoreInv DEF Step
  <2>2. CASE LocalStep(r) /\ cell' = cell
    <3>1. faults' \in 0 .. MaxFaults
      BY <1>2 DEF Step, Inv, LazyTypeOK
    <3> QED
      BY <1>2, <2>2, <3>1, LocalEffect, EffectInv DEF Step
  <2> QED
    BY <1>2, <2>1, <2>2 DEF Step
<1>3. ASSUME NEW r \in Reader, DeviceFails(r)
      PROVE  Inv' /\ cell' = cell
  <2>1. faults' \in 0 .. MaxFaults
    BY <1>3, LazyTablesAssumption DEF DeviceFails, Inv, LazyTypeOK
  <2> QED
    BY <1>3, <2>1, FailEffect, EffectInv DEF DeviceFails, Result
<1>4. CASE UNCHANGED vars
  BY <1>4 DEF vars, Inv, LazyTypeOK, Hands, OneCopy, Needed, Reading
<1> QED
  BY <1>1, <1>2, <1>3, <1>4 DEF Next
-----------------------------------------------------------------------------
THEOREM Invariance == Spec => []Inv
<1>1. Inv /\ [Next]_vars => Inv'
  BY NextInv
<1> QED
  BY InitInv, <1>1, PTL DEF Spec

\* Every variable has its type, and a table in use is in its cell: the `expect`
\* after the store never fails (fs.rs xattr_prefix_dict, packed_inode).
THEOREM TypeCorrect == Spec => []LazyTypeOK
<1>1. Inv => LazyTypeOK
  BY DEF Inv
<1> QED
  BY Invariance, <1>1, PTL

\* Whichever threads race and whenever the device fails, each uses the copy in
\* the cell (fs.rs packed_inode, "discard the local copy and use theirs").
THEOREM OneCopyCorrect == Spec => []OneCopy
<1>1. Inv => OneCopy
  BY DEF Inv
<1> QED
  BY Invariance, <1>1, PTL

\* A table that is there is never replaced (fs.rs xattr_prefix_dict lends it).
THEOREM SetOnceCorrect == Spec => SetOnce
<1>1. Inv /\ [Next]_vars => [\A t \in Table : cell[t] # Empty => cell'[t] = cell[t]]_vars
  BY NextInv
<1> QED
  BY Invariance, <1>1, PTL DEF Spec, SetOnce
-----------------------------------------------------------------------------
\* The bytes a file can have: its own, or the packed inode's.
Byte == (Nid \cup {"packed"}) \X Int

\* Reader r is inside the loop of read_file.
Midway(r) == Reading(r) /\ pc[r] \in {"fill", "get", "load", "store", "use"}

\* Where a call is: what it has read of the fragment's range, the bytes it may
\* have gathered, and what the labels of the fragment's way stand for.
Placed(r) ==
  /\ pc[r] = "fill" => Reading(r)
  /\ pc[r] = "open" => buf[r] = <<>>
  /\ pc[r] # "done" => res[r] = "none"
  /\ known[r] => RangeKind(req[r].nid) # 1
  /\ ~Midway(r) => block[r] = <<>>
  /\ Midway(r) =>
       /\ buf[r] \in Seq(Byte) /\ block[r] \in Seq(Byte)
       /\ req[r].off + req[r].len <= FileSize[req[r].nid]
       /\ Len(buf[r]) < req[r].len /\ Len(block[r]) < ValidInBlock(r)
       /\ pc[r] # "fill" => InFragment(r)
  /\ pc[r] \in {"load", "store"} /\ Reading(r) => image.packed # NoPacked
  /\ pc[r] = "store" => Needed(r) \in image.sound

\* x is byte o of file n, and one that can be read.
Good(n, o, x) == x = FileByte(n, o) /\ ~Unreadable(n, o)

BytesRight(n, from, bytes) == \A i \in 1 .. Len(bytes) : Good(n, from + i - 1, bytes[i])

\* Every byte gathered is the file's, also those of the block not asked for.
Gathered(r) ==
  /\ Midway(r) => /\ BytesRight(req[r].nid, req[r].off, buf[r])
                  /\ BytesRight(req[r].nid, BlockStart(r), block[r])
  /\ res[r] = "ok" /\ Reading(r) =>
       Len(buf[r]) = req[r].len /\ BytesRight(req[r].nid, req[r].off, buf[r])

\* Why a call failed.
Caused(r) ==
  /\ before[r] <= faults
  /\ res[r] = "Io" => faults > before[r]
  /\ res[r] = "BadInode" => \E o \in Shared(req[r]) : Unreadable(req[r].nid, o)
  /\ res[r] = "BadXattr" =>
       \/ "dict" \notin image.sound
       \/ \E k \in DOMAIN Names[req[r].nid] :
            Names[req[r].nid][k] # Short /\ Names[req[r].nid][k] >= image.dict

\* What is in a cell parsed, and was there to be read.
Kept ==
  \A t \in Table : cell[t] # Empty =>
    t \in image.sound /\ (t = "packed" => image.packed # NoPacked)

\* Every thread has a buffer and a block.
Shape == DOMAIN buf = Reader /\ DOMAIN block = Reader

\* The inductive invariant of what is read and of why calls fail.
RightInv == Inv /\ Shape /\ Kept /\ \A r \in Reader : Placed(r) /\ Gathered(r) /\ Caused(r)
-----------------------------------------------------------------------------
\* A number split at a multiple of B, and put together again.
LEMMA DivUnique ==
  ASSUME NEW B \in Nat \ {0}, NEW q \in Nat, NEW j \in 0 .. B - 1
  PROVE  (B * q + j) \div B = q
<1> DEFINE n == B * q + j
           p == n \div B
           m == n % B
<1>1. n \in Nat
  OBVIOUS
<1>2. n = B * p + m /\ m \in 0 .. B - 1 /\ p \in Nat
  BY <1>1
<1>3. B * q + j = B * p + m
  BY <1>2
<1> HIDE DEF n, p, m
<1>4. CASE p > q
  <2>1. p - q - 1 \in Nat /\ B * (p - q - 1) = B * p - B * q - B
    BY <1>2, <1>4
  <2>2. B * (p - q - 1) \in Nat
    BY <2>1
  <2> QED
    BY <1>2, <1>3, <2>1, <2>2
<1>5. CASE q > p
  <2>1. q - p - 1 \in Nat /\ B * (q - p - 1) = B * q - B * p - B
    BY <1>2, <1>5
  <2>2. B * (q - p - 1) \in Nat
    BY <2>1
  <2> QED
    BY <1>2, <1>3, <2>1, <2>2
<1> QED
  BY <1>2, <1>4, <1>5 DEF n, p

\* The block of an offset inside a file holds the offset, ends in the file, and
\* is what the offsets in it have in common.
LEMMA Geometry ==
  ASSUME NEW c \in Nat, NEW size \in Nat, c < size, NEW i, i = c % BlockSize,
         NEW s, s = c - (c % BlockSize), NEW v, v = Least(size - s, BlockSize)
  PROVE  /\ s \in Nat /\ v \in Nat /\ i \in Nat /\ i < v /\ s + v <= size
         /\ \A j \in 0 .. v - 1 : (s + j) \div BlockSize = c \div BlockSize
<1> DEFINE q == c \div BlockSize
<1>1. BlockSize \in Nat \ {0}
  BY LazyTablesAssumption
<1>2. c = BlockSize * q + i /\ i \in 0 .. BlockSize - 1 /\ q \in Nat
  BY <1>1
<1>3. BlockSize * q \in Nat
  BY <1>1, <1>2
<1>4. s = BlockSize * q
  BY <1>2, <1>3
<1>5. v = IF size - s <= BlockSize THEN size - s ELSE BlockSize
  BY DEF Least
<1>6. ASSUME NEW j \in 0 .. BlockSize - 1 PROVE (s + j) \div BlockSize = q
  BY <1>1, <1>2, <1>4, DivUnique
<1> HIDE DEF q
<1>7. s \in Nat /\ v \in Nat /\ i \in Nat /\ i < v /\ s + v <= size /\ v <= BlockSize
  <2>1. s \in Nat /\ c = s + i /\ i \in 0 .. BlockSize - 1
    BY <1>2, <1>3, <1>4
  <2> QED
    BY ONLY <1>1, <1>5, <2>1, c \in Nat, size \in Nat, c < size
<1>8. \A j \in 0 .. v - 1 : (s + j) \div BlockSize = q
  BY <1>1, <1>6, <1>7
<1> QED
  BY <1>7, <1>8 DEF q

LEMMA RequestFacts ==
  ASSUME LazyTypeOK, NEW r \in Reader
  PROVE  /\ req[r].nid \in Nid /\ req[r].off \in Nat /\ req[r].len \in Nat
         /\ FileSize[req[r].nid] \in Nat
BY LazyTablesAssumption DEF LazyTypeOK

\* The numbers of a call that fills a block.
LEMMA WalkFacts ==
  ASSUME LazyTypeOK, NEW r \in Reader, Placed(r), Midway(r)
  PROVE  /\ Len(buf[r]) \in Nat /\ Len(block[r]) \in Nat
         /\ Cursor(r) = req[r].off + Len(buf[r])
         /\ Cursor(r) = BlockStart(r) + InBlockOff(r)
         /\ BlockStart(r) \in Nat /\ InBlockOff(r) \in Nat /\ ValidInBlock(r) \in Nat
         /\ BlockStart(r) + ValidInBlock(r) <= FileSize[req[r].nid]
         /\ Take(r) \in Nat /\ Take(r) > 0
         /\ InBlockOff(r) + Take(r) <= ValidInBlock(r)
         /\ Len(buf[r]) + Take(r) <= req[r].len
         /\ Len(block[r]) < ValidInBlock(r)
         /\ FillAt(r) = BlockStart(r) + Len(block[r])
         /\ \A j \in 0 .. ValidInBlock(r) - 1 : BlockStart(r) + j \in Shared(req[r])
<1> DEFINE b == Len(buf[r])
           k == Len(block[r])
           c == Cursor(r)
           s == BlockStart(r)
           i == InBlockOff(r)
           v == ValidInBlock(r)
           t == Take(r)
           o == req[r].off
           l == req[r].len
           z == FileSize[req[r].nid]
<1>1. b \in Nat /\ k \in Nat
  BY LenProperties DEF Placed
<1>2. o \in Nat /\ l \in Nat /\ z \in Nat /\ o + l <= z /\ b < l /\ k < v
  BY RequestFacts DEF Placed
<1>3. c = o + b
  BY DEF Cursor
<1>4. c \in Nat /\ c < z
  BY <1>1, <1>2, <1>3
<1>5. s = c - (c % BlockSize) /\ i = c % BlockSize /\ v = Least(z - s, BlockSize)
  BY DEF BlockStart, InBlockOff, ValidInBlock
<1> HIDE DEF c, z, s, i, v
<1>6. /\ s \in Nat /\ v \in Nat /\ i \in Nat /\ i < v /\ s + v <= z
      /\ \A j \in 0 .. v - 1 : (s + j) \div BlockSize = c \div BlockSize
  BY <1>2, <1>4, <1>5, Geometry
<1>7. c % BlockSize \in Int
  BY <1>5, <1>6
<1>8. t = IF v - i <= l - b THEN v - i ELSE l - b
  BY DEF Take, Least, v, i
<1> HIDE DEF b, k, t, o, l
<1>9. c = s + i
  BY <1>4, <1>5, <1>6
<1>10. t \in Nat /\ t > 0 /\ i + t <= v /\ b + t <= l
  BY <1>1, <1>2, <1>6, <1>8
<1>11. ASSUME NEW j \in 0 .. v - 1 PROVE s + j \in Shared(req[r])
  <2>1. c \in Asked(req[r])
    BY <1>1, <1>2, <1>3 DEF Asked, o, l
  <2>2. s + j \in 0 .. z - 1
    BY <1>2, <1>6
  <2>3. c \div BlockSize = (s + j) \div BlockSize
    BY <1>6
  <2> QED
    BY <2>1, <2>2, <2>3 DEF Shared, z
<1>12. FillAt(r) = s + k
  BY DEF FillAt, s, k
<1> QED
  BY <1>1, <1>2, <1>3, <1>6, <1>9, <1>10, <1>11, <1>12 DEF b, k, c, s, i, v, t, o, l, z

\* The three kinds of fragment there are.
LEMMA RangeKinds ==
  ASSUME NEW n \in Nid
  PROVE  /\ Fragment[n].off \in Nat
         /\ \/ RangeKind(n) \in {0, 1}
            \/ /\ RangeKind(n) = 2
               /\ Fragment[n].range[1] \in 0 .. FileSize[n] - 1
               /\ Fragment[n].range[2] = FileSize[n]
<1>1. CASE Fragment[n].range = <<>>
  BY <1>1, FragmentAssumption DEF RangeKind
<1>2. CASE Fragment[n].range = <<"refused">>
  BY <1>2, FragmentAssumption DEF RangeKind
<1>3. CASE \E s \in 0 .. FileSize[n] - 1 : Fragment[n].range = <<s, FileSize[n]>>
  BY <1>3, FragmentAssumption DEF RangeKind
<1> QED
  BY <1>1, <1>2, <1>3, FragmentAssumption

\* A fill moves at least a byte, stays in its block, and is of one kind.
LEMMA TakeFacts ==
  ASSUME LazyTypeOK, NEW r \in Reader, Placed(r), Midway(r), RangeKind(req[r].nid) # 1
  PROVE  /\ FillTake(r) \in Nat /\ FillTake(r) > 0
         /\ Len(block[r]) + FillTake(r) <= ValidInBlock(r)
         /\ \A j \in 0 .. FillTake(r) - 1 : Packed(req[r].nid, FillAt(r) + j) <=> InFragment(r)
<1> DEFINE n == req[r].nid
           k == Len(block[r])
           f == FillAt(r)
           v == ValidInBlock(r)
           z == FileSize[n]
           e == RunEnd(r)
           t == FillTake(r)
           a == Fragment[n].range[1]
<1>1. n \in Nid /\ z \in Nat
  BY RequestFacts
<1>2. k \in Nat /\ v \in Nat /\ k < v /\ f \in Nat /\ f + (v - k) <= z
  BY <1>1, WalkFacts
<1>3. RangeKind(n) # 1
  OBVIOUS
<1>4. t = IF v - k <= e - f THEN v - k ELSE e - f
  BY DEF FillTake, Least
<1>5. RangeKind(n) = 0 \/ (RangeKind(n) = 2 /\ a \in 0 .. z - 1 /\ Fragment[n].range[2] = z)
  BY <1>1, <1>3, RangeKinds
<1>6. e = IF RangeKind(n) = 2 /\ f < a THEN a ELSE z
  BY DEF RunEnd, Frag
<1>7. InFragment(r) <=> RangeKind(n) = 2 /\ a <= f /\ f < Fragment[n].range[2]
  BY DEF InFragment, Frag
<1>8. \A o : Packed(n, o) <=> RangeKind(n) = 2 /\ o >= a
  BY DEF Packed
<1> HIDE DEF n, k, f, v, z, e, t, a
<1>9. CASE RangeKind(n) = 0
  BY <1>1, <1>2, <1>4, <1>6, <1>7, <1>8, <1>9 DEF n, k, f, v, t
<1>10. CASE RangeKind(n) = 2 /\ f < a
  <2>1. t \in Nat /\ t > 0 /\ k + t <= v /\ f + t <= a
    BY <1>1, <1>2, <1>4, <1>5, <1>6, <1>10
  <2>2. \A j \in 0 .. t - 1 : ~(f + j >= a)
    BY <1>1, <1>2, <1>5, <1>10, <2>1
  <2>3. ~InFragment(r)
    BY <1>1, <1>2, <1>5, <1>7, <1>10
  <2> QED
    BY <1>3, <1>8, <2>1, <2>2, <2>3 DEF n, k, f, v, t
<1>11. CASE RangeKind(n) = 2 /\ ~(f < a)
  <2>1. t \in Nat /\ t > 0 /\ k + t <= v
    BY <1>1, <1>2, <1>4, <1>6, <1>11
  <2>2. \A j \in 0 .. t - 1 : f + j >= a
    BY <1>1, <1>2, <1>5, <1>11, <2>1
  <2>3. InFragment(r)
    BY <1>1, <1>2, <1>5, <1>7, <1>11
  <2> QED
    BY <1>3, <1>8, <1>11, <2>1, <2>2, <2>3 DEF n, k, f, v, t
<1> QED
  BY <1>3, <1>5, <1>9, <1>10, <1>11
-----------------------------------------------------------------------------
\* Nobody but r moved in what its reading depends on.
Apart(r) ==
  /\ image' = image /\ req' = req /\ faults' >= faults /\ before' = before
  /\ Shape'
  /\ \A q \in Reader \ {r} :
       /\ pc'[q] = pc[q] /\ buf'[q] = buf[q] /\ block'[q] = block[q]
       /\ known'[q] = known[q] /\ res'[q] = res[q]

\* What stays of a call that did not move.
LEMMA StillRight ==
  ASSUME NEW r \in Reader, Placed(r), Gathered(r), Caused(r),
         image' = image, req'[r] = req[r], before'[r] = before[r],
         before[r] \in Nat, faults \in Nat, faults' \in Nat, faults' >= faults,
         pc'[r] = pc[r], buf'[r] = buf[r], block'[r] = block[r],
         known'[r] = known[r], res'[r] = res[r]
  PROVE  Placed(r)' /\ Gathered(r)' /\ Caused(r)'
<1>1. /\ Reading(r)' = Reading(r) /\ Needed(r)' = Needed(r) /\ Midway(r)' = Midway(r)
      /\ BlockStart(r)' = BlockStart(r) /\ ValidInBlock(r)' = ValidInBlock(r)
      /\ FillAt(r)' = FillAt(r) /\ InFragment(r)' = InFragment(r)
  BY DEF Reading, Needed, Midway, BlockStart, ValidInBlock, FillAt, InFragment, Frag, Cursor
<1>2. \A n, o : Unreadable(n, o)' = Unreadable(n, o)
  BY DEF Unreadable
<1>3. \A n, from, bytes : BytesRight(n, from, bytes)' = BytesRight(n, from, bytes)
  BY <1>2 DEF BytesRight, Good
<1>4. Placed(r)'
  BY <1>1 DEF Placed
<1>5. Gathered(r)'
  BY <1>1, <1>3 DEF Gathered
<1>6. Caused(r)'
  BY <1>2 DEF Caused
<1> QED
  BY <1>4, <1>5, <1>6

LEMMA ImageSame ==
  ASSUME image' = image
  PROVE  /\ \A n, o : Unreadable(n, o)' = Unreadable(n, o)
         /\ \A n, from, bytes : BytesRight(n, from, bytes)' = BytesRight(n, from, bytes)
BY DEF Unreadable, BytesRight, Good

LEMMA FunctionSeq ==
  ASSUME NEW S, NEW n \in Nat, NEW v \in [1 .. n -> S]
  PROVE  v \in Seq(S) /\ Len(v) = n
<1>1. v \in Seq(S)
  BY SeqDef
<1> DEFINE k == Len(v)
<1>2. k \in Nat /\ DOMAIN v = 1 .. k
  BY <1>1, LenProperties
<1> HIDE DEF k
<1>3. \A i \in Nat : i \in 1 .. n <=> i \in 1 .. k
  BY <1>2
<1>4. n <= k /\ k <= n
  BY <1>2, <1>3
<1> QED
  BY <1>1, <1>2, <1>4 DEF k

\* A call that ends in an error it has a cause for.
LEMMA FailRight ==
  ASSUME LazyTypeOK, Shape, NEW r \in Reader, Placed(r), NEW why \in Result \ {"none", "ok"},
         Fail(r, why), image' = image, req' = req, before' = before,
         before[r] <= faults, faults' \in Nat, faults' >= faults,
         why = "Io" => faults' > faults,
         why = "BadInode" => \E o \in Shared(req[r]) : Unreadable(req[r].nid, o),
         why = "BadXattr" =>
           \/ "dict" \notin image.sound
           \/ \E k \in DOMAIN Names[req[r].nid] :
                Names[req[r].nid][k] # Short /\ Names[req[r].nid][k] >= image.dict
  PROVE  Placed(r)' /\ Gathered(r)' /\ Caused(r)' /\ Apart(r)
<1>1. /\ pc' = [pc EXCEPT ![r] = "done"] /\ res' = [res EXCEPT ![r] = why]
      /\ block' = [block EXCEPT ![r] = <<>>] /\ UNCHANGED <<buf, known>>
  BY DEF Fail, Done
<1>2. pc'[r] = "done" /\ res'[r] = why /\ block'[r] = <<>>
  BY <1>1 DEF LazyTypeOK, Shape
<1>3. Reading(r)' = Reading(r) /\ ~Midway(r)'
  BY <1>2 DEF Reading, Midway
<1>4. Placed(r)'
  BY <1>1, <1>2, <1>3 DEF Placed, Result
<1>5. Gathered(r)'
  BY <1>2, <1>3 DEF Gathered, Result
<1>6. Caused(r)'
  <2>1. before[r] \in Nat /\ faults \in Nat
    BY LazyTablesAssumption DEF LazyTypeOK
  <2> QED
    BY <1>2, <2>1, ImageSame DEF Caused
<1>7. Apart(r)
  BY <1>1 DEF Apart, Shape, LazyTypeOK
<1> QED
  BY <1>4, <1>5, <1>6, <1>7

\* A call that goes on without having read anything.
LEMMA GotoRight ==
  ASSUME LazyTypeOK, Shape, NEW r \in Reader, Placed(r), Gathered(r), Caused(r),
         NEW label \in Label \ {"idle", "done", "open"}, Goto(r, label),
         image' = image, req' = req, before' = before, faults' = faults,
         UNCHANGED <<buf, block, known, res>>, pc[r] # "done",
         Midway(r) \/ ~Reading(r),
         label = "fill" => Reading(r),
         Reading(r) /\ label # "fill" => InFragment(r),
         label \in {"load", "store"} /\ Reading(r) => image.packed # NoPacked,
         label = "store" => Needed(r) \in image.sound
  PROVE  Placed(r)' /\ Gathered(r)' /\ Caused(r)' /\ Apart(r)
<1>1. pc' = [pc EXCEPT ![r] = label] /\ pc'[r] = label
  BY DEF Goto, LazyTypeOK
<1>2. /\ Reading(r)' = Reading(r) /\ Needed(r)' = Needed(r) /\ Midway(r)' = Midway(r)
      /\ BlockStart(r)' = BlockStart(r) /\ ValidInBlock(r)' = ValidInBlock(r)
      /\ FillAt(r)' = FillAt(r) /\ InFragment(r)' = InFragment(r)
  BY <1>1 DEF Label, Reading, Needed, Midway, BlockStart, ValidInBlock,
         FillAt, InFragment, Frag, Cursor
<1>3. Placed(r)'
  BY <1>1, <1>2 DEF Placed, Label
<1>4. Gathered(r)'
  BY <1>2, ImageSame DEF Gathered
<1>5. Caused(r)'
  BY ImageSame DEF Caused
<1>6. Apart(r)
  <2>1. faults \in Nat
    BY LazyTablesAssumption DEF LazyTypeOK
  <2> QED
    BY <1>1, <2>1 DEF Apart, Shape, LazyTypeOK
<1> QED
  BY <1>3, <1>4, <1>5, <1>6
-----------------------------------------------------------------------------
\* A piece of one sequence behind another.
LEMMA AppendPiece ==
  ASSUME NEW S, NEW b \in Seq(S), NEW full \in Seq(S), NEW m \in Nat, NEW n \in Nat,
         1 <= m, m <= n, n <= Len(full), NEW out, out = b \o SubSeq(full, m, n)
  PROVE  /\ out \in Seq(S) /\ Len(out) = Len(b) + (n - m + 1)
         /\ \A i \in 1 .. Len(out) :
              out[i] = IF i <= Len(b) THEN b[i] ELSE full[m - 1 + i - Len(b)]
<1> DEFINE s == SubSeq(full, m, n)
           l == Len(b)
           t == n - m + 1
<1>1. l \in Nat /\ Len(full) \in Nat
  BY LenProperties
<1>2. \A i \in m .. n : full[i] \in S
  <2> SUFFICES ASSUME NEW i \in m .. n PROVE full[i] \in S
    OBVIOUS
  <2>1. i \in 1 .. Len(full)
    BY <1>1
  <2> QED
    BY <2>1, ElementOfSeq
<1>7. t \in Nat /\ t = n - m + 1
  OBVIOUS
<1>8. s \in Seq(S) /\ Len(s) = n - m + 1 /\ \A i \in 1 .. n - m + 1 : s[i] = full[m + i - 1]
  BY <1>2, SubSeqProperties
<1>4. out = b \o s
  OBVIOUS
<1> HIDE DEF s, t
<1>3. s \in Seq(S) /\ Len(s) = t /\ \A i \in 1 .. t : s[i] = full[m + i - 1]
  BY <1>7, <1>8
<1>5. /\ out \in Seq(S) /\ Len(out) = l + t
      /\ \A i \in 1 .. l + t : out[i] = IF i <= l THEN b[i] ELSE s[i - l]
  <2>1. /\ b \o s \in Seq(S) /\ Len(b \o s) = l + Len(s)
        /\ \A i \in 1 .. l + Len(s) : (b \o s)[i] = IF i <= l THEN b[i] ELSE s[i - l]
    BY <1>3, ConcatProperties
  <2> QED
    BY <1>3, <1>4, <2>1
<1>6. ASSUME NEW i \in 1 .. Len(out) PROVE out[i] = IF i <= l THEN b[i] ELSE full[m - 1 + i - l]
  <2>1. CASE i <= l
    BY <1>5, <2>1
  <2>2. CASE ~(i <= l)
    <3>1. i - l \in 1 .. t /\ m + (i - l) - 1 = m - 1 + i - l
      BY <1>1, <1>5, <1>7, <2>2
    <3> QED
      BY <1>3, <1>5, <2>2, <3>1
  <2> QED
    BY <2>1, <2>2
<1> QED
  BY <1>5, <1>6 DEF t

\* A block and the fill behind it.
LEMMA GrownFacts ==
  ASSUME LazyTypeOK, NEW r \in Reader, Placed(r), Gathered(r), Midway(r),
         NEW v \in Seq(Byte), BytesRight(req[r].nid, FillAt(r), v),
         NEW full, full = block[r] \o v
  PROVE  /\ full \in Seq(Byte) /\ Len(full) = Len(block[r]) + Len(v)
         /\ BytesRight(req[r].nid, BlockStart(r), full)
<1> DEFINE k == Len(block[r])
           s == BlockStart(r)
           l == Len(v)
<1>1. block[r] \in Seq(Byte) /\ BytesRight(req[r].nid, s, block[r])
  BY DEF Placed, Gathered
<1>2. l \in Nat /\ k \in Nat /\ s \in Nat /\ FillAt(r) = s + k
  BY WalkFacts, LenProperties
<1>3. /\ full \in Seq(Byte) /\ Len(full) = k + l
      /\ \A i \in 1 .. k + l : full[i] = IF i <= k THEN block[r][i] ELSE v[i - k]
  BY <1>1, ConcatProperties
<1>4. ASSUME NEW i \in 1 .. Len(full) PROVE Good(req[r].nid, s + i - 1, full[i])
  <2>1. CASE i <= k
    <3>1. i \in 1 .. k /\ full[i] = block[r][i]
      BY <1>2, <1>3, <2>1
    <3> QED
      BY <1>1, <3>1 DEF BytesRight
  <2>2. CASE ~(i <= k)
    <3>1. full[i] = v[i - k]
      BY <1>3, <2>2
    <3>2. i - k \in 1 .. l /\ FillAt(r) + (i - k) - 1 = s + i - 1
      BY <1>2, <1>3, <2>2
    <3> QED
      BY <3>1, <3>2 DEF BytesRight
  <2> QED
    BY <2>1, <2>2
<1> QED
  BY <1>3, <1>4 DEF BytesRight

\* Bytes copied out of a right block are the right ones of the call.
LEMMA OutRight ==
  ASSUME LazyTypeOK, NEW r \in Reader, Placed(r), Gathered(r), Midway(r),
         NEW full \in Seq(Byte), Len(full) = ValidInBlock(r),
         BytesRight(req[r].nid, BlockStart(r), full), NEW out,
         out = buf[r] \o SubSeq(full, InBlockOff(r) + 1, InBlockOff(r) + Take(r))
  PROVE  /\ out \in Seq(Byte) /\ Len(out) = Len(buf[r]) + Take(r)
         /\ BytesRight(req[r].nid, req[r].off, out)
<1> DEFINE a == InBlockOff(r)
           t == Take(r)
           b == Len(buf[r])
           s == BlockStart(r)
           o == req[r].off
<1>1. buf[r] \in Seq(Byte) /\ BytesRight(req[r].nid, o, buf[r])
  BY DEF Placed, Gathered
<1>2. /\ a \in Nat /\ t \in Nat /\ t > 0 /\ a + t <= Len(full) /\ b \in Nat /\ s \in Nat
      /\ o + b = s + a
  BY WalkFacts
<1>3. o \in Nat
  BY RequestFacts
<1> DEFINE m == a + 1
           n == a + t
<1>4. out = buf[r] \o SubSeq(full, m, n)
  OBVIOUS
<1>7. m = a + 1 /\ n = a + t
  OBVIOUS
<1> HIDE DEF a, t, s, o, m, n
<1>8. Len(full) \in Nat
  BY LenProperties
<1>9. m \in Nat /\ n \in Nat /\ 1 <= m /\ m <= n /\ n <= Len(full)
  BY <1>2, <1>7, <1>8
<1>10. /\ out \in Seq(Byte) /\ Len(out) = b + (n - m + 1)
       /\ \A i \in 1 .. Len(out) : out[i] = IF i <= b THEN buf[r][i] ELSE full[m - 1 + i - b]
  <2> DEFINE g == buf[r]
  <2>1. g \in Seq(Byte) /\ full \in Seq(Byte) /\ b = Len(g) /\ out = g \o SubSeq(full, m, n)
    BY <1>1, <1>4
  <2> HIDE DEF b, g
  <2>2. /\ out \in Seq(Byte) /\ Len(out) = Len(g) + (n - m + 1)
        /\ \A i \in 1 .. Len(out) : out[i] = IF i <= Len(g) THEN g[i] ELSE full[m - 1 + i - Len(g)]
    BY ONLY <1>9, <2>1, AppendPiece
  <2> QED
    BY <2>1, <2>2 DEF g
<1> HIDE DEF b
<1>5. /\ out \in Seq(Byte) /\ Len(out) = b + t
      /\ \A i \in 1 .. Len(out) : out[i] = IF i <= b THEN buf[r][i] ELSE full[a + i - b]
  <2>1. n - m + 1 = t /\ m - 1 = a
    BY <1>2, <1>7
  <2> QED
    BY <1>10, <2>1
<1>6. ASSUME NEW i \in 1 .. Len(out) PROVE Good(req[r].nid, o + i - 1, out[i])
  <2>1. CASE i <= b
    <3>1. i \in 1 .. b /\ out[i] = buf[r][i]
      BY <1>2, <1>5, <2>1
    <3> QED
      BY <1>1, <3>1 DEF BytesRight, b
  <2>2. CASE ~(i <= b)
    <3>1. out[i] = full[a + i - b]
      BY <1>5, <2>2
    <3>2. a + i - b \in 1 .. Len(full) /\ s + (a + i - b) - 1 = o + i - 1
      BY <1>2, <1>3, <1>5, <1>8, <2>2
    <3>3. \A k \in 1 .. Len(full) : Good(req[r].nid, s + k - 1, full[k])
      BY DEF BytesRight, s
    <3> QED
      BY <3>1, <3>2, <3>3
  <2> QED
    BY <2>1, <2>2
<1> QED
  BY <1>5, <1>6 DEF BytesRight, t, o, b

\* There is room in the block of a call that is not done.
LEMMA EmptyFits ==
  ASSUME LazyTypeOK, NEW r \in Reader, Placed(r), Midway(r), req' = req,
         NEW out \in Seq(Byte), buf'[r] = out, Len(out) < req[r].len, block'[r] = <<>>
  PROVE  Len(block'[r]) < ValidInBlock(r)'
<1> DEFINE c == req[r].off + Len(out)
           z == FileSize[req[r].nid]
           s == c - (c % BlockSize)
           v == Least(z - s, BlockSize)
<1>1. c \in Nat /\ z \in Nat /\ c < z
  BY RequestFacts, LenProperties DEF Placed
<1>2. ValidInBlock(r)' = v
  BY DEF ValidInBlock, BlockStart, Cursor
<1>3. s = c - (c % BlockSize) /\ v = Least(z - s, BlockSize)
  OBVIOUS
<1> HIDE DEF c, z, s, v
<1>4. v \in Nat /\ c % BlockSize \in Nat /\ c % BlockSize < v
  BY <1>1, <1>3, Geometry
<1> QED
  BY <1>2, <1>4

\* A fill that returned the file's bytes leaves the call right.
LEMMA AbsorbRight ==
  ASSUME LazyTypeOK, Shape, NEW r \in Reader, Placed(r), Gathered(r), Caused(r),
         Midway(r), RangeKind(req[r].nid) # 1,
         NEW v \in Seq(Byte), Len(v) = FillTake(r), BytesRight(req[r].nid, FillAt(r), v),
         Absorb(r, v), image' = image, req' = req, before' = before, faults' = faults
  PROVE  Placed(r)' /\ Gathered(r)' /\ Caused(r)' /\ Apart(r)
<1> DEFINE full == block[r] \o v
           out == buf[r] \o SubSeq(full, InBlockOff(r) + 1, InBlockOff(r) + Take(r))
<1>1. /\ full \in Seq(Byte) /\ Len(full) = Len(block[r]) + Len(v)
      /\ BytesRight(req[r].nid, BlockStart(r), full)
  <2> HIDE DEF full
  <2>1. full = block[r] \o v
    BY DEF full
  <2> QED
    BY <2>1, GrownFacts
<1>2. /\ FillTake(r) \in Nat /\ FillTake(r) > 0
      /\ Len(block[r]) + FillTake(r) <= ValidInBlock(r)
  BY TakeFacts
<1>3. pc[r] # "done" /\ res[r] = "none" /\ Reading(r) /\ pc[r] # "open"
  BY DEF Midway, Placed
<1>4. faults \in Nat /\ faults' >= faults
  BY LazyTablesAssumption DEF LazyTypeOK
<1>5. known' = known
  BY DEF Absorb, Done
<1>6. CASE Len(full) < ValidInBlock(r)
  <2>1. /\ block' = [block EXCEPT ![r] = full] /\ pc' = [pc EXCEPT ![r] = "fill"]
        /\ UNCHANGED <<buf, res>>
    BY <1>6 DEF Absorb, Goto
  <2> HIDE DEF full
  <2>2. block'[r] = full /\ pc'[r] = "fill" /\ buf'[r] = buf[r] /\ res'[r] = res[r]
    BY <2>1 DEF LazyTypeOK, Shape
  <2>3. Apart(r)
    BY <1>4, <1>5, <2>1 DEF Apart, Shape, LazyTypeOK
  <2>4. /\ BlockStart(r)' = BlockStart(r) /\ ValidInBlock(r)' = ValidInBlock(r)
        /\ Reading(r)' = Reading(r) /\ Midway(r)'
    BY <1>3, <2>2 DEF BlockStart, ValidInBlock, Cursor, Reading, Midway
  <2>5. Placed(r)'
    BY <1>1, <1>3, <1>5, <1>6, <2>2, <2>4 DEF Placed
  <2>6. Gathered(r)'
    BY <1>1, <1>3, <2>2, <2>4, ImageSame DEF Gathered
  <2>7. Caused(r)'
    BY <2>2, ImageSame DEF Caused
  <2> QED
    BY <2>3, <2>5, <2>6, <2>7
<1>7. CASE ~(Len(full) < ValidInBlock(r))
  <2>1. Len(full) = ValidInBlock(r)
    <3> HIDE DEF full
    <3> QED
      BY <1>1, <1>2, <1>7, WalkFacts
  <2>2. /\ buf' = [buf EXCEPT ![r] = out] /\ block' = [block EXCEPT ![r] = <<>>]
        /\ \/ /\ Len(out) = req[r].len /\ pc' = [pc EXCEPT ![r] = "done"]
              /\ res' = [res EXCEPT ![r] = "ok"]
           \/ /\ Len(out) # req[r].len /\ pc' = [pc EXCEPT ![r] = "fill"]
              /\ res' = res
    BY <1>7 DEF Absorb, Goto, Done
  <2> HIDE DEF full
  <2>3. /\ out \in Seq(Byte) /\ Len(out) = Len(buf[r]) + Take(r)
        /\ BytesRight(req[r].nid, req[r].off, out)
    <3>1. out = buf[r] \o SubSeq(full, InBlockOff(r) + 1, InBlockOff(r) + Take(r))
      OBVIOUS
    <3> HIDE DEF out
    <3> QED
      BY <1>1, <2>1, <3>1, OutRight
  <2> HIDE DEF out
  <2>4. Apart(r)
    BY <1>4, <1>5, <2>2 DEF Apart, Shape, LazyTypeOK
  <2>5. buf'[r] = out /\ block'[r] = <<>> /\ Reading(r)' = Reading(r)
    BY <2>2 DEF Shape, Reading
  <2>6. CASE Len(out) = req[r].len /\ pc'[r] = "done" /\ res'[r] = "ok"
    <3>1. ~Midway(r)'
      BY <2>6 DEF Midway
    <3>2. Placed(r)'
      BY <1>3, <1>5, <2>5, <2>6, <3>1 DEF Placed
    <3>3. Gathered(r)'
      BY <2>3, <2>5, <2>6, <3>1, ImageSame DEF Gathered
    <3>4. Caused(r)'
      BY <2>6 DEF Caused
    <3> QED
      BY <2>4, <3>2, <3>3, <3>4
  <2>7. CASE Len(out) # req[r].len /\ pc'[r] = "fill" /\ res'[r] = res[r]
    <3>1. Midway(r)'
      BY <1>3, <2>5, <2>7 DEF Midway
    <3>2. Len(out) < req[r].len
      BY <2>3, <2>7, WalkFacts, RequestFacts
    <3>3. Len(block'[r]) < ValidInBlock(r)'
      BY <2>3, <2>5, <3>2, EmptyFits
    <3>4. Placed(r)'
      BY <1>3, <1>5, <2>3, <2>5, <2>7, <3>1, <3>2, <3>3, EmptySeq DEF Placed
    <3>7. \A n, from : BytesRight(n, from, <<>>)
      BY DEF BytesRight
    <3>5. Gathered(r)'
      BY <1>3, <2>3, <2>5, <2>7, <3>1, <3>7, ImageSame DEF Gathered
    <3>6. Caused(r)'
      BY <2>7, ImageSame DEF Caused
    <3> QED
      BY <2>4, <3>4, <3>5, <3>6
  <2> QED
    BY <2>2, <2>6, <2>7 DEF LazyTypeOK
<1> QED
  BY <1>6, <1>7
-----------------------------------------------------------------------------
\* Every byte of a fill is in a block the call shares, and those of a fragment
\* follow one another in the packed inode.
LEMMA FillShared ==
  ASSUME LazyTypeOK, NEW r \in Reader, Placed(r), Midway(r), RangeKind(req[r].nid) # 1
  PROVE  /\ FillAt(r) \in Nat
         /\ \A j \in 0 .. FillTake(r) - 1 : FillAt(r) + j \in Shared(req[r])
<1> DEFINE k == Len(block[r])
           s == BlockStart(r)
           v == ValidInBlock(r)
           t == FillTake(r)
<1>1. t \in Nat /\ k + t <= v
  BY TakeFacts
<1>2. /\ k \in Nat /\ s \in Nat /\ v \in Nat /\ FillAt(r) = s + k
      /\ \A j \in 0 .. v - 1 : s + j \in Shared(req[r])
  BY WalkFacts
<1> HIDE DEF k, s, v, t
<1>3. ASSUME NEW j \in 0 .. t - 1 PROVE FillAt(r) + j \in Shared(req[r])
  <2>1. k + j \in 0 .. v - 1 /\ FillAt(r) + j = s + (k + j)
    BY <1>1, <1>2
  <2> QED
    BY <1>2, <2>1
<1> QED
  BY <1>2, <1>3 DEF t

LEMMA FragmentFacts ==
  ASSUME LazyTypeOK, NEW r \in Reader, Placed(r), Midway(r), InFragment(r)
  PROVE  /\ RangeKind(req[r].nid) = 2 /\ SourceOff(r) \in Nat
         /\ \A j \in 0 .. FillTake(r) - 1 :
              /\ Packed(req[r].nid, FillAt(r) + j)
              /\ PackedOff(req[r].nid, FillAt(r) + j) = SourceOff(r) + j
<1> DEFINE n == req[r].nid
           a == Fragment[n].range[1]
<1>1. RangeKind(n) = 2 /\ a <= FillAt(r)
  BY DEF InFragment, Frag
<1>2. /\ n \in Nid /\ Fragment[n].off \in Nat /\ a \in Nat /\ FillAt(r) \in Nat
      /\ FillTake(r) \in Nat
  BY <1>1, RequestFacts, RangeKinds, FillShared, TakeFacts
<1>3. SourceOff(r) = Fragment[n].off + (FillAt(r) - a)
  BY DEF SourceOff, Frag
<1>4. \A o : PackedOff(n, o) = Fragment[n].off + (o - a)
  BY DEF PackedOff
<1>5. \A j \in 0 .. FillTake(r) - 1 : Packed(n, FillAt(r) + j)
  BY <1>1, TakeFacts
<1> HIDE DEF n, a
<1>6. SourceOff(r) \in Nat
  BY <1>1, <1>2, <1>3
<1>7. ASSUME NEW j \in 0 .. FillTake(r) - 1
      PROVE  PackedOff(n, FillAt(r) + j) = SourceOff(r) + j
  BY <1>2, <1>3, <1>4
<1> QED
  BY <1>1, <1>5, <1>6, <1>7 DEF n

\* What is below the fragment is the file's own, and can be read.
LEMMA OrdinaryRight ==
  ASSUME LazyTypeOK, NEW r \in Reader, Placed(r), Midway(r), RangeKind(req[r].nid) # 1,
         ~InFragment(r), NEW v, v = [i \in 1 .. FillTake(r) |-> <<req[r].nid, FillAt(r) + i - 1>>]
  PROVE  v \in Seq(Byte) /\ Len(v) = FillTake(r) /\ BytesRight(req[r].nid, FillAt(r), v)
<1> DEFINE n == req[r].nid
           f == FillAt(r)
           t == FillTake(r)
<1>1. n \in Nid /\ f \in Nat /\ t \in Nat /\ \A j \in 0 .. t - 1 : ~Packed(n, f + j)
  BY RequestFacts, FillShared, TakeFacts
<1>2. v = [i \in 1 .. t |-> <<n, f + i - 1>>] /\ RangeKind(n) # 1
  OBVIOUS
<1> HIDE DEF n, f, t
<1>3. v \in [1 .. t -> Byte]
  <2>1. \A i \in 1 .. t : f + i - 1 \in Int
    BY <1>1
  <2>2. \A i \in 1 .. t : <<n, f + i - 1>> \in Byte
    BY <1>1, <2>1 DEF Byte
  <2> QED
    BY ONLY <1>2, <2>2
<1>4. v \in Seq(Byte) /\ Len(v) = t
  BY <1>1, <1>3, FunctionSeq
<1>5. ASSUME NEW i \in 1 .. t PROVE Good(n, f + i - 1, v[i])
  <2>1. i - 1 \in 0 .. t - 1 /\ f + (i - 1) = f + i - 1
    BY <1>1
  <2>2. ~Packed(n, f + i - 1)
    BY <1>1, <2>1
  <2> QED
    BY <1>2, <2>2 DEF Good, FileByte, Unreadable
<1> QED
  BY <1>4, <1>5 DEF BytesRight, n, f, t

\* So is what the packed inode gives for the fragment.
LEMMA PackedRight ==
  ASSUME LazyTypeOK, NEW r \in Reader, Placed(r), Midway(r), InFragment(r),
         image.packed # NoPacked, "packed" \in image.sound,
         ~PastPacked(r), ~PackedRefuses(r),
         NEW v, v = [i \in 1 .. FillTake(r) |-> <<"packed", SourceOff(r) + i - 1>>]
  PROVE  v \in Seq(Byte) /\ Len(v) = FillTake(r) /\ BytesRight(req[r].nid, FillAt(r), v)
<1> DEFINE n == req[r].nid
           f == FillAt(r)
           t == FillTake(r)
           s == SourceOff(r)
           p == image.packed
<1>1. /\ n \in Nid /\ f \in Nat /\ t \in Nat /\ s \in Nat /\ RangeKind(n) = 2
      /\ \A j \in 0 .. t - 1 : Packed(n, f + j) /\ PackedOff(n, f + j) = s + j
  BY RequestFacts, FillShared, TakeFacts, FragmentFacts
<1>2. v = [i \in 1 .. t |-> <<"packed", s + i - 1>>]
  OBVIOUS
<1>3. Len(p) \in Nat /\ s + t <= Len(p)
  <2>1. p \in Seq(BOOLEAN)
    BY FragmentAssumption DEF LazyTypeOK
  <2>2. ~(s + t > Len(p))
    BY DEF PastPacked
  <2> HIDE DEF p, s, t
  <2> QED
    BY <1>1, <2>1, <2>2, LenProperties
<1>4. \A o \in s .. s + t - 1 : p[o + 1]
  BY DEF PackedRefuses
<1> HIDE DEF n, f, t, s
<1>5. v \in [1 .. t -> Byte]
  <2>1. \A i \in 1 .. t : s + i - 1 \in Int
    BY <1>1
  <2>2. \A i \in 1 .. t : <<"packed", s + i - 1>> \in Byte
    BY <2>1 DEF Byte
  <2> QED
    BY ONLY <1>2, <2>2
<1>6. v \in Seq(Byte) /\ Len(v) = t
  BY <1>1, <1>5, FunctionSeq
<1>7. ASSUME NEW i \in 1 .. t PROVE Good(n, f + i - 1, v[i])
  <2> DEFINE j == i - 1
             o == f + i - 1
  <2>1. j \in 0 .. t - 1 /\ f + j = o /\ s + j = s + i - 1 /\ s + j \in s .. s + t - 1
    BY <1>1
  <2>2. s + j < Len(p)
    BY <1>1, <1>3, <2>1
  <2>3. v[i] = <<"packed", s + j>>
    BY <1>2, <2>1
  <2> HIDE DEF j, o
  <2>4. Packed(n, o) /\ PackedOff(n, o) = s + j
    BY <1>1, <2>1
  <2>5. p[s + j + 1]
    BY <1>4, <2>1
  <2>6. ~(s + j >= Len(p))
    BY <1>1, <1>3, <2>1, <2>2
  <2>7. ~Unreadable(n, o)
    BY <1>1, <2>4, <2>5, <2>6 DEF Unreadable
  <2>8. v[i] = FileByte(n, o)
    BY <2>3, <2>4 DEF FileByte
  <2> QED
    BY <2>7, <2>8 DEF Good, o
<1> QED
  BY <1>6, <1>7 DEF BytesRight, n, f, t

\* A fill that the packed inode cannot answer has a byte that cannot be read.
LEMMA PackedCause ==
  ASSUME LazyTypeOK, NEW r \in Reader, Placed(r), Midway(r), InFragment(r),
         \/ image.packed = NoPacked \/ "packed" \notin image.sound
         \/ PastPacked(r) \/ PackedRefuses(r)
  PROVE  \E o \in Shared(req[r]) : Unreadable(req[r].nid, o)
<1> DEFINE n == req[r].nid
           f == FillAt(r)
           t == FillTake(r)
           s == SourceOff(r)
<1>1. /\ f \in Nat /\ t \in Nat /\ t > 0 /\ s \in Nat
      /\ \A j \in 0 .. t - 1 : /\ f + j \in Shared(req[r]) /\ Packed(n, f + j)
                               /\ PackedOff(n, f + j) = s + j
  BY FillShared, TakeFacts, FragmentFacts
<1>2. CASE image.packed = NoPacked \/ "packed" \notin image.sound
  <2>1. 0 \in 0 .. t - 1
    BY <1>1
  <2>2. Unreadable(n, f + 0)
    BY <1>1, <1>2, <2>1 DEF Unreadable
  <2> QED
    BY <1>1, <2>1, <2>2
<1>3. CASE PastPacked(r) /\ image.packed # NoPacked
  <2>1. s + t > Len(image.packed)
    BY <1>3 DEF PastPacked
  <2>2. Len(image.packed) \in Nat
    BY <1>3, FragmentAssumption, LenProperties DEF LazyTypeOK
  <2> DEFINE j == t - 1
  <2> HIDE DEF s, t, f
  <2>3. j \in 0 .. t - 1 /\ s + j >= Len(image.packed)
    BY <1>1, <2>1, <2>2
  <2> HIDE DEF j
  <2>4. Unreadable(n, f + j)
    BY <1>1, <2>3 DEF Unreadable
  <2> QED
    BY <1>1, <2>3, <2>4
<1>4. CASE PackedRefuses(r)
  <2>1. PICK o \in s .. s + t - 1 : ~image.packed[o + 1]
    BY <1>4 DEF PackedRefuses
  <2> DEFINE j == o - s
  <2> HIDE DEF s, t, f
  <2>2. j \in 0 .. t - 1 /\ s + j = o
    BY <1>1, <2>1
  <2> HIDE DEF j
  <2>3. Packed(n, f + j) /\ PackedOff(n, f + j) = o
    BY <1>1, <2>2
  <2>4. Unreadable(n, f + j)
    BY <2>1, <2>3 DEF Unreadable
  <2> QED
    BY <1>1, <2>2, <2>4
<1> QED
  BY <1>2, <1>3, <1>4
-----------------------------------------------------------------------------
\* What a step must show of the thread that takes it.
Moved(r) == Placed(r)' /\ Gathered(r)' /\ Caused(r)' /\ Apart(r)

LEMMA OpenFileRight ==
  ASSUME RightInv, NEW r \in Reader, OpenFile(r), image' = image, req' = req,
         before' = before, faults' = faults
  PROVE  Moved(r)
<1>1. /\ LazyTypeOK /\ Shape /\ Placed(r) /\ Gathered(r) /\ Caused(r)
      /\ pc[r] = "open" /\ Reading(r) /\ buf[r] = <<>> /\ block[r] = <<>> /\ res[r] = "none"
  BY DEF RightInv, Inv, OpenFile, Placed, Midway
<1>2. faults \in Nat /\ before[r] <= faults /\ Reading(r)' = Reading(r)
  BY <1>1, LazyTablesAssumption DEF LazyTypeOK, Caused, Reading
<1>3. CASE Fail(r, "OutOfRange")
  BY <1>1, <1>2, <1>3, FailRight DEF Result, Moved
<1>4. \A n, from : BytesRight(n, from, <<>>)
  BY DEF BytesRight
<1>5. CASE req[r].len = 0 /\ Done(r, "ok") /\ UNCHANGED <<buf, known>>
  <2>1. /\ pc' = [pc EXCEPT ![r] = "done"] /\ res' = [res EXCEPT ![r] = "ok"]
        /\ block' = [block EXCEPT ![r] = <<>>] /\ UNCHANGED <<buf, known>>
    BY <1>5 DEF Done
  <2>2. pc'[r] = "done" /\ res'[r] = "ok" /\ block'[r] = <<>> /\ buf'[r] = <<>>
    BY <1>1, <2>1 DEF LazyTypeOK, Shape
  <2>3. ~Midway(r)'
    BY <2>2 DEF Midway
  <2>4. Placed(r)'
    BY <1>1, <2>1, <2>2, <2>3 DEF Placed
  <2>5. Gathered(r)'
    BY <1>2, <1>4, <1>5, <2>2, <2>3, ImageSame DEF Gathered
  <2>6. Caused(r)'
    BY <1>1, <2>2 DEF Caused
  <2>7. Apart(r)
    BY <1>1, <1>2, <2>1 DEF Apart, Shape, LazyTypeOK
  <2> QED
    BY <2>4, <2>5, <2>6, <2>7 DEF Moved
<1>6. CASE /\ req[r].off + req[r].len <= FileSize[req[r].nid] /\ req[r].len > 0
           /\ Goto(r, "fill") /\ UNCHANGED <<buf, block, known, loaded, held, res>>
  <2>1. pc' = [pc EXCEPT ![r] = "fill"] /\ pc'[r] = "fill"
    BY <1>1, <1>6 DEF Goto, LazyTypeOK
  <2>2. Midway(r)'
    BY <1>1, <1>2, <2>1 DEF Midway
  <2>3. Len(buf'[r]) = 0 /\ Len(block'[r]) = 0 /\ <<>> \in Seq(Byte)
    BY <1>1, <1>6
  <2>4. Len(block'[r]) < ValidInBlock(r)'
    <3> DEFINE c == req[r].off + Len(buf'[r])
               z == FileSize[req[r].nid]
               s == c - (c % BlockSize)
               v == Least(z - s, BlockSize)
    <3>1. c \in Nat /\ z \in Nat /\ c < z
      BY <1>1, <1>6, <2>3, RequestFacts
    <3>2. ValidInBlock(r)' = v
      BY DEF ValidInBlock, BlockStart, Cursor
    <3>3. s = c - (c % BlockSize) /\ v = Least(z - s, BlockSize)
      OBVIOUS
    <3> HIDE DEF c, z, s, v
    <3>4. v \in Nat /\ c % BlockSize \in Nat /\ c % BlockSize < v
      BY <3>1, <3>3, Geometry
    <3> QED
      BY <2>3, <3>2, <3>4
  <2>5. Placed(r)'
    BY <1>1, <1>2, <1>6, <2>1, <2>2, <2>3, <2>4, RequestFacts DEF Placed
  <2>6. Gathered(r)'
    BY <1>1, <1>4, <1>6, ImageSame DEF Gathered
  <2>7. Caused(r)'
    BY <1>1, <1>6 DEF Caused
  <2>8. Apart(r)
    BY <1>1, <1>2, <1>6, <2>1 DEF Apart, Shape, LazyTypeOK
  <2> QED
    BY <2>5, <2>6, <2>7, <2>8 DEF Moved
<1> QED
  BY <1>3, <1>5, <1>6 DEF OpenFile

LEMMA WorkOutRight ==
  ASSUME RightInv, NEW r \in Reader, WorkOutRange(r), image' = image, req' = req,
         before' = before, faults' = faults
  PROVE  Moved(r)
<1>1. /\ LazyTypeOK /\ Shape /\ Placed(r) /\ Gathered(r) /\ Caused(r)
      /\ pc[r] = "fill" /\ Midway(r)
  BY DEF RightInv, Inv, WorkOutRange, Placed, Midway
<1>2. faults \in Nat /\ before[r] <= faults
  BY <1>1, LazyTablesAssumption DEF LazyTypeOK, Caused
<1>3. CASE RangeKind(req[r].nid) = 1 /\ Fail(r, "BadInode")
  <2>1. BlockStart(r) + 0 \in Shared(req[r])
    BY <1>1, WalkFacts
  <2>2. Unreadable(req[r].nid, BlockStart(r) + 0)
    BY <1>3 DEF Unreadable
  <2> QED
    BY <1>1, <1>2, <1>3, <2>1, <2>2, FailRight DEF Result, Moved
<1>4. CASE RangeKind(req[r].nid) # 1 /\ known' = [known EXCEPT ![r] = TRUE]
           /\ UNCHANGED <<buf, block, pc, loaded, held, res>>
  <2>1. /\ Reading(r)' = Reading(r) /\ Needed(r)' = Needed(r) /\ Midway(r)' = Midway(r)
        /\ BlockStart(r)' = BlockStart(r) /\ ValidInBlock(r)' = ValidInBlock(r)
        /\ FillAt(r)' = FillAt(r) /\ InFragment(r)' = InFragment(r)
    BY <1>4 DEF Reading, Needed, Midway, BlockStart, ValidInBlock, FillAt, InFragment, Frag, Cursor
  <2>2. Placed(r)'
    BY <1>1, <1>4, <2>1 DEF Placed
  <2>3. Gathered(r)'
    BY <1>1, <1>4, <2>1, ImageSame DEF Gathered
  <2>4. Caused(r)'
    BY <1>1, <1>4, ImageSame DEF Caused
  <2>5. Apart(r)
    BY <1>1, <1>2, <1>4 DEF Apart, Shape, LazyTypeOK
  <2> QED
    BY <2>2, <2>3, <2>4, <2>5 DEF Moved
<1> QED
  BY <1>3, <1>4 DEF WorkOutRange

LEMMA ReadEntriesRight ==
  ASSUME RightInv, NEW r \in Reader, ReadEntries(r) \/ Resolve(r), image' = image, req' = req,
         before' = before, faults' = faults
  PROVE  Moved(r)
<1>1. /\ LazyTypeOK /\ Shape /\ Placed(r) /\ Gathered(r) /\ Caused(r)
      /\ pc[r] \in {"open", "use"} /\ ~Reading(r) /\ ~Midway(r)
  BY DEF RightInv, Inv, ReadEntries, Resolve, Midway
<1>2. faults \in Nat /\ before[r] <= faults /\ Reading(r)' = Reading(r)
  BY <1>1, LazyTablesAssumption DEF LazyTypeOK, Caused, Reading
<1>3. CASE Done(r, "ok") /\ known' = known
           /\ (buf' = buf \/ \E x : buf' = [buf EXCEPT ![r] = x])
  <2>1. /\ pc' = [pc EXCEPT ![r] = "done"] /\ res' = [res EXCEPT ![r] = "ok"]
        /\ block' = [block EXCEPT ![r] = <<>>] /\ known' = known
    BY <1>3 DEF Done
  <2>2. pc'[r] = "done" /\ res'[r] = "ok" /\ block'[r] = <<>>
    BY <1>1, <2>1 DEF LazyTypeOK, Shape
  <2>3. ~Midway(r)'
    BY <2>2 DEF Midway
  <2>4. Placed(r)'
    BY <1>1, <1>2, <2>1, <2>2, <2>3 DEF Placed
  <2>5. Gathered(r)'
    BY <1>1, <1>2, <2>3 DEF Gathered
  <2>6. Caused(r)'
    BY <1>1, <2>2 DEF Caused
  <2>7. Apart(r)
    BY <1>1, <1>2, <1>3, <2>1 DEF Apart, Shape, LazyTypeOK
  <2> QED
    BY <2>4, <2>5, <2>6, <2>7 DEF Moved
<1>4. CASE Fail(r, "BadXattr") /\ \E k \in DOMAIN Names[req[r].nid] :
             Names[req[r].nid][k] # Short /\ Names[req[r].nid][k] >= image.dict
  BY <1>1, <1>2, <1>4, FailRight DEF Result, Moved
<1>5. CASE pc[r] = "open" /\ Goto(r, "get") /\ UNCHANGED <<buf, block, known, loaded, held, res>>
  BY <1>1, <1>5, GotoRight DEF Label, Moved
<1>6. CASE ReadEntries(r)
  BY <1>3, <1>5, <1>6 DEF ReadEntries
<1>7. CASE Resolve(r)
  BY <1>3, <1>4, <1>7 DEF Resolve
<1> QED
  BY <1>6, <1>7

\* The fragment's way: to the cell, past it to the device, and into the cell.
LEMMA GetRight ==
  ASSUME RightInv, NEW r \in Reader, Get(r), image' = image, req' = req,
         before' = before, faults' = faults
  PROVE  Moved(r)
<1>1. /\ LazyTypeOK /\ Shape /\ Placed(r) /\ Gathered(r) /\ Caused(r) /\ pc[r] = "get"
  BY DEF RightInv, Inv, Get
<1>2. (Reading(r) <=> Midway(r)) /\ (Reading(r) => InFragment(r))
  BY <1>1 DEF Midway, Placed
<1>3. faults \in Nat /\ before[r] <= faults
  BY <1>1, LazyTablesAssumption DEF LazyTypeOK, Caused
<1>4. CASE Goto(r, "use") /\ UNCHANGED <<buf, block, known, loaded, res>>
  BY <1>1, <1>2, <1>4, GotoRight DEF Label, Moved
<1>5. CASE Reading(r) /\ image.packed = NoPacked /\ Fail(r, "BadInode")
  BY <1>1, <1>2, <1>3, <1>5, PackedCause, FailRight DEF Result, Moved
<1>6. CASE ~(Reading(r) /\ image.packed = NoPacked) /\ Goto(r, "load")
           /\ UNCHANGED <<buf, block, known, loaded, held, res>>
  BY <1>1, <1>2, <1>6, GotoRight DEF Label, Moved
<1> QED
  BY <1>4, <1>5, <1>6 DEF Get

LEMMA LoadRight ==
  ASSUME RightInv, NEW r \in Reader, Load(r), image' = image, req' = req,
         before' = before, faults' = faults
  PROVE  Moved(r)
<1>1. /\ LazyTypeOK /\ Shape /\ Placed(r) /\ Gathered(r) /\ Caused(r) /\ pc[r] = "load"
  BY DEF RightInv, Inv, Load
<1>2. (Reading(r) <=> Midway(r)) /\ (Reading(r) => InFragment(r))
  BY <1>1 DEF Midway, Placed
<1>3. faults \in Nat /\ before[r] <= faults
  BY <1>1, LazyTablesAssumption DEF LazyTypeOK, Caused
<1>4. CASE Needed(r) \notin image.sound /\ Fail(r, Refusal(Needed(r)))
  <2>1. CASE Reading(r)
    <3>1. Needed(r) = "packed" /\ Refusal(Needed(r)) = "BadInode"
      BY <2>1 DEF Needed, Refusal
    <3> QED
      BY <1>1, <1>2, <1>3, <1>4, <2>1, <3>1, PackedCause, FailRight DEF Result, Moved
  <2>2. CASE ~Reading(r)
    <3>1. Needed(r) = "dict" /\ Refusal(Needed(r)) = "BadXattr"
      BY <2>2 DEF Needed, Refusal
    <3> QED
      BY <1>1, <1>3, <1>4, <3>1, FailRight DEF Result, Moved
  <2> QED
    BY <2>1, <2>2
<1>5. CASE Needed(r) \in image.sound /\ Goto(r, "store")
           /\ UNCHANGED <<buf, block, known, held, res>>
  <2>1. Reading(r) => image.packed # NoPacked
    BY <1>1 DEF Placed
  <2> QED
    BY <1>1, <1>2, <1>5, <2>1, GotoRight DEF Label, Moved
<1> QED
  BY <1>4, <1>5 DEF Load

LEMMA StoreRight ==
  ASSUME RightInv, NEW r \in Reader, Store(r), image' = image, req' = req,
         before' = before, faults' = faults
  PROVE  Moved(r) /\ Kept'
<1>1. /\ LazyTypeOK /\ Shape /\ Placed(r) /\ Gathered(r) /\ Caused(r) /\ pc[r] = "store" /\ Kept
  BY DEF RightInv, Inv, Store
<1>2. (Reading(r) <=> Midway(r)) /\ (Reading(r) => InFragment(r))
  BY <1>1 DEF Midway, Placed
<1>3. Moved(r)
  BY <1>1, <1>2, GotoRight DEF Store, Label, Moved
<1>4. Needed(r) \in image.sound /\ (Needed(r) = "packed" => image.packed # NoPacked)
  BY <1>1 DEF Placed, Needed
<1>5. \A t \in Table : t # Needed(r) => cell'[t] = cell[t]
  BY <1>1 DEF Store, LazyTypeOK
<1>6. Kept'
  BY <1>1, <1>4, <1>5 DEF Kept
<1> QED
  BY <1>3, <1>6

LEMMA FillRight ==
  ASSUME RightInv, NEW r \in Reader, FillOrdinary(r) \/ FillFragment(r) \/ ReadPacked(r),
         image' = image, req' = req, before' = before, faults' = faults
  PROVE  Moved(r)
<1>1. /\ LazyTypeOK /\ Shape /\ Placed(r) /\ Gathered(r) /\ Caused(r) /\ Kept
  BY DEF RightInv, Inv
<1>2. faults \in Nat /\ before[r] <= faults
  BY <1>1, LazyTablesAssumption DEF LazyTypeOK, Caused
<1>3. CASE FillOrdinary(r)
  <2> DEFINE v == [i \in 1 .. FillTake(r) |-> <<req[r].nid, FillAt(r) + i - 1>>]
  <2>1. Midway(r) /\ RangeKind(req[r].nid) # 1 /\ ~InFragment(r) /\ Absorb(r, v)
    BY <1>1, <1>3 DEF FillOrdinary, Placed, Midway
  <2>2. v = [i \in 1 .. FillTake(r) |-> <<req[r].nid, FillAt(r) + i - 1>>]
    OBVIOUS
  <2> HIDE DEF v
  <2>3. v \in Seq(Byte) /\ Len(v) = FillTake(r) /\ BytesRight(req[r].nid, FillAt(r), v)
    BY <1>1, <2>1, <2>2, OrdinaryRight
  <2> QED
    BY <1>1, <2>1, <2>3, AbsorbRight DEF Moved
<1>4. CASE FillFragment(r)
  <2>1. pc[r] = "fill" /\ Midway(r) /\ InFragment(r) /\ Goto(r, "get")
        /\ UNCHANGED <<buf, block, known, loaded, held, res>>
    BY <1>1, <1>4 DEF FillFragment, Placed, Midway
  <2> QED
    BY <1>1, <2>1, GotoRight DEF Label, Moved
<1>5. CASE ReadPacked(r)
  <2> DEFINE v == [i \in 1 .. FillTake(r) |-> <<"packed", SourceOff(r) + i - 1>>]
  <2>1. pc[r] = "use" /\ Reading(r) /\ Midway(r)
    BY <1>5 DEF ReadPacked, Midway
  <2>2. InFragment(r) /\ RangeKind(req[r].nid) # 1
    BY <1>1, <2>1 DEF Placed, InFragment
  <2>3. "packed" \in image.sound /\ image.packed # NoPacked
    BY <1>1, <2>1 DEF LazyTypeOK, Kept, Needed, Table
  <2>4. CASE (PastPacked(r) \/ PackedRefuses(r)) /\ Fail(r, "BadInode")
    BY <1>1, <1>2, <2>1, <2>2, <2>4, PackedCause, FailRight DEF Result, Moved
  <2>5. CASE ~PastPacked(r) /\ ~PackedRefuses(r) /\ Absorb(r, v)
    <3>1. v = [i \in 1 .. FillTake(r) |-> <<"packed", SourceOff(r) + i - 1>>]
      OBVIOUS
    <3> HIDE DEF v
    <3>2. v \in Seq(Byte) /\ Len(v) = FillTake(r) /\ BytesRight(req[r].nid, FillAt(r), v)
      BY <1>1, <2>1, <2>2, <2>3, <2>5, <3>1, PackedRight
    <3> QED
      BY <1>1, <2>1, <2>2, <2>5, <3>2, AbsorbRight DEF Moved
  <2> QED
    BY <1>5, <2>4, <2>5 DEF ReadPacked
<1> QED
  BY <1>3, <1>4, <1>5

LEMMA DeviceFailsRight ==
  ASSUME RightInv, NEW r \in Reader, DeviceFails(r)
  PROVE  Moved(r) /\ Kept'
<1>1. LazyTypeOK /\ Shape /\ Placed(r) /\ Caused(r) /\ Kept
  BY DEF RightInv, Inv
<1>2. /\ Fail(r, "Io") /\ faults' = faults + 1
      /\ UNCHANGED <<image, cell, req, calls, before>>
  BY DEF DeviceFails
<1>3. faults \in Nat /\ before[r] <= faults /\ faults' \in Nat /\ faults' >= faults /\ faults' > faults
  BY <1>1, <1>2, LazyTablesAssumption DEF LazyTypeOK, Caused
<1>4. Moved(r)
  BY <1>1, <1>2, <1>3, FailRight DEF Result, Moved
<1>5. Kept'
  BY <1>1, <1>2 DEF Kept
<1> QED
  BY <1>4, <1>5

LEMMA BeginRight ==
  ASSUME RightInv, NEW r \in Reader, NEW q \in Request, Begin(r, q)
  PROVE  /\ Shape' /\ Kept' /\ \A p \in Reader : Placed(p)' /\ Gathered(p)' /\ Caused(p)'
<1>1. LazyTypeOK /\ Shape /\ Kept /\ \A p \in Reader : Placed(p) /\ Gathered(p) /\ Caused(p)
  BY DEF RightInv, Inv
<1>2. /\ pc[r] \in {"idle", "done"} /\ block[r] = <<>>
      /\ before' = [before EXCEPT ![r] = faults] /\ req' = [req EXCEPT ![r] = q]
      /\ buf' = [buf EXCEPT ![r] = <<>>] /\ known' = [known EXCEPT ![r] = FALSE]
      /\ res' = [res EXCEPT ![r] = "none"] /\ pc' = [pc EXCEPT ![r] = "open"]
      /\ UNCHANGED <<image, cell, block, loaded, held, faults>>
  BY <1>1 DEF Begin, Goto, Placed, Midway
<1>3. /\ pc'[r] = "open" /\ buf'[r] = <<>> /\ known'[r] = FALSE /\ res'[r] = "none"
      /\ before'[r] = faults /\ block'[r] = <<>>
  BY <1>1, <1>2 DEF LazyTypeOK, Shape
<1>4. faults \in Nat /\ ~Midway(r)'
  BY <1>1, <1>3, LazyTablesAssumption DEF LazyTypeOK, Midway
<1>5. Placed(r)' /\ Gathered(r)' /\ Caused(r)'
  BY <1>2, <1>3, <1>4 DEF Placed, Gathered, Caused
<1>6. ASSUME NEW p \in Reader \ {r} PROVE Placed(p)' /\ Gathered(p)' /\ Caused(p)'
  <2>1. /\ req'[p] = req[p] /\ before'[p] = before[p] /\ pc'[p] = pc[p] /\ buf'[p] = buf[p]
        /\ block'[p] = block[p] /\ known'[p] = known[p] /\ res'[p] = res[p]
        /\ faults' = faults /\ image' = image
    BY <1>1, <1>2 DEF LazyTypeOK, Shape
  <2>2. before[p] \in Nat /\ faults' >= faults
    BY <1>1, <1>4, <2>1, LazyTablesAssumption DEF LazyTypeOK
  <2> QED
    BY <1>1, <1>4, <2>1, <2>2, StillRight
<1>7. Shape' /\ Kept'
  BY <1>1, <1>2 DEF Shape, Kept
<1> QED
  BY <1>5, <1>6, <1>7

\* A step of one thread leaves the others as they were.
LEMMA MovedAll ==
  ASSUME RightInv, NEW r \in Reader, Moved(r), faults' \in Nat
  PROVE  Shape' /\ \A p \in Reader : Placed(p)' /\ Gathered(p)' /\ Caused(p)'
<1>1. LazyTypeOK /\ \A p \in Reader : Placed(p) /\ Gathered(p) /\ Caused(p)
  BY DEF RightInv, Inv
<1>2. faults \in Nat /\ \A p \in Reader : before[p] \in Nat
  BY <1>1, LazyTablesAssumption DEF LazyTypeOK
<1>3. ASSUME NEW p \in Reader \ {r} PROVE Placed(p)' /\ Gathered(p)' /\ Caused(p)'
  <2>1. /\ image' = image /\ req'[p] = req[p] /\ before'[p] = before[p] /\ faults' >= faults
        /\ pc'[p] = pc[p] /\ buf'[p] = buf[p]
        /\ block'[p] = block[p] /\ known'[p] = known[p] /\ res'[p] = res[p]
    BY DEF Moved, Apart
  <2> QED
    BY <1>1, <1>2, <2>1, StillRight
<1> QED
  BY <1>3 DEF Moved, Apart

LEMMA InitRight == Init => RightInv
<1> SUFFICES ASSUME Init PROVE RightInv
  OBVIOUS
<1>1. Inv
  BY InitInv
<1>2. Shape /\ Kept
  BY DEF Init, Shape, Kept
<1>3. ASSUME NEW r \in Reader PROVE Placed(r) /\ Gathered(r) /\ Caused(r)
  <2>1. /\ pc[r] = "idle" /\ res[r] = "none" /\ known[r] = FALSE /\ block[r] = <<>>
        /\ before[r] = 0 /\ faults = 0
    BY DEF Init
  <2> QED
    BY <2>1 DEF Placed, Gathered, Caused, Midway
<1> QED
  BY <1>1, <1>2, <1>3 DEF RightInv

LEMMA NextRight == RightInv /\ [Next]_vars => RightInv'
<1> SUFFICES ASSUME RightInv, [Next]_vars PROVE RightInv'
  OBVIOUS
<1>1. Inv' /\ Inv
  BY NextInv DEF RightInv
<1>2. faults' \in Nat /\ faults \in Nat
  BY <1>1, LazyTablesAssumption DEF Inv, LazyTypeOK
<1>3. ASSUME NEW r \in Reader, NEW q \in Request, Begin(r, q) PROVE RightInv'
  BY <1>1, <1>3, BeginRight DEF RightInv
<1>4. ASSUME NEW r \in Reader, Step(r) PROVE RightInv'
  <2>1. image' = image /\ req' = req /\ before' = before /\ faults' = faults
    BY <1>4 DEF Step
  <2>2. CASE Store(r)
    BY <1>1, <1>2, <2>1, <2>2, StoreRight, MovedAll DEF RightInv
  <2>3. CASE LocalStep(r) /\ UNCHANGED cell
    <3>1. Moved(r)
      BY <2>1, <2>3, OpenFileRight, WorkOutRight, ReadEntriesRight, GetRight, LoadRight, FillRight
      DEF LocalStep
    <3>2. Kept'
      BY <2>1, <2>3 DEF RightInv, Kept
    <3> QED
      BY <1>1, <1>2, <3>1, <3>2, MovedAll DEF RightInv
  <2> QED
    BY <1>4, <2>2, <2>3 DEF Step
<1>5. ASSUME NEW r \in Reader, DeviceFails(r) PROVE RightInv'
  BY <1>1, <1>2, <1>5, DeviceFailsRight, MovedAll DEF RightInv
<1>6. CASE UNCHANGED vars
  <2>1. ASSUME NEW p \in Reader PROVE Placed(p)' /\ Gathered(p)' /\ Caused(p)'
    <3>1. before[p] \in Nat /\ faults' >= faults
      BY <1>1, <1>2, <1>6, LazyTablesAssumption DEF Inv, LazyTypeOK, vars
    <3> QED
      BY <1>2, <1>6, <3>1, StillRight DEF RightInv, vars
  <2>2. Shape' /\ Kept'
    BY <1>6 DEF RightInv, Shape, Kept, vars
  <2> QED
    BY <1>1, <2>1, <2>2 DEF RightInv
<1> QED
  BY <1>3, <1>4, <1>5, <1>6 DEF Next

THEOREM RightAlways == Spec => []RightInv
  BY InitRight, NextRight, PTL DEF Spec

\* Whichever threads share the tables, a read that returns Ok gives the file's
\* bytes, those of a fragment from their place in the packed inode, and none that
\* cannot be read (fs.rs read_file and packed_inode).
THEOREM AnswersAlwaysCorrect == Spec => []AnswersCorrect
<1>1. RightInv => AnswersCorrect
  BY DEF RightInv, Gathered, BytesRight, Good, AnswersCorrect
<1> QED
  BY RightAlways, <1>1, PTL

\* A call fails with a device error only if the device failed while it ran, and is
\* refused only for something it cannot do without: no load that failed is kept,
\* no other thread's failure is passed on (fs.rs packed_inode, xattr_prefix_dict).
THEOREM FailuresHaveCause == Spec => []FailsForCause
<1>1. RightInv => FailsForCause
  BY DEF RightInv, Caused, FailsForCause
<1> QED
  BY RightAlways, <1>1, PTL
=============================================================================
