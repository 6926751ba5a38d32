---------------------------- MODULE ForeignIndex ----------------------------
(***************************************************************************)
(* The indexes of other writers, as the reader takes them: extents that    *)
(* start anywhere in an lcluster, blocks in any order in a legacy index,   *)
(* a PLAIN entry that only marks the end of the file; and damaged indexes, *)
(* which hold anything.                                                    *)
(***************************************************************************)
EXTENDS IndexReader
LOCAL INSTANCE SequencesExt

CONSTANTS
  MaxLclusters,   \* bound: lclusters of a file
  Garbage         \* entries a damaged index may hold

vars == <<disk, table, plan, readerVars>>

\* starts[k]: where in lcluster k an extent starts; LcSize when none does.
Starts(n) == {s \in [0 .. n - 1 -> 0 .. LcSize] : s[0] = 0}
Heads(s) == {k \in DOMAIN s : s[k] < LcSize}

\* The owners of lcluster k's last unit, and how far off the next head is.
Owner(s, k) == CHOOSE h \in Heads(s) : h <= k /\ \A o \in Heads(s) : o <= k => o <= h
Ahead(s, n, k) == (CHOOSE h \in Heads(s) \cup {n} : h > k /\ \A o \in Heads(s) : o > k => o >= h) - k

\* Compact blocks follow one another; a legacy index may name them in any order.
AddrOf(format, s, h) ==
  LET rank == Cardinality({o \in Heads(s) : o <= h})
  IN IF format = "compact" THEN 10 + rank ELSE 100 - rank

TypeOf(h) == IF h % 2 = 0 THEN HEAD1 ELSE PLAIN

ForeignEntry(format, s, n, slotEnd, k) ==
  IF k \in Heads(s) THEN [type |-> TypeOf(k), lo |-> s[k], addr |-> AddrOf(format, s, k)]
  ELSE [type |-> NONHEAD, addr |-> 0,
        lo |-> IF slotEnd THEN Ahead(s, n, k) ELSE k - Owner(s, k)]

\* The last lcluster marks the end of the file, where no extent starts in it.
Marked(es, n, size) == [es EXCEPT ![n] = [type |-> PLAIN, lo |-> size % LcSize, addr |-> 0]]

LastSlot(format, bodyEnd, n, k) ==
  format = "compact" /\ LET at == Locate(Ebase(bodyEnd), Geometry(Ebase(bodyEnd), n), k)
                        IN at.slot + 1 = at.shape.vcnt

ExtentsOf(format, s, n, size) ==
  LET hs == SetToSortSeq(Heads(s), <)
      start(x) == hs[x] * LcSize + s[hs[x]]
  IN [x \in DOMAIN hs |->
        [start |-> start(x), end |-> IF x = Len(hs) THEN size ELSE start(x + 1),
         addr |-> AddrOf(format, s, hs[x]), type |-> TypeOf(hs[x])]]

Written(format, bodyEnd, n, size, es, extents) ==
  LET inode == [format |-> format, bodyEnd |-> bodyEnd, n |-> n, size |-> size,
                inline |-> FALSE,
                index |-> IF format = "legacy" THEN EncodeLegacy(bodyEnd, es)
                          ELSE EncodeCompact(bodyEnd, es)]
  IN disk = inode /\ table = TableOf(inode) /\ plan = extents

Sound(format, n) ==
  \E s \in Starts(n), size \in (n - 1) * LcSize + 1 .. n * LcSize, mark \in BOOLEAN :
    LET es == [k \in 1 .. n |-> ForeignEntry(format, s, n, LastSlot(format, 40, n, k - 1), k - 1)]
        markable == (n - 1) \notin Heads(s) /\ size % LcSize # 0
    IN /\ \A h \in Heads(s) : h * LcSize + s[h] < size
       /\ mark => markable
       /\ Written(format, 40, n, size, IF mark THEN Marked(es, n, size) ELSE es,
                  ExtentsOf(format, s, n, size))

Damaged(format, n) ==
  \E es \in [1 .. n -> Garbage] : Written(format, 40, n, n * LcSize, es, <<>>)

Init ==
  /\ ReaderInit
  /\ \E format \in {"legacy", "compact"} :
       \/ \E n \in 1 .. MaxLclusters : Sound(format, n)
       \/ Damaged(format, 3)

Next == Read

Spec == Init /\ [][Next]_vars /\ WF_vars(ReadStep)
=============================================================================
