------------------------------ MODULE DirBlock ------------------------------
(***************************************************************************)
(* One directory block: how the builder packs entries into blocks          *)
(* (src/src/mkfs.rs, encode_dir_blocks) and how the reader takes a block   *)
(* apart (src/src/dir.rs, visit_block).                                    *)
(*                                                                         *)
(* A name is a sequence of bytes.  A block is a record: `ents` are the     *)
(* dirents that its array would hold if it filled the block, `text` the    *)
(* bytes by offset.  On disk both are views of the same bytes; visit_block *)
(* reads dirents below the first name offset and names at or above it, so  *)
(* no byte is ever read through both.                                      *)
(***************************************************************************)
EXTENDS Integers, Sequences, FiniteSets, SequencesExt

CONSTANTS DirBlockSize,     \* bytes of a block
          DirentSize        \* EROFS_DIRENT_SIZE

ASSUME DirBlockAssumption ==
  /\ DirBlockSize \in Nat
  /\ DirentSize \in Nat \ {0}
  /\ DirentSize =< DirBlockSize

Nul   == 0
Slash == 47
DotName    == <<46>>
DotDotName == <<46, 46>>

(***************************************************************************)
(* Writing.  An entry is [name, nid, ft].                                  *)
(***************************************************************************)
\* a sorts before b byte by byte, a prefix before what it begins.
LexLess(a, b) ==
  \/ IsStrictPrefix(a, b)
  \/ \E i \in DOMAIN a \cap DOMAIN b :
       /\ a[i] < b[i]
       /\ \A j \in 1..(i - 1) : a[j] = b[j]

\* The children in byte order.
InOrder(children) ==
  LET Before(c) == {d \in children : LexLess(d.name, c.name)}
  IN  [i \in 1..Cardinality(children) |->
         CHOOSE c \in children : Cardinality(Before(c)) = i - 1]

\* "." and "..", then the children.
AllEntries(self, parent, children) ==
  <<[name |-> DotName, nid |-> self, ft |-> "dir"],
    [name |-> DotDotName, nid |-> parent, ft |-> "dir"]>>
  \o InOrder(children)

\* Bytes of the names of entries[from..to].
NameBytes(entries, from, to) ==
  LET upto[k \in 0..(to - from + 1)] ==
        IF k = 0 THEN 0 ELSE upto[k - 1] + Len(entries[from + k - 1].name)
  IN  upto[to - from + 1]

\* Seeded fault: the names alone are counted against the block.
EntryBytes_NamesOnly(entries, from, to) == NameBytes(entries, from, to)

\* Dirents and names of entries[from..to].
EntryBytes(entries, from, to) ==
  (to - from + 1) * DirentSize + NameBytes(entries, from, to)

\* The last entry of the block that begins with entries[from]: entries are
\* added while they fit.  An entry too large for an empty block gives
\* from - 1, and the builder fails.
BlockEnd(entries, from) ==
  CHOOSE to \in (from - 1)..Len(entries) :
    /\ EntryBytes(entries, from, to) =< DirBlockSize
    /\ to < Len(entries) => EntryBytes(entries, from, to + 1) > DirBlockSize

\* The entries of each block, and whether every entry fits one.
Packable(entries) ==
  \A i \in DOMAIN entries : EntryBytes(entries, i, i) =< DirBlockSize
Packing(entries) ==
  LET packed[from \in 1..(Len(entries) + 1)] ==
        IF from > Len(entries) THEN <<>>
        ELSE LET to == BlockEnd(entries, from) IN
             <<SubSeq(entries, from, to)>> \o packed[to + 1]
  IN  packed[1]

\* encode_one_dir_block: the dirents, then the names end to end, then zeros.
EncodeBlock(entries) ==
  LET start(i) == Len(entries) * DirentSize + NameBytes(entries, 1, i - 1)
      at(off)  == {i \in DOMAIN entries :
                     off \in start(i)..(start(i) + Len(entries[i].name) - 1)}
  IN  [ents |-> [i \in DOMAIN entries |->
                   [nid |-> entries[i].nid, nameoff |-> start(i),
                    ft |-> entries[i].ft]],
       text |-> [off \in 0..(DirBlockSize - 1) |->
                   IF at(off) = {} THEN Nul
                   ELSE LET i == CHOOSE j \in at(off) : TRUE IN
                        entries[i].name[off - start(i) + 1]]]

(***************************************************************************)
(* Reading.                                                                *)
(***************************************************************************)
FirstNameOff(b) == b.ents[1].nameoff

\* dirent_count refuses the block.
CountRefused(b) ==
  \/ FirstNameOff(b) < DirentSize
  \/ FirstNameOff(b) > DirBlockSize
  \/ FirstNameOff(b) % DirentSize # 0
DirentCount(b) == FirstNameOff(b) \div DirentSize

\* One past the last byte of the i-th name: the next name's start, or for
\* the last entry the first NUL or the end of the block.
NameEnd(b, i) ==
  LET off == b.ents[i].nameoff IN
  IF i < DirentCount(b) THEN b.ents[i + 1].nameoff
  ELSE CHOOSE e \in off..DirBlockSize :
         /\ \A k \in off..(e - 1) : b.text[k] # Nul
         /\ e < DirBlockSize => b.text[e] = Nul
NameOf(b, i) ==
  LET off == b.ents[i].nameoff IN
  [k \in 1..(NameEnd(b, i) - off) |-> b.text[off + k - 1]]

\* visit_block refuses the i-th entry, in the order of its checks.
OffsetsRefused(b, i) ==
  \/ b.ents[i].nameoff < FirstNameOff(b)
  \/ b.ents[i].nameoff > DirBlockSize
  \/ /\ i < DirentCount(b)
     /\ \/ b.ents[i + 1].nameoff < b.ents[i].nameoff
        \/ b.ents[i + 1].nameoff > DirBlockSize
NameRefused(name) ==
  \/ name = <<>>
  \/ Contains(name, Nul)
  \/ Contains(name, Slash)
EntryRefused(b, i) == OffsetsRefused(b, i) \/ NameRefused(NameOf(b, i))

EntryAt(b, i) ==
  [name |-> NameOf(b, i), nid |-> b.ents[i].nid, ft |-> b.ents[i].ft]
=============================================================================
