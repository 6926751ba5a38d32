----------------------------- MODULE Directory ------------------------------
(***************************************************************************)
(* Listing a directory and looking one name up in it (src/src/fs.rs,       *)
(* read_dir and lookup): block by block, and within a block dirent by      *)
(* dirent as visit_block hands them out.                                   *)
(*                                                                         *)
(* Two walks of the same blocks: the listing keeps every entry, the lookup *)
(* keeps the first that matches and drops the rest, and must not let that  *)
(* show.  A dirent is handed out before a later one is found malformed, so *)
(* what was gathered by then has to be discarded.                          *)
(***************************************************************************)
EXTENDS DirBlock, FiniteSets

CONSTANTS Dirs,     \* directories: [isDir, size, blocks, made], where `made`
                    \* is NotMade or what encode_dir_blocks was called with
          Wanted,   \* the names looked up
          NotMade

VARIABLES dir,      \* the directory in question
          op,       \* <<"list">>, <<"lookup", name>> or <<>> when idle
          remaining,
          block,    \* block_idx: blocks walked so far
          entry,    \* dirents of the current block handed out, or -1 when no
                    \* block is in hand
          out,      \* read_dir's out
          found,    \* lookup's found, as a set of at most one nid
          result    \* <<>> while the call runs

vars == <<dir, op, remaining, block, entry, out, found, result>>

Smaller(a, b) == IF a < b THEN a ELSE b

\* Block k (from 0) as the reader holds it: zeros past the directory's end.
\* A bound: a directory ends on a dirent boundary of its block.
Buffer(d, k) ==
  LET len == Smaller(d.size - k * DirBlockSize, DirBlockSize)
      raw == d.blocks[k + 1]
  IN  [ents |-> [i \in DOMAIN raw.ents |->
                   IF i * DirentSize =< len THEN raw.ents[i]
                   ELSE [nid |-> 0, nameoff |-> 0, ft |-> "unknown"]],
       text |-> [off \in 0..(DirBlockSize - 1) |->
                   IF off < len THEN raw.text[off] ELSE Nul]]
Held == Buffer(dir, block)

Init ==
  /\ dir \in Dirs
  /\ op = <<>>
  /\ remaining = 0 /\ block = 0 /\ entry = -1
  /\ out = <<>> /\ found = {} /\ result = <<>>

Call(o) ==
  /\ op = <<>>
  /\ op' = o
  /\ remaining' = dir.size
  /\ result' = IF dir.isDir THEN <<>> ELSE <<"error">>
  /\ UNCHANGED <<dir, block, entry, out, found>>

Running == op # <<>> /\ result = <<>>

Fail == result' = <<"error">>

\* The next block is read and its dirents counted.
ReadBlock ==
  /\ Running /\ entry = -1 /\ remaining > 0
  /\ \/ ~CountRefused(Held) /\ entry' = 0 /\ UNCHANGED result
     \/ CountRefused(Held) /\ Fail /\ UNCHANGED entry
  /\ UNCHANGED <<dir, op, remaining, block, out, found>>
\* A device may fail under a block, or the index of a compressed directory;
\* so may the read of the inode a lookup found.
ReadFails ==
  /\ Running /\ entry = -1
  /\ remaining > 0 \/ found # {}
  /\ result' = <<"device">>
  /\ UNCHANGED <<dir, op, remaining, block, entry, out, found>>

\* The callbacks of read_dir and lookup.
Hand(e) ==
  IF op[1] = "list" THEN out' = Append(out, e) /\ UNCHANGED found
  ELSE /\ found' = IF found = {} /\ e.name = op[2] THEN {e.nid} ELSE found
       /\ UNCHANGED out

\* Seeded fault: a lookup stops at the block that answers it.
BlockDone_Early ==
  /\ entry' = -1 /\ block' = block + 1
  /\ remaining' = IF found' # {} THEN 0
                  ELSE remaining - Smaller(remaining, DirBlockSize)

BlockDone ==
  /\ entry' = -1 /\ block' = block + 1
  /\ remaining' = remaining - Smaller(remaining, DirBlockSize)

\* One turn of visit_block's loop, and of the caller's after the last.
VisitEntry ==
  /\ Running /\ entry >= 0
  /\ IF EntryRefused(Held, entry + 1)
     THEN Fail /\ UNCHANGED <<out, found, entry, block, remaining>>
     ELSE /\ Hand(EntryAt(Held, entry + 1))
          /\ IF entry + 1 < DirentCount(Held)
             THEN entry' = entry + 1 /\ UNCHANGED <<block, remaining>>
             ELSE BlockDone
          /\ UNCHANGED result
  /\ UNCHANGED <<dir, op>>

Finish ==
  /\ Running /\ entry = -1 /\ remaining = 0
  /\ result' = IF op[1] = "list" THEN <<"listed", out>>
               ELSE IF found = {} THEN <<"not found">>
               ELSE <<"found", CHOOSE n \in found : TRUE>>
  /\ UNCHANGED <<dir, op, remaining, block, entry, out, found>>

Next ==
  \/ Call(<<"list">>)
  \/ \E name \in Wanted : Call(<<"lookup", name>>)
  \/ ReadBlock \/ ReadFails \/ VisitEntry \/ Finish

Spec == Init /\ [][Next]_vars
-----------------------------------------------------------------------------
(***************************************************************************)
(* What may be walked.                                                     *)
(***************************************************************************)
\* A block has the dirents it counts, and it may count any number that fits.
IsBlock(b) ==
  /\ 1 \in DOMAIN b.ents
  /\ \A j \in DOMAIN b.ents : b.ents[j].nameoff \in Nat
  /\ ~CountRefused(b) => \A j \in 1..DirentCount(b) : j \in DOMAIN b.ents

\* A directory has the blocks its size takes, read_data_block_for's.
IsDir(d) ==
  /\ d.size \in Nat /\ d.isDir \in BOOLEAN
  /\ d.isDir =>
       /\ d.blocks \in Seq({d.blocks[k] : k \in DOMAIN d.blocks})
       /\ Len(d.blocks) = (d.size + DirBlockSize - 1) \div DirBlockSize
       /\ \A k \in DOMAIN d.blocks : IsBlock(d.blocks[k])
AreDirs == \A d \in Dirs : IsDir(d)

\* The children a directory is made of: their names are ones flatten takes
\* (mkfs.rs:1829), each once (a BTreeMap's), and neither "." nor "..", which no
\* tree holds.
AreChildren(children) ==
  /\ IsFiniteSet(children)
  /\ \A c \in children :
       /\ c = [name |-> c.name, nid |-> c.nid, ft |-> c.ft]
       /\ c.name \in Seq(Nat) /\ ~NameRefused(c.name)
       /\ c.name \notin {DotName, DotDotName}
  /\ \A c, d \in children : c.name = d.name => c = d

\* A directory that says what it was made of is encode_dir_blocks's of that.
AsBuilt(d) ==
  LET entries == AllEntries(d.made.self, d.made.parent, d.made.children)
      filled  == Packing(entries)
  IN  /\ d.isDir /\ AreChildren(d.made.children) /\ Packable(entries)
      /\ d.blocks = [k \in DOMAIN filled |-> EncodeBlock(filled[k])]
      /\ d.size = Len(d.blocks) * DirBlockSize
AreBuilt == \A d \in Dirs : d.made # NotMade => AsBuilt(d)

(***************************************************************************)
(* Properties.                                                             *)
(***************************************************************************)
\* What a listing of d must be, said without walking it.
Sound(d) ==
  \A k \in 0..(Len(d.blocks) - 1) :
    LET b == Buffer(d, k) IN
    /\ ~CountRefused(b)
    /\ \A i \in 1..DirentCount(b) : ~EntryRefused(b, i)
Listing(d) ==
  FlattenSeq([k \in DOMAIN d.blocks |->
    LET b == Buffer(d, k - 1) IN [i \in 1..DirentCount(b) |-> EntryAt(b, i)]])

\* A lookup answers as the listing would: it refuses the directory exactly
\* when a listing does, wherever the malformed dirent lies, and otherwise
\* finds the first entry of that name (fs.rs:536-541).  What is listed has names
\* that a path may contain and a C string can carry (dir.rs:86-91), and what
\* remains of the directory never goes below nothing.
LookupAgreesWithListing ==
  /\ remaining \in 0..dir.size
  /\ result # <<>> /\ result # <<"device">> /\ dir.isDir =>
       /\ result[1] = "error" <=> ~Sound(dir)
       /\ result[1] = "listed" =>
            /\ result[2] = Listing(dir)
            /\ \A e \in ToSet(result[2]) :
                 Len(e.name) > 0 /\ \A i \in DOMAIN e.name : e.name[i] \notin {Nul, Slash}
       /\ result[1] = "not found" =>
            \A e \in ToSet(Listing(dir)) : e.name # op[2]
       /\ result[1] = "found" =>
            LET l == Listing(dir) IN
            \E i \in DOMAIN l : /\ l[i].name = op[2]
                                /\ l[i].nid = result[2]
                                /\ \A j \in 1..(i - 1) : l[j].name # op[2]

\* A directory the builder made lists ".", ".." and every child once, and
\* each child is found under its name, however the blocks were cut.
ListsWhatWasMade ==
  result # <<>> /\ result # <<"device">> /\ dir.made # NotMade =>
    /\ result[1] = "listed" =>
         /\ Len(result[2]) = Cardinality(dir.made.children) + 2
         /\ ToSet(result[2]) = dir.made.children \cup
              {[name |-> DotName, nid |-> dir.made.self, ft |-> "dir"],
               [name |-> DotDotName, nid |-> dir.made.parent, ft |-> "dir"]}
    /\ \A c \in dir.made.children :
         op = <<"lookup", c.name>> => result = <<"found", c.nid>>
    /\ result[1] # "error"
=============================================================================
