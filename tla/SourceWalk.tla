----------------------------- MODULE SourceWalk ------------------------------
(***************************************************************************)
(* `mkfs.erofs OUTPUT SOURCE` (src/src/cli/erofs/mkfs.rs): the walk over a *)
(* source tree that other processes change meanwhile, the tree it hands to *)
(* the builder and the report of what went in and what was left out.       *)
(*                                                                         *)
(* A directory is listed at one moment, each of its entries is looked at   *)
(* at a later one, and a file is read at a later one still.  A link put in *)
(* a directory's place is followed, to where there may be anything.        *)
(***************************************************************************)
EXTENDS Integers, Sequences, SequencesExt

LOCAL INSTANCE FiniteSets

CONSTANTS
  Name, Utf8,    \* names, and those that are UTF-8
  RootName,      \* what a source that is a file is called in the image
  Tree,          \* sources: functions from paths to entries, <<>> the source itself
  Entry,         \* entries: [kind, mode, data]
  MaxDepth, MaxChanges   \* bounds: how deep a source is, what a link leads to included,
                         \* and how often it changes

VARIABLES
  tree,          \* the source now
  pc,            \* "idle", "open", "walk", "stat", "sort", "build", "write", "ok", "failed"
  stack,         \* the calls of walk_dir: [path, meta, rest]
  child, meta,   \* the entry at hand, and what symlink_metadata said of it
  built,         \* the nodes made: functions from paths to entries
  skipped, files, directories,   \* the report: what was left out, as [path, reason]
  still, changes \* history: paths that are what they were; changes made

vars == <<tree, pc, stack, child, meta, built, skipped, files, directories, still, changes>>
report == <<skipped, files, directories>>
host == <<tree, still, changes>>

DefaultDirMode == 16877
DefaultFileMode == 33188
-----------------------------------------------------------------------------
Parent(p) == Front(p)
Names(d) == {n \in Name : Append(d, n) \in DOMAIN tree}
Here(p) == p \in DOMAIN tree
KindAt(p) == IF Here(p) THEN tree[p].kind ELSE "gone"

\* The path goes through a link that took the place of a directory.
Elsewhere(p) == \E q \in DOMAIN tree : IsStrictPrefix(q, p) /\ tree[q].kind = "link"

mode_for(m, default) == IF m.mode % 65536 = 0 THEN default ELSE m.mode % 65536

Init ==
  /\ tree \in Tree
  /\ pc = "idle" /\ stack = <<>> /\ child = <<>> /\ meta = [kind |-> "none"]
  /\ built = [p \in {} |-> <<>>]
  /\ skipped = <<>> /\ files = 0 /\ directories = 0
  /\ still = DOMAIN tree /\ changes = 0

\* Another process puts another entry at p, or takes away what is there with all below it.
Change(p) ==
  /\ changes < MaxChanges /\ changes' = changes + 1
  /\ p # <<>> => KindAt(Parent(p)) = "dir"
  /\ LET rest == {q \in DOMAIN tree : ~IsPrefix(p, q)}
     IN  /\ \/ tree' = [q \in rest |-> tree[q]]
            \/ \E e \in Entry : tree' = [q \in rest \cup {p} |-> IF q = p THEN e ELSE tree[q]]
         /\ still' = still \cap rest
  /\ UNCHANGED <<pc, stack, child, meta, built, report>>

Fails == pc' = "failed" /\ UNCHANGED <<host, stack, child, meta, built, report>>

\* --label is refused before anything is read.
refuse_label == pc = "idle" /\ Fails

Top == Last(stack)

\* A node with the entries made so far below it; its mode is the one it was found with.
Made(p, e) == built' = [q \in DOMAIN built \cup {p} |-> IF q = p THEN e ELSE built[q]]

\* The source itself: a directory is walked, a file is read, anything else refused.
root_node ==
  /\ pc = "idle"
  /\ \/ /\ KindAt(<<>>) \in {"dir", "file"}
        /\ meta' = tree[<<>>]
        /\ pc' = IF tree[<<>>].kind = "dir" THEN "open" ELSE "sort"
        /\ directories' = directories + (IF tree[<<>>].kind = "dir" THEN 1 ELSE 0)
        /\ UNCHANGED <<host, stack, child, built, skipped, files>>
     \/ KindAt(<<>>) \notin {"dir", "file"} /\ Fails

\* What a read of the file at p yields: its data; of something that has taken the place of
\* the file, what a symlink leads to or a device gives.
Read(p) ==
  CASE Elsewhere(p) -> {"elsewhere"}
    [] KindAt(p) = "file" -> {tree[p].data}
    [] KindAt(p) \in {"link", "special"} -> {"elsewhere"}
    [] OTHER -> {}

FileNode(d) == [kind |-> "file", mode |-> mode_for(meta, DefaultFileMode), data |-> d]

\* A source that is a file becomes the one entry of a root made for it.
root_file ==
  /\ pc = "sort" /\ stack = <<>> /\ meta.kind = "file"
  /\ \E d \in Read(<<>>) :
       built' = [p \in {<<>>, <<RootName>>} |->
                   IF p = <<>> THEN [kind |-> "dir", mode |-> DefaultDirMode, data |-> "none"]
                   ELSE FileNode(d)]
  /\ files' = 1 /\ directories' = 1 /\ pc' = "build"
  /\ UNCHANGED <<host, stack, child, meta, skipped>>

\* The names a listing of d gives, of where it leads if there is a link in its way.
Listings(d) ==
  CASE Elsewhere(d) \/ KindAt(d) = "link" -> SUBSET Name
    [] KindAt(d) = "dir" -> {Names(d)}
    [] OTHER -> {}

\* read_dir: the names there are now, to be met in any order.
read_dir ==
  /\ pc = "open"
  /\ \E names \in Listings(child) :
       stack' = Append(stack, [path |-> child, meta |-> meta, rest |-> names])
  /\ pc' = "walk"
  /\ UNCHANGED <<host, child, meta, built, report>>

next_entry ==
  /\ pc = "walk"
  /\ \E n \in Top.rest :
       /\ child' = Append(Top.path, n)
       /\ stack' = [stack EXCEPT ![Len(stack)].rest = @ \ {n}]
  /\ pc' = "stat"
  /\ UNCHANGED <<host, meta, built, report>>

\* What is at the path, its last component not followed.
Looks(p) ==
  IF Elsewhere(p) THEN {e \in Entry : e.kind = "dir" => Len(p) < MaxDepth}
  ELSE {tree[q] : q \in {p} \cap DOMAIN tree}

symlink_metadata ==
  /\ pc = "stat"
  /\ meta' \in Looks(child) /\ pc' = "sort"
  /\ UNCHANGED <<host, stack, child, built, report>>

\* Seeded fault: what is no symlink and no directory is taken for a file.
Reasons_NoSpecial ==
  IF Last(child) \notin Utf8 THEN {"name is not UTF-8"}
  ELSE {r \in {"symlink"} : meta.kind = "link"}

\* Why the entry at hand is left out: its name is asked about first.
Reasons ==
  IF Last(child) \notin Utf8 THEN {"name is not UTF-8"}
  ELSE {r \in {"symlink"} : meta.kind = "link"} \cup {r \in {"special file"} : meta.kind = "special"}

Sorts == pc = "sort" /\ stack # <<>>

leave_out ==
  /\ Sorts
  /\ \E r \in Reasons : skipped' = Append(skipped, [path |-> child, reason |-> r])
  /\ pc' = "walk"
  /\ UNCHANGED <<host, stack, child, meta, built, files, directories>>

walk_dir ==
  /\ Sorts /\ Reasons = {} /\ meta.kind = "dir"
  /\ directories' = directories + 1 /\ pc' = "open"
  /\ UNCHANGED <<host, stack, child, meta, built, skipped, files>>

file_node ==
  /\ Sorts /\ Reasons = {} /\ meta.kind # "dir"
  /\ \E d \in Read(child) : Made(child, FileNode(d))
  /\ files' = files + 1 /\ pc' = "walk"
  /\ UNCHANGED <<host, stack, child, meta, skipped, directories>>

Onwards(calls) == pc' = IF calls = <<>> THEN "build" ELSE "walk"

dir_done ==
  /\ pc = "walk" /\ Top.rest = {}
  /\ Made(Top.path, [kind |-> "dir", mode |-> mode_for(Top.meta, DefaultDirMode), data |-> "none"])
  /\ stack' = Front(stack) /\ Onwards(Front(stack))
  /\ UNCHANGED <<host, child, meta, report>>

\* A directory, an entry or a file that is gone or cannot be read; an image that cannot be
\* built, or not be written.
io_fails == pc \in {"open", "walk", "stat", "sort", "build", "write"} /\ Fails

build_image ==
  pc = "build" /\ pc' = "write" /\ UNCHANGED <<host, stack, child, meta, built, report>>

write ==
  pc = "write" /\ pc' = "ok" /\ UNCHANGED <<host, stack, child, meta, built, report>>

\* What the report says the image holds, read back from its superblock.
inos == Cardinality(DOMAIN built)

Next ==
  \/ refuse_label \/ root_node \/ root_file \/ read_dir \/ next_entry \/ symlink_metadata
  \/ leave_out \/ walk_dir \/ file_node \/ dir_done \/ io_fails \/ build_image \/ write
  \/ \E n \in 0 .. MaxDepth : \E p \in [1 .. n -> Name] : Change(p)

Spec == Init /\ [][Next]_vars
-----------------------------------------------------------------------------
Of(kind) == {p \in DOMAIN built : built[p].kind = kind}

\* Where an entry of the source belongs in the image.
Place(p) == IF KindAt(<<>>) = "file" THEN <<RootName>> ELSE p

\* Left out, with a directory it is in or by itself.
LeftOut(p) == {i \in DOMAIN skipped : IsPrefix(skipped[i].path, p)}

\* When mkfs.erofs succeeds, an entry nobody touched is in the image as it is in the source, or
\* the report names it, or a directory it is in, once and for what is wrong with it; nothing
\* that is reported as left out is in the image, and the counts are the image's own
\* (src/src/cli/erofs/mkfs.rs, "One source entry the builder left out, and why").
ReportTrue ==
  pc = "ok" =>
    /\ \A p \in still : \/ LeftOut(p) = {} /\ Place(p) \in DOMAIN built /\ built[Place(p)] = tree[p]
                        \/ Cardinality(LeftOut(p)) = 1 /\ p \notin DOMAIN built
    /\ \A i \in DOMAIN skipped :
         LET s == skipped[i]
         IN  /\ s.path \notin DOMAIN built
             /\ s.reason = "name is not UTF-8" <=> Last(s.path) \notin Utf8
             /\ s.path \in still /\ Last(s.path) \in Utf8 =>
                  s.reason = CASE tree[s.path].kind = "link" -> "symlink"
                               [] tree[s.path].kind = "special" -> "special file"
    /\ files = Cardinality(Of("file")) /\ directories = Cardinality(Of("dir"))
    /\ inos = files + directories
=============================================================================
