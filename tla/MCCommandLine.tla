---------------------------- MODULE MCCommandLine ----------------------------
(***************************************************************************)
(* Three commands, each behaviour one of them, as `command` says.          *)
(*                                                                         *)
(* export: two runs, one of `read` and one of `xattr`, with a FILE of its  *)
(* own each, killed and started again at will.                             *)
(* ls -R: every image of three directories and a file, with two names to   *)
(* each directory (chains, diamonds, cycles, a directory in itself), from  *)
(* one directory, any other being its like in another image, and from the  *)
(* file; bounds below, at and above what there is to list.                 *)
(* mkfs: trees of up to two levels, with every kind of entry, under a name *)
(* that is UTF-8 and one that is not, changed up to twice while they are   *)
(* walked.                                                                 *)
(***************************************************************************)
EXTENDS FileExport, SequencesExt, TLC

\* a.partial is beside a, b.partial beside b; the .partial of a .partial is not used.
MCFile == {"a", "a.partial", "b", "b.partial"}
MCPartial == ("a" :> "a.partial") @@ ("b" :> "b.partial") @@
             ("a.partial" :> "a") @@ ("b.partial" :> "b")

MCDestApart == ("p" :> "a") @@ ("q" :> "b")
MCChunks == ("p" :> 2) @@ ("q" :> 1)
-----------------------------------------------------------------------------
VARIABLES command,
  image, limit, max_depth, start, stage, op, dirs, visited, entries,       \* of ls
  tree, at, stack, child, meta, built, skipped, files, directories, still, changes

listing == <<image, limit, max_depth, start, stage, op, dirs, visited, entries>>
source == <<tree, at, stack, child, meta, built, skipped, files, directories, still, changes>>

MCDir == {"r", "s", "t"}
MCNode == MCDir \cup {"f"}
MCName == 1..2

L == INSTANCE TreeListing WITH
  Dir <- MCDir, Node <- MCNode, Name <- MCName,
  Image <- [MCDir -> [MCName -> MCNode \cup {NULL}]], Limit <- {0, 3, 6}, Depth <- {0, 1, 3},
  pc <- stage, stack <- dirs

SrcDir == [kind |-> "dir", mode |-> 16832, data |-> "none"]
Reg(d) == [kind |-> "file", mode |-> 33188, data |-> d]
Link == [kind |-> "link", mode |-> 41471, data |-> "none"]
Special == [kind |-> "special", mode |-> 4516, data |-> "none"]

MCEntry == {SrcDir, Reg("old"), Reg("new"), Link, Special}
First == {SrcDir, Reg("old"), Link, Special}

\* A root of each kind; below a directory, its own entries.
MCTree ==
  {[p \in {<<>>} |-> e] : e \in First}
  \cup UNION {[{<<>>} \cup ps -> First] :
                ps \in {{<<"a">>, <<"b">>}, {<<"a">>, <<"a", "a">>, <<"a", "b">>},
                        {<<"a">>, <<"b">>, <<"a", "a">>}, {<<"b">>, <<"b", "a">>}}}

MCLegal ==
  {t \in MCTree : \A p \in DOMAIN t : p # <<>> => t[Front(p)].kind = "dir"}

W == INSTANCE SourceWalk WITH
  Name <- {"a", "b"}, Utf8 <- {"a"}, RootName <- "file", Tree <- MCLegal, Entry <- MCEntry,
  MaxDepth <- 2, MaxChanges <- 2, pc <- at

\* What is not run stays as it is.
NoExport ==
  /\ name = [f \in File |-> NULL] /\ data = [i \in Ino |-> <<Old>>]
  /\ pc = [p \in Process |-> "idle"] /\ handle = [p \in Process |-> NULL]
  /\ offset = [p \in Process |-> 0] /\ before = [p \in Process |-> NULL]
NoListing ==
  /\ image = [d \in MCDir |-> [n \in MCName |-> NULL]] /\ limit = 0 /\ max_depth = 0
  /\ start = "f" /\ stage = "idle" /\ op = "ls -R"
  /\ dirs = <<>> /\ visited = {} /\ entries = <<>>
NoSource ==
  /\ tree = [p \in {<<>>} |-> Link] /\ at = "idle" /\ stack = <<>> /\ child = <<>>
  /\ meta = [kind |-> "none"] /\ built = [p \in {} |-> <<>>] /\ skipped = <<>>
  /\ files = 0 /\ directories = 0 /\ still = {<<>>} /\ changes = 0

CommandInit ==
  \/ command = "export" /\ Init /\ NoListing /\ NoSource
  \/ command = "ls" /\ NoExport /\ L!Init /\ start \in {"r", "f"} /\ NoSource
  \/ command = "mkfs" /\ NoExport /\ NoListing /\ W!Init

CommandNext ==
  \/ command = "export" /\ Next /\ UNCHANGED <<command, listing, source>>
  \/ command = "ls" /\ L!Next /\ UNCHANGED <<command, vars, source>>
  \/ command = "mkfs" /\ W!Next /\ UNCHANGED <<command, vars, listing>>

CommandSpec == CommandInit /\ [][CommandNext]_<<command, vars, listing, source>>

\* A recursive listing enters each directory once, in order, and leaves nothing out
\* of what it lists.
ListsEachOnce == L!ListsEachOnce

\* It stops at a bound only when another entry would exceed it.
StopsAtBounds == L!StopsAtBounds

\* mkfs.erofs reports each source entry that is not in the image, and why.
ReportTrue == W!ReportTrue
=============================================================================
