----------------------------- MODULE TreeListing -----------------------------
(***************************************************************************)
(* `fs.erofs IMAGE ls PATH` and `ls -R PATH` (src/src/cli/erofs/fs.rs): a  *)
(* directory's entries, and the walk of all below it with an explicit      *)
(* stack, a set of directories entered and two bounds.  An image may hold  *)
(* any graph of directories.  The device may fail any read; what -R has    *)
(* listed by then, or before a bound, is still reported.                   *)
(***************************************************************************)
EXTENDS Integers, Sequences, SequencesExt

CONSTANTS
  Dir, Node,   \* the directories among the nodes
  Name,        \* names, numbered as they sort; not `.` and `..`, which are passed over
  Image,       \* Image: functions from a directory and a name to a node, or NULL
  Limit, Depth,\* what --limit and --max-depth are given
  NULL

VARIABLES
  image, limit, max_depth, start, op,   \* the command and what it is run on
  pc,          \* "idle", "walk", "ok", "failed", "limit", "max-depth"
  stack,       \* directories being walked: [dir, path, depth, rest]
  visited,     \* directories entered
  entries      \* what is listed: [path, node, depth, revisited]

given == <<image, limit, max_depth, start, op>>
vars == <<given, pc, stack, visited, entries>>
-----------------------------------------------------------------------------
Names(d) == {n \in Name : image[d][n] # NULL}

\* read_dir, sorted by name.
children(d) == SetToSortSeq(Names(d), <)

Entry(path, node, revisited) ==
  [path |-> path, node |-> node, depth |-> Len(path), revisited |-> revisited]

\* Only ls -R has bounds.
Init ==
  /\ image \in Image /\ start \in Node
  /\ \/ op = "ls -R" /\ limit \in Limit /\ max_depth \in Depth
     \/ op = "ls" /\ limit = 0 /\ max_depth = 0
  /\ pc = "idle" /\ stack = <<>> /\ visited = {} /\ entries = <<>>

Stop(how) == pc' = how /\ UNCHANGED <<given, stack, visited, entries>>

\* ls: the entries of a directory, or the one of a file.
ls ==
  /\ pc = "idle" /\ op = "ls"
  /\ pc' = "ok"
  /\ entries' = IF start \in Dir
                THEN [i \in DOMAIN children(start) |->
                        Entry(<<children(start)[i]>>, image[start][children(start)[i]], FALSE)]
                ELSE <<Entry(<<>>, start, FALSE)>>
  /\ UNCHANGED <<given, stack, visited>>

\* Seeded fault: the directory the walk starts from is not counted as entered.
VisitedAtStart_None == {}

VisitedAtStart == {start}

\* ls_recursive up to its loop: a file is one entry, if the limit has room for it.
ls_recursive ==
  /\ pc = "idle" /\ op = "ls -R"
  /\ \/ /\ start \notin Dir /\ limit = 0
        /\ Stop("limit")
     \/ /\ start \notin Dir /\ limit > 0
        /\ pc' = "ok" /\ entries' = <<Entry(<<>>, start, FALSE)>>
        /\ UNCHANGED <<given, stack, visited>>
     \/ /\ start \in Dir
        /\ pc' = "walk" /\ visited' = VisitedAtStart
        /\ stack' = <<[dir |-> start, path |-> <<>>, depth |-> 0, rest |-> children(start)]>>
        /\ UNCHANGED <<given, entries>>

Top == Last(stack)
Child == image[Top.dir][Head(Top.rest)]
Path == Append(Top.path, Head(Top.rest))
Revisited == Child \in visited

\* Seeded fault: the limit is tested as if the entry were listed already.
AtLimit_Late == Len(entries) > limit

AtLimit == Len(entries) >= limit

HasNext == pc = "walk" /\ stack # <<>> /\ Top.rest # <<>>
Fits == ~AtLimit /\ Top.depth + 1 <= max_depth

\* The directory on top is through.
pop ==
  /\ pc = "walk" /\ stack # <<>> /\ Top.rest = <<>>
  /\ stack' = Front(stack)
  /\ UNCHANGED <<given, pc, visited, entries>>

\* The next entry is one too many, or one too deep.
bound_reached == HasNext /\ ~Fits /\ Stop(IF AtLimit THEN "limit" ELSE "max-depth")

\* The next entry is listed, and entered if it is a directory met for the first time.
list ==
  /\ HasNext /\ Fits
  /\ LET enters == Child \in Dir /\ ~Revisited
         rest   == [stack EXCEPT ![Len(stack)].rest = Tail(@)]
     IN  /\ entries' = Append(entries, Entry(Path, Child, Child \in Dir /\ Revisited))
         /\ visited' = IF enters THEN visited \cup {Child} ELSE visited
         /\ stack' = IF enters
                     THEN Append(rest, [dir |-> Child, path |-> Path,
                                        depth |-> Top.depth + 1, rest |-> children(Child)])
                     ELSE rest
  /\ UNCHANGED <<given, pc>>

\* A path, an inode or a directory that cannot be read.
read_fails ==
  \/ pc = "idle" /\ Stop("failed")
  \/ HasNext /\ Fits /\ Stop("failed")

\* The same once the child is listed and its own entries are asked for.
enter_fails ==
  /\ HasNext /\ Fits /\ Child \in Dir /\ ~Revisited
  /\ pc' = "failed"
  /\ entries' = Append(entries, Entry(Path, Child, FALSE))
  /\ UNCHANGED <<given, stack, visited>>

walked == pc = "walk" /\ stack = <<>> /\ Stop("ok")

Next ==
  \/ ls \/ ls_recursive \/ pop \/ bound_reached \/ list \/ read_fails \/ enter_fails \/ walked

Spec == Init /\ [][Next]_vars
-----------------------------------------------------------------------------
\* Where a path from `start` leads.
RECURSIVE Leads(_)
Leads(path) == IF path = <<>> THEN start ELSE image[Leads(Front(path))][Last(path)]

\* A directory's entry comes before what is in it, and names of one directory as they sort.
Before(p, q) ==
  \/ IsStrictPrefix(p, q)
  \/ \E i \in DOMAIN p \cap DOMAIN q : SubSeq(p, 1, i - 1) = SubSeq(q, 1, i - 1) /\ p[i] < q[i]

\* The paths of the directories that were entered.
Entered ==
  (IF start \in Dir THEN {<<>>} ELSE {})
    \cup {entries[i].path : i \in {i \in DOMAIN entries : entries[i].node \in Dir /\ ~entries[i].revisited}}

Listed == {entries[i].path : i \in DOMAIN entries}
Unlisted == UNION {{Append(p, n) : n \in Names(Leads(p))} : p \in Entered} \ Listed

\* A recursive listing names each entry by a path that leads to it, parents first and in the
\* order of names; enters every directory once, however many paths lead to it, and says so of
\* one it has entered before; and when it ends leaves nothing out of what it entered
\* (src/src/cli/erofs/fs.rs, ls_recursive: `visited`, "[revisited]").
ListsEachOnce ==
  op = "ls -R" =>
    /\ \A i \in DOMAIN entries : /\ Leads(entries[i].path) = entries[i].node
                                 /\ entries[i].depth = Len(entries[i].path)
    /\ \A i, j \in DOMAIN entries : i < j => Before(entries[i].path, entries[j].path)
    /\ \A p, q \in Entered : Leads(p) = Leads(q) => p = q
    /\ \A i \in DOMAIN entries :
         entries[i].revisited => \E p \in Entered : /\ Leads(p) = entries[i].node
                                                    /\ p = <<>> \/ Before(p, entries[i].path)
    /\ pc = "ok" => Unlisted = {}

\* The bounds are kept, and a listing that reports one as reached had another entry to list
\* that would have exceeded it: "empty directories and exact fits still succeed".
StopsAtBounds ==
  op = "ls -R" =>
    /\ Len(entries) <= limit
    /\ \A i \in DOMAIN entries : entries[i].depth <= max_depth \/ start \notin Dir
    /\ pc = "limit" => Len(entries) = limit /\ (start \in Dir => Unlisted # {})
    /\ pc = "max-depth" => \E p \in Unlisted : Len(p) = max_depth + 1
=============================================================================
