--------------------------- MODULE MCImageLayout ----------------------------
(***************************************************************************)
(* Images the builder makes, each a behaviour of ImageLayout: a root with  *)
(* up to four nodes below it, of every kind.  Beside them directories, the *)
(* builder's and ones it would never make, each a behaviour of Directory   *)
(* in blocks of 8 bytes with dirents of 2; `subject` says which it is.     *)
(***************************************************************************)
EXTENDS ImageLayout, DirectoryWalk

File(ext, xattr, len) == [kind |-> "file", ext |-> ext, xattr |-> xattr, len |-> len]
Dir(xattr) == [kind |-> "dir", ext |-> FALSE, xattr |-> xattr]
Chunked(bits, indexed, chunks) ==
  [kind |-> "chunked", ext |-> FALSE, xattr |-> 0, bits |-> bits,
   indexed |-> indexed, chunks |-> chunks]
Compressed(index, len, blocks, raw, ztail) ==
  [kind |-> "compressed", ext |-> FALSE, xattr |-> 0, index |-> index,
   len |-> len, blocks |-> blocks, raw |-> raw, ztail |-> ztail]

\* A child's name is made of its place; some are long enough to cut a block.
LongName(i) == [k \in 1..(IF i = 3 THEN BlockSize - 60 ELSE 40) |-> 96 + i]
Named(is, name(_)) == {[name |-> name(i), node |-> i] : i \in is}

\* A root over X, Y and Z; a root over X, a directory that holds Y, and one
\* that is empty; a root over one node of any name.
With(n, parent) == n @@ [parent |-> parent] @@ [children |-> {}]
Flat(x, y, z) ==
  <<Dir(0) @@ [parent |-> 1, children |-> Named({2, 3, 4}, LAMBDA i : <<96 + i>>)],
    With(x, 1), With(y, 1), With(z, 1)>>
Nested(x, y) ==
  <<Dir(16) @@ [parent |-> 1, children |-> Named({2, 3, 5}, LongName)],
    With(x, 1),
    Dir(0) @@ [parent |-> 1, children |-> Named({4}, LongName)], With(y, 3),
    With(Dir(0), 1)>>
Only(name, x) ==
  <<Dir(0) @@ [parent |-> 1, children |-> {[name |-> name, node |-> 2]}],
    With(x, 1)>>

\* Nodes of every kind, around the lengths a block of 2048 bytes decides.
Usual ==
  {File(FALSE, 0, 0), File(FALSE, 0, 100), File(FALSE, 0, 2016),
   File(TRUE, 20, 1965), File(TRUE, 20, 1964), File(FALSE, 2100, 900),
   [kind |-> "symlink", ext |-> FALSE, xattr |-> 16, len |-> 30],
   [kind |-> "special", ext |-> TRUE, xattr |-> 0],
   Chunked(1, FALSE, <<4096, Hole, 2500>>), Chunked(0, TRUE, <<Hole, 2048, 0>>),
   Compressed(48, 8000, <<1, 1>>, 1200, TRUE),
   Compressed(48, 16000, <<2, 1, 1>>, 1990, TRUE)}

\* Nodes and names around what an image can hold.
Limits ==
  {File(FALSE, 0, 17 * 2048), File(FALSE, 0, 30),
   Chunked(2, FALSE, <<8192, 8192, Hole, 8192, 2048>>),
   Chunked(0, FALSE, <<2048, 2048, 2048, 2048>>),
   Chunked(0, FALSE, <<2047, 2048>>), Chunked(0, FALSE, <<2049>>),
   Compressed(24, 30000, <<1, 1, 1>>, 1, FALSE),
   [kind |-> "symlink", ext |-> FALSE, xattr |-> 0, len |-> 2048],
   [kind |-> "symlink", ext |-> FALSE, xattr |-> 0, len |-> 2049]}
OddNames == {<<97, 47>>, <<>>, [k \in 1..2036 |-> 97], [k \in 1..2037 |-> 97]}

MCPlans ==
  {Flat(x, y, z) : x, y, z \in Usual} \cup {Flat(x, y, z) : x, y, z \in Limits}
  \cup {Nested(x, y) : x, y \in Usual}
  \cup {Only(n, x) : n \in OddNames, x \in Limits}

\* No blobs, some, as much as the gap of 896 bytes takes, and a byte more.
MCBlobs == {<<0, 0>>, <<40, 30>>, <<38, 856>>, <<38, 857>>}
-----------------------------------------------------------------------------
Small == INSTANCE DirBlock WITH
  DirBlockSize <- WalkBlockSize, DirentSize <- WalkDirentSize

\* One name fills a block of 8.
MCNames == {<<33>>, <<97>>, <<97, 97>>, <<97, 98, 97>>, <<98>>, [i \in 1..6 |-> 97]}
MCWanted == {<<97>>, <<97, 97>>, <<98>>, [i \in 1..6 |-> 97], DotDotName, <<99>>}
Children ==
  LET nidOf(name) == 10 + Len(name) + name[1] IN
  {[name |-> n, nid |-> nidOf(n), ft |-> "file"] : n \in MCNames}
Made(children, self, parent) ==
  LET filled == Small!Packing(Small!AllEntries(self, parent, children)) IN
  [isDir |-> TRUE, size |-> Len(filled) * 8,
   blocks |-> [k \in DOMAIN filled |-> Small!EncodeBlock(filled[k])],
   made |-> [children |-> children, self |-> self, parent |-> parent]]
OwnDirs ==
  {Made(cs, 3, 2) : cs \in SUBSET Children}
  \cup {[isDir |-> FALSE, size |-> 5, blocks |-> <<>>, made |-> NotMade]}

\* Made by others: a block may hold anything.
Raw(offs, bytes) ==
  [ents |-> [i \in 1..4 |-> [nid |-> 20 + i, nameoff |-> offs[i], ft |-> "file"]],
   text |-> [o \in 0..7 |-> IF o < 4 THEN 1 ELSE bytes[o - 3]]]
Texts == {<<97, 98, 97, 98>>, <<97, 97, 0, 0>>, <<97, 0, 97, 0>>,
          <<0, 97, 97, 98>>, <<97, 47, 97, 0>>}
RawBlocks ==
  {Raw(<<a, b, c, 0>>, t) : a \in {0, 2, 3, 4, 6, 10}, b \in {2, 4, 5, 6, 9},
                            c \in {5, 6, 7, 8, 9}, t \in Texts}
Good == Raw(<<4, 5, 0, 0>>, <<98, 97, 97, 0>>)
ForeignDirs ==
  {[isDir |-> TRUE, size |-> 16, blocks |-> <<Good, b>>, made |-> NotMade] :
     b \in RawBlocks}
  \cup {[isDir |-> TRUE, size |-> 14, blocks |-> <<b, Good>>, made |-> NotMade] :
     b \in RawBlocks}
  \cup {[isDir |-> TRUE, size |-> s, blocks |-> <<b>>, made |-> NotMade] :
     s \in {2, 4, 6}, b \in RawBlocks}
  \cup {[isDir |-> TRUE, size |-> 0, blocks |-> <<>>, made |-> NotMade]}

MCDirs == OwnDirs \cup ForeignDirs

VARIABLE subject

\* What the proofs assume of directories, these satisfy.
ASSUME MCDirsAssumption == Walk!AreDirs /\ Walk!AreBuilt

\* What is not the subject stays as it is.
NoDirectory ==
  /\ walkDir = CHOOSE d \in MCDirs : ~d.isDir
  /\ walkOp = <<>> /\ walkLeft = 0 /\ walkBlock = 0 /\ walkEntry = -1
  /\ walkOut = <<>> /\ walkFound = {} /\ walkResult = <<>>
NoImage ==
  /\ plan = Only(<<>>, File(FALSE, 0, 30)) /\ blobs = <<0, 0>>
  /\ pass = "flatten" /\ at = 1
  /\ slots = <<>> /\ next = 0 /\ packed = <<>> /\ blockOf = <<>> /\ addrsOf = <<>>
  /\ img = <<>> /\ cause = "none"

BothInit ==
  \/ subject = "image" /\ NoDirectory /\ Init
  \/ subject = "directory" /\ NoImage /\ Walk!Init

BothNext ==
  \/ subject = "image" /\ Next /\ UNCHANGED <<subject, walkVars>>
  \/ subject = "directory" /\ Walk!Next /\ UNCHANGED <<subject, vars>>

BothSpec == BothInit /\ [][BothNext]_<<subject, vars, walkVars>>
=============================================================================
