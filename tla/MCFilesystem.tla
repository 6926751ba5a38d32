---------------------------- MODULE MCFilesystem ----------------------------
(***************************************************************************)
(* One `Filesystem`: reads of compressed inodes, and paths. Each behaviour *)
(* is of one scene: two readers of sound inodes that share the cache, one  *)
(* that reads around damage, call after call, or one call that resolves a  *)
(* path.                                                                   *)
(*                                                                         *)
(* Blocks are 4 bytes.  Inode "a" has a pcluster that straddles a block    *)
(* boundary and shares its address with the next one; "b" shares it too,   *)
(* and ends in a PLAIN tail; "d" ends in a tail that cannot be read        *)
(* truthfully; "u" has, between sound pclusters, one that does not decode, *)
(* one of an unknown algorithm, and a PLAIN tail stored short of its last  *)
(* byte; "x" is damaged: an extent of no length and one that does not      *)
(* bracket, and ends in a pcluster larger than the cache takes.            *)
(*                                                                         *)
(* The tree has every kind of symlink:                                     *)
(*   /a/            /a/b/           /a/f (a file)                          *)
(*   /a/b/up -> ../f      /a/b/abs -> /a/rel     /a/rel -> b               *)
(*   /loop -> /loop       /a/self -> self/f      /bad (unreadable)         *)
(*   /a/empty -> ""                                                        *)
(***************************************************************************)
EXTENDS CachedRead, PathResolve

CONSTANT Inodes

E(n, a, s, e, k) == [nid |-> n, addr |-> a, start |-> s, end |-> e, kind |-> k]

ExtentsOf(n) ==
  CASE n = "a" -> {E("a", 1, 0, 6, "compressed"), E("a", 1, 6, 9, "compressed"),
                   E("a", 2, 9, 12, "compressed")}
    [] n = "b" -> {E("b", 1, 0, 5, "compressed"), E("b", 3, 5, 6, "plain")}
    [] n = "d" -> {E("d", 4, 0, 2, "plain"), E("d", 5, 2, 5, "untruthful")}
    [] n = "u" -> {E("u", 9, 0, 2, "compressed"), E("u", 10, 2, 6, "undecodable"),
                   E("u", 11, 6, 9, "compressed"), E("u", 12, 9, 10, "unsupported"),
                   E("u", 13, 10, 14, "plain")}
    [] n = "x" -> {E("x", 6, 0, 1, "compressed"), E("x", 6, 1, 1, "compressed"),
                   E("x", 7, 3, 6, "compressed"), E("x", 8, 9, 22, "compressed")}

MCExtent == UNION {ExtentsOf(n) : n \in Inodes}
MCFileSize ==
  [n \in Inodes |-> CASE n = "a" -> 12 [] n = "b" -> 6 [] n = "d" -> 5 [] n = "u" -> 14
                       [] n = "x" -> 22]

\* The damaged inode: no progress at 1, an extent that ended before 6 and 7, one
\* that starts after 8.
MCIndex ==
  [n \in Inodes |->
     [o \in 0 .. MCFileSize[n] - 1 |->
        IF n = "x" /\ o = 1 THEN E("x", 6, 1, 1, "compressed")
        ELSE IF n = "x" /\ o \in {2, 6, 7} THEN E("x", 7, 3, 6, "compressed")
        ELSE IF n = "x" /\ o = 8 THEN E("x", 8, 9, 22, "compressed")
        ELSE CHOOSE e \in ExtentsOf(n) : e.start <= o /\ o < e.end]]
MCPayload == [e \in MCExtent |-> [i \in 1 .. (e.end - e.start) |-> <<e.nid, e.start + i - 1>>]]
MCGone == [e \in MCExtent |-> IF e.nid = "u" /\ e.kind = "plain" THEN {13} ELSE {}]

-----------------------------------------------------------------------------
Q(n, o, l) == [nid |-> n, off |-> o, len |-> l]

\* Whole files, a read from the middle of one block into the next, one within
\* a pcluster, one past the end.
SharedRequest == {Q("a", 0, 12), Q("a", 3, 5), Q("b", 0, 6)}
EdgeRequest ==
  {Q("d", 0, 5), Q("d", 0, 2), Q("d", 1, 2), Q("d", 4, 1), Q("d", 3, 3), Q("d", 3, 1),
   Q("x", 0, 6), Q("x", 2, 1), Q("x", 4, 4), Q("x", 8, 1), Q("x", 18, 3),
   Q("u", 0, 2), Q("u", 7, 1), Q("u", 8, 2), Q("u", 11, 1), Q("u", 12, 1),
   Q("b", 4, 2), Q("b", 6, 0)}
MCRequest == SharedRequest \cup EdgeRequest
-----------------------------------------------------------------------------
Dirs == {"root", "a", "b"}
Links == {"up", "abs", "rel", "loop", "self", "bad", "empty"}
MCNode == Dirs \cup Links \cup {"f"}
MCKind == [n \in MCNode |-> IF n \in Dirs THEN "dir" ELSE IF n \in Links THEN "link" ELSE "file"]

MCEntry ==
  [d \in Dirs |->
     CASE d = "root" -> [x \in {".", "..", "a", "loop", "bad"} |->
                           IF x \in {".", ".."} THEN "root" ELSE x]
       [] d = "a" -> [x \in {".", "..", "b", "f", "rel", "self", "empty"} |->
                        CASE x = "." -> "a" [] x = ".." -> "root" [] OTHER -> x]
       [] d = "b" -> [x \in {".", "..", "up", "abs"} |->
                        CASE x = "." -> "b" [] x = ".." -> "a" [] OTHER -> x]]

T(abs, names) == [abs |-> abs, names |-> names, bad |-> FALSE]
MCTarget ==
  [l \in Links |->
     CASE l = "up" -> T(FALSE, <<"..", "f">>)
       [] l = "abs" -> T(TRUE, <<"a", "rel">>)
       [] l = "rel" -> T(FALSE, <<"b">>)
       [] l = "loop" -> T(TRUE, <<"loop">>)
       [] l = "self" -> T(FALSE, <<"self", "f">>)
       [] l = "empty" -> T(FALSE, <<>>)
       [] l = "bad" -> [abs |-> FALSE, names |-> <<>>, bad |-> TRUE]]

MCPath ==
  {<<>>, <<"a", "b", "up">>, <<"a", "b", "abs", "up">>, <<"a", "b", "..", "rel", "up">>,
   <<"loop">>, <<"a", "self">>, <<"bad">>, <<"a", "empty", "f">>, <<"a", "f", "..">>,
   <<"a", "b", "c">>, <<"a", "rel", "abs", "abs", "up">>, <<"a", "rel", ".">>}
-----------------------------------------------------------------------------
VARIABLE scene

\* What a scene has: the calls, how many of them a reader makes, the capacities.
RequestOf == IF scene = "shared" THEN SharedRequest ELSE EdgeRequest
ReadsOf(r) ==
  IF scene = "shared" THEN 1 ELSE IF r = CHOOSE x \in Reader : TRUE THEN 2 ELSE 0
CapacityOf == CASE scene = "shared" -> {0, 2, 3} [] scene = "edge" -> {0, 1} [] OTHER -> {0}

SceneInit ==
  scene \in {"shared", "edge", "path"} /\ Init /\ cache.cap \in CapacityOf /\ PathInit

SceneNext ==
  /\ UNCHANGED scene
  /\ \/ /\ scene # "path" /\ Next /\ UNCHANGED pathVars
        /\ \A r \in Reader : /\ reads'[r] <= ReadsOf(r)
                             /\ reads'[r] # reads[r] => req'[r] \in RequestOf
        /\ cache'.cap \in CapacityOf
     \/ scene = "path" /\ PathNext /\ UNCHANGED vars

\* That reads return is asked of the scene with the damage; the shared one's
\* behaviours are those in which they do.
SceneSpec ==
  /\ SceneInit /\ [][SceneNext]_<<vars, pathVars, scene>>
  /\ \A r \in Reader : WF_vars(scene = "edge" /\ Step(r))
  /\ WF_pathVars(scene = "path" /\ PathStep)
  /\ []<>(scene = "shared" => \A r \in Reader : pc[r] \in {"idle", "done"})
=============================================================================
