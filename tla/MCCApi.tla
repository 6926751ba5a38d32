------------------------------- MODULE MCCApi --------------------------------
(***************************************************************************)
(* Two threads, one filesystem, one iterator, an image with a file, a      *)
(* symlink and a directory, a path through the file and one to nothing.    *)
(***************************************************************************)
EXTENDS CApi, TLC

MCPath == {"/f", "/d", "/l", "/f/x", "/none"}
MCLeads == ("/f" :> "f") @@ ("/d" :> "d") @@ ("/l" :> "l")
           @@ ("/f/x" :> "NotADirectory") @@ ("/none" :> "NotFound")

Named(x, n) == [name |-> x, nid |-> n]
File(kind, size) == [kind |-> kind, size |-> size, entries |-> <<>>]
\* The dots are where the builder's order of names puts them: "!" sorts below ".".
MCInode ==
  ("f" :> File("reg", 3)) @@ ("l" :> File("link", 2))
  @@ ("d" :> [kind |-> "dir", size |-> 1,
              entries |-> <<Named("!", "f"), Named(".", "d"), Named("..", "d"), Named("long", "l")>>])

MCCut == [x \in {"!", ".", "..", "long"} |-> IF x = "long" THEN "lon" ELSE x]

Symmetry == Permutations(Thread)
=============================================================================
