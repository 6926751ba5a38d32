---------------------------- MODULE MCLazyTables -----------------------------
(***************************************************************************)
(* Blocks of 3 bytes.  "a" has a fragment from within its first block to   *)
(* its end, "b" is a fragment as a whole, "c" has none and its xattrs need *)
(* no dictionary, "d" has an index in which no fragment is found.          *)
(*                                                                         *)
(* What the attributes are that these calls load the dictionary for is a   *)
(* matter of its own, of Xattrs: each behaviour is one or the other's, as  *)
(* `subject` says.  Attributes of every remainder of four, the longest,    *)
(* ACLs and names through the dictionary; areas another writer left room   *)
(* in, shared entries, and damaged areas.                                  *)
(***************************************************************************)
EXTENDS LazyTables, TLC

CONSTANT NULL

MCNid == {"a", "b", "c", "d"}
MCFileSize == [a |-> 5, b |-> 2, c |-> 4, d |-> 2]
MCFragment ==
  [a |-> [off |-> 1, range |-> <<1, 5>>], b |-> [off |-> 4, range |-> <<0, 2>>],
   c |-> [off |-> 0, range |-> <<>>], d |-> [off |-> 0, range |-> <<"refused">>]]
MCNames == [a |-> <<0, Short>>, b |-> <<1>>, c |-> <<>>, d |-> <<Short>>]

\* A packed inode that can be read, one that ends early and has an unreadable
\* byte in it, none, and tables that do not parse.
Whole == <<TRUE, TRUE, TRUE, TRUE, TRUE, TRUE>>
MCImage ==
  {[packed |-> p, dict |-> 1, sound |-> Table] :
     p \in {Whole, <<TRUE, TRUE, FALSE, TRUE, TRUE>>}}
  \cup {[packed |-> NoPacked, dict |-> 0, sound |-> Table],
        [packed |-> Whole, dict |-> 1, sound |-> {}]}

Read(n, off, len) == [op |-> "read", nid |-> n, off |-> off, len |-> len]
Xattrs(n) == [op |-> "xattrs", nid |-> n, off |-> 0, len |-> 0]
MCRequest ==
  {Read("a", 0, 5), Read("a", 1, 1), Read("a", 3, 2), Read("b", 0, 2), Read("c", 3, 2),
   Read("c", 1, 0), Read("d", 0, 1), Xattrs("a"), Xattrs("b"), Xattrs("c")}
-----------------------------------------------------------------------------
VARIABLES subject, area, stage, cur, shared, entries, prefixes, out, fault

attributes == <<area, stage, cur, shared, entries, prefixes, out, fault>>

\* What is written, before there is something to read.
Form == INSTANCE Xattrs WITH
  Wanted <- {}, Foreign <- {}, image <- area, pc <- stage, dict <- prefixes

Text(n, id) == [len |-> n, id |-> id]
Attr(i, name, value) == [name_index |-> i, name |-> name, value |-> value]
Acl == Form!encode_posix_acl(<<[tag |-> 1, perm |-> 6, id |-> 0], [tag |-> 2, perm |-> 4, id |-> 7]>>)

Attrs ==
  {Attr(1, Text(1, "a"), Text(n, "v")) : n \in 0..4}
  \cup {Attr(2, Text(0, "none"), Acl), Attr(3, Text(0, "none"), [Acl EXCEPT !.version = 1]),
        Attr(0, Text(5, "raw"), Text(2, "v")),
        Attr(6, Text(255, "b"), Text(65535, "w")), Attr(4, Text(256, "b"), Text(0, "v")),
        Attr(1, Text(1, "c"), Text(65536, "w")), Attr(9, Text(3, "d"), Text(1, "v")),
        Attr(128, Text(2, "e"), Text(1, "v")), Attr(129, Text(0, "f"), Text(3, "v"))}

Dicts ==
  {<<>>, <<[base_index |-> 1, infix |-> Text(4, "x")]>>,
   <<[base_index |-> 4, infix |-> Text(0, "y")], [base_index |-> 0, infix |-> Text(3, "z")]>>,
   <<[base_index |-> 1, infix |-> Text(65535, "y")]>>}

MCWanted ==
  {[attrs |-> a, prefixes |-> d] :
     a \in UNION {[1..n -> Attrs] : n \in 0..3}, d \in Dicts}
  \cup {[attrs |-> [k \in 1..n |-> Attr(6, Text(255, "b"), Text(65535, "w"))],
         prefixes |-> <<>>] : n \in {3, 4}}

A == Attr(1, Text(1, "a"), Text(2, "v"))
B == Attr(129, Text(2, "b"), Text(3, "w"))
Means(a) == Form!Meaning([attrs |-> a, prefixes |-> <<[base_index |-> 1, infix |-> Text(4, "x")],
                                                 [base_index |-> 4, infix |-> Text(0, "y")]>>])
Area(count, at, shares, means) ==
  [icount |-> count, at |-> at, shares |-> shares, shared |-> (0 :> B) @@ (16 :> A),
   count |-> 2, dict |-> (0 :> [base_index |-> 1, infix |-> Text(4, "x")])
                         @@ (8 :> [base_index |-> 4, infix |-> Text(0, "y")]),
   means |-> means]

MCForeign ==
  {Area(1, <<>>, <<>>, <<>>),
   Area(9, (12 :> A), <<>>, Means(<<A>>)),
   Area(3, <<>>, <<4, 0>>, Means(<<A, B>>)),
   Area(6, (16 :> B), <<4>>, Means(<<B, A>>)),
   Area(6, (20 :> A), <<0, 0>>, Means(<<A, B, B>>)),
   Area(2, (12 :> A), <<>>, NULL),
   Area(2, <<>>, <<0, 4>>, NULL),
   [Area(3, (12 :> A), <<>>, NULL) EXCEPT !.dict = (0 :> [base_index |-> 1, infix |-> Text(4, "x")])],
   [Area(4, (12 :> B), <<>>, NULL) EXCEPT !.count = 1]}

X == INSTANCE Xattrs WITH
  Wanted <- MCWanted, Foreign <- MCForeign, image <- area, pc <- stage, dict <- prefixes

\* What is not the subject stays as it is.
NoAttributes ==
  /\ area = Area(1, <<>>, <<>>, <<>>) /\ stage = "idle" /\ cur = 0 /\ shared = <<>>
  /\ entries = <<>> /\ prefixes = <<>> /\ out = <<>> /\ fault = FALSE
NoTables == image = [packed |-> NoPacked, dict |-> 0, sound |-> Table]

BothInit ==
  \/ subject = "tables" /\ NoAttributes /\ Init
  \/ subject = "attributes" /\ NoTables /\ Init /\ X!Init

BothNext ==
  \/ subject = "tables" /\ Next /\ UNCHANGED <<subject, attributes>>
  \/ subject = "attributes" /\ X!Next /\ UNCHANGED <<subject, vars>>

BothSpec == BothInit /\ [][BothNext]_<<subject, vars, attributes>>

\* What the builder was given comes back; a call that fails met damage or a bad device.
AttrsComeBack == X!AttrsComeBack
=============================================================================
