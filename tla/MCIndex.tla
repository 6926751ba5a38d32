------------------------------- MODULE MCIndex -------------------------------
(***************************************************************************)
(* The reader over the indexes of both kinds of writer: this crate's (the  *)
(* files of MCCompressedInode) and others', sound and damaged.  The two    *)
(* share the reader and its variables.                                     *)
(***************************************************************************)
EXTENDS MCCompressedInode

VARIABLE writer   \* "own" or "foreign"

\* Heads, one past its lcluster, NONHEADs that lead nowhere or back too far, and a CBLKCNT marker.
MCGarbage ==
  {[type |-> t[1], lo |-> t[2], addr |-> 9] :
     t \in {<<PLAIN, 0>>, <<HEAD1, 1>>, <<NONHEAD, 0>>, <<NONHEAD, 1>>, <<NONHEAD, 2>>,
            <<NONHEAD, Cblkcnt>>, <<HEAD1, 5>>}}

\* Files of up to four lclusters of two units, every placing of their extents; the
\* reach of a pcluster is as long as the longest of them.
Foreign ==
  INSTANCE ForeignIndex WITH MaxLclusters <- 4, MaxPcluster <- 8, Garbage <- MCGarbage

\* The files and places of this run are those builder and reader agree on.
ASSUME MCAgrees == Agreed

OwnInit == writer = "own" /\ Init

\* There is no file of this crate's.
ForeignInit ==
  /\ writer = "foreign" /\ Foreign!Init
  /\ file = CHOOSE f \in File : Source[f].n = 0
  /\ st = "collate" /\ i = 0 /\ total = 0 /\ open = NoneOpen
  /\ pclusters = <<>> /\ entries = <<>> /\ requested = FALSE

Lookup ==
  \/ writer = "own" /\ ReadStep /\ UNCHANGED <<collatorVars, requested, writer>>
  \/ writer = "foreign" /\ Foreign!ReadStep /\ UNCHANGED <<collatorVars, requested, writer>>

AskFor ==
  /\ \E x \in 0 .. disk.size - 1 : Ask(x)
  /\ UNCHANGED <<disk, table, plan, collatorVars, requested, writer>>

IndexNext == (writer = "own" /\ Write /\ UNCHANGED writer) \/ AskFor \/ Lookup

\* A lookup once begun is the work of one call, which nothing waits for.
IndexSpec ==
  (OwnInit \/ ForeignInit) /\ [][IndexNext]_<<vars, writer>> /\ WF_<<vars, writer>>(Lookup)
=============================================================================
