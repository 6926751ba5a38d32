----------------------------- MODULE ReadService -----------------------------
(***************************************************************************)
(* What callers of `Filesystem::read_file` are promised, with no cache, no *)
(* scratch blocks and no steps inside a call: a call ends, at one moment,  *)
(* with the file's bytes or with an error it has a cause for.  The file is *)
(* read in blocks, so a cause may lie beside the bytes asked for.  A       *)
(* damaged index leaves the service free to answer what the damage says,   *)
(* at the asked length.                                                    *)
(***************************************************************************)
EXTENDS Integers, Sequences

CONSTANTS Reader, Nid, FileSize, BlockSize, Extent, Index, Payload, Gone, Zero, Request

VARIABLE call   \* call[r]: [st, req, res, out], what caller r sees of its call

ImageByte == UNION {{Payload[e][i] : i \in DOMAIN Payload[e]} : e \in Extent}
Byte == ImageByte \cup {Zero}
FileByte(n, o) == Payload[Index[n][o]][o - Index[n][o].start + 1]

Sound(n) ==
  \A o \in DOMAIN Index[n] :
    LET e == Index[n][o]
    IN  /\ e.start <= o /\ o < e.end
        /\ \A p \in DOMAIN Index[n] : e.start <= p /\ p < e.end => Index[n][p] = e

Asked(q) == q.off .. (q.off + q.len - 1)
InFile(q) == q.off + q.len <= FileSize[q.nid]

\* Bytes o of inode n whose stored form fails a read that reaches them.
Refused(n, o) ==
  Index[n][o].kind = "undecodable" \/ (Index[n][o].kind = "plain" /\ o \in Gone[Index[n][o]])
Foreign(n, o) == Index[n][o].kind = "unsupported"
Untrue(n, o) == Index[n][o].kind = "untruthful"

\* No byte asked for is one that cannot be read; some byte asked for, or of a block
\* that holds one, is.
Readable(q) ==
  \A o \in Asked(q) : ~Refused(q.nid, o) /\ ~Foreign(q.nid, o) /\ ~Untrue(q.nid, o)
Beside(q) ==
  {o \in DOMAIN Index[q.nid] :
     \E a \in Asked(q) : LET s == a - (a % BlockSize) IN o \in s .. s + BlockSize - 1}

\* What a call may return: the whole range, and the file's own bytes.
Answers(q, out) ==
  /\ InFile(q)
  /\ out \in Seq(Byte) /\ Len(out) = q.len
  /\ Sound(q.nid) =>
       Readable(q) /\ \A i \in 1 .. q.len : out[i] = FileByte(q.nid, q.off + i - 1)

\* What it may fail with, and for what cause; the device may fail any call.
Fails(q, why) ==
  \/ why = "OutOfRange" /\ ~InFile(q)
  \/ /\ why = "BadInode" /\ InFile(q)
     /\ Sound(q.nid) => \/ \E o \in Asked(q) : Untrue(q.nid, o)
                        \/ \E o \in Beside(q) : Refused(q.nid, o)
  \/ /\ why = "UnsupportedLayout" /\ InFile(q)
     /\ Sound(q.nid) => \E o \in Beside(q) : Foreign(q.nid, o)
  \/ why = "Io" /\ InFile(q) /\ q.len > 0

Begin(r, q) ==
  /\ call[r].st # "busy"
  /\ call' = [call EXCEPT ![r] = [st |-> "busy", req |-> q, res |-> "none", out |-> <<>>]]

Return(r) ==
  LET now == call'[r]
  IN  /\ call[r].st = "busy"
      /\ call' = [call EXCEPT ![r] = now]
      /\ now = [st |-> "done", req |-> call[r].req, res |-> now.res, out |-> now.out]
      /\ \/ now.res = "ok" /\ Answers(now.req, now.out)
         \/ now.out = <<>> /\ Fails(now.req, now.res)

Init ==
  \A r \in Reader : call[r].st = "idle" /\ call[r].res = "none" /\ call[r].out = <<>>

Next == \E r \in Reader : Return(r) \/ \E q \in Request : Begin(r, q)

Spec == Init /\ [][Next]_call
=============================================================================
