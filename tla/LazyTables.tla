----------------------------- MODULE LazyTables ------------------------------
(***************************************************************************)
(* Files whose tail lies in the packed inode, and extended attributes with *)
(* a prefix dictionary, as several threads read them on one `Filesystem`   *)
(* (src/src/fs.rs).  Both tables are loaded when first needed, without a   *)
(* lock, into a cell that is set once (OnceLock): threads that race load   *)
(* the table each, and all use the copy that got in first.                 *)
(*                                                                         *)
(* A fill below the fragment takes ordinary bytes; one inside it becomes a *)
(* read of the packed inode, which answers as ReadService promises.  The   *)
(* packed inode has no fragment of its own.                                *)
(***************************************************************************)
EXTENDS BlockWalk

CONSTANTS
  Reader,       \* threads
  Nid,          \* inodes
  Fragment,     \* Fragment[n]: [off, range], h_fragmentoff and what
                \* work_out_fragment_range finds: <<start, end>>, <<>> for no
                \* fragment, <<"refused">>
  Names,        \* Names[n]: per xattr its dictionary index, or Short for none
  Short,
  Image,        \* superblocks: [packed, dict, sound]; packed is NoPacked or whether
                \* each byte of the packed inode can be read, dict the dictionary's
                \* length, sound the tables that parse
  NoPacked,
  Empty,        \* a cell that is not set
  Request,      \* calls: [op, nid, off, len], op "read" or "xattrs"
  MaxCalls,     \* bound: calls of a thread
  MaxFaults     \* bound: failures of the device

VARIABLES
  image,        \* the superblock
  cell,         \* the OnceLocks: "packed" and "dict"
  pc,           \* where each thread is
  loaded,       \* the copy it has loaded and not stored
  held,         \* the table it uses
  known,        \* ZMap::fragment is set: a call opens a ZMap of its own
  res,          \* what the call returned
  calls,        \* calls made, bounded by MaxCalls
  faults,       \* failures of the device, bounded by MaxFaults
  before        \* faults when the call began

vars == <<image, cell, req, buf, block, pc, loaded, held, known, res, calls, faults, before>>

Table == {"packed", "dict"}
Copy == [by : Reader]

ASSUME LazyTablesAssumption ==
  /\ BlockSize \in Nat \ {0} /\ FileSize \in [Nid -> Nat]
  /\ \A q \in Request : /\ q.op \in {"read", "xattrs"} /\ q.nid \in Nid
                        /\ q.off \in Nat /\ q.len \in Nat
  /\ Request # {} /\ Empty \notin Copy
  /\ MaxCalls \in Nat /\ MaxFaults \in Nat

\* A fragment runs to the end of its file; the packed inode is a sequence of bytes.
ASSUME FragmentAssumption ==
  /\ \A n \in Nid : Fragment[n].off \in Nat
  /\ \A n \in Nid :
       \/ Fragment[n].range = <<>> \/ Fragment[n].range = <<"refused">>
       \/ \E s \in 0 .. FileSize[n] - 1 : Fragment[n].range = <<s, FileSize[n]>>
  /\ \A i \in Image : i.packed = NoPacked \/ i.packed \in Seq(BOOLEAN)
-----------------------------------------------------------------------------
Reading(r) == req[r].op = "read"
Needed(r) == IF Reading(r) THEN "packed" ELSE "dict"
Frag(r) == Fragment[req[r].nid]
RangeKind(n) == Len(Fragment[n].range)

\* The fill is inside the fragment.
InFragment(r) ==
  /\ RangeKind(req[r].nid) = 2
  /\ Frag(r).range[1] <= FillAt(r) /\ FillAt(r) < Frag(r).range[2]

\* Where the run of bytes that the fill is in ends.
RunEnd(r) ==
  IF RangeKind(req[r].nid) = 2 /\ FillAt(r) < Frag(r).range[1] THEN Frag(r).range[1]
  ELSE FileSize[req[r].nid]
FillTake(r) == Least(ValidInBlock(r) - Len(block[r]), RunEnd(r) - FillAt(r))

\* Seeded fault: every fill reads from the fragment's first byte.
SourceOff_Start(r) == Frag(r).off

\* Where in the packed inode the fill reads.
SourceOff(r) == Frag(r).off + (FillAt(r) - Frag(r).range[1])

\* Seeded fault: the packed inode's last byte is out of reach.
PastPacked_ByOne(r) == SourceOff(r) + FillTake(r) >= Len(image.packed)

PastPacked(r) == SourceOff(r) + FillTake(r) > Len(image.packed)

\* The packed inode's own read refuses a byte this one asks it for.
PackedRefuses(r) ==
  \E o \in SourceOff(r) .. SourceOff(r) + FillTake(r) - 1 : ~image.packed[o + 1]

Done(r, why) ==
  /\ pc' = [pc EXCEPT ![r] = "done"]
  /\ res' = [res EXCEPT ![r] = why]
  /\ loaded' = [loaded EXCEPT ![r] = Empty]
  /\ held' = [held EXCEPT ![r] = Empty]
  /\ block' = [block EXCEPT ![r] = <<>>]
Fail(r, why) == Done(r, why) /\ UNCHANGED <<buf, known>>

Goto(r, label) == pc' = [pc EXCEPT ![r] = label]

\* The fill returned v: a full block is copied out, the last ends the call.
Absorb(r, v) ==
  LET bytes == block[r] \o v
      out   == buf[r] \o SubSeq(bytes, InBlockOff(r) + 1, InBlockOff(r) + Take(r))
  IN  IF Len(bytes) < ValidInBlock(r)
      THEN /\ block' = [block EXCEPT ![r] = bytes]
           /\ held' = [held EXCEPT ![r] = Empty]
           /\ Goto(r, "fill") /\ UNCHANGED <<buf, known, loaded, res>>
      ELSE /\ buf' = [buf EXCEPT ![r] = out]
           /\ UNCHANGED known
           /\ IF Len(out) = req[r].len THEN Done(r, "ok")
              ELSE /\ block' = [block EXCEPT ![r] = <<>>]
                   /\ held' = [held EXCEPT ![r] = Empty]
                   /\ Goto(r, "fill") /\ UNCHANGED <<loaded, res>>

Init ==
  /\ image \in Image
  /\ cell = [t \in Table |-> Empty]
  /\ req = [r \in Reader |-> CHOOSE q \in Request : TRUE]
  /\ buf = [r \in Reader |-> <<>>] /\ block = [r \in Reader |-> <<>>]
  /\ pc = [r \in Reader |-> "idle"] /\ res = [r \in Reader |-> "none"]
  /\ loaded = [r \in Reader |-> Empty] /\ held = [r \in Reader |-> Empty]
  /\ known = [r \in Reader |-> FALSE]
  /\ calls = [r \in Reader |-> 0] /\ before = [r \in Reader |-> 0]
  /\ faults = 0

\* A thread calls read_file or xattrs.
Begin(r, q) ==
  /\ pc[r] \in {"idle", "done"} /\ calls[r] < MaxCalls
  /\ calls' = [calls EXCEPT ![r] = @ + 1]
  /\ before' = [before EXCEPT ![r] = faults]
  /\ req' = [req EXCEPT ![r] = q]
  /\ buf' = [buf EXCEPT ![r] = <<>>]
  /\ known' = [known EXCEPT ![r] = FALSE]
  /\ res' = [res EXCEPT ![r] = "none"]
  /\ Goto(r, "open")
  /\ UNCHANGED <<image, cell, block, loaded, held, faults>>

\* read_file up to its loop: the range check, the empty read, the ZMap.
OpenFile(r) ==
  /\ pc[r] = "open" /\ Reading(r)
  /\ \/ /\ req[r].off + req[r].len > FileSize[req[r].nid]
        /\ Fail(r, "OutOfRange")
     \/ /\ req[r].off + req[r].len <= FileSize[req[r].nid] /\ req[r].len = 0
        /\ Done(r, "ok") /\ UNCHANGED <<buf, known>>
     \/ /\ req[r].off + req[r].len <= FileSize[req[r].nid] /\ req[r].len > 0
        /\ Goto(r, "fill") /\ UNCHANGED <<buf, block, known, loaded, held, res>>

\* ZMap::fragment_range: worked out once for a ZMap; a refusal is not kept.
WorkOutRange(r) ==
  /\ pc[r] = "fill" /\ ~known[r]
  /\ IF RangeKind(req[r].nid) = 1 THEN Fail(r, "BadInode")
     ELSE /\ known' = [known EXCEPT ![r] = TRUE]
          /\ UNCHANGED <<buf, block, pc, loaded, held, res>>

FillOrdinary(r) ==
  /\ pc[r] = "fill" /\ known[r] /\ ~InFragment(r)
  /\ Absorb(r, [i \in 1 .. FillTake(r) |-> <<req[r].nid, FillAt(r) + i - 1>>])

FillFragment(r) ==
  /\ pc[r] = "fill" /\ known[r] /\ InFragment(r)
  /\ Goto(r, "get") /\ UNCHANGED <<buf, block, known, loaded, held, res>>

\* xattrs: the inode's entries; without any, no dictionary is needed.
ReadEntries(r) ==
  /\ pc[r] = "open" /\ ~Reading(r)
  /\ IF Names[req[r].nid] = <<>> THEN Done(r, "ok") /\ UNCHANGED <<buf, known>>
     ELSE Goto(r, "get") /\ UNCHANGED <<buf, block, known, loaded, held, res>>

\* packed_inode and xattr_prefix_dict: the cell is asked first.
Get(r) ==
  /\ pc[r] = "get"
  /\ IF cell[Needed(r)] # Empty
     THEN /\ held' = [held EXCEPT ![r] = cell[Needed(r)]]
          /\ Goto(r, "use") /\ UNCHANGED <<buf, block, known, loaded, res>>
     ELSE IF Reading(r) /\ image.packed = NoPacked THEN Fail(r, "BadInode")
     ELSE Goto(r, "load") /\ UNCHANGED <<buf, block, known, loaded, held, res>>

Refusal(t) == IF t = "packed" THEN "BadInode" ELSE "BadXattr"

\* The table is read from the device, with the cell unlocked; one that does not
\* parse is not kept.
Load(r) ==
  /\ pc[r] = "load"
  /\ IF Needed(r) \notin image.sound THEN Fail(r, Refusal(Needed(r)))
     ELSE /\ loaded' = [loaded EXCEPT ![r] = [by |-> r]]
          /\ Goto(r, "store") /\ UNCHANGED <<buf, block, known, held, res>>

\* OnceLock::set keeps what is there.
Stored(r) == IF cell[Needed(r)] = Empty THEN loaded[r] ELSE cell[Needed(r)]

\* Seeded fault: a thread goes on with the copy it has loaded.
HeldAfter_Own(r) == loaded[r]

\* The copy in the cell is the one to use, whoever loaded it.
HeldAfter(r) == Stored(r)

Store(r) ==
  /\ pc[r] = "store"
  /\ cell' = [cell EXCEPT ![Needed(r)] = Stored(r)]
  /\ held' = [held EXCEPT ![r] = HeldAfter(r)]
  /\ loaded' = [loaded EXCEPT ![r] = Empty]
  /\ Goto(r, "use") /\ UNCHANGED <<buf, block, known, res>>

\* The fill is a read of the packed inode, of all that the fill takes.
ReadPacked(r) ==
  /\ pc[r] = "use" /\ Reading(r)
  /\ IF PastPacked(r) \/ PackedRefuses(r) THEN Fail(r, "BadInode")
     ELSE Absorb(r, [i \in 1 .. FillTake(r) |-> <<"packed", SourceOff(r) + i - 1>>])

\* Each name is resolved through the dictionary (resolve_with_dict).
Resolve(r) ==
  /\ pc[r] = "use" /\ ~Reading(r)
  /\ LET names == Names[req[r].nid]
         unknown == {k \in DOMAIN names : names[k] # Short /\ names[k] >= image.dict} IN
     IF unknown # {} THEN Fail(r, "BadXattr")
     ELSE /\ buf' = [buf EXCEPT ![r] = [k \in DOMAIN names |-> <<"name", names[k]>>]]
          /\ Done(r, "ok") /\ UNCHANGED known

\* r's next step reads the device.
ReadsDevice(r) ==
  CASE pc[r] = "open" /\ Reading(r) ->
         req[r].len > 0 /\ req[r].off + req[r].len <= FileSize[req[r].nid]
    [] pc[r] = "open" /\ ~Reading(r) -> Names[req[r].nid] # <<>>
    [] pc[r] = "fill" -> IF known[r] THEN ~InFragment(r)
                         ELSE Frag(r).range \notin {<<>>, <<0, FileSize[req[r].nid]>>}
    [] pc[r] = "load" -> Reading(r) \/ image.dict > 0
    [] pc[r] = "use" -> Reading(r) /\ ~PastPacked(r)
    [] OTHER -> FALSE

\* The device fails under that step.
DeviceFails(r) ==
  /\ faults < MaxFaults /\ ReadsDevice(r)
  /\ faults' = faults + 1
  /\ Fail(r, "Io")
  /\ UNCHANGED <<image, cell, req, calls, before>>

LocalStep(r) ==
  \/ OpenFile(r) \/ WorkOutRange(r) \/ FillOrdinary(r) \/ FillFragment(r) \/ ReadEntries(r)
  \/ Get(r) \/ Load(r) \/ ReadPacked(r) \/ Resolve(r)

Step(r) ==
  /\ Store(r) \/ (LocalStep(r) /\ UNCHANGED cell)
  /\ UNCHANGED <<image, req, calls, faults, before>>

Next ==
  \E r \in Reader : (\E q \in Request : Begin(r, q)) \/ Step(r) \/ DeviceFails(r)

Spec == Init /\ [][Next]_vars
-----------------------------------------------------------------------------
\* What the image says byte o of file n is, and whether it can be read.
Packed(n, o) == RangeKind(n) = 2 /\ o >= Fragment[n].range[1]
PackedOff(n, o) == Fragment[n].off + (o - Fragment[n].range[1])
FileByte(n, o) == IF Packed(n, o) THEN <<"packed", PackedOff(n, o)>> ELSE <<n, o>>
Unreadable(n, o) ==
  \/ RangeKind(n) = 1
  \/ /\ Packed(n, o)
     /\ IF image.packed = NoPacked \/ "packed" \notin image.sound THEN TRUE
        ELSE IF PackedOff(n, o) >= Len(image.packed) THEN TRUE ELSE ~image.packed[PackedOff(n, o) + 1]

Asked(q) == q.off .. (q.off + q.len - 1)
\* The offsets of the blocks that hold what q asks for.
Shared(q) ==
  {o \in 0 .. FileSize[q.nid] - 1 : \E a \in Asked(q) : a \div BlockSize = o \div BlockSize}

\* Every variable has its type (the bytes read are AnswersCorrect's); a table in
\* use is in its cell, so that "just set" never meets an empty one.
LazyTypeOK ==
  /\ image \in Image
  /\ cell \in [Table -> Copy \cup {Empty}]
  /\ req \in [Reader -> Request]
  /\ pc \in [Reader -> {"idle", "open", "fill", "get", "load", "store", "use", "done"}]
  /\ loaded \in [Reader -> Copy \cup {Empty}]
  /\ held \in [Reader -> Copy \cup {Empty}]
  /\ \A r \in Reader : pc[r] = "use" => cell[Needed(r)] # Empty
  /\ known \in [Reader -> BOOLEAN]
  /\ res \in [Reader -> {"none", "ok", "OutOfRange", "BadInode", "BadXattr", "Io"}]
  /\ calls \in [Reader -> 0 .. MaxCalls]
  /\ faults \in 0 .. MaxFaults /\ before \in [Reader -> 0 .. MaxFaults]

\* However many threads load a table at once, there is one: each uses the copy
\* in the cell (fs.rs packed_inode, "discard the local copy and use theirs").
OneCopy == \A r \in Reader : held[r] # Empty => held[r] = cell[Needed(r)]

\* A table that is there is never replaced under those who borrow it.
SetOnce == [][\A t \in Table : cell[t] # Empty => cell'[t] = cell[t]]_vars

\* A call that returns Ok gives the file's bytes, those of the fragment from
\* their place in the packed inode, and none that cannot be read.
AnswersCorrect ==
  \A r \in Reader :
    (res[r] = "ok" /\ Reading(r)) =>
      /\ Len(buf[r]) = req[r].len
      /\ \A i \in 1 .. Len(buf[r]) :
           LET o == req[r].off + i - 1 IN
           buf[r][i] = FileByte(req[r].nid, o) /\ ~Unreadable(req[r].nid, o)

\* A call fails with a device error only if the device failed while it ran: a
\* load that failed is not kept for others, nor for a later call.  It is
\* refused only for something unreadable in the blocks it reads, and a name
\* only if the dictionary lacks it or does not parse.
FailsForCause ==
  \A r \in Reader :
    /\ res[r] = "Io" => faults > before[r]
    /\ res[r] = "BadInode" => \E o \in Shared(req[r]) : Unreadable(req[r].nid, o)
    /\ res[r] = "BadXattr" =>
         \/ "dict" \notin image.sound
         \/ \E k \in DOMAIN Names[req[r].nid] :
              Names[req[r].nid][k] # Short /\ Names[req[r].nid][k] >= image.dict

\* "one that cannot be read truthfully fails the call only if it is in
\* `wanted`" (fs.rs:974): a refused read asked for an unreadable byte.
RefusedOnlyIfWanted ==
  \A r \in Reader :
    res[r] = "BadInode" => \E o \in Asked(req[r]) : Unreadable(req[r].nid, o)
=============================================================================
