----------------------------- MODULE FileExport ------------------------------
(***************************************************************************)
(* `fs.erofs IMAGE read PATH -o FILE` and `fs.erofs IMAGE xattr PATH NAME  *)
(* -o FILE`: each writes FILE.partial and renames it to FILE.  A run is a  *)
(* process: others run beside it, and it may be killed between any two     *)
(* calls into the system, and be run again.                                *)
(*                                                                         *)
(* The names of a directory, the files behind them and the open handles    *)
(* are the system's, as POSIX has them: a name may be given to another     *)
(* file while a handle is open on the one it had.                          *)
(***************************************************************************)
EXTENDS Integers, Sequences

CONSTANTS
  Process,
  File,       \* names in a directory
  Ino,        \* the files that may be behind them
  Dest,       \* Dest[p]: the FILE p is told to write
  Partial,    \* Partial[f]: the name f.partial
  Removes,    \* processes that remove FILE.partial when the rename fails: xattr does
  Chunks,     \* Chunks[p]: how many writes what p copies takes
  Old,        \* what FILE held before
  Hole,       \* bytes of a file never written
  NULL

ASSUME ExportAssumption ==
  /\ Dest \in [Process -> File] /\ Partial \in [File -> File]
  /\ \A f \in File : Partial[f] # f
  /\ Chunks \in [Process -> Nat]
  /\ NULL \notin Ino
  /\ Old \notin Process /\ Hole \notin Process /\ Old # Hole

VARIABLES
  name,     \* name[f]: the file behind the name f, or NULL
  data,     \* data[i]: who wrote each chunk of the file i
  pc,       \* "idle", "copy", "undo", "remove", "rename", "ok", "failed"
  handle,   \* the file p has open
  offset,   \* chunks p has copied
  before    \* history: what FILE held when p was started, NULL for no such name

vars == <<name, data, pc, handle, offset, before>>
-----------------------------------------------------------------------------
TempOf(p) == Partial[Dest[p]]

\* What p was asked to put into FILE.
Payload(p) == [k \in 1..Chunks[p] |-> p]

Behind(f) == IF name[f] = NULL THEN NULL ELSE data[name[f]]

Unused == {i \in Ino : (\A f \in File : name[f] # i) /\ (\A p \in Process : handle[p] # i)}

\* A chunk at position k of what a file holds; what is in front of it and was cut is a hole.
Write(s, k, p) ==
  [j \in 1..(IF k > Len(s) THEN k ELSE Len(s)) |->
     IF j = k THEN p ELSE IF j <= Len(s) THEN s[j] ELSE Hole]

Init ==
  /\ \E f \in [File -> Ino \cup {NULL}] :
       /\ \A g, h \in File : f[g] = f[h] /\ f[g] # NULL => g = h
       /\ \A p \in Process : f[TempOf(p)] = NULL
       /\ name = f
  /\ data = [i \in Ino |-> <<Old>>]
  /\ pc = [p \in Process |-> "idle"]
  /\ handle = [p \in Process |-> NULL]
  /\ offset = [p \in Process |-> 0]
  /\ before = [p \in Process |-> NULL]

Goto(p, where) == pc' = [pc EXCEPT ![p] = where]

(***************************************************************************)
(* File::create: the name is made, or the file behind it is cut to no      *)
(* bytes, whoever else has it open.  What can be refused is refused before *)
(* that: no such path, not a regular file, no such attribute.              *)
(***************************************************************************)
create(p) ==
  /\ pc[p] = "idle"
  /\ \E i \in IF name[TempOf(p)] = NULL THEN Unused ELSE {name[TempOf(p)]} :
       /\ name' = [name EXCEPT ![TempOf(p)] = i]
       /\ data' = [data EXCEPT ![i] = <<>>]
       /\ handle' = [handle EXCEPT ![p] = i]
  /\ offset' = [offset EXCEPT ![p] = 0]
  /\ before' = [before EXCEPT ![p] = Behind(Dest[p])]
  /\ Goto(p, "copy")

\* Seeded fault: the result of rename is not looked at.
AfterFailedRename_Ignored(p) == "ok"

\* Where a failed rename leads: xattr removes FILE.partial, read leaves it.
AfterFailedRename(p) == IF p \in Removes THEN "remove" ELSE "failed"

refuse(p) ==
  /\ pc[p] = "idle"
  /\ before' = [before EXCEPT ![p] = Behind(Dest[p])]
  /\ Goto(p, "failed")
  /\ UNCHANGED <<name, data, handle, offset>>

\* FILE.partial cannot be opened: xattr removes it all the same.
create_fails(p) ==
  /\ pc[p] = "idle"
  /\ before' = [before EXCEPT ![p] = Behind(Dest[p])]
  /\ Goto(p, AfterFailedRename(p))
  /\ UNCHANGED <<name, data, handle, offset>>

\* One round of the loop in copy: a chunk is read, then written.
write_all(p) ==
  /\ pc[p] = "copy" /\ offset[p] < Chunks[p]
  /\ data' = [data EXCEPT ![handle[p]] = Write(@, offset[p] + 1, p)]
  /\ offset' = [offset EXCEPT ![p] = @ + 1]
  /\ UNCHANGED <<name, pc, handle, before>>

copied(p) ==
  /\ pc[p] = "copy" /\ offset[p] = Chunks[p]
  /\ Goto(p, "rename")
  /\ UNCHANGED <<name, data, handle, offset, before>>

\* Seeded fault: what was copied is published even if the copy failed part-way.
AfterFailedCopy_Publish(p) == "rename"

AfterFailedCopy(p) == "remove"

\* read_file, write_all or flush fails; f is dropped.
copy_fails(p) ==
  /\ pc[p] = "copy"
  /\ Goto(p, AfterFailedCopy(p))
  /\ handle' = [handle EXCEPT ![p] = NULL]
  /\ UNCHANGED <<name, data, offset, before>>

\* remove_file, whose own failure is passed over.
remove_file(p) ==
  /\ pc[p] = "remove"
  /\ \/ name' = [name EXCEPT ![TempOf(p)] = NULL]
     \/ UNCHANGED name
  /\ Goto(p, "failed")
  /\ UNCHANGED <<data, handle, offset, before>>

\* rename: FILE is the file behind FILE.partial, from one moment to the next.
rename(p) ==
  /\ pc[p] = "rename" /\ name[TempOf(p)] # NULL
  /\ name' = [name EXCEPT ![Dest[p]] = name[TempOf(p)],
                          ![TempOf(p)] = NULL]
  /\ handle' = [handle EXCEPT ![p] = NULL]
  /\ Goto(p, "ok")
  /\ UNCHANGED <<data, offset, before>>

\* No FILE.partial any more, FILE is a directory, ...
rename_fails(p) ==
  /\ pc[p] = "rename"
  /\ Goto(p, AfterFailedRename(p))
  /\ handle' = [handle EXCEPT ![p] = NULL]
  /\ UNCHANGED <<name, data, offset, before>>

\* The process is killed, or has ended; its handle is closed.  It may be run again.
Ends(p) ==
  /\ pc[p] # "idle"
  /\ Goto(p, "idle")
  /\ handle' = [handle EXCEPT ![p] = NULL]
  /\ UNCHANGED <<name, data, offset, before>>

Step(p) ==
  \/ create(p) \/ create_fails(p) \/ refuse(p) \/ write_all(p) \/ copied(p)
  \/ copy_fails(p) \/ remove_file(p) \/ rename(p) \/ rename_fails(p) \/ Ends(p)

Next == \E p \in Process : Step(p)

Spec == Init /\ [][Next]_vars
-----------------------------------------------------------------------------
\* No two runs use a name between them.
Exclusive ==
  \A p, q \in Process :
    p # q => {Dest[p], TempOf(p)} \cap {Dest[q], TempOf(q)} = {}

ExportTypeOK ==
  /\ name \in [File -> Ino \cup {NULL}]
  /\ data \in [Ino -> Seq(Process \cup {Old, Hole})]
  /\ pc \in [Process -> {"idle", "copy", "remove", "rename", "ok", "failed"}]
  /\ handle \in [Process -> Ino \cup {NULL}]
  /\ offset \in [Process -> Nat]
  /\ before \in [Process -> Seq(Process \cup {Old, Hole}) \cup {NULL}]

\* "FILE is never left half written": at every moment, whoever was killed and wherever,
\* FILE is not there, or holds what it held, or all that some run was to write to it.
NeverHalfWritten ==
  \A p \in Process :
    Behind(Dest[p]) \in {NULL, <<Old>>} \cup {Payload(q) : q \in {q \in Process : Dest[q] = Dest[p]}}

\* A run that reports success has left all it was asked for under FILE; one that reports
\* a failure has left FILE as it found it.
OutcomeTrue ==
  \A p \in Process :
    /\ pc[p] = "ok" => Behind(Dest[p]) = Payload(p)
    /\ pc[p] = "failed" => Behind(Dest[p]) = before[p]
=============================================================================
