-------------------------------- MODULE CApi ---------------------------------
(***************************************************************************)
(* The C ABI (src/capi.rs): threads that call the exported functions, each *)
(* with a last error of its own.  A call runs inside `ffi_guard`: it is    *)
(* begun, looks its path up, is served, and a panic on the way becomes an  *)
(* EIO.  Between the steps other threads run.  Filesystem handles and      *)
(* directory iterators are the caller's; it frees none that is in use.     *)
(***************************************************************************)
EXTENDS Naturals, Sequences, FiniteSets

CONSTANTS
  Thread, Fs, Iter,   \* threads; the handles that can be given out
  NULL,
  Path,               \* paths callers ask for
  Leads,              \* Leads[p]: the inode p leads to, or the Error of the lookup
  Inode,              \* Inode[n]: [kind, size, entries] of an inode
  Cut,                \* Cut[x]: what 255 bytes of ABI name hold of the name x
  Offset, Length      \* what callers ask for: offsets, buffer sizes

VARIABLES
  mounted,  \* filesystem handles that are live
  iter,     \* iter[i]: NULL, or an fs_erofs_dir_iter_t
  last,     \* last[t]: LAST_ERRNO of t, and the call LAST_ERROR is about
  call,     \* call[t]: the call t is in, at = "idle" outside of one
  answer    \* answer[t]: what the latest call of t gave its caller

vars == <<mounted, iter, last, call, answer>>

Error == {"NotFound", "NotADirectory", "OutOfRange", "NotErofs", "BadSuperblock",
          "Block", "BadInode", "BadDirent"}
Errno == {"OK", "EIO", "ENOENT", "ENOTDIR", "EACCES", "EINVAL", "ERANGE"}
\* The calls that say through the last error how they ended.
OnPath == {"stat", "dir_open", "read_file", "readlink"}
Reporting == OnPath \cup {"mount", "get_volume_info"}

ASSUME ApiAssumption ==
  /\ NULL \notin Fs \cup Iter \cup Path \cup DOMAIN Inode \cup Nat
  /\ Leads \in [Path -> DOMAIN Inode \cup Error]
  /\ DOMAIN Inode \cap Error = {}
  /\ \A p \in Path : Leads[p] # "OutOfRange"   \* a directory is read up to its size
  /\ \A n \in DOMAIN Inode :
       /\ Inode[n].kind \in {"reg", "dir", "link", "other"}
       /\ Inode[n].size \in Nat
       /\ Inode[n].entries \in Seq([name : DOMAIN Cut, nid : DOMAIN Inode])
  /\ Offset \subseteq Nat /\ Length \subseteq Nat
-----------------------------------------------------------------------------
errno_for(e) ==
  CASE e = "NotFound" -> "ENOENT"
    [] e = "NotADirectory" -> "ENOTDIR"
    [] e = "OutOfRange" -> "ERANGE"
    [] e \in {"NotErofs", "BadSuperblock"} -> "EINVAL"
    [] OTHER -> "EIO"

errno_for_open_failure(kind) ==
  CASE kind = "NotFound" -> "ENOENT"
    [] kind = "PermissionDenied" -> "EACCES"
    [] OTHER -> "EIO"

\* Seeded fault: one last error for all threads.
Slots_Shared(t) == Thread

\* The last errors a call of t writes: a thread_local, so its own.
Slots(t) == {t}

set_err(t, op, errno) ==
  last' = [u \in Thread |-> IF u \in Slots(t) THEN [errno |-> errno, by |-> op] ELSE last[u]]

\* Every call but umount, dir_next and dir_close starts with it.
clear_last_error(t, op) == set_err(t, op, "OK")


\* What a call was asked for, and what it gave: a handle, a length, an entry; NULL
\* stands for -1 too, and for the end of an iteration.
\* null: a pointer among the arguments is null, or the device path is empty.
Asked(op, null, h, p, off, len) ==
  [op |-> op, fs |-> h, null |-> null, path |-> p, off |-> off, len |-> len,
   ret |-> NULL, wrote |-> 0]

Ask(op, h, p, off, len) == Asked(op, FALSE, h, p, off, len)

None == Ask("none", NULL, NULL, 0, 0)

NoCall == [at |-> "idle", nid |-> NULL, args |-> None]

Init ==
  /\ mounted = {}
  /\ iter = [i \in Iter |-> NULL]
  /\ last = [t \in Thread |-> [errno |-> "OK", by |-> "none"]]
  /\ call = [t \in Thread |-> NoCall]
  /\ answer = [t \in Thread |-> None]

\* A call ends with what it returned and how many bytes it wrote to its buffer.
Return(t, ret, wrote) ==
  /\ call' = [call EXCEPT ![t] = NoCall]
  /\ answer' = [answer EXCEPT ![t] = [call[t].args EXCEPT !.ret = ret, !.wrote = wrote]]

\* The failures a function reports itself: -1 or NULL, and an errno.
Fail(t, errno, wrote) ==
  /\ set_err(t, call[t].args.op, errno)
  /\ Return(t, NULL, wrote)
  /\ UNCHANGED <<mounted, iter>>

Succeed(t, ret, wrote) == Return(t, ret, wrote) /\ UNCHANGED last

In(t, stage) == call[t].at = stage

Idle(t) == In(t, "idle")

Goto(t, stage, nid) ==
  /\ call' = [call EXCEPT ![t] = [at |-> stage, nid |-> nid, args |-> call[t].args]]
  /\ UNCHANGED <<mounted, iter, last, answer>>
-----------------------------------------------------------------------------
(***************************************************************************)
(* A call begins: the slots are cleared, null arguments are refused.       *)
(***************************************************************************)
Begin(t, args) ==
  /\ Idle(t)
  /\ call' = [call EXCEPT ![t] = [at |-> "args", nid |-> NULL, args |-> args]]
  /\ answer' = [answer EXCEPT ![t] = None]
  /\ clear_last_error(t, args.op)
  /\ UNCHANGED <<mounted, iter>>

BeginCall(t) ==
  \/ \E op \in Reporting : Begin(t, Asked(op, TRUE, NULL, NULL, 0, 0))
  \/ Begin(t, Ask("mount", NULL, NULL, 0, 0))
  \/ \E h \in mounted : Begin(t, Ask("get_volume_info", h, NULL, 0, 0))
  \/ \E h \in mounted, p \in Path :
       \/ \E op \in {"stat", "dir_open"} : Begin(t, Ask(op, h, p, 0, 0))
       \/ \E off \in Offset, len \in Length : Begin(t, Ask("read_file", h, p, off, len))
       \/ \E len \in Length : Begin(t, Ask("readlink", h, p, 0, len))

RefuseNull(t) == In(t, "args") /\ call[t].args.null /\ Fail(t, "EINVAL", 0)

Accepted(t) == In(t, "args") /\ ~call[t].args.null

(***************************************************************************)
(* The three mounts: by path, by a read callback, by an fs_core handle.    *)
(* Only the first opens a device; all then parse what it holds.            *)
(***************************************************************************)
OpenDevice(t) ==
  /\ Accepted(t) /\ call[t].args.op = "mount"
  /\ \/ Goto(t, "open", NULL)
     \/ \E kind \in {"NotFound", "PermissionDenied", "other"} :
          Fail(t, errno_for_open_failure(kind), 0)

mount_from_device(t) ==
  /\ In(t, "open")
  /\ \/ \E h \in Fs \ mounted :
          /\ mounted' = mounted \cup {h}
          /\ Succeed(t, h, 0)
          /\ UNCHANGED iter
     \/ \E e \in {"NotErofs", "BadSuperblock", "Block"} : Fail(t, errno_for(e), 0)

\* No caller unmounts below a call that is under way.  The slots stay as they are.
fs_erofs_umount(t, h) ==
  /\ Idle(t) /\ h \in mounted
  /\ \A u \in Thread : call[u].args.fs # h
  /\ mounted' = mounted \ {h}
  /\ UNCHANGED <<iter, last, call, answer>>

fs_erofs_get_volume_info(t) ==
  /\ Accepted(t) /\ call[t].args.op = "get_volume_info"
  /\ Succeed(t, 0, 0)
  /\ UNCHANGED <<mounted, iter>>

(***************************************************************************)
(* Calls on a path: lookup_path_bytes, then what the inode must be.        *)
(***************************************************************************)
Resolve(t) ==
  /\ Accepted(t) /\ call[t].args.op \in OnPath
  /\ LET found == Leads[call[t].args.path]
     IN \/ Fail(t, errno_for("Block"), 0)
        \/ found \in Error /\ Fail(t, errno_for(found), 0)
        \/ found \notin Error /\ Goto(t, "found", found)

Node(t) == Inode[call[t].nid]

\* The kind each function insists on, and the errno of another.
WrongKind(op, kind) ==
  CASE op = "dir_open" /\ kind # "dir" -> "ENOTDIR"
    [] op = "read_file" /\ kind # "reg" -> "EINVAL"
    [] op = "readlink" /\ kind # "link" -> "EINVAL"
    [] OTHER -> "OK"

RefuseKind(t) ==
  /\ In(t, "found")
  /\ LET errno == WrongKind(call[t].args.op, Node(t).kind)
     IN errno # "OK" /\ Fail(t, errno, 0)

Serving(t, op) ==
  In(t, "found") /\ call[t].args.op = op /\ WrongKind(op, Node(t).kind) = "OK"

fs_erofs_stat(t) ==
  Serving(t, "stat") /\ Succeed(t, call[t].nid, 0) /\ UNCHANGED <<mounted, iter>>

\* An image stores "." and ".."; the ABI's callers make their own.
NotDot(e) == e.name \notin {".", ".."}

dir_entry_to_abi(e) == [nid |-> e.nid, name |-> Cut[e.name]]

\* What is collected of the first k entries.
Collected(s) ==
  LET upto[k \in 0..Len(s)] ==
        IF k = 0 THEN <<>>
        ELSE IF NotDot(s[k]) THEN Append(upto[k - 1], dir_entry_to_abi(s[k]))
        ELSE upto[k - 1]
  IN upto

Listing(n) == Collected(Inode[n].entries)[Len(Inode[n].entries)]

fs_erofs_dir_open(t) ==
  /\ Serving(t, "dir_open")
  /\ \/ \E i \in {j \in Iter : iter[j] = NULL} :
          /\ iter' = [iter EXCEPT ![i] =
                        [of |-> call[t].nid, entries |-> Listing(call[t].nid),
                         position |-> 0, current |-> NULL, handed |-> <<>>, ended |-> FALSE]]
          /\ Succeed(t, i, 0)
          /\ UNCHANGED mounted
     \/ \E e \in {"Block", "BadDirent"} : Fail(t, errno_for(e), 0)

(***************************************************************************)
(* dir_next copies the entry into the iterator's own buffer, which the     *)
(* pointer it returns is to; null is the end.  It touches no last error.   *)
(* handed and ended are history: the entries given out, whether the end was.*)
(***************************************************************************)
\* Seeded fault: the end is found one entry early.
Ended_Early(r) == r.position + 1 >= Len(r.entries)

Ended(r) == r.position >= Len(r.entries)

fs_erofs_dir_next(t, i) ==
  /\ Idle(t) /\ iter[i] # NULL
  /\ LET r == iter[i]
         e == r.entries[r.position + 1]
     IN IF Ended(r) THEN
          /\ answer' = [answer EXCEPT ![t] = Ask("dir_next", NULL, i, 0, 0)]
          /\ iter' = [iter EXCEPT ![i].ended = TRUE]
        ELSE
          /\ iter' = [iter EXCEPT ![i].current = e, ![i].position = @ + 1,
                                  ![i].handed = Append(@, e)]
          /\ answer' = [answer EXCEPT ![t] = [Ask("dir_next", NULL, i, 0, 0) EXCEPT !.ret = e]]
  /\ UNCHANGED <<mounted, last, call>>

fs_erofs_dir_close(t, i) ==
  /\ Idle(t) /\ iter[i] # NULL
  /\ iter' = [iter EXCEPT ![i] = NULL]
  /\ UNCHANGED <<mounted, last, call, answer>>

(***************************************************************************)
(* The library fills its buffer exactly or fails, so what is asked of it   *)
(* is cut to what the file has.  A failed fill may have written a part.    *)
(***************************************************************************)
\* Seeded fault: the whole buffer is asked for.
ToRead_Uncut(size, off, len) == len

ToRead(size, off, len) ==
  IF off >= size THEN 0 ELSE IF len < size - off THEN len ELSE size - off

\* Filesystem::read_file: its range check, then blocks that may not be readable.
fs_erofs_read_file(t) ==
  /\ Serving(t, "read_file")
  /\ LET a == call[t].args
         n == ToRead(Node(t).size, a.off, a.len)
     IN \/ n = 0 /\ Succeed(t, 0, 0) /\ UNCHANGED <<mounted, iter>>
        \/ n > 0 /\ a.off + n > Node(t).size /\ Fail(t, errno_for("OutOfRange"), 0)
        \/ /\ n > 0 /\ a.off + n <= Node(t).size
           /\ \/ Succeed(t, n, n) /\ UNCHANGED <<mounted, iter>>
              \/ \E w \in 0..n, e \in {"Block", "BadInode"} : Fail(t, errno_for(e), w)

\* The target and its NUL.
Need(size) == size + 1

\* read_symlink_target reads into a buffer of its own; the caller's is written once.
fs_erofs_readlink(t) ==
  /\ Serving(t, "readlink")
  /\ LET size == Node(t).size
     IN \/ \E e \in {"Block", "BadInode"} : Fail(t, errno_for(e), 0)
        \/ call[t].args.len < Need(size) /\ Fail(t, "ERANGE", 0)
        \/ /\ call[t].args.len >= Need(size)
           /\ Succeed(t, size, size + 1)
           /\ UNCHANGED <<mounted, iter>>

(***************************************************************************)
(* A panic anywhere below ffi_guard is a failure like any other.           *)
(***************************************************************************)
Panicked(t) == ~Idle(t) /\ Fail(t, "EIO", 0)

Step(t) ==
  \/ RefuseNull(t) \/ OpenDevice(t) \/ mount_from_device(t)
  \/ fs_erofs_get_volume_info(t) \/ Resolve(t) \/ RefuseKind(t) \/ fs_erofs_stat(t)
  \/ fs_erofs_dir_open(t) \/ fs_erofs_read_file(t) \/ fs_erofs_readlink(t) \/ Panicked(t)

Next ==
  \E t \in Thread :
    \/ BeginCall(t) \/ Step(t)
    \/ \E h \in Fs : fs_erofs_umount(t, h)
    \/ \E i \in Iter : fs_erofs_dir_next(t, i) \/ fs_erofs_dir_close(t, i)

Spec == Init /\ [][Next]_vars
-----------------------------------------------------------------------------
\* What a call under way was asked for: the answer is not in yet.
Args ==
  [op : Reporting \cup {"none"}, fs : Fs \cup {NULL}, null : BOOLEAN, path : Path \cup {NULL},
   off : Nat, len : Nat, ret : {NULL}, wrote : {0}]

ApiTypeOK ==
  /\ mounted \subseteq Fs
  /\ last \in [Thread -> [errno : Errno, by : Reporting \cup {"none"}]]
  /\ call \in [Thread -> [at : {"idle", "args", "open", "found"},
                          nid : DOMAIN Inode \cup {NULL}, args : Args]]
  /\ DOMAIN answer = Thread
  /\ \A t \in Thread :
       /\ ~Idle(t) => call[t].args.op \in Reporting
       /\ Accepted(t) /\ call[t].args.op \in OnPath => call[t].args.path \in Path
       /\ In(t, "found") => call[t].nid \in DOMAIN Inode

\* A thread that asks right after a call of its own learns of that call: a failed
\* one left an errno and a message of its own, whatever other threads' calls did
\* meanwhile and however it failed, by a panic too; after one that succeeded both
\* are clear.
OwnFailureTold ==
  \A t \in Thread :
    LET a == answer[t]
    IN a.op \in Reporting =>
         /\ last[t].by = a.op
         /\ (last[t].errno # "OK") <=> (a.ret = NULL)

\* What a read or a readlink writes fits the caller's buffer.  A read comes back
\* empty only at the end of the file, or for an empty buffer, so that a loop of
\* reads ends at the file's size; a target is whole and ends in its NUL, or the
\* buffer was too small for the two and is as it was.
AnswersFitBuffer ==
  \A t \in Thread :
    LET a == answer[t]
        size == Inode[Leads[a.path]].size
    IN /\ a.wrote <= a.len
       /\ a.op = "read_file" /\ a.ret # NULL =>
            /\ a.wrote = a.ret /\ a.off + a.ret <= IF a.off > size THEN a.off ELSE size
            /\ a.ret = 0 => a.off >= size \/ a.len = 0
       /\ a.op = "read_file" /\ a.ret = NULL => last[t].errno # "ERANGE"
       /\ a.op = "readlink" /\ a.ret # NULL => a.ret = size /\ a.wrote = size + 1
       /\ a.op = "readlink" /\ last[t].errno = "ERANGE" => a.len <= size /\ a.wrote = 0

\* Whatever else is called meanwhile, and though the filesystem is unmounted, an
\* iterator hands out the directory's entries once each and in their order, without
\* the two dots; the pointer it gave is to the latest of them, and it says that it has
\* ended only when all are out.
IterationWhole ==
  \A i \in {j \in Iter : iter[j] # NULL} :
    LET r == iter[i]
        dir == Inode[r.of].entries
        real == {k \in DOMAIN dir : dir[k].name \notin {".", ".."}}
        Rank(k) == Cardinality({m \in real : m <= k})
    IN /\ Len(r.handed) <= Cardinality(real)
       /\ \A k \in real : Rank(k) <= Len(r.handed) =>
            r.handed[Rank(k)] = [nid |-> dir[k].nid, name |-> Cut[dir[k].name]]
       /\ r.handed # <<>> => r.current = r.handed[Len(r.handed)]
       /\ r.ended => Len(r.handed) = Cardinality(real)

\* tests/capi_dir.rs: "NULL from `_dir_next` means "end", not "error": the errno must
\* still read 0".
EndIsNoFailure ==
  \A t \in Thread :
    answer[t].op = "dir_next" /\ answer[t].ret = NULL => last[t].errno = "OK"

\* include/fs_erofs.h on a readlink that fails: "ENOENT for a missing path, EINVAL
\* for a path that is not a symlink, EIO otherwise", and ERANGE for a small buffer.
ReadlinkErrnos ==
  \A t \in Thread :
    answer[t].op = "readlink" /\ answer[t].ret = NULL =>
      last[t].errno \in {"ENOENT", "EINVAL", "EIO", "ERANGE"}
=============================================================================
