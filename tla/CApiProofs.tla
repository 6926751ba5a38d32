----------------------------- MODULE CApiProofs -----------------------------
(***************************************************************************)
(* OwnFailureTold for any threads, paths and image.  A call ends in one of *)
(* two ways: it fails, with an errno in its own slots, or it succeeds with *)
(* a handle, a length or an inode, and its slots as it cleared them.  Then *)
(* that answers fit their buffers, and that iterations are whole.          *)
(***************************************************************************)
EXTENDS CApi, FiniteSetTheorems, NaturalsInduction, WellFoundedInduction, TLAPS

\* A call under way has cleared its own slots and nobody has written them since.
ClearedWhileCalling ==
  \A t \in Thread : ~Idle(t) => /\ last[t].errno = "OK" /\ last[t].by = call[t].args.op
                                /\ answer[t].op = "none"

IInv == ApiTypeOK /\ ClearedWhileCalling /\ OwnFailureTold

LEMMA InitHolds == Init => IInv
<1> SUFFICES ASSUME Init PROVE IInv
  OBVIOUS
<1>1. ApiTypeOK
  BY DEF Init, ApiTypeOK, NoCall, Asked, Ask, None, Args, Idle, In, Accepted, Errno
<1>2. ClearedWhileCalling
  BY DEF Init, ClearedWhileCalling, NoCall, Idle, In
<1>3. OwnFailureTold
  BY DEF Init, OwnFailureTold, Asked, Ask, None, Reporting, OnPath
<1>4. QED
  BY <1>1, <1>2, <1>3 DEF IInv

\* A failed call is told of in its own slots.
LEMMA FailKeeps ==
  ASSUME NEW t \in Thread, IInv, ~Idle(t),
         NEW errno \in Errno \ {"OK"}, NEW wrote, Fail(t, errno, wrote)
  PROVE  IInv'
<1> USE DEF IInv
<1>1. /\ call' = [call EXCEPT ![t] = NoCall]
      /\ last' = [u \in Thread |-> IF u = t THEN [errno |-> errno, by |-> call[t].args.op]
                                   ELSE last[u]]
      /\ mounted' = mounted
  BY DEF Fail, Return, set_err, Slots
<1>2. /\ DOMAIN answer' = Thread
      /\ answer'[t].op = call[t].args.op /\ answer'[t].ret = NULL
      /\ \A u \in Thread \ {t} : answer'[u] = answer[u]
  BY DEF Fail, Return, ApiTypeOK, Args
<1>3. call[t].args.op \in Reporting
  BY DEF ApiTypeOK
<1>4. NoCall \in [at : {"idle", "args", "open", "found"}, nid : DOMAIN Inode \cup {NULL}, args : Args]
  BY DEF NoCall, Asked, Ask, None, Args
<1>5. /\ call'[t] = NoCall /\ \A u \in Thread \ {t} : call'[u] = call[u]
      /\ call' \in [Thread -> [at : {"idle", "args", "open", "found"},
                               nid : DOMAIN Inode \cup {NULL}, args : Args]]
  BY <1>1, <1>4 DEF ApiTypeOK
<1>6. /\ last'[t] = [errno |-> errno, by |-> call[t].args.op]
      /\ \A u \in Thread \ {t} : last'[u] = last[u]
      /\ last' \in [Thread -> [errno : Errno, by : Reporting \cup {"none"}]]
  BY <1>1, <1>3 DEF ApiTypeOK
<1>7. ApiTypeOK'
  BY <1>1, <1>2, <1>5, <1>6 DEF ApiTypeOK, Idle, In, Accepted, NoCall
<1>8. ClearedWhileCalling'
  BY <1>2, <1>5, <1>6 DEF ClearedWhileCalling, Idle, In, NoCall
<1>9. OwnFailureTold'
  BY <1>2, <1>3, <1>6 DEF OwnFailureTold
<1>10. QED
  BY <1>7, <1>8, <1>9

\* A call that succeeds leaves the slots as it cleared them.
LEMMA SucceedKeeps ==
  ASSUME NEW t \in Thread, IInv, ~Idle(t), NEW ret, ret # NULL, NEW wrote,
         Succeed(t, ret, wrote), mounted' \subseteq Fs
  PROVE  IInv'
<1> USE DEF IInv
<1>1. call' = [call EXCEPT ![t] = NoCall] /\ last' = last
  BY DEF Succeed, Return
<1>2. /\ DOMAIN answer' = Thread
      /\ answer'[t].op = call[t].args.op /\ answer'[t].ret = ret
      /\ \A u \in Thread \ {t} : answer'[u] = answer[u]
  BY DEF Succeed, Return, ApiTypeOK, Args
<1>3. call[t].args.op \in Reporting
  BY DEF ApiTypeOK
<1>4. NoCall \in [at : {"idle", "args", "open", "found"}, nid : DOMAIN Inode \cup {NULL}, args : Args]
  BY DEF NoCall, Asked, Ask, None, Args
<1>5. /\ call'[t] = NoCall /\ \A u \in Thread \ {t} : call'[u] = call[u]
      /\ call' \in [Thread -> [at : {"idle", "args", "open", "found"},
                               nid : DOMAIN Inode \cup {NULL}, args : Args]]
  BY <1>1, <1>4 DEF ApiTypeOK
<1>6. last[t].errno = "OK" /\ last[t].by = call[t].args.op
  BY DEF ClearedWhileCalling
<1>7. ApiTypeOK'
  BY <1>1, <1>2, <1>5 DEF ApiTypeOK, Idle, In, Accepted, NoCall
<1>8. ClearedWhileCalling'
  BY <1>1, <1>2, <1>5 DEF ClearedWhileCalling, Idle, In, NoCall
<1>9. OwnFailureTold'
  BY <1>1, <1>2, <1>3, <1>6 DEF OwnFailureTold
<1>10. QED
  BY <1>7, <1>8, <1>9

\* A call that goes on stays the call it was.
LEMMA GotoKeeps ==
  ASSUME NEW t \in Thread, IInv, ~Idle(t),
         NEW stage \in {"open", "found"}, NEW nid \in DOMAIN Inode \cup {NULL},
         stage = "found" => nid \in DOMAIN Inode, Goto(t, stage, nid)
  PROVE  IInv'
<1> USE DEF IInv
<1>1. /\ call' = [call EXCEPT ![t] = [at |-> stage, nid |-> nid, args |-> call[t].args]]
      /\ UNCHANGED <<mounted, last, answer>>
  BY DEF Goto, ApiTypeOK
<1>2. /\ call'[t].at = stage /\ call'[t].nid = nid /\ call'[t].args = call[t].args
      /\ \A u \in Thread \ {t} : call'[u] = call[u]
      /\ call' \in [Thread -> [at : {"idle", "args", "open", "found"},
                               nid : DOMAIN Inode \cup {NULL}, args : Args]]
  BY <1>1 DEF ApiTypeOK
<1>3. ApiTypeOK'
  BY <1>1, <1>2 DEF ApiTypeOK, Idle, In, Accepted
<1>4. ClearedWhileCalling'
  BY <1>1, <1>2 DEF ClearedWhileCalling, Idle, In
<1>5. OwnFailureTold'
  BY <1>1 DEF OwnFailureTold
<1>6. QED
  BY <1>3, <1>4, <1>5

LEMMA BeginKeeps ==
  ASSUME NEW t \in Thread, IInv, NEW args \in Args, args.op \in Reporting,
         args.op \in OnPath /\ ~args.null => args.path \in Path, Begin(t, args)
  PROVE  IInv'
<1> USE DEF IInv
<1>1. /\ call' = [call EXCEPT ![t] = [at |-> "args", nid |-> NULL, args |-> args]]
      /\ answer' = [answer EXCEPT ![t] = None]
      /\ last' = [u \in Thread |-> IF u = t THEN [errno |-> "OK", by |-> args.op] ELSE last[u]]
      /\ mounted' = mounted
  BY DEF Begin, clear_last_error, set_err, Slots
<1>2. /\ call'[t] = [at |-> "args", nid |-> NULL, args |-> args]
      /\ \A u \in Thread \ {t} : call'[u] = call[u]
      /\ call' \in [Thread -> [at : {"idle", "args", "open", "found"},
                               nid : DOMAIN Inode \cup {NULL}, args : Args]]
  BY <1>1 DEF ApiTypeOK
<1>3. /\ DOMAIN answer' = Thread /\ answer'[t].op = "none"
      /\ \A u \in Thread \ {t} : answer'[u] = answer[u]
  BY <1>1 DEF ApiTypeOK, Asked, Ask, None
<1>4. /\ last'[t] = [errno |-> "OK", by |-> args.op]
      /\ \A u \in Thread \ {t} : last'[u] = last[u]
      /\ last' \in [Thread -> [errno : Errno, by : Reporting \cup {"none"}]]
  BY <1>1 DEF ApiTypeOK, Errno
<1>5. ApiTypeOK'
  BY <1>1, <1>2, <1>3, <1>4 DEF ApiTypeOK, Idle, In, Accepted
<1>6. ClearedWhileCalling'
  BY <1>2, <1>3, <1>4 DEF ClearedWhileCalling, Idle, In
<1>7. OwnFailureTold'
  BY <1>3, <1>4 DEF OwnFailureTold, Reporting, OnPath
<1>8. QED
  BY <1>5, <1>6, <1>7

LEMMA Apart ==
  /\ NULL \notin Fs /\ NULL \notin Iter /\ NULL \notin Path /\ NULL \notin DOMAIN Inode
  /\ \A n \in Nat : n # NULL
  /\ \A n \in DOMAIN Inode : Inode[n].size \in Nat
  /\ \A p \in Path : Leads[p] \in DOMAIN Inode \cup Error
BY ApiAssumption DEF ApiAssumption

LEMMA BeginCallKeeps ==
  ASSUME NEW t \in Thread, IInv, BeginCall(t)
  PROVE  IInv'
<1>1. mounted \subseteq Fs /\ Offset \subseteq Nat /\ Length \subseteq Nat
  BY ApiAssumption DEF ApiAssumption, IInv, ApiTypeOK
<1>2. {"mount", "get_volume_info", "stat", "dir_open", "read_file", "readlink"} = Reporting
  BY DEF Reporting, OnPath
<1>3. CASE \E op \in Reporting : Begin(t, Asked(op, TRUE, NULL, NULL, 0, 0))
  <2>1. PICK op \in Reporting : Begin(t, Asked(op, TRUE, NULL, NULL, 0, 0))
    BY <1>3
  <2> DEFINE args == Asked(op, TRUE, NULL, NULL, 0, 0)
  <2>2. args \in Args /\ args.op = op /\ args.null = TRUE
    BY DEF Asked, Args
  <2>3. QED
    BY <2>1, <2>2, BeginKeeps
<1>4. CASE Begin(t, Ask("mount", NULL, NULL, 0, 0))
  <2> DEFINE args == Asked("mount", FALSE, NULL, NULL, 0, 0)
  <2>1. "mount" \in Reporting /\ "mount" \notin OnPath
    BY DEF Reporting, OnPath
  <2>2. args \in Args /\ args.op = "mount"
    BY <2>1 DEF Asked, Args
  <2>3. Begin(t, args)
    BY <1>4 DEF Ask
  <2> HIDE DEF args
  <2>4. QED
    BY <2>1, <2>2, <2>3, BeginKeeps
<1>5. CASE \E h \in mounted : Begin(t, Ask("get_volume_info", h, NULL, 0, 0))
  <2>1. PICK h \in mounted : Begin(t, Ask("get_volume_info", h, NULL, 0, 0))
    BY <1>5
  <2> DEFINE args == Asked("get_volume_info", FALSE, h, NULL, 0, 0)
  <2>2. "get_volume_info" \in Reporting /\ "get_volume_info" \notin OnPath
    BY DEF Reporting, OnPath
  <2>3. args \in Args /\ args.op = "get_volume_info"
    BY <1>1, <2>2 DEF Asked, Args
  <2>4. Begin(t, args)
    BY <2>1 DEF Ask
  <2> HIDE DEF args
  <2>5. QED
    BY <2>2, <2>3, <2>4, BeginKeeps
<1>6. CASE \E h \in mounted, p \in Path, op \in Reporting, off \in Nat, len \in Nat :
             Begin(t, Ask(op, h, p, off, len))
  <2>1. PICK h \in mounted, p \in Path, op \in Reporting, off \in Nat, len \in Nat :
             Begin(t, Ask(op, h, p, off, len))
    BY <1>6
  <2> DEFINE args == Asked(op, FALSE, h, p, off, len)
  <2>2. args \in Args /\ args.op = op /\ args.path = p
    BY <1>1 DEF Asked, Args
  <2>3. Begin(t, args)
    BY <2>1 DEF Ask
  <2> HIDE DEF args
  <2>4. QED
    BY <2>2, <2>3, BeginKeeps
<1>7. QED
  <2>1. CASE \E h \in mounted, p \in Path :
               \/ \E op \in {"stat", "dir_open"} : Begin(t, Ask(op, h, p, 0, 0))
               \/ \E off \in Offset, len \in Length : Begin(t, Ask("read_file", h, p, off, len))
               \/ \E len \in Length : Begin(t, Ask("readlink", h, p, 0, len))
    BY <2>1, <1>1, <1>2, <1>6
  <2>2. QED
    BY <2>1, <1>3, <1>4, <1>5 DEF BeginCall

\* Every step inside a call is a failure, a success or a step on.
LEMMA StepKeeps ==
  ASSUME NEW t \in Thread, IInv, Step(t)
  PROVE  IInv'
<1>0. /\ NULL \notin Fs /\ NULL \notin Iter /\ NULL \notin DOMAIN Inode
      /\ \A n \in Nat : n # NULL
      /\ \A n \in DOMAIN Inode : Inode[n].size \in Nat
      /\ \A p \in Path : Leads[p] \in DOMAIN Inode \cup Error
  BY Apart
<1>1. /\ mounted \subseteq Fs
      /\ call[t].at = "found" => call[t].nid \in DOMAIN Inode
  BY DEF IInv, ApiTypeOK, In
<1>2. \A e : errno_for(e) \in Errno \ {"OK"}
  BY DEF errno_for, Errno
<1>3. \A kind : errno_for_open_failure(kind) \in Errno \ {"OK"}
  BY DEF errno_for_open_failure, Errno
<1>4. \A op, kind : WrongKind(op, kind) \in Errno
  BY DEF WrongKind, Errno
<1>5. CASE RefuseNull(t)
  <2>1. ~Idle(t) /\ Fail(t, "EINVAL", 0) /\ "EINVAL" \in Errno \ {"OK"}
    BY <1>5 DEF RefuseNull, In, Idle, Errno
  <2>2. QED
    BY <2>1, FailKeeps
<1>6. CASE OpenDevice(t)
  <2>1. ~Idle(t)
    BY <1>6 DEF OpenDevice, Accepted, In, Idle
  <2>2. CASE Goto(t, "open", NULL)
    BY <2>1, <2>2, GotoKeeps
  <2>3. CASE \E kind \in {"NotFound", "PermissionDenied", "other"} :
               Fail(t, errno_for_open_failure(kind), 0)
    BY <2>1, <2>3, <1>3, FailKeeps
  <2>4. QED
    BY <1>6, <2>2, <2>3 DEF OpenDevice
<1>7. CASE mount_from_device(t)
  <2>1. ~Idle(t)
    BY <1>7 DEF mount_from_device, In, Idle
  <2>2. CASE \E h \in Fs \ mounted : mounted' = mounted \cup {h} /\ Succeed(t, h, 0)
    <3>1. PICK h \in Fs \ mounted : mounted' = mounted \cup {h} /\ Succeed(t, h, 0)
      BY <2>2
    <3>2. h # NULL /\ mounted' \subseteq Fs
      BY <3>1, <1>0, <1>1
    <3>3. QED
      BY <3>1, <3>2, <2>1, SucceedKeeps
  <2>3. CASE \E e \in {"NotErofs", "BadSuperblock", "Block"} : Fail(t, errno_for(e), 0)
    BY <2>1, <2>3, <1>2, FailKeeps
  <2>4. QED
    BY <1>7, <2>2, <2>3 DEF mount_from_device
<1>8. CASE fs_erofs_get_volume_info(t)
  <2>1. ~Idle(t) /\ Succeed(t, 0, 0) /\ mounted' \subseteq Fs /\ 0 # NULL
    BY <1>8, <1>0, <1>1 DEF fs_erofs_get_volume_info, Accepted, In, Idle
  <2>2. QED
    BY <2>1, SucceedKeeps
<1>9. CASE Resolve(t)
  <2> DEFINE found == Leads[call[t].args.path]
  <2>1. ~Idle(t)
    BY <1>9 DEF Resolve, Accepted, In, Idle
  <2>2. CASE Fail(t, errno_for("Block"), 0) \/ Fail(t, errno_for(found), 0)
    BY <2>1, <2>2, <1>2, FailKeeps
  <2>3. CASE found \in DOMAIN Inode /\ Goto(t, "found", found)
    BY <2>1, <2>3, GotoKeeps
  <2>4. found \in DOMAIN Inode \cup Error
    BY <1>9, <1>0 DEF Resolve, IInv, ApiTypeOK
  <2>5. QED
    BY <1>9, <2>2, <2>3, <2>4 DEF Resolve
<1>10. CASE RefuseKind(t)
  <2> DEFINE errno == WrongKind(call[t].args.op, Node(t).kind)
  <2>1. ~Idle(t) /\ errno \in Errno \ {"OK"} /\ Fail(t, errno, 0)
    BY <1>10, <1>4 DEF RefuseKind, In, Idle
  <2>2. QED
    BY <2>1, FailKeeps
<1>11. CASE fs_erofs_stat(t)
  <2>1. /\ ~Idle(t) /\ call[t].nid # NULL
        /\ Succeed(t, call[t].nid, 0) /\ mounted' \subseteq Fs
    BY <1>11, <1>0, <1>1 DEF fs_erofs_stat, Serving, In, Idle
  <2>2. QED
    BY <2>1, SucceedKeeps
<1>12. CASE fs_erofs_dir_open(t)
  <2>1. ~Idle(t)
    BY <1>12 DEF fs_erofs_dir_open, Serving, In, Idle
  <2>2. CASE \E i \in Iter : Succeed(t, i, 0) /\ mounted' = mounted
    <3>1. PICK i \in Iter : Succeed(t, i, 0) /\ mounted' = mounted
      BY <2>2
    <3>2. i # NULL /\ mounted' \subseteq Fs
      BY <3>1, <1>0, <1>1
    <3>3. QED
      BY <3>1, <3>2, <2>1, SucceedKeeps
  <2>3. CASE \E e \in {"Block", "BadDirent"} : Fail(t, errno_for(e), 0)
    BY <2>1, <2>3, <1>2, FailKeeps
  <2>4. QED
    BY <1>12, <2>2, <2>3 DEF fs_erofs_dir_open
<1>13. CASE fs_erofs_read_file(t)
  <2> DEFINE n == ToRead(Node(t).size, call[t].args.off, call[t].args.len)
  <2>1. ~Idle(t) /\ call[t].nid \in DOMAIN Inode
    BY <1>13, <1>1 DEF fs_erofs_read_file, Serving, In, Idle
  <2>2. n \in Nat /\ n # NULL
    <3>1. Node(t).size \in Nat
      BY <2>1, <1>0 DEF Node
    <3>2. call[t].args.off \in Nat /\ call[t].args.len \in Nat
      BY DEF IInv, ApiTypeOK, Args
    <3>3. n \in Nat
      BY <3>1, <3>2 DEF ToRead
    <3>4. QED
      BY <3>3, <1>0
  <2>3. CASE n = 0 /\ Succeed(t, 0, 0) /\ UNCHANGED <<mounted, iter>>
    BY <2>1, <2>2, <2>3, <1>1, SucceedKeeps
  <2>4. CASE Fail(t, errno_for("OutOfRange"), 0)
    BY <2>1, <2>4, <1>2, FailKeeps
  <2>5. CASE Succeed(t, n, n) /\ UNCHANGED <<mounted, iter>>
    BY <2>1, <2>2, <2>5, <1>1, SucceedKeeps
  <2>6. CASE \E w \in 0..n, e \in {"Block", "BadInode"} : Fail(t, errno_for(e), w)
    BY <2>1, <2>6, <1>2, FailKeeps
  <2>7. QED
    BY <1>13, <2>3, <2>4, <2>5, <2>6 DEF fs_erofs_read_file
<1>14. CASE fs_erofs_readlink(t)
  <2>1. ~Idle(t) /\ Node(t).size \in Nat
    BY <1>14, <1>0, <1>1 DEF fs_erofs_readlink, Serving, In, Idle, Node
  <2>2. CASE \E e \in {"Block", "BadInode"} : Fail(t, errno_for(e), 0)
    BY <2>1, <2>2, <1>2, FailKeeps
  <2>3. CASE Fail(t, "ERANGE", 0)
    <3>1. "ERANGE" \in Errno \ {"OK"}
      BY DEF Errno
    <3>2. QED
      BY <2>1, <2>3, <3>1, FailKeeps
  <2>4. CASE Succeed(t, Node(t).size, Node(t).size + 1) /\ UNCHANGED <<mounted, iter>>
    <3>1. Node(t).size # NULL /\ mounted' \subseteq Fs
      BY <2>1, <2>4, <1>0, <1>1
    <3>2. QED
      BY <3>1, <2>1, <2>4, SucceedKeeps
  <2>5. QED
    BY <1>14, <2>2, <2>3, <2>4 DEF fs_erofs_readlink
<1>15. CASE Panicked(t)
  <2>1. ~Idle(t) /\ Fail(t, "EIO", 0) /\ "EIO" \in Errno \ {"OK"}
    BY <1>15 DEF Panicked, Errno
  <2>2. QED
    BY <2>1, FailKeeps
<1>16. QED
  BY <1>5, <1>6, <1>7, <1>8, <1>9, <1>10, <1>11, <1>12, <1>13, <1>14, <1>15 DEF Step

\* The calls that report nothing disturb no slot.
LEMMA SilentKeeps ==
  ASSUME NEW t \in Thread, IInv,
         \/ \E h \in Fs : fs_erofs_umount(t, h)
         \/ \E i \in Iter : fs_erofs_dir_next(t, i) \/ fs_erofs_dir_close(t, i)
  PROVE  IInv'
<1> USE DEF IInv
<1>1. /\ UNCHANGED <<last, call>> /\ mounted' \subseteq Fs
      /\ \/ answer' = answer
         \/ \E i : answer' = [answer EXCEPT ![t] = Ask("dir_next", NULL, i, 0, 0)]
         \/ \E i, e : answer' = [answer EXCEPT ![t] = [Ask("dir_next", NULL, i, 0, 0) EXCEPT !.ret = e]]
  BY DEF fs_erofs_umount, fs_erofs_dir_next, fs_erofs_dir_close, ApiTypeOK
<1>2. /\ DOMAIN answer' = Thread
      /\ \A u \in Thread \ {t} : answer'[u] = answer[u]
      /\ answer' = answer \/ (answer'[t].op = "dir_next" /\ Idle(t))
  <2>1. \A i : Ask("dir_next", NULL, i, 0, 0).op = "dir_next"
    BY DEF Asked, Ask
  <2>2. \A i, e : [Ask("dir_next", NULL, i, 0, 0) EXCEPT !.ret = e].op = "dir_next"
    BY DEF Asked, Ask
  <2>3. Idle(t)
    BY DEF fs_erofs_umount, fs_erofs_dir_next, fs_erofs_dir_close
  <2>4. CASE answer' = answer
    BY <2>4 DEF ApiTypeOK
  <2>5. CASE \E i : answer' = [answer EXCEPT ![t] = Ask("dir_next", NULL, i, 0, 0)]
    <3>1. PICK i : answer' = [answer EXCEPT ![t] = Ask("dir_next", NULL, i, 0, 0)]
      BY <2>5
    <3>2. /\ DOMAIN answer' = Thread /\ answer'[t] = Ask("dir_next", NULL, i, 0, 0)
          /\ \A u \in Thread \ {t} : answer'[u] = answer[u]
      BY <3>1 DEF ApiTypeOK
    <3>3. QED
      BY <3>2, <2>1, <2>3
  <2>6. CASE \E i, e : answer' = [answer EXCEPT ![t] =
                                     [Ask("dir_next", NULL, i, 0, 0) EXCEPT !.ret = e]]
    <3>1. PICK i, e : answer' = [answer EXCEPT ![t] =
                                   [Ask("dir_next", NULL, i, 0, 0) EXCEPT !.ret = e]]
      BY <2>6
    <3>2. /\ DOMAIN answer' = Thread
          /\ answer'[t] = [Ask("dir_next", NULL, i, 0, 0) EXCEPT !.ret = e]
          /\ \A u \in Thread \ {t} : answer'[u] = answer[u]
      BY <3>1 DEF ApiTypeOK
    <3>3. QED
      BY <3>2, <2>2, <2>3
  <2>7. QED
    BY <1>1, <2>4, <2>5, <2>6
<1>3. ApiTypeOK'
  BY <1>1, <1>2 DEF ApiTypeOK, Idle, In, Accepted
<1>4. ClearedWhileCalling'
  BY <1>1, <1>2 DEF ClearedWhileCalling, Idle, In
<1>5. OwnFailureTold'
  BY <1>1, <1>2 DEF OwnFailureTold, Reporting, OnPath
<1>6. QED
  BY <1>3, <1>4, <1>5

LEMMA NextKeeps == IInv /\ [Next]_vars => IInv'
<1> SUFFICES ASSUME IInv, [Next]_vars PROVE IInv'
  OBVIOUS
<1>1. CASE Next
  BY <1>1, BeginCallKeeps, StepKeeps, SilentKeeps DEF Next
<1>2. CASE UNCHANGED vars
  BY <1>2 DEF vars, IInv, ApiTypeOK, ClearedWhileCalling, OwnFailureTold, Idle, In, Accepted
<1>3. QED
  BY <1>1, <1>2

\* A thread that asks right after a failed call of its own learns of that call, and
\* after one that succeeded finds the slots clear, whatever others do (capi.rs).
THEOREM FailureTold == Spec => []OwnFailureTold
<1>1. IInv => OwnFailureTold
  BY DEF IInv
<1>2. QED
  BY InitHolds, NextKeeps, <1>1, PTL DEF Spec

\* Every slot, call and handle has the type its declaration says (capi.rs).
THEOREM ApiTypeCorrect == Spec => []ApiTypeOK
<1>1. IInv => ApiTypeOK
  BY DEF IInv
<1>2. QED
  BY InitHolds, NextKeeps, <1>1, PTL DEF Spec
-----------------------------------------------------------------------------
(***************************************************************************)
(* AnswersFitBuffer, thread by thread: what the answer a may be when the   *)
(* thread's errno is e.  LedByPath is what makes it inductive: the inode a *)
(* call goes on with is the one its path leads to, and only mounts open.   *)
(***************************************************************************)
Fits(a, e) ==
  LET size == Inode[Leads[a.path]].size
  IN /\ a.wrote <= a.len
     /\ a.op = "read_file" /\ a.ret # NULL =>
          /\ a.wrote = a.ret /\ a.off + a.ret <= IF a.off > size THEN a.off ELSE size
          /\ a.ret = 0 => a.off >= size \/ a.len = 0
     /\ a.op = "read_file" /\ a.ret = NULL => e # "ERANGE"
     /\ a.op = "readlink" /\ a.ret # NULL => a.ret = size /\ a.wrote = size + 1
     /\ a.op = "readlink" /\ e = "ERANGE" => a.len <= size /\ a.wrote = 0

LedByPath ==
  \A t \in Thread :
    /\ In(t, "found") => call[t].nid = Leads[call[t].args.path]
    /\ In(t, "open") => call[t].args.op = "mount"

FitInv == LedByPath /\ \A t \in Thread : Fits(answer[t], last[t].errno)

LEMMA FitsAll == FitInv => AnswersFitBuffer
  BY DEF FitInv, Fits, AnswersFitBuffer

LEMMA NoneFits == \A e : Fits(None, e)
  BY DEF Fits, None, Ask, Asked

LEMMA InitFits == Init => FitInv
  BY NoneFits DEF Init, FitInv, LedByPath, In, NoCall

\* A call that fails: only for what it has checked is it out of range.
LEMMA FailFits ==
  ASSUME NEW t \in Thread, IInv, FitInv, ~Idle(t), NEW errno, NEW wrote \in Nat,
         Fail(t, errno, wrote), wrote <= call[t].args.len,
         errno = "ERANGE" =>
           /\ call[t].args.op # "read_file"
           /\ call[t].args.op = "readlink" =>
                call[t].args.len <= Inode[Leads[call[t].args.path]].size /\ wrote = 0
  PROVE  FitInv'
<1> DEFINE a == [call[t].args EXCEPT !.ret = NULL, !.wrote = wrote]
<1>1. /\ call'[t] = NoCall /\ \A u \in Thread \ {t} : call'[u] = call[u]
      /\ answer'[t] = a /\ \A u \in Thread \ {t} : answer'[u] = answer[u]
      /\ last'[t].errno = errno /\ \A u \in Thread \ {t} : last'[u] = last[u]
  BY DEF Fail, Return, set_err, Slots, IInv, ApiTypeOK
<1>2. call[t].args \in Args
  BY DEF IInv, ApiTypeOK
<1>3. /\ a.op = call[t].args.op /\ a.path = call[t].args.path /\ a.len = call[t].args.len
      /\ a.ret = NULL /\ a.wrote = wrote
  BY <1>2 DEF Args
<1>4. Fits(a, errno)
  BY <1>3 DEF Fits
<1>5. LedByPath'
  BY <1>1 DEF FitInv, LedByPath, In, NoCall
<1> QED BY <1>1, <1>4, <1>5 DEF FitInv

\* A call that succeeds leaves no errno.
LEMMA SucceedFits ==
  ASSUME NEW t \in Thread, IInv, FitInv, ~Idle(t), NEW ret, NEW wrote,
         Succeed(t, ret, wrote), ret # NULL,
         Fits([call[t].args EXCEPT !.ret = ret, !.wrote = wrote], "OK")
  PROVE  FitInv'
<1> DEFINE a == [call[t].args EXCEPT !.ret = ret, !.wrote = wrote]
<1>1. /\ call'[t] = NoCall /\ \A u \in Thread \ {t} : call'[u] = call[u]
      /\ answer'[t] = a /\ \A u \in Thread \ {t} : answer'[u] = answer[u]
      /\ last' = last
  BY DEF Succeed, Return, IInv, ApiTypeOK
<1>2. last[t].errno = "OK"
  BY DEF IInv, ClearedWhileCalling
<1>3. LedByPath'
  BY <1>1 DEF FitInv, LedByPath, In, NoCall
<1> QED BY <1>1, <1>2, <1>3 DEF FitInv

\* Any call may answer with no bytes but those that read into a buffer.
LEMMA EmptyFits ==
  ASSUME NEW t \in Thread, IInv, FitInv, ~Idle(t), NEW ret,
         call[t].args.op \notin {"read_file", "readlink"}, Succeed(t, ret, 0), ret # NULL
  PROVE  FitInv'
<1> DEFINE a == [call[t].args EXCEPT !.ret = ret, !.wrote = 0]
<1>1. call[t].args \in Args
  BY DEF IInv, ApiTypeOK
<1>2. a.op = call[t].args.op /\ a.wrote = 0 /\ a.len \in Nat
  BY <1>1 DEF Args
<1>3. Fits(a, "OK")
  BY <1>2 DEF Fits
<1> QED BY <1>3, SucceedFits

LEMMA GotoFits ==
  ASSUME NEW t \in Thread, IInv, FitInv, NEW stage, NEW nid, Goto(t, stage, nid),
         stage = "found" => nid = Leads[call[t].args.path],
         stage = "open" => call[t].args.op = "mount"
  PROVE  FitInv'
<1>1. /\ call'[t] = [at |-> stage, nid |-> nid, args |-> call[t].args]
      /\ \A u \in Thread \ {t} : call'[u] = call[u]
      /\ UNCHANGED <<last, answer>>
  BY DEF Goto, IInv, ApiTypeOK
<1> QED BY <1>1 DEF FitInv, LedByPath, In

LEMMA BeginFits ==
  ASSUME NEW t \in Thread, IInv, FitInv, NEW args, Begin(t, args)
  PROVE  FitInv'
<1>1. /\ call'[t] = [at |-> "args", nid |-> NULL, args |-> args]
      /\ \A u \in Thread \ {t} : call'[u] = call[u]
      /\ answer'[t] = None /\ \A u \in Thread \ {t} : answer'[u] = answer[u]
      /\ \A u \in Thread \ {t} : last'[u] = last[u]
  BY DEF Begin, clear_last_error, set_err, Slots, IInv, ApiTypeOK
<1> QED BY <1>1, NoneFits DEF FitInv, LedByPath, In

\* What a read asks the library for is within the file and the buffer.
LEMMA ToReadFacts ==
  ASSUME NEW size \in Nat, NEW off \in Nat, NEW len \in Nat
  PROVE  LET n == ToRead(size, off, len)
         IN /\ n \in Nat /\ n <= len
            /\ n > 0 => off + n <= size
            /\ off + n <= IF off > size THEN off ELSE size
            /\ n = 0 => off >= size \/ len = 0
  BY DEF ToRead

LEMMA StepFits ==
  ASSUME NEW t \in Thread, IInv, FitInv, Step(t)
  PROVE  FitInv'
<1> DEFINE args == call[t].args
           fs == Inode[call[t].nid].size
<1>1. /\ args \in Args /\ args.off \in Nat /\ args.len \in Nat
      /\ ~Idle(t) => args.op \in Reporting
  BY DEF IInv, ApiTypeOK, Args
<1>2. ASSUME ~Idle(t), NEW errno, errno # "ERANGE", Fail(t, errno, 0) PROVE FitInv'
  BY <1>1, <1>2, FailFits
<1>3. In(t, "found") => /\ ~Idle(t) /\ call[t].nid \in DOMAIN Inode /\ fs \in Nat
                        /\ call[t].nid = Leads[args.path] /\ call[t].nid # NULL
  BY Apart DEF IInv, ApiTypeOK, In, Idle, FitInv, LedByPath
<1>4. /\ \A e : e # "OutOfRange" => errno_for(e) # "ERANGE"
      /\ \A kind : errno_for_open_failure(kind) # "ERANGE"
      /\ \A op, kind : WrongKind(op, kind) # "ERANGE"
  BY DEF errno_for, errno_for_open_failure, WrongKind
<1>5. CASE RefuseNull(t)
  BY <1>2, <1>5 DEF RefuseNull, In, Idle
<1>6. CASE OpenDevice(t)
  <2>1. ~Idle(t) /\ args.op = "mount"
    BY <1>6 DEF OpenDevice, Accepted, In, Idle
  <2>2. CASE Goto(t, "open", NULL)
    BY <2>1, <2>2, GotoFits
  <2> QED BY <1>2, <1>4, <1>6, <2>1, <2>2 DEF OpenDevice
<1>7. CASE mount_from_device(t)
  <2>1. ~Idle(t) /\ args.op \notin {"read_file", "readlink"}
    BY <1>7 DEF mount_from_device, In, Idle, FitInv, LedByPath
  <2>2. CASE \E h \in Fs : Succeed(t, h, 0)
    BY <2>1, <2>2, Apart, EmptyFits
  <2> QED BY <1>2, <1>4, <1>7, <2>1, <2>2 DEF mount_from_device
<1>8. CASE fs_erofs_get_volume_info(t)
  BY <1>8, Apart, EmptyFits DEF fs_erofs_get_volume_info, Accepted, In, Idle
<1>9. CASE Resolve(t)
  <2> DEFINE found == Leads[args.path]
  <2>1. ~Idle(t) /\ found # "OutOfRange"
    BY <1>9, ApiAssumption DEF ApiAssumption, Resolve, Accepted, In, Idle, IInv, ApiTypeOK
  <2>2. CASE Goto(t, "found", found)
    BY <2>2, GotoFits
  <2> QED BY <1>2, <1>4, <1>9, <2>1, <2>2 DEF Resolve
<1>10. CASE RefuseKind(t)
  BY <1>2, <1>3, <1>4, <1>10 DEF RefuseKind
<1>11. CASE fs_erofs_stat(t)
  BY <1>3, <1>11, EmptyFits DEF fs_erofs_stat, Serving
<1>12. CASE fs_erofs_dir_open(t)
  <2>1. ~Idle(t) /\ args.op = "dir_open"
    BY <1>3, <1>12 DEF fs_erofs_dir_open, Serving
  <2>2. CASE \E i \in Iter : Succeed(t, i, 0)
    BY <2>1, <2>2, Apart, EmptyFits
  <2> QED BY <1>2, <1>4, <1>12, <2>1, <2>2 DEF fs_erofs_dir_open
<1>13. CASE fs_erofs_read_file(t)
  <2> DEFINE n == ToRead(fs, args.off, args.len)
             a == [args EXCEPT !.ret = n, !.wrote = n]
  <2>1. ~Idle(t) /\ args.op = "read_file" /\ fs \in Nat /\ fs = Inode[Leads[args.path]].size
    BY <1>3, <1>13 DEF fs_erofs_read_file, Serving
  <2>2. /\ n \in Nat /\ n <= args.len
        /\ n > 0 => args.off + n <= fs
        /\ args.off + n <= IF args.off > fs THEN args.off ELSE fs
        /\ n = 0 => args.off >= fs \/ args.len = 0
    BY <1>1, <2>1, ToReadFacts
  <2>3. \/ Succeed(t, n, n)
        \/ \E w \in 0..n, e \in {"Block", "BadInode"} : Fail(t, errno_for(e), w)
    <3>1. \/ n = 0 /\ Succeed(t, 0, 0)
          \/ n > 0 /\ args.off + n > fs
          \/ Succeed(t, n, n)
          \/ \E w \in 0..n, e \in {"Block", "BadInode"} : Fail(t, errno_for(e), w)
      BY <1>13 DEF fs_erofs_read_file, Node
    <3> HIDE DEF n, args, fs
    <3>2. n > 0 => ~(args.off + n > fs)
      BY <1>1, <2>1, <2>2
    <3> QED BY <3>1, <3>2
  <2>4. CASE Succeed(t, n, n)
    <3>1. /\ a.op = "read_file" /\ a.path = args.path /\ a.len = args.len /\ a.off = args.off
          /\ a.ret = n /\ a.wrote = n
      BY <1>1, <2>1 DEF Args
    <3> HIDE DEF a, n
    <3>2. n # NULL
      BY <2>2, Apart
    <3>3. Fits(a, "OK")
      BY <2>1, <2>2, <3>1, <3>2 DEF Fits
    <3> QED BY <2>1, <2>4, <3>2, <3>3, SucceedFits DEF a
  <2>5. CASE \E w \in 0..n, e \in {"Block", "BadInode"} : Fail(t, errno_for(e), w)
    <3>1. PICK w \in 0..n, e \in {"Block", "BadInode"} : Fail(t, errno_for(e), w)
      BY <2>5
    <3> HIDE DEF n
    <3>2. w \in Nat /\ w <= args.len /\ errno_for(e) # "ERANGE"
      BY <1>1, <1>4, <2>2, <3>1
    <3> QED BY <2>1, <3>1, <3>2, FailFits
  <2> QED BY <2>3, <2>4, <2>5
<1>14. CASE fs_erofs_readlink(t)
  <2> DEFINE a == [args EXCEPT !.ret = fs, !.wrote = fs + 1]
  <2>1. ~Idle(t) /\ args.op = "readlink" /\ fs \in Nat /\ fs = Inode[Leads[args.path]].size
    BY <1>3, <1>14 DEF fs_erofs_readlink, Serving
  <2>2. CASE \E e \in {"Block", "BadInode"} : Fail(t, errno_for(e), 0)
    BY <1>2, <1>4, <2>1, <2>2
  <2>3. CASE args.len < Need(fs) /\ Fail(t, "ERANGE", 0)
    <3>1. 0 <= args.len /\ args.len <= Inode[Leads[args.path]].size
      BY <1>1, <2>1, <2>3 DEF Need
    <3>2. ~Idle(t) /\ Fail(t, "ERANGE", 0) /\ args.op # "read_file"
      BY <2>1, <2>3
    <3> QED BY ONLY t \in Thread, IInv, FitInv, <3>1, <3>2, FailFits
  <2>4. CASE args.len >= Need(fs) /\ Succeed(t, fs, fs + 1)
    <3>1. /\ a.op = "readlink" /\ a.path = args.path /\ a.len = args.len
          /\ a.ret = fs /\ a.wrote = fs + 1
      BY <1>1, <2>1 DEF Args
    <3>2. fs # NULL /\ fs + 1 <= args.len
      BY <1>1, <2>1, <2>4, Apart DEF Need
    <3>3. Fits(a, "OK")
      BY <2>1, <3>1, <3>2 DEF Fits
    <3> QED BY <2>1, <2>4, <3>2, <3>3, SucceedFits
  <2> QED BY <1>14, <2>2, <2>3, <2>4 DEF fs_erofs_readlink, Node
<1>15. CASE Panicked(t)
  BY <1>2, <1>15 DEF Panicked
<1> QED BY <1>5, <1>6, <1>7, <1>8, <1>9, <1>10, <1>11, <1>12, <1>13, <1>14, <1>15 DEF Step

LEMMA SilentFits ==
  ASSUME NEW t \in Thread, IInv, FitInv,
         \/ \E h \in Fs : fs_erofs_umount(t, h)
         \/ \E i \in Iter : fs_erofs_dir_next(t, i) \/ fs_erofs_dir_close(t, i)
  PROVE  FitInv'
<1>1. UNCHANGED <<last, call>>
  BY DEF fs_erofs_umount, fs_erofs_dir_next, fs_erofs_dir_close
<1>2. \A u \in Thread : Fits(answer'[u], last[u].errno)
  <2>1. CASE answer' = answer
    BY <2>1 DEF FitInv
  <2>2. CASE \E i : answer' = [answer EXCEPT ![t] = Ask("dir_next", NULL, i, 0, 0)]
    <3>1. \A i, e : Fits(Ask("dir_next", NULL, i, 0, 0), e)
      BY DEF Fits, Ask, Asked
    <3> QED BY <2>2, <3>1 DEF FitInv, IInv, ApiTypeOK
  <2>3. CASE \E i, r : answer' = [answer EXCEPT ![t] =
                                     [Ask("dir_next", NULL, i, 0, 0) EXCEPT !.ret = r]]
    <3>1. \A i, r, e : Fits([Ask("dir_next", NULL, i, 0, 0) EXCEPT !.ret = r], e)
      BY DEF Fits, Ask, Asked
    <3>2. PICK i, r : answer' = [answer EXCEPT ![t] =
                                   [Ask("dir_next", NULL, i, 0, 0) EXCEPT !.ret = r]]
      BY <2>3
    <3>3. /\ answer'[t] = [Ask("dir_next", NULL, i, 0, 0) EXCEPT !.ret = r]
          /\ \A u \in Thread \ {t} : answer'[u] = answer[u]
      BY <3>2 DEF IInv, ApiTypeOK
    <3> QED BY <3>1, <3>3 DEF FitInv
  <2> QED BY <2>1, <2>2, <2>3 DEF fs_erofs_umount, fs_erofs_dir_next, fs_erofs_dir_close
<1> QED BY <1>1, <1>2 DEF FitInv, LedByPath, In

LEMMA NextFits == IInv /\ FitInv /\ [Next]_vars => FitInv'
<1> SUFFICES ASSUME IInv, FitInv, [Next]_vars PROVE FitInv'
  OBVIOUS
<1>1. ASSUME NEW t \in Thread, BeginCall(t) PROVE FitInv'
  BY <1>1, BeginFits DEF BeginCall
<1>2. CASE Next
  BY <1>1, <1>2, StepFits, SilentFits DEF Next
<1>3. CASE UNCHANGED vars
  BY <1>3 DEF vars, FitInv, LedByPath, In
<1> QED BY <1>2, <1>3

\* For every file, offset and buffer: a read or a readlink writes no more than the
\* caller's buffer holds, a read comes back empty only at the end of the file, and a
\* target is whole or refused (fs_erofs_read_file, fs_erofs_readlink).
THEOREM AnswersFit == Spec => []AnswersFitBuffer
  BY InitHolds, NextKeeps, InitFits, NextFits, FitsAll, PTL DEF Spec
-----------------------------------------------------------------------------
\* A set of naturals that is not empty has a least member, so what holds of 0 and with
\* n of n + 1 holds of every natural.
LEMMA NatMin ==
  ASSUME NEW T \in SUBSET Nat, T # {}
  PROVE  \E x \in T : \A y \in T : ~(y < x)
<1>1. \E x \in T : \A y \in T : ~(<<y, x>> \in OpToRel(<, Nat))
  BY NatLessThanWellFounded, WFMin
<1> QED BY <1>1 DEF OpToRel

LEMMA NatInd ==
  ASSUME NEW S \in SUBSET Nat, 0 \in S, \A n \in S : n + 1 \in S
  PROVE  S = Nat
<1> SUFFICES ASSUME S # Nat PROVE FALSE
  OBVIOUS
<1>1. PICK x \in Nat \ S : \A y \in Nat \ S : ~(y < x)
  BY NatMin
<1>2. x # 0 /\ x - 1 \in Nat /\ x - 1 < x
  BY <1>1
<1>3. x - 1 \in S
  BY <1>1, <1>2
<1> QED BY <1>1, <1>2, <1>3

\* What is collected of the first k entries, from what is of those in front, g.
Collect(g, s, k) ==
  IF k = 0 THEN <<>>
  ELSE IF NotDot(s[k]) THEN Append(g[k - 1], dir_entry_to_abi(s[k])) ELSE g[k - 1]

\* There is such a function: Collected(s) is one.
LEMMA CollectedIs ==
  ASSUME NEW s, Len(s) \in Nat
  PROVE  Collected(s) = [k \in 0..Len(s) |-> Collect(Collected(s), s, k)]
<1> DEFINE S == {n \in Nat : \E g : g = [k \in 0..n |-> Collect(g, s, k)]}
<1>1. 0 \in S
  <2> DEFINE g == [k \in 0..0 |-> <<>>]
  <2>1. g = [k \in 0..0 |-> Collect(g, s, k)]
    BY DEF Collect
  <2> QED BY <2>1
<1>2. ASSUME NEW n \in S PROVE n + 1 \in S
  <2>1. PICK g : g = [k \in 0..n |-> Collect(g, s, k)]
    BY <1>2
  <2> DEFINE h == [k \in 0..(n + 1) |-> IF k = n + 1 THEN Collect(g, s, n + 1) ELSE g[k]]
  <2>2. ASSUME NEW k \in 0..(n + 1) PROVE h[k] = Collect(h, s, k)
    <3>1. CASE k = 0
      BY <2>1, <3>1 DEF Collect
    <3>2. CASE k # 0
      <4>1. k - 1 \in 0..n /\ h[k - 1] = g[k - 1]
        BY <3>2
      <4>2. Collect(h, s, k) = Collect(g, s, k)
        BY <3>2, <4>1 DEF Collect
      <4>3. h[k] = Collect(g, s, k)
        <5>1. CASE k = n + 1
          BY <5>1
        <5>2. CASE k # n + 1
          <6>1. k \in 0..n /\ h[k] = g[k]
            BY <5>2
          <6> QED BY <2>1, <6>1
        <5> QED BY <5>1, <5>2
      <4> QED BY <4>2, <4>3
    <3> QED BY <3>1, <3>2
  <2>3. h = [k \in 0..(n + 1) |-> Collect(h, s, k)]
    BY <2>2
  <2> HIDE DEF h
  <2>4. \E f : f = [k \in 0..(n + 1) |-> Collect(f, s, k)]
    BY <2>3
  <2> QED BY <2>4
<1>3. S = Nat
  <2> HIDE DEF S
  <2>1. S \in SUBSET Nat
    BY DEF S
  <2> QED BY <1>1, <1>2, <2>1, NatInd
<1>4. \E g : g = [k \in 0..Len(s) |-> Collect(g, s, k)]
  BY <1>3
<1> QED BY <1>4 DEF Collected, Collect

\* Where the entries of s that are no dots stand, and those among the first k.
Real(s) == {k \in DOMAIN s : NotDot(s[k])}
RealTo(s, k) == {m \in Real(s) : m <= k}

\* Of the first n entries the real ones are collected, each in the place of its rank.
LEMMA CollectedFacts ==
  ASSUME NEW E, NEW s \in Seq(E), NEW n \in 0..Len(s)
  PROVE  LET c == Collected(s)[n]
         IN /\ c \in Seq({dir_entry_to_abi(e) : e \in E})
            /\ IsFiniteSet(RealTo(s, n))
            /\ Len(c) = Cardinality(RealTo(s, n))
            /\ \A k \in RealTo(s, n) :
                 /\ Cardinality(RealTo(s, k)) \in 1..Len(c)
                 /\ c[Cardinality(RealTo(s, k))] = dir_entry_to_abi(s[k])
<1> DEFINE A == {dir_entry_to_abi(e) : e \in E}
           C == Collected(s)
           Right(k) == /\ C[k] \in Seq(A) /\ IsFiniteSet(RealTo(s, k))
                       /\ Len(C[k]) = Cardinality(RealTo(s, k))
                       /\ \A m \in RealTo(s, k) :
                            /\ Cardinality(RealTo(s, m)) \in 1..Len(C[k])
                            /\ C[k][Cardinality(RealTo(s, m))] = dir_entry_to_abi(s[m])
           S == {k \in Nat : k <= Len(s) => Right(k)}
<1>0. Len(s) \in Nat /\ DOMAIN s = 1..Len(s) /\ \A k \in DOMAIN s : s[k] \in E
  OBVIOUS
<1>1. C = [k \in 0..Len(s) |-> Collect(C, s, k)]
  BY <1>0, CollectedIs
<1> HIDE DEF C, A
<1>2. Right(0)
  <2>1. RealTo(s, 0) = {}
    BY <1>0 DEF RealTo, Real
  <2>2. C[0] = <<>>
    BY <1>0, <1>1 DEF Collect
  <2>3. Cardinality({}) = 0 /\ IsFiniteSet({})
    BY FS_EmptySet
  <2>4. C[0] \in Seq(A) /\ Len(C[0]) = 0
    BY <2>2
  <2> QED BY <2>1, <2>3, <2>4
<1>3. ASSUME NEW k \in Nat, k + 1 <= Len(s), Right(k) PROVE Right(k + 1)
  <2>1. k + 1 \in DOMAIN s /\ k \in 0..Len(s) /\ k + 1 \in 0..Len(s) /\ (k + 1) - 1 = k
    BY <1>0, <1>3
  <2>2. C[k + 1] = Collect(C, s, k + 1)
    BY <1>1, <2>1
  <2>3. CASE ~NotDot(s[k + 1])
    <3>1. RealTo(s, k + 1) = RealTo(s, k)
      BY <1>0, <2>3 DEF RealTo, Real
    <3>2. C[k + 1] = C[k]
      BY <2>1, <2>2, <2>3 DEF Collect
    <3> QED BY <1>3, <3>1, <3>2
  <2>4. CASE NotDot(s[k + 1])
    <3> DEFINE e == dir_entry_to_abi(s[k + 1])
    <3>1. RealTo(s, k + 1) = RealTo(s, k) \cup {k + 1} /\ k + 1 \notin RealTo(s, k)
      BY <1>0, <2>1, <2>4 DEF RealTo, Real
    <3>2. C[k + 1] = Append(C[k], e)
      BY <2>1, <2>2, <2>4 DEF Collect
    <3>3. e \in A
      BY <1>0, <2>1 DEF A
    <3>4. /\ IsFiniteSet(RealTo(s, k + 1))
          /\ Cardinality(RealTo(s, k + 1)) = Cardinality(RealTo(s, k)) + 1
      BY <1>3, <3>1, FS_AddElement
    <3> HIDE DEF e
    <3>5. /\ C[k + 1] \in Seq(A) /\ Len(C[k + 1]) = Len(C[k]) + 1
          /\ C[k + 1][Len(C[k]) + 1] = e
          /\ \A i \in 1..Len(C[k]) : C[k + 1][i] = C[k][i]
      BY <1>3, <3>2, <3>3
    <3>6. Len(C[k]) \in Nat
      BY <1>3
    <3>7. ASSUME NEW m \in RealTo(s, k + 1)
          PROVE  /\ Cardinality(RealTo(s, m)) \in 1..Len(C[k + 1])
                 /\ C[k + 1][Cardinality(RealTo(s, m))] = dir_entry_to_abi(s[m])
      <4>1. CASE m = k + 1
        BY <1>3, <3>4, <3>5, <3>6, <4>1 DEF e
      <4>2. CASE m # k + 1
        <5>1. m \in RealTo(s, k)
          BY <3>1, <4>2
        <5> DEFINE r == Cardinality(RealTo(s, m))
        <5>2. r \in 1..Len(C[k]) /\ C[k][r] = dir_entry_to_abi(s[m])
          BY <1>3, <5>1
        <5> HIDE DEF r
        <5>3. r \in 1..Len(C[k + 1]) /\ C[k + 1][r] = dir_entry_to_abi(s[m])
          BY <3>5, <3>6, <5>2
        <5> QED BY <5>3 DEF r
      <4> QED BY <4>1, <4>2
    <3> QED BY <1>3, <3>4, <3>5, <3>7
  <2> QED BY <2>3, <2>4
<1>4. S = Nat
  <2>1. 0 \in S
    BY <1>2
  <2>2. ASSUME NEW k \in S PROVE k + 1 \in S
    <3> HIDE DEF Right
    <3>1. k + 1 <= Len(s) => k <= Len(s)
      BY <1>0, <2>2
    <3> QED BY <1>3, <2>2, <3>1
  <2> HIDE DEF S
  <2>3. S \in SUBSET Nat
    BY DEF S
  <2> QED BY <2>1, <2>2, <2>3, NatInd
<1>5. Right(n)
  BY <1>0, <1>4
<1> QED BY <1>5 DEF C, A

\* Entries of an image, and of the ABI.
Raw == [name : DOMAIN Cut, nid : DOMAIN Inode]
Given == {dir_entry_to_abi(e) : e \in Raw}

LEMMA ListingFacts ==
  ASSUME NEW n \in DOMAIN Inode
  PROVE  LET s == Inode[n].entries
         IN /\ Listing(n) \in Seq(Given)
            /\ IsFiniteSet(Real(s)) /\ Len(Listing(n)) = Cardinality(Real(s))
            /\ \A k \in Real(s) :
                 /\ Cardinality(RealTo(s, k)) \in 1..Len(Listing(n))
                 /\ Listing(n)[Cardinality(RealTo(s, k))] = dir_entry_to_abi(s[k])
<1> DEFINE s == Inode[n].entries
<1>1. s \in Seq(Raw)
  BY ApiAssumption DEF ApiAssumption, Raw
<1> DEFINE l == Len(s)
<1> HIDE DEF s
<1>2. l \in 0..Len(s) /\ RealTo(s, l) = Real(s)
  BY <1>1 DEF RealTo, Real
<1>3. Listing(n) = Collected(s)[l]
  BY DEF Listing, s
<1> HIDE DEF l
<1>4. /\ Collected(s)[l] \in Seq(Given)
      /\ IsFiniteSet(RealTo(s, l)) /\ Len(Collected(s)[l]) = Cardinality(RealTo(s, l))
      /\ \A k \in RealTo(s, l) :
           /\ Cardinality(RealTo(s, k)) \in 1..Len(Collected(s)[l])
           /\ Collected(s)[l][Cardinality(RealTo(s, k))] = dir_entry_to_abi(s[k])
  BY <1>1, <1>2, CollectedFacts DEF Given
<1> QED BY <1>2, <1>3, <1>4 DEF s
-----------------------------------------------------------------------------
(***************************************************************************)
(* IterInv: an iterator holds what is listed of its directory, has handed  *)
(* out as many entries as it stands at, those, and points to the latest.   *)
(***************************************************************************)
Standing ==
  [of : DOMAIN Inode, entries : Seq(Given), position : Nat,
   current : Given \cup {NULL}, handed : Seq(Given), ended : BOOLEAN]

Follows(r) ==
  /\ r \in Standing
  /\ r.entries = Listing(r.of)
  /\ r.position <= Len(r.entries) /\ Len(r.handed) = r.position
  /\ \A k \in 1..r.position : r.handed[k] = r.entries[k]
  /\ r.position > 0 => r.current = r.entries[r.position]
  /\ r.ended => r.position = Len(r.entries)

IterInv == DOMAIN iter = Iter /\ \A i \in Iter : iter[i] # NULL => Follows(iter[i])

LEMMA FollowsWhole ==
  ASSUME NEW r, Follows(r)
  PROVE  LET dir == Inode[r.of].entries
             real == {k \in DOMAIN dir : dir[k].name \notin {".", ".."}}
             Rank(k) == Cardinality({m \in real : m <= k})
         IN /\ Len(r.handed) <= Cardinality(real)
            /\ \A k \in real : Rank(k) <= Len(r.handed) =>
                 r.handed[Rank(k)] = [nid |-> dir[k].nid, name |-> Cut[dir[k].name]]
            /\ r.handed # <<>> => r.current = r.handed[Len(r.handed)]
            /\ r.ended => Len(r.handed) = Cardinality(real)
<1> DEFINE dir == Inode[r.of].entries
           real == {k \in DOMAIN dir : dir[k].name \notin {".", ".."}}
           Rank(k) == Cardinality({m \in real : m <= k})
<1>1. real = Real(dir) /\ \A k : Rank(k) = Cardinality(RealTo(dir, k))
  BY DEF RealTo, Real, NotDot
<1>2. /\ Len(r.entries) = Cardinality(real)
      /\ \A k \in real : Rank(k) \in 1..Len(r.entries)
                        /\ r.entries[Rank(k)] = dir_entry_to_abi(dir[k])
  <2>1. r.of \in DOMAIN Inode /\ r.entries = Listing(r.of)
    BY DEF Follows, Standing
  <2>2. /\ Len(Listing(r.of)) = Cardinality(Real(dir))
        /\ \A k \in Real(dir) :
             /\ Cardinality(RealTo(dir, k)) \in 1..Len(Listing(r.of))
             /\ Listing(r.of)[Cardinality(RealTo(dir, k))] = dir_entry_to_abi(dir[k])
    BY <2>1, ListingFacts
  <2> HIDE DEF real, Rank
  <2> QED BY <1>1, <2>1, <2>2
<1> HIDE DEF real, Rank
<1>3. ASSUME NEW k \in real, Rank(k) <= Len(r.handed)
      PROVE  r.handed[Rank(k)] = [nid |-> dir[k].nid, name |-> Cut[dir[k].name]]
  <2>1. Rank(k) \in 1..r.position
    BY <1>2, <1>3 DEF Follows
  <2> QED BY <1>2, <2>1 DEF Follows, dir_entry_to_abi
<1>4. r.handed # <<>> => r.current = r.handed[Len(r.handed)]
  BY DEF Follows, Standing
<1>5. Len(r.handed) <= Cardinality(real) /\ (r.ended => Len(r.handed) = Cardinality(real))
  BY <1>2 DEF Follows
<1> QED BY <1>3, <1>4, <1>5 DEF real, Rank

LEMMA IterWhole == IterInv => IterationWhole
  BY FollowsWhole DEF IterInv, IterationWhole

LEMMA InitIter == Init => IterInv
  BY DEF Init, IterInv

LEMMA OpenFollows ==
  ASSUME NEW n \in DOMAIN Inode
  PROVE  Follows([of |-> n, entries |-> Listing(n), position |-> 0, current |-> NULL,
                  handed |-> <<>>, ended |-> FALSE])
<1>1. Listing(n) \in Seq(Given)
  BY ListingFacts
<1> QED BY <1>1 DEF Follows, Standing

LEMMA NextFollows ==
  ASSUME NEW r, Follows(r)
  PROVE  /\ Ended(r) => Follows([r EXCEPT !.ended = TRUE])
         /\ ~Ended(r) =>
              LET e == r.entries[r.position + 1]
              IN Follows([r EXCEPT !.current = e, !.position = @ + 1, !.handed = Append(@, e)])
<1>1. ASSUME Ended(r) PROVE Follows([r EXCEPT !.ended = TRUE])
  <2> DEFINE q == [r EXCEPT !.ended = TRUE]
  <2>1. r \in Standing
    BY DEF Follows
  <2>2. q \in Standing
    BY <2>1 DEF Standing
  <2>3. /\ q.of = r.of /\ q.entries = r.entries /\ q.position = r.position
        /\ q.current = r.current /\ q.handed = r.handed
    BY <2>1 DEF Standing
  <2>4. Len(r.entries) = r.position
    BY <1>1, <2>1 DEF Ended, Follows, Standing
  <2> HIDE DEF q
  <2>5. Follows(q)
    BY <2>2, <2>3, <2>4 DEF Follows
  <2> QED BY <2>5 DEF q
<1>2. ASSUME ~Ended(r), NEW e, e = r.entries[r.position + 1]
      PROVE  Follows([r EXCEPT !.current = e, !.position = @ + 1, !.handed = Append(@, e)])
  <2> DEFINE q == [r EXCEPT !.current = e, !.position = @ + 1, !.handed = Append(@, e)]
             p == r.position
             given == Append(r.handed, e)
  <2>1. /\ r \in Standing /\ p \in Nat /\ r.entries \in Seq(Given) /\ r.handed \in Seq(Given)
        /\ p < Len(r.entries) /\ Len(r.handed) = p /\ r.ended = FALSE
        /\ r.entries = Listing(r.of) /\ \A k \in 1..p : r.handed[k] = r.entries[k]
    BY <1>2 DEF Ended, Follows, Standing
  <2>2. e \in Given
    BY <1>2, <2>1
  <2>3. /\ given \in Seq(Given) /\ Len(given) = p + 1 /\ given[p + 1] = e
        /\ \A k \in 1..p : given[k] = r.handed[k]
    BY <2>1, <2>2
  <2>4. q = [r EXCEPT !.current = e, !.position = p + 1, !.handed = given]
    BY <2>1 DEF Standing
  <2> HIDE DEF q, given
  <2>5. q \in Standing
    <3> DEFINE pointed == [r EXCEPT !.current = e]
               moved == [pointed EXCEPT !.position = p + 1]
    <3>1. pointed \in Standing
      BY <2>1, <2>2 DEF Standing
    <3>2. p + 1 \in Nat
      BY <2>1
    <3> HIDE DEF pointed, p
    <3>3. moved \in Standing
      BY <3>1, <3>2 DEF Standing
    <3> HIDE DEF moved
    <3>4. [moved EXCEPT !.handed = given] \in Standing
      BY <2>3, <3>3 DEF Standing
    <3> QED BY <2>4, <3>4 DEF pointed, moved
  <2>6. /\ q.of = r.of /\ q.entries = r.entries /\ q.position = p + 1 /\ q.current = e
        /\ q.handed = given /\ q.ended = FALSE
    BY <2>1, <2>4 DEF Standing
  <2> HIDE DEF p
  <2>7. \A k \in 1..(p + 1) : q.handed[k] = q.entries[k]
    BY <1>2, <2>1, <2>3, <2>6 DEF p
  <2>8. Follows(q)
    BY <1>2, <2>1, <2>3, <2>5, <2>6, <2>7 DEF Follows, p
  <2> QED BY <2>8 DEF q
<1> QED BY <1>1, <1>2

LEMMA NextIter == ApiTypeOK /\ IterInv /\ [Next]_vars => IterInv'
<1> SUFFICES ASSUME ApiTypeOK, IterInv, [Next]_vars PROVE IterInv'
  OBVIOUS
<1>1. ASSUME iter' = iter PROVE IterInv'
  BY <1>1 DEF IterInv
<1>2. ASSUME NEW t \in Thread, fs_erofs_dir_open(t) PROVE IterInv'
  <2>1. CASE \E e : Fail(t, e, 0)
    BY <1>1, <2>1 DEF Fail
  <2>2. CASE \E i \in Iter : iter' = [iter EXCEPT ![i] =
               [of |-> call[t].nid, entries |-> Listing(call[t].nid),
                position |-> 0, current |-> NULL, handed |-> <<>>, ended |-> FALSE]]
    <3>1. call[t].nid \in DOMAIN Inode
      BY <1>2 DEF ApiTypeOK, fs_erofs_dir_open, Serving
    <3> QED BY <2>2, <3>1, OpenFollows DEF IterInv
  <2> QED BY <1>2, <2>1, <2>2 DEF fs_erofs_dir_open
<1>3. ASSUME NEW t \in Thread, NEW i \in Iter, fs_erofs_dir_next(t, i) PROVE IterInv'
  <2> DEFINE r == iter[i]
             e == r.entries[r.position + 1]
  <2>1. Follows(r)
    BY <1>3 DEF IterInv, fs_erofs_dir_next
  <2>2. CASE Ended(r)
    <3>1. iter' = [iter EXCEPT ![i] = [r EXCEPT !.ended = TRUE]]
      BY <1>3, <2>2 DEF fs_erofs_dir_next
    <3>2. Follows([r EXCEPT !.ended = TRUE])
      BY <2>1, <2>2, NextFollows
    <3> QED BY <3>1, <3>2 DEF IterInv
  <2>3. CASE ~Ended(r)
    <3> DEFINE q == [r EXCEPT !.current = e, !.position = @ + 1, !.handed = Append(@, e)]
    <3>1. iter' = [iter EXCEPT ![i] = q]
      BY <1>3, <2>3 DEF fs_erofs_dir_next, IterInv
    <3>2. Follows(q)
      BY <2>1, <2>3, NextFollows
    <3> HIDE DEF q
    <3> QED BY <3>1, <3>2 DEF IterInv
  <2> QED BY <2>2, <2>3
<1>4. ASSUME NEW t \in Thread, NEW i \in Iter, fs_erofs_dir_close(t, i) PROVE IterInv'
  BY <1>4 DEF fs_erofs_dir_close, IterInv
<1>5. ASSUME NEW t \in Thread, BeginCall(t) PROVE iter' = iter
  BY <1>5 DEF BeginCall, Begin
<1>6. ASSUME NEW t \in Thread, Step(t), ~fs_erofs_dir_open(t) PROVE iter' = iter
  BY <1>6 DEF Step, RefuseNull, OpenDevice, mount_from_device, fs_erofs_get_volume_info, Resolve,
     RefuseKind, fs_erofs_stat, fs_erofs_read_file, fs_erofs_readlink, Panicked, Fail, Goto
<1>7. ASSUME NEW t \in Thread, NEW h, fs_erofs_umount(t, h) PROVE iter' = iter
  BY <1>7 DEF fs_erofs_umount
<1>8. CASE UNCHANGED vars
  BY <1>1, <1>8 DEF vars
<1> QED BY <1>1, <1>2, <1>3, <1>4, <1>5, <1>6, <1>7, <1>8 DEF Next

(***************************************************************************)
(* Whatever other calls are made meanwhile, and whatever a directory       *)
(* holds, an iterator hands out its entries once each, in order, without   *)
(* the dots, and ends behind the last (fs_erofs_dir_open, _dir_next).      *)
(***************************************************************************)

(***************************************************************************)
(* Whatever other calls are made meanwhile, and whatever a directory       *)
(* holds, an iterator hands out its entries once each, in order, without   *)
(* the dots, and ends behind the last (fs_erofs_dir_open, _dir_next).      *)
(***************************************************************************)
THEOREM IterationAlwaysWhole == Spec => []IterationWhole
<1>1. IInv => ApiTypeOK
  BY DEF IInv
<1> QED BY InitHolds, NextKeeps, InitIter, NextIter, IterWhole, <1>1, PTL DEF Spec
=============================================================================
