-------------------------- MODULE FileExportProofs ---------------------------
(***************************************************************************)
(* Runs that share no name never leave a FILE half written, and report     *)
(* what they did: for any number of runs, files and chunks, whatever is    *)
(* killed when.                                                            *)
(***************************************************************************)
EXTENDS FileExport, TLAPS

Distinct ==
  \A f, g \in File : name[f] = name[g] /\ name[f] # NULL => f = g

\* n chunks of p and no more.
Only(p, n) == [k \in 1..n |-> p]

\* Where p stands, what it has open, and what is behind its two names.
Standing(p) ==
  /\ IF pc[p] \in {"copy", "rename"}
     THEN handle[p] # NULL /\ handle[p] = name[TempOf(p)]
     ELSE handle[p] = NULL
  /\ pc[p] = "copy" => offset[p] <= Chunks[p] /\ data[handle[p]] = Only(p, offset[p])
  /\ pc[p] = "rename" => data[handle[p]] = Payload(p)
  /\ Behind(Dest[p]) \in {NULL, <<Old>>, Payload(p)}
  /\ pc[p] = "ok" => Behind(Dest[p]) = Payload(p)
  /\ pc[p] \notin {"idle", "ok"} => Behind(Dest[p]) = before[p]

ExportInv == ExportTypeOK /\ Distinct /\ \A p \in Process : Standing(p)

-----------------------------------------------------------------------------
\* One more chunk behind those written is one more of the payload.
LEMMA WriteAppends ==
  ASSUME NEW p, NEW n \in Nat
  PROVE  Write(Only(p, n), n + 1, p) = Only(p, n + 1)
<1>1. Len(Only(p, n)) = n
  BY DEF Only
<1>2. \A j \in 1..n : Only(p, n)[j] = p
  BY DEF Only
<1>3. Write(Only(p, n), n + 1, p) =
        [j \in 1..(n + 1) |-> IF j = n + 1 THEN p ELSE IF j <= n THEN Only(p, n)[j] ELSE Hole]
  BY <1>1 DEF Write
<1>4. \A j \in 1..(n + 1) :
        (IF j = n + 1 THEN p ELSE IF j <= n THEN Only(p, n)[j] ELSE Hole) = p
  BY <1>2
<1>. QED
  BY <1>3, <1>4 DEF Only

\* What a write leaves is a sequence of chunks again.
LEMMA WriteType ==
  ASSUME NEW p \in Process, NEW n \in Nat, NEW s \in Seq(Process \cup {Old, Hole})
  PROVE  Write(s, n + 1, p) \in Seq(Process \cup {Old, Hole})
<1>. DEFINE m == IF n + 1 > Len(s) THEN n + 1 ELSE Len(s)
<1>1. m \in Nat
  OBVIOUS
<1>2. \A j \in 1..m :
        (IF j = n + 1 THEN p ELSE IF j <= Len(s) THEN s[j] ELSE Hole) \in Process \cup {Old, Hole}
  OBVIOUS
<1>. QED
  BY <1>1, <1>2 DEF Write

\* A process whose names and files a step leaves alone stands as it stood.
LEMMA Undisturbed ==
  ASSUME NEW q \in Process, Standing(q), ExportTypeOK, ExportAssumption,
         pc'[q] = pc[q], handle'[q] = handle[q], offset'[q] = offset[q],
         before'[q] = before[q],
         name'[Dest[q]] = name[Dest[q]], name'[TempOf(q)] = name[TempOf(q)],
         name[Dest[q]] # NULL => data'[name[Dest[q]]] = data[name[Dest[q]]],
         name[TempOf(q)] # NULL => data'[name[TempOf(q)]] = data[name[TempOf(q)]]
  PROVE  Standing(q)'
<1>1. Behind(Dest[q])' = Behind(Dest[q])
  BY DEF Behind
<1>2. TempOf(q)' = TempOf(q) /\ Payload(q)' = Payload(q)
  BY DEF TempOf, Payload
<1>3. pc[q] \in {"copy", "rename"} => data'[handle[q]] = data[handle[q]]
  BY DEF Standing
<1>4. Only(q, offset[q])' = Only(q, offset[q])
  BY DEF Only
<1>. QED
  BY <1>1, <1>2, <1>3, <1>4 DEF Standing, Only

\* Under Exclusive, no name of one run is a name of another.
LEMMA NamesApart ==
  ASSUME Exclusive, NEW p \in Process, NEW q \in Process, p # q
  PROVE  /\ Dest[q] # Dest[p] /\ Dest[q] # TempOf(p)
         /\ TempOf(q) # Dest[p] /\ TempOf(q) # TempOf(p)
  BY DEF Exclusive, TempOf

-----------------------------------------------------------------------------
LEMMA InitHolds == ExportAssumption /\ Init => ExportInv
<1>. SUFFICES ASSUME ExportAssumption, Init PROVE ExportInv
  OBVIOUS
<1>. USE DEF ExportAssumption
<1>1. <<Old>> \in Seq(Process \cup {Old, Hole})
  OBVIOUS
<1>2. ExportTypeOK
  BY <1>1 DEF Init, ExportTypeOK
<1>3. Distinct
  BY DEF Init, Distinct
<1>4. ASSUME NEW p \in Process PROVE Standing(p)
  <2>1. Dest[p] \in File /\ name[Dest[p]] \in Ino \cup {NULL}
    BY <1>2 DEF ExportTypeOK
  <2>2. Behind(Dest[p]) \in {NULL, <<Old>>}
    BY <2>1 DEF Init, Behind
  <2>. QED
    BY <2>2 DEF Init, Standing
<1>. QED
  BY <1>2, <1>3, <1>4 DEF ExportInv

\* Every step of a run keeps the invariant.
LEMMA StepHolds ==
  ASSUME ExportAssumption, Exclusive, ExportInv, NEW p \in Process, Step(p)
  PROVE  ExportInv'
<1>. USE DEF ExportAssumption
<1>1. /\ ExportTypeOK /\ Distinct /\ Standing(p)
      /\ \A q \in Process : Standing(q)
  BY DEF ExportInv
<1>2. /\ Dest[p] \in File /\ TempOf(p) \in File /\ TempOf(p) # Dest[p]
      /\ TempOf(p)' = TempOf(p) /\ Payload(p)' = Payload(p)
      /\ Chunks[p] \in Nat
      /\ Behind(Dest[p]) \in Seq(Process \cup {Old, Hole}) \cup {NULL}
  BY <1>1 DEF TempOf, Payload, Behind, ExportTypeOK
<1>3. ASSUME NEW q \in Process, q # p
      PROVE  /\ Dest[q] \in File /\ TempOf(q) \in File
             /\ Dest[q] # Dest[p] /\ Dest[q] # TempOf(p)
             /\ TempOf(q) # Dest[p] /\ TempOf(q) # TempOf(p)
  BY <1>3, NamesApart DEF TempOf
\* Steps that leave the directory and the files alone.
<1>4. ASSUME UNCHANGED <<name, data>>,
             ExportTypeOK', Standing(p)',
             \A q \in Process \ {p} :
               /\ pc'[q] = pc[q] /\ handle'[q] = handle[q]
               /\ offset'[q] = offset[q] /\ before'[q] = before[q]
      PROVE  ExportInv'
  <2>1. Distinct'
    BY <1>1, <1>4 DEF Distinct
  <2>2. ASSUME NEW q \in Process, q # p PROVE Standing(q)'
    BY <1>1, <1>4, <2>2, Undisturbed
  <2>. QED
    BY <1>4, <2>1, <2>2 DEF ExportInv
<1>5. CASE create(p)
  <2>. PICK i \in IF name[TempOf(p)] = NULL THEN Unused ELSE {name[TempOf(p)]} :
         /\ name' = [name EXCEPT ![TempOf(p)] = i]
         /\ data' = [data EXCEPT ![i] = <<>>]
         /\ handle' = [handle EXCEPT ![p] = i]
    BY <1>5 DEF create
  <2>1. /\ pc[p] = "idle" /\ pc' = [pc EXCEPT ![p] = "copy"]
        /\ offset' = [offset EXCEPT ![p] = 0]
        /\ before' = [before EXCEPT ![p] = Behind(Dest[p])]
    BY <1>5 DEF create, Goto
  <2>2. i \in Ino /\ i # NULL
    BY <1>1, <1>2 DEF ExportTypeOK, Unused
  <2>3. \A f \in File : name[f] = i => f = TempOf(p)
    BY <1>1, <1>2, <2>2 DEF ExportTypeOK, Unused, Distinct
  <2>4. <<>> \in Seq(Process \cup {Old, Hole})
    OBVIOUS
  <2>5. ExportTypeOK'
    BY <1>1, <1>2, <2>1, <2>2, <2>4 DEF ExportTypeOK
  <2>6. Distinct'
    <3>. SUFFICES ASSUME NEW f \in File, NEW g \in File, name'[f] = name'[g], name'[f] # NULL
                  PROVE  f = g
      BY DEF Distinct
    <3>1. name \in [File -> Ino \cup {NULL}]
      BY <1>1 DEF ExportTypeOK
    <3>2. name'[f] = (IF f = TempOf(p) THEN i ELSE name[f])
      BY <3>1
    <3>3. name'[g] = (IF g = TempOf(p) THEN i ELSE name[g])
      BY <3>1
    <3>. QED
      BY <1>1, <2>3, <3>2, <3>3 DEF Distinct
  <2>7. Standing(p)'
    <3>1. /\ pc'[p] = "copy" /\ handle'[p] = i /\ offset'[p] = 0
          /\ before'[p] = Behind(Dest[p])
          /\ name'[TempOf(p)] = i /\ name'[Dest[p]] = name[Dest[p]]
          /\ data'[i] = <<>>
      BY <1>1, <1>2, <2>1, <2>2 DEF ExportTypeOK
    <3>2. name[Dest[p]] # NULL => data'[name[Dest[p]]] = data[name[Dest[p]]]
      BY <1>1, <1>2, <2>3 DEF ExportTypeOK
    <3>3. Behind(Dest[p])' = Behind(Dest[p])
      BY <3>1, <3>2 DEF Behind
    <3>4. Only(p, 0) = <<>>
      BY DEF Only
    <3>. QED
      BY <1>1, <1>2, <2>2, <3>1, <3>3, <3>4 DEF Standing, Only
  <2>8. ASSUME NEW q \in Process, q # p PROVE Standing(q)'
    <3>1. name'[Dest[q]] = name[Dest[q]] /\ name'[TempOf(q)] = name[TempOf(q)]
      BY <1>1, <1>3, <2>8 DEF ExportTypeOK
    <3>2. name[Dest[q]] # i /\ name[TempOf(q)] # i
      BY <1>3, <2>3, <2>8
    <3>3. /\ name[Dest[q]] # NULL => data'[name[Dest[q]]] = data[name[Dest[q]]]
          /\ name[TempOf(q)] # NULL => data'[name[TempOf(q)]] = data[name[TempOf(q)]]
      BY <1>1, <1>3, <2>8, <3>2 DEF ExportTypeOK
    <3>4. /\ pc'[q] = pc[q] /\ handle'[q] = handle[q]
          /\ offset'[q] = offset[q] /\ before'[q] = before[q]
      BY <1>1, <2>1, <2>8 DEF ExportTypeOK
    <3>. QED
      BY <1>1, <3>1, <3>3, <3>4, Undisturbed
  <2>. QED
    BY <2>5, <2>6, <2>7, <2>8 DEF ExportInv
\* Runs that end before they have FILE.partial open.
<1>6. CASE refuse(p) \/ create_fails(p)
  <2>. PICK where \in {"remove", "failed"} : pc' = [pc EXCEPT ![p] = where]
    BY <1>6 DEF refuse, create_fails, Goto, AfterFailedRename
  <2>1. /\ pc[p] = "idle" /\ pc' = [pc EXCEPT ![p] = where]
        /\ before' = [before EXCEPT ![p] = Behind(Dest[p])]
        /\ UNCHANGED <<name, data, handle, offset>>
    BY <1>6 DEF refuse, create_fails
  <2>2. ExportTypeOK'
    BY <1>1, <1>2, <2>1 DEF ExportTypeOK
  <2>3. Behind(Dest[p])' = Behind(Dest[p])
    BY <2>1 DEF Behind
  <2>4. pc'[p] = where /\ handle'[p] = handle[p] /\ before'[p] = Behind(Dest[p])
    BY <1>1, <2>1 DEF ExportTypeOK
  <2>5. Standing(p)'
    BY <1>1, <1>2, <2>1, <2>3, <2>4 DEF Standing
  <2>6. \A q \in Process \ {p} :
          /\ pc'[q] = pc[q] /\ handle'[q] = handle[q]
          /\ offset'[q] = offset[q] /\ before'[q] = before[q]
    BY <1>1, <2>1 DEF ExportTypeOK
  <2>. QED
    BY <1>4, <2>1, <2>2, <2>5, <2>6
<1>7. CASE write_all(p)
  <2>1. /\ pc[p] = "copy" /\ offset[p] < Chunks[p]
        /\ data' = [data EXCEPT ![handle[p]] = Write(@, offset[p] + 1, p)]
        /\ offset' = [offset EXCEPT ![p] = @ + 1]
        /\ UNCHANGED <<name, pc, handle, before>>
    BY <1>7 DEF write_all
  <2>2. /\ handle[p] \in Ino /\ handle[p] = name[TempOf(p)] /\ offset[p] \in Nat
        /\ data[handle[p]] = Only(p, offset[p])
    BY <1>1, <1>2, <2>1 DEF Standing, ExportTypeOK
  <2>3. data'[handle[p]] = Only(p, offset[p] + 1)
    BY <1>1, <2>1, <2>2, WriteAppends DEF ExportTypeOK
  <2>4. ExportTypeOK'
    <3>1. data[handle[p]] \in Seq(Process \cup {Old, Hole})
      BY <1>1, <2>2 DEF ExportTypeOK
    <3>2. Write(data[handle[p]], offset[p] + 1, p) \in Seq(Process \cup {Old, Hole})
      BY <2>2, <3>1, WriteType
    <3>3. data' \in [Ino -> Seq(Process \cup {Old, Hole})]
      BY <1>1, <2>1, <3>2 DEF ExportTypeOK
    <3>4. offset' \in [Process -> Nat]
      BY <1>1, <2>1 DEF ExportTypeOK
    <3>. QED
      BY <1>1, <2>1, <3>3, <3>4 DEF ExportTypeOK
  <2>5. Distinct'
    BY <1>1, <2>1 DEF Distinct
  <2>6. name[Dest[p]] # handle[p]
    BY <1>1, <1>2, <2>2 DEF Distinct, ExportTypeOK
  <2>7. Behind(Dest[p])' = Behind(Dest[p])
    BY <1>1, <1>2, <2>1, <2>6 DEF Behind, ExportTypeOK
  <2>8. offset'[p] = offset[p] + 1 /\ pc'[p] = "copy" /\ handle'[p] = handle[p]
    BY <1>1, <2>1 DEF ExportTypeOK
  <2>9. Standing(p)'
    <3>1. Only(p, offset[p])' = Only(p, offset[p] + 1)
      BY <2>8 DEF Only
    <3>. QED
      BY <1>1, <1>2, <2>1, <2>2, <2>3, <2>7, <2>8, <3>1 DEF Standing
  <2>10. ASSUME NEW q \in Process, q # p PROVE Standing(q)'
    <3>1. name[Dest[q]] # handle[p] /\ name[TempOf(q)] # handle[p]
      BY <1>1, <1>2, <1>3, <2>2, <2>10 DEF Distinct
    <3>2. /\ name[Dest[q]] # NULL => data'[name[Dest[q]]] = data[name[Dest[q]]]
          /\ name[TempOf(q)] # NULL => data'[name[TempOf(q)]] = data[name[TempOf(q)]]
      BY <1>1, <1>3, <2>1, <2>10, <3>1 DEF ExportTypeOK
    <3>3. offset'[q] = offset[q]
      BY <1>1, <2>1, <2>10 DEF ExportTypeOK
    <3>. QED
      BY <1>1, <2>1, <3>2, <3>3, Undisturbed
  <2>. QED
    BY <2>4, <2>5, <2>9, <2>10 DEF ExportInv
<1>8. CASE copied(p)
  <2>1. /\ pc[p] = "copy" /\ offset[p] = Chunks[p] /\ pc' = [pc EXCEPT ![p] = "rename"]
        /\ UNCHANGED <<name, data, handle, offset, before>>
    BY <1>8 DEF copied, Goto
  <2>2. ExportTypeOK'
    BY <1>1, <2>1 DEF ExportTypeOK
  <2>3. Behind(Dest[p])' = Behind(Dest[p])
    BY <2>1 DEF Behind
  <2>4. pc'[p] = "rename"
    BY <1>1, <2>1 DEF ExportTypeOK
  <2>5. data[handle[p]] = Payload(p)
    BY <1>1, <2>1 DEF Standing, Only, Payload
  <2>6. Standing(p)'
    BY <1>1, <1>2, <2>1, <2>3, <2>4, <2>5 DEF Standing
  <2>7. \A q \in Process \ {p} : pc'[q] = pc[q]
    BY <1>1, <2>1 DEF ExportTypeOK
  <2>. QED
    BY <1>4, <2>1, <2>2, <2>6, <2>7
\* Steps that end at p's handle closed: the copy or the rename failed, or p is over.
<1>9. ASSUME NEW where \in {"idle", "remove", "failed"},
             pc[p] \in {"copy", "remove", "rename", "ok", "failed"},
             where # "idle" => pc[p] \in {"copy", "rename"},
             pc' = [pc EXCEPT ![p] = where],
             handle' = [handle EXCEPT ![p] = NULL],
             UNCHANGED <<name, data, offset, before>>
      PROVE  ExportInv'
  <2>1. ExportTypeOK'
    BY <1>1, <1>9 DEF ExportTypeOK
  <2>2. Behind(Dest[p])' = Behind(Dest[p])
    BY <1>9 DEF Behind
  <2>3. pc'[p] = where /\ handle'[p] = NULL
    BY <1>1, <1>9 DEF ExportTypeOK
  <2>4. Standing(p)'
    BY <1>1, <1>2, <1>9, <2>2, <2>3 DEF Standing
  <2>5. \A q \in Process \ {p} : pc'[q] = pc[q] /\ handle'[q] = handle[q]
    BY <1>1, <1>9 DEF ExportTypeOK
  <2>. QED
    BY <1>4, <1>9, <2>1, <2>4, <2>5
<1>10. CASE copy_fails(p)
  BY <1>9, <1>10 DEF copy_fails, Goto, AfterFailedCopy
<1>11. CASE rename_fails(p)
  <2>1. AfterFailedRename(p) \in {"remove", "failed"}
    BY DEF AfterFailedRename
  <2>. QED
    BY <1>9, <1>11, <2>1 DEF rename_fails, Goto
<1>12. CASE Ends(p)
  <2>1. pc[p] \in {"copy", "remove", "rename", "ok", "failed"}
    BY <1>1, <1>12 DEF Ends, ExportTypeOK
  <2>. QED
    BY <1>9, <1>12, <2>1 DEF Ends, Goto
\* Steps that change names, none but p's own.
<1>13. ASSUME \/ name' = [name EXCEPT ![TempOf(p)] = NULL]
              \/ name' = name
              \/ /\ name' = [name EXCEPT ![Dest[p]] = name[TempOf(p)], ![TempOf(p)] = NULL]
                 /\ name[TempOf(p)] # NULL,
              UNCHANGED data
       PROVE  /\ Distinct'
              /\ name' \in [File -> Ino \cup {NULL}]
              /\ \A q \in Process : q # p =>
                   name'[Dest[q]] = name[Dest[q]] /\ name'[TempOf(q)] = name[TempOf(q)]
  <2>1. name \in [File -> Ino \cup {NULL}]
    BY <1>1 DEF ExportTypeOK
  <2>2. CASE name' = [name EXCEPT ![TempOf(p)] = NULL]
    BY <1>1, <1>2, <1>3, <2>1, <2>2 DEF Distinct
  <2>3. CASE name' = name
    BY <1>1, <2>1, <2>3 DEF Distinct
  <2>4. CASE /\ name' = [name EXCEPT ![Dest[p]] = name[TempOf(p)], ![TempOf(p)] = NULL]
             /\ name[TempOf(p)] # NULL
    <3>1. \A f \in File : name'[f] = IF f = TempOf(p) THEN NULL
                                     ELSE IF f = Dest[p] THEN name[TempOf(p)] ELSE name[f]
      BY <1>2, <2>1, <2>4
    <3>2. Distinct'
      BY <1>1, <1>2, <3>1 DEF Distinct
    <3>. QED
      BY <1>2, <1>3, <2>1, <2>4, <3>1, <3>2
  <2>. QED
    BY <1>13, <2>2, <2>3, <2>4
<1>14. CASE remove_file(p)
  <2>1. /\ pc[p] = "remove" /\ pc' = [pc EXCEPT ![p] = "failed"]
        /\ UNCHANGED <<data, handle, offset, before>>
        /\ name' = [name EXCEPT ![TempOf(p)] = NULL] \/ name' = name
    BY <1>14 DEF remove_file, Goto
  <2>2. /\ Distinct' /\ name' \in [File -> Ino \cup {NULL}]
        /\ \A q \in Process : q # p =>
             name'[Dest[q]] = name[Dest[q]] /\ name'[TempOf(q)] = name[TempOf(q)]
    BY <1>13, <2>1
  <2>3. ExportTypeOK'
    BY <1>1, <2>1, <2>2 DEF ExportTypeOK
  <2>4. name'[Dest[p]] = name[Dest[p]]
    BY <1>1, <1>2, <2>1 DEF ExportTypeOK
  <2>5. Behind(Dest[p])' = Behind(Dest[p])
    BY <2>1, <2>4 DEF Behind
  <2>6. pc'[p] = "failed"
    BY <1>1, <2>1 DEF ExportTypeOK
  <2>7. Standing(p)'
    BY <1>1, <1>2, <2>1, <2>5, <2>6 DEF Standing
  <2>8. ASSUME NEW q \in Process, q # p PROVE Standing(q)'
    <3>1. pc'[q] = pc[q]
      BY <1>1, <2>1, <2>8 DEF ExportTypeOK
    <3>. QED
      BY <1>1, <2>1, <2>2, <2>8, <3>1, Undisturbed
  <2>. QED
    BY <2>2, <2>3, <2>7, <2>8 DEF ExportInv
<1>15. CASE rename(p)
  <2>1. /\ pc[p] = "rename" /\ pc' = [pc EXCEPT ![p] = "ok"]
        /\ name[TempOf(p)] # NULL
        /\ name' = [name EXCEPT ![Dest[p]] = name[TempOf(p)], ![TempOf(p)] = NULL]
        /\ handle' = [handle EXCEPT ![p] = NULL]
        /\ UNCHANGED <<data, offset, before>>
    BY <1>15 DEF rename, Goto
  <2>2. /\ Distinct' /\ name' \in [File -> Ino \cup {NULL}]
        /\ \A q \in Process : q # p =>
             name'[Dest[q]] = name[Dest[q]] /\ name'[TempOf(q)] = name[TempOf(q)]
    BY <1>13, <2>1
  <2>3. ExportTypeOK'
    BY <1>1, <2>1, <2>2 DEF ExportTypeOK
  <2>4. name'[Dest[p]] = name[TempOf(p)]
    BY <1>1, <1>2, <2>1 DEF ExportTypeOK
  <2>5. Behind(Dest[p])' = Payload(p)
    BY <1>1, <2>1, <2>4 DEF Behind, Standing
  <2>6. pc'[p] = "ok" /\ handle'[p] = NULL
    BY <1>1, <2>1 DEF ExportTypeOK
  <2>7. Standing(p)'
    BY <1>2, <2>5, <2>6 DEF Standing
  <2>8. ASSUME NEW q \in Process, q # p PROVE Standing(q)'
    <3>1. pc'[q] = pc[q] /\ handle'[q] = handle[q]
      BY <1>1, <2>1, <2>8 DEF ExportTypeOK
    <3>. QED
      BY <1>1, <2>1, <2>2, <2>8, <3>1, Undisturbed
  <2>. QED
    BY <2>2, <2>3, <2>7, <2>8 DEF ExportInv
<1>. QED
  BY <1>5, <1>6, <1>7, <1>8, <1>10, <1>11, <1>12, <1>14, <1>15 DEF Step

\* Nothing happens: the invariant stays.
LEMMA StutterHolds == ExportInv /\ UNCHANGED vars => ExportInv'
<1>. SUFFICES ASSUME ExportInv, UNCHANGED vars PROVE ExportInv'
  OBVIOUS
<1>. USE DEF vars
<1>1. ExportTypeOK' /\ Distinct'
  BY DEF ExportInv, ExportTypeOK, Distinct
<1>2. ASSUME NEW p \in Process PROVE Standing(p)'
  BY DEF ExportInv, Standing, Behind, TempOf, Payload, Only
<1>. QED
  BY <1>1, <1>2 DEF ExportInv

LEMMA Invariant ==
  ASSUME ExportAssumption, Exclusive PROVE Spec => []ExportInv
<1>1. Init => ExportInv
  BY InitHolds
<1>2. ExportInv /\ [Next]_vars => ExportInv'
  BY StepHolds, StutterHolds DEF Next
<1>. QED
  BY <1>1, <1>2, PTL DEF Spec

\* Runs that share no name never show a FILE half written, at any moment and whichever
\* of them was killed before (cli/erofs/fs.rs read and xattr, -o).
THEOREM FileNeverHalf ==
  ASSUME Exclusive PROVE Spec => []NeverHalfWritten
<1>1. ExportInv => NeverHalfWritten
  BY DEF ExportInv, Standing, NeverHalfWritten
<1>2. Spec => []ExportInv
  BY Invariant, ExportAssumption
<1>. QED
  BY <1>1, <1>2, PTL

\* Such runs report what they did: success once FILE holds all of it, failure with FILE
\* as it was.
THEOREM ReportsTrue ==
  ASSUME Exclusive PROVE Spec => []OutcomeTrue
<1>1. ExportInv => OutcomeTrue
  BY DEF ExportInv, Standing, OutcomeTrue
<1>2. Spec => []ExportInv
  BY Invariant, ExportAssumption
<1>. QED
  BY <1>1, <1>2, PTL
=============================================================================
