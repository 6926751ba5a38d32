-------------------------- MODULE PathResolveProofs --------------------------
(***************************************************************************)
(* Theorems about PathResolve, for every tree, every path and every budget.*)
(*                                                                         *)
(* The inductive invariant ties the walked names to the inodes they led to *)
(* (the history `trail`): each name is an entry of the directory before it *)
(* and leads to the inode after it.  Names are never looked up anywhere    *)
(* but where the first walk met them, so looking them up again ends where  *)
(* it ended.                                                               *)
(***************************************************************************)
EXTENDS PathResolve, TLAPS

\* The inode the first i walked names lead to.
Led(i) == IF i = 0 THEN Root ELSE trail[i]

\* Each walked name leads from the inode before it to the inode after it.
Connected ==
  \A i \in 1 .. Len(trail) :
    /\ NodeKind[Led(i - 1)] = "dir"
    /\ walked[i] \in DOMAIN Entry[Led(i - 1)]
    /\ trail[i] = Entry[Led(i - 1)][walked[i]]
    /\ NodeKind[trail[i]] # "link"

\* Where the current inode stands on the trail, and what has been answered.
Placed ==
  /\ phase = "walk" => at = 0 /\ answer = "none" /\ (follow => node = Led(Len(trail)))
  /\ phase = "relook" => follow /\ answer = "none" /\ node = Led(at)
  /\ phase = "idle" => answer = "none"
  /\ phase = "done" => answer # "none"
  /\ (follow /\ phase = "done") => NodeKind[node] # "link"

Inv == PathTypeOK /\ Connected /\ Placed
-----------------------------------------------------------------------------
\* Entries of a directory of the tree lead to inodes of the tree.
LEMMA ChildInTree == ASSUME PathTypeOK, Found PROVE Child \in Node
  BY TreeAssumption DEF PathTypeOK, Found, Child

\* A directory is no symlink, and the root is a directory.
LEMMA LedNoLink ==
  ASSUME PathTypeOK, Connected, NEW i \in 0 .. Len(trail)
  PROVE  Led(i) \in Node /\ NodeKind[Led(i)] # "link"
  BY TreeAssumption DEF PathTypeOK, Connected, Led

\* What a followed symlink leaves to consume.
LEMMA SplicedType ==
  ASSUME PathTypeOK, FoundLink
  PROVE  /\ Target[Child] \in [abs : BOOLEAN, names : Seq(STRING), bad : BOOLEAN]
         /\ Spliced(Target[Child]) \in Seq(STRING)
  <1>1. Child \in Node /\ NodeKind[Child] = "link"
    BY ChildInTree DEF FoundLink
  <1>2. Target[Child] \in [abs : BOOLEAN, names : Seq(STRING), bad : BOOLEAN]
    BY <1>1, TreeAssumption
  <1>3. pending # <<>>
    BY DEF FoundLink, Found, Looking
  <1>4. Tail(pending) \in Seq(STRING)
    BY <1>3 DEF PathTypeOK
  <1> QED
    BY <1>2, <1>4 DEF Spliced

\* A failing step disturbs nothing but the answer.
LEMMA FailKeeps ==
  ASSUME Inv, NEW why, GiveUp(why), phase \in {"walk", "relook"}, 
         why \in {"NotADirectory", "NotFound", "Loop", "BadTarget", "Io"}
  PROVE  Inv' /\ (follow => NodeKind[node] # "link")
  <1>1. follow => NodeKind[node] # "link"
    BY LedNoLink DEF Inv, PathTypeOK, Placed
  <1>2. PathTypeOK'
    BY DEF Inv, PathTypeOK, GiveUp
  <1>3. Connected'
    BY DEF Inv, Connected, Led, GiveUp
  <1>4. Placed'
    BY <1>1 DEF Inv, Placed, GiveUp, Led
  <1> QED
    BY <1>1, <1>2, <1>3, <1>4 DEF Inv

\* Every step keeps the trail connected and the walk on it.
LEMMA Invariance == Inv /\ [PathNext]_pathVars => Inv'
  <1> SUFFICES ASSUME Inv, [PathNext]_pathVars PROVE Inv'
    OBVIOUS
  <1> USE TreeAssumption
  <1>1. CASE Arrive
    <2>1. follow => NodeKind[node] # "link"
      BY <1>1, LedNoLink DEF Inv, PathTypeOK, Placed, Arrive
    <2>2. PathTypeOK' /\ Connected'
      BY <1>1 DEF Inv, PathTypeOK, Connected, Led, Arrive
    <2>3. Placed'
      BY <1>1, <2>1 DEF Inv, Placed, Led, Arrive
    <2> QED
      BY <2>2, <2>3 DEF Inv
  <1>2. CASE NotADirectory \/ NotFound \/ LinkLoop \/ BadTarget \/ LookupFails
    BY <1>2, FailKeeps
       DEF NotADirectory, NotFound, LinkLoop, BadTarget, LookupFails, Looking, FoundLink
  <1>3. CASE Descend
    <2>1. Child \in Node
      BY <1>3, ChildInTree DEF Inv, Descend
    <2>2. /\ phase = "walk" /\ pending # <<>> /\ NextName = Head(pending)
          /\ NodeKind[node] = "dir" /\ NextName \in DOMAIN Entry[node] /\ Child = Entry[node][NextName]
          /\ follow => NodeKind[Child] # "link"
      BY <1>3 DEF Descend, Found, FoundLink, Looking, NextName, Child
    <2>3. Head(pending) \in STRING /\ Tail(pending) \in Seq(STRING)
      BY <2>2 DEF Inv, PathTypeOK
    <2>4. PathTypeOK'
      <3>1. walked' \in Seq(STRING) /\ trail' \in Seq(Node) /\ Len(trail') = Len(walked')
        <4>1. CASE follow
          BY <4>1, <1>3, <2>1, <2>3 DEF Inv, PathTypeOK, Descend
        <4>2. CASE ~follow
          BY <4>2, <1>3 DEF Inv, PathTypeOK, Descend
        <4> QED
          BY <4>1, <4>2
      <3>2. at' = 0 /\ 0 \in 0 .. Len(walked')
        BY <1>3, <2>2, <3>1 DEF Inv, Placed, Descend
      <3> QED
        BY <1>3, <2>1, <2>3, <3>1, <3>2 DEF Inv, PathTypeOK, Descend
    <2>5. CASE follow
      <3>1. walked' = Append(walked, Head(pending)) /\ trail' = Append(trail, Child)
        BY <1>3, <2>5 DEF Descend
      <3>2. Len(trail') = Len(trail) + 1 /\ trail'[Len(trail) + 1] = Child
            /\ walked'[Len(trail) + 1] = Head(pending)
        BY <3>1, <2>1, <2>3 DEF Inv, PathTypeOK
      <3>3. \A i \in 1 .. Len(trail) : trail'[i] = trail[i] /\ walked'[i] = walked[i]
        BY <3>1, <2>1, <2>3 DEF Inv, PathTypeOK
      <3>4. node = Led(Len(trail))
        BY <2>2, <2>5 DEF Inv, Placed
      <3>5. \A i \in 0 .. Len(trail) : Led(i)' = Led(i)
        BY <3>3 DEF Led
      <3>6. Connected'
        <4> SUFFICES ASSUME NEW i \in 1 .. Len(trail) + 1
                     PROVE  /\ NodeKind[Led(i - 1)'] = "dir"
                            /\ walked'[i] \in DOMAIN Entry[Led(i - 1)']
                            /\ trail'[i] = Entry[Led(i - 1)'][walked'[i]]
                            /\ NodeKind[trail'[i]] # "link"
          BY <3>2 DEF Connected, Led
        <4>1. CASE i = Len(trail) + 1
          <5>1. Led(i - 1)' = node
            BY <4>1, <3>4, <3>5 DEF Inv, PathTypeOK
          <5> QED
            BY <4>1, <5>1, <3>2, <2>2, <2>5
        <4>2. CASE i # Len(trail) + 1
          <5>1. i \in 1 .. Len(trail) /\ i - 1 \in 0 .. Len(trail)
            BY <4>2 DEF Inv, PathTypeOK
          <5> QED
            BY <5>1, <3>3, <3>5 DEF Inv, Connected
        <4> QED
          BY <4>1, <4>2
      <3>7. Placed'
        BY <1>3, <2>2, <2>5, <3>2 DEF Inv, Placed, Descend, Led, PathTypeOK
      <3> QED
        BY <2>4, <3>6, <3>7 DEF Inv
    <2>6. CASE ~follow
      BY <1>3, <2>2, <2>4, <2>6 DEF Inv, Connected, Placed, Led, Descend
    <2> QED
      BY <2>5, <2>6
  <1>4. CASE FollowAbsolute
    <2>1. Spliced(Target[Child]) \in Seq(STRING)
      BY <1>4, SplicedType DEF Inv, FollowAbsolute
    <2>2. PathTypeOK'
      BY <1>4, <2>1 DEF Inv, PathTypeOK, FollowAbsolute, Spent, FoundLink, Placed
    <2> QED
      BY <1>4, <2>2 DEF Inv, Connected, Placed, Led, FollowAbsolute, FoundLink
  <1>5. CASE FollowRelative
    <2>1. Spliced(Target[Child]) \in Seq(STRING)
      BY <1>5, SplicedType DEF Inv, FollowRelative
    <2>2. PathTypeOK'
      BY <1>5, <2>1 DEF Inv, PathTypeOK, FollowRelative, Spent, FoundLink
    <2> QED
      BY <1>5, <2>2 DEF Inv, Connected, Placed, Led, FollowRelative, FoundLink
  <1>6. CASE Relook
    <2>1. /\ phase = "relook" /\ at \in 0 .. Len(walked) /\ at # Len(walked)
          /\ Child = Entry[node][walked[at + 1]]
      BY <1>6 DEF Relook, Found, Looking, NextName, Child, Inv, PathTypeOK
    <2>2. at + 1 \in 1 .. Len(trail) /\ (at + 1) - 1 = at
      BY <2>1 DEF Inv, PathTypeOK
    <2>3. Child = Led(at + 1)
      BY <2>1, <2>2 DEF Inv, Connected, Placed, Led
    <2>4. Child \in Node
      BY <1>6, ChildInTree DEF Inv, Relook
    <2>5. PathTypeOK'
      BY <1>6, <2>1, <2>2, <2>4 DEF Inv, PathTypeOK, Relook
    <2> QED
      BY <1>6, <2>1, <2>3, <2>5 DEF Inv, Connected, Placed, Led, Relook
  <1>7. CASE Relooked
    <2>1. PathTypeOK'
      BY <1>7 DEF Inv, PathTypeOK, Relooked
    <2> QED
      BY <1>7, <2>1 DEF Inv, Connected, Placed, Led, Relooked, BackDown, PathTypeOK
  <1>8. ASSUME NEW p \in Path, NEW f \in BOOLEAN, Resolve(p, f) PROVE Inv'
    BY <1>8 DEF Inv, PathTypeOK, Connected, Placed, Led, Resolve
  <1>9. CASE UNCHANGED pathVars
    BY <1>9 DEF Inv, PathTypeOK, Connected, Placed, Led, pathVars
  <1> QED
    BY <1>1, <1>2, <1>3, <1>4, <1>5, <1>6, <1>7, <1>8, <1>9 DEF PathNext, PathStep

LEMMA Initially == PathInit => Inv
  <1> SUFFICES ASSUME PathInit PROVE Inv
    OBVIOUS
  <1>1. pending \in Seq(STRING) /\ walked \in Seq(STRING) /\ trail \in Seq(Node)
    BY DEF PathInit
  <1>2. Len(trail) = 0 /\ Len(walked) = 0 /\ at \in 0 .. Len(walked)
    BY DEF PathInit
  <1>3. PathTypeOK
    <2>1. budget \in 0 .. MaxSymlinks /\ calls \in 0 .. MaxCalls /\ node \in Node
      BY TreeAssumption DEF PathInit
    <2>2. Len(trail) = Len(walked)
      BY <1>2
    <2> QED
      BY <1>1, <1>2, <2>1, <2>2 DEF PathInit, PathTypeOK
  <1>4. Connected /\ Placed
    BY <1>2 DEF PathInit, Connected, Placed
  <1> QED
    BY <1>3, <1>4 DEF Inv

\* The inductive invariant holds in every state.
THEOREM InvCorrect == PathSpec => []Inv
  BY Initially, Invariance, PTL DEF PathSpec

\* Every variable of a resolution keeps its type (resolve_path, lookup_path).
THEOREM TypeCorrect == PathSpec => []PathTypeOK
  BY InvCorrect, PTL DEF Inv

\* In the invariant, the way back down passes through what the way down did.
LEMMA BackFromInv == Inv => BackWhereItWas
  <1> SUFFICES ASSUME Inv, phase = "relook"
               PROVE  /\ node = (IF at = 0 THEN Root ELSE trail[at])
                      /\ at < Len(walked) => Found /\ at < Len(trail) /\ Child = trail[at + 1]
    BY DEF BackWhereItWas
  <1>1. node = Led(at)
    BY DEF Inv, Placed
  <1>2. ASSUME at < Len(walked)
        PROVE  Found /\ at < Len(trail) /\ Child = trail[at + 1]
    <2>1. at + 1 \in 1 .. Len(trail) /\ (at + 1) - 1 = at
      BY <1>2 DEF Inv, PathTypeOK
    <2> QED
      BY <1>1, <1>2, <2>1 DEF Inv, Connected, Found, Looking, NextName, Child, PathTypeOK
  <1> QED
    BY <1>1, <1>2 DEF Led

\* After a relative symlink, resolve_path's second lookups of the walked names
\* all succeed, and end in the directory the symlink was met in.
THEOREM BackCorrect == PathSpec => []BackWhereItWas
  BY InvCorrect, BackFromInv, PTL

\* In the invariant, a call that follows symlinks stands on none.
LEMMA NeverInsideFromInv == Inv => NeverInsideLink
  BY LedNoLink DEF Inv, Placed, NeverInsideLink, PathTypeOK

\* resolve_path with follow_symlinks never looks a name up in a symlink, and
\* never answers one.
THEOREM NeverInsideCorrect == PathSpec => []NeverInsideLink
  BY InvCorrect, NeverInsideFromInv, PTL
-----------------------------------------------------------------------------
\* The next name, as the walk with a handle sees it.
LEMMA SameEntry ==
  ASSUME Inv, phase = "walk"
  PROVE  /\ WalkView.dir = node /\ WalkView.todo = pending /\ WalkView.st = "busy" /\ WalkView.res = "none"
         /\ WalkView.links = MaxSymlinks - budget /\ WalkView.follow = follow
         /\ Handle!Meets <=> Found
         /\ Found => Handle!Met = Child
         /\ Handle!MeetsLink <=> FoundLink
  <1>1. WalkView.dir = node /\ WalkView.todo = pending /\ WalkView.st = "busy" /\ WalkView.res = "none"
        /\ WalkView.links = MaxSymlinks - budget /\ WalkView.follow = follow
    BY DEF WalkView, Inv, Placed
  <1>2. Handle!Meets <=> Found
    BY <1>1 DEF Handle!Meets, Found, Looking, NextName
  <1>3. Handle!Met = Child
    BY <1>1 DEF Handle!Met, Child, NextName
  <1>4. Handle!MeetsLink <=> FoundLink
    BY <1>1, <1>2, <1>3 DEF Handle!MeetsLink, FoundLink
  <1> QED
    BY <1>1, <1>2, <1>3, <1>4

\* The view of a call that failed.
LEMMA FailView ==
  ASSUME Inv, NEW why \in {"NotADirectory", "NotFound", "Loop", "BadTarget", "Io"}, GiveUp(why)
  PROVE  WalkView' = [st |-> "done", dir |-> Root, todo |-> WalkView.todo,
                      links |-> WalkView.links, follow |-> WalkView.follow, res |-> why]
  BY DEF WalkView, GiveUp

LEMMA FailEnds ==
  ASSUME Inv, NEW why \in {"NotADirectory", "NotFound", "Loop", "BadTarget", "Io"},
         GiveUp(why), phase \in {"walk", "relook"}, why = "Io" \/ Handle!Hopeless(why)
  PROVE  Handle!Next
  <1>1. WalkView.st = "busy"
    BY DEF WalkView
  <1>2. Handle!Ended(why)
    BY FailView DEF Handle!Ended
  <1>3. Handle!GiveUp
    BY <1>2 DEF Handle!GiveUp
  <1> QED
    BY <1>1, <1>3 DEF Handle!Next

\* A step of resolve_path is a step of the walk with a handle, or none.
LEMMA StepSimulates == Inv /\ Inv' /\ [PathNext]_pathVars => [Handle!Next]_WalkView
  <1> SUFFICES ASSUME Inv, Inv', [PathNext]_pathVars PROVE [Handle!Next]_WalkView
    OBVIOUS
  <1> USE TreeAssumption
  <1>1. CASE Arrive
    <2>1. phase = "walk" /\ pending = <<>>
      BY <1>1 DEF Arrive
    <2>2. WalkView' = [st |-> "done", dir |-> node, todo |-> pending,
                       links |-> MaxSymlinks - budget, follow |-> follow, res |-> "ok"]
      BY <1>1 DEF Arrive, WalkView
    <2>3. Handle!Arrive
      BY <2>1, <2>2, SameEntry DEF Handle!Arrive, Handle!Ended
    <2> QED
      BY <2>1, <2>3, SameEntry DEF Handle!Next
  <1>2. CASE NotADirectory
    <2>1. phase = "walk" /\ pending # <<>> /\ NodeKind[node] # "dir"
      BY <1>2, BackFromInv DEF NotADirectory, BackWhereItWas, Looking, Found
    <2>2. Handle!Hopeless("NotADirectory")
      BY <2>1, SameEntry DEF Handle!Hopeless
    <2> QED
      BY <1>2, <2>1, <2>2, FailEnds DEF NotADirectory
  <1>3. CASE NotFound
    <2>1. phase = "walk" /\ pending # <<>> /\ NodeKind[node] = "dir" /\ ~Found
      BY <1>3, BackFromInv DEF NotFound, BackWhereItWas, Looking
    <2>2. Handle!Hopeless("NotFound")
      BY <2>1, SameEntry DEF Handle!Hopeless
    <2> QED
      BY <1>3, <2>1, <2>2, FailEnds DEF NotFound
  <1>4. CASE LinkLoop
    <2>1. phase = "walk" /\ FoundLink /\ budget = 0
      BY <1>4 DEF LinkLoop, FoundLink
    <2>2. Handle!Hopeless("Loop")
      BY <2>1, SameEntry DEF Handle!Hopeless
    <2> QED
      BY <1>4, <2>1, <2>2, FailEnds DEF LinkLoop
  <1>5. CASE BadTarget
    <2>1. phase = "walk" /\ FoundLink /\ Found /\ budget > 0 /\ Target[Child].bad
      BY <1>5 DEF BadTarget, FoundLink
    <2>2. WalkView.links < MaxSymlinks
      BY <2>1, SameEntry DEF Inv, PathTypeOK
    <2>3. Handle!Hopeless("BadTarget")
      BY <2>1, <2>2, SameEntry DEF Handle!Hopeless
    <2> QED
      BY <1>5, <2>1, <2>3, FailEnds DEF BadTarget
  <1>6. CASE LookupFails
    BY <1>6, FailEnds DEF LookupFails
  <1>7. CASE Descend
    <2>1. phase = "walk" /\ Found /\ ~FoundLink
      BY <1>7 DEF Descend
    <2>2. WalkView' = [st |-> "busy", dir |-> Child, todo |-> Tail(pending),
                       links |-> MaxSymlinks - budget, follow |-> follow, res |-> "none"]
      BY <1>7, <2>1 DEF Descend, WalkView, Inv, Placed
    <2>3. Handle!Descend
      BY <2>1, <2>2, SameEntry DEF Handle!Descend, Handle!Going
    <2> QED
      BY <2>1, <2>3, SameEntry DEF Handle!Next
  <1>8. CASE FollowAbsolute \/ FollowRelative
    <2>1. phase = "walk" /\ Found /\ FoundLink /\ budget > 0 /\ ~Target[Child].bad
      BY <1>8 DEF FollowAbsolute, FollowRelative, FoundLink
    <2>2. WalkView.links < MaxSymlinks /\ MaxSymlinks - (budget - 1) = (MaxSymlinks - budget) + 1
      BY <2>1, SameEntry DEF Inv, PathTypeOK
    <2>3. CASE FollowAbsolute
      <3>1. Target[Child].abs
        BY <2>3 DEF FollowAbsolute
      <3>2. WalkView' = [st |-> "busy", dir |-> Root, todo |-> Target[Child].names \o Tail(pending),
                         links |-> (MaxSymlinks - budget) + 1, follow |-> follow, res |-> "none"]
        BY <2>1, <2>2, <2>3 DEF FollowAbsolute, WalkView, Spliced, Spent, Inv, Placed
      <3>3. Handle!Follow
        BY <2>1, <2>2, <3>1, <3>2, SameEntry DEF Handle!Follow, Handle!Going
      <3> QED
        BY <2>1, <3>3, SameEntry DEF Handle!Next
    <2>4. CASE FollowRelative
      <3>1. ~Target[Child].abs
        BY <2>4 DEF FollowRelative
      <3>2. Here' = node
        BY <2>1, <2>4 DEF FollowRelative, Here, Inv, Placed, Led, FoundLink, PathTypeOK
      <3>3. WalkView' = [st |-> "busy", dir |-> node, todo |-> Target[Child].names \o Tail(pending),
                         links |-> (MaxSymlinks - budget) + 1, follow |-> follow, res |-> "none"]
        BY <2>1, <2>2, <2>4, <3>2 DEF FollowRelative, WalkView, Spliced, Spent, Inv, Placed
      <3>4. Handle!Follow
        BY <2>1, <2>2, <3>1, <3>3, SameEntry DEF Handle!Follow, Handle!Going
      <3> QED
        BY <2>1, <3>4, SameEntry DEF Handle!Next
    <2> QED
      BY <1>8, <2>3, <2>4
  <1>9. CASE Relook
    BY <1>9 DEF Relook, WalkView, Here
  <1>10. CASE Relooked
    <2>1. node = Here
      BY <1>10 DEF Relooked, BackDown, Here, Led, Inv, Placed, PathTypeOK
    <2> QED
      BY <1>10, <2>1 DEF Relooked, WalkView, Inv, Placed
  <1>11. ASSUME NEW p \in Path, NEW f \in BOOLEAN, Resolve(p, f) PROVE Handle!Next
    <2>1. WalkView' = [st |-> "busy", dir |-> Root, todo |-> p, links |-> 0, follow |-> f, res |-> "none"]
      BY <1>11 DEF Resolve, WalkView
    <2>2. Handle!Begin(p, f)
      BY <2>1 DEF Handle!Begin, Handle!Going
    <2>3. WalkView.st # "busy"
      BY <1>11 DEF Resolve, WalkView
    <2> QED
      BY <2>2, <2>3 DEF Handle!Next
  <1>12. CASE UNCHANGED pathVars
    BY <1>12 DEF pathVars, WalkView, Here
  <1> QED
    BY <1>1, <1>2, <1>3, <1>4, <1>5, <1>6, <1>7, <1>8, <1>9, <1>10, <1>11, <1>12 DEF PathNext, PathStep

\* resolve_path, which keeps names and no handle, implements the walk that
\* holds the directory it is in, for every tree, path and symlink budget.
THEOREM RefinesNameWalk == PathSpec => ImplementsNameWalk
  <1>1. PathInit => Handle!Init
    BY DEF PathInit, Handle!Init, WalkView
  <1>2. PathSpec => []Inv
    BY InvCorrect
  <1>3. Inv /\ Inv' /\ [PathNext]_pathVars => [Handle!Next]_WalkView
    BY StepSimulates
  <1> QED
    BY <1>1, <1>2, <1>3, PTL DEF PathSpec, ImplementsNameWalk, Handle!Spec
=============================================================================
