----------------------------- MODULE PathResolve -----------------------------
(***************************************************************************)
(* `Filesystem::resolve_path` (and `lookup_path`, which it is when it does *)
(* not follow symlinks).                                                   *)
(*                                                                         *)
(* The code keeps no directory handle.  It keeps the names it has walked   *)
(* through, and after a relative symlink looks every one of them up again  *)
(* from the root to get back to the symlink's directory.                   *)
(***************************************************************************)
EXTENDS Integers, Sequences

CONSTANTS
  Node, Root,
  NodeKind,      \* NodeKind[n]: "dir", "link" or "file"
  Entry,         \* Entry[d]: the directory entries of d, a function
  Target,        \* Target[l]: [abs, names, bad]; bad: unreadable or not UTF-8
  Path,          \* paths callers ask for, split at '/'
  MaxSymlinks,   \* MAXSYMLINKS
  MaxCalls       \* bound: calls

VARIABLES
  phase,         \* "idle", "walk", "relook", "done"
  follow,        \* follow_symlinks
  pending,       \* components yet to consume, leftmost first
  walked,        \* components walked through so far
  node,          \* the current inode
  budget,        \* symlinks that may still be expanded
  at,            \* components of walked already looked up again
  answer,        \* what the call returned
  calls,         \* bounded by MaxCalls
  trail          \* history: trail[i] is the inode walked[i] led to

pathVars == <<phase, follow, pending, walked, node, budget, at, answer, calls, trail>>

ASSUME TreeAssumption ==
  /\ Root \in Node /\ NodeKind[Root] = "dir"
  /\ NodeKind \in [Node -> {"dir", "link", "file"}]
  /\ DOMAIN Entry = {n \in Node : NodeKind[n] = "dir"}
  /\ \A d \in DOMAIN Entry : \A x \in DOMAIN Entry[d] : Entry[d][x] \in Node
  /\ Target \in [{n \in Node : NodeKind[n] = "link"} ->
                  [abs : BOOLEAN, names : Seq(STRING), bad : BOOLEAN]]
  /\ Path \subseteq Seq(STRING)
  /\ MaxSymlinks \in Nat /\ MaxCalls \in Nat
-----------------------------------------------------------------------------
\* The name looked up next, in `node`.
NextName == IF phase = "relook" THEN walked[at + 1] ELSE Head(pending)
Looking == (phase = "walk" /\ pending # <<>>) \/ (phase = "relook" /\ at < Len(walked))

Found == Looking /\ NodeKind[node] = "dir" /\ NextName \in DOMAIN Entry[node]
Child == Entry[node][NextName]

\* Seeded fault: a symlink in the last place is returned as it is.
FoundLink_NotLast ==
  phase = "walk" /\ Found /\ follow /\ NodeKind[Child] = "link" /\ Len(pending) > 1

FoundLink == phase = "walk" /\ Found /\ follow /\ NodeKind[Child] = "link"

GiveUp(why) ==
  /\ phase' = "done"
  /\ answer' = why
  /\ UNCHANGED <<follow, pending, walked, node, budget, at, calls, trail>>

PathInit ==
  /\ phase = "idle" /\ follow = FALSE
  /\ pending = <<>> /\ walked = <<>> /\ trail = <<>>
  /\ node = Root /\ budget = MaxSymlinks /\ at = 0
  /\ answer = "none" /\ calls = 0

Resolve(p, f) ==
  /\ phase \in {"idle", "done"} /\ calls < MaxCalls
  /\ calls' = calls + 1
  /\ phase' = "walk" /\ follow' = f /\ pending' = p /\ walked' = <<>> /\ trail' = <<>>
  /\ node' = Root /\ budget' = MaxSymlinks /\ at' = 0 /\ answer' = "none"

\* Nothing left to consume.
Arrive ==
  /\ phase = "walk" /\ pending = <<>>
  /\ phase' = "done" /\ answer' = "ok"
  /\ UNCHANGED <<follow, pending, walked, node, budget, at, calls, trail>>

\* lookup's refusals.
NotADirectory == Looking /\ NodeKind[node] # "dir" /\ GiveUp("NotADirectory")
NotFound == Looking /\ NodeKind[node] = "dir" /\ ~Found /\ GiveUp("NotFound")

\* A component that is not a symlink; lookup_path keeps no walked prefix.
Descend ==
  /\ phase = "walk" /\ Found /\ ~FoundLink
  /\ node' = Child
  /\ pending' = Tail(pending)
  /\ walked' = IF follow THEN Append(walked, Head(pending)) ELSE walked
  /\ trail' = IF follow THEN Append(trail, Child) ELSE trail
  /\ UNCHANGED <<phase, follow, budget, at, answer, calls>>

LinkLoop == FoundLink /\ budget = 0 /\ GiveUp("Loop")
BadTarget == FoundLink /\ budget > 0 /\ Target[Child].bad /\ GiveUp("BadTarget")

\* Seeded fault: the rest of the path is consumed before the target.
Spliced_Behind(t) == Tail(pending) \o t.names

\* The target's components go in front of the rest.
Spliced(t) == t.names \o Tail(pending)

\* Seeded fault: only a relative target costs budget.
Spent_Relative(t) == IF t.abs THEN budget ELSE budget - 1

Spent(t) == budget - 1

\* An absolute target: from the root, the walked prefix dropped.
FollowAbsolute ==
  /\ FoundLink /\ budget > 0 /\ ~Target[Child].bad /\ Target[Child].abs
  /\ node' = Root
  /\ walked' = <<>> /\ trail' = <<>>
  /\ pending' = Spliced(Target[Child])
  /\ budget' = Spent(Target[Child])
  /\ UNCHANGED <<phase, follow, at, answer, calls>>

\* A relative target: from the root, and back down the walked prefix.
FollowRelative ==
  /\ FoundLink /\ budget > 0 /\ ~Target[Child].bad /\ ~Target[Child].abs
  /\ node' = Root
  /\ pending' = Spliced(Target[Child])
  /\ budget' = Spent(Target[Child])
  /\ phase' = "relook"
  /\ UNCHANGED <<follow, walked, at, answer, calls, trail>>

\* One lookup of the way back down.
Relook ==
  /\ phase = "relook" /\ Found
  /\ node' = Child
  /\ at' = at + 1
  /\ UNCHANGED <<phase, follow, pending, walked, budget, answer, calls, trail>>

BackDown == at = Len(walked)

Relooked ==
  /\ phase = "relook" /\ BackDown
  /\ phase' = "walk"
  /\ at' = 0
  /\ UNCHANGED <<follow, pending, walked, node, budget, answer, calls, trail>>

\* A directory, an inode or a target that the device does not give.
LookupFails == phase \in {"walk", "relook"} /\ GiveUp("Io")

PathStep ==
  \/ Arrive \/ NotADirectory \/ NotFound \/ Descend \/ LinkLoop \/ BadTarget
  \/ FollowAbsolute \/ FollowRelative \/ Relook \/ Relooked

PathNext == PathStep \/ LookupFails \/ \E p \in Path, f \in BOOLEAN : Resolve(p, f)

PathSpec == PathInit /\ [][PathNext]_pathVars

\* A call, once made, runs on; that the device fails is never counted on.
FairPathSpec == PathSpec /\ WF_pathVars(PathStep)
-----------------------------------------------------------------------------
\* The directory a walk is in: the last of the trail, or the root.
Here == IF trail = <<>> THEN Root ELSE trail[Len(trail)]

\* Every variable has its type, and the trail keeps step with the walked names.
PathTypeOK ==
  /\ phase \in {"idle", "walk", "relook", "done"}
  /\ follow \in BOOLEAN
  /\ node \in Node
  /\ pending \in Seq(STRING) /\ walked \in Seq(STRING)
  /\ budget \in 0 .. MaxSymlinks
  /\ at \in 0 .. Len(walked)
  /\ trail \in Seq(Node) /\ Len(trail) = Len(walked)
  /\ answer \in {"none", "ok", "NotADirectory", "NotFound", "Loop", "BadTarget", "Io"}
  /\ calls \in 0 .. MaxCalls

\* Looking the walked names up again ends in the directory the symlink was met
\* in, and passes through what the first walk passed through: it cannot fail.
BackWhereItWas ==
  phase = "relook" =>
    /\ node = (IF at = 0 THEN Root ELSE trail[at])
    /\ at < Len(walked) => Found /\ at < Len(trail) /\ Child = trail[at + 1]

\* A call that follows symlinks never goes on from one, and never answers one.
NeverInsideLink == (follow /\ phase # "idle") => NodeKind[node] # "link"

\* Every call returns, symlink cycles included.
CallsReturn == (phase = "walk") ~> (phase = "done")

\* Callers see the walk that holds its directory.
WalkView ==
  [st     |-> IF phase \in {"walk", "relook"} THEN "busy" ELSE phase,
   dir    |-> IF phase = "relook" THEN Here
              ELSE IF answer \in {"none", "ok"} THEN node ELSE Root,
   todo   |-> pending,
   links  |-> MaxSymlinks - budget,
   follow |-> follow,
   res    |-> answer]

Handle == INSTANCE NameWalk WITH
  Kind <- NodeKind, Limit <- MaxSymlinks, walk <- WalkView

\* The code that keeps no handle walks as the one that does.
ImplementsNameWalk == Handle!Spec
=============================================================================
