------------------------------- MODULE NameWalk -------------------------------
(***************************************************************************)
(* What following a path means: a walk that holds the directory it is in.  *)
(* A relative symlink target goes on from the directory the symlink was    *)
(* met in, an absolute one from the root, and after Limit symlinks the     *)
(* walk gives up.                                                          *)
(***************************************************************************)
EXTENDS Integers, Sequences

CONSTANTS
  Root,
  Kind,      \* Kind[n]: "dir", "link" or "file"
  Entry,     \* Entry[d]: a function from the names of directory d to nodes
  Target,    \* Target[l]: [abs, names, bad], where symlink l points
  Path,      \* the paths asked for, sequences of names
  Limit      \* symlinks one walk may follow

VARIABLE walk   \* [st, dir, todo, links, follow, res]

\* The next name names something in the directory at hand, and what it names.
Meets == walk.todo # <<>> /\ Kind[walk.dir] = "dir" /\ Head(walk.todo) \in DOMAIN Entry[walk.dir]
Met == Entry[walk.dir][Head(walk.todo)]
MeetsLink == Meets /\ walk.follow /\ Kind[Met] = "link"

\* A walk that fails shows no directory.
Ended(res) ==
  walk' = [st |-> "done", dir |-> IF res = "ok" THEN walk.dir ELSE Root, todo |-> walk.todo,
           links |-> walk.links, follow |-> walk.follow, res |-> res]

\* The walk is in d, with todo yet to consume.
Going(d, todo, links, f) ==
  walk' = [st |-> "busy", dir |-> d, todo |-> todo, links |-> links, follow |-> f, res |-> "none"]

Begin(p, f) == Going(Root, p, 0, f)

Arrive == walk.todo = <<>> /\ Ended("ok")

Descend == Meets /\ ~MeetsLink /\ Going(Met, Tail(walk.todo), walk.links, walk.follow)

Follow ==
  /\ MeetsLink /\ walk.links < Limit /\ ~Target[Met].bad
  /\ Going(IF Target[Met].abs THEN Root ELSE walk.dir,
           Target[Met].names \o Tail(walk.todo), walk.links + 1, walk.follow)

\* Why a walk may fail, the device apart.
Hopeless(why) ==
  \/ why = "NotADirectory" /\ walk.todo # <<>> /\ Kind[walk.dir] # "dir"
  \/ why = "NotFound" /\ walk.todo # <<>> /\ Kind[walk.dir] = "dir" /\ ~Meets
  \/ why = "Loop" /\ MeetsLink /\ walk.links = Limit
  \/ why = "BadTarget" /\ MeetsLink /\ walk.links < Limit /\ Target[Met].bad

GiveUp ==
  \E why \in {"NotADirectory", "NotFound", "Loop", "BadTarget", "Io"} :
    (why = "Io" \/ Hopeless(why)) /\ Ended(why)

Init == walk.st = "idle"

Next ==
  \/ walk.st = "busy" /\ (Arrive \/ Descend \/ Follow \/ GiveUp)
  \/ walk.st # "busy" /\ \E p \in Path, f \in BOOLEAN : Begin(p, f)

Spec == Init /\ [][Next]_walk
=============================================================================
