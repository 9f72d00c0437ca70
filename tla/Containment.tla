----------------------------- MODULE Containment -----------------------------
(***************************************************************************)
(* The recording cage: packages/core/src/containment/cage.ts, open, with   *)
(* connect and service, which look at names alone.                         *)
(*                                                                         *)
(* A tool's handler opens files only through its cage, which looks at the  *)
(* path (lstat), judges where it leads (resolveReal), opens it, looks at   *)
(* the descriptor (fstat) and asks where the descriptor is                 *)
(* (/proc/self/fd): five looks at a file system that other processes       *)
(* change between any two of them.                                         *)
(*                                                                         *)
(* This is the cage on Linux.  A file that is moved away while it is held  *)
(* open counts as unlinked: both are outside every root.                   *)
(***************************************************************************)
EXTENDS FileTree, FiniteSets

CONSTANTS
  Opening,     \* the handler's calls of its cage
  Name,        \* the names files have
  Place,       \* the places of the file system
  Fixed,       \* the directories nobody replaces
  Target,      \* where links may point
  Tree,        \* the file systems a call may find
  Root,        \* the domain's roots, resolved at registration
  Asked,       \* the paths handlers ask for; None is one that is not absolute
  Mode,        \* the modes they ask in
  ReadOnly,    \* the openings that are a read_only tool's
  Hosts,       \* the domain's hosts, [host, port]: port None allows every port
  LowerCase,   \* [host name as written -> its lower case]
  AskedPorts,  \* the ports handlers ask for
  Declared,    \* the domain's services
  AskedNames,  \* the services handlers ask for
  MaxSwaps,    \* bound on changes by other processes, for TLC
  None

Path == Seq(Name)

(* What may be at a place. *)
Nodes == {Node(t) : t \in NodeType \ {"link"}} \cup {LinkTo(t) : t \in Target}

(* Places, targets and paths asked for are paths, and a call finds a tree. *)
ASSUME TreeAssumption ==
  /\ Place \cup (Asked \ {None}) \subseteq Path \ {<<>>} /\ Target \subseteq Path
  /\ Fixed \subseteq Place /\ Root \subseteq Place /\ MaxSwaps \in Nat /\ ReadOnly \subseteq Opening
  /\ Tree \subseteq [Place -> Nodes] /\ \A tree \in Tree : WellFormed(tree)

(* A path that cannot be resolved is below no root (unresolvable). *)
ASSUME RootAssumption == \A root \in Root : ~Within(<<"unresolvable">>, root)

VARIABLES
  fs,      \* the file system
  swaps,   \* changes other processes made
  cage     \* per opening: where it is, what it knows, its descriptor, its records

cageVars == <<fs, swaps, cage>>

NotOpened ==
  [at |-> "idle", path |-> None, mode |-> None, leaf |-> None, parent |-> None, code |-> None,
   fd |-> None, met |-> None, wrote |-> None, moved |-> FALSE, lent |-> FALSE, stale |-> FALSE, reached |-> <<>>]

CageInit ==
  /\ fs \in Tree
  /\ swaps = 0
  /\ cage = [o \in Opening |-> NotOpened]

-----------------------------------------------------------------------------
(* flagsFor: what a mode asks of the kernel; O_NOFOLLOW and O_NONBLOCK always. *)
Known == {"r", "r+", "w", "wx", "a"}
Creates(mode) == mode \in {"w", "wx", "a"}
Truncates(mode) == mode \in {"w", "wx"}
Exclusive(mode) == mode = "wx"
Writes(mode) == mode # "r"

Inside(real) == \E root \in Root : Within(real, root)

Record(c, allowed) == [c EXCEPT !.reached = Append(@, allowed)]

(* What an opening knew is gone with its end. *)
Over(c, how) == 
  [c EXCEPT !.at = how, !.path = None, !.leaf = None, !.code = None,
            !.mode = IF how = "served" THEN @ ELSE None,
            !.parent = None, !.lent = @ /\ c.wrote # None]
Refuse(c) == Over(Record(c, FALSE), "refused")
Become(o, c) == cage' = [cage EXCEPT ![o] = c]

-----------------------------------------------------------------------------
(* connect and service: one judgement, recorded, and no look at any address. *)
HostAllowed(name, port) ==
  port \in 1..65535 /\ \E h \in Hosts : h.host = LowerCase[name] /\ h.port \in {None, port}

Reach(o, allowed) ==
  /\ cage[o].at = "idle"
  /\ Become(o, IF allowed THEN Over(Record(cage[o], TRUE), "reached") ELSE Refuse(cage[o]))
  /\ UNCHANGED <<fs, swaps>>

Connect(o, name, port) == Reach(o, HostAllowed(name, port))
Service(o, name) == Reach(o, name \in Declared)

-----------------------------------------------------------------------------
(* lstat of the leaf. *)
Look(o, path, mode) ==
  /\ cage[o].at = "idle"
  /\ Become(o, [cage[o] EXCEPT !.at = "looked", !.path = path, !.mode = mode,
                               !.leaf = IF path = None THEN "absent" ELSE LeafType(fs, path)])
  /\ UNCHANGED <<fs, swaps>>

(* Slip: only the name is judged. *)
PermittedByName(o, c) ==
  /\ c.path # None /\ c.mode \in Known /\ (o \in ReadOnly => c.mode = "r") /\ c.leaf # "link"
  /\ Inside(c.path)

Permitted(o, c) ==
  /\ c.path # None
  /\ c.mode \in Known
  /\ o \in ReadOnly => c.mode = "r"
  /\ c.leaf # "link"
  /\ Inside(ResolveReal(fs, c.path))

(* The judgement, recorded: a refusal throws. *)
Judge(o) ==
  LET c == cage[o] IN
  /\ c.at = "looked"
  /\ IF Permitted(o, c) /\ c.leaf \in {"absent", "file"}
       THEN Become(o, [Record(c, TRUE) EXCEPT !.at = "opening",
                                              !.parent = ResolveReal(fs, Front(c.path)),
                                              !.lent = LeafType(fs, c.path) = "link"])
       ELSE Become(o, Refuse(c))
  /\ UNCHANGED <<fs, swaps>>

-----------------------------------------------------------------------------
(* open(2), as the kernel answers it. *)

OpenedPlace(c) == LeafOf(fs, c.path)

ParentOpens(c) == Exists(fs, Front(c.path)) /\ TypeAt(fs, Follow(fs, Front(c.path))) = "directory"

(* The errors open may answer for what it meets; {} when it opens. *)
Errors(c, type) ==
  CASE Loops(fs, Front(c.path)) -> {"ELOOP"}
    [] ~Loops(fs, Front(c.path)) /\ ~ParentOpens(c) -> {"ENOENT"}
    [] ParentOpens(c) /\ type = "absent" -> IF Creates(c.mode) THEN {} ELSE {"ENOENT"}
    [] ParentOpens(c) /\ type # "absent" /\ Exclusive(c.mode) -> {"EEXIST"}
    [] ParentOpens(c) /\ type = "link" /\ ~Exclusive(c.mode) -> {"ELOOP"}
    [] ParentOpens(c) /\ type = "directory" /\ ~Exclusive(c.mode) ->
         IF Writes(c.mode) THEN {"EISDIR"} ELSE {}
    [] ParentOpens(c) /\ type = "fifo" /\ ~Exclusive(c.mode) ->
         IF c.mode \in {"w", "a"} THEN {"ENXIO"} ELSE {}
    [] OTHER -> {}

Meets(o) ==
  LET c == cage[o]  place == OpenedPlace(c) IN
  [c EXCEPT !.met = TypeAt(fs, place), !.moved = Follow(fs, Front(c.path)) # c.parent]

OpenFails(o) ==
  /\ cage[o].at = "opening"
  /\ LET c == Meets(o) IN
     \E code \in Errors(c, c.met) : Become(o, [c EXCEPT !.at = "caught", !.code = code])
  /\ UNCHANGED <<fs, swaps>>

Opens(o) ==
  /\ cage[o].at = "opening"
  /\ LET c == Meets(o)  place == OpenedPlace(c)
         changes == c.met = "absent" \/ (c.met = "file" /\ Truncates(c.mode)) IN
     /\ Errors(c, c.met) = {}
     /\ fs' = IF c.met = "absent" THEN [fs EXCEPT ![place] = Node("file")] ELSE fs
     /\ Become(o, [c EXCEPT !.at = "opened", !.wrote = IF changes THEN place ELSE None,
                            !.fd = [place |-> place, held |-> TRUE,
                                    type |-> IF c.met = "absent" THEN "file" ELSE c.met]])
  /\ UNCHANGED swaps

(* The catch: which failed opens were attempts at something not a regular file.
   EEXIST is one only by what lstat finds at the leaf now. *)
Attempt(c, leafNow) ==
  \/ c.code \in {"ELOOP", "ENXIO", "EISDIR"}
  \/ c.code = "EEXIST" /\ leafNow \notin {"file", "absent"}

Caught(o) ==
  /\ cage[o].at = "caught"
  /\ LET c == cage[o]  leafNow == LeafType(fs, c.path)
         known == [c EXCEPT !.stale = leafNow # c.met] IN
     Become(o, IF Attempt(c, leafNow) THEN Refuse(known) ELSE Over(known, "failed"))
  /\ UNCHANGED <<fs, swaps>>

-----------------------------------------------------------------------------
(* Slip: a refused handle is left for the collector. *)
DropOpen(c) == Refuse(c)

(* close, then the refusal. *)
Drop(c) == Refuse([c EXCEPT !.fd.held = FALSE])

(* The descriptor's own type. *)
Stat(o) ==
  LET c == cage[o] IN
  /\ c.at = "opened"
  /\ Become(o, IF c.fd.type = "file" THEN [c EXCEPT !.at = "stated"] ELSE Drop(c))
  /\ UNCHANGED <<fs, swaps>>

(* Slip: the descriptor's place is not asked for. *)
FoundInsideAlways(c) == c.fd.place # None

(* realpath of /proc/self/fd: nothing, once the file is unlinked or moved away. *)
FoundInside(c) == c.fd.place # None /\ Inside(c.fd.place)

Find(o) ==
  LET c == cage[o] IN
  /\ c.at = "stated"
  /\ Become(o, IF FoundInside(c) THEN Over(c, "served") ELSE Drop(c))
  /\ UNCHANGED <<fs, swaps>>

-----------------------------------------------------------------------------
(* Another process puts a node at a place, with nothing below it, and what was
   there or below it is unlinked. *)
Swap(p, node) ==
  /\ swaps < MaxSwaps
  /\ p \notin Fixed /\ fs[p] # node
  /\ TypeAt(fs, Front(p)) = "directory"
  /\ swaps' = swaps + 1
  /\ fs' = [q \in Place |-> IF q = p THEN node ELSE IF IsPrefix(p, q) THEN Node("absent") ELSE fs[q]]
  /\ cage' = [o \in Opening |->
       IF cage[o].fd # None /\ cage[o].at # "served"
         THEN IF cage[o].fd.place # None /\ IsPrefix(p, cage[o].fd.place)
              THEN [cage[o] EXCEPT !.fd.place = None] ELSE cage[o]
         ELSE cage[o]]

OthersMove ==
  \E p \in Place, node \in Nodes : Swap(p, node)

CageStep(o) ==
  Judge(o) \/ OpenFails(o) \/ Opens(o) \/ Caught(o) \/ Stat(o) \/ Find(o)

CageNext ==
  \/ \E o \in Opening :
       \/ CageStep(o)
       \/ \E path \in Asked, mode \in Mode : Look(o, path, mode)
       \/ \E name \in DOMAIN LowerCase, port \in AskedPorts : Connect(o, name, port)
       \/ \E name \in AskedNames : Service(o, name)
  \/ OthersMove

CageSpec == CageInit /\ [][CageNext]_cageVars

-----------------------------------------------------------------------------
(* Properties *)

(* A handler is given a descriptor only of a regular file inside a root, and a
   read_only tool only one opened to read, whatever was swapped for what
   between the cage's looks (cage.ts:291-365). *)
ServedInside ==
  \A o \in Opening : LET c == cage[o] IN
    c.at = "served" =>
      /\ c.fd.held /\ c.fd.type = "file" /\ Inside(c.fd.place)
      /\ o \in ReadOnly => c.mode = "r"
      /\ c.reached = <<TRUE>>

(* Nothing outside the roots is created or truncated through a link in the last
   name: a write outside happens only where a directory on the way leads
   elsewhere at the open than at the check, the limit cage.ts states, or where a
   path outside every root was judged by a link that was there for the judgement
   and for neither lstat nor open; its handle is never served (cage.ts:252-254,
   278-283).  A read_only tool's cage changes nothing at all. *)
WritesOnlyThroughADirectory ==
  \A o \in Opening : LET c == cage[o] IN
    c.wrote # None =>
      /\ o \notin ReadOnly
      /\ ~Inside(c.wrote) => c.at # "served" /\ (c.moved \/ c.lent)

(* A refused or failed open holds no descriptor, and an open that met a link, a
   FIFO or a directory is on record as refused; but for an exclusive create
   whose leaf changed again before it was looked at, as cage.ts:275-276 says. *)
AttemptsAreRecorded ==
  \A o \in Opening : LET c == cage[o] IN
    /\ c.at \in {"refused", "failed"} => c.fd = None \/ ~c.fd.held
    /\ c.at = "refused" => c.reached # <<>> /\ ~Last(c.reached)
    /\ c.at = "reached" => c.reached = <<TRUE>>
    /\ c.at = "failed" => c.met \in {"absent", "file"} \/ c.stale

=============================================================================
