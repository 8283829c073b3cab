--------------------------- MODULE RouteRegistry ----------------------------
(***************************************************************************)
(* RouteRuntime of self_grow_agent/runtime.py: the registry of dynamic     *)
(* routes, called by several threads (the event loop publishes restricted  *)
(* routes, worker threads publish plugins).  Every mutating method runs in *)
(* two critical sections of one re-entrant lock:                           *)
(*                                                                         *)
(*   - Prepare: check the request against the records in memory, then,     *)
(*     outside the lock, compile the handler or verify the artifact;       *)
(*   - Recheck: check again, write the source file, replace routes.json,   *)
(*     swap the records in memory.                                         *)
(*                                                                         *)
(* The second section is split where a crash or an I/O error can fall.     *)
(* The lock is not a variable: a caller holds it exactly in the phases of  *)
(* InLock, and the steps that acquire it need LockFree.                    *)
(*                                                                         *)
(* A route stands for a (method, path) pair and for its route id, which    *)
(* _route_id computes from the pair; two pairs share an id only if 64 bits *)
(* of SHA-256 collide.  Methods do not interact: a move keeps the method.  *)
(***************************************************************************)
EXTENDS Naturals

CONSTANTS
  Callers,     \* threads inside RouteRuntime
  Routes,      \* method/path pairs
  Projects,
  Codes,       \* generated handlers; each is offered by at most one call
  Methods,     \* the methods of RouteRuntime the callers use
  MaxVersion,  \* bound on versions
  NoRoute, NoCode, NoCall

Creates == {"create", "create_plugin"}
Updates == {"update", "update_plugin"}
Moves   == {"move", "move_plugin"}

ASSUME RegistryAssumption ==
  /\ MaxVersion \in Nat \ {0}
  /\ Methods \subseteq Creates \cup Updates \cup Moves
  /\ NoCode \notin Codes

Modes == {"restricted", "plugin"}

\* origin is a history field, as in RouteTable.
Record == [version : 1..MaxVersion, project : Projects, mode : Modes,
           code : Codes, origin : Codes]

ASSUME NoRouteAssumption == NoRoute \notin Record

\* What routes.json keeps of a record: a restricted entry names its source
\* file, a plugin entry carries the digest of its bundle.
Entry == [version : 1..MaxVersion, project : Projects, mode : Modes,
          code : Codes \cup {NoCode}, origin : Codes]

ASSUME NoEntryAssumption == NoRoute \notin Entry

\* One call between its two critical sections: what it saw, what it will
\* commit, and whether its source file existed before the commit.
Call == [method : Methods, from : Routes, to : Routes,
         seen : Record \cup {NoRoute}, new : Record, existed : BOOLEAN]

ASSUME NoCallAssumption == NoCall \notin Call

VARIABLES
  up,        \* the process is running and has restored its routes
  mem,       \* _records (and _records_by_id): route -> record
  manifest,  \* routes.json: route -> entry
  files,     \* generated sources <route id>.v<version>.py
  phase,     \* where each caller is
  call,      \* the call each caller is in
  used,      \* history: codes offered so far
  acked      \* history: the last version acknowledged to a caller, by origin

disk == <<manifest, files>>
vars == <<up, mem, manifest, files, phase, call, used, acked>>

Phases == {"idle", "candidate", "locked", "sourced", "persisted"}
InLock == {"locked", "sourced", "persisted"}

LockFree == \A c \in Callers : phase[c] \notin InLock

TypeOK ==
  /\ up \in BOOLEAN
  /\ mem \in [Routes -> Record \cup {NoRoute}]
  /\ manifest \in [Routes -> Entry \cup {NoRoute}]
  /\ files \in [Routes -> [1..MaxVersion -> Codes \cup {NoCode}]]
  /\ phase \in [Callers -> Phases]
  /\ call \in [Callers -> Call \cup {NoCall}]
  /\ used \subseteq Codes
  /\ acked \in [Codes -> 0..MaxVersion]

-----------------------------------------------------------------------------
(* Records, manifest entries and source files.                             *)

ModeOf(m) ==
  IF m \in {"create_plugin", "update_plugin", "move_plugin"}
    THEN "plugin" ELSE "restricted"

\* Variations of VersionAfter: a version skipped, and none advanced.
VersionAfterNext(version) == version + 2

VersionUnchanged(version) == version

\* expected_version + 1
VersionAfter(version) == version + 1

\* _serialize_record: the source text of a restricted record stays in its file.
Serialized(record) ==
  IF record = NoRoute THEN NoRoute
  ELSE [record EXCEPT !.code = IF record.mode = "plugin" THEN @ ELSE NoCode]

\* _restore_record: a restricted handler is whatever its source file holds.
Restored(r, entry) ==
  IF entry = NoRoute THEN NoRoute
  ELSE [entry EXCEPT !.code =
          IF entry.mode = "plugin" THEN @ ELSE files[r][entry.version]]

\* The routes a restart would serve.
Durable == [r \in Routes |-> Restored(r, manifest[r])]

\* _restore fails as a whole when one source file is missing.
Restorable ==
  \A r \in Routes :
    manifest[r] # NoRoute => Restored(r, manifest[r]).code # NoCode

Init ==
  /\ up = TRUE
  /\ mem = [r \in Routes |-> NoRoute]
  /\ manifest = [r \in Routes |-> NoRoute]
  /\ files = [r \in Routes |-> [v \in 1..MaxVersion |-> NoCode]]
  /\ phase = [c \in Callers |-> "idle"]
  /\ call = [c \in Callers |-> NoCall]
  /\ used = {}
  /\ acked = [o \in Codes |-> 0]

-----------------------------------------------------------------------------
(* The first critical section, and the build after it.                     *)

\* A call in progress starts from what its first critical section read.
Offer(c, m, r, t, seen, new) ==
  /\ up
  /\ LockFree
  /\ phase[c] = "idle"
  /\ m \in Methods
  /\ phase' = [phase EXCEPT ![c] = "candidate"]
  /\ call' = [call EXCEPT ![c] = [method |-> m, from |-> r, to |-> t,
                                  seen |-> seen, new |-> new, existed |-> FALSE]]
  /\ used' = used \cup {new.code}
  /\ UNCHANGED <<up, mem, disk, acked>>

\* create, create_plugin: the route must be free; it starts at version one.
PrepareCreate(c, m, r, p, code) ==
  /\ m \in Creates
  /\ code \notin used
  /\ mem[r] = NoRoute
  /\ Offer(c, m, r, r, NoRoute,
           [version |-> 1, project |-> p, mode |-> ModeOf(m),
            code |-> code, origin |-> code])

\* The caller named the version that is active: the candidate is one further.
Successor(m, r, p, code) ==
  [version |-> VersionAfter(mem[r].version), project |-> p, mode |-> ModeOf(m),
   code |-> code, origin |-> mem[r].origin]

\* update, update_plugin: everything but the handler stays.
PrepareUpdate(c, m, r, code) ==
  /\ m \in Updates
  /\ code \notin used
  /\ mem[r] # NoRoute
  /\ mem[r].version < MaxVersion
  /\ Offer(c, m, r, r, mem[r], Successor(m, r, mem[r].project, code))

(***************************************************************************)
(* move, move_plugin: the target must be free, or be the route itself (a   *)
(* change of project).  move refuses to change nothing, and without a new  *)
(* source keeps the current one, which only a restricted route has.        *)
(***************************************************************************)
PrepareMove(c, m, r, t, p, code) ==
  /\ m \in Moves
  /\ mem[r] # NoRoute
  /\ mem[r].version < MaxVersion
  /\ mem[t] = NoRoute \/ t = r
  /\ m = "move" => t # r \/ p # mem[r].project
  /\ \/ code \notin used
     \/ m = "move" /\ mem[r].mode = "restricted" /\ code = mem[r].code
  /\ Offer(c, m, r, t, mem[r], Successor(m, r, p, code))

\* The loader rejects the source, or the artifact does not verify.
BuildFails(c) ==
  /\ phase[c] = "candidate"
  /\ phase' = [phase EXCEPT ![c] = "idle"]
  /\ call' = [call EXCEPT ![c] = NoCall]
  /\ UNCHANGED <<up, mem, disk, used, acked>>

-----------------------------------------------------------------------------
(* The second critical section.                                            *)

\* Variations of the two rechecks: existence alone, and no look at the target.
RouteExists(c) == mem[call[c].from] # NoRoute

TargetIgnored(c) == call[c].to \in Routes

VersionMatches(c) ==
  /\ mem[call[c].from] # NoRoute
  /\ mem[call[c].from].version = call[c].seen.version

TargetFree(c) == mem[call[c].to] = NoRoute \/ call[c].to = call[c].from

\* move_plugin does not look at the target again.
StillValid(c) ==
  LET m == call[c].method IN
  \/ m \in Creates /\ mem[call[c].to] = NoRoute
  \/ m \in Updates /\ VersionMatches(c)
  \/ m = "move" /\ VersionMatches(c) /\ TargetFree(c)
  \/ m = "move_plugin" /\ VersionMatches(c)

(***************************************************************************)
(* The route that is committed is the one found now: origin, which only    *)
(* identifies it, follows the active record.                               *)
(***************************************************************************)
Identified(c) ==
  IF call[c].method \in Creates THEN call[c].new
  ELSE [call[c].new EXCEPT !.origin = mem[call[c].from].origin]

Recheck(c) ==
  /\ phase[c] = "candidate"
  /\ LockFree
  /\ StillValid(c)
  /\ phase' = [phase EXCEPT ![c] = "locked"]
  /\ call' = [call EXCEPT ![c].new = Identified(c)]
  /\ UNCHANGED <<up, mem, disk, used, acked>>

\* RouteAlreadyExistsError, RouteNotFoundError or VersionConflictError.
Conflict(c) ==
  /\ phase[c] = "candidate"
  /\ LockFree
  /\ ~StillValid(c)
  /\ phase' = [phase EXCEPT ![c] = "idle"]
  /\ call' = [call EXCEPT ![c] = NoCall]
  /\ UNCHANGED <<up, mem, disk, used, acked>>

FileHolds(c) == files[call[c].to][call[c].new.version]

\* _commit_records: the source file is replaced atomically, before the manifest.
WriteSource(c) ==
  /\ phase[c] = "locked"
  /\ call[c].new.mode = "restricted"
  /\ files' = [files EXCEPT ![call[c].to][call[c].new.version] = call[c].new.code]
  /\ call' = [call EXCEPT ![c].existed = FileHolds(c) # NoCode]
  /\ phase' = [phase EXCEPT ![c] = "sourced"]
  /\ UNCHANGED <<up, mem, manifest, used, acked>>

WriteSourceFails(c) ==
  /\ phase[c] = "locked"
  /\ call[c].new.mode = "restricted"
  /\ phase' = [phase EXCEPT ![c] = "idle"]
  /\ call' = [call EXCEPT ![c] = NoCall]
  /\ UNCHANGED <<up, mem, disk, used, acked>>

\* next_records: the old key is dropped, the candidate takes the new one.
NextRecords(c) ==
  [r \in Routes |->
    IF r = call[c].to THEN call[c].new
    ELSE IF call[c].method \in Moves /\ r = call[c].from THEN NoRoute
    ELSE mem[r]]

\* A variation: the manifest before the source file.
ReadyBeforeSource(c) == phase[c] \in {"locked", "sourced"}

\* A plugin has no source file to write.
ReadyForManifest(c) ==
  \/ phase[c] = "sourced"
  \/ phase[c] = "locked" /\ call[c].new.mode = "plugin"

WriteManifest(c) ==
  /\ ReadyForManifest(c)
  /\ manifest' = [r \in Routes |-> Serialized(NextRecords(c)[r])]
  /\ phase' = [phase EXCEPT ![c] = "persisted"]
  /\ UNCHANGED <<up, mem, files, call, used, acked>>

\* A source file that was not there before goes away again, if it can be unlinked.
Unlinked(c) ==
  IF phase[c] = "sourced" /\ ~call[c].existed
    THEN {files, [files EXCEPT ![call[c].to][call[c].new.version] = NoCode]}
    ELSE {files}

WriteManifestFails(c) ==
  /\ ReadyForManifest(c)
  /\ files' \in Unlinked(c)
  /\ phase' = [phase EXCEPT ![c] = "idle"]
  /\ call' = [call EXCEPT ![c] = NoCall]
  /\ UNCHANGED <<up, mem, manifest, used, acked>>

\* The records in memory are swapped, the lock released and the record returned.
Activate(c) ==
  /\ phase[c] = "persisted"
  /\ mem' = NextRecords(c)
  /\ acked' = [acked EXCEPT ![call[c].new.origin] = call[c].new.version]
  /\ phase' = [phase EXCEPT ![c] = "idle"]
  /\ call' = [call EXCEPT ![c] = NoCall]
  /\ UNCHANGED <<up, disk, used>>

-----------------------------------------------------------------------------
(* The process ends at any point, and starts again from the disk.          *)

Crash ==
  /\ up
  /\ up' = FALSE
  /\ mem' = [r \in Routes |-> NoRoute]
  /\ phase' = [c \in Callers |-> "idle"]
  /\ call' = [c \in Callers |-> NoCall]
  /\ UNCHANGED <<disk, used, acked>>

Restore ==
  /\ ~up
  /\ Restorable
  /\ up' = TRUE
  /\ mem' = Durable
  /\ UNCHANGED <<disk, phase, call, used, acked>>

Prepare(c) ==
  \E m \in Methods, r, t \in Routes, p \in Projects, code \in Codes :
    \/ t = r /\ PrepareCreate(c, m, r, p, code)
    \/ t = r /\ PrepareUpdate(c, m, r, code)
    \/ PrepareMove(c, m, r, t, p, code)

Next ==
  \/ \E c \in Callers :
       \/ Prepare(c) \/ BuildFails(c) \/ Recheck(c) \/ Conflict(c)
       \/ WriteSource(c) \/ WriteSourceFails(c)
       \/ WriteManifest(c) \/ WriteManifestFails(c) \/ Activate(c)
  \/ Crash
  \/ Restore

Spec == Init /\ [][Next]_vars

-----------------------------------------------------------------------------
(* Properties.                                                             *)

(***************************************************************************)
(* Whatever the moment of a crash, between any two writes of a commit or   *)
(* after a failed one, the service can start again: every entry of         *)
(* routes.json finds its source file (runtime.py:655-677, 826-847).        *)
(***************************************************************************)
AlwaysRestorable == Restorable

(***************************************************************************)
(* The routes requests are dispatched to are exactly the routes, with the  *)
(* same code, that a restart would bring back; only between the two last   *)
(* steps of a commit, under the lock, is the disk ahead (662-677).         *)
(***************************************************************************)
ServedIsDurable ==
  up /\ (\A c \in Callers : phase[c] # "persisted") => mem = Durable

(***************************************************************************)
(* A route is in one place: a move never leaves it, or an older version of *)
(* it, behind at its previous path, not even after a crash (486-492).      *)
(***************************************************************************)
OnePlace ==
  \A r, s \in Routes :
    /\ Durable[r] # NoRoute
    /\ Durable[s] # NoRoute
    /\ Durable[r].origin = Durable[s].origin
    => r = s

(***************************************************************************)
(* What a caller was told is published stays published: the route is       *)
(* durable somewhere, at that version or a later one.  There is no delete. *)
(* README.md:121: concurrent management requests do not overwrite each     *)
(* other's results.                                                        *)
(***************************************************************************)
AcknowledgedSurvives ==
  \A o \in Codes :
    acked[o] > 0 =>
      \E r \in Routes :
        /\ Durable[r] # NoRoute
        /\ Durable[r].origin = o
        /\ Durable[r].version >= acked[o]

(***************************************************************************)
(* The durable routes, code included, change only as RouteTable says: by   *)
(* compare-and-swap on one route's version, in the step that replaces      *)
(* routes.json, whatever the interleaving, the crash or the I/O error.     *)
(***************************************************************************)
Table == INSTANCE RouteTable WITH
  table <- Durable,
  EvictingModes <- IF "move_plugin" \in Methods THEN {"plugin"} ELSE {}

ImplementsTable == Table!Spec
=============================================================================
