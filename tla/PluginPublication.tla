------------------------- MODULE PluginPublication -------------------------
(***************************************************************************)
(* PluginPublisher of self_grow_agent/plugin_runtime.py: how a generated   *)
(* plugin becomes a route.  Several publications run at once, each in a    *)
(* worker thread, over three shared things: the route table (RouteRuntime),*)
(* the artifact directories <project>/<route id>/v<N>, and the workspaces  *)
(* named by operation ids (plugin_workspace.py).                           *)
(*                                                                         *)
(*   generated -> workspace -> published -> verified -> activated          *)
(*                                                                         *)
(* The calls that only read, or change nothing another publication can see *)
(* (the plugin's tests, the receipt note of before_activate, current.json, *)
(* which no one reads), are part of the step after them, and their         *)
(* failures are exceptions.  An exception and the finally clause are one   *)
(* step: until the clause has run, the others see what they saw before.    *)
(*                                                                         *)
(* A commit of RouteRuntime is one step, as RouteTable promises.  The      *)
(* bundle of a plugin is its digest.                                       *)
(***************************************************************************)
EXTENDS Naturals

CONSTANTS
  Publishers,  \* threads that publish
  Routes, Projects,
  Digests,     \* bundles
  Workspaces,  \* operation ids
  MaxVersion,  \* bound on versions
  Faults,      \* what can go wrong beside a rejected candidate
  NoRoute, NoDigest, NoPublisher

ASSUME PublicationAssumption ==
  /\ MaxVersion \in Nat \ {0}
  /\ Faults \subseteq {"crash", "disk"}
  /\ NoDigest \notin Digests

Versions == 1..MaxVersion

\* home is the project in whose directories the artifact is (artifact_path); a
\* restricted route has none.
Record == [version : Versions, project : Projects, home : Projects,
           digest : Digests \cup {NoDigest}]

Phases == {"generated", "workspace", "published", "verified", "activated"}

\* from is where the route was, to where its artifact goes; published (that
\* published_path is set) and activated are locals of _publish.
Publication == [pc : Phases, method : {"create", "update", "move"}, from : Routes,
                to : Routes, project : Projects, version : Versions,
                digest : Digests, id : Workspaces, published : BOOLEAN,
                activated : BOOLEAN]

ASSUME NoneAssumption == NoRoute \notin Record /\ NoPublisher \notin Publication

VARIABLES
  up,         \* the service is running
  keep,       \* PLUGIN_KEEP_FAILED_WORKSPACES
  table,      \* the routes served and kept in routes.json
  artifact,   \* project, route, version -> the bundle in that directory
  workspace,  \* the workspaces that exist
  running,    \* what each publisher is doing
  served,     \* history: the artifacts that were ever activated
  tidy        \* history: nothing was left undone by a crash or a full disk

vars == <<up, keep, table, artifact, workspace, running, served, tidy>>

TypeOK ==
  /\ up \in BOOLEAN
  /\ keep \in BOOLEAN
  /\ table \in [Routes -> Record \cup {NoRoute}]
  /\ artifact \in [Projects -> [Routes -> [Versions -> Digests \cup {NoDigest}]]]
  /\ workspace \subseteq Workspaces
  /\ running \in [Publishers -> Publication \cup {NoPublisher}]
  /\ served \subseteq Projects \X Routes \X Versions
  /\ tidy \in BOOLEAN

Init ==
  /\ up = TRUE
  /\ keep \in BOOLEAN
  /\ table = [r \in Routes |-> NoRoute]
  /\ artifact = [p \in Projects |-> [r \in Routes |-> [v \in Versions |-> NoDigest]]]
  /\ workspace = {}
  /\ running = [t \in Publishers |-> NoPublisher]
  /\ served = {}
  /\ tidy = TRUE

At(t, pc) == up /\ running[t] # NoPublisher /\ running[t].pc = pc

Goto(t, pc) == running' = [running EXCEPT ![t].pc = pc]

Stop(t) == running' = [running EXCEPT ![t] = NoPublisher]

\* What the directory of a publication holds.
Directory(t) == artifact[running[t].project][running[t].to][running[t].version]

SetDirectory(t, digest) ==
  artifact' = [artifact EXCEPT
    ![running[t].project][running[t].to][running[t].version] = digest]

-----------------------------------------------------------------------------
(* Requests.                                                               *)

\* An operation has an id of its own; /implement passes the requirement's,
\* which a failed attempt may have used before.
IdAvailable(id) ==
  \A t \in Publishers : running[t] # NoPublisher => running[t].id # id

Begin(t, method, from, to, project, version, digest, id) ==
  /\ up
  /\ running[t] = NoPublisher
  /\ IdAvailable(id)
  /\ running' = [running EXCEPT ![t] =
       [pc |-> "generated", method |-> method, from |-> from, to |-> to,
        project |-> project, version |-> version, digest |-> digest, id |-> id,
        published |-> FALSE, activated |-> FALSE]]
  /\ UNCHANGED <<up, keep, table, artifact, workspace, served, tidy>>

\* A variation: every update skips a version.
FollowingSkipped(route) == table[route].version + 2

\* expected_version + 1, after the version was found to match.
Following(route) == table[route].version + 1

BeginCreate(t, route, project, digest, id) ==
  /\ table[route] = NoRoute
  /\ Begin(t, "create", route, route, project, 1, digest, id)

BeginUpdate(t, route, digest, id) ==
  /\ table[route] # NoRoute
  /\ table[route].version < MaxVersion
  /\ Begin(t, "update", route, route, table[route].project, Following(route), digest, id)

BeginMove(t, route, to, project, digest, id) ==
  /\ table[route] # NoRoute
  /\ table[route].version < MaxVersion
  /\ to # route \/ project # table[route].project
  /\ Begin(t, "move", route, to, project, Following(route), digest, id)

\* rollback: the bundle of an older version, loaded and verified, as an update.
BeginRollback(t, route, older, id) ==
  /\ table[route] # NoRoute
  /\ table[route].digest # NoDigest
  /\ table[route].version < MaxVersion
  /\ older < table[route].version
  /\ LET bundle == artifact[table[route].project][route][older] IN
     /\ bundle # NoDigest
     /\ Begin(t, "update", route, route, table[route].project, Following(route), bundle, id)

\* A restricted handler published at a route: RouteRuntime.create, update, move.
CreateRestricted(route, project) ==
  /\ up
  /\ table[route] = NoRoute
  /\ table' = [table EXCEPT ![route] =
       [version |-> 1, project |-> project, home |-> project, digest |-> NoDigest]]
  /\ UNCHANGED <<up, keep, artifact, workspace, running, served, tidy>>

PublishRestricted(route, to, project) ==
  /\ up
  /\ table[route] # NoRoute
  /\ table[route].version < MaxVersion
  /\ to = route \/ table[to] = NoRoute
  /\ table' = [r \in Routes |->
       IF r = to THEN [version |-> table[route].version + 1, project |-> project,
                       home |-> project, digest |-> NoDigest]
       ELSE IF r = route THEN NoRoute ELSE table[r]]
  /\ UNCHANGED <<up, keep, artifact, workspace, running, served, tidy>>

-----------------------------------------------------------------------------
(* _publish.                                                               *)

\* update reads the route again and publishes under the project it has now.
ProjectNow(t) ==
  IF running[t].method = "update" THEN table[running[t].from].project
  ELSE running[t].project

CanEnter(t) == running[t].method # "create" => table[running[t].from] # NoRoute

CreateWorkspace(t) ==
  /\ At(t, "generated")
  /\ CanEnter(t)
  /\ running[t].id \notin workspace
  /\ workspace' = workspace \cup {running[t].id}
  /\ running' = [running EXCEPT ![t].pc = "workspace", ![t].project = ProjectNow(t)]
  /\ UNCHANGED <<up, keep, table, artifact, served, tidy>>

\* The route is gone, the validator rejects, or the workspace exists already.
Refuse(t) ==
  /\ At(t, "generated")
  /\ Stop(t)
  /\ UNCHANGED <<up, keep, table, artifact, workspace, served, tidy>>

\* A variation: the directory of the version is replaced.
ReplacesDirectory(t) == Directory(t) \in Digests \cup {NoDigest}

\* os.replace takes no directory that is not empty.
DirectoryFree(t) == Directory(t) = NoDigest

\* Once the tests have passed.
PublishArtifact(t) ==
  /\ At(t, "workspace")
  /\ DirectoryFree(t)
  /\ SetDirectory(t, running[t].digest)
  /\ running' = [running EXCEPT ![t].pc = "published", ![t].published = TRUE]
  /\ UNCHANGED <<up, keep, table, workspace, served, tidy>>

VersionMatches(t) ==
  /\ table[running[t].from] # NoRoute
  /\ table[running[t].from].version + 1 = running[t].version

TargetFree(t) == table[running[t].to] = NoRoute \/ running[t].to = running[t].from

\* before_activate, the first critical section, and verify_plugin_artifact after it.
Verifiable(t) ==
  /\ \/ running[t].method = "create" /\ table[running[t].to] = NoRoute
     \/ running[t].method # "create" /\ VersionMatches(t) /\ TargetFree(t)
  /\ Directory(t) = running[t].digest

Verify(t) ==
  /\ At(t, "published")
  /\ Verifiable(t)
  /\ Goto(t, "verified")
  /\ UNCHANGED <<up, keep, table, artifact, workspace, served, tidy>>

\* A variation: an update commits whatever version it finds.
CommittableUnversioned(t) ==
  \/ running[t].method = "create" /\ table[running[t].to] = NoRoute
  \/ running[t].method # "create" /\ table[running[t].from] # NoRoute

\* The second critical section; move_plugin does not look at the target again.
Committable(t) ==
  \/ running[t].method = "create" /\ table[running[t].to] = NoRoute
  \/ running[t].method # "create" /\ VersionMatches(t)

Activate(t) ==
  LET p == running[t] IN
  /\ At(t, "verified")
  /\ Committable(t)
  /\ table' = [r \in Routes |->
       IF r = p.to THEN [version |-> p.version, project |-> ProjectNow(t),
                         home |-> p.project, digest |-> p.digest]
       ELSE IF r = p.from THEN NoRoute ELSE table[r]]
  /\ served' = served \cup {<<p.project, p.to, p.version>>}
  /\ running' = [running EXCEPT ![t].pc = "activated", ![t].activated = TRUE]
  /\ UNCHANGED <<up, keep, artifact, workspace, tidy>>

\* current.json, then the workspace.
Cleanup(t) ==
  /\ At(t, "activated")
  /\ workspace' = workspace \ {running[t].id}
  /\ Stop(t)
  /\ UNCHANGED <<up, keep, table, artifact, served, tidy>>

-----------------------------------------------------------------------------
(* Exceptions, and the finally clause.                                     *)

\* Variations: the flag activated ignored; candidates kept with their workspace.
DiscardsAlways(t) == running[t].published

DiscardsUnlessKept(t) == running[t].published /\ ~running[t].activated /\ ~keep

DiscardsArtifact(t) == running[t].published /\ ~running[t].activated

\* A variation: the workspace of a published candidate stays.
DiscardsUnpublished(t) == ~running[t].published

DiscardsWorkspace(t) == ~running[t].activated /\ ~keep

(***************************************************************************)
(* Before the activation any step may raise: tests fail, the version       *)
(* exists, the receipt is refused, the runtime finds another version or    *)
(* cannot write its manifest.  After it, the pointer or the cleanup may.   *)
(***************************************************************************)
MayRaise(t) ==
  \/ \E pc \in {"workspace", "published", "verified"} : At(t, pc)
  \/ "disk" \in Faults /\ At(t, "activated")

Raise(t) ==
  /\ MayRaise(t)
  /\ IF DiscardsArtifact(t) THEN SetDirectory(t, NoDigest) ELSE UNCHANGED artifact
  /\ workspace' = IF DiscardsWorkspace(t) THEN workspace \ {running[t].id} ELSE workspace
  /\ tidy' = (tidy /\ ~running[t].activated)
  /\ Stop(t)
  /\ UNCHANGED <<up, keep, table, served>>

\* rmtree ignores errors, and the clause those of the cleanup.
RaiseUntidy(t) ==
  /\ "disk" \in Faults
  /\ MayRaise(t)
  /\ \/ UNCHANGED artifact
     \/ DiscardsArtifact(t) /\ SetDirectory(t, NoDigest)
  /\ tidy' = FALSE
  /\ Stop(t)
  /\ UNCHANGED <<up, keep, table, workspace, served>>

-----------------------------------------------------------------------------
(* Crash and restart.                                                      *)

Crash ==
  /\ "crash" \in Faults
  /\ up
  /\ up' = FALSE
  /\ running' = [t \in Publishers |-> NoPublisher]
  /\ tidy' = (tidy /\ \A t \in Publishers : running[t] = NoPublisher)
  /\ UNCHANGED <<keep, table, artifact, workspace, served>>

\* A plugin route is restored only with the very artifact it was activated with.
Intact(route) ==
  table[route] # NoRoute /\ table[route].digest # NoDigest
    => artifact[table[route].home][route][table[route].version] = table[route].digest

Restart ==
  /\ ~up
  /\ \A route \in Routes : Intact(route)
  /\ up' = TRUE
  /\ UNCHANGED <<keep, table, artifact, workspace, running, served, tidy>>

Request(t) ==
  \E route \in Routes, id \in Workspaces :
    \/ \E digest \in Digests, project \in Projects, to \in Routes :
         \/ BeginCreate(t, route, project, digest, id)
         \/ BeginUpdate(t, route, digest, id)
         \/ BeginMove(t, route, to, project, digest, id)
    \/ \E older \in Versions : BeginRollback(t, route, older, id)

Publish(t) ==
  \/ CreateWorkspace(t) \/ Refuse(t) \/ PublishArtifact(t) \/ Verify(t)
  \/ Activate(t) \/ Cleanup(t)
  \/ Raise(t) \/ RaiseUntidy(t)

Next ==
  \/ \E t \in Publishers : Request(t) \/ Publish(t)
  \/ \E route, to \in Routes, project \in Projects :
       CreateRestricted(route, project) \/ PublishRestricted(route, to, project)
  \/ Crash
  \/ Restart

Spec == Init /\ [][Next]_vars

-----------------------------------------------------------------------------
(* Properties.                                                             *)

(***************************************************************************)
(* Every plugin route that is served has its artifact, with its digest,    *)
(* whatever other publications fail, clean up or crash: requests can be    *)
(* executed and a restart can restore it (plugin_runtime.py:304-311).      *)
(***************************************************************************)
ServedArtifactIntact == \A route \in Routes : Intact(route)

(***************************************************************************)
(* The directory of a version that was ever activated never changes and    *)
(* never disappears, also after its route was updated or moved: in-flight  *)
(* requests and rollbacks read it (USAGE.md:346, 554).                     *)
(***************************************************************************)
ServedIsImmutable ==
  [][\A p \in Projects, r \in Routes, v \in Versions :
       <<p, r, v>> \in served => artifact'[p][r][v] = artifact[p][r][v]]_vars

\* The publications that may still publish or withdraw a directory.
Publishing(p, r, v) ==
  \E t \in Publishers :
    /\ running[t] # NoPublisher
    /\ running[t].published
    /\ <<running[t].project, running[t].to, running[t].version>> = <<p, r, v>>

(***************************************************************************)
(* A candidate that was not activated leaves no directory behind, which    *)
(* would block its version: only a crash or a failing disk does (304-306). *)
(***************************************************************************)
NoOrphan ==
  tidy => \A p \in Projects, r \in Routes, v \in Versions :
            artifact[p][r][v] # NoDigest
              => <<p, r, v>> \in served \/ Publishing(p, r, v)

(***************************************************************************)
(* Unless failed workspaces are to be kept, none stays after its           *)
(* publication has ended (307-311, USAGE.md:523).                          *)
(***************************************************************************)
NoLeftovers ==
  tidy /\ ~keep =>
    \A id \in workspace :
      \E t \in Publishers : running[t] # NoPublisher /\ running[t].id = id

(***************************************************************************)
(* The routes change as RouteTable lets them, in which only a plugin's     *)
(* move takes a path that is not free: a bundle that was numbered, tested  *)
(* and published in a directory of that number becomes the next version of *)
(* the very route it was made for, or is refused (runtime.py:290-420).     *)
(***************************************************************************)
AsRecord(record) ==
  [version |-> record.version, project |-> record.project,
   mode |-> IF record.digest = NoDigest THEN "restricted" ELSE "plugin",
   code |-> record.digest, origin |-> NoDigest]

Records == [r \in Routes |-> IF table[r] = NoRoute THEN NoRoute ELSE AsRecord(table[r])]

Runtime == INSTANCE RouteTable WITH
  table <- Records,
  Codes <- Digests \cup {NoDigest},
  EvictingModes <- {"plugin"}

ASSUME NoRouteAssumption == NoRoute \notin Runtime!Record

ImplementsTable == Runtime!Spec

(***************************************************************************)
(* What was interrupted can be tried again (README.md:251, USAGE.md:118):  *)
(* when nothing is being published, a plugin route can get its next        *)
(* version, because no directory has its name yet.                         *)
(***************************************************************************)
NextVersionFree ==
  up /\ (\A t \in Publishers : running[t] = NoPublisher) =>
    \A r \in Routes :
      table[r] # NoRoute /\ table[r].version < MaxVersion
        => artifact[table[r].project][r][table[r].version + 1] = NoDigest
=============================================================================
