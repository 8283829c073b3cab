----------------------- MODULE PluginPublicationProofs -----------------------
(***************************************************************************)
(* Theorems about PluginPublication, for any number of publications, routes*)
(* and versions.  A directory has at most one publication that may change  *)
(* it, from the moment its bundle is there to the end of the publication;  *)
(* what was activated is out of reach of every one of them.                *)
(***************************************************************************)
EXTENDS PluginPublication, TLAPS

Live(t) == running[t] # NoPublisher

\* The directory of a publication.
Triple(t) == <<running[t].project, running[t].to, running[t].version>>

HasPublished(t) == Live(t) /\ running[t].published

\* What the locals of _publish say, and the directory it has to answer for.
Knows(t) ==
  /\ running[t].published <=> running[t].pc \in {"published", "verified", "activated"}
  /\ running[t].activated <=> running[t].pc = "activated"
  /\ running[t].published => Directory(t) = running[t].digest
  /\ running[t].published /\ ~running[t].activated => Triple(t) \notin served
  /\ running[t].activated => Triple(t) \in served

OwnersKnow == \A t \in Publishers : Live(t) => Knows(t)

OneOwner ==
  \A t, u \in Publishers :
    HasPublished(t) /\ HasPublished(u) /\ t # u => Triple(t) # Triple(u)

\* What was served is still there, and a plugin route serves what was served.
ServedIsThere ==
  /\ \A p \in Projects, r \in Routes, v \in Versions :
       <<p, r, v>> \in served => artifact[p][r][v] # NoDigest
  /\ \A r \in Routes :
       table[r] # NoRoute /\ table[r].digest # NoDigest
         => <<table[r].home, r, table[r].version>> \in served

\* Ids are used by one publication at a time, and a new one has no workspace yet.
IdsAreOwn ==
  /\ \A t, u \in Publishers : Live(t) /\ Live(u) /\ t # u => running[t].id # running[u].id
  /\ tidy /\ ~keep =>
       \A t \in Publishers :
         Live(t) /\ running[t].pc = "generated" => running[t].id \notin workspace

OwnerInv == TypeOK /\ OwnersKnow /\ OneOwner /\ ServedIsThere /\ ServedArtifactIntact

\* What is left behind: of each publication that ended, nothing.
LeftInv == NoOrphan /\ IdsAreOwn /\ NoLeftovers

\* What ServedIsImmutable says of a step.
ServedKept ==
  \A p \in Projects, r \in Routes, v \in Versions :
    <<p, r, v>> \in served => artifact'[p][r][v] = artifact[p][r][v]

-----------------------------------------------------------------------------
(* Directories.                                                            *)

LEMMA PublicationType ==
  ASSUME TypeOK, NEW t \in Publishers, Live(t)
  PROVE  /\ running[t] \in Publication
         /\ running[t].project \in Projects /\ running[t].to \in Routes
         /\ running[t].from \in Routes /\ running[t].version \in Versions
         /\ running[t].digest \in Digests
         /\ Triple(t) \in Projects \X Routes \X Versions
BY DEF TypeOK, Live, Publication, Triple

\* A directory is set, and no other.
LEMMA SetDirectoryChanges ==
  ASSUME TypeOK, NEW t \in Publishers, Live(t), NEW digest \in Digests \cup {NoDigest},
         SetDirectory(t, digest)
  PROVE  /\ artifact' \in [Projects -> [Routes -> [Versions -> Digests \cup {NoDigest}]]]
         /\ artifact'[running[t].project][running[t].to][running[t].version] = digest
         /\ \A p \in Projects, r \in Routes, v \in Versions :
              <<p, r, v>> # Triple(t) => artifact'[p][r][v] = artifact[p][r][v]
<1> DEFINE a == running[t].project
           b == running[t].to
           c == running[t].version
<1>1. a \in Projects /\ b \in Routes /\ c \in Versions
  BY PublicationType
<1>2. artifact' = [artifact EXCEPT ![a] = [artifact[a] EXCEPT ![b] =
                     [artifact[a][b] EXCEPT ![c] = digest]]]
  BY DEF SetDirectory
<1>3. artifact \in [Projects -> [Routes -> [Versions -> Digests \cup {NoDigest}]]]
  BY DEF TypeOK
<1> HIDE DEF a, b, c
<1>4. [artifact[a][b] EXCEPT ![c] = digest] \in [Versions -> Digests \cup {NoDigest}]
  BY <1>1, <1>3
<1>5. [artifact[a] EXCEPT ![b] = [artifact[a][b] EXCEPT ![c] = digest]]
        \in [Routes -> [Versions -> Digests \cup {NoDigest}]]
  BY <1>1, <1>3, <1>4
<1>6. artifact' \in [Projects -> [Routes -> [Versions -> Digests \cup {NoDigest}]]]
  BY <1>2, <1>3, <1>5
<1>7. artifact'[a][b][c] = digest
  BY <1>1, <1>2, <1>3, <1>4, <1>5
<1>8. ASSUME NEW p \in Projects, NEW r \in Routes, NEW v \in Versions,
             p # a \/ r # b \/ v # c
      PROVE  artifact'[p][r][v] = artifact[p][r][v]
  BY <1>1, <1>2, <1>3, <1>8
<1>9. QED
  BY <1>6, <1>7, <1>8 DEF Triple, a, b, c

-----------------------------------------------------------------------------
(* Owners and routes.                                                      *)

\* Steps that change neither the table nor a directory nor what was served, and that
\* start, stop or lead one publication on.
LEMMA RunningKeeps ==
  ASSUME OwnerInv, NEW t \in Publishers, NEW w \in Publication \cup {NoPublisher},
         running' = [running EXCEPT ![t] = w],
         UNCHANGED <<table, artifact, served>>,
         up' \in BOOLEAN, keep' \in BOOLEAN, tidy' \in BOOLEAN, workspace' \subseteq Workspaces,
         w # NoPublisher =>
           \/ ~w.published /\ ~w.activated /\ w.pc \in {"generated", "workspace"}
           \/ /\ HasPublished(t) /\ ~running[t].activated
              /\ w = [running[t] EXCEPT !.pc = "verified"]
  PROVE  OwnerInv'
<1> USE DEF OwnerInv
<1>1. TypeOK'
  BY DEF TypeOK
<1>2. \A u \in Publishers \ {t} : running'[u] = running[u]
  BY DEF TypeOK
<1>3. running'[t] = w
  BY DEF TypeOK
<1>4. CASE w = NoPublisher \/ ~w.published
  <2>1. \A u \in Publishers :
          HasPublished(u)' => u # t /\ HasPublished(u) /\ Triple(u)' = Triple(u)
    BY <1>2, <1>3, <1>4 DEF HasPublished, Live, Triple
  <2>2. OwnersKnow'
    <3> SUFFICES ASSUME NEW u \in Publishers, Live(u)' PROVE Knows(u)'
      BY DEF OwnersKnow
    <3>1. CASE u = t
      <4>1. ~w.published /\ ~w.activated /\ w.pc \in {"generated", "workspace"}
        <5>1. w # NoPublisher /\ ~w.published
          BY <1>3, <1>4, <3>1 DEF Live
        <5>2. ASSUME HasPublished(t), w = [running[t] EXCEPT !.pc = "verified"]
              PROVE  w.published
          <6>1. running[t] \in Publication
            BY <5>2, PublicationType DEF HasPublished
          <6>2. QED
            BY <5>2, <6>1 DEF HasPublished, Publication
        <5>3. QED
          BY <5>1, <5>2
      <4>2. QED
        BY <1>3, <3>1, <4>1 DEF Knows
    <3>2. CASE u # t
      <4>1. Live(u) /\ Triple(u)' = Triple(u) /\ Directory(u)' = Directory(u)
        BY <1>2, <3>2 DEF Live, Triple, Directory
      <4>2. QED
        BY <1>2, <3>2, <4>1 DEF OwnersKnow, Knows
    <3>3. QED
      BY <3>1, <3>2
  <2>3. OneOwner'
    BY <2>1 DEF OneOwner
  <2>4. QED
    BY <1>1, <2>2, <2>3 DEF ServedIsThere, ServedArtifactIntact, Intact
<1>5. CASE w # NoPublisher /\ w.published
  <2>1. HasPublished(t) /\ ~running[t].activated /\ w = [running[t] EXCEPT !.pc = "verified"]
    BY <1>5
  <2>2. /\ w.project = running[t].project /\ w.to = running[t].to
        /\ w.version = running[t].version /\ w.digest = running[t].digest
        /\ w.published = running[t].published /\ w.activated = running[t].activated
        /\ w.pc = "verified"
    BY <2>1, PublicationType DEF HasPublished, Publication
  <2>3. /\ \A u \in Publishers : HasPublished(u)' => HasPublished(u) /\ Triple(u)' = Triple(u)
    BY <1>2, <1>3, <2>1, <2>2 DEF HasPublished, Live, Triple
  <2>4. Directory(t)' = Directory(t) /\ Triple(t)' = Triple(t)
    BY <1>3, <2>2 DEF Directory, Triple
  <2>5. OwnersKnow'
    BY <1>2, <1>3, <2>1, <2>2, <2>3, <2>4
       DEF OwnersKnow, Knows, HasPublished, Live, Triple, Directory
  <2>6. OneOwner'
    BY <2>3 DEF OneOwner
  <2>7. QED
    BY <1>1, <2>5, <2>6 DEF ServedIsThere, ServedArtifactIntact, Intact
<1>6. QED
  BY <1>4, <1>5

\* The bundle is put into a directory that was free.
LEMMA PublishArtifactKeeps ==
  ASSUME OwnerInv, NEW t \in Publishers, PublishArtifact(t)
  PROVE  /\ OwnerInv'
         /\ ServedKept
<1> USE DEF OwnerInv
<1>1. /\ Live(t) /\ running[t].pc = "workspace" /\ Directory(t) = NoDigest
      /\ SetDirectory(t, running[t].digest)
      /\ running' = [running EXCEPT ![t].pc = "published", ![t].published = TRUE]
      /\ UNCHANGED <<up, keep, table, workspace, served, tidy>>
  BY DEF PublishArtifact, At, DirectoryFree, Live
<1>2. /\ running[t] \in Publication /\ running[t].digest \in Digests
      /\ running[t].project \in Projects /\ running[t].to \in Routes
      /\ running[t].version \in Versions
  BY <1>1, PublicationType
<1>3. /\ artifact' \in [Projects -> [Routes -> [Versions -> Digests \cup {NoDigest}]]]
      /\ artifact'[running[t].project][running[t].to][running[t].version] = running[t].digest
      /\ \A p \in Projects, r \in Routes, v \in Versions :
           <<p, r, v>> # Triple(t) => artifact'[p][r][v] = artifact[p][r][v]
  BY <1>1, <1>2, SetDirectoryChanges
<1>4. Triple(t) \notin served
  BY <1>1, <1>2 DEF ServedIsThere, Triple, Directory
<1>5. \A u \in Publishers : HasPublished(u) => Triple(u) # Triple(t)
  <2> SUFFICES ASSUME NEW u \in Publishers, HasPublished(u), Triple(u) = Triple(t)
               PROVE  FALSE
    OBVIOUS
  <2>1. Directory(u) = running[u].digest /\ Directory(u) = Directory(t)
    BY DEF OwnersKnow, Knows, HasPublished, Triple, Directory
  <2>2. running[u].digest \in Digests
    BY PublicationType DEF HasPublished
  <2>3. QED
    BY <1>1, <2>1, <2>2, PublicationAssumption
<1>6. /\ \A u \in Publishers \ {t} : running'[u] = running[u]
      /\ running'[t] = [running[t] EXCEPT !.pc = "published", !.published = TRUE]
  BY <1>1 DEF TypeOK
<1>7. /\ running'[t] \in Publication /\ running'[t].published /\ running'[t].pc = "published"
      /\ running'[t].activated = running[t].activated
      /\ running'[t].digest = running[t].digest
      /\ running'[t].project = running[t].project /\ running'[t].to = running[t].to
      /\ running'[t].version = running[t].version
  BY <1>2, <1>6 DEF Publication, Phases
<1>8. TypeOK'
  BY <1>1, <1>3, <1>6, <1>7 DEF TypeOK
<1>9. \A u \in Publishers : Triple(u)' = Triple(u)
  BY <1>6, <1>7 DEF Triple
<1>10. ~running[t].activated
  BY <1>1 DEF OwnersKnow, Knows
<1>11. OwnersKnow'
  <2> SUFFICES ASSUME NEW u \in Publishers, Live(u)'
               PROVE  Knows(u)'
    BY DEF OwnersKnow, Knows
  <2>1. CASE u = t
    BY <1>1, <1>3, <1>4, <1>7, <1>9, <1>10, <2>1 DEF Directory, Knows
  <2>2. CASE u # t
    <3>1. Live(u) /\ running'[u] = running[u]
      BY <1>6, <2>2 DEF Live
    <3>2. running[u].published => Directory(u)' = Directory(u)
      <4>1. running[u].published => Triple(u) # Triple(t)
        BY <1>5, <3>1 DEF HasPublished
      <4>2. /\ running[u].project \in Projects /\ running[u].to \in Routes
            /\ running[u].version \in Versions
        BY <3>1, PublicationType
      <4>3. QED
        BY <1>3, <3>1, <4>1, <4>2 DEF Directory, Triple
    <3>3. QED
      BY <1>1, <1>9, <3>1, <3>2 DEF OwnersKnow, Knows
  <2>3. QED
    BY <2>1, <2>2
<1>12. OneOwner'
  <2>1. \A u \in Publishers : u # t => (HasPublished(u)' <=> HasPublished(u))
    BY <1>6 DEF HasPublished, Live
  <2>2. QED
    BY <1>5, <1>9, <2>1 DEF OneOwner
<1>13. \A p \in Projects, r \in Routes, v \in Versions :
         <<p, r, v>> \in served => artifact'[p][r][v] = artifact[p][r][v]
  BY <1>3, <1>4
<1>14. ServedIsThere'
  BY <1>1, <1>13 DEF ServedIsThere
<1>15. ServedArtifactIntact'
  BY <1>1, <1>13 DEF ServedIsThere, ServedArtifactIntact, Intact, TypeOK, Record
<1>16. ServedKept
  BY <1>13 DEF ServedKept
<1>17. QED
  BY <1>8, <1>11, <1>12, <1>14, <1>15, <1>16

\* A publication ends, and withdraws a candidate that was not activated.
LEMMA StopKeeps ==
  ASSUME OwnerInv, NEW t \in Publishers, Live(t), Stop(t),
         \/ UNCHANGED artifact
         \/ DiscardsArtifact(t) /\ SetDirectory(t, NoDigest),
         workspace' \subseteq Workspaces, tidy' \in BOOLEAN,
         UNCHANGED <<up, keep, table, served>>
  PROVE  /\ OwnerInv'
         /\ ServedKept
<1> USE DEF OwnerInv
<1>1. running' = [running EXCEPT ![t] = NoPublisher]
  BY DEF Stop
<1>2. CASE UNCHANGED artifact
  <2>1. OwnerInv'
    BY <1>1, <1>2, RunningKeeps DEF TypeOK
  <2>2. QED
    BY <1>2, <2>1 DEF ServedKept
<1>3. CASE DiscardsArtifact(t) /\ SetDirectory(t, NoDigest)
  <2>1. HasPublished(t) /\ Triple(t) \notin served
    BY <1>3 DEF DiscardsArtifact, HasPublished, OwnersKnow, Knows
  <2>2. /\ artifact' \in [Projects -> [Routes -> [Versions -> Digests \cup {NoDigest}]]]
        /\ \A p \in Projects, r \in Routes, v \in Versions :
             <<p, r, v>> # Triple(t) => artifact'[p][r][v] = artifact[p][r][v]
    BY <1>3, SetDirectoryChanges
  <2>3. \A p \in Projects, r \in Routes, v \in Versions :
          <<p, r, v>> \in served => artifact'[p][r][v] = artifact[p][r][v]
    BY <2>1, <2>2
  <2>4. TypeOK'
    BY <1>1, <2>2 DEF TypeOK
  <2>5. \A u \in Publishers : Live(u)' => u # t /\ Live(u) /\ running'[u] = running[u]
    BY <1>1 DEF Live, TypeOK
  <2>6. \A u \in Publishers : HasPublished(u)' => HasPublished(u) /\ Triple(u)' = Triple(u)
                                                /\ Directory(u)' = Directory(u)
    <3> SUFFICES ASSUME NEW u \in Publishers, HasPublished(u)'
                 PROVE  HasPublished(u) /\ Triple(u)' = Triple(u) /\ Directory(u)' = Directory(u)
      OBVIOUS
    <3>1. u # t /\ HasPublished(u) /\ running'[u] = running[u]
      BY <2>5 DEF HasPublished
    <3>2. Triple(u)' = Triple(u) /\ Triple(u) # Triple(t)
      BY <2>1, <3>1 DEF OneOwner, Triple
    <3>3. /\ running[u].project \in Projects /\ running[u].to \in Routes
          /\ running[u].version \in Versions
      BY <3>1, PublicationType DEF HasPublished
    <3>4. Directory(u)' = Directory(u)
      BY <2>2, <3>1, <3>2, <3>3 DEF Directory, Triple
    <3>5. QED
      BY <3>1, <3>2, <3>4
  <2>7. OwnersKnow'
    BY <2>5, <2>6 DEF OwnersKnow, Knows, HasPublished, Triple
  <2>8. OneOwner'
    BY <2>6 DEF OneOwner
  <2>9. ServedIsThere'
    BY <2>3 DEF ServedIsThere
  <2>10. ServedArtifactIntact'
    BY <2>3 DEF ServedIsThere, ServedArtifactIntact, Intact, TypeOK, Record
  <2>11. ServedKept
    BY <2>3 DEF ServedKept
  <2>12. QED
    BY <2>4, <2>7, <2>8, <2>9, <2>10, <2>11
<1>4. QED
  BY <1>2, <1>3

LEMMA ActivateKeeps ==
  ASSUME OwnerInv, NEW t \in Publishers, Activate(t)
  PROVE  OwnerInv' /\ artifact' = artifact
<1> USE DEF OwnerInv
<1> DEFINE p == running[t]
<1>1. /\ Live(t) /\ p.pc = "verified" /\ Committable(t)
      /\ table' = [r \in Routes |->
           IF r = p.to THEN [version |-> p.version, project |-> ProjectNow(t),
                             home |-> p.project, digest |-> p.digest]
           ELSE IF r = p.from THEN NoRoute ELSE table[r]]
      /\ served' = served \cup {Triple(t)}
      /\ running' = [running EXCEPT ![t].pc = "activated", ![t].activated = TRUE]
      /\ UNCHANGED <<up, keep, artifact, workspace, tidy>>
  BY DEF Activate, At, Live, Triple
<1>2. /\ p \in Publication /\ p.digest \in Digests /\ p.project \in Projects
      /\ p.to \in Routes /\ p.from \in Routes /\ p.version \in Versions
      /\ Triple(t) \in Projects \X Routes \X Versions
  BY <1>1, PublicationType
<1>3. p.published /\ Directory(t) = p.digest
  BY <1>1 DEF OwnersKnow, Knows
<1>4. ProjectNow(t) \in Projects
  <2>1. p.method = "update" => table[p.from] \in Record
    BY <1>1, <1>2 DEF Committable, VersionMatches, TypeOK
  <2>2. QED
    BY <1>2, <2>1 DEF ProjectNow, Record
<1>5. /\ \A u \in Publishers \ {t} : running'[u] = running[u]
      /\ running'[t] = [p EXCEPT !.pc = "activated", !.activated = TRUE]
  BY <1>1 DEF TypeOK
<1>6. /\ running'[t] \in Publication /\ running'[t].published /\ running'[t].activated
      /\ running'[t].pc = "activated" /\ running'[t].digest = p.digest
      /\ running'[t].project = p.project /\ running'[t].to = p.to
      /\ running'[t].version = p.version
  <2>1. running'[t] \in Publication
    BY <1>2, <1>5 DEF Publication, Phases
  <2>2. QED
    BY <1>2, <1>3, <1>5, <2>1 DEF Publication
<1>7. /\ table' \in [Routes -> Record \cup {NoRoute}]
      /\ table'[p.to] = [version |-> p.version, project |-> ProjectNow(t),
                         home |-> p.project, digest |-> p.digest]
      /\ \A r \in Routes : r # p.to => table'[r] \in {table[r], NoRoute}
  <2>1. [version |-> p.version, project |-> ProjectNow(t), home |-> p.project,
         digest |-> p.digest] \in Record
    BY <1>2, <1>4 DEF Record
  <2>2. QED
    BY <1>1, <1>2, <2>1 DEF TypeOK
<1>8. TypeOK'
  BY <1>1, <1>2, <1>5, <1>6, <1>7 DEF TypeOK
<1>9. \A u \in Publishers : /\ Triple(u)' = Triple(u) /\ Directory(u)' = Directory(u)
                           /\ (HasPublished(u)' <=> HasPublished(u))
  <2>1. HasPublished(t)
    BY <1>1, <1>3 DEF HasPublished
  <2>2. HasPublished(t)'
    BY <1>6, NoneAssumption DEF HasPublished, Live
  <2>3. Triple(t)' = Triple(t) /\ Directory(t)' = Directory(t)
    BY <1>1, <1>6 DEF Triple, Directory
  <2>4. QED
    BY <1>1, <1>5, <2>1, <2>2, <2>3 DEF Triple, Directory, HasPublished, Live
<1>10. OwnersKnow'
  <2> SUFFICES ASSUME NEW u \in Publishers, Live(u)'
               PROVE  Knows(u)'
    BY DEF OwnersKnow, Knows
  <2>1. CASE u = t
    BY <1>1, <1>3, <1>6, <1>9, <2>1 DEF Knows
  <2>2. CASE u # t
    <3>1. Live(u) /\ running'[u] = running[u]
      BY <1>5, <2>2 DEF Live
    <3>2. running[u].published => Triple(u) # Triple(t)
      BY <1>1, <1>3, <2>2, <3>1 DEF OneOwner, HasPublished
    <3>3. QED
      BY <1>1, <1>9, <3>1, <3>2 DEF OwnersKnow, Knows
  <2>3. QED
    BY <2>1, <2>2
<1>11. OneOwner'
  BY <1>9 DEF OneOwner
<1>12. artifact[p.project][p.to][p.version] = p.digest /\ p.digest # NoDigest
  BY <1>2, <1>3, PublicationAssumption DEF Directory
<1>13. ServedIsThere'
  <2>1. \A q \in Projects, r \in Routes, v \in Versions :
          <<q, r, v>> \in served' => artifact'[q][r][v] # NoDigest
    BY <1>1, <1>12 DEF ServedIsThere, Triple
  <2>2. \A r \in Routes : table'[r] # NoRoute /\ table'[r].digest # NoDigest
          => <<table'[r].home, r, table'[r].version>> \in served'
    BY <1>1, <1>7 DEF ServedIsThere, Triple
  <2>3. QED
    BY <2>1, <2>2 DEF ServedIsThere
<1>14. ServedArtifactIntact'
  BY <1>1, <1>7, <1>12 DEF ServedArtifactIntact, Intact
<1>15. QED
  BY <1>1, <1>8, <1>10, <1>11, <1>13, <1>14

-----------------------------------------------------------------------------
(* Requests.                                                               *)

\* A create makes version one, and only a move changes the path.
Aimed(w) ==
  /\ w.method = "create" => w.from = w.to /\ w.version = 1
  /\ w.method = "update" => w.from = w.to

\* A publication that was begun with w.
Begun(t, w) ==
  /\ up /\ running[t] = NoPublisher /\ IdAvailable(w.id)
  /\ w.pc = "generated" /\ ~w.published /\ ~w.activated /\ Aimed(w)
  /\ running' = [running EXCEPT ![t] = w]
  /\ UNCHANGED <<up, keep, table, artifact, workspace, served, tidy>>

LEMMA BeginIsBegun ==
  ASSUME NEW t \in Publishers, NEW method \in {"create", "update", "move"},
         NEW from \in Routes, NEW to \in Routes, NEW project \in Projects,
         NEW version \in Versions, NEW digest \in Digests, NEW id \in Workspaces,
         method = "create" => from = to /\ version = 1, method = "update" => from = to,
         Begin(t, method, from, to, project, version, digest, id)
  PROVE  \E w \in Publication : Begun(t, w)
<1> DEFINE w == [pc |-> "generated", method |-> method, from |-> from, to |-> to,
                 project |-> project, version |-> version, digest |-> digest, id |-> id,
                 published |-> FALSE, activated |-> FALSE]
<1>1. w \in Publication
  BY DEF Publication, Phases
<1>2. Begun(t, w)
  BY DEF Begin, Begun, Aimed, IdAvailable
<1>3. QED
  BY <1>1, <1>2

LEMMA FollowingType ==
  ASSUME TypeOK, NEW route \in Routes, table[route] # NoRoute,
         table[route].version < MaxVersion
  PROVE  Following(route) \in Versions /\ table[route].project \in Projects
<1>1. table[route] \in Record
  BY DEF TypeOK
<1>2. QED
  BY <1>1, PublicationAssumption DEF Following, Record, Versions

LEMMA RequestIsBegun ==
  ASSUME TypeOK, NEW t \in Publishers, Request(t)
  PROVE  \E w \in Publication : Begun(t, w)
<1>1. PICK route \in Routes, id \in Workspaces :
    \/ \E digest \in Digests, project \in Projects, to \in Routes :
         \/ BeginCreate(t, route, project, digest, id)
         \/ BeginUpdate(t, route, digest, id)
         \/ BeginMove(t, route, to, project, digest, id)
    \/ \E older \in Versions : BeginRollback(t, route, older, id)
  BY DEF Request
<1>2. ASSUME NEW digest \in Digests, NEW project \in Projects, NEW to \in Routes,
             BeginCreate(t, route, project, digest, id)
      PROVE  \E w \in Publication : Begun(t, w)
  <2>1. 1 \in Versions
    BY PublicationAssumption DEF Versions
  <2>2. QED
    BY <1>2, <2>1, BeginIsBegun DEF BeginCreate
<1>3. ASSUME NEW digest \in Digests, BeginUpdate(t, route, digest, id)
      PROVE  \E w \in Publication : Begun(t, w)
  <2>1. Following(route) \in Versions /\ table[route].project \in Projects
    BY <1>3, FollowingType DEF BeginUpdate
  <2>2. QED
    BY <1>3, <2>1, BeginIsBegun DEF BeginUpdate
<1>4. ASSUME NEW digest \in Digests, NEW project \in Projects, NEW to \in Routes,
             BeginMove(t, route, to, project, digest, id)
      PROVE  \E w \in Publication : Begun(t, w)
  <2>1. Following(route) \in Versions
    BY <1>4, FollowingType DEF BeginMove
  <2>2. QED
    BY <1>4, <2>1, BeginIsBegun DEF BeginMove
<1>5. ASSUME NEW older \in Versions, BeginRollback(t, route, older, id)
      PROVE  \E w \in Publication : Begun(t, w)
  <2> DEFINE bundle == artifact[table[route].project][route][older]
  <2>1. Following(route) \in Versions /\ table[route].project \in Projects
    BY <1>5, FollowingType DEF BeginRollback
  <2>2. /\ bundle # NoDigest
        /\ Begin(t, "update", route, route, table[route].project, Following(route), bundle, id)
    BY <1>5 DEF BeginRollback
  <2>3. bundle \in Digests
    BY <2>1, <2>2 DEF TypeOK
  <2> HIDE DEF bundle
  <2>4. QED
    BY <2>1, <2>2, <2>3, BeginIsBegun
<1>6. QED
  BY <1>1, <1>2, <1>3, <1>4, <1>5

-----------------------------------------------------------------------------
(* Steps.                                                                  *)

LEMMA RestrictedKeeps ==
  ASSUME OwnerInv, NEW route \in Routes, NEW to \in Routes, NEW project \in Projects,
         CreateRestricted(route, project) \/ PublishRestricted(route, to, project)
  PROVE  OwnerInv' /\ UNCHANGED <<keep, artifact, workspace, running, served, tidy>>
<1> USE DEF OwnerInv
<1>1. UNCHANGED <<up, keep, artifact, workspace, running, served, tidy>>
  BY DEF CreateRestricted, PublishRestricted
<1>2. /\ table' \in [Routes -> Record \cup {NoRoute}]
      /\ \A r \in Routes :
           table'[r] # NoRoute => table'[r] = table[r] \/ table'[r].digest = NoDigest
  <2>1. CASE CreateRestricted(route, project)
    <3>1. [version |-> 1, project |-> project, home |-> project, digest |-> NoDigest] \in Record
      BY PublicationAssumption DEF Record, Versions
    <3>2. QED
      BY <2>1, <3>1 DEF CreateRestricted, TypeOK
  <2>2. CASE PublishRestricted(route, to, project)
    <3> DEFINE row == [version |-> table[route].version + 1, project |-> project,
                       home |-> project, digest |-> NoDigest]
    <3>1. table[route].version + 1 \in Versions
      BY <2>2, FollowingType DEF PublishRestricted, Following
    <3>2. row \in Record /\ row.digest = NoDigest
      BY <3>1 DEF Record
    <3>3. \A r \in Routes : table'[r] \in {row, NoRoute, table[r]}
      BY <2>2 DEF PublishRestricted
    <3>4. table' \in [Routes -> Record \cup {NoRoute}]
      BY <2>2, <3>2 DEF PublishRestricted, TypeOK
    <3>5. QED
      BY <3>2, <3>3, <3>4
  <2>3. QED
    BY <2>1, <2>2
<1>3. TypeOK'
  BY <1>1, <1>2 DEF TypeOK
<1>4. OwnersKnow' /\ OneOwner'
  BY <1>1 DEF OwnersKnow, Knows, OneOwner, HasPublished, Live, Triple, Directory
<1>5. ServedIsThere' /\ ServedArtifactIntact'
  BY <1>1, <1>2 DEF ServedIsThere, ServedArtifactIntact, Intact
<1>6. QED
  BY <1>1, <1>3, <1>4, <1>5

LEMMA ServiceKeeps ==
  ASSUME OwnerInv, Crash \/ Restart
  PROVE  OwnerInv' /\ UNCHANGED <<table, artifact, served, workspace, keep>>
<1> USE DEF OwnerInv
<1>1. /\ UNCHANGED <<keep, table, artifact, workspace, served>>
      /\ \/ running' = [t \in Publishers |-> NoPublisher]
         \/ UNCHANGED running
      /\ up' \in BOOLEAN /\ tidy' \in BOOLEAN
  BY DEF Crash, Restart, TypeOK
<1>2. TypeOK'
  BY <1>1 DEF TypeOK
<1>3. OwnersKnow' /\ OneOwner'
  BY <1>1 DEF OwnersKnow, Knows, OneOwner, HasPublished, Live, Triple, Directory
<1>4. ServedIsThere' /\ ServedArtifactIntact'
  BY <1>1 DEF ServedIsThere, ServedArtifactIntact, Intact
<1>5. QED
  BY <1>1, <1>2, <1>3, <1>4

LEMMA RequestKeeps ==
  ASSUME OwnerInv, NEW t \in Publishers, NEW w \in Publication, Begun(t, w)
  PROVE  OwnerInv'
<1>1. up' \in BOOLEAN /\ keep' \in BOOLEAN /\ tidy' \in BOOLEAN /\ workspace' \subseteq Workspaces
  BY DEF Begun, OwnerInv, TypeOK
<1>2. QED
  BY <1>1, RunningKeeps DEF Begun

LEMMA ProjectNowType ==
  ASSUME OwnerInv, NEW t \in Publishers, CreateWorkspace(t)
  PROVE  ProjectNow(t) \in Projects
<1>1. Live(t) /\ CanEnter(t)
  BY DEF CreateWorkspace, At, Live
<1>2. running[t] \in Publication /\ running[t].from \in Routes
  BY <1>1, PublicationType DEF OwnerInv
<1>3. running[t].method = "update" => table[running[t].from] \in Record
  BY <1>1, <1>2 DEF CanEnter, OwnerInv, TypeOK
<1>4. QED
  BY <1>2, <1>3 DEF ProjectNow, Record, Publication

LEMMA CreateWorkspaceKeeps ==
  ASSUME OwnerInv, NEW t \in Publishers, CreateWorkspace(t)
  PROVE  OwnerInv' /\ UNCHANGED <<artifact, served>>
<1> DEFINE w == [running[t] EXCEPT !.pc = "workspace", !.project = ProjectNow(t)]
<1>1. /\ Live(t) /\ running[t].pc = "generated" /\ CanEnter(t)
      /\ running' = [running EXCEPT ![t] = w]
      /\ workspace' = workspace \cup {running[t].id}
      /\ UNCHANGED <<up, keep, table, artifact, served, tidy>>
  BY DEF CreateWorkspace, At, Live
<1>2. running[t] \in Publication /\ running[t].from \in Routes
  BY <1>1, PublicationType DEF OwnerInv
<1>3. ProjectNow(t) \in Projects
  BY ProjectNowType
<1>4. ~running[t].published /\ ~running[t].activated
  BY <1>1 DEF OwnerInv, OwnersKnow, Knows
<1>5. /\ w \in Publication /\ w.pc = "workspace" /\ ~w.published /\ ~w.activated
  BY <1>2, <1>3, <1>4 DEF Publication, Phases
<1>6. /\ up' \in BOOLEAN /\ keep' \in BOOLEAN /\ tidy' \in BOOLEAN
      /\ workspace' \subseteq Workspaces
  BY <1>1, <1>2 DEF OwnerInv, TypeOK, Publication
<1> HIDE DEF w
<1>7. QED
  BY <1>1, <1>5, <1>6, RunningKeeps

LEMMA VerifyKeeps ==
  ASSUME OwnerInv, NEW t \in Publishers, Verify(t)
  PROVE  OwnerInv' /\ UNCHANGED <<artifact, served>>
<1> DEFINE w == [running[t] EXCEPT !.pc = "verified"]
<1>1. /\ Live(t) /\ running[t].pc = "published"
      /\ running' = [running EXCEPT ![t] = w]
      /\ UNCHANGED <<up, keep, table, artifact, workspace, served, tidy>>
  BY DEF Verify, Goto, At, Live
<1>2. w \in Publication
  BY <1>1, PublicationType DEF OwnerInv, Publication, Phases
<1>3. HasPublished(t) /\ ~running[t].activated
  BY <1>1 DEF OwnerInv, OwnersKnow, Knows, HasPublished
<1>4. /\ up' \in BOOLEAN /\ keep' \in BOOLEAN /\ tidy' \in BOOLEAN
      /\ workspace' \subseteq Workspaces
  BY <1>1 DEF OwnerInv, TypeOK
<1>5. QED
  BY <1>1, <1>2, <1>3, <1>4, RunningKeeps

\* The ways in which a publication ends.
Ends(t) == Refuse(t) \/ Cleanup(t) \/ Raise(t) \/ RaiseUntidy(t)

LEMMA EndsKeeps ==
  ASSUME OwnerInv, NEW t \in Publishers, Ends(t)
  PROVE  OwnerInv' /\ ServedKept
<1>1. /\ Live(t) /\ Stop(t)
      /\ UNCHANGED artifact \/ (DiscardsArtifact(t) /\ SetDirectory(t, NoDigest))
      /\ workspace' \subseteq workspace /\ tidy' \in BOOLEAN
      /\ UNCHANGED <<up, keep, table, served>>
  BY DEF Ends, Refuse, Cleanup, Raise, RaiseUntidy, MayRaise, At, Live, OwnerInv, TypeOK
<1>2. workspace' \subseteq Workspaces
  BY <1>1 DEF OwnerInv, TypeOK
<1>3. QED
  BY <1>1, <1>2, StopKeeps

LEMMA StutterKeeps ==
  ASSUME OwnerInv, UNCHANGED vars
  PROVE  OwnerInv' /\ ServedKept
BY DEF OwnerInv, vars, TypeOK, OwnersKnow, Knows, OneOwner, ServedIsThere, ServedArtifactIntact,
       Intact, HasPublished, Live, Triple, Directory, ServedKept

LEMMA OwnerNextKeeps ==
  ASSUME OwnerInv, [Next]_vars
  PROVE  OwnerInv' /\ ServedKept
<1>1. ASSUME NEW t \in Publishers, Request(t)
      PROVE  OwnerInv' /\ ServedKept
  <2>1. PICK w \in Publication : Begun(t, w)
    BY <1>1, RequestIsBegun DEF OwnerInv
  <2>2. QED
    BY <2>1, RequestKeeps DEF Begun, ServedKept
<1>2. ASSUME NEW t \in Publishers, Publish(t)
      PROVE  OwnerInv' /\ ServedKept
  <2>1. CASE CreateWorkspace(t) \/ Verify(t) \/ Activate(t)
    BY <2>1, CreateWorkspaceKeeps, VerifyKeeps, ActivateKeeps DEF ServedKept
  <2>2. CASE PublishArtifact(t)
    BY <2>2, PublishArtifactKeeps
  <2>3. CASE Ends(t)
    BY <2>3, EndsKeeps
  <2>4. QED
    BY <1>2, <2>1, <2>2, <2>3 DEF Publish, Ends
<1>3. ASSUME NEW route \in Routes, NEW to \in Routes, NEW project \in Projects,
             CreateRestricted(route, project) \/ PublishRestricted(route, to, project)
      PROVE  OwnerInv' /\ ServedKept
  BY <1>3, RestrictedKeeps DEF ServedKept
<1>4. CASE Crash \/ Restart
  BY <1>4, ServiceKeeps DEF ServedKept
<1>5. CASE UNCHANGED vars
  BY <1>5, StutterKeeps
<1>6. QED
  BY <1>1, <1>2, <1>3, <1>4, <1>5 DEF Next

LEMMA OwnerInitHolds == Init => OwnerInv
BY DEF Init, OwnerInv, TypeOK, OwnersKnow, Knows, OneOwner, ServedIsThere, ServedArtifactIntact,
       Intact, HasPublished, Live

LEMMA OwnerInvariant == Spec => []OwnerInv
<1>1. OwnerInv /\ [Next]_vars => OwnerInv'
  BY OwnerNextKeeps
<1>2. QED
  BY <1>1, OwnerInitHolds, PTL DEF Spec

-----------------------------------------------------------------------------
(* What publications leave behind.                                         *)

\* A directory loses the publication that has to answer for it only when it was served
\* or is withdrawn.
LEMMA NoOrphanKept ==
  ASSUME NoOrphan, tidy' => tidy, served \subseteq served',
         \A p \in Projects, r \in Routes, v \in Versions :
           artifact'[p][r][v] \in {artifact[p][r][v], NoDigest},
         tidy' => \A t \in Publishers :
           HasPublished(t) =>
             \/ HasPublished(t)' /\ Triple(t)' = Triple(t)
             \/ Triple(t) \in served'
             \/ artifact'[running[t].project][running[t].to][running[t].version] = NoDigest
  PROVE  NoOrphan'
<1> SUFFICES ASSUME tidy', NEW p \in Projects, NEW r \in Routes, NEW v \in Versions,
                    artifact'[p][r][v] # NoDigest
             PROVE  <<p, r, v>> \in served' \/ Publishing(p, r, v)'
  BY DEF NoOrphan
<1>1. <<p, r, v>> \in served \/ Publishing(p, r, v)
  BY DEF NoOrphan
<1>2. ASSUME NEW t \in Publishers, HasPublished(t), Triple(t) = <<p, r, v>>
      PROVE  <<p, r, v>> \in served' \/ Publishing(p, r, v)'
  BY <1>2 DEF HasPublished, Live, Triple, Publishing
<1>3. QED
  BY <1>1, <1>2 DEF Publishing, HasPublished, Live, Triple

LEMMA ArtifactsAre ==
  ASSUME TypeOK, UNCHANGED artifact
  PROVE  \A p \in Projects, r \in Routes, v \in Versions :
           artifact'[p][r][v] \in {artifact[p][r][v], NoDigest}
OBVIOUS

\* Every publication keeps its id, and none becomes a new one.
LEMMA IdsKept ==
  ASSUME LeftInv, UNCHANGED <<keep, workspace, tidy>>,
         \A u \in Publishers :
           /\ (Live(u)' <=> Live(u)) /\ running'[u].id = running[u].id
           /\ (running'[u].pc = "generated" => running[u].pc = "generated")
  PROVE  IdsAreOwn' /\ NoLeftovers'
<1>1. IdsAreOwn'
  BY DEF LeftInv, IdsAreOwn
<1>2. NoLeftovers'
  BY DEF LeftInv, NoLeftovers, Live
<1>3. QED
  BY <1>1, <1>2

LEMMA BegunLeaves ==
  ASSUME OwnerInv, LeftInv, NEW t \in Publishers, NEW w \in Publication, Begun(t, w)
  PROVE  LeftInv'
<1>1. /\ running[t] = NoPublisher /\ IdAvailable(w.id)
      /\ w.pc = "generated" /\ ~w.published
      /\ UNCHANGED <<keep, artifact, workspace, served, tidy>>
      /\ running'[t] = w /\ \A u \in Publishers \ {t} : running'[u] = running[u]
  BY DEF Begun, OwnerInv, TypeOK
<1>2. \A u \in Publishers : HasPublished(u) => HasPublished(u)' /\ Triple(u)' = Triple(u)
  BY <1>1 DEF HasPublished, Live, Triple
<1>3. NoOrphan'
  BY <1>1, <1>2, NoOrphanKept, ArtifactsAre DEF LeftInv, OwnerInv
<1>4. \A u \in Publishers : Live(u) => u # t /\ Live(u)' /\ running'[u] = running[u]
                                       /\ running[u].id # w.id
  BY <1>1 DEF Live, IdAvailable
<1>5. NoLeftovers'
  BY <1>1, <1>4 DEF LeftInv, NoLeftovers, Live
<1>6. tidy /\ ~keep => w.id \notin workspace
  BY <1>4 DEF LeftInv, NoLeftovers, Live
<1>7. \A u \in Publishers : Live(u)' => u = t \/ Live(u)
  BY <1>1 DEF Live
<1>8. IdsAreOwn'
  BY <1>1, <1>4, <1>6, <1>7 DEF LeftInv, IdsAreOwn
<1>9. QED
  BY <1>3, <1>5, <1>8 DEF LeftInv

LEMMA CreateWorkspaceLeaves ==
  ASSUME OwnerInv, LeftInv, NEW t \in Publishers, CreateWorkspace(t)
  PROVE  LeftInv'
<1>1. /\ Live(t) /\ running[t].pc = "generated"
      /\ workspace' = workspace \cup {running[t].id}
      /\ UNCHANGED <<up, keep, table, artifact, served, tidy>>
      /\ running'[t] = [running[t] EXCEPT !.pc = "workspace", !.project = ProjectNow(t)]
      /\ \A u \in Publishers \ {t} : running'[u] = running[u]
  BY DEF CreateWorkspace, At, Live, OwnerInv, TypeOK
<1>2. running[t] \in Publication /\ ~running[t].published
  BY <1>1, PublicationType DEF OwnerInv, OwnersKnow, Knows
<1>3. \A u \in Publishers : HasPublished(u) => HasPublished(u)' /\ Triple(u)' = Triple(u)
  BY <1>1, <1>2 DEF HasPublished, Live, Triple
<1>4. NoOrphan'
  BY <1>1, <1>3, NoOrphanKept, ArtifactsAre DEF LeftInv, OwnerInv
<1>5. running'[t].id = running[t].id /\ running'[t].pc = "workspace" /\ Live(t)'
  <2>1. running'[t] \in Publication
    BY <1>1, <1>2, ProjectNowType DEF Publication, Phases
  <2>2. QED
    BY <1>1, <1>2, <2>1, NoneAssumption DEF Publication, Live
<1>6. \A u \in Publishers : (Live(u)' <=> Live(u)) /\ running'[u].id = running[u].id
  BY <1>1, <1>5 DEF Live
<1>7. \A u \in Publishers : running'[u].pc = "generated" => running[u].pc = "generated" /\ u # t
  BY <1>1, <1>5
<1>8. NoLeftovers'
  <2> SUFFICES ASSUME tidy, ~keep, NEW id \in workspace'
               PROVE  \E u \in Publishers : Live(u)' /\ running'[u].id = id
    BY <1>1 DEF NoLeftovers, Live
  <2>1. CASE id = running[t].id
    BY <1>5, <2>1
  <2>2. CASE id \in workspace
    BY <1>6, <2>2 DEF LeftInv, NoLeftovers, Live
  <2>3. QED
    BY <1>1, <2>1, <2>2
<1>9. IdsAreOwn'
  <2>1. \A u, q \in Publishers :
          Live(u)' /\ Live(q)' /\ u # q => running'[u].id # running'[q].id
    BY <1>6 DEF LeftInv, IdsAreOwn
  <2>2. ASSUME tidy, ~keep, NEW u \in Publishers, Live(u)', running'[u].pc = "generated"
        PROVE  running'[u].id \notin workspace'
    BY <1>1, <1>6, <1>7, <2>2 DEF LeftInv, IdsAreOwn
  <2>3. QED
    BY <1>1, <2>1, <2>2 DEF IdsAreOwn
<1>10. QED
  BY <1>4, <1>8, <1>9 DEF LeftInv

LEMMA PublishArtifactLeaves ==
  ASSUME OwnerInv, LeftInv, NEW t \in Publishers, PublishArtifact(t)
  PROVE  LeftInv'
<1>1. /\ Live(t) /\ SetDirectory(t, running[t].digest)
      /\ running' = [running EXCEPT ![t].pc = "published", ![t].published = TRUE]
      /\ UNCHANGED <<keep, workspace, served, tidy>>
  BY DEF PublishArtifact, At, Live
<1>2. running[t] \in Publication /\ running[t].digest \in Digests
  BY <1>1, PublicationType DEF OwnerInv
<1>3. \A p \in Projects, r \in Routes, v \in Versions :
        <<p, r, v>> # Triple(t) => artifact'[p][r][v] = artifact[p][r][v]
  BY <1>1, <1>2, SetDirectoryChanges DEF OwnerInv
<1>4. /\ \A u \in Publishers \ {t} : running'[u] = running[u]
      /\ running'[t] = [running[t] EXCEPT !.pc = "published", !.published = TRUE]
  BY <1>1 DEF OwnerInv, TypeOK
<1>5. /\ running'[t] \in Publication /\ running'[t].published /\ running'[t].pc = "published"
      /\ running'[t].id = running[t].id /\ Triple(t)' = Triple(t)
  BY <1>2, <1>4 DEF Publication, Phases, Triple
<1>6. HasPublished(t)'
  BY <1>5, NoneAssumption DEF HasPublished, Live
<1>7. \A u \in Publishers : HasPublished(u) => HasPublished(u)' /\ Triple(u)' = Triple(u)
  BY <1>4, <1>5, <1>6 DEF HasPublished, Live, Triple
<1>8. NoOrphan'
  <2> SUFFICES ASSUME tidy, NEW p \in Projects, NEW r \in Routes, NEW v \in Versions,
                      artifact'[p][r][v] # NoDigest
               PROVE  <<p, r, v>> \in served' \/ Publishing(p, r, v)'
    BY <1>1 DEF NoOrphan
  <2>1. ASSUME NEW u \in Publishers, HasPublished(u)', Triple(u)' = <<p, r, v>>
        PROVE  Publishing(p, r, v)'
    BY <2>1 DEF Publishing, HasPublished, Live, Triple
  <2>2. CASE <<p, r, v>> = Triple(t)
    BY <1>5, <1>6, <2>1, <2>2
  <2>3. CASE <<p, r, v>> # Triple(t)
    <3>1. artifact[p][r][v] # NoDigest
      BY <1>3, <2>3
    <3>2. <<p, r, v>> \in served
            \/ \E u \in Publishers : HasPublished(u) /\ Triple(u) = <<p, r, v>>
      BY <3>1 DEF LeftInv, NoOrphan, Publishing, HasPublished, Live, Triple
    <3>3. QED
      BY <1>1, <1>7, <2>1, <3>2
  <2>4. QED
    BY <2>2, <2>3
<1>9. \A u \in Publishers : /\ (Live(u)' <=> Live(u)) /\ running'[u].id = running[u].id
                           /\ (running'[u].pc = "generated" => running[u].pc = "generated")
  BY <1>1, <1>4, <1>5, <1>6 DEF Live, HasPublished
<1>10. IdsAreOwn' /\ NoLeftovers'
  BY <1>1, <1>9, IdsKept
<1>11. QED
  BY <1>8, <1>10 DEF LeftInv

\* Verify and Activate: the publication goes on.
LEMMA GoingOnLeaves ==
  ASSUME OwnerInv, OwnerInv', LeftInv, NEW t \in Publishers, Verify(t) \/ Activate(t)
  PROVE  LeftInv'
<1>1. /\ Live(t) /\ running[t].published
      /\ UNCHANGED <<keep, artifact, workspace, tidy>>
      /\ served \subseteq served'
      /\ \A u \in Publishers \ {t} : running'[u] = running[u]
  BY DEF Verify, Activate, Goto, At, Live, OwnerInv, TypeOK, OwnersKnow, Knows
<1>2. running[t] \in Publication
  BY <1>1, PublicationType DEF OwnerInv
<1>3. \/ running'[t] = [running[t] EXCEPT !.pc = "verified"]
      \/ running'[t] = [running[t] EXCEPT !.pc = "activated", !.activated = TRUE]
  BY DEF Verify, Activate, Goto, OwnerInv, TypeOK
<1>4. /\ running'[t] \in Publication /\ running'[t].published
      /\ running'[t].pc # "generated"
      /\ running'[t].id = running[t].id /\ Triple(t)' = Triple(t)
  BY <1>1, <1>2, <1>3 DEF Publication, Phases, Triple
<1>5. Live(t)'
  BY <1>4, NoneAssumption DEF Live
<1>6. \A u \in Publishers : HasPublished(u) => HasPublished(u)' /\ Triple(u)' = Triple(u)
  BY <1>1, <1>4, <1>5 DEF HasPublished, Live, Triple
<1>7. NoOrphan'
  BY <1>1, <1>6, NoOrphanKept, ArtifactsAre DEF LeftInv, OwnerInv
<1>8. \A u \in Publishers : /\ (Live(u)' <=> Live(u)) /\ running'[u].id = running[u].id
                           /\ (running'[u].pc = "generated" => running[u].pc = "generated")
  BY <1>1, <1>4, <1>5 DEF Live
<1>9. IdsAreOwn' /\ NoLeftovers'
  BY <1>1, <1>8, IdsKept
<1>10. QED
  BY <1>7, <1>9 DEF LeftInv

LEMMA EndsLeaves ==
  ASSUME OwnerInv, LeftInv, NEW t \in Publishers, Ends(t)
  PROVE  LeftInv'
<1>1. /\ Live(t) /\ Stop(t) /\ UNCHANGED <<keep, served>>
      /\ tidy' => tidy
      /\ workspace' \subseteq workspace
  BY DEF Ends, Refuse, Cleanup, Raise, RaiseUntidy, MayRaise, At, Live, OwnerInv, TypeOK
<1>2. running[t] \in Publication /\ Knows(t)
  BY <1>1, PublicationType DEF OwnerInv, OwnersKnow
<1>3. \A u \in Publishers : (Live(u)' <=> Live(u) /\ u # t) /\ (u # t => running'[u] = running[u])
  BY <1>1 DEF Stop, Live, OwnerInv, TypeOK
<1>4. \A p \in Projects, r \in Routes, v \in Versions :
        artifact'[p][r][v] \in {artifact[p][r][v], NoDigest}
  <2>1. CASE UNCHANGED artifact
    BY <2>1
  <2>2. CASE SetDirectory(t, NoDigest)
    BY <1>1, <2>2, SetDirectoryChanges DEF OwnerInv, Triple
  <2>3. QED
    BY <2>1, <2>2 DEF Ends, Refuse, Cleanup, Raise, RaiseUntidy
<1>5. tidy' /\ HasPublished(t) =>
        \/ Triple(t) \in served
        \/ artifact'[running[t].project][running[t].to][running[t].version] = NoDigest
  <2>1. CASE Refuse(t) \/ Cleanup(t)
    BY <1>2, <2>1 DEF Refuse, Cleanup, At, Knows, HasPublished
  <2>2. CASE Raise(t)
    <3>1. CASE DiscardsArtifact(t)
      BY <1>1, <2>2, <3>1, SetDirectoryChanges DEF Raise, OwnerInv
    <3>2. CASE ~DiscardsArtifact(t)
      BY <1>2, <3>2 DEF DiscardsArtifact, Knows, HasPublished
    <3>3. QED
      BY <3>1, <3>2
  <2>3. CASE RaiseUntidy(t)
    BY <2>3 DEF RaiseUntidy
  <2>4. QED
    BY <2>1, <2>2, <2>3 DEF Ends
<1>6. \A u \in Publishers \ {t} : HasPublished(u) => HasPublished(u)' /\ Triple(u)' = Triple(u)
  BY <1>3 DEF HasPublished, Live, Triple
<1>7. NoOrphan'
  BY <1>1, <1>4, <1>5, <1>6, NoOrphanKept DEF LeftInv
<1>8. tidy' /\ ~keep => running[t].id \notin workspace'
  <2>1. CASE Refuse(t)
    BY <1>1, <2>1 DEF Refuse, At, LeftInv, IdsAreOwn
  <2>2. CASE Cleanup(t)
    BY <2>2 DEF Cleanup
  <2>3. CASE Raise(t)
    BY <2>3 DEF Raise, DiscardsWorkspace
  <2>4. CASE RaiseUntidy(t)
    BY <2>4 DEF RaiseUntidy
  <2>5. QED
    BY <2>1, <2>2, <2>3, <2>4 DEF Ends
<1>9. NoLeftovers'
  <2> SUFFICES ASSUME tidy', ~keep, NEW id \in workspace'
               PROVE  \E u \in Publishers : Live(u)' /\ running'[u].id = id
    BY <1>1 DEF NoLeftovers, Live
  <2>1. PICK u \in Publishers : Live(u) /\ running[u].id = id
    BY <1>1 DEF LeftInv, NoLeftovers, Live
  <2>2. u # t
    BY <1>8, <2>1
  <2>3. QED
    BY <1>3, <2>1, <2>2
<1>10. IdsAreOwn'
  BY <1>1, <1>3 DEF LeftInv, IdsAreOwn
<1>11. QED
  BY <1>7, <1>9, <1>10 DEF LeftInv

LEMMA CrashLeaves ==
  ASSUME LeftInv, Crash
  PROVE  LeftInv'
<1>1. /\ running' = [t \in Publishers |-> NoPublisher]
      /\ UNCHANGED <<keep, artifact, workspace, served>>
      /\ tidy' => tidy /\ \A t \in Publishers : running[t] = NoPublisher
  BY DEF Crash
<1>2. NoOrphan' /\ NoLeftovers'
  BY <1>1 DEF LeftInv, NoOrphan, NoLeftovers, Publishing
<1>3. IdsAreOwn'
  BY <1>1 DEF IdsAreOwn, Live
<1>4. QED
  BY <1>2, <1>3 DEF LeftInv

\* The variables that LeftInv is about do not change.
LEMMA OthersLeave ==
  ASSUME LeftInv, UNCHANGED <<keep, artifact, workspace, running, served, tidy>>
  PROVE  LeftInv'
BY DEF LeftInv, NoOrphan, Publishing, IdsAreOwn, Live, NoLeftovers

LEMMA LeftNextKeeps ==
  ASSUME OwnerInv, LeftInv, [Next]_vars
  PROVE  LeftInv'
<1>1. OwnerInv'
  BY OwnerNextKeeps
<1>2. ASSUME NEW t \in Publishers, Request(t)
      PROVE  LeftInv'
  BY <1>2, RequestIsBegun, BegunLeaves DEF OwnerInv
<1>3. ASSUME NEW t \in Publishers, Publish(t)
      PROVE  LeftInv'
  BY <1>1, <1>3, CreateWorkspaceLeaves, PublishArtifactLeaves, GoingOnLeaves, EndsLeaves
     DEF Publish, Ends
<1>4. ASSUME NEW route \in Routes, NEW to \in Routes, NEW project \in Projects,
             CreateRestricted(route, project) \/ PublishRestricted(route, to, project)
      PROVE  LeftInv'
  BY <1>4, RestrictedKeeps, OthersLeave
<1>5. CASE Crash
  BY <1>5, CrashLeaves
<1>6. CASE Restart \/ UNCHANGED vars
  BY <1>6, OthersLeave DEF Restart, vars
<1>7. QED
  BY <1>2, <1>3, <1>4, <1>5, <1>6 DEF Next

LEMMA LeftInvariant == Spec => []LeftInv
<1>1. Init => LeftInv
  BY DEF Init, LeftInv, NoOrphan, IdsAreOwn, NoLeftovers, Live
<1>2. OwnerInv /\ LeftInv /\ [Next]_vars => LeftInv'
  BY LeftNextKeeps
<1>3. QED
  BY <1>1, <1>2, OwnerInvariant, PTL DEF Spec

-----------------------------------------------------------------------------
(* The routes are those of a RouteTable.  What a publication read before   *)
(* it was tested is used after it: the commit compares the version only,   *)
(* and the rest follows from what the request was (Aimed).                 *)

AllAimed == \A t \in Publishers : Live(t) => Aimed(running[t])

LEMMA AsRecordType ==
  ASSUME NEW row \in Record
  PROVE  /\ row # NoRoute /\ AsRecord(row) # NoRoute /\ AsRecord(row) \in Runtime!Record
         /\ AsRecord(row).version = row.version /\ AsRecord(row).origin = NoDigest
         /\ row.digest # NoDigest => AsRecord(row).mode = "plugin"
<1>1. AsRecord(row) \in Runtime!Record
  BY DEF AsRecord, Record, Versions, Runtime!Record, Runtime!Modes
<1>2. QED
  BY <1>1, NoneAssumption, NoRouteAssumption DEF AsRecord

LEMMA RowsAre ==
  ASSUME TypeOK, NEW r \in Routes, table[r] # NoRoute
  PROVE  table[r] \in Record /\ Records[r] = AsRecord(table[r])
BY DEF TypeOK, Records

\* A publication or a restricted handler makes the first version of a route.
LEMMA FirstIsTableStep ==
  ASSUME TypeOK, NEW r \in Routes, NEW row \in Record, row.version = 1,
         table[r] = NoRoute, table' = [table EXCEPT ![r] = row]
  PROVE  Runtime!Next
<1>1. table'[r] = row /\ \A s \in Routes \ {r} : table'[s] = table[s]
  BY DEF TypeOK
<1>2. row # NoRoute
  BY AsRecordType
<1>3. /\ Records[r] = NoRoute /\ Records'[r] = AsRecord(row)
      /\ Records' = [q \in Routes |-> Records'[q]]
  BY <1>1, <1>2 DEF Records
<1>4. \A s \in Routes \ {r} : Records'[s] = Records[s]
  BY <1>1 DEF Records
<1>5. Runtime!Create(r)
  BY <1>3, <1>4, AsRecordType DEF Runtime!Create
<1>6. Records' # Records
  BY <1>3, AsRecordType
<1>7. QED
  BY <1>3, <1>5, <1>6 DEF Runtime!Next

\* What was at r is at s now, one version on.
LEMMA NextIsTableStep ==
  ASSUME TypeOK, NEW r \in Routes, NEW s \in Routes, NEW row \in Record,
         table[r] # NoRoute, row.version = table[r].version + 1,
         s = r \/ table[s] = NoRoute \/ row.digest # NoDigest,
         table' = [q \in Routes |-> IF q = s THEN row
                                   ELSE IF q = r THEN NoRoute ELSE table[q]]
  PROVE  Runtime!Next
<1>1. row # NoRoute
  BY AsRecordType
<1>2. /\ Records' = [q \in Routes |-> Records'[q]]
      /\ Records'[s] = AsRecord(row)
      /\ \A q \in Routes \ {r, s} : Records'[q] = Records[q]
      /\ r # s => Records'[r] = NoRoute
      /\ table[s] = NoRoute => Records[s] = NoRoute
  BY <1>1 DEF Records
<1>3. table[r] \in Record /\ Records[r] = AsRecord(table[r])
  BY RowsAre
<1>4. Runtime!Succeeds(s, r)
  BY <1>2, <1>3, AsRecordType DEF Runtime!Succeeds
<1>5. CASE s = r
  <2>1. Runtime!Update(r)
    BY <1>2, <1>4, <1>5 DEF Runtime!Update
  <2>2. table[r].version \in Nat /\ Records[r].version = table[r].version
    BY <1>3, PublicationAssumption DEF AsRecord, Record, Versions
  <2>3. Records'[r].version = table[r].version + 1
    BY <1>2, <1>5 DEF AsRecord
  <2>4. Records' # Records
    BY <2>2, <2>3
  <2>5. QED
    BY <1>2, <2>1, <2>4 DEF Runtime!Next
<1>6. CASE s # r
  <2>1. Records[s] = NoRoute \/ Records'[s].mode \in {"plugin"}
    BY <1>2, <1>6, AsRecordType
  <2>2. Runtime!Move(r, s)
    BY <1>2, <1>4, <1>6, <2>1 DEF Runtime!Move
  <2>3. Records' # Records
    BY <1>2, <1>3, <1>6, AsRecordType
  <2>4. QED
    BY <1>2, <2>2, <2>3 DEF Runtime!Next
<1>7. QED
  BY <1>5, <1>6

LEMMA RestrictedIsTableStep ==
  ASSUME TypeOK, NEW route \in Routes, NEW to \in Routes, NEW project \in Projects,
         CreateRestricted(route, project) \/ PublishRestricted(route, to, project)
  PROVE  Runtime!Next
<1>1. CASE CreateRestricted(route, project)
  <2> DEFINE row == [version |-> 1, project |-> project, home |-> project,
                     digest |-> NoDigest]
  <2>1. row \in Record /\ row.version = 1
    BY PublicationAssumption DEF Record, Versions
  <2>2. table[route] = NoRoute /\ table' = [table EXCEPT ![route] = row]
    BY <1>1 DEF CreateRestricted
  <2> HIDE DEF row
  <2>3. QED
    BY <2>1, <2>2, FirstIsTableStep
<1>2. CASE PublishRestricted(route, to, project)
  <2> DEFINE row == [version |-> table[route].version + 1, project |-> project,
                     home |-> project, digest |-> NoDigest]
  <2>1. Following(route) \in Versions
    BY <1>2, FollowingType DEF PublishRestricted
  <2>2. row \in Record /\ row.version = table[route].version + 1
    BY <2>1 DEF Record, Following
  <2>3. /\ table[route] # NoRoute /\ (to = route \/ table[to] = NoRoute)
        /\ table' = [r \in Routes |-> IF r = to THEN row
                                    ELSE IF r = route THEN NoRoute ELSE table[r]]
    BY <1>2 DEF PublishRestricted
  <2> HIDE DEF row
  <2>4. QED
    BY <2>2, <2>3, NextIsTableStep
<1>3. QED
  BY <1>1, <1>2

LEMMA ActivateIsTableStep ==
  ASSUME OwnerInv, AllAimed, NEW t \in Publishers, Activate(t)
  PROVE  Runtime!Next
<1> DEFINE p == running[t]
           row == [version |-> p.version, project |-> ProjectNow(t),
                   home |-> p.project, digest |-> p.digest]
<1>1. /\ Live(t) /\ Committable(t)
      /\ table' = [r \in Routes |-> IF r = p.to THEN row
                                  ELSE IF r = p.from THEN NoRoute ELSE table[r]]
  BY DEF Activate, At, Live
<1>2. /\ p \in Publication /\ p.to \in Routes /\ p.from \in Routes /\ p.version \in Versions
      /\ p.digest \in Digests /\ p.project \in Projects
  BY <1>1, PublicationType DEF OwnerInv
<1>3. p.digest # NoDigest
  BY <1>2, PublicationAssumption
<1>4. p.method = "create" \/ table[p.from] # NoRoute
  BY <1>1 DEF Committable, VersionMatches
<1>5. ProjectNow(t) \in Projects
  BY <1>2, <1>4 DEF ProjectNow, OwnerInv, TypeOK, Record
<1>6. /\ row \in Record /\ row.version = p.version /\ row.digest = p.digest
  BY <1>2, <1>5 DEF Record
<1>7. Aimed(p)
  BY <1>1 DEF AllAimed
<1>8. TypeOK /\ table \in [Routes -> Record \cup {NoRoute}]
  BY DEF OwnerInv, TypeOK
<1> HIDE DEF row
<1>9. CASE p.method = "create"
  <2>1. /\ p.from = p.to /\ row.version = 1 /\ table[p.to] = NoRoute
    BY <1>1, <1>6, <1>7, <1>9 DEF Aimed, Committable
  <2>2. table' = [table EXCEPT ![p.to] = row]
    BY <1>1, <1>2, <1>8, <2>1
  <2>3. QED
    BY <1>2, <1>6, <1>8, <2>1, <2>2, FirstIsTableStep
<1>10. CASE p.method # "create"
  <2>1. table[p.from] # NoRoute /\ row.version = table[p.from].version + 1
    BY <1>1, <1>6, <1>10 DEF Committable, VersionMatches
  <2>2. QED
    BY <1>1, <1>2, <1>3, <1>6, <1>8, <2>1, NextIsTableStep
<1>11. QED
  BY <1>9, <1>10

\* The other steps leave the routes alone, and a publication keeps its aim.
LEMMA AimKept ==
  ASSUME AllAimed, TypeOK, NEW t \in Publishers, Live(t),
         \/ \E w : running' = [running EXCEPT ![t] = w] /\ Aimed(w)
         \/ Stop(t)
  PROVE  AllAimed'
BY DEF AllAimed, TypeOK, Stop, Live

LEMMA PublishAims ==
  ASSUME AllAimed, OwnerInv, NEW t \in Publishers, Publish(t)
  PROVE  AllAimed' /\ (UNCHANGED table \/ Activate(t))
<1>1. Live(t) /\ running[t] \in Publication /\ Aimed(running[t]) /\ TypeOK
  BY PublicationType
     DEF Publish, CreateWorkspace, Refuse, PublishArtifact, Verify, Activate, Cleanup, Raise,
         RaiseUntidy, MayRaise, At, Live, AllAimed, OwnerInv
<1>2. CASE Ends(t)
  BY <1>1, <1>2, AimKept DEF Ends, Refuse, Cleanup, Raise, RaiseUntidy
<1>3. CASE CreateWorkspace(t)
  <2> DEFINE w == [running[t] EXCEPT !.pc = "workspace", !.project = ProjectNow(t)]
  <2>1. running' = [running EXCEPT ![t] = w] /\ UNCHANGED table
    BY <1>3 DEF CreateWorkspace
  <2>2. Aimed(w)
    BY <1>1 DEF Aimed, Publication
  <2> HIDE DEF w
  <2>3. QED
    BY <1>1, <2>1, <2>2, AimKept
<1>4. CASE PublishArtifact(t)
  <2> DEFINE w == [running[t] EXCEPT !.pc = "published", !.published = TRUE]
  <2>1. running' = [running EXCEPT ![t] = w] /\ UNCHANGED table
    BY <1>4 DEF PublishArtifact
  <2>2. Aimed(w)
    BY <1>1 DEF Aimed, Publication
  <2> HIDE DEF w
  <2>3. QED
    BY <1>1, <2>1, <2>2, AimKept
<1>5. CASE Verify(t)
  <2> DEFINE w == [running[t] EXCEPT !.pc = "verified"]
  <2>1. running' = [running EXCEPT ![t] = w] /\ UNCHANGED table
    BY <1>5 DEF Verify, Goto
  <2>2. Aimed(w)
    BY <1>1 DEF Aimed, Publication
  <2> HIDE DEF w
  <2>3. QED
    BY <1>1, <2>1, <2>2, AimKept
<1>6. CASE Activate(t)
  <2> DEFINE w == [running[t] EXCEPT !.pc = "activated", !.activated = TRUE]
  <2>1. running' = [running EXCEPT ![t] = w]
    BY <1>6 DEF Activate
  <2>2. Aimed(w)
    BY <1>1 DEF Aimed, Publication
  <2> HIDE DEF w
  <2>3. QED
    BY <1>1, <1>6, <2>1, <2>2, AimKept
<1>7. QED
  BY <1>2, <1>3, <1>4, <1>5, <1>6 DEF Publish, Ends

LEMMA NextIsTable ==
  ASSUME OwnerInv, AllAimed, [Next]_vars
  PROVE  AllAimed' /\ [Runtime!Next]_Records
<1>1. ASSUME NEW t \in Publishers, Request(t)
      PROVE  AllAimed' /\ UNCHANGED Records
  <2>1. PICK w \in Publication : Begun(t, w)
    BY <1>1, RequestIsBegun DEF OwnerInv
  <2>2. QED
    BY <2>1 DEF Begun, AllAimed, Live, OwnerInv, TypeOK, Records
<1>2. ASSUME NEW t \in Publishers, Publish(t)
      PROVE  AllAimed' /\ [Runtime!Next]_Records
  <2>1. AllAimed' /\ (UNCHANGED table \/ Activate(t))
    BY <1>2, PublishAims
  <2>2. UNCHANGED table => UNCHANGED Records
    BY DEF Records
  <2>3. QED
    BY <2>1, <2>2, ActivateIsTableStep
<1>3. ASSUME NEW route \in Routes, NEW to \in Routes, NEW project \in Projects,
             CreateRestricted(route, project) \/ PublishRestricted(route, to, project)
      PROVE  AllAimed' /\ Runtime!Next
  <2>1. UNCHANGED running
    BY <1>3 DEF CreateRestricted, PublishRestricted
  <2>2. QED
    BY <1>3, <2>1, RestrictedIsTableStep DEF AllAimed, Live, OwnerInv
<1>4. CASE Crash \/ Restart \/ UNCHANGED vars
  BY <1>4 DEF Crash, Restart, vars, AllAimed, Live, Records
<1>5. QED
  BY <1>1, <1>2, <1>3, <1>4 DEF Next

-----------------------------------------------------------------------------
(* Theorems.                                                               *)

\* The locals of a publication and the tables stay what the code takes them for.
THEOREM TypeCorrect == Spec => []TypeOK
BY OwnerInvariant, PTL DEF OwnerInv

\* Every plugin route that is served has the artifact it was activated with, whatever
\* any number of other publications fail, clean up or crash at.
THEOREM ServedIsIntact == Spec => []ServedArtifactIntact
BY OwnerInvariant, PTL DEF OwnerInv

\* A rejected or failed candidate leaves no directory that would block its version, for
\* any number of publications at once.
THEOREM NoOrphans == Spec => []NoOrphan
BY LeftInvariant, PTL DEF LeftInv

\* Nor a workspace, which would block the next attempt of its requirement.
THEOREM NoWorkspaceStays == Spec => []NoLeftovers
BY LeftInvariant, PTL DEF LeftInv

\* No publication changes or removes a directory that was ever activated.
THEOREM ServedNeverChanges == Spec => ServedIsImmutable
<1>1. OwnerInv /\ [Next]_vars => [ServedKept]_vars
  BY OwnerNextKeeps
<1>2. QED
  BY <1>1, OwnerInvariant, PTL DEF Spec, ServedIsImmutable, ServedKept

(***************************************************************************)
(* The routes change by compare-and-swap on the version of one route, for  *)
(* any number of publications whose checks, tests, directories and commits *)
(* interleave (plugin_runtime.py:255-420): what RouteRegistry implements   *)
(* is all that its publications need of it.                                *)
(***************************************************************************)
THEOREM PublicationImplementsTable == Spec => ImplementsTable
<1>1. Init => AllAimed /\ Runtime!Init
  BY DEF Init, AllAimed, Live, Runtime!Init, Records
<1>2. OwnerInv /\ AllAimed /\ [Next]_vars => AllAimed' /\ [Runtime!Next]_Records
  BY NextIsTable
<1>3. Spec => Runtime!Init /\ [][Runtime!Next]_Records
  BY <1>1, <1>2, OwnerInvariant, PTL DEF Spec
<1>4. QED
  BY <1>3 DEF ImplementsTable, Runtime!Spec
=============================================================================
