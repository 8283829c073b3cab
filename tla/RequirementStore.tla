-------------------------- MODULE RequirementStore --------------------------
(***************************************************************************)
(* RequirementStore of self_grow_agent/metadata.py: requirements, their    *)
(* operations and their events in SQLite.  Every method is one BEGIN       *)
(* IMMEDIATE transaction, so every method is one action here; a method     *)
(* that raises changes nothing and is not enabled.                         *)
(*                                                                         *)
(* The specification below lets any client call any method at any time;    *)
(* ImplementationTask calls the same actions the way api.py does.          *)
(*                                                                         *)
(* A route stands for its route id, and for the path and method the id is  *)
(* computed from.  Titles, instructions, projects, execution modes, error  *)
(* texts and times are left out: no method decides on them.                *)
(***************************************************************************)
EXTENDS Naturals

CONSTANTS
  Requirements, Operations,  \* the ids uuid4 may return
  Routes,
  Digests,                   \* SHA-256 of a source or of a plugin bundle
  Kinds,                     \* kinds of operations the clients submit
  MaxVersion,                \* bound on the versions of a route
  NoRequirement, NoOperation, NoLink, NoTarget, NoDigest

ASSUME StoreAssumption ==
  /\ MaxVersion \in Nat \ {0}
  /\ Kinds \subseteq {"create", "update", "move"}
  /\ NoDigest \notin Digests

RequirementStatuses == {"draft", "implementing", "active", "failed"}
OperationStatuses   == {"accepted", "implementing", "finish", "failed"}

\* route_id and route_version, set together or not at all.
Link == [route : Routes, version : 1..MaxVersion]

\* The publication receipt: target_route_id, _version and _source_sha256.
Target == [route : Routes, version : 1..MaxVersion, digest : Digests]

\* What an implementation is completed with: source_sha256 may be missing.
Completion == [route : Routes, version : 1..MaxVersion,
               digest : Digests \cup {NoDigest}]

Requirement == [status : RequirementStatuses, path : Routes,
                link : Link \cup {NoLink}, target : Target \cup {NoTarget}]

Operation == [requirement : Requirements, kind : Kinds, path : Routes,
              base : Link \cup {NoLink}, target : Target \cup {NoTarget},
              status : OperationStatuses]

ASSUME NoRequirementAssumption == NoRequirement \notin Requirement
ASSUME NoOperationAssumption == NoOperation \notin Operation
ASSUME NoLinkAssumption == NoLink \notin Link
ASSUME NoTargetAssumption == NoTarget \notin Target

Event == [from : RequirementStatuses \cup {"none"},
          to : RequirementStatuses \cup {"none"}]

VARIABLES
  requirement,  \* table requirements, by id
  operation,    \* table operations, by id
  event         \* table events: the newest one of each requirement

store == <<requirement, operation, event>>

StoreTypeOK ==
  /\ requirement \in [Requirements -> Requirement \cup {NoRequirement}]
  /\ operation \in [Operations -> Operation \cup {NoOperation}]
  /\ event \in [Requirements -> Event]

StoreInit ==
  /\ requirement = [q \in Requirements |-> NoRequirement]
  /\ operation = [o \in Operations |-> NoOperation]
  /\ event = [q \in Requirements |-> [from |-> "none", to |-> "none"]]

-----------------------------------------------------------------------------
(* Rows.                                                                   *)

Exists(q) == requirement[q] # NoRequirement

StatusOf(q) == IF Exists(q) THEN requirement[q].status ELSE "none"

Submitted(o) == operation[o] # NoOperation

InProgress(o) == Submitted(o) /\ operation[o].status \in {"accepted", "implementing"}

\* A variation of _ensure_no_active_operation that misses the accepted ones.
HasImplementingOperation(q) ==
  \E o \in Operations :
    InProgress(o) /\ operation[o].requirement = q /\ operation[o].status # "accepted"

HasActiveOperation(q) ==
  \E o \in Operations : InProgress(o) /\ operation[o].requirement = q

\* A row update of one requirement, with the event it appends if there is one.
Save(q, row) == requirement' = [requirement EXCEPT ![q] = row]

\* A variation of Log with the two statuses swapped.
LogSwapped(q, to) == event' = [event EXCEPT ![q] = [from |-> to, to |-> StatusOf(q)]]

Log(q, to) == event' = [event EXCEPT ![q] = [from |-> StatusOf(q), to |-> to]]

\* A variation of Failed that keeps the receipt.
FailedWithReceipt(row) == [row EXCEPT !.status = "failed"]

Cleared(row, status) == [row EXCEPT !.status = status, !.target = NoTarget]

Failed(row) == Cleared(row, "failed")

\* A variation: the word for a finished operation given to a requirement.
ActivatedAsFinish(row, link) == [Cleared(row, "finish") EXCEPT !.link = link]

Activated(row, link) == [Cleared(row, "active") EXCEPT !.link = link]

LinkOf(target) == [route |-> target.route, version |-> target.version]

\* A variation: the receipt is taken for the publication.
ReceiptTrusted(target, active) == target # NoTarget

\* active: what each route publishes now, [version, digest] or nothing.
Published(target, active) ==
  /\ target # NoTarget
  /\ active[target.route] = [version |-> target.version, digest |-> target.digest]

-----------------------------------------------------------------------------
(* Requirements.                                                           *)

Create(q, path, link) ==
  /\ ~Exists(q)
  /\ Save(q, [status |-> "draft", path |-> path, link |-> link, target |-> NoTarget])
  /\ Log(q, "draft")
  /\ UNCHANGED operation

\* Content goes back to draft; the status of a draft does not change.
Edited(q, link) ==
  /\ Exists(q)
  /\ requirement[q].status # "implementing"
  /\ Save(q, [Cleared(requirement[q], "draft") EXCEPT !.link = link])
  /\ IF requirement[q].status = "draft" THEN UNCHANGED event ELSE Log(q, "draft")

UpdateContent(q) ==
  /\ Edited(q, requirement[q].link)
  /\ UNCHANGED operation

\* A variation: what is being implemented can be claimed again.
ClaimableTwice(q) == Exists(q) /\ requirement[q].status # "active"

\* Claimable: begin_implementation and begin_operation start from these.
Claimable(q) == Exists(q) /\ requirement[q].status \in {"draft", "failed"}

Claim(q) ==
  /\ Claimable(q)
  /\ Save(q, Cleared(requirement[q], "implementing"))
  /\ Log(q, "implementing")

BeginImplementation(q) == Claim(q) /\ UNCHANGED operation

Implementing(q) == Exists(q) /\ requirement[q].status = "implementing"

\* A variation: the new receipt replaces the one that is there.
AnyReceipt(q, target) == Implementing(q) /\ target # NoTarget

\* The receipt is written once; writing the same one again changes nothing.
ReceiptAgrees(q, target) ==
  Implementing(q) /\ requirement[q].target \in {NoTarget, target}

PreparePublication(q, target) ==
  /\ ReceiptAgrees(q, target)
  /\ Save(q, [requirement[q] EXCEPT !.target = target])
  /\ UNCHANGED <<operation, event>>

\* The caller that passes a digest needs the receipt to match.
Completable(q, target) ==
  Implementing(q) /\ (target.digest # NoDigest => requirement[q].target = target)

AlreadyActive(q, target) ==
  /\ Exists(q)
  /\ requirement[q].status = "active"
  /\ requirement[q].link = LinkOf(target)

CompleteImplementation(q, target) ==
  /\ UNCHANGED operation
  /\ \/ AlreadyActive(q, target) /\ UNCHANGED <<requirement, event>>
     \/ /\ Completable(q, target)
        /\ Save(q, Activated(requirement[q], LinkOf(target)))
        /\ Log(q, "active")

FailImplementation(q) ==
  /\ Implementing(q)
  /\ Save(q, Failed(requirement[q]))
  /\ Log(q, "failed")
  /\ UNCHANGED operation

\* Without a published receipt the method returns the row as it is.
ReconcilePublication(q, active) ==
  /\ Implementing(q)
  /\ Published(requirement[q].target, active)
  /\ Save(q, Activated(requirement[q], LinkOf(requirement[q].target)))
  /\ Log(q, "active")
  /\ UNCHANGED operation

RebaseRoute(q, link) ==
  /\ Exists(q)
  /\ requirement[q].status # "implementing"
  /\ requirement[q].link # NoLink
  /\ requirement[q].link.route = link.route
  /\ Save(q, [Cleared(requirement[q], "draft") EXCEPT !.link = link])
  /\ Log(q, "draft")
  /\ UNCHANGED operation

-----------------------------------------------------------------------------
(* The requirements linked to one route.                                   *)

LinkedTo(q, route) ==
  Exists(q) /\ requirement[q].link # NoLink /\ requirement[q].link.route = route

\* ensure_route_can_move; exclude is one requirement, or none of them.
CanMove(route, exclude) ==
  \A q \in Requirements :
    LinkedTo(q, route) /\ q # exclude => requirement[q].status # "implementing"

MoveRouteLinks(route, link, exclude) ==
  /\ CanMove(route, exclude)
  /\ requirement' = [q \in Requirements |->
       IF LinkedTo(q, route) /\ q # exclude
         THEN [requirement[q] EXCEPT !.link = link, !.path = link.route,
                                     !.target = NoTarget]
         ELSE requirement[q]]
  /\ UNCHANGED <<operation, event>>

-----------------------------------------------------------------------------
(* Operations.                                                             *)

Insert(o, q, kind, path, base) ==
  /\ ~Submitted(o)
  /\ Exists(q)
  /\ ~HasActiveOperation(q)
  /\ operation' = [operation EXCEPT ![o] =
       [requirement |-> q, kind |-> kind, path |-> path, base |-> base,
        target |-> NoTarget, status |-> "accepted"]]

CreateOperation(o, q, kind, path, base) ==
  /\ Insert(o, q, kind, path, base)
  /\ UNCHANGED <<requirement, event>>

ReviseAndCreateOperation(o, q, kind, base) ==
  /\ Edited(q, base)
  /\ Insert(o, q, kind, requirement[q].path, base)

HasStatus(o, status) == Submitted(o) /\ operation[o].status = status

SetOperation(o, row) == operation' = [operation EXCEPT ![o] = row]

BeginOperation(o) ==
  /\ HasStatus(o, "accepted")
  /\ Claim(operation[o].requirement)
  /\ SetOperation(o, [operation[o] EXCEPT !.status = "implementing"])

PrepareOperationPublication(o, target) ==
  /\ HasStatus(o, "implementing")
  /\ SetOperation(o, [operation[o] EXCEPT !.target = target])
  /\ UNCHANGED <<requirement, event>>

\* Completing a finished operation again changes nothing.  The digest stays: a
\* CHECK of the table refuses a target that has none.
CompleteOperation(o, link) ==
  /\ UNCHANGED <<requirement, event>>
  /\ \/ HasStatus(o, "finish") /\ UNCHANGED operation
     \/ /\ HasStatus(o, "implementing")
        /\ operation[o].target # NoTarget
        /\ SetOperation(o, [operation[o] EXCEPT
             !.status = "finish", !.target.route = link.route,
             !.target.version = link.version])

\* A variation: a finished operation can still fail.
NotFailed(o) == Submitted(o) /\ operation[o].status # "failed"

Failable(o) == InProgress(o)

FailOperation(o) ==
  /\ Failable(o)
  /\ SetOperation(o, [operation[o] EXCEPT !.status = "failed"])
  /\ UNCHANGED <<requirement, event>>

-----------------------------------------------------------------------------
(* Startup.                                                                *)

\* A variation: recovery does not look at the receipt of an operation.
RecoveredAsFailed(o, active) == "failed"

RecoveredStatus(o, active) ==
  IF HasStatus(o, "implementing") /\ Published(operation[o].target, active)
    THEN "finish" ELSE "failed"

RecoverInterrupted(active) ==
  /\ requirement' = [q \in Requirements |->
       IF ~Implementing(q) THEN requirement[q]
       ELSE IF Published(requirement[q].target, active)
         THEN Activated(requirement[q], LinkOf(requirement[q].target))
         ELSE Failed(requirement[q])]
  /\ event' = [q \in Requirements |->
       IF ~Implementing(q) THEN event[q]
       ELSE [from |-> "implementing",
             to |-> IF Published(requirement[q].target, active)
                      THEN "active" ELSE "failed"]]
  /\ operation' = [o \in Operations |->
       IF ~InProgress(o) THEN operation[o]
       ELSE [operation[o] EXCEPT !.status = RecoveredStatus(o, active)]]

-----------------------------------------------------------------------------
(* Any client.                                                             *)

Publication == [version : 1..MaxVersion, digest : Digests]

CONSTANT NoPublication

ClientRequirement(q) ==
  \/ \E path \in Routes, link \in Link \cup {NoLink} : Create(q, path, link)
  \/ UpdateContent(q)
  \/ BeginImplementation(q)
  \/ FailImplementation(q)
  \/ \E target \in Target : PreparePublication(q, target)
  \/ \E target \in Completion : CompleteImplementation(q, target)
  \/ \E link \in Link : RebaseRoute(q, link)

ClientOperation(o) ==
  \/ \E q \in Requirements, kind \in Kinds, path \in Routes, base \in Link \cup {NoLink} :
       \/ CreateOperation(o, q, kind, path, base)
       \/ ReviseAndCreateOperation(o, q, kind, base)
  \/ BeginOperation(o)
  \/ FailOperation(o)
  \/ \E target \in Target : PrepareOperationPublication(o, target)
  \/ \E link \in Link : CompleteOperation(o, link)

Next ==
  \/ \E q \in Requirements : ClientRequirement(q)
  \/ \E o \in Operations : ClientOperation(o)
  \/ \E route \in Routes, link \in Link, exclude \in Requirements \cup {NoRequirement} :
       MoveRouteLinks(route, link, exclude)
  \/ \E active \in [Routes -> Publication \cup {NoPublication}] :
       \/ \E q \in Requirements : ReconcilePublication(q, active)
       \/ RecoverInterrupted(active)

Spec == StoreInit /\ [][Next]_store

-----------------------------------------------------------------------------
(* Properties, whatever the clients do.                                    *)

(***************************************************************************)
(* A requirement has at most one operation in progress, and so at most one *)
(* caller is told to poll (metadata.py:351-357, 1391-1404).                *)
(***************************************************************************)
OneActiveOperation ==
  \A o, p \in Operations :
    /\ InProgress(o)
    /\ InProgress(p)
    /\ operation[o].requirement = operation[p].requirement
    => o = p

(***************************************************************************)
(* A receipt belongs to the claim it was written under: no method leaves   *)
(* it behind when the requirement is completed, failed, revised, rebased,  *)
(* moved or recovered, where a later claim would find it (935-1215).       *)
(***************************************************************************)
ReceiptBelongsToClaim ==
  \A q \in Requirements :
    Exists(q) /\ requirement[q].target # NoTarget
      => requirement[q].status = "implementing"

\* The newest event tells the status of its requirement (1462-1479).
NewestEventIsStatus == \A q \in Requirements : event[q].to = StatusOf(q)

(***************************************************************************)
(* While a requirement stays claimed its receipt is not replaced and not   *)
(* dropped: what was noted before a publication is what recovery compares  *)
(* after it (973-1031), also when another requirement of the same route    *)
(* is moved (1249-1312).                                                   *)
(***************************************************************************)
ReceiptIsKept ==
  [][\A q \in Requirements :
       Implementing(q) /\ Implementing(q)' /\ requirement[q].target # NoTarget
         => requirement'[q].target = requirement[q].target]_store

\* An operation reported finished or failed is never anything else (783-844).
ReportedOnce ==
  [][\A o \in Operations :
       Submitted(o) /\ ~InProgress(o) => operation'[o] = operation[o]]_store

(***************************************************************************)
(* Who reads only the statuses sees the lifecycle the documents tell, with *)
(* operations that begin in the very step that claims their requirement,   *)
(* whatever clients call in whatever order (USAGE.md:291, 387-423).        *)
(***************************************************************************)
Statuses == [q \in Requirements |-> StatusOf(q)]

Reports == [o \in Operations |-> IF Submitted(o) THEN operation[o].status ELSE "none"]

Subjects ==
  [o \in Operations |-> IF Submitted(o) THEN operation[o].requirement ELSE NoRequirement]

Lifecycle == INSTANCE RequirementLifecycle WITH
  status <- Statuses, report <- Reports, subject <- Subjects

ImplementsLifecycle == Lifecycle!Spec
=============================================================================
