------------------------- MODULE ImplementationTask -------------------------
(***************************************************************************)
(* The management side of self_grow_agent/api.py: the handlers that submit *)
(* work, run_requirement_implementation, which carries it out in the       *)
(* background, and the recovery at startup, over the tables of             *)
(* RequirementStore and the table of published routes.                     *)
(*                                                                         *)
(* Every await is a place where other requests run, so a task goes through *)
(*                                                                         *)
(*   revising, created -> scheduled -> claimed -> generated -> noted       *)
(*     -> ready [-> moved] -> published -> completed                       *)
(*                                                                         *)
(* and from an exception before "published" through erring and failing, or *)
(* from a cancellation there through cancelled and dropped.                *)
(* A commit of RouteRuntime is one step: RouteRegistry implements the      *)
(* compare-and-swap RouteTable promises, and publications are its table.   *)
(* A move's target must be free (RouteRuntime.move).                       *)
(***************************************************************************)
EXTENDS RequirementStore

CONSTANTS
  Tasks,     \* background tasks, with the handler that starts each
  Requests,  \* the requests that clients make
  Faults,    \* what can go wrong
  NoTask

ASSUME TaskAssumption ==
  /\ Kinds = {"create", "update", "move"}
  /\ NoOperation \notin Operations
  /\ NoPublication \notin Publication
  /\ Requests \subseteq {"create", "move", "revise", "retry", "implement",
                         "link", "edit", "rebase", "put"}
  /\ Faults \subseteq {"generation", "storage", "activation", "crash", "shutdown",
                       "collision"}

Phases == {"revising", "created", "scheduled", "claimed", "generated", "noted", "ready",
           "moved", "published", "completed", "erring", "failing", "cancelled", "dropped"}

\* operation and base may be missing; moving is is_route_move.
Task == [pc : Phases, requirement : Requirements, operation : Operations \cup {NoOperation},
         kind : {"create", "update", "move"}, path : Routes, base : Link \cup {NoLink},
         moving : BOOLEAN, target : Target \cup {NoTarget}]

ASSUME NoTaskAssumption == NoTask \notin Task

VARIABLES
  service,    \* running, stopping (its tasks are cancelled) or stopped
  table,      \* what each route publishes: _active_publications
  task,       \* the background tasks
  late,       \* threads that go on for a task that was cancelled
  committed,  \* history: operations whose commit RouteRuntime has made
  published,  \* history: what was ever published
  owner       \* history: the task that claimed each requirement last

history == <<committed, published, owner>>
vars == <<store, service, table, task, late, history>>

TypeOK ==
  /\ StoreTypeOK
  /\ service \in {"running", "stopping", "stopped"}
  /\ table \in [Routes -> Publication \cup {NoPublication}]
  /\ task \in [Tasks -> Task \cup {NoTask}]
  /\ late \subseteq Task
  /\ committed \subseteq Operations
  /\ published \subseteq Target
  /\ owner \in [Requirements -> Tasks \cup {NoTask}]

Init ==
  /\ StoreInit
  /\ service = "running"
  /\ table = [r \in Routes |-> NoPublication]
  /\ task = [t \in Tasks |-> NoTask]
  /\ late = {}
  /\ committed = {}
  /\ published = {}
  /\ owner = [q \in Requirements |-> NoTask]

Running == service = "running"

Is(t, pc) == task[t] # NoTask /\ task[t].pc = pc

At(t, pc) == Running /\ Is(t, pc)

Goto(t, pc) == task' = [task EXCEPT ![t].pc = pc]

End(t) == task' = [task EXCEPT ![t] = NoTask]

Linked(route) == [route |-> route, version |-> table[route].version]

-----------------------------------------------------------------------------
(* The requests that start a task.                                         *)

\* uuid4: an id no row has and no handler holds.
FreshOperation(o) ==
  /\ ~Submitted(o)
  /\ \A t \in Tasks : task[t] # NoTask => task[t].operation # o

Start(t, pc, q, o, kind, path, base) ==
  /\ Running
  /\ task[t] = NoTask
  /\ task' = [task EXCEPT ![t] =
       [pc |-> pc, requirement |-> q, operation |-> o, kind |-> kind, path |-> path,
        base |-> base, moving |-> FALSE, target |-> NoTarget]]
  /\ UNCHANGED <<service, table, late, history>>

\* POST /routes: the path is free, and the requirement is stored.
RequestCreate(t, q, o, path) ==
  /\ "create" \in Requests
  /\ FreshOperation(o)
  /\ table[path] = NoPublication
  /\ Create(q, path, NoLink)
  /\ Start(t, "created", q, o, "create", path, NoLink)

\* POST /routes/{id}/move: no requirement of the route is being implemented.
RequestMove(t, q, o, route, path) ==
  /\ "move" \in Requests
  /\ FreshOperation(o)
  /\ table[route] # NoPublication
  /\ table[path] = NoPublication
  /\ CanMove(route, NoRequirement)
  /\ Create(q, path, Linked(route))
  /\ Start(t, "created", q, o, "move", path, Linked(route))

\* create_operation, in a transaction of its own.
Accept(t) ==
  /\ At(t, "created")
  /\ CreateOperation(task[t].operation, task[t].requirement, task[t].kind,
                     task[t].path, task[t].base)
  /\ Goto(t, "scheduled")
  /\ UNCHANGED <<service, table, late, history>>

\* revise-and-implement reads the requirement and its route first.
RequestRevise(t, q, o) ==
  LET link == requirement[q].link
      path == requirement[q].path
  IN
  /\ "revise" \in Requests
  /\ FreshOperation(o)
  /\ Exists(q)
  /\ \/ link = NoLink /\ Start(t, "revising", q, o, "create", path, NoLink)
     \/ /\ link # NoLink
        /\ link.route = path
        /\ table[path] # NoPublication
        /\ Start(t, "revising", q, o, "update", path, Linked(path))
  /\ UNCHANGED store

Revise(t) ==
  /\ At(t, "revising")
  /\ ReviseAndCreateOperation(task[t].operation, task[t].requirement,
                              task[t].kind, task[t].base)
  /\ Goto(t, "scheduled")
  /\ UNCHANGED <<service, table, late, history>>

\* retry reads the failed operation, its requirement and the route as it is now.
RetryRoute(previous) ==
  LET link == requirement[previous.requirement].link
  IN  IF link # NoLink THEN link.route ELSE previous.base.route

RequestRetry(t, failed, o) ==
  LET previous == operation[failed]
      q == previous.requirement
      route == RetryRoute(previous)
  IN
  /\ "retry" \in Requests
  /\ FreshOperation(o)
  /\ HasStatus(failed, "failed")
  /\ \/ /\ previous.kind = "create"
        /\ Start(t, "created", q, o, "create", previous.path, NoLink)
     \/ /\ previous.kind # "create"
        /\ table[route] # NoPublication
        /\ Start(t, "created", q, o, previous.kind,
                 IF previous.kind = "update" THEN route ELSE previous.path, Linked(route))
  /\ UNCHANGED store

\* implement: a published receipt is reconciled, other work is started anew.
RequestImplement(t, q) ==
  /\ "implement" \in Requests
  /\ Exists(q)
  /\ \/ /\ Running
        /\ ReconcilePublication(q, table)
        /\ UNCHANGED <<service, table, task, late, history>>
     \/ /\ ~(Implementing(q) /\ Published(requirement[q].target, table))
        /\ Start(t, "scheduled", q, NoOperation, "update", requirement[q].path, NoLink)
        /\ UNCHANGED store

-----------------------------------------------------------------------------
(* The requests that do not.                                               *)

\* POST /requirements, linked to a published route or to a free path.
LinkRequirement(q, path) ==
  /\ "link" \in Requests
  /\ Create(q, path, IF table[path] = NoPublication THEN NoLink ELSE Linked(path))

EditRequirement(q) == "edit" \in Requests /\ UpdateContent(q)

\* The linked route must still be at the requirement's path.
RebaseRequirement(q) ==
  /\ "rebase" \in Requests
  /\ Exists(q)
  /\ requirement[q].link # NoLink
  /\ requirement[q].link.route = requirement[q].path
  /\ table[requirement[q].path] # NoPublication
  /\ RebaseRoute(q, Linked(requirement[q].path))

Change(q) ==
  /\ Running
  /\ EditRequirement(q) \/ RebaseRequirement(q) \/ \E path \in Routes : LinkRequirement(q, path)
  /\ UNCHANGED <<service, table, task, late, history>>

\* What a route publishes, as a target.
AsTarget(route, version, digest) == [route |-> route, version |-> version, digest |-> digest]

\* No other source for the same version of the route has the same digest.
Distinct(target) ==
  "collision" \in Faults \/ \A t \in Tasks : task[t] # NoTask => task[t].target # target

\* PUT /routes/{id}, and rollback: a new version without a requirement.
PutRoute(route, digest) ==
  /\ "put" \in Requests
  /\ Running
  /\ table[route] # NoPublication
  /\ table[route].version < MaxVersion
  /\ Distinct(AsTarget(route, table[route].version + 1, digest))
  /\ table' = [table EXCEPT ![route] = [version |-> @.version + 1, digest |-> digest]]
  /\ published' = published \cup {AsTarget(route, table[route].version + 1, digest)}
  /\ UNCHANGED <<store, service, task, late, committed, owner>>

-----------------------------------------------------------------------------
(* run_requirement_implementation.                                         *)

ClaimRow(t) ==
  IF task[t].operation = NoOperation
    THEN BeginImplementation(task[t].requirement)
    ELSE BeginOperation(task[t].operation)

\* The work is the operation's snapshot, or the requirement as it is now.
ClaimWork(t) ==
  /\ At(t, "scheduled")
  /\ ClaimRow(t)
  /\ LET row == requirement[task[t].requirement]
         work == [task[t] EXCEPT !.pc = "claimed"]
     IN  task' = [task EXCEPT ![t] =
           IF work.operation # NoOperation THEN work
           ELSE [work EXCEPT !.path = row.path, !.base = row.link]]
  /\ owner' = [owner EXCEPT ![task[t].requirement] = t]
  /\ UNCHANGED <<service, table, late, committed, published>>

IsRouteMove(t) ==
  IF task[t].operation = NoOperation
    THEN task[t].base.route # task[t].path
    ELSE task[t].kind = "move"

\* What the checks before the generation let through becomes the candidate.
Candidate(t, digest) ==
  LET base == task[t].base IN
  IF base = NoLink THEN AsTarget(task[t].path, 1, digest)
  ELSE AsTarget(IF IsRouteMove(t) THEN task[t].path ELSE base.route,
                base.version + 1, digest)

\* The route is as the work expects it; a moved route has no other work.
Generatable(t) ==
  LET base == task[t].base IN
  \/ base = NoLink /\ table[task[t].path] = NoPublication
  \/ /\ base # NoLink
     /\ base.version < MaxVersion
     /\ table[base.route] # NoPublication
     /\ table[base.route].version = base.version
     /\ IsRouteMove(t) => CanMove(base.route, task[t].requirement)

Generate(t, digest) ==
  /\ At(t, "claimed")
  /\ Generatable(t)
  /\ Distinct(Candidate(t, digest))
  /\ task' = [task EXCEPT ![t] =
       [@ EXCEPT !.pc = "generated", !.target = Candidate(t, digest),
                 !.moving = task[t].base # NoLink /\ IsRouteMove(t)]]
  /\ UNCHANGED <<store, service, table, late, history>>

\* A variation: the operation's receipt is forgotten.
AfterNoteAlways(t) == "ready"

AfterNote(t) == IF task[t].operation = NoOperation THEN "ready" ELSE "noted"

\* before_publish: the receipt goes to the requirement, then to the operation.
Note(t) ==
  /\ At(t, "generated")
  /\ PreparePublication(task[t].requirement, task[t].target)
  /\ Goto(t, AfterNote(t))
  /\ UNCHANGED <<service, table, late, history>>

NoteOperation(t) ==
  /\ At(t, "noted")
  /\ PrepareOperationPublication(task[t].operation, task[t].target)
  /\ Goto(t, "ready")
  /\ UNCHANGED <<service, table, late, history>>

\* A variation: a version published meanwhile is not noticed.
CommittableUnversioned(w) ==
  LET base == w.base
      route == w.target.route
  IN
  \/ base = NoLink /\ table[route] = NoPublication
  \/ /\ base # NoLink
     /\ table[base.route] # NoPublication
     /\ w.moving => table[route] = NoPublication

\* The check of RouteRuntime in its second critical section, for the work w.
Committable(w) ==
  LET base == w.base
      route == w.target.route
  IN
  \/ base = NoLink /\ table[route] = NoPublication
  \/ /\ base # NoLink
     /\ table[base.route] # NoPublication
     /\ table[base.route].version = base.version
     /\ w.moving => table[route] = NoPublication

CommitRoute(w) ==
  LET target == w.target IN
  /\ Committable(w)
  /\ table' = [r \in Routes |->
       IF r = target.route THEN [version |-> target.version, digest |-> target.digest]
       ELSE IF w.moving /\ r = w.base.route THEN NoPublication
       ELSE table[r]]
  /\ published' = published \cup {target}
  /\ committed' = committed \cup ({w.operation} \ {NoOperation})
  /\ UNCHANGED <<store, service, owner>>

Publish(t) ==
  /\ At(t, "ready")
  /\ CommitRoute(task[t])
  /\ Goto(t, IF task[t].moving THEN "moved" ELSE "published")
  /\ UNCHANGED late

MoveLinks(t) ==
  /\ At(t, "moved")
  /\ MoveRouteLinks(task[t].base.route, LinkOf(task[t].target), task[t].requirement)
  /\ Goto(t, "published")
  /\ UNCHANGED <<service, table, late, history>>

\* finalize_requirement; its three attempts are one step.
Finalize(t) ==
  /\ At(t, "published")
  /\ CompleteImplementation(task[t].requirement, task[t].target)
  /\ IF task[t].operation = NoOperation THEN End(t) ELSE Goto(t, "completed")
  /\ UNCHANGED <<service, table, late, history>>

Finish(t) ==
  /\ At(t, "completed")
  /\ CompleteOperation(task[t].operation, LinkOf(task[t].target))
  /\ End(t)
  /\ UNCHANGED <<service, table, late, history>>

-----------------------------------------------------------------------------
(* Exceptions.                                                             *)

\* The store or the runtime raises although no fault occurs.
Refused(t) ==
  LET q == task[t].requirement
      o == task[t].operation
      target == task[t].target
  IN
  \/ At(t, "created") /\ HasActiveOperation(q)
  \/ At(t, "revising") /\ (Implementing(q) \/ HasActiveOperation(q))
  \/ At(t, "scheduled") /\ ~Claimable(q)
  \/ At(t, "claimed") /\ ~Generatable(t)
  \/ At(t, "generated") /\ ~ReceiptAgrees(q, target)
  \/ At(t, "noted") /\ ~HasStatus(o, "implementing")
  \/ At(t, "ready") /\ ~Committable(task[t])
  \/ At(t, "moved") /\ ~CanMove(task[t].base.route, q)
  \/ At(t, "published") /\ ~Completable(q, target) /\ ~AlreadyActive(q, target)
  \/ At(t, "completed") /\ ~HasStatus(o, "implementing") /\ ~HasStatus(o, "finish")

StorePhases == {"created", "revising", "scheduled", "claimed", "generated", "noted",
                "moved", "published", "completed"}

\* SQLite is locked or unavailable, or no handler could be generated.
Faulty(t) ==
  \/ "storage" \in Faults /\ \E pc \in StorePhases : At(t, pc)
  \/ "generation" \in Faults /\ At(t, "claimed")

\* A variation: the generation is outside of the try block.
GuardedAfterGeneration(t) == \E pc \in {"generated", "noted", "ready", "moved"} : Is(t, pc)

\* The try block of run_requirement_implementation around the publication.
Guarded(t) == \E pc \in {"claimed", "generated", "noted", "ready", "moved"} : Is(t, pc)

AfterException(t) == IF Guarded(t) THEN Goto(t, "erring") ELSE End(t)

Raise(t) ==
  /\ Refused(t) \/ Faulty(t)
  /\ AfterException(t)
  /\ UNCHANGED <<store, service, table, late, history>>

(***************************************************************************)
(* Most methods of the store commit and then read the row back on another  *)
(* connection: the transaction may take effect and the method still raise. *)
(***************************************************************************)
CommittedCall(t) ==
  LET q == task[t].requirement
      o == task[t].operation
      target == task[t].target
  IN
  \/ Is(t, "created") /\ CreateOperation(o, q, task[t].kind, task[t].path, task[t].base)
  \/ Is(t, "revising") /\ ReviseAndCreateOperation(o, q, task[t].kind, task[t].base)
  \/ Is(t, "scheduled") /\ ClaimRow(t)
  \/ Is(t, "generated") /\ PreparePublication(q, target)
  \/ Is(t, "noted") /\ PrepareOperationPublication(o, target)
  \/ Is(t, "published") /\ CompleteImplementation(q, target)
  \/ Is(t, "completed") /\ CompleteOperation(o, LinkOf(target))

AnswerLost(t) ==
  /\ "storage" \in Faults
  /\ Running
  /\ CommittedCall(t)
  /\ AfterException(t)
  /\ owner' = IF At(t, "scheduled") THEN [owner EXCEPT ![task[t].requirement] = t] ELSE owner
  /\ UNCHANGED <<service, table, late, committed, published>>

\* PluginPublisher activates the route and fails in what it does afterwards.
ActivatedButRaised(t) ==
  /\ "activation" \in Faults
  /\ At(t, "ready")
  /\ CommitRoute(task[t])
  /\ Goto(t, "erring")
  /\ UNCHANGED late

\* A variation: only the requirement is failed.
AfterFailureEnds(t) == End(t)

AfterFailure(t) ==
  IF task[t].operation = NoOperation THEN End(t)
  ELSE Goto(t, IF Is(t, "cancelled") THEN "dropped" ELSE "failing")

\* The handlers of Exception and of CancelledError.
Failing(t) == At(t, "erring") \/ Is(t, "cancelled")

\* fail_requirement swallows what the store raises.
FailRequirement(t) ==
  LET q == task[t].requirement IN
  /\ Failing(t)
  /\ \/ FailImplementation(q)
     \/ (~Implementing(q) \/ "storage" \in Faults) /\ UNCHANGED store
  /\ AfterFailure(t)
  /\ UNCHANGED <<service, table, late, history>>

FailTask(t) ==
  LET o == task[t].operation IN
  /\ At(t, "failing") \/ Is(t, "dropped")
  /\ \/ FailOperation(o)
     \/ (~Failable(o) \/ "storage" \in Faults) /\ UNCHANGED store
  /\ End(t)
  /\ UNCHANGED <<service, table, late, history>>

-----------------------------------------------------------------------------
(* The service stops: in order, its loop closes and cancels every task at  *)
(* the await where it is; or at any point.  Its startup recovers both      *)
(* tables.                                                                 *)

Shutdown ==
  /\ "shutdown" \in Faults
  /\ Running
  /\ service' = "stopping"
  /\ UNCHANGED <<store, table, task, late, history>>

\* The call a task waits for goes on in its thread: the activation of a plugin, or the
\* other links of a moved route.
OutlivesTask(t) == Is(t, "ready") \/ Is(t, "moved")

Cancel(t) ==
  /\ service = "stopping"
  /\ task[t] # NoTask
  /\ task[t].pc \notin {"cancelled", "dropped"}
  /\ IF Guarded(t) THEN Goto(t, "cancelled") ELSE End(t)
  /\ late' = IF OutlivesTask(t) THEN late \cup {task[t]} ELSE late
  /\ \/ ~Guarded(t) /\ CommittedCall(t)
     \/ UNCHANGED store
  /\ UNCHANGED <<service, table, history>>

LateCommit(w) ==
  /\ w.pc = "ready"
  /\ CommitRoute(w)
  /\ late' = late \ {w}
  /\ UNCHANGED task

LateMoveLinks(w) ==
  /\ w.pc = "moved"
  /\ MoveRouteLinks(w.base.route, LinkOf(w.target), w.requirement)
  /\ late' = late \ {w}
  /\ UNCHANGED <<service, table, task, history>>

\* The process waits for its threads.
Exit ==
  /\ service = "stopping"
  /\ task = [t \in Tasks |-> NoTask]
  /\ late = {}
  /\ service' = "stopped"
  /\ UNCHANGED <<store, table, task, late, history>>

Crash ==
  /\ "crash" \in Faults
  /\ service # "stopped"
  /\ service' = "stopped"
  /\ task' = [t \in Tasks |-> NoTask]
  /\ late' = {}
  /\ UNCHANGED <<store, table, history>>

Startup ==
  /\ service = "stopped"
  /\ service' = "running"
  /\ RecoverInterrupted(table)
  /\ UNCHANGED <<table, task, late, history>>

\* A thread that outlives its task ends its work, or refuses it.
Late ==
  \/ \E w \in late : LateCommit(w) \/ LateMoveLinks(w)
  \/ \E w \in late :
       late' = late \ {w} /\ UNCHANGED <<store, service, table, task, history>>

Request(t) ==
  \E q \in Requirements, o \in Operations, path \in Routes :
    \/ RequestCreate(t, q, o, path)
    \/ \E route \in Routes : RequestMove(t, q, o, route, path)
    \/ RequestRevise(t, q, o)
    \/ \E failed \in Operations : RequestRetry(t, failed, o)
    \/ RequestImplement(t, q)

Work(t) ==
  \/ Accept(t) \/ Revise(t) \/ ClaimWork(t)
  \/ \E digest \in Digests : Generate(t, digest)
  \/ Note(t) \/ NoteOperation(t) \/ Publish(t) \/ MoveLinks(t)
  \/ Finalize(t) \/ Finish(t)
  \/ Raise(t) \/ AnswerLost(t) \/ ActivatedButRaised(t)
  \/ FailRequirement(t) \/ FailTask(t)

NextTask ==
  \/ \E t \in Tasks : Request(t) \/ Work(t)
  \/ \E q \in Requirements : Change(q)
  \/ \E route \in Routes, digest \in Digests : PutRoute(route, digest)
  \/ Shutdown
  \/ \E t \in Tasks : Cancel(t)
  \/ Late
  \/ Exit
  \/ Crash
  \/ Startup

TaskSpec == Init /\ [][NextTask]_vars

\* The event loop runs every task that can go on.
FairSpec == TaskSpec /\ \A t \in Tasks : WF_vars(Work(t))

-----------------------------------------------------------------------------
(* Properties.                                                             *)

(***************************************************************************)
(* finish and active are never reported for something that was not         *)
(* published, at exactly that route, version and digest, after whatever    *)
(* crashes, retries and reconciliations.                                   *)
(***************************************************************************)
FinishIsPublished ==
  /\ \A o \in Operations : HasStatus(o, "finish") => operation[o].target \in published
  /\ \A q \in Requirements :
       Exists(q) /\ requirement[q].status = "active"
         => \E target \in published : LinkOf(target) = requirement[q].link

(***************************************************************************)
(* A publication is never ahead of its receipt: as long as its operation   *)
(* is reported in progress, the operation row holds what was published, so *)
(* that a restart can tell (api.py:1724-1757, README.md:253).              *)
(***************************************************************************)
CommittedHasReceipt ==
  \A o \in committed : InProgress(o) => operation[o].target \in published

(***************************************************************************)
(* Work that was published and is served is not reported as failed, which  *)
(* would have its client publish it again: its receipt is retained until   *)
(* SQLite says finish (api.py:1880-1882, README.md:253).                   *)
(***************************************************************************)
ServedIsNotFailed ==
  \A o \in committed :
    HasStatus(o, "failed") => ~Published(operation[o].target, table)

(***************************************************************************)
(* A task that fails returns its own claim, not one that another task has  *)
(* made on the requirement since: fail_implementation does not ask whose   *)
(* claim it ends (metadata.py:1111-1145).                                  *)
(***************************************************************************)
FailsOwnClaim ==
  [][\A t \in Tasks :
       Failing(t) =>
         LET q == task[t].requirement IN
         Implementing(q) /\ requirement'[q].status = "failed" => owner[q] = t]_vars

(***************************************************************************)
(* The routes change as RouteTable lets them, which is what allows a       *)
(* commit to be one step here: a candidate that was checked, generated and *)
(* numbered from a route read long ago, by a task or by a thread that      *)
(* outlives it, becomes its next version or is refused (runtime.py:220).   *)
(* Project, mode and origin do not matter to a task and stay the same.     *)
(***************************************************************************)
AsRecord(publication) ==
  [version |-> publication.version, project |-> "any", mode |-> "restricted",
   code |-> publication.digest, origin |-> "any"]

Records ==
  [r \in Routes |-> IF table[r] = NoPublication THEN NoPublication ELSE AsRecord(table[r])]

Runtime == INSTANCE RouteTable WITH
  table <- Records,
  Projects <- {"any"},
  Codes <- Digests \cup {"any"},
  EvictingModes <- {},
  NoRoute <- NoPublication

ASSUME NoPublicationAssumption == NoPublication \notin Runtime!Record

ImplementsTable == Runtime!Spec

(***************************************************************************)
(* A claim is always given back: whatever the task meets on its way, some  *)
(* handler of an exception ends the requirement's implementing status, in  *)
(* which it can be neither edited nor implemented again (api.py:1649-1923).*)
(***************************************************************************)
EveryClaimEnds ==
  \A q \in Requirements : Implementing(q) ~> (~Implementing(q) \/ ~Running)

\* An operation that a task has begun is reported finished or failed (1649-1923).
BegunOperationEnds ==
  \A o \in Operations : HasStatus(o, "implementing") ~> (~InProgress(o) \/ ~Running)

(***************************************************************************)
(* A client that polls an accepted operation sees finish or failed in the  *)
(* end, unless the service is stopped (README.md:91).                      *)
(***************************************************************************)
EveryOperationEnds ==
  \A o \in Operations : HasStatus(o, "accepted") ~> (~InProgress(o) \/ ~Running)
=============================================================================
