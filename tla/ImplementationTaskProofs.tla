---------------------- MODULE ImplementationTaskProofs ----------------------
(***************************************************************************)
(* Theorems about ImplementationTask, for any number of tasks, requirements*)
(* and operations.  The tasks call the store as its clients may, so what   *)
(* RequirementStoreProofs shows of any clients holds of the service.       *)
(***************************************************************************)
EXTENDS ImplementationTask, RequirementStoreProofs

Live(t) == task[t] # NoTask

\* What a task has at hand where it is.
Shaped(w) ==
  /\ w.pc \in {"revising", "created", "noted", "completed", "failing", "dropped"}
       => w.operation \in Operations
  /\ w.pc \in {"generated", "noted", "ready", "moved", "published", "completed"}
       => w.target \in Target
  /\ w.pc \in {"revising", "created", "scheduled"} => ~w.moving
  /\ w.moving => w.base \in Link
  /\ w.pc = "moved" => w.moving
  /\ w.pc \in {"revising", "created"} /\ w.kind # "create" => w.base \in Link

TasksAreShaped == \A t \in Tasks : Live(t) => Shaped(task[t])

LateAreShaped == \A w \in late : w.pc \in {"ready", "moved"} /\ Shaped(w)

\* An operation on a route that exists says which.
KindsHaveBase ==
  \A o \in Operations : Submitted(o) /\ operation[o].kind # "create" => operation[o].base \in Link

\* The foreign key of operations; no requirement is ever deleted.
OperationsRefer == \A o \in Operations : Submitted(o) => Exists(operation[o].requirement)

TaskInv ==
  StoreInv /\ OperationsRefer /\ TypeOK /\ TasksAreShaped /\ LateAreShaped /\ KindsHaveBase

-----------------------------------------------------------------------------
(* Types.                                                                  *)

LEMMA TaskType ==
  ASSUME TaskInv, NEW t \in Tasks, Live(t)
  PROVE  /\ task[t] \in Task /\ Shaped(task[t])
         /\ task[t].requirement \in Requirements /\ task[t].path \in Routes
         /\ task[t].operation \in Operations \cup {NoOperation}
         /\ task[t].kind \in Kinds /\ task[t].pc \in Phases
         /\ task[t].base \in Link \cup {NoLink} /\ task[t].moving \in BOOLEAN
         /\ task[t].target \in Target \cup {NoTarget}
<1>1. task[t] \in Task /\ Shaped(task[t])
  BY DEF TaskInv, TypeOK, TasksAreShaped, Live
<1>2. QED
  BY <1>1, TaskAssumption DEF Task

LEMMA LinkedType ==
  ASSUME TaskInv, NEW route \in Routes, table[route] # NoPublication
  PROVE  Linked(route) \in Link
BY DEF TaskInv, TypeOK, Linked, Link, Publication

LEMMA TargetIsCompletion ==
  ASSUME NEW target \in Target
  PROVE  target \in Completion /\ LinkOf(target) \in Link
BY LinkOfType DEF Target, Completion

\* A task goes on with its work at another place.
LEMMA GotoType ==
  ASSUME TaskInv, NEW t \in Tasks, Live(t), NEW pc \in Phases, Goto(t, pc)
  PROVE  /\ task' \in [Tasks -> Task \cup {NoTask}]
         /\ \A u \in Tasks \ {t} : task'[u] = task[u]
         /\ Live(t)' /\ task'[t] \in Task /\ task'[t].pc = pc
         /\ task'[t].requirement = task[t].requirement
         /\ task'[t].operation = task[t].operation /\ task'[t].kind = task[t].kind
         /\ task'[t].path = task[t].path /\ task'[t].base = task[t].base
         /\ task'[t].moving = task[t].moving /\ task'[t].target = task[t].target
<1> DEFINE w == [task[t] EXCEPT !.pc = pc]
<1>1. task[t] \in Task
  BY TaskType
<1>2. w \in Task /\ w.pc = pc
      /\ w.requirement = task[t].requirement
      /\ w.operation = task[t].operation /\ w.kind = task[t].kind
      /\ w.path = task[t].path /\ w.base = task[t].base
      /\ w.moving = task[t].moving /\ w.target = task[t].target
  BY <1>1 DEF Task
<1>3. task' = [task EXCEPT ![t] = w]
  BY DEF Goto
<1> HIDE DEF w
<1>4. task \in [Tasks -> Task \cup {NoTask}]
  BY DEF TaskInv, TypeOK
<1>5. task'[t] = w /\ \A u \in Tasks \ {t} : task'[u] = task[u]
  BY <1>3, <1>4
<1>6. QED
  BY <1>2, <1>3, <1>4, <1>5, NoTaskAssumption DEF Live

LEMMA EndType ==
  ASSUME TaskInv, NEW t \in Tasks, End(t)
  PROVE  /\ task' \in [Tasks -> Task \cup {NoTask}]
         /\ ~Live(t)' /\ \A u \in Tasks \ {t} : task'[u] = task[u]
BY DEF End, TaskInv, TypeOK, Live

\* The work a request starts, with what it read.
LEMMA StartType ==
  ASSUME TaskInv, NEW t \in Tasks, NEW pc \in {"revising", "created", "scheduled"},
         NEW q \in Requirements, NEW o \in Operations \cup {NoOperation}, NEW kind \in Kinds,
         NEW path \in Routes, NEW base \in Link \cup {NoLink},
         Start(t, pc, q, o, kind, path, base)
  PROVE  /\ ~Live(t) /\ task' \in [Tasks -> Task \cup {NoTask}]
         /\ \A u \in Tasks \ {t} : task'[u] = task[u]
         /\ Live(t)' /\ task'[t] \in Task /\ task'[t].pc = pc /\ task'[t].requirement = q
         /\ task'[t].operation = o /\ task'[t].kind = kind /\ task'[t].base = base
         /\ ~task'[t].moving
         /\ UNCHANGED <<service, table, late, history>>
<1> DEFINE w == [pc |-> pc, requirement |-> q, operation |-> o, kind |-> kind, path |-> path,
                 base |-> base, moving |-> FALSE, target |-> NoTarget]
<1>1. w \in Task /\ w.pc = pc /\ w.requirement = q /\ w.operation = o /\ w.kind = kind
      /\ w.base = base /\ ~w.moving
  BY TaskAssumption DEF Task, Phases
<1>2. task' = [task EXCEPT ![t] = w] /\ ~Live(t)
  BY DEF Start, Live
<1>3. UNCHANGED <<service, table, late, history>>
  BY DEF Start
<1> HIDE DEF w
<1>4. task \in [Tasks -> Task \cup {NoTask}]
  BY DEF TaskInv, TypeOK
<1>5. task'[t] = w /\ \A u \in Tasks \ {t} : task'[u] = task[u]
  BY <1>2, <1>4
<1>6. QED
  BY <1>1, <1>2, <1>3, <1>4, <1>5, NoTaskAssumption DEF Live

-----------------------------------------------------------------------------
(* The store has the tasks for clients.                                    *)

LEMMA CallIsClient ==
  ASSUME TaskInv, NEW t \in Tasks, CommittedCall(t)
  PROVE  Live(t) /\ Next
<1> DEFINE q == task[t].requirement
           o == task[t].operation
           target == task[t].target
<1>1. Live(t)
  BY DEF CommittedCall, Is, Live
<1>2. /\ q \in Requirements /\ Shaped(task[t]) /\ task[t].kind \in Kinds
      /\ task[t].path \in Routes /\ task[t].base \in Link \cup {NoLink}
      /\ o \in Operations \cup {NoOperation}
  BY <1>1, TaskType
<1>3. CASE Is(t, "created") /\ CreateOperation(o, q, task[t].kind, task[t].path, task[t].base)
  <2>1. o \in Operations
    BY <1>2, <1>3 DEF Is, Shaped
  <2>2. ClientOperation(o)
    BY <1>2, <1>3 DEF ClientOperation
  <2>3. QED
    BY <1>1, <2>1, <2>2 DEF Next
<1>4. CASE Is(t, "revising") /\ ReviseAndCreateOperation(o, q, task[t].kind, task[t].base)
  <2>1. o \in Operations
    BY <1>2, <1>4 DEF Is, Shaped
  <2>2. ClientOperation(o)
    BY <1>2, <1>4 DEF ClientOperation
  <2>3. QED
    BY <1>1, <2>1, <2>2 DEF Next
<1>5. CASE Is(t, "scheduled") /\ ClaimRow(t)
  BY <1>1, <1>2, <1>5 DEF ClaimRow, Next, ClientRequirement, ClientOperation
<1>6. CASE Is(t, "generated") /\ PreparePublication(q, target)
  <2>1. target \in Target
    BY <1>2, <1>6 DEF Is, Shaped
  <2>2. ClientRequirement(q)
    BY <1>6, <2>1 DEF ClientRequirement
  <2>3. QED
    BY <1>1, <1>2, <2>2 DEF Next
<1>7. CASE Is(t, "noted") /\ PrepareOperationPublication(o, target)
  <2>1. target \in Target /\ o \in Operations
    BY <1>2, <1>7 DEF Is, Shaped
  <2>2. ClientOperation(o)
    BY <1>7, <2>1 DEF ClientOperation
  <2>3. QED
    BY <1>1, <2>1, <2>2 DEF Next
<1>8. CASE Is(t, "published") /\ CompleteImplementation(q, target)
  <2>1. target \in Completion
    BY <1>2, <1>8, TargetIsCompletion DEF Is, Shaped
  <2>2. ClientRequirement(q)
    BY <1>8, <2>1 DEF ClientRequirement
  <2>3. QED
    BY <1>1, <1>2, <2>2 DEF Next
<1>9. CASE Is(t, "completed") /\ CompleteOperation(o, LinkOf(target))
  <2>1. LinkOf(target) \in Link /\ o \in Operations
    BY <1>2, <1>9, TargetIsCompletion DEF Is, Shaped
  <2>2. ClientOperation(o)
    BY <1>9, <2>1 DEF ClientOperation
  <2>3. QED
    BY <1>1, <2>1, <2>2 DEF Next
<1>10. QED
  BY <1>3, <1>4, <1>5, <1>6, <1>7, <1>8, <1>9 DEF CommittedCall

\* The steps whose call to the store is what CommittedCall says.
LEMMA StepsCall ==
  ASSUME NEW t \in Tasks
  PROVE  /\ Accept(t) => CommittedCall(t) /\ Is(t, "created")
         /\ Revise(t) => CommittedCall(t) /\ Is(t, "revising")
         /\ ClaimWork(t) => CommittedCall(t) /\ Is(t, "scheduled")
         /\ Note(t) => CommittedCall(t) /\ Is(t, "generated")
         /\ NoteOperation(t) => CommittedCall(t) /\ Is(t, "noted")
         /\ Finalize(t) => CommittedCall(t) /\ Is(t, "published")
         /\ Finish(t) => CommittedCall(t) /\ Is(t, "completed")
<1>1. Accept(t) => CommittedCall(t) /\ Is(t, "created")
  BY DEF Accept, CommittedCall, At
<1>2. Revise(t) => CommittedCall(t) /\ Is(t, "revising")
  BY DEF Revise, CommittedCall, At
<1>3. ClaimWork(t) => CommittedCall(t) /\ Is(t, "scheduled")
  BY DEF ClaimWork, CommittedCall, At
<1>4. Note(t) => CommittedCall(t) /\ Is(t, "generated")
  BY DEF Note, CommittedCall, At
<1>5. NoteOperation(t) => CommittedCall(t) /\ Is(t, "noted")
  BY DEF NoteOperation, CommittedCall, At
<1>6. Finalize(t) => CommittedCall(t) /\ Is(t, "published")
  BY DEF Finalize, CommittedCall, At
<1>7. Finish(t) => CommittedCall(t) /\ Is(t, "completed")
  BY DEF Finish, CommittedCall, At
<1>8. QED
  BY <1>1, <1>2, <1>3, <1>4, <1>5, <1>6, <1>7

LEMMA RequestIsClient ==
  ASSUME TaskInv, NEW t \in Tasks, Request(t)
  PROVE  [Next]_store
<1>1. PICK q \in Requirements, o \in Operations, path \in Routes :
    \/ RequestCreate(t, q, o, path)
    \/ \E route \in Routes : RequestMove(t, q, o, route, path)
    \/ RequestRevise(t, q, o)
    \/ \E failed \in Operations : RequestRetry(t, failed, o)
    \/ RequestImplement(t, q)
  BY DEF Request
<1>2. CASE RequestCreate(t, q, o, path)
  BY <1>2 DEF RequestCreate, Next, ClientRequirement
<1>3. ASSUME NEW route \in Routes, RequestMove(t, q, o, route, path)
      PROVE  Next
  <2>1. Linked(route) \in Link
    BY <1>3, LinkedType DEF RequestMove
  <2>2. QED
    BY <1>3, <2>1 DEF RequestMove, Next, ClientRequirement
<1>4. CASE RequestImplement(t, q)
  <2>1. table \in [Routes -> Publication \cup {NoPublication}]
    BY DEF TaskInv, TypeOK
  <2>2. QED
    BY <1>4, <2>1 DEF RequestImplement, Next
<1>5. CASE RequestRevise(t, q, o) \/ \E failed \in Operations : RequestRetry(t, failed, o)
  BY <1>5 DEF RequestRevise, RequestRetry
<1>6. QED
  BY <1>1, <1>2, <1>3, <1>4, <1>5

LEMMA ChangeIsClient ==
  ASSUME TaskInv, NEW q \in Requirements, Change(q)
  PROVE  Next
<1>1. CASE EditRequirement(q)
  BY <1>1 DEF EditRequirement, Next, ClientRequirement
<1>2. CASE RebaseRequirement(q)
  <2>1. requirement[q].path \in Routes
    BY <1>2, RowType DEF RebaseRequirement, Proper, Requirement, TaskInv, StoreInv
  <2>2. Linked(requirement[q].path) \in Link
    BY <1>2, <2>1, LinkedType DEF RebaseRequirement
  <2>3. QED
    BY <1>2, <2>2 DEF RebaseRequirement, Next, ClientRequirement
<1>3. ASSUME NEW path \in Routes, LinkRequirement(q, path)
      PROVE  Next
  <2>1. (IF table[path] = NoPublication THEN NoLink ELSE Linked(path)) \in Link \cup {NoLink}
    BY LinkedType
  <2>2. QED
    BY <1>3, <2>1 DEF LinkRequirement, Next, ClientRequirement
<1>4. QED
  BY <1>1, <1>2, <1>3 DEF Change

\* The other links of a moved route follow it, for a task or a thread that outlived it.
LEMMA MoveIsClient ==
  ASSUME NEW w \in Task, Shaped(w), w.pc = "moved",
         MoveRouteLinks(w.base.route, LinkOf(w.target), w.requirement)
  PROVE  Next
<1>1. w.base \in Link /\ w.target \in Target /\ w.requirement \in Requirements
  BY DEF Shaped, Task
<1>2. w.base.route \in Routes /\ LinkOf(w.target) \in Link
  BY <1>1, LinkOfType DEF Link
<1>3. QED
  BY <1>1, <1>2 DEF Next

LEMMA WorkIsClient ==
  ASSUME TaskInv, NEW t \in Tasks, Work(t)
  PROVE  [Next]_store
<1>1. CASE CommittedCall(t)
  BY <1>1, CallIsClient
<1>2. CASE UNCHANGED store
  BY <1>2
<1>3. CASE MoveLinks(t)
  <2>1. Live(t) /\ task[t].pc = "moved"
    BY <1>3 DEF MoveLinks, At, Is, Live
  <2>2. QED
    BY <1>3, <2>1, TaskType, MoveIsClient DEF MoveLinks
<1>4. CASE FailRequirement(t) /\ ~UNCHANGED store
  <2>1. Live(t) /\ FailImplementation(task[t].requirement)
    BY <1>4 DEF FailRequirement, Failing, At, Is, Live
  <2>2. QED
    BY <2>1, TaskType DEF Next, ClientRequirement
<1>5. CASE FailTask(t) /\ ~UNCHANGED store
  <2>1. Live(t) /\ task[t].pc \in {"failing", "dropped"} /\ FailOperation(task[t].operation)
    BY <1>5 DEF FailTask, At, Is, Live
  <2>2. task[t].operation \in Operations
    BY <2>1, TaskType DEF Shaped
  <2>3. QED
    BY <2>1, <2>2 DEF Next, ClientOperation
<1>6. QED
  BY <1>1, <1>2, <1>3, <1>4, <1>5, StepsCall
     DEF Work, Generate, Publish, CommitRoute, Raise, AnswerLost, ActivatedButRaised

LEMMA StepIsClient ==
  ASSUME TaskInv, [NextTask]_vars
  PROVE  [Next]_store
<1>1. ASSUME NEW t \in Tasks, Request(t) \/ Work(t)
      PROVE  [Next]_store
  BY <1>1, RequestIsClient, WorkIsClient
<1>2. ASSUME NEW q \in Requirements, Change(q)
      PROVE  [Next]_store
  BY <1>2, ChangeIsClient
<1>3. ASSUME NEW t \in Tasks, Cancel(t)
      PROVE  [Next]_store
  BY <1>3, CallIsClient DEF Cancel
<1>4. CASE Late
  <2>1. ASSUME NEW w \in late, LateMoveLinks(w)
        PROVE  Next
    <3>1. w \in Task /\ Shaped(w) /\ w.pc = "moved"
      BY <2>1 DEF TaskInv, TypeOK, LateAreShaped, LateMoveLinks
    <3>2. QED
      BY <2>1, <3>1, MoveIsClient DEF LateMoveLinks
  <2>2. ASSUME NEW w \in late, LateCommit(w)
        PROVE  UNCHANGED store
    BY <2>2 DEF LateCommit, CommitRoute
  <2>3. QED
    BY <1>4, <2>1, <2>2 DEF Late
<1>5. CASE Startup
  <2>1. table \in [Routes -> Publication \cup {NoPublication}]
    BY DEF TaskInv, TypeOK
  <2>2. QED
    BY <1>5, <2>1 DEF Startup, Next
<1>6. ASSUME NEW route \in Routes, NEW digest \in Digests, PutRoute(route, digest)
      PROVE  UNCHANGED store
  BY <1>6 DEF PutRoute
<1>7. CASE Shutdown \/ Exit \/ Crash \/ UNCHANGED vars
  BY <1>7 DEF Shutdown, Exit, Crash, vars
<1>8. QED
  BY <1>1, <1>2, <1>3, <1>4, <1>5, <1>6, <1>7 DEF NextTask

-----------------------------------------------------------------------------
(* Operations keep their kind and base.                                    *)

LEMMA RowSetKeepsBase ==
  ASSUME TaskInv, NEW o \in Operations, NEW row, SetOperation(o, row), Submitted(o),
         row.kind = operation[o].kind, row.base = operation[o].base
  PROVE  KindsHaveBase'
<1>1. operation'[o] = row /\ \A p \in Operations \ {o} : operation'[p] = operation[p]
  BY DEF SetOperation, TaskInv, StoreInv, OperationInv
<1>2. QED
  BY <1>1 DEF KindsHaveBase, TaskInv, Submitted

LEMMA InsertKeepsBase ==
  ASSUME TaskInv, NEW o \in Operations, NEW q, NEW kind, NEW path, NEW base,
         Insert(o, q, kind, path, base), kind # "create" => base \in Link
  PROVE  KindsHaveBase'
<1>1. /\ operation'[o].kind = kind /\ operation'[o].base = base
      /\ \A p \in Operations \ {o} : operation'[p] = operation[p]
  BY DEF Insert, TaskInv, StoreInv, OperationInv
<1>2. QED
  BY <1>1 DEF KindsHaveBase, TaskInv, Submitted

LEMMA OperationType ==
  ASSUME TaskInv, NEW o \in Operations, Submitted(o)
  PROVE  /\ operation[o] \in Operation
         /\ operation[o].requirement \in Requirements /\ operation[o].kind \in Kinds
         /\ operation[o].path \in Routes /\ operation[o].base \in Link \cup {NoLink}
         /\ operation[o].target \in Target \cup {NoTarget}
         /\ operation[o].status \in OperationStatuses
BY DEF TaskInv, StoreInv, OperationInv, Submitted, Operation

LEMMA FailKeepsBase ==
  ASSUME TaskInv, NEW o \in Operations, FailOperation(o)
  PROVE  KindsHaveBase'
<1> DEFINE row == [operation[o] EXCEPT !.status = "failed"]
<1>1. Submitted(o) /\ SetOperation(o, row)
  BY DEF FailOperation, Failable, InProgress
<1>2. row.kind = operation[o].kind /\ row.base = operation[o].base
  BY <1>1, OperationType DEF Operation
<1>3. QED
  BY <1>1, <1>2, RowSetKeepsBase

LEMMA CallKeepsBase ==
  ASSUME TaskInv, NEW t \in Tasks, CommittedCall(t)
  PROVE  KindsHaveBase'
<1> DEFINE q == task[t].requirement
           o == task[t].operation
           target == task[t].target
<1>1. Live(t)
  BY DEF CommittedCall, Is, Live
<1>2. Shaped(task[t]) /\ o \in Operations \cup {NoOperation}
  BY <1>1, TaskType
<1>3. CASE UNCHANGED operation
  BY <1>3 DEF KindsHaveBase, TaskInv, Submitted
<1>4. CASE Is(t, "created") /\ CreateOperation(o, q, task[t].kind, task[t].path, task[t].base)
  BY <1>2, <1>4, InsertKeepsBase DEF CreateOperation, Is, Shaped
<1>5. CASE Is(t, "revising") /\ ReviseAndCreateOperation(o, q, task[t].kind, task[t].base)
  BY <1>2, <1>5, InsertKeepsBase DEF ReviseAndCreateOperation, Is, Shaped
<1>6. CASE o \in Operations /\ BeginOperation(o)
  <2> DEFINE row == [operation[o] EXCEPT !.status = "implementing"]
  <2>1. Submitted(o) /\ SetOperation(o, row)
    BY <1>6 DEF BeginOperation, HasStatus
  <2>2. row.kind = operation[o].kind /\ row.base = operation[o].base
    BY <1>6, <2>1, OperationType DEF Operation
  <2>3. QED
    BY <1>6, <2>1, <2>2, RowSetKeepsBase
<1>7. CASE o \in Operations /\ PrepareOperationPublication(o, target)
  <2> DEFINE row == [operation[o] EXCEPT !.target = target]
  <2>1. Submitted(o) /\ SetOperation(o, row)
    BY <1>7 DEF PrepareOperationPublication, HasStatus
  <2>2. row.kind = operation[o].kind /\ row.base = operation[o].base
    BY <1>7, <2>1, OperationType DEF Operation
  <2>3. QED
    BY <1>7, <2>1, <2>2, RowSetKeepsBase
<1>8. CASE o \in Operations /\ CompleteOperation(o, LinkOf(target)) /\ ~UNCHANGED operation
  <2> DEFINE row == [operation[o] EXCEPT !.status = "finish",
                       !.target.route = LinkOf(target).route,
                       !.target.version = LinkOf(target).version]
  <2>1. Submitted(o) /\ SetOperation(o, row)
    BY <1>8 DEF CompleteOperation, HasStatus
  <2>2. row.kind = operation[o].kind /\ row.base = operation[o].base
    BY <1>8, <2>1, OperationType DEF Operation
  <2>3. QED
    BY <1>8, <2>1, <2>2, RowSetKeepsBase
<1>9. CASE Is(t, "scheduled") /\ ClaimRow(t)
  BY <1>2, <1>3, <1>6, <1>9 DEF ClaimRow, BeginImplementation
<1>10. (Is(t, "noted") \/ Is(t, "completed")) => o \in Operations
  BY <1>2 DEF Is, Shaped
<1>11. QED
  BY <1>3, <1>4, <1>5, <1>7, <1>8, <1>9, <1>10
     DEF CommittedCall, PreparePublication, CompleteImplementation

LEMMA RecoverKeepsBase ==
  ASSUME TaskInv, NEW active, RecoverInterrupted(active)
  PROVE  KindsHaveBase'
<1> SUFFICES ASSUME NEW o \in Operations, Submitted(o)', operation'[o].kind # "create"
             PROVE  operation'[o].base \in Link
  BY DEF KindsHaveBase
<1>1. CASE ~InProgress(o)
  BY <1>1 DEF RecoverInterrupted, KindsHaveBase, TaskInv, Submitted
<1>2. CASE InProgress(o)
  <2>1. operation'[o] = [operation[o] EXCEPT !.status = RecoveredStatus(o, active)]
    BY <1>2 DEF RecoverInterrupted
  <2>2. operation[o] \in Operation /\ Submitted(o)
    BY <1>2, OperationType DEF InProgress
  <2>3. operation'[o].kind = operation[o].kind /\ operation'[o].base = operation[o].base
    BY <2>1, <2>2 DEF Operation
  <2>4. QED
    BY <2>2, <2>3 DEF KindsHaveBase, TaskInv
<1>3. QED
  BY <1>1, <1>2

-----------------------------------------------------------------------------
(* Operations refer to requirements.                                       *)

LEMMA ExistsByEvent ==
  ASSUME StoreInv, NEW q \in Requirements
  PROVE  Exists(q) <=> event[q].to # "none"
BY DEF StoreInv, RequirementInv, NewestEventIsStatus, StatusOf, Exists, Requirement,
       RequirementStatuses

\* What is logged of a requirement is a status.
LEMMA LogIsStatus ==
  ASSUME StoreInv, NEW q \in Requirements, NEW p \in Requirements, NEW to, to # "none",
         Log(p, to), event[q].to # "none"
  PROVE  event'[q].to # "none"
BY DEF Log, StoreInv, RequirementInv

LEMMA RequirementsStay ==
  ASSUME StoreInv, [Next]_store, NEW q \in Requirements, Exists(q)
  PROVE  Exists(q)'
<1>1. event[q].to # "none" /\ StoreInv'
  BY ExistsByEvent, StoreStepInv
<1>2. event'[q].to # "none"
  <2>1. ASSUME NEW p \in Requirements, ClientRequirement(p)
        PROVE  event'[q].to # "none"
    BY <1>1, <2>1, LogIsStatus
       DEF ClientRequirement, Create, UpdateContent, Edited, BeginImplementation, Claim,
           FailImplementation, PreparePublication, CompleteImplementation, RebaseRoute
  <2>2. ASSUME NEW o \in Operations, ClientOperation(o)
        PROVE  event'[q].to # "none"
    <3>1. CASE BeginOperation(o)
      <4>1. operation[o].requirement \in Requirements
        BY <3>1 DEF BeginOperation, HasStatus, Submitted, StoreInv, OperationInv, Operation
      <4>2. QED
        BY <1>1, <3>1, <4>1, LogIsStatus DEF BeginOperation, Claim
    <3>2. ASSUME NEW p \in Requirements, NEW kind \in Kinds, NEW base,
                 ReviseAndCreateOperation(o, p, kind, base)
          PROVE  event'[q].to # "none"
      BY <1>1, <3>2, LogIsStatus DEF ReviseAndCreateOperation, Edited
    <3>3. CASE UNCHANGED event
      BY <1>1, <3>3
    <3>4. QED
      BY <2>2, <3>1, <3>2, <3>3
         DEF ClientOperation, CreateOperation, FailOperation, PrepareOperationPublication,
             CompleteOperation
  <2>3. ASSUME NEW p \in Requirements, NEW active, ReconcilePublication(p, active)
        PROVE  event'[q].to # "none"
    BY <1>1, <2>3, LogIsStatus DEF ReconcilePublication
  <2>4. ASSUME NEW active, RecoverInterrupted(active)
        PROVE  event'[q].to # "none"
    BY <1>1, <2>4 DEF RecoverInterrupted
  <2>5. QED
    BY <1>1, <2>1, <2>2, <2>3, <2>4 DEF Next, MoveRouteLinks, store
<1>3. event'[q].to # "none" => Exists(q)'
  <2>1. requirement'[q] = NoRequirement => StatusOf(q)' = "none"
    BY DEF StatusOf, Exists
  <2>2. event'[q].to = StatusOf(q)'
    BY <1>1 DEF StoreInv, RequirementInv, NewestEventIsStatus
  <2>3. QED
    BY <2>1, <2>2 DEF Exists
<1>4. QED
  BY <1>2, <1>3

LEMMA ReferKeeps ==
  ASSUME StoreInv, OperationsRefer, [Next]_store
  PROVE  OperationsRefer'
<1> SUFFICES ASSUME NEW o \in Operations, Submitted(o)'
             PROVE  Exists(operation[o].requirement)'
  BY DEF OperationsRefer
<1>1. operation \in [Operations -> Operation \cup {NoOperation}]
  BY DEF StoreInv, OperationInv
<1>2. \/ Submitted(o) /\ operation'[o].requirement = operation[o].requirement
      \/ \E q \in Requirements : Exists(q) /\ operation'[o].requirement = q
  <2>1. CASE UNCHANGED operation
    BY <2>1 DEF Submitted
  <2>2. ASSUME NEW p \in Operations, NEW row,
               SetOperation(p, row), Submitted(p), row.requirement = operation[p].requirement
        PROVE  Submitted(o) /\ operation'[o].requirement = operation[o].requirement
    BY <1>1, <2>2 DEF SetOperation, Submitted
  <2>3. ASSUME NEW p \in Operations, NEW q \in Requirements, NEW kind, NEW path, NEW base,
               Insert(p, q, kind, path, base)
        PROVE  \/ Submitted(o) /\ operation'[o].requirement = operation[o].requirement
               \/ Exists(q) /\ operation'[o].requirement = q
    BY <1>1, <2>3 DEF Insert, Submitted
  <2>4. ASSUME NEW p \in Operations, ClientOperation(p)
        PROVE  \/ Submitted(o) /\ operation'[o].requirement = operation[o].requirement
               \/ \E q \in Requirements : Exists(q) /\ operation'[o].requirement = q
    <3>1. Submitted(p) => operation[p] \in Operation
      BY <1>1 DEF Submitted
    <3>2. CASE BeginOperation(p)
      BY <2>2, <3>1, <3>2 DEF BeginOperation, HasStatus, Operation
    <3>3. CASE FailOperation(p)
      BY <2>2, <3>1, <3>3 DEF FailOperation, Failable, InProgress, Operation
    <3>4. ASSUME NEW target \in Target, PrepareOperationPublication(p, target)
          PROVE  Submitted(o) /\ operation'[o].requirement = operation[o].requirement
      BY <2>2, <3>1, <3>4 DEF PrepareOperationPublication, HasStatus, Operation
    <3>5. ASSUME NEW link \in Link, CompleteOperation(p, link), ~UNCHANGED operation
          PROVE  Submitted(o) /\ operation'[o].requirement = operation[o].requirement
      BY <2>2, <3>1, <3>5 DEF CompleteOperation, HasStatus, Operation
    <3>6. ASSUME NEW q \in Requirements, NEW kind \in Kinds, NEW path \in Routes,
                 NEW base \in Link \cup {NoLink},
                 CreateOperation(p, q, kind, path, base)
                   \/ ReviseAndCreateOperation(p, q, kind, base)
          PROVE  \/ Submitted(o) /\ operation'[o].requirement = operation[o].requirement
                 \/ Exists(q) /\ operation'[o].requirement = q
      BY <2>3, <3>6 DEF CreateOperation, ReviseAndCreateOperation
    <3>7. QED
      BY <2>1, <2>4, <3>2, <3>3, <3>4, <3>5, <3>6 DEF ClientOperation
  <2>5. ASSUME NEW active, RecoverInterrupted(active)
        PROVE  Submitted(o) /\ operation'[o].requirement = operation[o].requirement
    <3>1. CASE ~InProgress(o)
      BY <2>5, <3>1 DEF RecoverInterrupted, Submitted
    <3>2. CASE InProgress(o)
      <4>1. operation'[o] = [operation[o] EXCEPT !.status = RecoveredStatus(o, active)]
        BY <2>5, <3>2 DEF RecoverInterrupted
      <4>2. operation[o] \in Operation /\ Submitted(o)
        BY <1>1, <3>2 DEF InProgress, Submitted
      <4>3. QED
        BY <4>1, <4>2 DEF Operation
    <3>3. QED
      BY <3>1, <3>2
  <2>6. ASSUME NEW q \in Requirements, ClientRequirement(q)
        PROVE  UNCHANGED operation
    BY <2>6 DEF ClientRequirement, Create, UpdateContent, BeginImplementation,
       FailImplementation, PreparePublication, CompleteImplementation, RebaseRoute
  <2>7. QED
    BY <2>1, <2>4, <2>5, <2>6 DEF Next, MoveRouteLinks, ReconcilePublication, store
<1>3. Submitted(o)
        => operation[o].requirement \in Requirements /\ Exists(operation[o].requirement)
  BY <1>1 DEF OperationsRefer, Submitted, Operation
<1>4. \E q \in Requirements : Exists(q) /\ operation'[o].requirement = q
  BY <1>2, <1>3
<1>5. PICK q \in Requirements : Exists(q) /\ operation'[o].requirement = q
  BY <1>4
<1>6. Exists(q)'
  BY <1>5, RequirementsStay
<1>7. QED
  BY <1>5, <1>6 DEF Exists

-----------------------------------------------------------------------------
(* Shapes.                                                                 *)

LEMMA GotoShape ==
  ASSUME TaskInv, NEW t \in Tasks, Live(t), NEW pc \in Phases, Goto(t, pc),
         pc \notin {"revising", "created"},
         pc \in {"noted", "completed", "failing", "dropped"} => task[t].operation \in Operations,
         pc \in {"generated", "noted", "ready", "moved", "published", "completed"}
           => task[t].target \in Target,
         pc = "scheduled" => ~task[t].moving,
         pc = "moved" => task[t].moving
  PROVE  /\ TasksAreShaped'
         /\ task' \in [Tasks -> Task \cup {NoTask}]
<1>1. Shaped(task[t])
  BY TaskType
<1>2. Shaped(task'[t])
  BY <1>1, GotoType DEF Shaped
<1>3. QED
  BY <1>2, GotoType DEF TasksAreShaped, TaskInv, Live

LEMMA EndShape ==
  ASSUME TaskInv, NEW t \in Tasks, End(t)
  PROVE  /\ TasksAreShaped'
         /\ task' \in [Tasks -> Task \cup {NoTask}]
BY EndType DEF TasksAreShaped, TaskInv, Live

LEMMA StartShape ==
  ASSUME TaskInv, NEW t \in Tasks, NEW pc \in {"revising", "created", "scheduled"},
         NEW q \in Requirements, NEW o \in Operations \cup {NoOperation}, NEW kind \in Kinds,
         NEW path \in Routes, NEW base \in Link \cup {NoLink},
         Start(t, pc, q, o, kind, path, base),
         pc \in {"revising", "created"} => o \in Operations /\ (kind # "create" => base \in Link)
  PROVE  /\ TasksAreShaped'
         /\ task' \in [Tasks -> Task \cup {NoTask}]
         /\ UNCHANGED <<service, table, late, history>>
<1>1. Shaped(task'[t])
  BY StartType DEF Shaped
<1>2. QED
  BY <1>1, StartType DEF TasksAreShaped, TaskInv, Live

\* All of TaskInv but the store.
Rest == TasksAreShaped /\ LateAreShaped /\ KindsHaveBase /\ (StoreTypeOK => TypeOK)

\* Only a task changes, with the row of its operation.
LEMMA TaskOnly ==
  ASSUME TaskInv, TasksAreShaped', task' \in [Tasks -> Task \cup {NoTask}], KindsHaveBase',
         UNCHANGED <<service, table, late, committed, published>>,
         UNCHANGED owner \/ \E q \in Requirements, t \in Tasks : owner' = [owner EXCEPT ![q] = t]
  PROVE  Rest'
<1>1. owner' \in [Requirements -> Tasks \cup {NoTask}]
  BY DEF TaskInv, TypeOK
<1>2. LateAreShaped'
  BY DEF LateAreShaped, TaskInv
<1>3. StoreTypeOK' => TypeOK'
  BY <1>1 DEF TaskInv, TypeOK
<1>4. QED
  BY <1>2, <1>3 DEF Rest

LEMMA SameStoreKeepsBase ==
  ASSUME TaskInv, UNCHANGED operation
  PROVE  KindsHaveBase'
BY DEF KindsHaveBase, TaskInv, Submitted

LEMMA CommitRouteType ==
  ASSUME TaskInv, NEW w \in Task, w.target \in Target, CommitRoute(w)
  PROVE  /\ table' \in [Routes -> Publication \cup {NoPublication}]
         /\ published' \subseteq Target /\ committed' \subseteq Operations
         /\ UNCHANGED <<store, service, owner>>
<1> DEFINE row == [version |-> w.target.version, digest |-> w.target.digest]
<1>1. row \in Publication
  BY DEF Publication, Target
<1>2. /\ table' = [r \in Routes |-> IF r = w.target.route THEN row
                    ELSE IF w.moving /\ r = w.base.route THEN NoPublication ELSE table[r]]
      /\ published' = published \cup {w.target}
      /\ committed' = committed \cup ({w.operation} \ {NoOperation})
      /\ UNCHANGED <<store, service, owner>>
  BY DEF CommitRoute
<1> HIDE DEF row
<1>3. table' \in [Routes -> Publication \cup {NoPublication}]
  BY <1>1, <1>2 DEF TaskInv, TypeOK
<1>4. w.operation \in Operations \cup {NoOperation}
  BY DEF Task
<1>5. QED
  BY <1>2, <1>3, <1>4 DEF TaskInv, TypeOK

-----------------------------------------------------------------------------
(* Requests.                                                               *)

LEMMA RetryRouteType ==
  ASSUME TaskInv, NEW o \in Operations, Submitted(o), operation[o].kind # "create"
  PROVE  RetryRoute(operation[o]) \in Routes
<1> DEFINE q == operation[o].requirement
<1>1. q \in Requirements /\ operation[o].base \in Link
  BY OperationType DEF TaskInv, KindsHaveBase
<1>2. requirement[q].link \in Link \cup {NoLink}
  BY <1>1, RowType DEF TaskInv, StoreInv, OperationsRefer, Proper, Requirement
<1>3. QED
  BY <1>1, <1>2 DEF RetryRoute, Link

\* A request starts a task with what it read, under a new operation if any.
Starts(t) ==
  \E pc \in {"revising", "created", "scheduled"}, r \in Requirements,
     p \in Operations \cup {NoOperation}, kind \in Kinds, at \in Routes,
     base \in Link \cup {NoLink} :
    /\ Start(t, pc, r, p, kind, at, base)
    /\ pc \in {"revising", "created"} => p \in Operations /\ (kind # "create" => base \in Link)
    /\ p \in Operations => FreshOperation(p)
    /\ pc = "scheduled" => p = NoOperation

LEMMA RequestIs ==
  ASSUME TaskInv, NEW t \in Tasks, Request(t)
  PROVE  /\ UNCHANGED operation
         /\ Starts(t) \/ UNCHANGED <<service, table, task, late, history>>
<1>1. PICK q \in Requirements, o \in Operations, path \in Routes :
    \/ RequestCreate(t, q, o, path)
    \/ \E route \in Routes : RequestMove(t, q, o, route, path)
    \/ RequestRevise(t, q, o)
    \/ \E failed \in Operations : RequestRetry(t, failed, o)
    \/ RequestImplement(t, q)
  BY DEF Request
<1>2. UNCHANGED operation
  BY <1>1 DEF RequestCreate, RequestMove, RequestRevise, RequestRetry, RequestImplement,
              Create, ReconcilePublication, store
<1>3. ASSUME NEW pc \in {"revising", "created", "scheduled"}, NEW r \in Requirements,
             NEW p \in Operations \cup {NoOperation}, NEW kind \in Kinds, NEW at \in Routes,
             NEW base \in Link \cup {NoLink}, Start(t, pc, r, p, kind, at, base),
             pc \in {"revising", "created"}
               => p \in Operations /\ (kind # "create" => base \in Link),
             p \in Operations => FreshOperation(p), pc = "scheduled" => p = NoOperation
      PROVE  Starts(t)
  BY <1>3 DEF Starts
<1>4. /\ "create" \in Kinds /\ "move" \in Kinds /\ "update" \in Kinds
      /\ NoLink \in Link \cup {NoLink}
  BY TaskAssumption
<1>5. CASE RequestCreate(t, q, o, path)
  <2>0. FreshOperation(o)
    BY <1>5 DEF RequestCreate
  <2>1. QED
    BY <1>2, <1>3, <1>4, <1>5, <2>0 DEF RequestCreate
<1>6. ASSUME NEW route \in Routes, RequestMove(t, q, o, route, path)
      PROVE  Starts(t)
  <2>0. FreshOperation(o)
    BY <1>6 DEF RequestMove
  <2>1. Linked(route) \in Link
    BY <1>6, LinkedType DEF RequestMove
  <2>2. QED
    BY <1>2, <1>3, <2>0, <1>4, <1>6, <2>1 DEF RequestMove
<1>7. CASE RequestRevise(t, q, o)
  <2>0. FreshOperation(o)
    BY <1>7 DEF RequestRevise
  <2>1. requirement[q].path \in Routes
    BY <1>7, RowType DEF RequestRevise, TaskInv, StoreInv, Proper, Requirement
  <2>2. CASE Start(t, "revising", q, o, "create", requirement[q].path, NoLink)
    BY <1>2, <1>3, <2>0, <1>4, <2>1, <2>2
  <2>3. CASE /\ table[requirement[q].path] # NoPublication
             /\ Start(t, "revising", q, o, "update", requirement[q].path,
                      Linked(requirement[q].path))
    <3>1. Linked(requirement[q].path) \in Link
      BY <2>1, <2>3, LinkedType
    <3>2. QED
      BY <1>2, <1>3, <2>0, <1>4, <2>1, <2>3, <3>1
  <2>4. QED
    BY <1>7, <2>2, <2>3 DEF RequestRevise
<1>8. ASSUME NEW failed \in Operations, RequestRetry(t, failed, o)
      PROVE  Starts(t)
  <2> DEFINE previous == operation[failed]
             route == RetryRoute(previous)
  <2>0. FreshOperation(o)
    BY <1>8 DEF RequestRetry
  <2>1. Submitted(failed)
    BY <1>8 DEF RequestRetry, HasStatus
  <2>2. /\ previous.requirement \in Requirements
        /\ previous.path \in Routes /\ previous.kind \in Kinds
    BY <2>1, OperationType
  <2>3. CASE Start(t, "created", previous.requirement, o, "create", previous.path, NoLink)
    BY <1>2, <1>3, <2>0, <1>4, <2>2, <2>3
  <2>4. CASE /\ previous.kind # "create" /\ table[route] # NoPublication
             /\ Start(t, "created", previous.requirement, o, previous.kind,
                      IF previous.kind = "update" THEN route ELSE previous.path, Linked(route))
    <3>1. route \in Routes
      BY <2>1, <2>4, RetryRouteType
    <3>2. Linked(route) \in Link
      BY <2>4, <3>1, LinkedType
    <3>3. (IF previous.kind = "update" THEN route ELSE previous.path) \in Routes
      BY <2>2, <3>1
    <3> HIDE DEF previous, route
    <3>4. QED
      BY <1>2, <1>3, <2>0, <2>2, <2>4, <3>2, <3>3
  <2>5. QED
    BY <1>8, <2>3, <2>4 DEF RequestRetry
<1>9. CASE RequestImplement(t, q)
  <2>1. CASE UNCHANGED <<service, table, task, late, history>>
    BY <1>2, <2>1
  <2>2. CASE /\ Exists(q)
             /\ Start(t, "scheduled", q, NoOperation, "update", requirement[q].path, NoLink)
    <3>1. requirement[q].path \in Routes
      BY <2>2, RowType DEF TaskInv, StoreInv, Proper, Requirement
    <3>2. NoOperation \in Operations \cup {NoOperation} /\ NoOperation \notin Operations
      BY TaskAssumption
    <3>3. QED
      BY <1>2, <1>3, <1>4, <2>2, <3>1, <3>2
  <2>3. QED
    BY <1>9, <2>1, <2>2 DEF RequestImplement
<1>10. QED
  BY <1>1, <1>2, <1>5, <1>6, <1>7, <1>8, <1>9

LEMMA RequestRest ==
  ASSUME TaskInv, NEW t \in Tasks, Request(t)
  PROVE  Rest'
<1>1. KindsHaveBase'
  BY RequestIs, SameStoreKeepsBase
<1>2. CASE Starts(t)
  <2>1. /\ TasksAreShaped' /\ task' \in [Tasks -> Task \cup {NoTask}]
        /\ UNCHANGED <<service, table, late, history>>
    BY <1>2, StartShape DEF Starts
  <2>2. UNCHANGED <<service, table, late, committed, published, owner>>
    BY <2>1 DEF history
  <2>3. QED
    BY <1>1, <2>1, <2>2, TaskOnly
<1>3. CASE UNCHANGED <<service, table, task, late, history>>
  <2>1. TasksAreShaped' /\ task' \in [Tasks -> Task \cup {NoTask}]
    BY <1>3 DEF TaskInv, TypeOK, TasksAreShaped, Live
  <2>2. UNCHANGED <<service, table, late, committed, published, owner>>
    BY <1>3 DEF history
  <2>3. QED
    BY <1>1, <2>1, <2>2, TaskOnly
<1>4. QED
  BY <1>2, <1>3, RequestIs

-----------------------------------------------------------------------------
(* Work.                                                                   *)

LEMMA AtIs ==
  ASSUME NEW t \in Tasks, NEW pc, At(t, pc) \/ Is(t, pc)
  PROVE  Live(t) /\ task[t].pc = pc
BY DEF At, Is, Live

LEMMA AfterExceptionShape ==
  ASSUME TaskInv, NEW t \in Tasks, Live(t), AfterException(t)
  PROVE  TasksAreShaped' /\ task' \in [Tasks -> Task \cup {NoTask}]
<1>1. "erring" \in Phases
  BY DEF Phases
<1>2. QED
  BY <1>1, GotoShape, EndShape DEF AfterException

\* What is claimed is done with what the row says.
LEMMA ClaimWorkIs ==
  ASSUME TaskInv, NEW t \in Tasks, ClaimWork(t)
  PROVE  /\ task' \in [Tasks -> Task \cup {NoTask}]
         /\ Live(t) /\ task[t].pc = "scheduled"
         /\ \A u \in Tasks \ {t} : task'[u] = task[u]
         /\ Live(t)' /\ task'[t] \in Task /\ task'[t].pc = "claimed"
         /\ task'[t].operation = task[t].operation /\ task'[t].requirement = task[t].requirement
         /\ task'[t].moving = task[t].moving
         /\ task[t].operation # NoOperation => task'[t].base = task[t].base
         /\ task[t].operation = NoOperation => Exists(task[t].requirement)
<1> DEFINE row == requirement[task[t].requirement]
           work == [task[t] EXCEPT !.pc = "claimed"]
           claimed == IF work.operation # NoOperation THEN work
                      ELSE [work EXCEPT !.path = row.path, !.base = row.link]
<1>1. Live(t) /\ task[t].pc = "scheduled" /\ task[t] \in Task
      /\ task[t].requirement \in Requirements
  BY AtIs, TaskType DEF ClaimWork
<1>2. work \in Task /\ work.operation = task[t].operation /\ work.pc = "claimed"
      /\ work.requirement = task[t].requirement /\ work.moving = task[t].moving
      /\ work.base = task[t].base
  BY <1>1 DEF Task, Phases
<1>3. task[t].operation = NoOperation => Exists(task[t].requirement)
  BY DEF ClaimWork, ClaimRow, BeginImplementation, Claim, Claimable
<1>4. Exists(task[t].requirement) => row.path \in Routes /\ row.link \in Link \cup {NoLink}
  BY <1>1, RowType DEF TaskInv, StoreInv, Proper, Requirement
<1>5. task' = [task EXCEPT ![t] = claimed]
  BY DEF ClaimWork
<1> HIDE DEF work, row
<1>6. claimed \in Task /\ claimed.pc = "claimed" /\ claimed.operation = task[t].operation
      /\ claimed.requirement = task[t].requirement /\ claimed.moving = task[t].moving
      /\ (task[t].operation # NoOperation => claimed.base = task[t].base)
  BY <1>2, <1>3, <1>4 DEF Task
<1> HIDE DEF claimed
<1>7. task'[t] = claimed /\ \A u \in Tasks \ {t} : task'[u] = task[u]
  BY <1>5 DEF TaskInv, TypeOK
<1>8. task' \in [Tasks -> Task \cup {NoTask}]
  BY <1>5, <1>6 DEF TaskInv, TypeOK
<1>9. QED
  BY <1>1, <1>3, <1>6, <1>7, <1>8, NoTaskAssumption DEF Live

\* A claimed task has not moved yet.
LEMMA CandidateType ==
  ASSUME TaskInv, NEW t \in Tasks, Live(t), NEW digest \in Digests, Generatable(t)
  PROVE  Candidate(t, digest) \in Target
<1>1. task[t].path \in Routes /\ task[t].base \in Link \cup {NoLink}
  BY TaskType
<1>2. CASE task[t].base = NoLink
  <2>1. 1 \in 1..MaxVersion
    BY StoreAssumption
  <2>2. QED
    BY <1>1, <1>2, <2>1 DEF Candidate, AsTarget, Target
<1>3. CASE task[t].base # NoLink
  <2>1. task[t].base.route \in Routes /\ task[t].base.version + 1 \in 1..MaxVersion
    BY <1>1, <1>3, StoreAssumption DEF Generatable, Link
  <2>2. QED
    BY <1>1, <1>3, <2>1 DEF Candidate, AsTarget, Target
<1>4. QED
  BY <1>2, <1>3

LEMMA GenerateIs ==
  ASSUME TaskInv, NEW t \in Tasks, NEW digest \in Digests, Generate(t, digest)
  PROVE  /\ task' \in [Tasks -> Task \cup {NoTask}]
         /\ Live(t) /\ task[t].pc = "claimed"
         /\ \A u \in Tasks \ {t} : task'[u] = task[u]
         /\ Live(t)' /\ task'[t] \in Task /\ task'[t].pc = "generated"
         /\ task'[t].operation = task[t].operation
         /\ task'[t].target \in Target
         /\ task'[t].moving => task'[t].base \in Link
<1> DEFINE candidate == Candidate(t, digest)
           moving == task[t].base # NoLink /\ IsRouteMove(t)
           work == [task[t] EXCEPT !.pc = "generated", !.target = candidate, !.moving = moving]
<1>1. Live(t) /\ task[t].pc = "claimed" /\ task[t] \in Task
      /\ task[t].base \in Link \cup {NoLink}
  BY AtIs, TaskType DEF Generate
<1>2. candidate \in Target
  BY <1>1, CandidateType DEF Generate
<1>3. moving \in BOOLEAN /\ (moving => task[t].base \in Link)
  BY <1>1
<1>4. task' = [task EXCEPT ![t] = work]
  BY DEF Generate
<1> HIDE DEF candidate, moving
<1>5. work \in Task /\ work.pc = "generated" /\ work.operation = task[t].operation
      /\ work.target \in Target /\ (work.moving => work.base \in Link)
  BY <1>1, <1>2, <1>3 DEF Task, Phases
<1> HIDE DEF work
<1>6. task'[t] = work /\ \A u \in Tasks \ {t} : task'[u] = task[u]
  BY <1>4 DEF TaskInv, TypeOK
<1>7. task' \in [Tasks -> Task \cup {NoTask}]
  BY <1>4, <1>5 DEF TaskInv, TypeOK
<1>8. QED
  BY <1>1, <1>5, <1>6, <1>7, NoTaskAssumption DEF Live

LEMMA WorkRest ==
  ASSUME TaskInv, NEW t \in Tasks, Work(t)
  PROVE  Rest'
<1> DEFINE Typed == TasksAreShaped' /\ task' \in [Tasks -> Task \cup {NoTask}]
           Quiet == UNCHANGED <<service, table, late, committed, published, owner>>
<1>1. Live(t) => Shaped(task[t]) /\ task[t].operation \in Operations \cup {NoOperation}
  BY TaskType
<1>2. CommittedCall(t) => KindsHaveBase'
  BY CallKeepsBase
<1>3. CASE Accept(t) \/ Revise(t)
  <2>1. Live(t) /\ task[t].pc \in {"created", "revising"} /\ Goto(t, "scheduled")
    BY <1>3, AtIs DEF Accept, Revise
  <2>2. Typed
    BY <1>1, <2>1, GotoShape DEF Shaped, Phases
  <2>3. KindsHaveBase' /\ Quiet
    BY <1>2, <1>3, StepsCall DEF Accept, Revise, history
  <2>4. QED
    BY <2>2, <2>3, TaskOnly
<1>4. CASE ClaimWork(t)
  <2>1. Shaped(task'[t])
    BY <1>1, <1>4, ClaimWorkIs DEF Shaped
  <2>2. Typed
    BY <1>4, <2>1, ClaimWorkIs DEF TasksAreShaped, TaskInv, Live
  <2>3. task[t].requirement \in Requirements
    BY <1>4, ClaimWorkIs, TaskType
  <2>4. KindsHaveBase'
    BY <1>2, <1>4, StepsCall
  <2>5. /\ UNCHANGED <<service, table, late, committed, published>>
        /\ owner' = [owner EXCEPT ![task[t].requirement] = t]
    BY <1>4 DEF ClaimWork
  <2>6. QED
    BY <2>2, <2>3, <2>4, <2>5, TaskOnly
<1>5. ASSUME NEW digest \in Digests, Generate(t, digest)
      PROVE  Rest'
  <2>1. Shaped(task'[t])
    BY <1>5, GenerateIs DEF Shaped
  <2>2. Typed
    BY <1>5, <2>1, GenerateIs DEF TasksAreShaped, TaskInv, Live
  <2>3. KindsHaveBase' /\ Quiet
    BY <1>5, SameStoreKeepsBase DEF Generate, history, store
  <2>4. QED
    BY <2>2, <2>3, TaskOnly
<1>6. CASE Note(t) \/ NoteOperation(t)
  <2>1. Live(t) /\ task[t].pc \in {"generated", "noted"}
    BY <1>6, AtIs DEF Note, NoteOperation
  <2>2. Goto(t, "ready") \/ (Goto(t, "noted") /\ task[t].operation # NoOperation)
    BY <1>6 DEF Note, NoteOperation, AfterNote
  <2>3. Typed
    BY <1>1, <2>1, <2>2, GotoShape DEF Shaped, Phases
  <2>4. KindsHaveBase' /\ Quiet
    BY <1>2, <1>6, StepsCall DEF Note, NoteOperation, history
  <2>5. QED
    BY <2>3, <2>4, TaskOnly
<1>7. CASE Publish(t) \/ ActivatedButRaised(t)
  <2>1. Live(t) /\ task[t].pc = "ready" /\ CommitRoute(task[t]) /\ late' = late
    BY <1>7, AtIs DEF Publish, ActivatedButRaised
  <2>2. task[t] \in Task /\ task[t].target \in Target
    BY <1>1, <2>1, TaskType DEF Shaped
  <2>3. \/ Goto(t, "moved") /\ task[t].moving
        \/ Goto(t, "published") \/ Goto(t, "erring")
    BY <1>7 DEF Publish, ActivatedButRaised
  <2>4. Typed
    BY <2>1, <2>2, <2>3, GotoShape DEF Phases
  <2>5. /\ table' \in [Routes -> Publication \cup {NoPublication}]
        /\ published' \subseteq Target /\ committed' \subseteq Operations
        /\ UNCHANGED <<store, service, owner>>
    BY <2>1, <2>2, CommitRouteType
  <2>6. KindsHaveBase'
    BY <2>5, SameStoreKeepsBase DEF store
  <2>7. LateAreShaped'
    BY <2>1 DEF LateAreShaped, TaskInv
  <2>8. TypeOK'
    BY <2>1, <2>4, <2>5 DEF TypeOK, TaskInv, StoreTypeOK, store
  <2>9. QED
    BY <2>4, <2>6, <2>7, <2>8 DEF Rest
<1>8. CASE MoveLinks(t)
  <2>1. Live(t) /\ task[t].pc = "moved" /\ Goto(t, "published")
    BY <1>8, AtIs DEF MoveLinks
  <2>2. Typed
    BY <1>1, <2>1, GotoShape DEF Shaped, Phases
  <2>3. KindsHaveBase' /\ Quiet
    BY <1>8, SameStoreKeepsBase DEF MoveLinks, MoveRouteLinks, history
  <2>4. QED
    BY <2>2, <2>3, TaskOnly
<1>9. CASE Finalize(t) \/ Finish(t)
  <2>1. Live(t) /\ task[t].pc \in {"published", "completed"}
    BY <1>9, AtIs DEF Finalize, Finish
  <2>2. End(t) \/ (Goto(t, "completed") /\ task[t].operation # NoOperation)
    BY <1>9 DEF Finalize, Finish
  <2>3. Typed
    BY <1>1, <2>1, <2>2, GotoShape, EndShape DEF Shaped, Phases
  <2>4. KindsHaveBase' /\ Quiet
    BY <1>2, <1>9, StepsCall DEF Finalize, Finish, history
  <2>5. QED
    BY <2>3, <2>4, TaskOnly
<1>10. CASE Raise(t)
  <2>1. Live(t)
    BY <1>10 DEF Raise, Refused, Faulty, At, Is, Live
  <2>2. Typed
    BY <1>10, <2>1, AfterExceptionShape DEF Raise
  <2>3. KindsHaveBase' /\ Quiet
    BY <1>10, SameStoreKeepsBase DEF Raise, history, store
  <2>4. QED
    BY <2>2, <2>3, TaskOnly
<1>11. CASE AnswerLost(t)
  <2>1. /\ CommittedCall(t) /\ AfterException(t)
        /\ UNCHANGED <<service, table, late, committed, published>>
        /\ \/ UNCHANGED owner
           \/ owner' = [owner EXCEPT ![task[t].requirement] = t]
    BY <1>11 DEF AnswerLost
  <2>2. Live(t)
    BY <2>1, CallIsClient
  <2>3. Typed
    BY <2>1, <2>2, AfterExceptionShape
  <2>4. KindsHaveBase' /\ task[t].requirement \in Requirements
    BY <1>2, <2>1, <2>2, TaskType
  <2>5. QED
    BY <2>1, <2>3, <2>4, TaskOnly
<1>12. CASE FailRequirement(t)
  <2>1. Live(t)
    BY <1>12, AtIs DEF FailRequirement, Failing
  <2>2. \/ End(t)
        \/ \E pc \in {"failing", "dropped"} : Goto(t, pc) /\ task[t].operation # NoOperation
    BY <1>12 DEF FailRequirement, AfterFailure
  <2>3. Typed
    BY <1>1, <2>1, <2>2, GotoShape, EndShape DEF Phases
  <2>4. KindsHaveBase' /\ Quiet
    BY <1>12, SameStoreKeepsBase DEF FailRequirement, FailImplementation, history, store
  <2>5. QED
    BY <2>3, <2>4, TaskOnly
<1>13. CASE FailTask(t)
  <2>1. Live(t) /\ task[t].operation \in Operations /\ End(t)
    <3>1. Live(t) /\ task[t].pc \in {"failing", "dropped"}
      BY <1>13, AtIs DEF FailTask
    <3>2. QED
      BY <1>1, <1>13, <3>1 DEF FailTask, Shaped
  <2>2. Typed
    BY <2>1, EndShape
  <2>3. KindsHaveBase' /\ Quiet
    BY <1>13, <2>1, SameStoreKeepsBase, FailKeepsBase DEF FailTask, history, store
  <2>4. QED
    BY <2>2, <2>3, TaskOnly
<1>14. QED
  BY <1>3, <1>4, <1>5, <1>6, <1>7, <1>8, <1>9, <1>10, <1>11, <1>12, <1>13 DEF Work

-----------------------------------------------------------------------------
(* Shutdown, crash, and everything else.                                   *)

LEMMA CancelRest ==
  ASSUME TaskInv, NEW t \in Tasks, Cancel(t)
  PROVE  Rest'
<1>1. Live(t) /\ task[t] \in Task /\ Shaped(task[t])
  BY TaskType DEF Cancel, Live
<1>2. Goto(t, "cancelled") \/ End(t)
  BY DEF Cancel
<1>3. TasksAreShaped' /\ task' \in [Tasks -> Task \cup {NoTask}]
  BY <1>1, <1>2, GotoShape, EndShape DEF Phases
<1>4. KindsHaveBase'
  BY CallKeepsBase, SameStoreKeepsBase DEF Cancel, store
<1>5. UNCHANGED <<service, table, committed, published, owner>>
  BY DEF Cancel, history
<1>6. late' = late \/ (late' = late \cup {task[t]} /\ task[t].pc \in {"ready", "moved"})
  BY DEF Cancel, OutlivesTask, Is
<1>7. LateAreShaped' /\ late' \subseteq Task
  BY <1>1, <1>6 DEF LateAreShaped, TaskInv, TypeOK
<1>8. StoreTypeOK' => TypeOK'
  BY <1>3, <1>5, <1>7 DEF TaskInv, TypeOK
<1>9. QED
  BY <1>3, <1>4, <1>7, <1>8 DEF Rest

LEMMA LateRest ==
  ASSUME TaskInv, Late
  PROVE  Rest'
<1>1. PICK w \in late : /\ late' = late \ {w} /\ UNCHANGED task
                        /\ \/ LateCommit(w) \/ LateMoveLinks(w)
                           \/ UNCHANGED <<store, service, table, task, history>>
  BY DEF Late, LateCommit, LateMoveLinks
<1>2. w \in Task /\ w.target \in Target
  BY DEF TaskInv, TypeOK, LateAreShaped, Shaped
<1>3. /\ table' \in [Routes -> Publication \cup {NoPublication}]
      /\ published' \subseteq Target /\ committed' \subseteq Operations
      /\ UNCHANGED <<service, owner>>
  <2>1. CASE LateCommit(w)
    BY <1>2, <2>1, CommitRouteType DEF LateCommit
  <2>2. CASE ~LateCommit(w)
    BY <1>1, <2>2 DEF LateMoveLinks, history, TaskInv, TypeOK
  <2>3. QED
    BY <2>1, <2>2
<1>4. KindsHaveBase'
  BY <1>1, SameStoreKeepsBase DEF LateCommit, CommitRoute, LateMoveLinks, MoveRouteLinks, store
<1>5. TasksAreShaped' /\ LateAreShaped'
  BY <1>1 DEF TaskInv, TasksAreShaped, LateAreShaped, Live
<1>6. StoreTypeOK' => TypeOK'
  BY <1>1, <1>3 DEF TaskInv, TypeOK
<1>7. QED
  BY <1>4, <1>5, <1>6 DEF Rest

LEMMA PutRouteRest ==
  ASSUME TaskInv, NEW route \in Routes, NEW digest \in Digests, PutRoute(route, digest)
  PROVE  Rest'
<1> DEFINE target == AsTarget(route, table[route].version + 1, digest)
           row == [version |-> table[route].version + 1, digest |-> digest]
<1>1. table[route].version + 1 \in 1..MaxVersion
  <2>1. table[route] \in Publication /\ table[route].version < MaxVersion
    BY DEF PutRoute, TaskInv, TypeOK
  <2>2. QED
    BY <2>1, StoreAssumption DEF Publication
<1>2. target \in Target /\ row \in Publication
  BY <1>1 DEF AsTarget, Target, Publication
<1>3. /\ table' = [table EXCEPT ![route] = row]
      /\ published' = published \cup {target}
      /\ UNCHANGED <<store, service, task, late, committed, owner>>
  BY DEF PutRoute
<1> HIDE DEF target, row
<1>4. KindsHaveBase'
  BY <1>3, SameStoreKeepsBase DEF store
<1>5. TasksAreShaped' /\ LateAreShaped'
  BY <1>3 DEF TaskInv, TasksAreShaped, LateAreShaped, Live
<1>6. StoreTypeOK' => TypeOK'
  BY <1>2, <1>3 DEF TaskInv, TypeOK
<1>7. QED
  BY <1>4, <1>5, <1>6 DEF Rest

LEMMA ServiceRest ==
  ASSUME TaskInv,
         \/ \E q \in Requirements : Change(q)
         \/ Shutdown \/ Exit \/ Crash \/ Startup \/ UNCHANGED vars
  PROVE  Rest'
<1>1. KindsHaveBase'
  <2>1. CASE Startup
    BY <2>1, RecoverKeepsBase DEF Startup
  <2>2. CASE ~Startup
    <3>1. UNCHANGED operation
      BY <2>2 DEF Change, EditRequirement, UpdateContent, RebaseRequirement, RebaseRoute,
                  LinkRequirement, Create, Shutdown, Exit, Crash, vars, store
    <3>2. QED
      BY <3>1, SameStoreKeepsBase
  <2>3. QED
    BY <2>1, <2>2
<1>2. /\ UNCHANGED <<table, committed, published, owner>>
      /\ service' \in {service, "running", "stopping", "stopped"}
      /\ UNCHANGED <<task, late>> \/ (task' = [t \in Tasks |-> NoTask] /\ late' = {})
  BY DEF Change, Shutdown, Exit, Crash, Startup, vars, history
<1>3. TasksAreShaped' /\ LateAreShaped'
  BY <1>2 DEF TaskInv, TasksAreShaped, LateAreShaped, Live
<1>4. StoreTypeOK' => TypeOK'
  BY <1>2 DEF TaskInv, TypeOK
<1>5. QED
  BY <1>1, <1>3, <1>4 DEF Rest

LEMMA TaskNextKeeps ==
  ASSUME TaskInv, [NextTask]_vars
  PROVE  TaskInv'
<1>1. [Next]_store
  BY StepIsClient
<1>2. StoreInv' /\ OperationsRefer'
  BY <1>1, StoreStepInv, ReferKeeps DEF TaskInv
<1>3. Rest'
  BY RequestRest, WorkRest, CancelRest, LateRest, PutRouteRest, ServiceRest DEF NextTask
<1>4. StoreTypeOK'
  BY <1>2 DEF StoreInv, RequirementInv, OperationInv, StoreTypeOK
<1>5. QED
  BY <1>2, <1>3, <1>4 DEF TaskInv, Rest

LEMMA TaskInitInv == Init => TaskInv
<1> SUFFICES ASSUME Init PROVE TaskInv
  OBVIOUS
<1>1. StoreInv
  BY StoreInitInv DEF Init
<1>2. StoreTypeOK
  BY <1>1 DEF StoreInv, RequirementInv, OperationInv, StoreTypeOK
<1>3. OperationsRefer /\ KindsHaveBase
  BY DEF Init, StoreInit, OperationsRefer, KindsHaveBase, Submitted
<1>4. TypeOK /\ TasksAreShaped /\ LateAreShaped
  BY <1>2 DEF Init, TypeOK, TasksAreShaped, LateAreShaped, Live
<1>5. QED
  BY <1>1, <1>3, <1>4 DEF TaskInv

LEMMA TaskInvariant == TaskSpec => []TaskInv
BY TaskInitInv, TaskNextKeeps, PTL DEF TaskSpec

\* The tables, the tasks and the histories keep their types.
THEOREM TypeCorrect == TaskSpec => []TypeOK
<1>1. TaskInv => TypeOK
  BY DEF TaskInv
<1>2. QED
  BY <1>1, TaskInvariant, PTL

(***************************************************************************)
(* The service is a client of its store: what it does to the three tables, *)
(* with all its tasks, threads and recoveries, is what RequirementStore    *)
(* lets any client do (metadata.py:205-1404).                              *)
(***************************************************************************)
THEOREM ServiceUsesStore == TaskSpec => Spec
<1>1. Init => StoreInit
  BY DEF Init
<1>2. TaskInv /\ [NextTask]_vars => [Next]_store
  BY StepIsClient
<1>3. QED
  BY <1>1, <1>2, TaskInvariant, PTL DEF TaskSpec, Spec

(***************************************************************************)
(* The statuses the service shows follow the lifecycle the documents tell, *)
(* with all its tasks, cancellations and recoveries (USAGE.md:291).        *)
(***************************************************************************)
THEOREM TasksFollowLifecycle == TaskSpec => ImplementsLifecycle
BY ServiceUsesStore, StoreImplementsLifecycle

-----------------------------------------------------------------------------
(* The routes are those of a RouteTable.  A candidate is numbered when it  *)
(* is generated, from the route its task read when it was submitted; the   *)
(* commit compares that version, so it is the number after the one served. *)

\* What a candidate is, until the commit.
Aimed(w) ==
  w.pc \in {"generated", "noted", "ready"} =>
    /\ w.base = NoLink => ~w.moving /\ w.target.version = 1
    /\ w.base # NoLink =>
         /\ w.target.version = w.base.version + 1
         /\ ~w.moving => w.target.route = w.base.route

AllAimed ==
  /\ \A t \in Tasks : Live(t) => Aimed(task[t])
  /\ \A w \in late : Aimed(w)

LEMMA AsRecordType ==
  ASSUME NEW row \in Publication
  PROVE  /\ row # NoPublication /\ AsRecord(row) # NoPublication
         /\ AsRecord(row) \in Runtime!Record
         /\ AsRecord(row).version = row.version /\ AsRecord(row).origin = "any"
<1>1. AsRecord(row) \in Runtime!Record
  BY DEF AsRecord, Publication, Runtime!Record, Runtime!Modes
<1>2. QED
  BY <1>1, TaskAssumption, NoPublicationAssumption DEF AsRecord

LEMMA RowsAre ==
  ASSUME TaskInv, NEW r \in Routes, table[r] # NoPublication
  PROVE  table[r] \in Publication /\ Records[r] = AsRecord(table[r])
BY DEF TaskInv, TypeOK, Records

\* The first version of a route.
LEMMA FirstIsTableStep ==
  ASSUME TaskInv, NEW r \in Routes, NEW row \in Publication, row.version = 1,
         table[r] = NoPublication,
         table' = [q \in Routes |-> IF q = r THEN row ELSE table[q]]
  PROVE  Runtime!Next
<1>1. /\ Records[r] = NoPublication /\ Records'[r] = AsRecord(row)
      /\ Records' = [q \in Routes |-> Records'[q]]
      /\ \A q \in Routes \ {r} : Records'[q] = Records[q]
  BY AsRecordType DEF Records
<1>2. Runtime!Create(r)
  BY <1>1, AsRecordType DEF Runtime!Create
<1>3. Records' # Records
  BY <1>1, AsRecordType
<1>4. QED
  BY <1>1, <1>2, <1>3 DEF Runtime!Next

\* What was at r is at s now, one version on.
LEMMA NextIsTableStep ==
  ASSUME TaskInv, NEW r \in Routes, NEW s \in Routes, NEW row \in Publication,
         table[r] # NoPublication, row.version = table[r].version + 1,
         s = r \/ table[s] = NoPublication,
         table' = [q \in Routes |-> IF q = s THEN row
                                   ELSE IF q = r THEN NoPublication ELSE table[q]]
  PROVE  Runtime!Next
<1>1. /\ Records' = [q \in Routes |-> Records'[q]]
      /\ Records'[s] = AsRecord(row)
      /\ \A q \in Routes \ {r, s} : Records'[q] = Records[q]
      /\ r # s => Records'[r] = NoPublication
      /\ table[s] = NoPublication => Records[s] = NoPublication
  BY AsRecordType DEF Records
<1>2. table[r] \in Publication /\ Records[r] = AsRecord(table[r])
  BY RowsAre
<1>3. Runtime!Succeeds(s, r)
  BY <1>1, <1>2, AsRecordType DEF Runtime!Succeeds
<1>4. CASE s = r
  <2>1. Runtime!Update(r)
    BY <1>1, <1>3, <1>4 DEF Runtime!Update
  <2>2. table[r].version \in Nat /\ Records[r].version = table[r].version
    BY <1>2, StoreAssumption DEF AsRecord, Publication
  <2>3. Records'[r].version = table[r].version + 1
    BY <1>1, <1>4 DEF AsRecord
  <2>4. Records' # Records
    BY <2>2, <2>3
  <2>5. QED
    BY <1>1, <2>1, <2>4 DEF Runtime!Next
<1>5. CASE s # r
  <2>1. Runtime!Move(r, s)
    BY <1>1, <1>3, <1>5 DEF Runtime!Move
  <2>2. Records' # Records
    BY <1>1, <1>2, <1>5, AsRecordType
  <2>3. QED
    BY <1>1, <2>1, <2>2 DEF Runtime!Next
<1>6. QED
  BY <1>4, <1>5

LEMMA CommitIsTableStep ==
  ASSUME TaskInv, NEW w \in Task, w.target \in Target, w.pc = "ready", Aimed(w), CommitRoute(w)
  PROVE  Runtime!Next
<1> DEFINE row == [version |-> w.target.version, digest |-> w.target.digest]
           r == w.base.route
           s == w.target.route
<1>1. row \in Publication /\ row.version = w.target.version /\ s \in Routes
  BY DEF Publication, Target
<1>2. table' = [q \in Routes |-> IF q = s THEN row
                                 ELSE IF w.moving /\ q = r THEN NoPublication ELSE table[q]]
  BY DEF CommitRoute
<1>3. Committable(w)
  BY DEF CommitRoute
<1> HIDE DEF row, s
<1>4. CASE w.base = NoLink
  <2>1. row.version = 1 /\ ~w.moving /\ table[s] = NoPublication
    BY <1>1, <1>3, <1>4 DEF Aimed, Committable, s
  <2>2. table' = [q \in Routes |-> IF q = s THEN row ELSE table[q]]
    BY <1>2, <2>1
  <2>3. QED
    BY <1>1, <2>1, <2>2, FirstIsTableStep
<1>5. CASE w.base # NoLink
  <2>1. r \in Routes
    BY <1>5 DEF Task, Link
  <2>2. table[r] # NoPublication /\ row.version = table[r].version + 1
    BY <1>1, <1>3, <1>5 DEF Aimed, Committable
  <2>3. IF w.moving THEN table[s] = NoPublication ELSE s = r
    BY <1>3, <1>5 DEF Aimed, Committable, s
  <2>4. table' = [q \in Routes |-> IF q = s THEN row
                                   ELSE IF q = r THEN NoPublication ELSE table[q]]
    BY <1>2, <2>3
  <2> HIDE DEF r
  <2>5. QED
    BY <1>1, <2>1, <2>2, <2>3, <2>4, NextIsTableStep
<1>6. QED
  BY <1>4, <1>5

LEMMA PutIsTableStep ==
  ASSUME TaskInv, NEW route \in Routes, NEW digest \in Digests, PutRoute(route, digest)
  PROVE  Runtime!Next
<1> DEFINE row == [version |-> table[route].version + 1, digest |-> digest]
<1>1. table[route] \in Publication /\ table[route] # NoPublication
      /\ table[route].version < MaxVersion
  BY RowsAre DEF PutRoute
<1>2. row \in Publication /\ row.version = table[route].version + 1
  BY <1>1, StoreAssumption DEF Publication
<1>3. table' = [table EXCEPT ![route] = row] /\ table \in [Routes -> Publication \cup {NoPublication}]
  BY DEF PutRoute, TaskInv, TypeOK
<1> HIDE DEF row
<1>4. table' = [q \in Routes |-> IF q = route THEN row
                                 ELSE IF q = route THEN NoPublication ELSE table[q]]
  BY <1>3
<1>5. QED
  BY <1>1, <1>2, <1>4, NextIsTableStep

\* A task that goes on keeps its aim.
LEMMA GotoAims ==
  ASSUME TaskInv, AllAimed, NEW t \in Tasks, Live(t), NEW pc \in Phases, Goto(t, pc),
         pc \in {"generated", "noted", "ready"}
           => task[t].pc \in {"generated", "noted", "ready"}
  PROVE  \A u \in Tasks : Live(u)' => Aimed(task'[u])
<1>1. Aimed(task'[t])
  BY GotoType DEF AllAimed, Aimed
<1>2. QED
  BY <1>1, GotoType DEF AllAimed, Live

LEMMA EndAims ==
  ASSUME TaskInv, AllAimed, NEW t \in Tasks, End(t)
  PROVE  \A u \in Tasks : Live(u)' => Aimed(task'[u])
BY EndType DEF AllAimed, Live

LEMMA GenerateAims ==
  ASSUME TaskInv, AllAimed, NEW t \in Tasks, NEW digest \in Digests, Generate(t, digest)
  PROVE  \A u \in Tasks : Live(u)' => Aimed(task'[u])
<1> DEFINE candidate == Candidate(t, digest)
           moving == task[t].base # NoLink /\ IsRouteMove(t)
           work == [task[t] EXCEPT !.pc = "generated", !.target = candidate, !.moving = moving]
<1>1. Live(t) /\ task[t] \in Task
  BY AtIs, TaskType DEF Generate
<1>2. task' = [task EXCEPT ![t] = work]
  BY DEF Generate
<1>3. work.base = task[t].base /\ work.target = candidate /\ work.moving = moving
  BY <1>1 DEF Task
<1>4. /\ task[t].base = NoLink => candidate.version = 1
      /\ task[t].base # NoLink =>
           /\ candidate.version = task[t].base.version + 1
           /\ ~moving => candidate.route = task[t].base.route
  BY DEF Candidate, AsTarget
<1>5. Aimed(work)
  BY <1>3, <1>4 DEF Aimed
<1> HIDE DEF work
<1>6. task'[t] = work /\ \A u \in Tasks \ {t} : task'[u] = task[u]
  BY <1>2 DEF TaskInv, TypeOK
<1>7. QED
  BY <1>5, <1>6 DEF AllAimed, Live

LEMMA WorkAims ==
  ASSUME TaskInv, AllAimed, NEW t \in Tasks, Work(t)
  PROVE  /\ AllAimed'
         /\ UNCHANGED table \/ (At(t, "ready") /\ CommitRoute(task[t]))
<1> DEFINE Kept == \A u \in Tasks : Live(u)' => Aimed(task'[u])
<1>1. /\ late' = late
      /\ UNCHANGED table \/ (At(t, "ready") /\ CommitRoute(task[t]))
  BY DEF Work, Accept, Revise, ClaimWork, Generate, Note, NoteOperation, Publish, MoveLinks,
         Finalize, Finish, Raise, AnswerLost, ActivatedButRaised, FailRequirement, FailTask
<1>2. CASE Accept(t) \/ Revise(t) \/ Publish(t) \/ MoveLinks(t) \/ ActivatedButRaised(t)
  <2>1. Live(t) /\ \E pc \in {"scheduled", "moved", "published", "erring"} : Goto(t, pc)
    BY <1>2, AtIs DEF Accept, Revise, Publish, MoveLinks, ActivatedButRaised
  <2>2. Kept
    BY <2>1, GotoAims DEF Phases
  <2>3. QED
    BY <1>1, <2>2 DEF AllAimed
<1>3. CASE Note(t) \/ NoteOperation(t)
  <2>1. /\ Live(t) /\ task[t].pc \in {"generated", "noted"}
        /\ \E pc \in {"noted", "ready"} : Goto(t, pc)
    BY <1>3, AtIs DEF Note, NoteOperation, AfterNote
  <2>2. Kept
    BY <2>1, GotoAims DEF Phases
  <2>3. QED
    BY <1>1, <2>2 DEF AllAimed
<1>4. CASE Finalize(t) \/ Finish(t) \/ FailRequirement(t) \/ FailTask(t)
  <2>1. /\ Live(t)
        /\ End(t) \/ \E pc \in {"completed", "failing", "dropped"} : Goto(t, pc)
    BY <1>4, AtIs DEF Finalize, Finish, FailRequirement, FailTask, AfterFailure, Failing
  <2>2. Kept
    BY <2>1, GotoAims, EndAims DEF Phases
  <2>3. QED
    BY <1>1, <2>2 DEF AllAimed
<1>5. CASE Raise(t) \/ AnswerLost(t)
  <2>1. Live(t) /\ (End(t) \/ Goto(t, "erring"))
    BY <1>5, CallIsClient
       DEF Raise, Refused, Faulty, AnswerLost, AfterException, At, Is, Live
  <2>2. Kept
    BY <2>1, GotoAims, EndAims DEF Phases
  <2>3. QED
    BY <1>1, <2>2 DEF AllAimed
<1>6. CASE ClaimWork(t)
  <2>1. Kept
    BY <1>6, ClaimWorkIs DEF AllAimed, Aimed, Live
  <2>2. QED
    BY <1>1, <2>1 DEF AllAimed
<1>7. CASE \E digest \in Digests : Generate(t, digest)
  BY <1>1, <1>7, GenerateAims DEF AllAimed
<1>8. QED
  BY <1>2, <1>3, <1>4, <1>5, <1>6, <1>7 DEF Work

LEMMA OthersAim ==
  ASSUME TaskInv, AllAimed, NextTask, \A t \in Tasks : ~Work(t)
  PROVE  /\ AllAimed'
         /\ \/ UNCHANGED table
            \/ \E route \in Routes, digest \in Digests : PutRoute(route, digest)
            \/ \E w \in late : w.pc = "ready" /\ CommitRoute(w)
<1>1. ASSUME NEW t \in Tasks, Request(t)
      PROVE  AllAimed' /\ UNCHANGED table
  <2>1. CASE UNCHANGED <<service, table, task, late, history>>
    BY <2>1 DEF AllAimed, Live
  <2>2. CASE Starts(t)
    BY <2>2, StartType DEF Starts, AllAimed, Aimed, Live
  <2>3. QED
    BY <1>1, <2>1, <2>2, RequestIs
<1>2. ASSUME NEW t \in Tasks, Cancel(t)
      PROVE  AllAimed' /\ UNCHANGED table
  <2>1. Live(t) /\ (End(t) \/ Goto(t, "cancelled"))
    BY <1>2 DEF Cancel, Live
  <2>2. \A u \in Tasks : Live(u)' => Aimed(task'[u])
    BY <2>1, GotoAims, EndAims DEF Phases
  <2>3. late' \subseteq late \cup {task[t]} /\ UNCHANGED table
    BY <1>2 DEF Cancel
  <2>4. QED
    BY <2>1, <2>2, <2>3 DEF AllAimed
<1>3. CASE Late
  BY <1>3 DEF Late, LateCommit, LateMoveLinks, AllAimed, Live
<1>4. CASE \E q \in Requirements : Change(q)
  BY <1>4 DEF Change, AllAimed, Live
<1>5. CASE \E route \in Routes, digest \in Digests : PutRoute(route, digest)
  BY <1>5 DEF PutRoute, AllAimed, Live
<1>6. CASE Shutdown \/ Exit \/ Crash \/ Startup
  BY <1>6 DEF Shutdown, Exit, Crash, Startup, AllAimed, Live
<1>7. QED
  BY <1>1, <1>2, <1>3, <1>4, <1>5, <1>6 DEF NextTask

LEMMA TaskStepIsTableStep ==
  ASSUME TaskInv, AllAimed, [NextTask]_vars
  PROVE  AllAimed' /\ [Runtime!Next]_Records
<1>1. UNCHANGED table => UNCHANGED Records
  BY DEF Records
<1>2. ASSUME NEW t \in Tasks, Work(t)
      PROVE  AllAimed' /\ [Runtime!Next]_Records
  <2>1. AllAimed' /\ (UNCHANGED table \/ (At(t, "ready") /\ CommitRoute(task[t])))
    BY <1>2, WorkAims
  <2>2. ASSUME At(t, "ready"), CommitRoute(task[t])
        PROVE  Runtime!Next
    <3>1. Live(t) /\ task[t].pc = "ready"
      BY <2>2, AtIs
    <3>2. task[t] \in Task /\ task[t].target \in Target /\ Aimed(task[t])
      BY <3>1, TaskType DEF Shaped, AllAimed
    <3>3. QED
      BY <2>2, <3>1, <3>2, CommitIsTableStep
  <2>3. QED
    BY <1>1, <2>1, <2>2
<1>3. ASSUME NEW w \in late, w.pc = "ready", CommitRoute(w)
      PROVE  Runtime!Next
  <2>1. w \in Task /\ w.target \in Target /\ Aimed(w)
    BY <1>3 DEF TaskInv, TypeOK, LateAreShaped, Shaped, AllAimed
  <2>2. QED
    BY <1>3, <2>1, CommitIsTableStep
<1>4. CASE UNCHANGED vars
  BY <1>1, <1>4 DEF vars, AllAimed, Live
<1>5. CASE NextTask /\ \A t \in Tasks : ~Work(t)
  BY <1>1, <1>3, <1>5, OthersAim, PutIsTableStep
<1>6. QED
  BY <1>2, <1>4, <1>5 DEF NextTask

(***************************************************************************)
(* A task reads its route, waits for the model, the store and a thread,    *)
(* and commits; it may be cancelled and its thread go on.  Whatever other  *)
(* tasks, direct writes and stops come between, the routes change only by  *)
(* compare-and-swap, as RouteTable says (api.py:1680-1815).                *)
(***************************************************************************)
THEOREM TasksImplementTable == TaskSpec => ImplementsTable
<1>1. Init => AllAimed /\ Runtime!Init
  BY DEF Init, AllAimed, Live, Runtime!Init, Records
<1>2. TaskInv /\ AllAimed /\ [NextTask]_vars => AllAimed' /\ [Runtime!Next]_Records
  BY TaskStepIsTableStep
<1>3. TaskSpec => Runtime!Init /\ [][Runtime!Next]_Records
  BY <1>1, <1>2, TaskInvariant, PTL DEF TaskSpec
<1>4. QED
  BY <1>3 DEF ImplementsTable, Runtime!Spec

-----------------------------------------------------------------------------
(* Who works on what.                                                      *)

AfterCommit == {"moved", "published", "completed", "erring", "failing", "cancelled", "dropped"}

Dead == {"cancelled", "dropped"}

\* What the work w, whose operation has that row, can rely on.
Known(w, row, done) ==
  /\ w.operation \in Operations =>
       /\ w.pc \notin {"revising", "created", "scheduled"}
            => row # NoOperation /\ row.status # "accepted"
       /\ /\ w.pc \in {"ready", "moved", "published", "completed"}
          /\ row # NoOperation /\ row.status = "implementing"
          => row.target = w.target
  /\ w.pc \in {"moved", "published", "completed"} => w.target \in done

\* An operation is worked on by one task, from the request to its end.
OwnOperation ==
  \A t, u \in Tasks :
    Live(t) /\ Live(u) /\ t # u /\ task[t].operation \in Operations
      => task[t].operation # task[u].operation

TasksKnow ==
  \A t \in Tasks : Live(t) => Known(task[t], operation[task[t].operation], published)

\* A thread outlives only a task that does nothing any more but give its claim back.
LateKnow ==
  \A w \in late :
    /\ Known(w, operation[w.operation], published)
    /\ \A t \in Tasks :
         Live(t) /\ w.operation \in Operations /\ task[t].operation = w.operation
           => task[t].pc \in Dead

CommittedKnown ==
  \A o \in committed :
    /\ Submitted(o) /\ operation[o].status # "accepted"
    /\ InProgress(o) => operation[o].target \in published
    /\ \A t \in Tasks : Live(t) /\ task[t].operation = o => task[t].pc \in AfterCommit

FinishedIsPublished ==
  \A o \in Operations : HasStatus(o, "finish") => operation[o].target \in published

TableIsPublished ==
  \A r \in Routes :
    table[r] # NoPublication => AsTarget(r, table[r].version, table[r].digest) \in published

OwnInv ==
  /\ OwnOperation
  /\ TasksKnow
  /\ LateKnow
  /\ CommittedKnown
  /\ FinishedIsPublished
  /\ TableIsPublished

\* A step of the task t, as far as OwnInv is concerned.
Turn(t) ==
  /\ Live(t)
  /\ \A u \in Tasks \ {t} : task'[u] = task[u]
  /\ task'[t] # NoTask =>
       /\ task'[t].operation = task[t].operation
       /\ Known(task'[t], operation'[task'[t].operation], published')
       /\ task[t].pc \in AfterCommit => task'[t].pc \in AfterCommit
       /\ task[t].pc \in Dead => task'[t].pc \in Dead
  /\ \A p \in Operations :
       \/ operation'[p] = operation[p]
       \/ /\ p = task[t].operation
          /\ operation'[p] # NoOperation
          /\ task[t].pc \in AfterCommit => operation'[p].status \in {"finish", "failed"}
          /\ operation'[p].status = "finish" => operation'[p].target \in published'

\* Its route is committed, and the task is past it.
Commits(t) ==
  /\ committed' = committed \cup ({task[t].operation} \ {NoOperation})
  /\ UNCHANGED operation
  /\ task[t].pc = "ready"
  /\ task[t].target \in published'
  /\ task'[t] # NoTask /\ task'[t].pc \in AfterCommit

\* A thread goes on for it.
LeavesThread(t) ==
  /\ late' = late \cup {task[t]}
  /\ UNCHANGED operation
  /\ task[t].pc \in {"ready", "moved"}
  /\ task'[t] # NoTask /\ task'[t].pc \in Dead

LEMMA KnownStays ==
  ASSUME NEW w, NEW row, NEW done, Known(w, row, done), NEW row2, NEW done2,
         done \subseteq done2,
         \/ row2 = row
         \/ row2 # NoOperation /\ row2.status \in {"finish", "failed"}
  PROVE  Known(w, row2, done2)
BY DEF Known

LEMMA TurnKeeps ==
  ASSUME TaskInv, TaskInv', OwnInv, NEW t \in Tasks, Turn(t),
         published \subseteq published', TableIsPublished',
         committed' = committed \/ Commits(t),
         late' = late \/ LeavesThread(t)
  PROVE  OwnInv'
<1> DEFINE o == task[t].operation
<1>1. \A u \in Tasks :
        task'[u] # NoTask => task[u] # NoTask /\ task'[u].operation = task[u].operation
  BY DEF Turn, Live
<1>2. \A p \in Operations : p # o => operation'[p] = operation[p]
  BY DEF Turn
<1>3. OwnOperation'
  BY <1>1 DEF OwnInv, OwnOperation, Live
<1>4. TasksKnow'
  <2> SUFFICES ASSUME NEW u \in Tasks, task'[u] # NoTask
               PROVE  Known(task'[u], operation'[task'[u].operation], published')
    BY DEF TasksKnow, Live
  <2>1. CASE u = t
    BY <2>1 DEF Turn
  <2>2. CASE u # t
    <3>1. task'[u] = task[u] /\ Live(u)
      BY <2>2 DEF Turn, Live
    <3>2. Known(task[u], operation[task[u].operation], published)
      BY <3>1 DEF OwnInv, TasksKnow
    <3>3. CASE task[u].operation \in Operations
      <4>1. task[u].operation # o
        BY <2>2, <3>1, <3>3 DEF OwnInv, OwnOperation, Turn
      <4>2. operation'[task[u].operation] = operation[task[u].operation]
        BY <1>2, <3>3, <4>1
      <4>3. QED
        BY <3>1, <3>2, <4>2 DEF Known
    <3>4. CASE task[u].operation \notin Operations
      BY <3>1, <3>2, <3>4 DEF Known
    <3>5. QED
      BY <3>3, <3>4
  <2>3. QED
    BY <2>1, <2>2
<1>5. ASSUME NEW w \in late
      PROVE  /\ Known(w, operation'[w.operation], published')
             /\ \A u \in Tasks : task'[u] # NoTask /\ w.operation \in Operations
                                   /\ task'[u].operation = w.operation => task'[u].pc \in Dead
  <2>1. Known(w, operation[w.operation], published)
    BY DEF OwnInv, LateKnow
  <2>2. w.operation \in Operations /\ w.operation = o => task[t].pc \in Dead
    BY DEF OwnInv, LateKnow, Turn
  <2>3. Known(w, operation'[w.operation], published')
    <3>1. CASE w.operation \in Operations
      <4>1. \/ operation'[w.operation] = operation[w.operation]
            \/ /\ operation'[w.operation] # NoOperation
               /\ operation'[w.operation].status \in {"finish", "failed"}
        BY <2>2, <3>1 DEF Turn, Dead, AfterCommit
      <4>2. QED
        BY <2>1, <4>1, KnownStays
    <3>2. CASE w.operation \notin Operations
      BY <2>1, <3>2 DEF Known
    <3>3. QED
      BY <3>1, <3>2
  <2>4. \A u \in Tasks : task'[u] # NoTask /\ w.operation \in Operations
                           /\ task'[u].operation = w.operation => task'[u].pc \in Dead
    BY <1>1, <2>2 DEF Turn, OwnInv, LateKnow, Live
  <2>5. QED
    BY <2>3, <2>4
<1>6. LateKnow'
  <2>1. CASE late' = late
    BY <1>5, <2>1 DEF LateKnow, Live
  <2>2. CASE LeavesThread(t)
    <3>1. Known(task[t], operation'[o], published')
      <4>1. Known(task[t], operation[o], published)
        BY DEF OwnInv, TasksKnow, Turn
      <4>2. QED
        BY <2>2, <4>1, KnownStays DEF LeavesThread
    <3>2. \A u \in Tasks : task'[u] # NoTask /\ o \in Operations /\ task'[u].operation = o
                             => task'[u].pc \in Dead
      <4>1. \A u \in Tasks \ {t} : task'[u] # NoTask /\ o \in Operations => task'[u].operation # o
        BY <1>1 DEF OwnInv, OwnOperation, Live, Turn
      <4>2. QED
        BY <2>2, <4>1 DEF LeavesThread
    <3>3. QED
      BY <1>5, <2>2, <3>1, <3>2 DEF LateKnow, Live, LeavesThread
  <2>3. QED
    BY <2>1, <2>2
<1>7. ASSUME NEW p \in Operations, p \in committed
      PROVE  /\ operation'[p] # NoOperation /\ operation'[p].status # "accepted"
             /\ operation'[p].status = "implementing" => operation'[p].target \in published'
             /\ \A u \in Tasks : task'[u] # NoTask /\ task'[u].operation = p
                                   => task'[u].pc \in AfterCommit
  <2>1. /\ Submitted(p) /\ operation[p].status # "accepted"
        /\ InProgress(p) => operation[p].target \in published
        /\ \A u \in Tasks : Live(u) /\ task[u].operation = p => task[u].pc \in AfterCommit
    BY <1>7 DEF OwnInv, CommittedKnown
  <2>2. \A u \in Tasks :
          task'[u] # NoTask /\ task'[u].operation = p => task'[u].pc \in AfterCommit
    BY <1>1, <2>1 DEF Turn, Live
  <2>3. \/ operation'[p] = operation[p]
        \/ operation'[p] # NoOperation /\ operation'[p].status \in {"finish", "failed"}
    BY <2>1 DEF Turn
  <2>4. QED
    BY <2>1, <2>2, <2>3 DEF Submitted, InProgress
<1>8. committed \subseteq Operations
  BY DEF TaskInv, TypeOK
<1>9. CommittedKnown'
  <2>1. CASE committed' = committed
    BY <1>7, <1>8, <2>1 DEF CommittedKnown, Submitted, InProgress, Live
  <2>2. CASE Commits(t)
    <3>1. ASSUME o \in Operations
          PROVE  /\ operation'[o] # NoOperation /\ operation'[o].status # "accepted"
                 /\ operation'[o].status = "implementing" => operation'[o].target \in published'
      <4>1. Known(task[t], operation[o], published)
        BY DEF OwnInv, TasksKnow, Turn
      <4>2. QED
        BY <2>2, <3>1, <4>1 DEF Known, Commits
    <3>2. ASSUME o \in Operations, NEW u \in Tasks, task'[u] # NoTask, task'[u].operation = o
          PROVE  task'[u].pc \in AfterCommit
      BY <1>1, <2>2, <3>2 DEF Commits, OwnInv, OwnOperation, Live, Turn
    <3>3. o \in Operations \cup {NoOperation}
      BY TaskType DEF Turn
    <3>4. committed' = committed \cup ({o} \ {NoOperation})
      BY <2>2 DEF Commits
    <3> HIDE DEF o
    <3>5. ASSUME NEW p \in committed'
          PROVE  /\ operation'[p] # NoOperation /\ operation'[p].status # "accepted"
                 /\ operation'[p].status = "implementing" => operation'[p].target \in published'
                 /\ \A u \in Tasks : task'[u] # NoTask /\ task'[u].operation = p
                                       => task'[u].pc \in AfterCommit
      BY <1>7, <1>8, <3>1, <3>2, <3>3, <3>4
    <3>6. QED
      BY <3>5 DEF CommittedKnown, Submitted, InProgress, Live
  <2>3. QED
    BY <2>1, <2>2
<1>10. FinishedIsPublished'
  BY DEF OwnInv, FinishedIsPublished, HasStatus, Submitted, Turn
<1>11. QED
  BY <1>3, <1>4, <1>6, <1>9, <1>10 DEF OwnInv

-----------------------------------------------------------------------------
(* The rows that a task's calls change.                                    *)

\* Of the rows of the operations, a call changes that of its task.
LEMMA CallRows ==
  ASSUME TaskInv, OwnInv, NEW t \in Tasks, CommittedCall(t), NEW p \in Operations,
         operation'[p] # operation[p]
  PROVE  /\ p = task[t].operation /\ operation'[p] # NoOperation
         /\ \/ task[t].pc \in {"created", "revising"} /\ operation'[p].status = "accepted"
            \/ /\ task[t].pc \in {"scheduled", "noted"}
               /\ operation'[p].status = "implementing"
            \/ /\ task[t].pc = "completed" /\ operation'[p].status = "finish"
               /\ operation'[p].target = task[t].target
<1> DEFINE o == task[t].operation
           q == task[t].requirement
           target == task[t].target
<1>1. Live(t)
  BY DEF CommittedCall, Is, Live
<1>2. Shaped(task[t]) /\ o \in Operations \cup {NoOperation}
  BY <1>1, TaskType
<1>3. StoreInv' /\ operation \in [Operations -> Operation \cup {NoOperation}]
  BY CallIsClient, StoreStepInv DEF TaskInv, StoreInv, OperationInv
<1>4. ASSUME NEW row, SetOperation(o, row) PROVE p = o /\ operation'[p] = row
  BY <1>2, <1>3, <1>4 DEF SetOperation
<1>5. ASSUME NEW kind, NEW path, NEW base, Insert(o, q, kind, path, base)
      PROVE  p = o /\ operation'[p] # NoOperation /\ operation'[p].status = "accepted"
  <2>1. p = o /\ operation'[p].status = "accepted"
    BY <1>3, <1>5 DEF Insert
  <2>2. operation'[p] # NoOperation
    <3>1. operation'[p] # operation[p] /\ operation[p] = NoOperation
      BY <1>5, <2>1 DEF Insert, Submitted
    <3>2. QED
      BY <3>1
  <2>3. QED
    BY <2>1, <2>2
<1>6. ASSUME NEW row, SetOperation(o, row), Submitted(o)
      PROVE  p = o /\ operation'[p] = row /\ operation[o] \in Operation /\ o \in Operations
  BY <1>3, <1>4, <1>6 DEF Submitted
<1>7. CASE Is(t, "created") /\ CreateOperation(o, q, task[t].kind, task[t].path, task[t].base)
  BY <1>5, <1>7, AtIs DEF CreateOperation
<1>8. CASE Is(t, "revising") /\ ReviseAndCreateOperation(o, q, task[t].kind, task[t].base)
  BY <1>5, <1>8, AtIs DEF ReviseAndCreateOperation
<1>9. CASE Is(t, "scheduled") /\ ClaimRow(t)
  <2> DEFINE row == [operation[o] EXCEPT !.status = "implementing"]
  <2>1. Submitted(o) /\ SetOperation(o, row)
    BY <1>9 DEF ClaimRow, BeginImplementation, BeginOperation, HasStatus
  <2>2. p = o /\ operation'[p] = row /\ operation[o] \in Operation
    BY <1>6, <2>1
  <2>3. row \in Operation /\ row.status = "implementing"
    BY <2>2 DEF Operation, OperationStatuses
  <2>4. QED
    BY <1>9, <2>2, <2>3, AtIs, NoOperationAssumption
<1>10. CASE Is(t, "noted") /\ PrepareOperationPublication(o, target)
  <2> DEFINE row == [operation[o] EXCEPT !.target = target]
  <2>1. Submitted(o) /\ SetOperation(o, row) /\ operation[o].status = "implementing"
    BY <1>10 DEF PrepareOperationPublication, HasStatus
  <2>2. p = o /\ operation'[p] = row /\ operation[o] \in Operation
    BY <1>6, <2>1
  <2>3. target \in Target
    BY <1>2, <1>10, AtIs DEF Shaped
  <2>4. row \in Operation /\ row.status = "implementing"
    BY <2>1, <2>2, <2>3 DEF Operation
  <2>5. QED
    BY <1>10, <2>2, <2>4, AtIs, NoOperationAssumption
<1>11. CASE Is(t, "completed") /\ CompleteOperation(o, LinkOf(target))
  <2> DEFINE link == LinkOf(target)
             row == [operation[o] EXCEPT !.status = "finish", !.target.route = link.route,
                                         !.target.version = link.version]
  <2>1. Submitted(o) /\ SetOperation(o, row) /\ operation[o].status = "implementing"
    BY <1>11 DEF CompleteOperation, HasStatus
  <2>2. p = o /\ operation'[p] = row /\ operation[o] \in Operation /\ o \in Operations
    BY <1>6, <2>1
  <2>3. target \in Target /\ task[t].pc = "completed"
    BY <1>2, <1>11, AtIs DEF Shaped
  <2>4. operation[o].target = target
    BY <1>1, <2>1, <2>2, <2>3 DEF OwnInv, TasksKnow, Known, Submitted
  <2>5. [target EXCEPT !.route = link.route, !.version = link.version] = target
    BY <2>3 DEF LinkOf, Target
  <2>6. row = [operation[o] EXCEPT !.status = "finish", !.target = target]
    BY <2>2, <2>3, <2>4, <2>5 DEF Operation, Target
  <2>7. row \in Operation /\ row.status = "finish" /\ row.target = target
    BY <2>2, <2>3, <2>6 DEF Operation, OperationStatuses
  <2>8. QED
    BY <2>2, <2>3, <2>7, NoOperationAssumption
<1>12. QED
  BY <1>7, <1>8, <1>9, <1>10, <1>11
     DEF CommittedCall, PreparePublication, CompleteImplementation

\* So it is a Turn of the task, if what follows is.
LEMMA CallIsTurn ==
  ASSUME TaskInv, OwnInv, NEW t \in Tasks, CommittedCall(t),
         \A u \in Tasks \ {t} : task'[u] = task[u],
         task'[t] # NoTask =>
           /\ task'[t].operation = task[t].operation
           /\ Known(task'[t], operation'[task'[t].operation], published')
           /\ task[t].pc \in AfterCommit => task'[t].pc \in AfterCommit,
         published' = published
  PROVE  Turn(t)
<1>1. Live(t)
  BY DEF CommittedCall, Is, Live
<1>2. task[t].pc \notin Dead
  BY AtIs DEF CommittedCall, Dead
<1>3. task[t].pc = "completed" => task[t].target \in published
  BY <1>1 DEF OwnInv, TasksKnow, Known
<1>4. ASSUME NEW p \in Operations, operation'[p] # operation[p]
      PROVE  /\ p = task[t].operation /\ operation'[p] # NoOperation
             /\ task[t].pc \in AfterCommit => operation'[p].status \in {"finish", "failed"}
             /\ operation'[p].status = "finish" => operation'[p].target \in published'
  BY <1>3, <1>4, CallRows DEF AfterCommit
<1>5. QED
  BY <1>1, <1>2, <1>4 DEF Turn

\* A step that touches no operation.
LEMMA QuietTurn ==
  ASSUME OwnInv, NEW t \in Tasks, Live(t), UNCHANGED operation,
         \A u \in Tasks \ {t} : task'[u] = task[u],
         task'[t] # NoTask =>
           /\ task'[t].operation = task[t].operation
           /\ Known(task'[t], operation[task[t].operation], published')
           /\ task[t].pc \in AfterCommit => task'[t].pc \in AfterCommit
           /\ task[t].pc \in Dead => task'[t].pc \in Dead
  PROVE  Turn(t)
BY DEF Turn

-----------------------------------------------------------------------------
(* Every step keeps it.                                                    *)

LEMMA TablePublishedStays ==
  ASSUME OwnInv, UNCHANGED <<table, published>>
  PROVE  TableIsPublished' /\ published \subseteq published'
BY DEF OwnInv, TableIsPublished

LEMMA CommitRoutePublishes ==
  ASSUME TaskInv, OwnInv, NEW w \in Task, w.target \in Target, CommitRoute(w)
  PROVE  /\ TableIsPublished' /\ published \subseteq published' /\ w.target \in published'
         /\ committed' = committed \cup ({w.operation} \ {NoOperation})
         /\ UNCHANGED operation
<1> DEFINE row == [version |-> w.target.version, digest |-> w.target.digest]
<1>1. /\ table' = [r \in Routes |-> IF r = w.target.route THEN row
                    ELSE IF w.moving /\ r = w.base.route THEN NoPublication ELSE table[r]]
      /\ published' = published \cup {w.target}
      /\ committed' = committed \cup ({w.operation} \ {NoOperation})
      /\ UNCHANGED operation
  BY DEF CommitRoute, store
<1>2. AsTarget(w.target.route, row.version, row.digest) = w.target
  BY DEF AsTarget, Target
<1> HIDE DEF row
<1>3. TableIsPublished'
  <2> SUFFICES ASSUME NEW r \in Routes, table'[r] # NoPublication
               PROVE  AsTarget(r, table'[r].version, table'[r].digest) \in published'
    BY DEF TableIsPublished, AsTarget
  <2>1. CASE r = w.target.route
    BY <1>1, <1>2, <2>1
  <2>2. CASE r # w.target.route
    <3>1. table'[r] = table[r]
      BY <1>1, <2>2
    <3>2. QED
      BY <1>1, <3>1 DEF OwnInv, TableIsPublished
  <2>3. QED
    BY <2>1, <2>2
<1>4. QED
  BY <1>1, <1>3

\* What a task that goes elsewhere knows there.
LEMMA GotoKnown ==
  ASSUME TaskInv, OwnInv, NEW t \in Tasks, Live(t), NEW pc \in Phases, Goto(t, pc),
         NEW row, NEW done, published \subseteq done,
         row = operation[task[t].operation] \/ (row # NoOperation /\ row.status = "implementing"),
         pc # "scheduled" => task[t].pc \notin {"revising", "created", "scheduled"},
         pc \in {"ready", "moved", "published", "completed"}
           => \/ task[t].pc \in {"ready", "moved", "published", "completed"}
                 /\ row = operation[task[t].operation]
              \/ task[t].operation \notin Operations
              \/ row.target = task[t].target,
         pc \in {"moved", "published", "completed"} => task[t].target \in done
  PROVE  /\ Known(task'[t], row, done)
         /\ task'[t] # NoTask /\ task'[t].pc = pc
         /\ task'[t].operation = task[t].operation
         /\ \A u \in Tasks \ {t} : task'[u] = task[u]
<1>1. /\ task'[t].pc = pc /\ task'[t].operation = task[t].operation
      /\ task'[t].target = task[t].target /\ task'[t] # NoTask
      /\ \A u \in Tasks \ {t} : task'[u] = task[u]
  BY GotoType DEF Live
<1>2. Known(task[t], operation[task[t].operation], published)
  BY DEF OwnInv, TasksKnow
<1>3. pc \notin {"revising", "created", "scheduled"} /\ task[t].operation \in Operations
        => row # NoOperation /\ row.status # "accepted"
  BY <1>2 DEF Known
<1>4. /\ pc \in {"ready", "moved", "published", "completed"} /\ task[t].operation \in Operations
      /\ row # NoOperation /\ row.status = "implementing"
      => row.target = task[t].target
  BY <1>2 DEF Known
<1>5. Known(task'[t], row, done)
  BY <1>1, <1>3, <1>4 DEF Known
<1>6. QED
  BY <1>1, <1>5

\* The same where its operation stays as it is.
LEMMA GotoAfterKnown ==
  ASSUME TaskInv, OwnInv, NEW t \in Tasks, Live(t), NEW pc \in AfterCommit, Goto(t, pc),
         task[t].pc \notin {"revising", "created", "scheduled"},
         NEW done, published \subseteq done,
         pc \in {"moved", "published", "completed"}
           => /\ task[t].pc \in {"ready", "moved", "published", "completed"}
              /\ task[t].target \in done
  PROVE  /\ Known(task'[t], operation[task[t].operation], done)
         /\ task'[t] # NoTask /\ task'[t].pc = pc
         /\ task'[t].operation = task[t].operation
         /\ \A u \in Tasks \ {t} : task'[u] = task[u]
<1>1. pc \in Phases /\ pc # "scheduled" /\ pc # "ready"
  BY DEF AfterCommit, Phases
<1>2. /\ task'[t].pc = pc /\ task'[t].operation = task[t].operation
      /\ task'[t].target = task[t].target /\ task'[t] # NoTask
      /\ \A u \in Tasks \ {t} : task'[u] = task[u]
  BY <1>1, GotoType DEF Live
<1>3. Known(task[t], operation[task[t].operation], published)
  BY DEF OwnInv, TasksKnow
<1>4. Known(task'[t], operation[task[t].operation], done)
  BY <1>1, <1>2, <1>3 DEF Known
<1>5. QED
  BY <1>2, <1>4

LEMMA EndIs ==
  ASSUME TaskInv, NEW t \in Tasks, End(t)
  PROVE  task'[t] = NoTask /\ \A u \in Tasks \ {t} : task'[u] = task[u]
BY EndType DEF Live

\* The exceptions of a task in the try block leave it with a claimed operation.
LEMMA ExceptionTurn ==
  ASSUME TaskInv, OwnInv, NEW t \in Tasks, Live(t), AfterException(t), published' = published,
         UNCHANGED operation \/ CommittedCall(t)
  PROVE  Turn(t)
<1> DEFINE o == task[t].operation
<1>1. CASE End(t)
  <2>1. task'[t] = NoTask /\ \A u \in Tasks \ {t} : task'[u] = task[u]
    BY <1>1, EndIs
  <2>2. QED
    BY <2>1, QuietTurn, CallIsTurn
<1>2. CASE Guarded(t) /\ Goto(t, "erring")
  <2>1. task[t].pc \in {"claimed", "generated", "noted", "ready", "moved"}
    BY <1>2 DEF Guarded, Is
  <2>2. "erring" \in Phases /\ "erring" \in AfterCommit
    BY DEF Phases, AfterCommit
  <2>3. CASE UNCHANGED operation
    <3>1. /\ Known(task'[t], operation[o], published)
          /\ task'[t].pc = "erring" /\ task'[t].operation = o
          /\ \A u \in Tasks \ {t} : task'[u] = task[u]
      BY <1>2, <2>1, <2>2, GotoKnown
    <3>2. QED
      BY <2>1, <2>2, <2>3, <3>1, QuietTurn DEF Dead
  <2>4. CASE CommittedCall(t)
    <3>1. o \in Operations => \/ operation'[o] = operation[o]
                              \/ /\ operation'[o] # NoOperation
                                 /\ operation'[o].status = "implementing"
      BY <2>1, <2>4, CallRows
    <3>2. CASE o \in Operations
      <4>1. /\ Known(task'[t], operation'[o], published)
            /\ task'[t].pc = "erring" /\ task'[t].operation = o
            /\ \A u \in Tasks \ {t} : task'[u] = task[u]
        BY <1>2, <2>1, <2>2, <3>1, <3>2, GotoKnown
      <4>2. QED
        BY <2>2, <2>4, <4>1, CallIsTurn
    <3>3. CASE o \notin Operations
      <4>1. /\ task'[t].pc = "erring" /\ task'[t].operation = o
            /\ \A u \in Tasks \ {t} : task'[u] = task[u]
        BY <1>2, <2>2, GotoType
      <4>2. Known(task'[t], operation'[o], published)
        BY <3>3, <4>1 DEF Known
      <4>3. QED
        BY <2>2, <2>4, <4>1, <4>2, CallIsTurn
    <3>4. QED
      BY <3>2, <3>3
  <2>5. QED
    BY <2>3, <2>4
<1>3. QED
  BY <1>1, <1>2 DEF AfterException

LEMMA ClaimTurn ==
  ASSUME TaskInv, OwnInv, NEW t \in Tasks, ClaimWork(t)
  PROVE  Turn(t)
<1> DEFINE o == task[t].operation
<1>1. /\ Live(t) /\ task[t].pc = "scheduled"
      /\ task'[t].operation = o /\ task'[t].pc = "claimed"
      /\ \A u \in Tasks \ {t} : task'[u] = task[u]
  BY ClaimWorkIs
<1>2. CommittedCall(t) /\ published' = published
  BY StepsCall DEF ClaimWork
<1>3. o \in Operations => operation'[o] # NoOperation /\ operation'[o].status = "implementing"
  <2> SUFFICES ASSUME o \in Operations
               PROVE  operation'[o] # NoOperation /\ operation'[o].status = "implementing"
    OBVIOUS
  <2>1. BeginOperation(o)
    BY TaskAssumption DEF ClaimWork, ClaimRow
  <2>2. operation[o] \in Operation /\ operation[o].status = "accepted"
    BY <2>1, OperationType DEF BeginOperation, HasStatus
  <2>3. operation'[o] = [operation[o] EXCEPT !.status = "implementing"]
    BY <2>1 DEF BeginOperation, SetOperation, TaskInv, StoreInv, OperationInv
  <2>4. operation'[o] \in Operation /\ operation'[o].status = "implementing"
    BY <2>2, <2>3 DEF Operation, OperationStatuses
  <2>5. QED
    BY <2>4, NoOperationAssumption
<1>4. Known(task'[t], operation'[o], published')
  BY <1>1, <1>3 DEF Known
<1>5. QED
  BY <1>1, <1>2, <1>4, CallIsTurn DEF AfterCommit

LEMMA GenerateTurn ==
  ASSUME TaskInv, OwnInv, NEW t \in Tasks, NEW digest \in Digests, Generate(t, digest)
  PROVE  Turn(t)
<1>1. /\ Live(t) /\ task[t].pc = "claimed" /\ task'[t].operation = task[t].operation
      /\ task'[t].pc = "generated" /\ \A u \in Tasks \ {t} : task'[u] = task[u]
  BY GenerateIs
<1>2. Known(task[t], operation[task[t].operation], published)
  BY <1>1 DEF OwnInv, TasksKnow
<1>3. Known(task'[t], operation[task[t].operation], published')
  BY <1>1, <1>2 DEF Known
<1>4. UNCHANGED operation
  BY DEF Generate, store
<1>5. QED
  BY <1>1, <1>3, <1>4, QuietTurn DEF AfterCommit, Dead

LEMMA NoteTurn ==
  ASSUME TaskInv, OwnInv, NEW t \in Tasks, Note(t) \/ NoteOperation(t)
  PROVE  Turn(t)
<1> DEFINE o == task[t].operation
<1>1. published' = published
  BY DEF Note, NoteOperation, history
<1>2. "ready" \in Phases /\ "noted" \in Phases /\ o \in Operations \cup {NoOperation}
      /\ Live(t) /\ task[t].pc \in {"generated", "noted"}
  BY AtIs, TaskType DEF Phases, Note, NoteOperation
<1>3. CASE Note(t)
  <2>1. task[t].pc = "generated" /\ UNCHANGED operation
    BY <1>3, AtIs DEF Note, PreparePublication
  <2>2. \/ Goto(t, "noted")
        \/ Goto(t, "ready") /\ o \notin Operations
    BY <1>2, <1>3, TaskAssumption DEF Note, AfterNote
  <2>3. /\ Known(task'[t], operation[o], published) /\ task'[t].operation = o
        /\ \A u \in Tasks \ {t} : task'[u] = task[u]
    BY <1>2, <2>1, <2>2, GotoKnown
  <2>4. QED
    BY <1>1, <1>2, <2>1, <2>3, QuietTurn DEF AfterCommit, Dead
<1>4. CASE NoteOperation(t)
  <2>1. /\ task[t].pc = "noted" /\ Goto(t, "ready") /\ CommittedCall(t)
        /\ PrepareOperationPublication(o, task[t].target)
    BY <1>4, AtIs, StepsCall DEF NoteOperation
  <2>2. o \in Operations /\ task[t].target \in Target
    BY <1>2, <2>1, TaskType DEF Shaped
  <2>3. operation'[o] # NoOperation /\ operation'[o].status = "implementing"
        /\ operation'[o].target = task[t].target
    <3>1. operation[o] \in Operation /\ operation[o].status = "implementing"
      BY <2>1, <2>2, OperationType DEF PrepareOperationPublication, HasStatus
    <3>2. operation'[o] = [operation[o] EXCEPT !.target = task[t].target]
      BY <2>1, <2>2 DEF PrepareOperationPublication, SetOperation, TaskInv, StoreInv, OperationInv
    <3>3. operation'[o] \in Operation /\ operation'[o].status = "implementing"
          /\ operation'[o].target = task[t].target
      BY <2>2, <3>1, <3>2 DEF Operation
    <3>4. QED
      BY <3>3, NoOperationAssumption
  <2>4. /\ Known(task'[t], operation'[o], published) /\ task'[t].operation = o
        /\ \A u \in Tasks \ {t} : task'[u] = task[u]
    BY <1>2, <2>1, <2>3, GotoKnown
  <2>5. QED
    BY <1>1, <2>1, <2>4, CallIsTurn DEF AfterCommit
<1>5. QED
  BY <1>3, <1>4

LEMMA AcceptTurn ==
  ASSUME TaskInv, OwnInv, NEW t \in Tasks, Accept(t) \/ Revise(t)
  PROVE  Turn(t)
<1>1. /\ CommittedCall(t) /\ Goto(t, "scheduled") /\ published' = published
      /\ task[t].pc \in {"created", "revising"} /\ "scheduled" \in Phases /\ Live(t)
  BY StepsCall, AtIs DEF Accept, Revise, Phases, history
<1>2. /\ task'[t].pc = "scheduled" /\ task'[t].operation = task[t].operation
      /\ \A u \in Tasks \ {t} : task'[u] = task[u]
  BY <1>1, GotoType
<1>3. Known(task'[t], operation'[task[t].operation], published')
  BY <1>2 DEF Known
<1>4. QED
  BY <1>1, <1>2, <1>3, CallIsTurn DEF AfterCommit

LEMMA MoveLinksTurn ==
  ASSUME TaskInv, OwnInv, NEW t \in Tasks, MoveLinks(t)
  PROVE  Turn(t) /\ published' = published
<1> DEFINE o == task[t].operation
<1>1. /\ Live(t) /\ task[t].pc = "moved" /\ Goto(t, "published") /\ "published" \in Phases
      /\ UNCHANGED operation /\ published' = published
  BY AtIs DEF MoveLinks, MoveRouteLinks, Phases, history
<1>2. task[t].target \in published
  BY <1>1 DEF OwnInv, TasksKnow, Known
<1>3. /\ Known(task'[t], operation[o], published) /\ task'[t].operation = o
      /\ task'[t].pc = "published" /\ \A u \in Tasks \ {t} : task'[u] = task[u]
  BY <1>1, <1>2, GotoKnown
<1>4. QED
  BY <1>1, <1>3, QuietTurn DEF AfterCommit, Dead

LEMMA FinishTurn ==
  ASSUME TaskInv, OwnInv, NEW t \in Tasks, Finalize(t) \/ Finish(t)
  PROVE  Turn(t)
<1> DEFINE o == task[t].operation
<1>1. CommittedCall(t) /\ published' = published /\ Live(t)
  BY StepsCall, AtIs DEF Finalize, Finish, history
<1>2. CASE End(t)
  BY <1>1, <1>2, EndIs, CallIsTurn
<1>3. CASE Finalize(t) /\ Goto(t, "completed")
  <2>1. /\ task[t].pc = "published" /\ UNCHANGED operation /\ "completed" \in Phases
    BY <1>3, AtIs DEF Finalize, CompleteImplementation, Phases
  <2>2. task[t].target \in published
    BY <1>1, <2>1 DEF OwnInv, TasksKnow, Known
  <2>3. /\ Known(task'[t], operation[o], published) /\ task'[t].operation = o
        /\ task'[t].pc = "completed" /\ \A u \in Tasks \ {t} : task'[u] = task[u]
    BY <1>1, <1>3, <2>1, <2>2, GotoKnown
  <2>4. QED
    BY <1>1, <2>1, <2>3, QuietTurn DEF AfterCommit, Dead
<1>4. QED
  BY <1>2, <1>3 DEF Finalize, Finish

LEMMA FailTurn ==
  ASSUME TaskInv, OwnInv, NEW t \in Tasks, FailRequirement(t) \/ FailTask(t)
  PROVE  Turn(t)
<1> DEFINE o == task[t].operation
<1>1. published' = published /\ Live(t)
  BY AtIs DEF FailRequirement, FailTask, Failing, history
<1>2. CASE FailRequirement(t)
  <2>1. /\ UNCHANGED operation
        /\ task[t].pc \in {"erring", "cancelled"}
        /\ \/ End(t) \/ (task[t].pc # "cancelled" /\ Goto(t, "failing")) \/ Goto(t, "dropped")
        /\ "failing" \in Phases /\ "dropped" \in Phases
    BY <1>2, AtIs
       DEF FailRequirement, FailImplementation, Failing, AfterFailure, Is, Phases, store
  <2>2. CASE End(t)
    BY <1>1, <2>1, <2>2, EndIs, QuietTurn
  <2>3. ASSUME NEW pc \in {"failing", "dropped"}, Goto(t, pc),
               task[t].pc = "cancelled" => pc = "dropped"
        PROVE  Turn(t)
    <3>1. pc \in AfterCommit /\ pc \notin {"moved", "published", "completed"}
          /\ task[t].pc \notin {"revising", "created", "scheduled"}
      BY <2>1 DEF AfterCommit
    <3>2. /\ Known(task'[t], operation[o], published) /\ task'[t].operation = o
          /\ task'[t].pc = pc /\ \A u \in Tasks \ {t} : task'[u] = task[u]
      BY <1>1, <2>3, <3>1, GotoAfterKnown
    <3>3. QED
      BY <1>1, <2>1, <2>3, <3>2, QuietTurn DEF AfterCommit, Dead
  <2>4. QED
    BY <2>1, <2>2, <2>3
<1>3. CASE FailTask(t)
  <2>1. task'[t] = NoTask /\ \A u \in Tasks \ {t} : task'[u] = task[u]
    BY <1>3, EndIs DEF FailTask
  <2>2. CASE UNCHANGED operation
    BY <1>1, <2>1, <2>2, QuietTurn
  <2>3. CASE FailOperation(o)
    <3>1. task[t].pc \in {"failing", "dropped"}
      BY <1>3, AtIs DEF FailTask
    <3>2. o \in Operations
      BY <1>1, <3>1, TaskType DEF Shaped
    <3>3. operation[o] \in Operation /\ operation' = [operation EXCEPT ![o] =
                                          [operation[o] EXCEPT !.status = "failed"]]
      BY <2>3, <3>2, OperationType DEF FailOperation, Failable, InProgress, SetOperation
    <3>4. [operation[o] EXCEPT !.status = "failed"] \in Operation
          /\ [operation[o] EXCEPT !.status = "failed"].status = "failed"
      BY <3>3 DEF Operation, OperationStatuses
    <3>5. operation'[o] # NoOperation /\ operation'[o].status = "failed"
          /\ \A p \in Operations \ {o} : operation'[p] = operation[p]
      BY <3>2, <3>3, <3>4, NoOperationAssumption DEF TaskInv, StoreInv, OperationInv
    <3>6. QED
      BY <1>1, <2>1, <3>5 DEF Turn
  <2>4. QED
    BY <1>3, <2>2, <2>3 DEF FailTask, store
<1>4. QED
  BY <1>2, <1>3

LEMMA CommitTurn ==
  ASSUME TaskInv, OwnInv, NEW t \in Tasks, Publish(t) \/ ActivatedButRaised(t)
  PROVE  /\ Turn(t) /\ Commits(t)
         /\ published \subseteq published' /\ TableIsPublished' /\ late' = late
<1> DEFINE o == task[t].operation
<1>1. /\ Live(t) /\ task[t].pc = "ready" /\ CommitRoute(task[t]) /\ late' = late
      /\ Goto(t, "moved") \/ Goto(t, "published") \/ Goto(t, "erring")
      /\ "moved" \in Phases /\ "published" \in Phases /\ "erring" \in Phases
  BY AtIs DEF Publish, ActivatedButRaised, Phases
<1>2. task[t] \in Task /\ task[t].target \in Target
  BY <1>1, TaskType DEF Shaped
<1>3. /\ TableIsPublished' /\ published \subseteq published' /\ task[t].target \in published'
      /\ committed' = committed \cup ({o} \ {NoOperation})
      /\ UNCHANGED operation
  BY <1>1, <1>2, CommitRoutePublishes
<1>4. /\ Known(task'[t], operation[o], published') /\ task'[t].operation = o
      /\ task'[t].pc \in {"moved", "published", "erring"} /\ task'[t] # NoTask
      /\ \A u \in Tasks \ {t} : task'[u] = task[u]
  <2>1. PICK pc \in {"moved", "published", "erring"} : Goto(t, pc)
    BY <1>1
  <2>2. pc \in AfterCommit
    BY DEF AfterCommit
  <2>3. QED
    BY <1>1, <1>3, <2>1, <2>2, GotoAfterKnown
<1>5. Turn(t)
  BY <1>1, <1>3, <1>4, QuietTurn DEF AfterCommit, Dead
<1>6. Commits(t)
  BY <1>1, <1>3, <1>4 DEF Commits, AfterCommit
<1>7. QED
  BY <1>1, <1>3, <1>5, <1>6

LEMMA CancelTurn ==
  ASSUME TaskInv, OwnInv, NEW t \in Tasks, Cancel(t)
  PROVE  /\ Turn(t)
         /\ late' = late \/ LeavesThread(t)
<1> DEFINE o == task[t].operation
<1>1. Live(t) /\ task[t].pc \notin Dead /\ published' = published /\ "cancelled" \in Phases
  BY DEF Cancel, Live, Dead, Phases, history
<1>2. CASE Guarded(t)
  <2>1. /\ task[t].pc \in {"claimed", "generated", "noted", "ready", "moved"}
        /\ UNCHANGED operation /\ Goto(t, "cancelled")
    BY <1>2 DEF Guarded, Is, Cancel, store
  <2>2. /\ Known(task'[t], operation[o], published) /\ task'[t].operation = o
        /\ task'[t].pc = "cancelled" /\ task'[t] # NoTask
        /\ \A u \in Tasks \ {t} : task'[u] = task[u]
    <3>1. "cancelled" \in AfterCommit
      BY DEF AfterCommit
    <3>2. QED
      BY <1>1, <2>1, <3>1, GotoAfterKnown
  <2>3. Turn(t)
    BY <1>1, <2>1, <2>2, QuietTurn DEF AfterCommit, Dead
  <2>4. late' = late \/ LeavesThread(t)
    BY <2>1, <2>2 DEF Cancel, OutlivesTask, Is, LeavesThread, Dead
  <2>5. QED
    BY <2>3, <2>4
<1>3. CASE ~Guarded(t)
  <2>1. End(t) /\ late' = late /\ (CommittedCall(t) \/ UNCHANGED operation)
    BY <1>3 DEF Cancel, OutlivesTask, Guarded, store
  <2>2. QED
    BY <1>1, <2>1, EndIs, CallIsTurn, QuietTurn
<1>4. QED
  BY <1>2, <1>3

LEMMA WorkOwn ==
  ASSUME TaskInv, TaskInv', OwnInv, NEW t \in Tasks, Work(t) \/ Cancel(t)
  PROVE  OwnInv'
<1>1. CASE Publish(t) \/ ActivatedButRaised(t)
  BY <1>1, CommitTurn, TurnKeeps
<1>2. CASE Cancel(t)
  <2>1. UNCHANGED <<table, committed, published>>
    BY <1>2 DEF Cancel, history
  <2>2. QED
    BY <1>2, <2>1, CancelTurn, TablePublishedStays, TurnKeeps
<1>3. CASE Raise(t) \/ AnswerLost(t)
  <2>1. UNCHANGED <<table, late, committed, published>>
    BY <1>3 DEF Raise, AnswerLost, history
  <2>2. Live(t) /\ AfterException(t) /\ (UNCHANGED operation \/ CommittedCall(t))
    BY <1>3, CallIsClient DEF Raise, AnswerLost, Refused, Faulty, At, Is, Live, store
  <2>3. Turn(t)
    BY <2>1, <2>2, ExceptionTurn
  <2>4. QED
    BY <2>1, <2>3, TablePublishedStays, TurnKeeps
<1>4. ASSUME Turn(t), UNCHANGED <<table, late, committed, published>>
      PROVE  OwnInv'
  BY <1>4, TablePublishedStays, TurnKeeps
<1>5. CASE \/ Accept(t) \/ Revise(t) \/ ClaimWork(t)
           \/ \E digest \in Digests : Generate(t, digest)
           \/ Note(t) \/ NoteOperation(t) \/ MoveLinks(t) \/ Finalize(t) \/ Finish(t)
           \/ FailRequirement(t) \/ FailTask(t)
  <2>1. UNCHANGED <<table, late, committed, published>>
    BY <1>5 DEF Accept, Revise, ClaimWork, Generate, Note, NoteOperation, MoveLinks, Finalize,
                Finish, FailRequirement, FailTask, history
  <2>2. Turn(t)
    BY <1>5, AcceptTurn, ClaimTurn, GenerateTurn, NoteTurn, MoveLinksTurn, FinishTurn, FailTurn
  <2>3. QED
    BY <1>4, <2>1, <2>2
<1>6. QED
  BY <1>1, <1>2, <1>3, <1>5 DEF Work

\* Nobody works on the operation of a request.
LEMMA StartOwn ==
  ASSUME TaskInv, OwnInv, NEW t \in Tasks, NEW pc \in {"revising", "created", "scheduled"},
         NEW o \in Operations \cup {NoOperation},
         ~Live(t), task'[t] # NoTask, task'[t].pc = pc, task'[t].operation = o,
         \A u \in Tasks \ {t} : task'[u] = task[u],
         o \in Operations => FreshOperation(o),
         UNCHANGED <<operation, table, late, committed, published>>
  PROVE  OwnInv'
<1>1. \A u \in Tasks : task'[u] # NoTask => u = t \/ (Live(u) /\ task'[u] = task[u])
  BY DEF Live
<1>2. o \in Operations => /\ ~Submitted(o)
                          /\ \A u \in Tasks : Live(u) => task[u].operation # o
  BY DEF FreshOperation, Live
<1>3. OwnOperation'
  BY <1>1, <1>2 DEF OwnInv, OwnOperation, Live
<1>4. TasksKnow'
  <2> SUFFICES ASSUME NEW u \in Tasks, task'[u] # NoTask
               PROVE  Known(task'[u], operation[task'[u].operation], published)
    BY DEF TasksKnow, Live
  <2>1. CASE u = t
    BY <2>1 DEF Known
  <2>2. CASE u # t
    BY <1>1, <2>2 DEF OwnInv, TasksKnow
  <2>3. QED
    BY <2>1, <2>2
<1>5. LateKnow'
  <2>1. ASSUME NEW w \in late, w.operation \in Operations, w.operation = o
        PROVE  FALSE
    <3>1. w.pc \in {"ready", "moved"} /\ Known(w, operation[w.operation], published)
      BY DEF TaskInv, LateAreShaped, OwnInv, LateKnow
    <3>2. QED
      BY <1>2, <2>1, <3>1 DEF Known, Submitted
  <2>2. ASSUME NEW w \in late, NEW u \in Tasks, task'[u] # NoTask, w.operation \in Operations,
               task'[u].operation = w.operation
        PROVE  task'[u].pc \in Dead
    BY <1>1, <2>1, <2>2 DEF OwnInv, LateKnow
  <2>3. QED
    BY <2>2 DEF OwnInv, LateKnow, Live
<1>6. CommittedKnown'
  <2>1. ASSUME NEW p \in committed, NEW u \in Tasks, task'[u] # NoTask, task'[u].operation = p
        PROVE  task'[u].pc \in AfterCommit
    <3>1. Submitted(p) /\ p \in Operations
      BY DEF OwnInv, CommittedKnown, TaskInv, TypeOK
    <3>2. u # t
      BY <1>2, <2>1, <3>1
    <3>3. QED
      BY <1>1, <2>1, <3>2 DEF OwnInv, CommittedKnown
  <2>2. QED
    BY <2>1 DEF OwnInv, CommittedKnown, Submitted, InProgress, Live
<1>7. FinishedIsPublished' /\ TableIsPublished'
  BY DEF OwnInv, FinishedIsPublished, TableIsPublished, HasStatus, Submitted
<1>8. QED
  BY <1>3, <1>4, <1>5, <1>6, <1>7 DEF OwnInv

\* Steps of the service in which no task starts or goes on.
LEMMA QuietOwn ==
  ASSUME TaskInv, OwnInv, UNCHANGED <<operation, committed>>,
         published \subseteq published', TableIsPublished',
         \/ UNCHANGED <<task, late>>
         \/ task' = [t \in Tasks |-> NoTask] /\ late' = {}
  PROVE  OwnInv'
<1>1. \A t \in Tasks : task'[t] # NoTask => task'[t] = task[t]
  OBVIOUS
<1>2. late' \subseteq late
  OBVIOUS
<1>3. OwnOperation'
  BY <1>1 DEF OwnInv, OwnOperation, Live
<1>4. TasksKnow'
  <2> SUFFICES ASSUME NEW u \in Tasks, task'[u] # NoTask
               PROVE  Known(task'[u], operation'[task'[u].operation], published')
    BY DEF TasksKnow, Live
  <2>1. Known(task[u], operation[task[u].operation], published)
    BY <1>1 DEF OwnInv, TasksKnow, Live
  <2>2. QED
    BY <1>1, <2>1 DEF Known
<1>5. LateKnow'
  <2> SUFFICES ASSUME NEW w \in late
               PROVE  /\ Known(w, operation'[w.operation], published')
                      /\ \A u \in Tasks : task'[u] # NoTask /\ w.operation \in Operations
                           /\ task'[u].operation = w.operation => task'[u].pc \in Dead
    BY <1>2 DEF LateKnow, Live
  <2>1. Known(w, operation[w.operation], published)
    BY DEF OwnInv, LateKnow
  <2>2. Known(w, operation'[w.operation], published')
    BY <2>1 DEF Known
  <2>3. QED
    BY <1>1, <2>2 DEF OwnInv, LateKnow, Live
<1>6. CommittedKnown'
  BY <1>1 DEF OwnInv, CommittedKnown, Submitted, InProgress, Live
<1>7. FinishedIsPublished'
  BY DEF OwnInv, FinishedIsPublished, HasStatus, Submitted
<1>8. QED
  BY <1>3, <1>4, <1>5, <1>6, <1>7 DEF OwnInv

LEMMA RequestOwn ==
  ASSUME TaskInv, OwnInv, NEW t \in Tasks, Request(t)
  PROVE  OwnInv'
<1>1. UNCHANGED operation
  BY RequestIs
<1>2. CASE UNCHANGED <<service, table, task, late, history>>
  <2>1. TableIsPublished' /\ UNCHANGED <<committed, task, late>> /\ published \subseteq published'
    BY <1>2, TablePublishedStays DEF history
  <2>2. QED
    BY <1>1, <2>1, QuietOwn
<1>3. CASE Starts(t)
  <2>1. PICK pc \in {"revising", "created", "scheduled"}, q \in Requirements,
             o \in Operations \cup {NoOperation}, kind \in Kinds, path \in Routes,
             base \in Link \cup {NoLink} :
               Start(t, pc, q, o, kind, path, base) /\ (o \in Operations => FreshOperation(o))
    BY <1>3 DEF Starts
  <2>2. /\ ~Live(t) /\ task'[t] # NoTask /\ task'[t].pc = pc /\ task'[t].operation = o
        /\ \A u \in Tasks \ {t} : task'[u] = task[u]
        /\ UNCHANGED <<table, late, committed, published>>
    BY <2>1, StartType DEF Live, history
  <2>3. QED
    BY <1>1, <2>1, <2>2, StartOwn
<1>4. QED
  BY <1>2, <1>3, RequestIs

LEMMA LateOwn ==
  ASSUME TaskInv, OwnInv, Late
  PROVE  OwnInv'
<1>1. PICK w \in late :
        /\ late' = late \ {w}
        /\ UNCHANGED task
        /\ UNCHANGED operation
        /\ \/ LateCommit(w)
           \/ UNCHANGED <<table, committed, published>>
  BY DEF Late, LateCommit, CommitRoute, LateMoveLinks, MoveRouteLinks, history, store
<1>2. w \in Task /\ w.target \in Target /\ w.operation \in Operations \cup {NoOperation}
      /\ w.pc \in {"ready", "moved"}
  BY DEF TaskInv, TypeOK, LateAreShaped, Shaped, Task
<1>3. /\ TableIsPublished' /\ published \subseteq published'
      /\ \/ committed' = committed
         \/ /\ committed' = committed \cup ({w.operation} \ {NoOperation})
            /\ w.target \in published'
  BY <1>1, <1>2, CommitRoutePublishes, TablePublishedStays DEF LateCommit
<1>4. Known(w, operation[w.operation], published)
      /\ \A t \in Tasks : Live(t) /\ w.operation \in Operations /\ task[t].operation = w.operation
           => task[t].pc \in Dead
  BY DEF OwnInv, LateKnow
<1>5. OwnOperation' /\ FinishedIsPublished'
  BY <1>1, <1>3 DEF OwnInv, OwnOperation, FinishedIsPublished, Live, HasStatus, Submitted
<1>6. \A v, row : Known(v, row, published) => Known(v, row, published')
  BY <1>3 DEF Known
<1>7. TasksKnow' /\ LateKnow'
  BY <1>1, <1>6 DEF OwnInv, TasksKnow, LateKnow, Live
<1>8. CommittedKnown'
  <2>1. ASSUME NEW p \in committed
        PROVE  /\ Submitted(p) /\ operation[p].status # "accepted"
               /\ InProgress(p) => operation[p].target \in published'
               /\ \A t \in Tasks : Live(t) /\ task[t].operation = p => task[t].pc \in AfterCommit
    BY <1>3 DEF OwnInv, CommittedKnown
  <2>2. ASSUME w.operation \in Operations, w.target \in published'
        PROVE  /\ Submitted(w.operation) /\ operation[w.operation].status # "accepted"
               /\ InProgress(w.operation) => operation[w.operation].target \in published'
               /\ \A t \in Tasks : Live(t) /\ task[t].operation = w.operation
                                     => task[t].pc \in AfterCommit
    <3>1. operation[w.operation] # NoOperation /\ operation[w.operation].status # "accepted"
          /\ \A t \in Tasks : Live(t) /\ task[t].operation = w.operation => task[t].pc \in Dead
      BY <1>2, <1>4, <2>2 DEF Known
    <3>2. InProgress(w.operation) => operation[w.operation].target = w.target
      <4>1. InProgress(w.operation) => operation[w.operation].status = "implementing"
        BY <3>1 DEF InProgress
      <4>2. QED
        BY <1>2, <1>4, <2>2, <3>1, <4>1 DEF Known
    <3>3. QED
      BY <2>2, <3>1, <3>2 DEF Submitted, Dead, AfterCommit
  <2>3. ASSUME NEW p \in committed'
        PROVE  /\ Submitted(p) /\ operation[p].status # "accepted"
               /\ InProgress(p) => operation[p].target \in published'
               /\ \A t \in Tasks : Live(t) /\ task[t].operation = p => task[t].pc \in AfterCommit
    <3>1. p \in committed \/ (p = w.operation /\ p \in Operations /\ w.target \in published')
      BY <1>2, <1>3
    <3>2. QED
      BY <2>1, <2>2, <3>1
  <2>4. QED
    BY <1>1, <2>3 DEF CommittedKnown, Submitted, InProgress, Live
<1>9. QED
  BY <1>3, <1>5, <1>7, <1>8 DEF OwnInv

LEMMA PutRouteOwn ==
  ASSUME TaskInv, OwnInv, NEW route \in Routes, NEW digest \in Digests, PutRoute(route, digest)
  PROVE  OwnInv'
<1> DEFINE row == [version |-> table[route].version + 1, digest |-> digest]
           target == AsTarget(route, table[route].version + 1, digest)
<1>1. /\ table' = [table EXCEPT ![route] = row] /\ published' = published \cup {target}
      /\ UNCHANGED <<operation, task, late, committed>>
  BY DEF PutRoute, store
<1>2. AsTarget(route, row.version, row.digest) = target
  OBVIOUS
<1> HIDE DEF row, target
<1>3. TableIsPublished'
  <2> SUFFICES ASSUME NEW r \in Routes, table'[r] # NoPublication
               PROVE  AsTarget(r, table'[r].version, table'[r].digest) \in published'
    BY DEF TableIsPublished, AsTarget
  <2>1. CASE r = route
    <3>1. table'[r] = row
      BY <1>1, <2>1 DEF TaskInv, TypeOK
    <3>2. QED
      BY <1>1, <1>2, <2>1, <3>1
  <2>2. CASE r # route
    <3>1. table'[r] = table[r]
      BY <1>1, <2>2 DEF TaskInv, TypeOK
    <3>2. QED
      BY <1>1, <3>1 DEF OwnInv, TableIsPublished
  <2>3. QED
    BY <2>1, <2>2
<1>4. QED
  BY <1>1, <1>3, QuietOwn

\* A receipt that is found published, was.
LEMMA FoundIsPublished ==
  ASSUME TaskInv, OwnInv, NEW target \in Target \cup {NoTarget}, Published(target, table)
  PROVE  target \in published
<1>1. /\ target \in Target
      /\ table[target.route] = [version |-> target.version, digest |-> target.digest]
  BY DEF Published
<1>2. table[target.route] # NoPublication
  BY <1>1, TaskAssumption DEF Target, Publication
<1>3. AsTarget(target.route, target.version, target.digest) \in published
  <2>1. target.route \in Routes
    BY <1>1 DEF Target
  <2>2. AsTarget(target.route, table[target.route].version, table[target.route].digest)
          \in published
    BY <1>2, <2>1 DEF OwnInv, TableIsPublished
  <2>3. QED
    BY <1>1, <2>2
<1>4. QED
  BY <1>1, <1>3 DEF AsTarget, Target

\* Startup ends what was in progress.
LEMMA RecoveredRows ==
  ASSUME TaskInv, OwnInv, RecoverInterrupted(table), NEW o \in Operations,
         operation'[o] # operation[o]
  PROVE  /\ InProgress(o) /\ operation'[o] # NoOperation
         /\ operation'[o].status \in {"finish", "failed"}
         /\ operation'[o].status = "finish" => operation'[o].target \in published
<1> DEFINE status == RecoveredStatus(o, table)
           row == [operation[o] EXCEPT !.status = status]
<1>1. InProgress(o) /\ operation'[o] = row
  BY DEF RecoverInterrupted
<1>2. operation[o] \in Operation
  BY <1>1, OperationType DEF InProgress
<1>3. status \in {"finish", "failed"}
      /\ (status = "finish" => Published(operation[o].target, table))
  BY DEF RecoveredStatus
<1> HIDE DEF status
<1>4. row \in Operation /\ row.status = status /\ row.target = operation[o].target
      /\ operation[o].target \in Target \cup {NoTarget}
  BY <1>2, <1>3 DEF Operation, OperationStatuses
<1>5. status = "finish" => operation[o].target \in published
  BY <1>3, <1>4, FoundIsPublished
<1>6. QED
  BY <1>1, <1>3, <1>4, <1>5, NoOperationAssumption

LEMMA StartupOwn ==
  ASSUME TaskInv, OwnInv, Startup
  PROVE  OwnInv'
<1>1. UNCHANGED <<table, task, late, committed, published>> /\ RecoverInterrupted(table)
  BY DEF Startup, history
<1>2. \A o \in Operations :
        \/ operation'[o] = operation[o]
        \/ /\ InProgress(o) /\ operation'[o] # NoOperation
           /\ operation'[o].status \in {"finish", "failed"}
           /\ operation'[o].status = "finish" => operation'[o].target \in published
  BY <1>1, RecoveredRows
<1>3. OwnOperation' /\ TableIsPublished'
  BY <1>1 DEF OwnInv, OwnOperation, TableIsPublished, Live
<1>4. ASSUME NEW w, Known(w, operation[w.operation], published)
      PROVE  Known(w, operation'[w.operation], published)
  <2>1. CASE w.operation \in Operations
    BY <1>2, <1>4, <2>1, KnownStays
  <2>2. CASE w.operation \notin Operations
    BY <1>4, <2>2 DEF Known
  <2>3. QED
    BY <2>1, <2>2
<1>5. TasksKnow' /\ LateKnow'
  BY <1>1, <1>4 DEF OwnInv, TasksKnow, LateKnow, Live
<1>6. CommittedKnown'
  <2>1. committed \subseteq Operations
    BY DEF TaskInv, TypeOK
  <2>2. QED
    BY <1>1, <1>2, <2>1 DEF OwnInv, CommittedKnown, Submitted, InProgress, Live
<1>7. FinishedIsPublished'
  BY <1>1, <1>2 DEF OwnInv, FinishedIsPublished, HasStatus, Submitted
<1>8. QED
  BY <1>3, <1>5, <1>6, <1>7 DEF OwnInv

LEMMA ServiceOwn ==
  ASSUME TaskInv, OwnInv,
         \/ \E q \in Requirements : Change(q)
         \/ Shutdown \/ Exit \/ Crash \/ UNCHANGED vars
  PROVE  OwnInv'
<1>1. /\ UNCHANGED <<operation, table, committed, published>>
      /\ UNCHANGED <<task, late>> \/ (task' = [t \in Tasks |-> NoTask] /\ late' = {})
  BY DEF Change, EditRequirement, UpdateContent, RebaseRequirement, RebaseRoute,
         LinkRequirement, Create, Shutdown, Exit, Crash, vars, store, history
<1>2. QED
  BY <1>1, TablePublishedStays, QuietOwn

LEMMA NextOwn ==
  ASSUME TaskInv, OwnInv, [NextTask]_vars
  PROVE  OwnInv'
<1>1. TaskInv'
  BY TaskNextKeeps
<1>2. QED
  BY <1>1, RequestOwn, WorkOwn, LateOwn, PutRouteOwn, StartupOwn, ServiceOwn DEF NextTask

LEMMA OwnInvariant == TaskSpec => []OwnInv
<1>1. Init => OwnInv
  <2> SUFFICES ASSUME Init PROVE OwnInv
    OBVIOUS
  <2>1. OwnOperation /\ TasksKnow /\ LateKnow /\ CommittedKnown
    BY DEF Init, OwnOperation, TasksKnow, LateKnow, CommittedKnown, Live
  <2>2. FinishedIsPublished /\ TableIsPublished
    BY DEF Init, StoreInit, FinishedIsPublished, TableIsPublished, HasStatus, Submitted
  <2>3. QED
    BY <2>1, <2>2 DEF OwnInv
<1>2. QED
  BY <1>1, TaskInvariant, NextOwn, PTL DEF TaskSpec

\* As long as an operation is reported in progress, its row holds what was published for it.
THEOREM CommittedHaveReceipts == TaskSpec => []CommittedHasReceipt
<1>1. OwnInv => CommittedHasReceipt
  BY DEF OwnInv, CommittedKnown, CommittedHasReceipt
<1>2. QED
  BY <1>1, OwnInvariant, PTL

-----------------------------------------------------------------------------
(* What is reported active was published.                                  *)

WasPublished(link, done) == \E target \in done : LinkOf(target) = link

ActiveWasPublished ==
  \A q \in Requirements :
    Exists(q) /\ requirement[q].status = "active" => WasPublished(requirement[q].link, published)

\* A step that makes no requirement active but for what is published.
Honest ==
  \A q \in Requirements :
    \/ requirement'[q] = requirement[q]
    \/ requirement'[q].status # "active"
    \/ WasPublished(requirement'[q].link, published')

LEMMA HonestKeeps ==
  ASSUME ActiveWasPublished, Honest, published \subseteq published'
  PROVE  ActiveWasPublished'
BY DEF ActiveWasPublished, Honest, WasPublished, Exists

LEMMA SaveIsHonest ==
  ASSUME RequirementInv, NEW q \in Requirements, NEW row, Save(q, row),
         row.status # "active" \/ WasPublished(row.link, published')
  PROVE  Honest
BY DEF Honest, Save, RequirementInv

\* The methods of the store that leave what they change a draft, claimed or failed.
LEMMA InactiveIsHonest ==
  ASSUME StoreInv, NEW q \in Requirements,
         \/ \E path, link : Create(q, path, link)
         \/ \E link \in Link \cup {NoLink} : Edited(q, link) \/ RebaseRoute(q, link)
         \/ Claim(q)
         \/ \E target \in Target : PreparePublication(q, target)
         \/ FailImplementation(q)
  PROVE  Honest
<1>1. ASSUME NEW path, NEW link, Create(q, path, link)
      PROVE  Honest
  BY <1>1, SaveIsHonest DEF StoreInv, Create
<1>2. ASSUME NEW link \in Link \cup {NoLink}, Edited(q, link) \/ RebaseRoute(q, link)
      PROVE  Honest
  <2>1. Exists(q) /\ "draft" \in RequirementStatuses
    BY <1>2 DEF Edited, RebaseRoute, RequirementStatuses
  <2>2. [Cleared(requirement[q], "draft") EXCEPT !.link = link].status = "draft"
    BY <2>1, ClearedProper DEF StoreInv
  <2>3. Save(q, [Cleared(requirement[q], "draft") EXCEPT !.link = link])
    BY <1>2 DEF Edited, RebaseRoute
  <2>4. QED
    BY <2>2, <2>3, SaveIsHonest DEF StoreInv
<1>3. CASE Claim(q) \/ FailImplementation(q)
  <2>1. PICK status \in {"implementing", "failed"} : Save(q, Cleared(requirement[q], status))
    BY <1>3 DEF Claim, FailImplementation, Failed
  <2>2. Exists(q) /\ status \in RequirementStatuses /\ NoLink \in Link \cup {NoLink}
    BY <1>3 DEF Claim, Claimable, FailImplementation, Implementing, RequirementStatuses
  <2>3. Cleared(requirement[q], status).status = status
    BY <2>2, ClearedProper DEF StoreInv
  <2>4. QED
    BY <2>1, <2>3, SaveIsHonest DEF StoreInv
<1>4. ASSUME NEW target \in Target, PreparePublication(q, target)
      PROVE  Honest
  <2>1. Exists(q) /\ requirement[q].status = "implementing"
        /\ Save(q, [requirement[q] EXCEPT !.target = target])
    BY <1>4 DEF PreparePublication, ReceiptAgrees, Implementing
  <2>2. [requirement[q] EXCEPT !.target = target].status = "implementing"
    BY <2>1, RowType DEF StoreInv, Proper, Requirement
  <2>3. QED
    BY <2>1, <2>2, SaveIsHonest DEF StoreInv
<1>5. QED
  BY <1>1, <1>2, <1>3, <1>4

LEMMA ActivatedIs ==
  ASSUME StoreInv, NEW q \in Requirements, Exists(q), NEW target \in Target
  PROVE  Activated(requirement[q], LinkOf(target)).link = LinkOf(target)
<1>1. Cleared(requirement[q], "active") \in Requirement
  BY RowType DEF StoreInv, Proper, Cleared, Requirement, RequirementStatuses
<1>2. QED
  BY <1>1 DEF Activated, Requirement

LEMMA CompletionIsHonest ==
  ASSUME StoreInv, NEW q \in Requirements, NEW target \in Target, target \in published',
         CompleteImplementation(q, target)
  PROVE  Honest
<1>1. CASE UNCHANGED requirement
  BY <1>1 DEF Honest
<1>2. CASE Completable(q, target) /\ Save(q, Activated(requirement[q], LinkOf(target)))
  <2>1. Activated(requirement[q], LinkOf(target)).link = LinkOf(target)
    BY <1>2, ActivatedIs DEF Completable, Implementing
  <2>2. WasPublished(LinkOf(target), published')
    BY DEF WasPublished, LinkOf
  <2>3. QED
    BY <1>2, <2>1, <2>2, SaveIsHonest DEF StoreInv
<1>3. QED
  BY <1>1, <1>2 DEF CompleteImplementation

LEMMA MoveIsHonest ==
  ASSUME StoreInv, NEW target \in Target, target \in published', NEW route, NEW exclude,
         MoveRouteLinks(route, LinkOf(target), exclude)
  PROVE  Honest
<1> SUFFICES ASSUME NEW q \in Requirements, requirement'[q] # requirement[q]
             PROVE  WasPublished(requirement'[q].link, published')
  BY DEF Honest
<1> DEFINE link == LinkOf(target)
<1>1. /\ Exists(q)
      /\ requirement'[q] = [requirement[q] EXCEPT !.link = link, !.path = link.route,
                                                 !.target = NoTarget]
  BY DEF MoveRouteLinks, LinkedTo
<1>2. requirement[q] \in Requirement
  BY <1>1, RowType DEF StoreInv, Proper
<1>3. requirement'[q].link = link
  BY <1>1, <1>2 DEF Requirement
<1>4. QED
  BY <1>3 DEF WasPublished, LinkOf

\* What reconciliation and startup find published.
LEMMA FoundIsHonest ==
  ASSUME TaskInv, OwnInv, NEW q \in Requirements, Exists(q),
         Published(requirement[q].target, table), published' = published
  PROVE  WasPublished(Activated(requirement[q], LinkOf(requirement[q].target)).link, published')
<1> DEFINE target == requirement[q].target
<1>1. target \in Target \cup {NoTarget} /\ target # NoTarget
  BY RowType DEF TaskInv, StoreInv, Proper, Requirement, Published
<1>2. target \in published
  BY <1>1, FoundIsPublished
<1>3. Activated(requirement[q], LinkOf(target)).link = LinkOf(target)
  BY <1>1, ActivatedIs DEF TaskInv
<1> HIDE DEF target
<1>4. WasPublished(LinkOf(target), published')
  BY <1>2 DEF WasPublished, LinkOf
<1>5. QED
  BY <1>3, <1>4 DEF target

LEMMA RecoveryIsHonest ==
  ASSUME TaskInv, OwnInv, Startup
  PROVE  Honest
<1>1. published' = published /\ RecoverInterrupted(table)
  BY DEF Startup, history
<1> SUFFICES ASSUME NEW q \in Requirements, requirement'[q] # requirement[q]
             PROVE  \/ requirement'[q].status # "active"
                    \/ WasPublished(requirement'[q].link, published')
  BY DEF Honest
<1>2. /\ Exists(q)
      /\ requirement'[q] = IF Published(requirement[q].target, table)
                             THEN Activated(requirement[q], LinkOf(requirement[q].target))
                             ELSE Failed(requirement[q])
  BY <1>1 DEF RecoverInterrupted, Implementing
<1>3. CASE Published(requirement[q].target, table)
  BY <1>1, <1>2, <1>3, FoundIsHonest
<1>4. CASE ~Published(requirement[q].target, table)
  <2>1. "failed" \in RequirementStatuses /\ NoLink \in Link \cup {NoLink}
    BY DEF RequirementStatuses
  <2>2. Failed(requirement[q]).status = "failed"
    BY <1>2, <2>1, ClearedProper DEF TaskInv, StoreInv, Failed
  <2>3. QED
    BY <1>2, <1>4, <2>2
<1>5. QED
  BY <1>3, <1>4

LEMMA CallIsHonest ==
  ASSUME TaskInv, OwnInv, NEW t \in Tasks, CommittedCall(t), published' = published
  PROVE  Honest
<1> DEFINE q == task[t].requirement
           target == task[t].target
<1>1. Live(t) /\ StoreInv
  BY DEF CommittedCall, Is, Live, TaskInv
<1>2. q \in Requirements /\ Shaped(task[t]) /\ task[t].base \in Link \cup {NoLink}
  BY <1>1, TaskType
<1>3. CASE Is(t, "published") /\ CompleteImplementation(q, target)
  <2>1. target \in Target /\ target \in published
    BY <1>1, <1>2, <1>3, AtIs DEF Shaped, OwnInv, TasksKnow, Known
  <2>2. QED
    BY <1>1, <1>2, <1>3, <2>1, CompletionIsHonest
<1>4. CASE Is(t, "scheduled") /\ ClaimRow(t)
  <2>1. PICK p \in Requirements : Claim(p)
    <3>1. CASE BeginImplementation(q)
      BY <1>2, <3>1 DEF BeginImplementation
    <3>2. CASE BeginOperation(task[t].operation)
      <4>1. task[t].operation \in Operations \cup {NoOperation}
        BY <1>1, TaskType
      <4>2. CASE task[t].operation \in Operations
        <5>1. operation[task[t].operation].requirement \in Requirements
          BY <3>2, <4>2, OperationType DEF BeginOperation, HasStatus
        <5>2. QED
          BY <3>2, <5>1 DEF BeginOperation
      <4>3. CASE task[t].operation = NoOperation
        BY <1>2, <1>4, <4>3 DEF ClaimRow, BeginImplementation
      <4>4. QED
        BY <4>1, <4>2, <4>3
    <3>3. QED
      BY <1>4, <3>1, <3>2 DEF ClaimRow
  <2>2. QED
    BY <1>1, <2>1, InactiveIsHonest
<1>5. CASE Is(t, "generated") /\ PreparePublication(q, target)
  <2>1. target \in Target
    BY <1>2, <1>5, AtIs DEF Shaped
  <2>2. QED
    BY <1>1, <1>2, <1>5, <2>1, InactiveIsHonest
<1>6. CASE ReviseAndCreateOperation(task[t].operation, q, task[t].kind, task[t].base)
  BY <1>1, <1>2, <1>6, InactiveIsHonest DEF ReviseAndCreateOperation
<1>7. CASE UNCHANGED requirement
  BY <1>7 DEF Honest
<1>8. QED
  BY <1>3, <1>4, <1>5, <1>6, <1>7
     DEF CommittedCall, CreateOperation, PrepareOperationPublication, CompleteOperation

LEMMA WorkIsHonest ==
  ASSUME TaskInv, OwnInv, NEW t \in Tasks, Work(t) \/ Cancel(t)
  PROVE  Honest
<1>1. CASE CommittedCall(t) /\ published' = published
  BY <1>1, CallIsHonest
<1>2. CASE UNCHANGED store
  BY <1>2 DEF Honest, store
<1>3. CASE MoveLinks(t)
  <2>1. Live(t) /\ task[t].pc = "moved" /\ published' = published
    BY <1>3, AtIs DEF MoveLinks, history
  <2>2. task[t].target \in Target /\ task[t].target \in published
    BY <2>1, TaskType DEF Shaped, OwnInv, TasksKnow, Known
  <2>3. QED
    BY <1>3, <2>1, <2>2, MoveIsHonest DEF MoveLinks, TaskInv
<1>4. CASE FailRequirement(t) /\ ~UNCHANGED store
  <2>1. Live(t) /\ FailImplementation(task[t].requirement)
    BY <1>4 DEF FailRequirement, Failing, At, Is, Live
  <2>2. QED
    BY <2>1, TaskType, InactiveIsHonest DEF TaskInv
<1>5. CASE FailTask(t)
  BY <1>5 DEF FailTask, FailOperation, Honest, store
<1>6. CASE Accept(t) \/ Revise(t) \/ ClaimWork(t) \/ Note(t) \/ NoteOperation(t)
             \/ Finalize(t) \/ Finish(t) \/ AnswerLost(t)
  <2>1. CommittedCall(t) /\ published' = published
    BY <1>6, StepsCall DEF Accept, Revise, ClaimWork, Note, NoteOperation, Finalize, Finish,
                           AnswerLost, history
  <2>2. QED
    BY <2>1, CallIsHonest
<1>7. CASE Cancel(t)
  <2>1. published' = published /\ (CommittedCall(t) \/ UNCHANGED store)
    BY <1>7 DEF Cancel, history
  <2>2. QED
    BY <1>1, <1>2, <2>1
<1>8. QED
  BY <1>2, <1>3, <1>4, <1>5, <1>6, <1>7
     DEF Work, Generate, Publish, CommitRoute, Raise, ActivatedButRaised

LEMMA RequestIsHonest ==
  ASSUME TaskInv, OwnInv, NEW t \in Tasks, Request(t)
  PROVE  Honest
<1>1. PICK q \in Requirements, o \in Operations, path \in Routes :
    \/ RequestCreate(t, q, o, path)
    \/ \E route \in Routes : RequestMove(t, q, o, route, path)
    \/ RequestRevise(t, q, o)
    \/ \E failed \in Operations : RequestRetry(t, failed, o)
    \/ RequestImplement(t, q)
  BY DEF Request
<1>2. CASE RequestCreate(t, q, o, path) \/ \E route \in Routes : RequestMove(t, q, o, route, path)
  BY <1>2, InactiveIsHonest DEF RequestCreate, RequestMove, TaskInv
<1>3. CASE UNCHANGED requirement
  BY <1>3 DEF Honest
<1>4. CASE ReconcilePublication(q, table) /\ UNCHANGED history
  <2>1. /\ Exists(q) /\ Published(requirement[q].target, table) /\ published' = published
        /\ Save(q, Activated(requirement[q], LinkOf(requirement[q].target)))
    BY <1>4 DEF ReconcilePublication, Implementing, history
  <2>2. QED
    BY <2>1, FoundIsHonest, SaveIsHonest DEF TaskInv, StoreInv
<1>5. QED
  BY <1>1, <1>2, <1>3, <1>4 DEF RequestRevise, RequestRetry, RequestImplement, store

LEMMA ChangeIsHonest ==
  ASSUME TaskInv, NEW q \in Requirements, Change(q)
  PROVE  Honest
<1>1. CASE EditRequirement(q)
  <2>1. Exists(q) /\ Edited(q, requirement[q].link)
    BY <1>1 DEF EditRequirement, UpdateContent, Edited
  <2>2. requirement[q].link \in Link \cup {NoLink}
    BY <2>1, RowType DEF TaskInv, StoreInv, Proper, Requirement
  <2>3. QED
    BY <2>1, <2>2, InactiveIsHonest DEF TaskInv
<1>2. CASE RebaseRequirement(q)
  <2>1. requirement[q].path \in Routes
    BY <1>2, RowType DEF RebaseRequirement, Proper, Requirement, TaskInv, StoreInv
  <2>2. Linked(requirement[q].path) \in Link
    BY <1>2, <2>1, LinkedType DEF RebaseRequirement
  <2>3. QED
    BY <1>2, <2>2, InactiveIsHonest DEF RebaseRequirement, TaskInv
<1>3. ASSUME NEW path \in Routes, LinkRequirement(q, path)
      PROVE  Honest
  BY <1>3, InactiveIsHonest DEF LinkRequirement, TaskInv
<1>4. QED
  BY <1>1, <1>2, <1>3 DEF Change

LEMMA PublishedGrows ==
  ASSUME [NextTask]_vars
  PROVE  published \subseteq published'
<1>1. ASSUME NEW t \in Tasks, Request(t)
      PROVE  published' = published
  BY <1>1 DEF Request, RequestCreate, RequestMove, RequestRevise, RequestRetry,
              RequestImplement, Start, history
<1>2. ASSUME NEW t \in Tasks, Work(t)
      PROVE  published \subseteq published'
  <2>1. CASE Publish(t) \/ ActivatedButRaised(t)
    BY <2>1 DEF Publish, ActivatedButRaised, CommitRoute
  <2>2. CASE ~(Publish(t) \/ ActivatedButRaised(t))
    BY <1>2, <2>2 DEF Work, Accept, Revise, ClaimWork, Generate, Note, NoteOperation, MoveLinks,
                      Finalize, Finish, Raise, AnswerLost, FailRequirement, FailTask, history
  <2>3. QED
    BY <2>1, <2>2
<1>3. CASE Late
  BY <1>3 DEF Late, LateCommit, CommitRoute, LateMoveLinks, history
<1>4. CASE \/ \E q \in Requirements : Change(q)
           \/ \E t \in Tasks : Cancel(t)
           \/ Shutdown \/ Exit \/ Crash \/ Startup \/ UNCHANGED vars
  BY <1>4 DEF Change, Cancel, Shutdown, Exit, Crash, Startup, vars, history
<1>5. ASSUME NEW route \in Routes, NEW digest \in Digests, PutRoute(route, digest)
      PROVE  published \subseteq published'
  BY <1>5 DEF PutRoute
<1>6. QED
  BY <1>1, <1>2, <1>3, <1>4, <1>5 DEF NextTask

LEMMA NextKeepsActive ==
  ASSUME TaskInv, OwnInv, ActiveWasPublished, [NextTask]_vars
  PROVE  ActiveWasPublished'
<1> SUFFICES Honest
  BY PublishedGrows, HonestKeeps
<1>1. ASSUME NEW w \in late, LateMoveLinks(w)
      PROVE  Honest
  <2>1. w.pc = "moved" /\ w.target \in Target /\ w.target \in published
    BY <1>1 DEF LateMoveLinks, TaskInv, LateAreShaped, Shaped, OwnInv, LateKnow, Known
  <2>2. QED
    BY <1>1, <2>1, MoveIsHonest DEF LateMoveLinks, TaskInv, history
<1>2. CASE UNCHANGED requirement
  BY <1>2 DEF Honest
<1>3. CASE Late
  <2>1. ASSUME NEW w \in late, LateCommit(w)
        PROVE  UNCHANGED requirement
    BY <2>1 DEF LateCommit, CommitRoute, store
  <2>2. QED
    BY <1>1, <1>2, <1>3, <2>1 DEF Late, store
<1>4. ASSUME NEW route \in Routes, NEW digest \in Digests, PutRoute(route, digest)
      PROVE  Honest
  BY <1>2, <1>4 DEF PutRoute, store
<1>5. CASE Shutdown \/ Exit \/ Crash \/ UNCHANGED vars
  BY <1>2, <1>5 DEF Shutdown, Exit, Crash, vars, store
<1>6. QED
  BY <1>3, <1>4, <1>5, RequestIsHonest, WorkIsHonest, ChangeIsHonest, RecoveryIsHonest
     DEF NextTask

\* finish and active are reported only for what was published, at exactly that route,
\* version and digest, after whatever crashes, cancellations and lost answers.
THEOREM ReportsAreTrue == TaskSpec => []FinishIsPublished
<1>1. Init => ActiveWasPublished
  BY DEF Init, StoreInit, ActiveWasPublished, Exists
<1>2. TaskSpec => []ActiveWasPublished
  BY <1>1, TaskInvariant, OwnInvariant, NextKeepsActive, PTL DEF TaskSpec
<1>3. OwnInv /\ ActiveWasPublished => FinishIsPublished
  BY DEF OwnInv, FinishedIsPublished, ActiveWasPublished, WasPublished, FinishIsPublished
<1>4. QED
  BY <1>2, <1>3, OwnInvariant, PTL
=============================================================================
