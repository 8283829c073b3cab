--------------------- MODULE ImplementationInPlaceProofs ---------------------
(***************************************************************************)
(* Theorems about ImplementationTask that need requests or faults to be    *)
(* absent, and name them.  When no route moves, what is served is not      *)
(* reported failed, and a task that fails ends its own claim.  When SQLite *)
(* answers, claims and operations are in the hands of tasks that report    *)
(* them, whatever moves.  The README says how each property fails without  *)
(* its hypotheses.                                                         *)
(***************************************************************************)
EXTENDS ImplementationTaskProofs

NoMoves == "move" \notin Requests

-----------------------------------------------------------------------------
(* Where no route moves, everything that belongs to a requirement is at    *)
(* the path of the requirement, which never changes.                       *)

\* Phases of a task that has no target yet.
Early == {"revising", "created", "scheduled", "claimed"}

RowPlaced(row) ==
  /\ row.link # NoLink => row.link.route = row.path
  /\ row.target # NoTarget => row.target.route = row.path

OperationPlaced(op, row) ==
  /\ op.kind # "move"
  /\ op.path = row.path
  /\ op.base # NoLink => op.base.route = op.path

\* The work w on the requirement row, for the operation op if it has one.
Placed(w, row, op) ==
  /\ row # NoRequirement /\ w.path = row.path
  /\ w.kind # "move" /\ ~w.moving
  /\ w.base # NoLink => w.base.route = w.path
  /\ w.target # NoTarget =>
       /\ w.target.route = w.path
       /\ w.target.version = IF w.base = NoLink THEN 1 ELSE w.base.version + 1
  /\ w.pc \in Early => w.target = NoTarget
  /\ w.operation \in Operations /\ w.pc \notin {"revising", "created"}
       => op # NoOperation /\ op.requirement = w.requirement

PlaceInv ==
  /\ \A q \in Requirements : Exists(q) => RowPlaced(requirement[q])
  /\ \A o \in Operations :
       Submitted(o) => OperationPlaced(operation[o], requirement[operation[o].requirement])
  /\ \A t \in Tasks :
       Live(t) => Placed(task[t], requirement[task[t].requirement], operation[task[t].operation])
  /\ \A w \in late :
       w.pc = "ready" /\ Placed(w, requirement[w.requirement], operation[w.operation])

RowKept(old, new) == old # NoRequirement => new # NoRequirement /\ new.path = old.path

OperationKept(old, new) ==
  old # NoOperation => /\ new # NoOperation
                       /\ new.requirement = old.requirement /\ new.kind = old.kind
                       /\ new.path = old.path /\ new.base = old.base

RowsStep ==
  \A q \in Requirements :
    /\ RowKept(requirement[q], requirement'[q])
    /\ requirement'[q] # requirement[q] => RowPlaced(requirement'[q])

OperationsStep ==
  \A o \in Operations :
    /\ OperationKept(operation[o], operation'[o])
    /\ operation[o] = NoOperation /\ operation'[o] # NoOperation
         => OperationPlaced(operation'[o], requirement'[operation'[o].requirement])

\* Rows and work that stay are where they were.
LEMMA PlacedStays ==
  ASSUME NEW w, NEW row, NEW op, NEW row2, NEW op2, Placed(w, row, op),
         RowKept(row, row2), w.operation \in Operations => OperationKept(op, op2)
  PROVE  Placed(w, row2, op2)
BY DEF Placed, RowKept, OperationKept

LEMMA PlaceKeeps ==
  ASSUME TaskInv, TaskInv', PlaceInv, RowsStep, OperationsStep,
         \A t \in Tasks :
           task'[t] # NoTask =>
             \/ task'[t] = task[t]
             \/ Placed(task'[t], requirement'[task'[t].requirement],
                       operation'[task'[t].operation]),
         \A w \in late' :
           \/ w \in late
           \/ w.pc = "ready" /\ \E t \in Tasks : Live(t) /\ w = task[t]
  PROVE  PlaceInv'
<1>1. ASSUME NEW q \in Requirements, requirement'[q] # NoRequirement
      PROVE  RowPlaced(requirement'[q])
  BY <1>1 DEF RowsStep, PlaceInv, Exists
<1>2. ASSUME NEW o \in Operations, operation'[o] # NoOperation
      PROVE  OperationPlaced(operation'[o], requirement'[operation'[o].requirement])
  <2>1. CASE operation[o] = NoOperation
    BY <1>2, <2>1 DEF OperationsStep
  <2>2. CASE operation[o] # NoOperation
    <3>1. /\ operation'[o].requirement = operation[o].requirement
          /\ operation'[o].kind = operation[o].kind /\ operation'[o].path = operation[o].path
          /\ operation'[o].base = operation[o].base
      BY <2>2 DEF OperationsStep, OperationKept
    <3>2. /\ operation[o].requirement \in Requirements
          /\ requirement[operation[o].requirement] # NoRequirement
          /\ OperationPlaced(operation[o], requirement[operation[o].requirement])
      BY <2>2, OperationType
         DEF TaskInv, OperationsRefer, Submitted, Exists, PlaceInv, StoreInv, OperationInv
    <3>3. requirement'[operation[o].requirement].path = requirement[operation[o].requirement].path
      BY <3>2 DEF RowsStep, RowKept
    <3>4. QED
      BY <3>1, <3>2, <3>3 DEF OperationPlaced
  <2>3. QED
    BY <2>1, <2>2
<1>3. ASSUME NEW w, w.requirement \in Requirements,
             Placed(w, requirement[w.requirement], operation[w.operation])
      PROVE  Placed(w, requirement'[w.requirement], operation'[w.operation])
  BY <1>3, PlacedStays DEF RowsStep, OperationsStep
<1>4. ASSUME NEW t \in Tasks, task'[t] # NoTask
      PROVE  Placed(task'[t], requirement'[task'[t].requirement], operation'[task'[t].operation])
  <2>1. CASE task'[t] = task[t]
    <3>1. Live(t) /\ task[t].requirement \in Requirements
      BY <1>4, <2>1, TaskType DEF Live
    <3>2. QED
      BY <1>3, <2>1, <3>1 DEF PlaceInv
  <2>2. QED
    BY <1>4, <2>1
<1>5. ASSUME NEW w \in late'
      PROVE  w.pc = "ready" /\ Placed(w, requirement'[w.requirement], operation'[w.operation])
  <2>1. w.requirement \in Requirements
    BY DEF TaskInv, TypeOK, Task
  <2>2. w.pc = "ready" /\ Placed(w, requirement[w.requirement], operation[w.operation])
    BY DEF PlaceInv
  <2>3. QED
    BY <1>3, <2>1, <2>2
<1>6. QED
  BY <1>1, <1>2, <1>4, <1>5 DEF PlaceInv, Exists, Submitted, Live

-----------------------------------------------------------------------------
(* The methods of the store, on rows.                                      *)

LEMMA SaveStep ==
  ASSUME StoreInv, NEW q \in Requirements, NEW row \in Requirement, Save(q, row),
         RowPlaced(row), Exists(q) => row.path = requirement[q].path
  PROVE  RowsStep
<1>1. row # NoRequirement
  BY NoRequirementAssumption
<1>2. \A p \in Requirements : requirement'[p] = IF p = q THEN row ELSE requirement[p]
  BY DEF Save, StoreInv, RequirementInv
<1>3. QED
  BY <1>1, <1>2 DEF RowsStep, RowKept, Exists

\* What the methods make of the row of an existing requirement.
LEMMA ClearedIs ==
  ASSUME StoreInv, NEW q \in Requirements, Exists(q), NEW status \in RequirementStatuses,
         NEW link \in Link \cup {NoLink}
  PROVE  /\ Cleared(requirement[q], status) \in Requirement
         /\ Cleared(requirement[q], status).path = requirement[q].path
         /\ Cleared(requirement[q], status).link = requirement[q].link
         /\ Cleared(requirement[q], status).status = status
         /\ Cleared(requirement[q], status).target = NoTarget
         /\ [Cleared(requirement[q], status) EXCEPT !.link = link] \in Requirement
         /\ [Cleared(requirement[q], status) EXCEPT !.link = link].path = requirement[q].path
         /\ [Cleared(requirement[q], status) EXCEPT !.link = link].link = link
         /\ [Cleared(requirement[q], status) EXCEPT !.link = link].status = status
         /\ [Cleared(requirement[q], status) EXCEPT !.link = link].target = NoTarget
<1>1. requirement[q] \in Requirement
  BY RowType DEF StoreInv, Proper
<1> DEFINE row == [requirement[q] EXCEPT !.status = status, !.target = NoTarget]
<1>2. /\ row \in Requirement /\ row.path = requirement[q].path
      /\ row.link = requirement[q].link /\ row.status = status /\ row.target = NoTarget
  BY <1>1 DEF Requirement
<1>3. Cleared(requirement[q], status) = row
  BY DEF Cleared
<1> HIDE DEF row
<1>4. /\ [row EXCEPT !.link = link] \in Requirement
      /\ [row EXCEPT !.link = link].path = row.path
      /\ [row EXCEPT !.link = link].link = link
      /\ [row EXCEPT !.link = link].status = row.status
      /\ [row EXCEPT !.link = link].target = row.target
  BY <1>2 DEF Requirement
<1>5. QED
  BY <1>2, <1>3, <1>4

LEMMA ClearedRow ==
  ASSUME StoreInv, NEW q \in Requirements, Exists(q), NEW status \in RequirementStatuses
  PROVE  /\ Cleared(requirement[q], status) \in Requirement
         /\ Cleared(requirement[q], status).path = requirement[q].path
         /\ Cleared(requirement[q], status).link = requirement[q].link
         /\ Cleared(requirement[q], status).status = status
         /\ Cleared(requirement[q], status).target = NoTarget
<1>1. NoLink \in Link \cup {NoLink}
  OBVIOUS
<1>2. QED
  BY <1>1, ClearedIs

LEMMA CreateStep ==
  ASSUME StoreInv, NEW q \in Requirements, NEW path \in Routes, NEW link \in Link \cup {NoLink},
         link # NoLink => link.route = path, Create(q, path, link)
  PROVE  RowsStep /\ requirement'[q].path = path /\ requirement'[q] # NoRequirement
<1> DEFINE row == [status |-> "draft", path |-> path, link |-> link, target |-> NoTarget]
<1>1. row \in Requirement /\ RowPlaced(row) /\ row.path = path
  BY DEF Requirement, RequirementStatuses, RowPlaced
<1>2. Save(q, row) /\ ~Exists(q)
  BY DEF Create
<1>3. requirement'[q] = row
  BY <1>2 DEF Save, StoreInv, RequirementInv
<1>4. QED
  BY <1>1, <1>2, <1>3, SaveStep, NoRequirementAssumption

\* Edited and RebaseRoute give the requirement another link, or the same.
LEMMA EditedStep ==
  ASSUME StoreInv, PlaceInv, NEW q \in Requirements, NEW link \in Link \cup {NoLink},
         link # NoLink => link.route = requirement[q].path,
         Edited(q, link) \/ RebaseRoute(q, link)
  PROVE  RowsStep
<1>1. Exists(q) /\ "draft" \in RequirementStatuses
  BY DEF Edited, RebaseRoute, RequirementStatuses
<1> DEFINE row == [Cleared(requirement[q], "draft") EXCEPT !.link = link]
<1>2. row \in Requirement /\ RowPlaced(row) /\ row.path = requirement[q].path
  BY <1>1, ClearedIs DEF RowPlaced
<1>3. Save(q, row)
  BY DEF Edited, RebaseRoute
<1>4. QED
  BY <1>2, <1>3, SaveStep

\* Claims, and their ends without a publication.
LEMMA ClearedStep ==
  ASSUME StoreInv, PlaceInv, NEW q \in Requirements, Exists(q),
         NEW status \in RequirementStatuses, Save(q, Cleared(requirement[q], status))
  PROVE  RowsStep
<1>1. NoLink \in Link \cup {NoLink}
  OBVIOUS
<1> DEFINE row == Cleared(requirement[q], status)
<1>2. row \in Requirement /\ row.path = requirement[q].path
      /\ row.link = requirement[q].link /\ row.target = NoTarget
  BY <1>1, ClearedIs
<1>3. RowPlaced(row)
  BY <1>2 DEF RowPlaced, PlaceInv
<1>4. QED
  BY <1>2, <1>3, SaveStep

\* What is published for a requirement is at its path.
LEMMA ActivatedStep ==
  ASSUME StoreInv, NEW q \in Requirements, Exists(q), NEW target \in Target,
         target.route = requirement[q].path,
         Save(q, Activated(requirement[q], LinkOf(target)))
  PROVE  RowsStep
<1> DEFINE row == Activated(requirement[q], LinkOf(target))
<1>1. LinkOf(target) \in Link /\ LinkOf(target).route = requirement[q].path
  BY LinkOfType DEF LinkOf
<1>2. "active" \in RequirementStatuses
  BY DEF RequirementStatuses
<1>3. row \in Requirement /\ RowPlaced(row) /\ row.path = requirement[q].path
  BY <1>1, <1>2, ClearedIs DEF Activated, RowPlaced
<1>4. QED
  BY <1>3, SaveStep

LEMMA NotedStep ==
  ASSUME StoreInv, PlaceInv, NEW q \in Requirements, NEW target \in Target,
         target.route = requirement[q].path, PreparePublication(q, target)
  PROVE  RowsStep
<1> DEFINE row == [requirement[q] EXCEPT !.target = target]
<1>1. Exists(q) /\ Save(q, row)
  BY DEF PreparePublication, ReceiptAgrees, Implementing
<1>2. requirement[q] \in Requirement /\ RowPlaced(requirement[q])
  BY <1>1, RowType DEF StoreInv, Proper, PlaceInv
<1>3. row \in Requirement /\ row.path = requirement[q].path /\ row.link = requirement[q].link
      /\ row.target = target
  BY <1>2 DEF Requirement
<1>4. RowPlaced(row)
  BY <1>2, <1>3 DEF RowPlaced
<1>5. QED
  BY <1>1, <1>3, <1>4, SaveStep

\* No method changes what an operation was submitted with.
LEMMA OperationStays ==
  ASSUME StoreInv, [Next]_store, NEW o \in Operations
  PROVE  OperationKept(operation[o], operation'[o])
<1>1. operation \in [Operations -> Operation \cup {NoOperation}]
  BY DEF StoreInv, OperationInv
<1>2. ASSUME NEW row \in Operation, row.requirement = operation[o].requirement,
             row.kind = operation[o].kind, row.path = operation[o].path,
             row.base = operation[o].base, operation'[o] = row
      PROVE  OperationKept(operation[o], operation'[o])
  BY <1>2, NoOperationAssumption DEF OperationKept
<1>3. CASE operation'[o] = operation[o]
  BY <1>3 DEF OperationKept
<1>4. ASSUME NEW p \in Operations, NEW row \in Operation, SetOperation(p, row),
             row.requirement = operation[p].requirement, row.kind = operation[p].kind,
             row.path = operation[p].path, row.base = operation[p].base
      PROVE  OperationKept(operation[o], operation'[o])
  <2>1. operation'[o] = IF o = p THEN row ELSE operation[o]
    BY <1>1, <1>4 DEF SetOperation
  <2>2. QED
    BY <1>2, <1>3, <1>4, <2>1
<1>5. ASSUME NEW p \in Operations, ClientOperation(p)
      PROVE  OperationKept(operation[o], operation'[o])
  <2>1. CASE HasStatus(p, "implementing") \/ HasStatus(p, "accepted")
    <3>1. operation[p] \in Operation
      BY <1>1, <2>1 DEF HasStatus, Submitted
    <3>2. ASSUME NEW status \in OperationStatuses, NEW target \in Target \cup {NoTarget},
                 SetOperation(p, [operation[p] EXCEPT !.status = status, !.target = target])
          PROVE  OperationKept(operation[o], operation'[o])
      <4> DEFINE row == [operation[p] EXCEPT !.status = status, !.target = target]
      <4>1. row \in Operation /\ row.requirement = operation[p].requirement
            /\ row.kind = operation[p].kind /\ row.path = operation[p].path
            /\ row.base = operation[p].base
        BY <3>1 DEF Operation
      <4>2. SetOperation(p, row)
        BY <3>2
      <4> HIDE DEF row
      <4>3. QED
        BY <1>4, <4>1, <4>2
    <3>3. /\ "implementing" \in OperationStatuses /\ "finish" \in OperationStatuses
          /\ "failed" \in OperationStatuses
          /\ operation[p].target \in Target \cup {NoTarget}
          /\ operation[p].status \in OperationStatuses
      BY <3>1 DEF Operation, OperationStatuses
    <3>4. \A status, target :
            [operation[p] EXCEPT !.status = status]
              = [operation[p] EXCEPT !.status = status, !.target = operation[p].target]
      BY <3>1 DEF Operation
    <3>5. \A target : [operation[p] EXCEPT !.target = target]
                        = [operation[p] EXCEPT !.status = operation[p].status, !.target = target]
      BY <3>1 DEF Operation
    <3>6. CASE BeginOperation(p)
      BY <3>2, <3>3, <3>4, <3>6 DEF BeginOperation
    <3>7. CASE FailOperation(p)
      BY <3>2, <3>3, <3>4, <3>7 DEF FailOperation
    <3>8. ASSUME NEW target \in Target, PrepareOperationPublication(p, target)
          PROVE  OperationKept(operation[o], operation'[o])
      <4>1. SetOperation(p, [operation[p] EXCEPT !.status = operation[p].status,
                                                 !.target = target])
        BY <3>5, <3>8 DEF PrepareOperationPublication
      <4>2. QED
        BY <3>2, <3>3, <4>1
    <3>9. ASSUME NEW link \in Link, CompleteOperation(p, link)
          PROVE  OperationKept(operation[o], operation'[o])
      <4> DEFINE target == [operation[p].target EXCEPT !.route = link.route,
                                                       !.version = link.version]
      <4>1. CASE UNCHANGED operation
        BY <1>3, <4>1
      <4>2. CASE /\ operation[p].target # NoTarget
                 /\ SetOperation(p, [operation[p] EXCEPT !.status = "finish",
                      !.target.route = link.route, !.target.version = link.version])
        <5>1. target \in Target
          BY <3>3, <4>2 DEF Target, Link
        <5>2. [operation[p] EXCEPT !.status = "finish",
                 !.target.route = link.route, !.target.version = link.version]
                = [operation[p] EXCEPT !.status = "finish", !.target = target]
          BY <3>1, <3>3, <4>2 DEF Operation, Target
        <5> HIDE DEF target
        <5>3. QED
          BY <3>2, <3>3, <4>2, <5>1, <5>2
      <4>3. QED
        BY <3>9, <4>1, <4>2 DEF CompleteOperation
    <3>10. ASSUME NEW q, NEW kind, NEW path, NEW base, Insert(p, q, kind, path, base)
           PROVE  FALSE
      BY <2>1, <3>10 DEF Insert, HasStatus
    <3>11. QED
      BY <1>5, <3>6, <3>7, <3>8, <3>9, <3>10
         DEF ClientOperation, CreateOperation, ReviseAndCreateOperation
  <2>2. CASE ~HasStatus(p, "implementing") /\ ~HasStatus(p, "accepted")
    <3>1. ASSUME NEW q, NEW kind, NEW path, NEW base, Insert(p, q, kind, path, base)
          PROVE  OperationKept(operation[o], operation'[o])
      BY <1>1, <1>3, <3>1 DEF Insert, Submitted, OperationKept
    <3>2. CASE UNCHANGED operation
      BY <1>3, <3>2
    <3>3. QED
      BY <1>5, <2>2, <3>1, <3>2
         DEF ClientOperation, CreateOperation, ReviseAndCreateOperation, BeginOperation,
             FailOperation, Failable, InProgress, HasStatus, PrepareOperationPublication,
             CompleteOperation
  <2>3. QED
    BY <2>1, <2>2
<1>6. ASSUME NEW active, RecoverInterrupted(active)
      PROVE  OperationKept(operation[o], operation'[o])
  <2>1. CASE InProgress(o)
    <3> DEFINE row == [operation[o] EXCEPT !.status = RecoveredStatus(o, active)]
    <3>1. operation[o] \in Operation /\ RecoveredStatus(o, active) \in OperationStatuses
      BY <1>1, <2>1 DEF InProgress, Submitted, RecoveredStatus, OperationStatuses
    <3>2. row \in Operation /\ row.requirement = operation[o].requirement
          /\ row.kind = operation[o].kind /\ row.path = operation[o].path
          /\ row.base = operation[o].base
      BY <3>1 DEF Operation
    <3>3. operation'[o] = row
      BY <1>6, <2>1 DEF RecoverInterrupted
    <3> HIDE DEF row
    <3>4. QED
      BY <1>2, <3>2, <3>3
  <2>2. CASE ~InProgress(o)
    BY <1>3, <1>6, <2>2 DEF RecoverInterrupted
  <2>3. QED
    BY <2>1, <2>2
<1>7. ASSUME NEW q \in Requirements, ClientRequirement(q)
      PROVE  UNCHANGED operation
  BY <1>7 DEF ClientRequirement, Create, UpdateContent, BeginImplementation,
     FailImplementation, PreparePublication, CompleteImplementation, RebaseRoute
<1>8. QED
  BY <1>3, <1>5, <1>6, <1>7 DEF Next, MoveRouteLinks, ReconcilePublication, store

-----------------------------------------------------------------------------
(* The calls of a task.                                                    *)

LEMMA CallRowsStep ==
  ASSUME TaskInv, PlaceInv, NEW t \in Tasks, CommittedCall(t)
  PROVE  RowsStep
<1> DEFINE q == task[t].requirement
           o == task[t].operation
           target == task[t].target
<1>1. Live(t) /\ StoreInv
  BY DEF CommittedCall, Is, Live, TaskInv
<1>2. /\ q \in Requirements /\ Shaped(task[t]) /\ task[t].base \in Link \cup {NoLink}
      /\ Placed(task[t], requirement[q], operation[o])
  BY <1>1, TaskType DEF PlaceInv
<1>3. "implementing" \in RequirementStatuses
  BY DEF RequirementStatuses
<1>4. CASE Is(t, "revising") /\ ReviseAndCreateOperation(o, q, task[t].kind, task[t].base)
  <2>1. task[t].base # NoLink => task[t].base.route = requirement[q].path
    BY <1>2 DEF Placed
  <2>2. QED
    BY <1>1, <1>2, <1>4, <2>1, EditedStep DEF ReviseAndCreateOperation
<1>5. CASE Is(t, "scheduled") /\ ClaimRow(t)
  <2>1. ASSUME NEW p \in Requirements, Claim(p)
        PROVE  RowsStep
    BY <1>1, <1>3, <2>1, ClearedStep DEF Claim, Claimable
  <2>2. CASE o = NoOperation
    BY <1>2, <1>5, <2>1, <2>2 DEF ClaimRow, BeginImplementation
  <2>3. CASE o # NoOperation
    <3>1. o \in Operations /\ BeginOperation(o)
      BY <1>1, <1>5, <2>3, TaskType DEF ClaimRow
    <3>2. operation[o].requirement \in Requirements
      BY <3>1, OperationType DEF BeginOperation, HasStatus
    <3>3. QED
      BY <2>1, <3>1, <3>2 DEF BeginOperation
  <2>4. QED
    BY <2>2, <2>3
<1>6. CASE Is(t, "generated") /\ PreparePublication(q, target)
  <2>1. target \in Target /\ target # NoTarget
    BY <1>2, <1>6, AtIs, NoTargetAssumption DEF Shaped
  <2>2. target.route = requirement[q].path
    BY <1>2, <2>1 DEF Placed
  <2>3. QED
    BY <1>1, <1>2, <1>6, <2>1, <2>2, NotedStep
<1>7. CASE Is(t, "published") /\ CompleteImplementation(q, target)
  <2>1. target \in Target /\ target # NoTarget
    BY <1>2, <1>7, AtIs, NoTargetAssumption DEF Shaped
  <2>2. target.route = requirement[q].path /\ Exists(q)
    BY <1>2, <2>1 DEF Placed, Exists
  <2>3. CASE Save(q, Activated(requirement[q], LinkOf(target)))
    BY <1>1, <1>2, <2>1, <2>2, <2>3, ActivatedStep
  <2>4. CASE UNCHANGED requirement
    BY <2>4 DEF RowsStep, RowKept
  <2>5. QED
    BY <1>7, <2>3, <2>4 DEF CompleteImplementation
<1>8. CASE UNCHANGED requirement
  BY <1>8 DEF RowsStep, RowKept
<1>9. QED
  BY <1>4, <1>5, <1>6, <1>7, <1>8
     DEF CommittedCall, CreateOperation, PrepareOperationPublication, CompleteOperation

LEMMA InsertPlaces ==
  ASSUME StoreInv, NEW o \in Operations, NEW q \in Requirements, NEW kind \in Kinds,
         NEW path \in Routes, NEW base \in Link \cup {NoLink}, Insert(o, q, kind, path, base),
         kind # "move", requirement'[q].path = path, base # NoLink => base.route = path
  PROVE  /\ operation'[o] # NoOperation /\ operation'[o].requirement = q
         /\ OperationPlaced(operation'[o], requirement'[operation'[o].requirement])
         /\ \A p \in Operations \ {o} : operation'[p] = operation[p]
<1> DEFINE row == [requirement |-> q, kind |-> kind, path |-> path, base |-> base,
                   target |-> NoTarget, status |-> "accepted"]
<1>1. /\ operation'[o] = row
      /\ \A p \in Operations \ {o} : operation'[p] = operation[p]
  BY DEF Insert, StoreInv, OperationInv
<1>2. /\ row.requirement = q /\ row.kind = kind /\ row.path = path /\ row.base = base
      /\ row \in Operation
  BY DEF Operation, OperationStatuses, StoreInv
<1> HIDE DEF row
<1>3. QED
  BY <1>1, <1>2, NoOperationAssumption DEF OperationPlaced

\* The operation of a task is at the task's path.
LEMMA CallPlaces ==
  ASSUME TaskInv, PlaceInv, NEW t \in Tasks, CommittedCall(t)
  PROVE  /\ RowsStep /\ OperationsStep
         /\ task[t].pc \in {"revising", "created"}
              => /\ operation'[task[t].operation] # NoOperation
                 /\ operation'[task[t].operation].requirement = task[t].requirement
<1> DEFINE q == task[t].requirement
           o == task[t].operation
           base == task[t].base
           path == requirement[q].path
<1>1. Live(t) /\ StoreInv /\ Next /\ RowsStep
  BY CallIsClient, CallRowsStep DEF TaskInv
<1>2. /\ q \in Requirements /\ Shaped(task[t]) /\ base \in Link \cup {NoLink}
      /\ task[t].kind \in Kinds /\ task[t].path = path /\ path \in Routes
      /\ task[t].kind # "move" /\ (base # NoLink => base.route = path)
      /\ requirement'[q].path = path
  BY <1>1, TaskType DEF PlaceInv, Placed, RowsStep, RowKept
<1>3. \A p \in Operations : OperationKept(operation[p], operation'[p])
  BY <1>1, OperationStays
<1>4. CASE /\ task[t].pc \in {"revising", "created"}
           /\ Insert(o, q, task[t].kind, path, base)
  <2>1. o \in Operations
    BY <1>2, <1>4 DEF Shaped
  <2>2. /\ operation'[o] # NoOperation /\ operation'[o].requirement = q
        /\ OperationPlaced(operation'[o], requirement'[operation'[o].requirement])
        /\ \A p \in Operations \ {o} : operation'[p] = operation[p]
    BY <1>1, <1>2, <1>4, <2>1, InsertPlaces
  <2>3. QED
    BY <1>1, <1>3, <2>2 DEF OperationsStep
<1>5. CASE task[t].pc \notin {"revising", "created"}
  <2>1. ASSUME NEW p \in Operations, operation[p] = NoOperation
        PROVE  operation'[p] = NoOperation
    <3>1. operation \in [Operations -> Operation \cup {NoOperation}]
      BY <1>1 DEF StoreInv, OperationInv
    <3>2. ASSUME NEW row, SetOperation(o, row), Submitted(o)
          PROVE  operation'[p] = NoOperation
      BY <2>1, <3>1, <3>2 DEF SetOperation, Submitted
    <3>3. CASE UNCHANGED operation
      BY <2>1, <3>3
    <3>4. CASE ClaimRow(t)
      BY <3>2, <3>3, <3>4
         DEF ClaimRow, BeginImplementation, BeginOperation, HasStatus
    <3>5. QED
      BY <1>5, <3>2, <3>3, <3>4, AtIs
         DEF CommittedCall, PreparePublication, PrepareOperationPublication,
             CompleteImplementation, CompleteOperation, HasStatus
  <2>2. QED
    BY <1>1, <1>3, <1>5, <2>1 DEF OperationsStep
<1>6. QED
  BY <1>2, <1>4, <1>5, AtIs
     DEF CommittedCall, CreateOperation, ReviseAndCreateOperation

-----------------------------------------------------------------------------
(* The steps of a task.                                                    *)

TasksStep ==
  \A t \in Tasks :
    task'[t] # NoTask =>
      \/ task'[t] = task[t]
      \/ Placed(task'[t], requirement'[task'[t].requirement], operation'[task'[t].operation])

LateStep ==
  \A w \in late' : w \in late \/ (w.pc = "ready" /\ \E t \in Tasks : Live(t) /\ w = task[t])

LEMMA SameStoreStep ==
  ASSUME UNCHANGED <<requirement, operation>>
  PROVE  RowsStep /\ OperationsStep
BY DEF RowsStep, OperationsStep, RowKept, OperationKept

LEMMA TaskIsPlaced ==
  ASSUME TaskInv, PlaceInv, NEW t \in Tasks, Live(t)
  PROVE  /\ task[t].requirement \in Requirements
         /\ Placed(task[t], requirement[task[t].requirement], operation[task[t].operation])
         /\ task[t].pc # "moved"
<1>1. Shaped(task[t]) /\ task[t].requirement \in Requirements
  BY TaskType
<1>2. Placed(task[t], requirement[task[t].requirement], operation[task[t].operation])
  BY DEF PlaceInv
<1>3. QED
  BY <1>1, <1>2 DEF Shaped, Placed

LEMMA GotoPlaced ==
  ASSUME TaskInv, PlaceInv, NEW t \in Tasks, Live(t), NEW pc \in Phases, Goto(t, pc),
         RowsStep, OperationsStep,
         pc \in Early => task[t].pc \in Early,
         pc \in {"revising", "created"} => task[t].pc \in {"revising", "created"},
         task[t].pc \in {"revising", "created"} =>
           /\ operation'[task[t].operation] # NoOperation
           /\ operation'[task[t].operation].requirement = task[t].requirement
  PROVE  TasksStep
<1> DEFINE q == task[t].requirement
           o == task[t].operation
<1>1. /\ \A u \in Tasks \ {t} : task'[u] = task[u]
      /\ task'[t].pc = pc /\ task'[t].requirement = q /\ task'[t].operation = o
      /\ task'[t].kind = task[t].kind /\ task'[t].path = task[t].path
      /\ task'[t].base = task[t].base /\ task'[t].moving = task[t].moving
      /\ task'[t].target = task[t].target
  BY GotoType
<1>2. q \in Requirements /\ Placed(task[t], requirement[q], operation[o])
  BY TaskIsPlaced
<1>3. Placed(task[t], requirement'[q], operation'[o])
  BY <1>2, PlacedStays DEF RowsStep, OperationsStep
<1>4. Placed(task'[t], requirement'[q], operation'[o])
  BY <1>1, <1>3 DEF Placed
<1>5. QED
  BY <1>1, <1>4 DEF TasksStep

LEMMA EndPlaced ==
  ASSUME TaskInv, NEW t \in Tasks, End(t)
  PROVE  TasksStep
BY EndIs DEF TasksStep

\* The work of a task without an operation is its requirement as it is now.
LEMMA ClaimPlaced ==
  ASSUME TaskInv, PlaceInv, NEW t \in Tasks, ClaimWork(t)
  PROVE  RowsStep /\ OperationsStep /\ TasksStep
<1> DEFINE q == task[t].requirement
           o == task[t].operation
           row == requirement[q]
           work == [task[t] EXCEPT !.pc = "claimed"]
           claimed == IF work.operation # NoOperation THEN work
                      ELSE [work EXCEPT !.path = row.path, !.base = row.link]
<1>1. /\ RowsStep /\ OperationsStep /\ Live(t) /\ task[t].pc = "scheduled"
      /\ task[t] \in Task /\ q \in Requirements
      /\ o \in Operations \cup {NoOperation}
      /\ Placed(task[t], row, operation[o])
  BY StepsCall, CallPlaces, AtIs, TaskType, TaskIsPlaced DEF ClaimWork
<1>2. row # NoRequirement /\ RowPlaced(row) /\ row \in Requirement
  BY <1>1, RowType DEF Placed, PlaceInv, Exists, TaskInv, StoreInv, Proper
<1>3. Placed(task[t], requirement'[q], operation'[o]) /\ requirement'[q].path = row.path
  BY <1>1, <1>2, PlacedStays DEF RowsStep, OperationsStep, RowKept
<1>4. /\ work \in Task /\ work.pc = "claimed" /\ work.requirement = q /\ work.operation = o
      /\ work.kind = task[t].kind /\ work.path = task[t].path /\ work.base = task[t].base
      /\ work.moving = task[t].moving /\ work.target = task[t].target
  BY <1>1 DEF Task, Phases
<1>5. task' = [task EXCEPT ![t] = claimed]
  BY DEF ClaimWork
<1> HIDE DEF row, work
<1>6. /\ claimed.pc = "claimed" /\ claimed.requirement = q /\ claimed.operation = o
      /\ claimed.kind = task[t].kind /\ claimed.moving = task[t].moving
      /\ claimed.target = task[t].target
      /\ \/ claimed.path = task[t].path /\ claimed.base = task[t].base
         \/ claimed.path = row.path /\ claimed.base = row.link
  BY <1>1, <1>2, <1>4 DEF Task, Requirement
<1> HIDE DEF claimed
<1>7. Placed(claimed, requirement'[q], operation'[o])
  BY <1>1, <1>2, <1>3, <1>6 DEF Placed, Early, RowPlaced
<1>8. task'[t] = claimed /\ \A u \in Tasks \ {t} : task'[u] = task[u]
  BY <1>5 DEF TaskInv, TypeOK
<1>9. QED
  BY <1>1, <1>6, <1>7, <1>8 DEF TasksStep

\* The candidate is at the path, one version on.
LEMMA GeneratePlaced ==
  ASSUME TaskInv, PlaceInv, NEW t \in Tasks, NEW digest \in Digests, Generate(t, digest)
  PROVE  RowsStep /\ OperationsStep /\ TasksStep
<1> DEFINE q == task[t].requirement
           o == task[t].operation
           candidate == Candidate(t, digest)
           moving == task[t].base # NoLink /\ IsRouteMove(t)
           work == [task[t] EXCEPT !.pc = "generated", !.target = candidate, !.moving = moving]
<1>1. /\ Live(t) /\ task[t] \in Task /\ Placed(task[t], requirement[q], operation[o])
      /\ task[t].pc = "claimed" /\ UNCHANGED <<requirement, operation>>
  BY AtIs, TaskType, TaskIsPlaced DEF Generate, store
<1>2. ~moving
  BY <1>1 DEF Placed, IsRouteMove
<1>3. /\ candidate.route = task[t].path
      /\ candidate.version = IF task[t].base = NoLink THEN 1 ELSE task[t].base.version + 1
  BY <1>1, <1>2 DEF Placed, Candidate, AsTarget
<1>4. task' = [task EXCEPT ![t] = work]
  BY DEF Generate
<1> HIDE DEF candidate, moving
<1>5. /\ work.pc = "generated" /\ work.target = candidate /\ ~work.moving
      /\ work.requirement = q /\ work.operation = o /\ work.kind = task[t].kind
      /\ work.path = task[t].path /\ work.base = task[t].base
  BY <1>1, <1>2 DEF Task
<1> HIDE DEF work
<1>6. Placed(work, requirement[q], operation[o])
  BY <1>1, <1>3, <1>5 DEF Placed, Early
<1>7. task'[t] = work /\ \A u \in Tasks \ {t} : task'[u] = task[u]
  BY <1>4 DEF TaskInv, TypeOK
<1>8. QED
  BY <1>1, <1>5, <1>6, <1>7, SameStoreStep DEF TasksStep

LEMMA WorkPlaces ==
  ASSUME TaskInv, PlaceInv, NEW t \in Tasks, Work(t) \/ Cancel(t)
  PROVE  RowsStep /\ OperationsStep /\ TasksStep /\ LateStep
<1>1. Live(t)
  BY AtIs, StepsCall, CallIsClient
     DEF Work, Cancel, Generate, Publish, MoveLinks, Raise, Refused, Faulty, AnswerLost,
         ActivatedButRaised, FailRequirement, Failing, FailTask, Live
<1>2. ASSUME NEW pc \in Phases, Goto(t, pc), RowsStep, OperationsStep,
             task[t].pc \notin {"revising", "created"}, pc \notin Early
      PROVE  TasksStep
  BY <1>1, <1>2, GotoPlaced DEF Early
<1>3. CommittedCall(t) \/ UNCHANGED <<requirement, operation>>
        => RowsStep /\ OperationsStep
  BY CallPlaces, SameStoreStep
<1>4. CASE Accept(t) \/ Revise(t)
  <2>1. /\ CommittedCall(t) /\ Goto(t, "scheduled") /\ task[t].pc \in {"revising", "created"}
        /\ late' = late /\ "scheduled" \in Phases
    BY <1>4, StepsCall, AtIs DEF Accept, Revise, Phases
  <2>2. TasksStep
    BY <1>1, <2>1, CallPlaces, GotoPlaced DEF Early
  <2>3. QED
    BY <1>3, <2>1, <2>2 DEF LateStep
<1>5. CASE ClaimWork(t) \/ \E digest \in Digests : Generate(t, digest)
  <2>1. late' = late
    BY <1>5 DEF ClaimWork, Generate
  <2>2. QED
    BY <1>5, <2>1, ClaimPlaced, GeneratePlaced DEF LateStep
<1>6. CASE Note(t) \/ NoteOperation(t) \/ Finalize(t) \/ Finish(t)
  <2>1. /\ CommittedCall(t) /\ late' = late
        /\ task[t].pc \notin {"revising", "created"}
        /\ End(t) \/ \E pc \in {"ready", "noted", "completed"} : Goto(t, pc)
    BY <1>6, StepsCall, AtIs DEF Note, AfterNote, NoteOperation, Finalize, Finish
  <2>2. \A pc \in {"ready", "noted", "completed"} : pc \in Phases /\ pc \notin Early
    BY DEF Phases, Early
  <2>3. QED
    BY <1>2, <1>3, <2>1, <2>2, EndPlaced DEF LateStep
<1>7. CASE Publish(t) \/ ActivatedButRaised(t)
  <2>1. /\ UNCHANGED <<requirement, operation, late>> /\ task[t].pc = "ready"
        /\ \E pc \in {"published", "moved", "erring"} : Goto(t, pc)
    BY <1>7, AtIs DEF Publish, ActivatedButRaised, CommitRoute, store
  <2>2. \A pc \in {"published", "moved", "erring"} : pc \in Phases /\ pc \notin Early
    BY DEF Phases, Early
  <2>3. QED
    BY <1>2, <1>3, <2>1, <2>2 DEF LateStep
<1>8. CASE MoveLinks(t)
  BY <1>1, <1>8, AtIs, TaskIsPlaced DEF MoveLinks
<1>9. ASSUME AfterException(t)
      PROVE  RowsStep /\ OperationsStep => TasksStep
  <2>1. CASE End(t)
    BY <2>1, EndPlaced
  <2>2. CASE Guarded(t) /\ Goto(t, "erring")
    <3>1. "erring" \in Phases /\ "erring" \notin Early
          /\ task[t].pc \notin {"revising", "created"}
      BY <2>2 DEF Phases, Early, Guarded, Is
    <3>2. QED
      BY <1>2, <2>2, <3>1
  <2>3. QED
    BY <1>9, <2>1, <2>2 DEF AfterException
<1>10. CASE Raise(t) \/ AnswerLost(t)
  <2>1. AfterException(t) /\ late' = late /\ (CommittedCall(t) \/ UNCHANGED store)
    BY <1>10 DEF Raise, AnswerLost
  <2>2. QED
    BY <1>3, <1>9, <2>1 DEF LateStep, store
<1>11. CASE FailRequirement(t)
  <2>1. /\ late' = late /\ task[t].pc \in {"erring", "cancelled"}
        /\ FailImplementation(task[t].requirement) \/ UNCHANGED store
        /\ End(t) \/ Goto(t, "failing") \/ Goto(t, "dropped")
    BY <1>11, AtIs DEF FailRequirement, Failing, AfterFailure
  <2>2. RowsStep /\ OperationsStep
    <3>1. CASE FailImplementation(task[t].requirement)
      <4>1. /\ Exists(task[t].requirement) /\ task[t].requirement \in Requirements
            /\ Save(task[t].requirement, Cleared(requirement[task[t].requirement], "failed"))
            /\ "failed" \in RequirementStatuses /\ UNCHANGED operation
        BY <1>1, <3>1, TaskType DEF FailImplementation, Implementing, Failed, RequirementStatuses
      <4>2. RowsStep
        BY <4>1, ClearedStep DEF TaskInv
      <4>3. OperationsStep
        BY <4>1 DEF OperationsStep, OperationKept
      <4>4. QED
        BY <4>2, <4>3
    <3>2. QED
      BY <1>3, <2>1, <3>1 DEF store
  <2>3. "failing" \in Phases \ Early /\ "dropped" \in Phases \ Early
    BY DEF Phases, Early
  <2>4. QED
    BY <1>2, <2>1, <2>2, <2>3, EndPlaced DEF LateStep
<1>12. CASE FailTask(t)
  <2>1. /\ late' = late /\ End(t) /\ task[t].pc \in {"failing", "dropped"}
        /\ FailOperation(task[t].operation) \/ UNCHANGED store
    BY <1>12, AtIs DEF FailTask
  <2>2. RowsStep /\ OperationsStep
    <3>1. CASE FailOperation(task[t].operation)
      <4>1. task[t].operation \in Operations /\ operation[task[t].operation] # NoOperation
            /\ UNCHANGED requirement
        BY <1>1, <2>1, <3>1, TaskType DEF Shaped, FailOperation, Failable, InProgress, Submitted
      <4>2. /\ \A p \in Operations : OperationKept(operation[p], operation'[p])
            /\ \A p \in Operations \ {task[t].operation} : operation'[p] = operation[p]
        <5>1. [Next]_store
          BY <1>12, WorkIsClient DEF Work
        <5>2. QED
          BY <3>1, <4>1, <5>1, OperationStays
             DEF FailOperation, SetOperation, TaskInv, StoreInv, OperationInv
      <4>3. QED
        BY <4>1, <4>2 DEF RowsStep, RowKept, OperationsStep
    <3>2. QED
      BY <1>3, <2>1, <3>1 DEF store
  <2>3. QED
    BY <2>1, <2>2, EndPlaced DEF LateStep
<1>13. CASE Cancel(t)
  <2>1. CommittedCall(t) \/ UNCHANGED store
    BY <1>13 DEF Cancel
  <2>2. RowsStep /\ OperationsStep
    BY <1>3, <2>1 DEF store
  <2>3. TasksStep
    <3>1. CASE Guarded(t) /\ Goto(t, "cancelled")
      <4>1. "cancelled" \in Phases /\ "cancelled" \notin Early
            /\ task[t].pc \notin {"revising", "created"}
        BY <3>1 DEF Phases, Early, Guarded, Is
      <4>2. QED
        BY <1>2, <2>2, <3>1, <4>1
    <3>2. QED
      BY <1>13, <3>1, EndPlaced DEF Cancel
  <2>4. LateStep
    <3>1. late' = late \/ (late' = late \cup {task[t]} /\ task[t].pc \in {"ready", "moved"})
      BY <1>13, AtIs DEF Cancel, OutlivesTask
    <3>2. QED
      BY <1>1, <3>1, TaskIsPlaced DEF LateStep
  <2>5. QED
    BY <2>2, <2>3, <2>4
<1>14. QED
  BY <1>4, <1>5, <1>6, <1>7, <1>8, <1>10, <1>11, <1>12, <1>13 DEF Work

-----------------------------------------------------------------------------
(* Requests, and the steps of the service.                                 *)

\* A request starts its work at the path of the requirement.
LEMMA StartPlaced ==
  ASSUME TaskInv, NEW t \in Tasks, NEW pc \in {"revising", "created", "scheduled"},
         NEW q \in Requirements, NEW o \in Operations \cup {NoOperation}, NEW kind \in Kinds,
         NEW path \in Routes, NEW base \in Link \cup {NoLink},
         Start(t, pc, q, o, kind, path, base), kind # "move",
         requirement'[q] # NoRequirement, requirement'[q].path = path,
         base # NoLink => base.route = path, pc = "scheduled" => o = NoOperation
  PROVE  TasksStep /\ LateStep
<1> DEFINE w == [pc |-> pc, requirement |-> q, operation |-> o, kind |-> kind, path |-> path,
                 base |-> base, moving |-> FALSE, target |-> NoTarget]
<1>1. /\ w.requirement = q /\ w.operation = o /\ w.pc = pc
      /\ w.kind = kind /\ w.path = path /\ w.base = base /\ ~w.moving /\ w.target = NoTarget
  OBVIOUS
<1>2. task' = [task EXCEPT ![t] = w] /\ late' = late
  BY DEF Start
<1> HIDE DEF w
<1>3. task'[t] = w /\ \A u \in Tasks \ {t} : task'[u] = task[u]
  BY <1>2 DEF TaskInv, TypeOK
<1>4. NoOperation \notin Operations
  BY TaskAssumption
<1>5. Placed(w, requirement'[q], operation'[o])
  BY <1>1, <1>4 DEF Placed
<1>6. QED
  BY <1>1, <1>2, <1>3, <1>5 DEF TasksStep, LateStep

LEMMA RequestPlaces ==
  ASSUME NoMoves, TaskInv, PlaceInv, NEW t \in Tasks, Request(t)
  PROVE  RowsStep /\ OperationsStep /\ TasksStep /\ LateStep
<1>1. PICK q \in Requirements, o \in Operations, path \in Routes :
    \/ RequestCreate(t, q, o, path)
    \/ RequestRevise(t, q, o)
    \/ \E failed \in Operations : RequestRetry(t, failed, o)
    \/ RequestImplement(t, q)
  BY DEF Request, RequestMove, NoMoves
<1>2. UNCHANGED operation
  BY RequestIs
<1>3. OperationsStep
  BY <1>2 DEF OperationsStep, OperationKept
<1>4. "create" \in Kinds /\ "update" \in Kinds /\ NoLink \in Link \cup {NoLink} /\ StoreInv
  BY TaskAssumption DEF TaskInv
<1>5. ASSUME NEW p \in Requirements, Exists(p)
      PROVE  requirement[p].path \in Routes /\ requirement[p].link \in Link \cup {NoLink}
             /\ requirement[p] \in Requirement /\ RowPlaced(requirement[p])
  BY <1>4, <1>5, RowType DEF StoreInv, Proper, Requirement, PlaceInv
<1>6. ASSUME NEW route \in Routes, table[route] # NoPublication
      PROVE  Linked(route) \in Link /\ Linked(route).route = route
  BY <1>6, LinkedType DEF Linked
<1>7. CASE RequestCreate(t, q, o, path)
  <2>1. RowsStep /\ requirement'[q].path = path /\ requirement'[q] # NoRequirement
    BY <1>4, <1>7, CreateStep DEF RequestCreate
  <2>2. TasksStep /\ LateStep
    BY <1>4, <1>7, <2>1, StartPlaced DEF RequestCreate
  <2>3. QED
    BY <1>3, <2>1, <2>2
<1>8. CASE RequestRevise(t, q, o)
  <2>1. Exists(q) /\ UNCHANGED requirement
    BY <1>8 DEF RequestRevise, store
  <2>2. /\ requirement'[q] # NoRequirement /\ requirement'[q].path = requirement[q].path
        /\ requirement[q].path \in Routes /\ o \in Operations \cup {NoOperation}
    BY <1>5, <2>1 DEF Exists
  <2>3. ASSUME Start(t, "revising", q, o, "create", requirement[q].path, NoLink)
        PROVE  TasksStep /\ LateStep
    BY <1>4, <2>2, <2>3, StartPlaced
  <2>4. ASSUME table[requirement[q].path] # NoPublication,
               Start(t, "revising", q, o, "update", requirement[q].path,
                     Linked(requirement[q].path))
        PROVE  TasksStep /\ LateStep
    <3>1. /\ Linked(requirement[q].path) \in Link \cup {NoLink}
          /\ Linked(requirement[q].path).route = requirement[q].path
      BY <1>6, <2>2, <2>4
    <3>2. QED
      BY <1>4, <2>2, <2>4, <3>1, StartPlaced
  <2>5. QED
    BY <1>2, <1>8, <2>1, <2>3, <2>4, SameStoreStep DEF RequestRevise
<1>9. ASSUME NEW failed \in Operations, RequestRetry(t, failed, o)
      PROVE  TasksStep /\ LateStep /\ UNCHANGED requirement
  <2> DEFINE previous == operation[failed]
             r == previous.requirement
             route == RetryRoute(previous)
  <2>1. /\ Submitted(failed) /\ UNCHANGED requirement
    BY <1>9 DEF RequestRetry, HasStatus, store
  <2>2. /\ r \in Requirements /\ previous.path \in Routes /\ previous.kind \in Kinds
        /\ previous.kind # "create" => previous.base \in Link
        /\ Exists(r) /\ previous.kind # "move" /\ previous.path = requirement[r].path
        /\ previous.base # NoLink => previous.base.route = requirement[r].path
    BY <2>1, OperationType DEF TaskInv, OperationsRefer, KindsHaveBase, PlaceInv, OperationPlaced
  <2>3. requirement'[r] # NoRequirement /\ requirement'[r].path = requirement[r].path
    BY <2>1, <2>2 DEF Exists
  <2>4. CASE Start(t, "created", r, o, "create", previous.path, NoLink)
    BY <1>4, <2>1, <2>2, <2>3, <2>4, StartPlaced
  <2>5. CASE /\ previous.kind # "create" /\ table[route] # NoPublication
             /\ Start(t, "created", r, o, previous.kind,
                      IF previous.kind = "update" THEN route ELSE previous.path, Linked(route))
    <3>1. previous.kind = "update"
      BY <2>2, <2>5, TaskAssumption
    <3>2. previous.base # NoLink
      BY <2>2, <2>5, NoLinkAssumption
    <3>3. route = requirement[r].path /\ route \in Routes
      BY <1>5, <2>2, <3>2 DEF RetryRoute, RowPlaced
    <3>4. Linked(route) \in Link \cup {NoLink} /\ Linked(route).route = route
      BY <1>6, <2>5, <3>3
    <3>5. Start(t, "created", r, o, "update", route, Linked(route))
      BY <2>5, <3>1
    <3> HIDE DEF previous, r, route
    <3>6. QED
      BY <1>4, <2>1, <2>2, <2>3, <3>3, <3>4, <3>5, StartPlaced
  <2>6. QED
    BY <1>9, <2>1, <2>4, <2>5 DEF RequestRetry
<1>10. CASE RequestImplement(t, q)
  <2>1. CASE ReconcilePublication(q, table) /\ UNCHANGED <<service, table, task, late, history>>
    <3> DEFINE target == requirement[q].target
    <3>1. Exists(q) /\ target # NoTarget /\ Save(q, Activated(requirement[q], LinkOf(target)))
      BY <2>1 DEF ReconcilePublication, Implementing, Published
    <3>2. target \in Target /\ target.route = requirement[q].path
      BY <1>5, <3>1 DEF Requirement, RowPlaced
    <3> HIDE DEF target
    <3>3. RowsStep
      BY <1>4, <3>1, <3>2, ActivatedStep
    <3>4. QED
      BY <1>3, <2>1, <3>3 DEF TasksStep, LateStep
  <2>2. CASE /\ Exists(q) /\ UNCHANGED store
             /\ Start(t, "scheduled", q, NoOperation, "update", requirement[q].path, NoLink)
    <3>1. requirement'[q] # NoRequirement /\ requirement'[q].path = requirement[q].path
          /\ UNCHANGED requirement
      BY <2>2 DEF store, Exists
    <3>2. NoOperation \in Operations \cup {NoOperation}
      OBVIOUS
    <3>3. TasksStep /\ LateStep
      BY <1>4, <1>5, <2>2, <3>1, <3>2, StartPlaced
    <3>4. QED
      BY <1>2, <3>1, <3>3, SameStoreStep
  <2>3. QED
    BY <1>10, <2>1, <2>2 DEF RequestImplement
<1>11. QED
  BY <1>1, <1>2, <1>7, <1>8, <1>9, <1>10, SameStoreStep

LEMMA ChangePlaces ==
  ASSUME TaskInv, PlaceInv, NEW q \in Requirements, Change(q)
  PROVE  RowsStep /\ OperationsStep
<1>1. StoreInv /\ UNCHANGED operation
  BY DEF Change, EditRequirement, UpdateContent, RebaseRequirement, RebaseRoute,
         LinkRequirement, Create, TaskInv
<1>2. OperationsStep
  BY <1>1 DEF OperationsStep, OperationKept
<1>3. Exists(q) => requirement[q] \in Requirement /\ RowPlaced(requirement[q])
  BY <1>1, RowType DEF StoreInv, Proper, PlaceInv
<1>4. CASE EditRequirement(q)
  <2>1. Edited(q, requirement[q].link) /\ Exists(q)
    BY <1>4 DEF EditRequirement, UpdateContent, Edited
  <2>2. QED
    BY <1>1, <1>2, <1>3, <2>1, EditedStep DEF Requirement, RowPlaced
<1>5. CASE RebaseRequirement(q)
  <2>1. /\ Exists(q) /\ table[requirement[q].path] # NoPublication
        /\ RebaseRoute(q, Linked(requirement[q].path))
    BY <1>5 DEF RebaseRequirement
  <2>2. Linked(requirement[q].path) \in Link
    BY <1>3, <2>1, LinkedType DEF Requirement
  <2>3. QED
    BY <1>1, <1>2, <2>1, <2>2, EditedStep DEF Linked
<1>6. ASSUME NEW path \in Routes, LinkRequirement(q, path)
      PROVE  RowsStep
  <2>1. table[path] # NoPublication => Linked(path) \in Link
    BY LinkedType
  <2>2. QED
    BY <1>1, <1>6, <2>1, CreateStep DEF LinkRequirement, Linked
<1>7. QED
  BY <1>2, <1>4, <1>5, <1>6 DEF Change

LEMMA StartupPlaces ==
  ASSUME TaskInv, PlaceInv, Startup
  PROVE  RowsStep /\ OperationsStep
<1>1. RecoverInterrupted(table) /\ StoreInv
  BY DEF Startup, TaskInv
<1>2. OperationsStep
  <2>1. table \in [Routes -> Publication \cup {NoPublication}]
    BY DEF TaskInv, TypeOK
  <2>2. \A o \in Operations : OperationKept(operation[o], operation'[o])
    BY <1>1, <2>1, OperationStays DEF Next
  <2>3. \A o \in Operations : operation[o] = NoOperation => operation'[o] = NoOperation
    BY <1>1 DEF RecoverInterrupted, InProgress, Submitted
  <2>4. QED
    BY <2>2, <2>3 DEF OperationsStep
<1>3. ASSUME NEW q \in Requirements, requirement'[q] # requirement[q]
      PROVE  /\ requirement'[q] # NoRequirement /\ requirement'[q].path = requirement[q].path
             /\ RowPlaced(requirement'[q])
  <2> DEFINE target == requirement[q].target
  <2>1. Exists(q) /\ requirement'[q] = IF Published(target, table)
                                         THEN Activated(requirement[q], LinkOf(target))
                                         ELSE Failed(requirement[q])
    BY <1>1, <1>3 DEF RecoverInterrupted, Implementing
  <2>2. requirement[q] \in Requirement /\ RowPlaced(requirement[q])
        /\ "active" \in RequirementStatuses /\ "failed" \in RequirementStatuses
        /\ NoLink \in Link \cup {NoLink}
    BY <1>1, <2>1, RowType DEF StoreInv, Proper, PlaceInv, RequirementStatuses
  <2>3. CASE Published(target, table)
    <3>1. target \in Target /\ target.route = requirement[q].path
      BY <2>2, <2>3 DEF Published, Requirement, RowPlaced
    <3>2. LinkOf(target) \in Link /\ LinkOf(target).route = requirement[q].path
      BY <3>1, LinkOfType DEF LinkOf
    <3> HIDE DEF target
    <3>3. QED
      BY <1>1, <2>1, <2>2, <2>3, <3>2, ClearedIs, NoRequirementAssumption
         DEF Activated, RowPlaced
  <2>4. CASE ~Published(target, table)
    <3>1. requirement'[q] = Cleared(requirement[q], "failed")
      BY <2>1, <2>4 DEF Failed
    <3> HIDE DEF target
    <3>2. /\ requirement'[q] \in Requirement /\ requirement'[q].target = NoTarget
          /\ requirement'[q].path = requirement[q].path
          /\ requirement'[q].link = requirement[q].link
      BY <1>1, <2>1, <2>2, <3>1, ClearedRow
    <3>3. QED
      BY <2>2, <3>2, NoRequirementAssumption DEF RowPlaced
  <2>5. QED
    BY <2>3, <2>4
<1>4. QED
  BY <1>2, <1>3 DEF RowsStep, RowKept

LEMMA NextPlaces ==
  ASSUME NoMoves, TaskInv, PlaceInv, [NextTask]_vars
  PROVE  RowsStep /\ OperationsStep /\ TasksStep /\ LateStep
<1>1. UNCHANGED <<task, late>> => TasksStep /\ LateStep
  BY DEF TasksStep, LateStep
<1>2. ASSUME NEW q \in Requirements, Change(q)
      PROVE  RowsStep /\ OperationsStep /\ TasksStep /\ LateStep
  BY <1>1, <1>2, ChangePlaces DEF Change
<1>3. CASE Startup
  BY <1>1, <1>3, StartupPlaces DEF Startup
<1>4. CASE Late
  <2>1. ~\E w \in late : LateMoveLinks(w)
    BY DEF LateMoveLinks, PlaceInv
  <2>2. UNCHANGED <<requirement, operation, task>> /\ late' \subseteq late
    BY <1>4, <2>1 DEF Late, LateCommit, CommitRoute, store
  <2>3. QED
    BY <2>2, SameStoreStep DEF TasksStep, LateStep
<1>5. CASE \/ \E route \in Routes, digest \in Digests : PutRoute(route, digest)
           \/ Shutdown \/ Exit \/ UNCHANGED vars
  <2>1. UNCHANGED <<requirement, operation, task, late>>
    BY <1>5 DEF PutRoute, Shutdown, Exit, vars, store
  <2>2. QED
    BY <1>1, <2>1, SameStoreStep
<1>6. CASE Crash
  <2>1. UNCHANGED <<requirement, operation>> /\ late' = {} /\ task' = [t \in Tasks |-> NoTask]
    BY <1>6 DEF Crash, store
  <2>2. QED
    BY <2>1, SameStoreStep DEF TasksStep, LateStep
<1>7. QED
  BY <1>2, <1>3, <1>4, <1>5, <1>6, WorkPlaces, RequestPlaces DEF NextTask

LEMMA PlaceInvariant == NoMoves => (TaskSpec => []PlaceInv)
<1> SUFFICES ASSUME NoMoves PROVE TaskSpec => []PlaceInv
  OBVIOUS
<1>1. Init => PlaceInv
  BY DEF Init, StoreInit, PlaceInv, Exists, Submitted, Live
<1>2. TaskInv /\ TaskInv' /\ PlaceInv /\ [NextTask]_vars => PlaceInv'
  BY NextPlaces, PlaceKeeps DEF TasksStep, LateStep
<1>3. QED
  BY <1>1, <1>2, TaskInvariant, PTL DEF TaskSpec

-----------------------------------------------------------------------------
(* Where no route moves, a route stays and its versions grow.              *)

Superseded(target, active) == target.version < active[target.route].version

VersionInv ==
  \A target \in published :
    /\ table[target.route] # NoPublication
    /\ Superseded(target, table) \/ Published(target, table)

\* The route of the target publishes a newer version, or its first one.
Publishes(target) ==
  /\ published' = published \cup {target}
  /\ table' = [table EXCEPT ![target.route] =
                 [version |-> target.version, digest |-> target.digest]]
  /\ table[target.route] # NoPublication => table[target.route].version < target.version

LEMMA CommitPublishes ==
  ASSUME TaskInv, NEW w \in Task, w.target \in Target, NEW row, NEW op, Placed(w, row, op),
         CommitRoute(w)
  PROVE  Publishes(w.target)
<1>1. w.target # NoTarget /\ w.target.route \in Routes /\ w.base \in Link \cup {NoLink}
  BY NoTargetAssumption DEF Target, Task
<1>2. /\ w.target.route = w.path /\ ~w.moving
      /\ w.target.version = IF w.base = NoLink THEN 1 ELSE w.base.version + 1
      /\ w.base # NoLink => w.base.route = w.path
  BY <1>1 DEF Placed
<1>3. table[w.target.route] # NoPublication => table[w.target.route].version < w.target.version
  <2>1. CASE w.base = NoLink
    BY <2>1 DEF CommitRoute, Committable
  <2>2. CASE w.base # NoLink
    <3>1. table[w.target.route].version = w.base.version /\ w.base \in Link
      BY <1>1, <1>2, <2>2 DEF CommitRoute, Committable
    <3>2. w.base.version \in Nat
      BY <3>1, StoreAssumption DEF Link
    <3>3. QED
      BY <1>2, <2>2, <3>1, <3>2
  <2>3. QED
    BY <2>1, <2>2
<1>4. table \in [Routes -> Publication \cup {NoPublication}]
  BY DEF TaskInv, TypeOK
<1>5. table' = [table EXCEPT ![w.target.route] =
                  [version |-> w.target.version, digest |-> w.target.digest]]
  BY <1>1, <1>2, <1>4 DEF CommitRoute
<1>6. QED
  BY <1>3, <1>5 DEF Publishes, CommitRoute

\* The work of a task that is ready, and of a thread that outlived its task.
LEMMA ReadyWork ==
  ASSUME TaskInv, PlaceInv, NEW w,
         w \in late \/ \E t \in Tasks : Live(t) /\ task[t].pc = "ready" /\ w = task[t]
  PROVE  /\ w \in Task /\ w.target \in Target /\ w.requirement \in Requirements
         /\ Placed(w, requirement[w.requirement], operation[w.operation])
<1>1. w \in Task /\ Shaped(w) /\ w.pc = "ready"
  BY TaskType DEF TaskInv, TypeOK, LateAreShaped, PlaceInv
<1>2. w.target \in Target /\ w.requirement \in Requirements
  BY <1>1 DEF Shaped, Task
<1>3. QED
  BY <1>1, <1>2 DEF PlaceInv

LEMMA StartsIs ==
  ASSUME TaskInv, NEW t \in Tasks, Starts(t)
  PROVE  /\ Running /\ ~Live(t) /\ \A u \in Tasks \ {t} : task'[u] = task[u]
         /\ Live(t)' /\ task'[t].pc \in {"revising", "created", "scheduled"}
         /\ task'[t].target = NoTarget
         /\ task'[t].operation \in Operations => FreshOperation(task'[t].operation)
         /\ task'[t].pc = "scheduled" => task'[t].operation = NoOperation
         /\ UNCHANGED <<service, table, late, history>>
<1>1. PICK pc \in {"revising", "created", "scheduled"}, q \in Requirements,
           o \in Operations \cup {NoOperation}, kind \in Kinds, path \in Routes,
           base \in Link \cup {NoLink} :
        /\ Start(t, pc, q, o, kind, path, base)
        /\ o \in Operations => FreshOperation(o)
        /\ pc = "scheduled" => o = NoOperation
  BY DEF Starts
<1>2. task'[t].target = NoTarget
  BY <1>1 DEF Start, TaskInv, TypeOK
<1>3. Running
  BY <1>1 DEF Start
<1>4. QED
  BY <1>1, <1>2, <1>3, StartType

LEMMA StepPublishes ==
  ASSUME TaskInv, PlaceInv, [NextTask]_vars
  PROVE  \/ UNCHANGED <<table, published>>
         \/ \E target \in Target : Publishes(target)
<1>1. ASSUME NEW w, CommitRoute(w),
             w \in late \/ \E t \in Tasks : Live(t) /\ task[t].pc = "ready" /\ w = task[t]
      PROVE  \E target \in Target : Publishes(target)
  BY <1>1, ReadyWork, CommitPublishes
<1>2. ASSUME NEW t \in Tasks, Publish(t) \/ ActivatedButRaised(t)
      PROVE  \E target \in Target : Publishes(target)
  BY <1>1, <1>2, AtIs DEF Publish, ActivatedButRaised
<1>3. ASSUME NEW w \in late, LateCommit(w)
      PROVE  \E target \in Target : Publishes(target)
  BY <1>1, <1>3 DEF LateCommit
<1>4. ASSUME NEW route \in Routes, NEW digest \in Digests, PutRoute(route, digest)
      PROVE  \E target \in Target : Publishes(target)
  <2> DEFINE target == AsTarget(route, table[route].version + 1, digest)
  <2>1. table[route] \in Publication
    BY <1>4 DEF PutRoute, TaskInv, TypeOK
  <2>2. table[route].version \in Nat /\ table[route].version + 1 \in 1..MaxVersion
    BY <1>4, <2>1, StoreAssumption DEF PutRoute, Publication
  <2>3. /\ target.route = route /\ target.version = table[route].version + 1
        /\ target.digest = digest
    BY DEF AsTarget
  <2>4. target \in Target
    BY <2>2 DEF AsTarget, Target
  <2>5. /\ published' = published \cup {target}
        /\ table' = [table EXCEPT ![route] = [version |-> table[route].version + 1,
                                             digest |-> digest]]
    BY <1>4 DEF PutRoute
  <2> HIDE DEF target
  <2>6. Publishes(target)
    BY <2>2, <2>3, <2>5 DEF Publishes
  <2>7. QED
    BY <2>4, <2>6
<1>5. ASSUME NEW t \in Tasks, Request(t)
      PROVE  UNCHANGED <<table, published>>
  BY <1>5, RequestIs, StartsIs DEF history
<1>6. ASSUME NEW t \in Tasks, Work(t) \/ Cancel(t), ~Publish(t), ~ActivatedButRaised(t)
      PROVE  UNCHANGED <<table, published>>
  BY <1>6 DEF Work, Cancel, Accept, Revise, ClaimWork, Generate, Note, NoteOperation, MoveLinks,
     Finalize, Finish, Raise, AnswerLost, FailRequirement, FailTask, history
<1>7. QED
  BY <1>2, <1>3, <1>4, <1>5, <1>6
     DEF NextTask, Late, LateMoveLinks, Change, Shutdown, Exit, Crash, Startup, vars, history

LEMMA NewerKeeps ==
  ASSUME TaskInv, VersionInv, NEW target \in Target, Publishes(target)
  PROVE  VersionInv' /\ \A old \in published : Superseded(old, table) => Superseded(old, table')
<1>1. /\ target.route \in Routes /\ target.version \in Nat /\ published \subseteq Target
      /\ table \in [Routes -> Publication \cup {NoPublication}]
  BY StoreAssumption DEF TaskInv, TypeOK, Target
<1>2. /\ table'[target.route] = [version |-> target.version, digest |-> target.digest]
      /\ \A r \in Routes \ {target.route} : table'[r] = table[r]
      /\ published' = published \cup {target}
      /\ table[target.route] # NoPublication => table[target.route].version < target.version
  BY <1>1 DEF Publishes
<1>3. [version |-> target.version, digest |-> target.digest] \in Publication
  BY DEF Target, Publication
<1>4. table'[target.route] # NoPublication
  BY <1>2, <1>3, TaskAssumption
<1>5. ASSUME NEW old \in published
      PROVE  /\ table'[old.route] # NoPublication
             /\ Superseded(old, table') \/ Published(old, table')
             /\ Superseded(old, table) => Superseded(old, table')
  <2>1. old \in Target /\ old.route \in Routes /\ old.version \in Nat
    BY <1>1, <1>5, StoreAssumption DEF Target
  <2>2. table[old.route] # NoPublication /\ (Superseded(old, table) \/ Published(old, table))
    BY <1>5 DEF VersionInv
  <2>3. table[old.route] \in Publication /\ table[old.route].version \in Nat
    BY <1>1, <2>1, <2>2, StoreAssumption DEF Publication
  <2>4. CASE old.route # target.route
    BY <1>2, <2>1, <2>2, <2>4 DEF Superseded, Published
  <2>5. CASE old.route = target.route
    <3>1. old.version <= table[old.route].version
      BY <2>1, <2>2, <2>3 DEF Superseded, Published
    <3>2. table'[old.route].version = target.version
      BY <1>2, <2>5
    <3>3. old.version < table'[old.route].version
      BY <1>1, <1>2, <2>1, <2>2, <2>3, <2>5, <3>1, <3>2
    <3>4. QED
      BY <1>4, <2>5, <3>3 DEF Superseded
  <2>6. QED
    BY <2>4, <2>5
<1>6. Published(target, table')
  BY <1>2, NoTargetAssumption DEF Published
<1>7. QED
  BY <1>2, <1>4, <1>5, <1>6 DEF VersionInv

LEMMA VersionInvariant == NoMoves => (TaskSpec => []VersionInv)
<1> SUFFICES ASSUME NoMoves PROVE TaskSpec => []VersionInv
  OBVIOUS
<1>1. Init => VersionInv
  BY DEF Init, VersionInv
<1>2. TaskInv /\ PlaceInv /\ VersionInv /\ [NextTask]_vars => VersionInv'
  BY StepPublishes, NewerKeeps DEF VersionInv, Superseded
<1>3. QED
  BY <1>1, <1>2, TaskInvariant, PlaceInvariant, PTL DEF TaskSpec

-----------------------------------------------------------------------------
(* What is served is not reported failed, where the service stops only by  *)
(* a crash and an activation that was made is reported.                    *)

CrashesOnly == "activation" \notin Faults /\ "shutdown" \notin Faults

QuietInv ==
  /\ service # "stopping"
  /\ late = {}
  /\ \A t \in Tasks : Live(t) => service = "running" /\ task[t].pc \notin Dead

RowHas(row, status) == row # NoOperation /\ row.status = status

\* Phases between the claim of an operation and the commit of its route.
Before == {"claimed", "generated", "noted", "ready"}

After == {"published", "completed"}

BegunInv ==
  \A t \in Tasks :
    Live(t) /\ task[t].operation \in Operations /\ task[t].pc \in Before
      => HasStatus(task[t].operation, "implementing")

FailedInv ==
  \A o \in committed :
    /\ \A t \in Tasks : Live(t) /\ task[t].operation = o => task[t].pc \in After
    /\ HasStatus(o, "failed") =>
         operation[o].target \in published /\ Superseded(operation[o].target, table)

\* A step of the task t, as far as these three are concerned.
PlainTurn(t) ==
  /\ Live(t)
  /\ \A u \in Tasks \ {t} : task'[u] = task[u]
  /\ UNCHANGED <<service, late>>
  /\ task'[t] # NoTask =>
       /\ task'[t].operation = task[t].operation
       /\ task'[t].pc \notin Dead
       /\ task'[t].pc \in Before /\ task[t].operation \in Operations
            => RowHas(operation'[task[t].operation], "implementing")
       /\ task[t].pc \in After => task'[t].pc \in After
  /\ \A p \in Operations :
       \/ operation'[p] = operation[p]
       \/ /\ p = task[t].operation
          /\ task[t].pc \in After
               => operation'[p] # NoOperation /\ operation'[p].status # "failed"

PlainCommit(t) ==
  /\ committed' = committed \cup ({task[t].operation} \ {NoOperation})
  /\ UNCHANGED operation
  /\ task[t].pc = "ready"
  /\ task'[t] # NoTask /\ task'[t].pc = "published"

NewerStep ==
  /\ published \subseteq published'
  /\ \A target \in published : Superseded(target, table) => Superseded(target, table')

LEMMA PlainTurnKeeps ==
  ASSUME TaskInv, OwnInv, QuietInv, BegunInv, FailedInv, NewerStep, NEW t \in Tasks, PlainTurn(t),
         committed' = committed \/ PlainCommit(t)
  PROVE  QuietInv' /\ BegunInv' /\ FailedInv'
<1> DEFINE o == task[t].operation
<1>1. \A u \in Tasks :
        task'[u] # NoTask => task[u] # NoTask /\ task'[u].operation = task[u].operation
  BY DEF PlainTurn, Live
<1>2. \A p \in Operations : p # o => operation'[p] = operation[p]
  BY DEF PlainTurn
<1>3. ASSUME NEW u \in Tasks \ {t}, Live(u), task[u].operation \in Operations
      PROVE  task[u].operation # o
  BY <1>3 DEF OwnInv, OwnOperation, PlainTurn
<1>4. QuietInv'
  BY DEF QuietInv, PlainTurn, Live
<1>5. BegunInv'
  <2> SUFFICES ASSUME NEW u \in Tasks, task'[u] # NoTask, task'[u].operation \in Operations,
                      task'[u].pc \in Before
               PROVE  RowHas(operation'[task'[u].operation], "implementing")
    BY DEF BegunInv, Live, HasStatus, Submitted, RowHas
  <2>1. CASE u = t
    BY <2>1 DEF PlainTurn
  <2>2. CASE u # t
    <3>1. task'[u] = task[u] /\ Live(u) /\ task[u].operation # o
      BY <1>3, <2>2 DEF PlainTurn, Live
    <3>2. HasStatus(task[u].operation, "implementing")
      BY <3>1 DEF BegunInv
    <3>3. QED
      BY <1>2, <3>1, <3>2 DEF HasStatus, Submitted, RowHas
  <2>3. QED
    BY <2>1, <2>2
<1>6. ASSUME NEW p \in committed
      PROVE  /\ \A u \in Tasks : task'[u] # NoTask /\ task'[u].operation = p
                                   => task'[u].pc \in After
             /\ RowHas(operation'[p], "failed") =>
                  operation'[p].target \in published' /\ Superseded(operation'[p].target, table')
  <2>1. p \in Operations
    BY DEF TaskInv, TypeOK
  <2>2. ASSUME NEW u \in Tasks, task'[u] # NoTask, task'[u].operation = p
        PROVE  task'[u].pc \in After
    BY <1>1, <2>2 DEF FailedInv, PlainTurn, Live
  <2>3. ASSUME RowHas(operation'[p], "failed")
        PROVE  operation'[p].target \in published' /\ Superseded(operation'[p].target, table')
    <3>1. operation'[p] = operation[p]
      BY <2>1, <2>3 DEF FailedInv, PlainTurn, RowHas
    <3>2. operation[p].target \in published /\ Superseded(operation[p].target, table)
      BY <2>3, <3>1 DEF FailedInv, HasStatus, Submitted, RowHas
    <3>3. Superseded(operation[p].target, table')
      BY <3>2 DEF NewerStep
    <3>4. QED
      BY <3>1, <3>2, <3>3 DEF NewerStep, Superseded
  <2>4. QED
    BY <2>2, <2>3
<1>7. ASSUME NEW p \in committed', p \notin committed
      PROVE  /\ \A u \in Tasks : task'[u] # NoTask /\ task'[u].operation = p
                                   => task'[u].pc \in After
             /\ ~RowHas(operation'[p], "failed")
  <2>1. p = o /\ o # NoOperation /\ PlainCommit(t) /\ Live(t)
    BY <1>7 DEF PlainCommit, PlainTurn
  <2>2. o \in Operations
    BY <2>1, TaskType
  <2>3. ASSUME NEW u \in Tasks, task'[u] # NoTask, task'[u].operation = p
        PROVE  task'[u].pc \in After
    BY <1>1, <1>3, <2>1, <2>2, <2>3 DEF PlainCommit, After, Live
  <2>4. HasStatus(o, "implementing")
    BY <2>1, <2>2 DEF BegunInv, PlainCommit, Before
  <2>5. QED
    BY <2>1, <2>3, <2>4 DEF PlainCommit, HasStatus, RowHas
<1>8. FailedInv'
  BY <1>6, <1>7 DEF FailedInv, Live, HasStatus, Submitted, RowHas
<1>9. QED
  BY <1>4, <1>5, <1>8

\* A call of the store that took effect, and where the task is then.
LEMMA PlainCall ==
  ASSUME TaskInv, OwnInv, QuietInv, BegunInv, NEW t \in Tasks, CommittedCall(t),
         \A u \in Tasks \ {t} : task'[u] = task[u], UNCHANGED <<service, late>>,
         task'[t] # NoTask =>
           /\ task'[t].operation = task[t].operation
           /\ task'[t].pc \notin Dead
           /\ task'[t].pc \in Before => task[t].pc \in Before \cup {"scheduled"}
           /\ task[t].pc \in After => task'[t].pc \in After
  PROVE  PlainTurn(t)
<1> DEFINE o == task[t].operation
<1>1. Live(t)
  BY CallIsClient
<1>2. ASSUME NEW p \in Operations, operation'[p] # operation[p]
      PROVE  /\ p = o /\ operation'[p] # NoOperation /\ operation'[p].status # "failed"
             /\ task[t].pc \in Before \cup {"scheduled"} => operation'[p].status = "implementing"
  BY <1>2, CallRows DEF Before
<1>3. ASSUME task'[t] # NoTask, task'[t].pc \in Before, o \in Operations
      PROVE  RowHas(operation'[o], "implementing")
  <2>1. CASE operation'[o] # operation[o]
    BY <1>2, <1>3, <2>1 DEF RowHas
  <2>2. CASE operation'[o] = operation[o] /\ task[t].pc \in Before
    BY <1>1, <1>3, <2>2 DEF BegunInv, HasStatus, Submitted, RowHas
  <2>3. CASE operation'[o] = operation[o] /\ task[t].pc = "scheduled"
    <3>1. ClaimRow(t) /\ o # NoOperation
      BY <1>3, <2>3, TaskAssumption DEF CommittedCall, Is
    <3>2. /\ HasStatus(o, "accepted") /\ operation[o] \in Operation
          /\ operation' = [operation EXCEPT ![o] =
                          [operation[o] EXCEPT !.status = "implementing"]]
      BY <1>3, <3>1 DEF ClaimRow, BeginOperation, SetOperation, HasStatus, Submitted,
                        TaskInv, StoreInv, OperationInv
    <3>3. operation'[o].status = "implementing"
      BY <1>3, <3>2 DEF TaskInv, StoreInv, OperationInv, Operation
    <3>4. QED
      BY <2>3, <3>2, <3>3 DEF HasStatus
  <2>4. QED
    BY <1>3, <2>1, <2>2, <2>3
<1>4. QED
  BY <1>1, <1>2, <1>3 DEF PlainTurn

\* Another step of a task that leaves the operations alone.
LEMMA PlainQuiet ==
  ASSUME BegunInv, NEW t \in Tasks, Live(t), UNCHANGED <<operation, service, late>>,
         \A u \in Tasks \ {t} : task'[u] = task[u],
         task'[t] # NoTask =>
           /\ task'[t].operation = task[t].operation
           /\ task'[t].pc \notin Dead
           /\ task'[t].pc \in Before => task[t].pc \in Before
           /\ task[t].pc \in After => task'[t].pc \in After
  PROVE  PlainTurn(t)
BY DEF PlainTurn, BegunInv, HasStatus, Submitted, RowHas

\* Where a task is after an exception.
LEMMA ExceptionIs ==
  ASSUME TaskInv, NEW t \in Tasks, Live(t), AfterException(t)
  PROVE  /\ \A u \in Tasks \ {t} : task'[u] = task[u]
         /\ task'[t] # NoTask =>
              /\ task'[t].operation = task[t].operation /\ task'[t].target = task[t].target
              /\ task'[t].requirement = task[t].requirement
              /\ task'[t].pc = "erring"
              /\ task[t].pc \in {"claimed", "generated", "noted", "ready", "moved"}
<1>1. CASE End(t)
  BY <1>1, EndIs
<1>2. CASE Guarded(t) /\ Goto(t, "erring")
  <2>1. "erring" \in Phases
    BY DEF Phases
  <2>2. task[t].pc \in {"claimed", "generated", "noted", "ready", "moved"}
    BY <1>2 DEF Guarded, Is
  <2>3. QED
    BY <1>2, <2>1, <2>2, GotoType
<1>3. QED
  BY <1>1, <1>2 DEF AfterException

LEMMA WorkPlain ==
  ASSUME CrashesOnly, TaskInv, OwnInv, PlaceInv, QuietInv, BegunInv, FailedInv,
         NEW t \in Tasks, Work(t)
  PROVE  PlainTurn(t) /\ (committed' = committed \/ PlainCommit(t))
<1>1. Live(t) /\ task[t].pc \notin Dead /\ task[t].pc # "moved"
  <2>1. Live(t)
    BY AtIs, StepsCall, CallIsClient
       DEF Work, Generate, Publish, MoveLinks, Raise, Refused, Faulty, AnswerLost,
           ActivatedButRaised, FailRequirement, Failing, FailTask, Live
  <2>2. QED
    BY <2>1, TaskIsPlaced DEF QuietInv
<1>2. ASSUME NEW pc \in Phases \ Dead, Goto(t, pc), UNCHANGED <<service, late>>,
             \/ CommittedCall(t)
             \/ UNCHANGED operation /\ task[t].pc # "scheduled",
             pc \in Before => task[t].pc \in Before \cup {"scheduled"},
             task[t].pc \in After => pc \in After
      PROVE  PlainTurn(t)
  BY <1>1, <1>2, GotoType, PlainCall, PlainQuiet DEF Live, Before
<1>3. ASSUME End(t), UNCHANGED <<service, late>>, CommittedCall(t) \/ UNCHANGED operation
      PROVE  PlainTurn(t)
  BY <1>1, <1>3, EndIs, PlainCall, PlainQuiet
<1>4. /\ {"scheduled", "noted", "ready", "published", "completed", "erring", "failing"}
           \subseteq Phases \ Dead
      /\ After = {"published", "completed"} /\ Before = {"claimed", "generated", "noted", "ready"}
      /\ Dead = {"cancelled", "dropped"}
  BY DEF Phases, Dead, After, Before
<1>5. CASE Accept(t) \/ Revise(t)
  <2>1. /\ CommittedCall(t) /\ Goto(t, "scheduled") /\ task[t].pc \in {"revising", "created"}
        /\ UNCHANGED <<service, late, committed>>
    BY <1>5, StepsCall, AtIs DEF Accept, Revise, history
  <2>2. QED
    BY <1>2, <1>4, <2>1
<1>6. CASE ClaimWork(t)
  <2>1. /\ CommittedCall(t) /\ UNCHANGED <<service, late, committed>>
    BY <1>6, StepsCall DEF ClaimWork
  <2>2. QED
    BY <1>4, <1>6, <2>1, ClaimWorkIs, PlainCall
<1>7. ASSUME NEW digest \in Digests, Generate(t, digest)
      PROVE  PlainTurn(t) /\ committed' = committed
  <2>1. UNCHANGED <<operation, service, late, committed>>
    BY <1>7 DEF Generate, store, history
  <2>2. QED
    BY <1>1, <1>4, <1>7, <2>1, GenerateIs, PlainQuiet
<1>8. CASE Note(t) \/ NoteOperation(t) \/ Finalize(t) \/ Finish(t)
  <2>1. /\ CommittedCall(t) /\ UNCHANGED <<service, late, committed>>
        /\ \/ task[t].pc \in Before /\ \E pc \in {"noted", "ready"} : Goto(t, pc)
           \/ task[t].pc \in After /\ (End(t) \/ Goto(t, "completed"))
    BY <1>8, StepsCall, AtIs
       DEF Note, AfterNote, NoteOperation, Finalize, Finish, Before, After, history
  <2>2. QED
    BY <1>2, <1>3, <1>4, <2>1
<1>9. CASE Publish(t)
  <2>1. /\ task[t].pc = "ready" /\ ~task[t].moving /\ Goto(t, "published")
        /\ committed' = committed \cup ({task[t].operation} \ {NoOperation})
        /\ UNCHANGED <<operation, service, late>>
    BY <1>1, <1>9, AtIs, TaskIsPlaced DEF Placed, Publish, CommitRoute, store
  <2>2. PlainTurn(t)
    BY <1>2, <1>4, <2>1
  <2>3. PlainCommit(t)
    BY <1>1, <1>4, <2>1, GotoType DEF PlainCommit, Live
  <2>4. QED
    BY <2>2, <2>3
<1>10. CASE MoveLinks(t)
  BY <1>1, <1>10, AtIs DEF MoveLinks
<1>11. CASE Raise(t) \/ AnswerLost(t)
  <2>1. /\ AfterException(t) /\ UNCHANGED <<service, late, committed>>
        /\ CommittedCall(t) \/ UNCHANGED operation
    BY <1>11 DEF Raise, AnswerLost, store, history
  <2>2. QED
    BY <1>1, <1>4, <2>1, ExceptionIs, PlainCall, PlainQuiet
<1>12. CASE ActivatedButRaised(t)
  BY <1>12 DEF ActivatedButRaised, CrashesOnly
<1>13. CASE FailRequirement(t)
  <2>1. /\ task[t].pc = "erring" /\ ~Is(t, "cancelled")
        /\ UNCHANGED <<operation, service, late, committed>>
    BY <1>1, <1>13, AtIs
       DEF FailRequirement, Failing, FailImplementation, Dead, store, history
  <2>2. End(t) \/ Goto(t, "failing")
    BY <1>13, <2>1 DEF FailRequirement, AfterFailure
  <2>3. QED
    BY <1>2, <1>3, <1>4, <2>1, <2>2
<1>14. CASE FailTask(t)
  <2>1. /\ task[t].pc = "failing" /\ End(t) /\ UNCHANGED <<service, late, committed>>
    BY <1>1, <1>14, AtIs DEF FailTask, Dead, history
  <2>2. ASSUME NEW p \in Operations, operation'[p] # operation[p]
        PROVE  p = task[t].operation
    BY <1>14, <2>2
       DEF FailTask, FailOperation, SetOperation, TaskInv, StoreInv, OperationInv, store
  <2>3. QED
    BY <1>1, <1>4, <2>1, <2>2, EndIs DEF PlainTurn
<1>15. QED
  BY <1>5, <1>6, <1>7, <1>8, <1>9, <1>10, <1>11, <1>12, <1>13, <1>14 DEF Work

\* Startup: what it reports failed was not found, although it was published.
LEMMA StartupServed ==
  ASSUME TaskInv, OwnInv, VersionInv, QuietInv, BegunInv, FailedInv, Startup
  PROVE  QuietInv' /\ BegunInv' /\ FailedInv'
<1>1. /\ RecoverInterrupted(table) /\ service = "stopped" /\ service' = "running"
      /\ UNCHANGED <<table, task, late, committed, published>>
      /\ \A t \in Tasks : ~Live(t)
  BY DEF Startup, QuietInv, history
<1>2. QuietInv' /\ BegunInv'
  BY <1>1 DEF QuietInv, BegunInv, Live
<1>3. ASSUME NEW o \in committed, RowHas(operation'[o], "failed")
      PROVE  operation'[o].target \in published' /\ Superseded(operation'[o].target, table')
  <2>1. o \in Operations /\ operation \in [Operations -> Operation \cup {NoOperation}]
    BY DEF TaskInv, TypeOK, StoreInv, OperationInv
  <2>2. CASE InProgress(o)
    <3> DEFINE target == operation[o].target
    <3>1. /\ operation[o] \in Operation /\ HasStatus(o, "implementing")
          /\ target \in published
      BY <2>1, <2>2 DEF InProgress, Submitted, HasStatus, OwnInv, CommittedKnown
    <3>2. operation'[o] = [operation[o] EXCEPT !.status = RecoveredStatus(o, table)]
      BY <1>1, <2>1, <2>2 DEF RecoverInterrupted
    <3>3. operation'[o].status = RecoveredStatus(o, table) /\ operation'[o].target = target
      BY <3>1, <3>2 DEF Operation
    <3>4. ~Published(target, table)
      BY <1>3, <3>1, <3>3 DEF RowHas, RecoveredStatus
    <3>5. Superseded(target, table)
      BY <3>1, <3>4 DEF VersionInv
    <3>6. QED
      BY <1>1, <3>1, <3>3, <3>5
  <2>3. CASE ~InProgress(o)
    <3>1. operation'[o] = operation[o]
      BY <1>1, <2>1, <2>3 DEF RecoverInterrupted
    <3>2. QED
      BY <1>1, <1>3, <3>1 DEF FailedInv, RowHas, HasStatus, Submitted
  <2>4. QED
    BY <2>2, <2>3
<1>4. FailedInv'
  BY <1>1, <1>3 DEF FailedInv, RowHas, HasStatus, Submitted, Live
<1>5. QED
  BY <1>2, <1>4

\* A request starts work on an operation that no row has.
LEMMA RequestServed ==
  ASSUME TaskInv, OwnInv, QuietInv, BegunInv, FailedInv, NEW t \in Tasks, Request(t)
  PROVE  QuietInv' /\ BegunInv' /\ FailedInv'
<1>1. UNCHANGED operation /\ (Starts(t) \/ UNCHANGED <<service, table, task, late, history>>)
  BY RequestIs
<1>2. CASE UNCHANGED <<service, table, task, late, history>>
  BY <1>1, <1>2 DEF QuietInv, BegunInv, FailedInv, Live, HasStatus, Submitted, Superseded, history
<1>3. CASE Starts(t)
  <2>1. /\ Running /\ \A u \in Tasks \ {t} : task'[u] = task[u]
        /\ task'[t].pc \in {"revising", "created", "scheduled"}
        /\ task'[t].operation \in Operations => ~Submitted(task'[t].operation)
        /\ UNCHANGED <<service, table, late, committed, published>>
    BY <1>3, StartsIs DEF FreshOperation, history
  <2>2. QuietInv'
    BY <2>1 DEF QuietInv, Running, Dead, Live
  <2>3. BegunInv'
    BY <1>1, <2>1 DEF BegunInv, Before, Live, HasStatus, Submitted
  <2>4. ASSUME NEW o \in committed
        PROVE  task'[t].operation # o
    BY <2>1, <2>4 DEF OwnInv, CommittedKnown, TaskInv, TypeOK
  <2>5. FailedInv'
    BY <1>1, <2>1, <2>4 DEF FailedInv, Live, HasStatus, Submitted, Superseded
  <2>6. QED
    BY <2>2, <2>3, <2>5
<1>4. QED
  BY <1>1, <1>2, <1>3

LEMMA NextServed ==
  ASSUME CrashesOnly, TaskInv, OwnInv, PlaceInv, VersionInv, QuietInv, BegunInv, FailedInv,
         [NextTask]_vars
  PROVE  QuietInv' /\ BegunInv' /\ FailedInv'
<1>1. NewerStep
  <2>1. CASE UNCHANGED <<table, published>>
    BY <2>1 DEF NewerStep, Superseded
  <2>2. ASSUME NEW target \in Target, Publishes(target)
        PROVE  NewerStep
    BY <2>2, NewerKeeps DEF NewerStep, Publishes
  <2>3. QED
    BY <2>1, <2>2, StepPublishes
<1>2. ASSUME UNCHANGED <<operation, task, late, committed>>, UNCHANGED service
      PROVE  QuietInv' /\ BegunInv' /\ FailedInv'
  BY <1>1, <1>2
     DEF NewerStep, QuietInv, BegunInv, FailedInv, Live, HasStatus, Submitted, Superseded
<1>3. ASSUME NEW t \in Tasks, Work(t)
      PROVE  QuietInv' /\ BegunInv' /\ FailedInv'
  BY <1>1, <1>3, WorkPlain, PlainTurnKeeps
<1>4. CASE Crash
  <2>1. /\ service' = "stopped" /\ late' = {} /\ UNCHANGED <<operation, committed>>
        /\ \A t \in Tasks : task'[t] = NoTask
    BY <1>4 DEF Crash, store, history
  <2>2. QED
    BY <1>1, <2>1
       DEF NewerStep, QuietInv, BegunInv, FailedInv, Live, HasStatus, Submitted, Superseded
<1>5. ASSUME NEW t \in Tasks, Cancel(t)
      PROVE  FALSE
  BY <1>5 DEF Cancel, QuietInv
<1>6. CASE Shutdown \/ Exit \/ Late
  BY <1>6 DEF Shutdown, CrashesOnly, Exit, Late, QuietInv
<1>7. CASE \/ \E q \in Requirements : Change(q)
           \/ \E route \in Routes, digest \in Digests : PutRoute(route, digest)
           \/ UNCHANGED vars
  <2>1. UNCHANGED <<operation, task, late, committed>> /\ UNCHANGED service
    BY <1>7 DEF Change, EditRequirement, UpdateContent, RebaseRequirement, RebaseRoute,
                LinkRequirement, Create, PutRoute, vars, store, history
  <2>2. QED
    BY <1>2, <2>1
<1>8. QED
  BY <1>3, <1>4, <1>5, <1>6, <1>7, RequestServed, StartupServed DEF NextTask

(***************************************************************************)
(* Work that was published and is served is not reported as failed         *)
(* (api.py:1880-1882), whatever fails on the way, as long as no route      *)
(* moves, an activation that was made does not raise, and the service      *)
(* stops only by a crash.                                                  *)
(***************************************************************************)
THEOREM ServedIsReported == NoMoves /\ CrashesOnly => (TaskSpec => []ServedIsNotFailed)
<1> SUFFICES ASSUME NoMoves, CrashesOnly PROVE TaskSpec => []ServedIsNotFailed
  OBVIOUS
<1> DEFINE ServedInv == QuietInv /\ BegunInv /\ FailedInv
<1>1. Init => ServedInv
  BY DEF Init, QuietInv, BegunInv, FailedInv, Live
<1>2. TaskInv /\ OwnInv /\ PlaceInv /\ VersionInv /\ ServedInv /\ [NextTask]_vars => ServedInv'
  BY NextServed
<1>3. TaskInv /\ ServedInv => ServedIsNotFailed
  <2> SUFFICES ASSUME TaskInv, ServedInv, NEW o \in committed, HasStatus(o, "failed"),
                      Published(operation[o].target, table)
               PROVE  FALSE
    BY DEF ServedIsNotFailed
  <2> DEFINE target == operation[o].target
  <2>1. target \in published /\ Superseded(target, table) /\ Published(target, table)
    BY DEF FailedInv
  <2>2. target \in Target /\ target.version \in Nat
    BY <2>1, StoreAssumption DEF TaskInv, TypeOK, Target
  <2>3. QED
    BY <2>1, <2>2 DEF Superseded, Published
<1> HIDE DEF ServedInv
<1>4. QED
  BY <1>1, <1>2, <1>3, TaskInvariant, OwnInvariant, PlaceInvariant, VersionInvariant, PTL
     DEF TaskSpec

-----------------------------------------------------------------------------
(* A task that fails returns its own claim, where an activation that was   *)
(* made is reported and two sources of a version differ.                   *)

OneSource == "activation" \notin Faults /\ "collision" \notin Faults

ServiceInv ==
  /\ service = "stopped" => \A t \in Tasks : ~Live(t)
  /\ late # {} => service = "stopping"
  /\ \A t \in Tasks : Live(t) /\ task[t].pc \in Dead => service = "stopping"

\* Two tasks have different targets, and a thread that goes on has another target than
\* a task that does.
DistinctInv ==
  /\ \A t, u \in Tasks :
       Live(t) /\ Live(u) /\ t # u /\ task[t].target # NoTarget
         => task[u].target # task[t].target
  /\ \A w \in late, t \in Tasks :
       Live(t) /\ task[t].target = w.target => task[t].pc \in Dead

\* Phases with a target that is not committed yet, and before one.
Unpublished == {"generated", "noted", "ready", "erring"}

FreshInv ==
  \A t \in Tasks : Live(t) /\ task[t].pc \in Unpublished => task[t].target \notin published

\* Phases in which a task has a claim to give back.
Holding == {"claimed", "generated", "noted", "ready", "erring", "cancelled"}

\* The row is claimed for the work w, and has no other receipt.
Held(w, row) ==
  row # NoRequirement /\ row.status = "implementing" /\ row.target \in {NoTarget, w.target}

HoldInv ==
  \A t \in Tasks :
    Live(t) /\ task[t].pc \in Holding
      => /\ owner[task[t].requirement] = t
         /\ Held(task[t], requirement[task[t].requirement])

\* What every step of a task has in common.
TaskTurn(t) ==
  /\ Live(t)
  /\ \A u \in Tasks \ {t} : task'[u] = task[u]
  /\ service' = service
  /\ task'[t] # NoTask =>
       /\ task'[t].requirement = task[t].requirement
       /\ task'[t].operation = task[t].operation
       /\ \/ task'[t].target = task[t].target
          \/ \E digest \in Digests : Generate(t, digest)
       /\ task[t].pc \in Dead => task'[t].pc \in Dead
       /\ task'[t].pc \in Dead => task[t].pc \in Dead \/ service = "stopping"
  /\ \/ late' = late
     \/ /\ service = "stopping" /\ late' = late \cup {task[t]}
        /\ task[t].pc \in {"ready", "moved"}
        /\ task'[t] # NoTask /\ task'[t].pc = "cancelled"

LEMMA GotoTurn ==
  ASSUME TaskInv, NEW t \in Tasks, Live(t), NEW pc \in Phases, Goto(t, pc),
         UNCHANGED <<service, late>>, task[t].pc \in Dead => pc \in Dead,
         pc \in Dead => task[t].pc \in Dead \/ service = "stopping"
  PROVE  TaskTurn(t)
BY GotoType DEF TaskTurn

LEMMA EndTurn ==
  ASSUME TaskInv, NEW t \in Tasks, Live(t), End(t), UNCHANGED <<service, late>>
  PROVE  TaskTurn(t)
BY EndIs DEF TaskTurn

LEMMA ClaimWorkTurn ==
  ASSUME TaskInv, NEW t \in Tasks, ClaimWork(t)
  PROVE  TaskTurn(t)
<1> DEFINE row == requirement[task[t].requirement]
           work == [task[t] EXCEPT !.pc = "claimed"]
           claimed == IF work.operation # NoOperation THEN work
                      ELSE [work EXCEPT !.path = row.path, !.base = row.link]
<1>1. /\ Live(t) /\ task[t].pc = "scheduled" /\ task[t] \in Task
      /\ \A u \in Tasks \ {t} : task'[u] = task[u]
      /\ task'[t].pc = "claimed" /\ task'[t].requirement = task[t].requirement
      /\ task'[t].operation = task[t].operation
  BY ClaimWorkIs, TaskType
<1>2. task' = [task EXCEPT ![t] = claimed] /\ UNCHANGED <<service, late>>
  BY DEF ClaimWork
<1>3. work \in Task /\ work.target = task[t].target
  BY <1>1 DEF Task, Phases
<1> HIDE DEF work
<1>4. claimed.target = task[t].target
  BY <1>3 DEF Task
<1> HIDE DEF claimed
<1>5. task'[t] = claimed
  BY <1>2 DEF TaskInv, TypeOK
<1>6. QED
  BY <1>1, <1>2, <1>4, <1>5 DEF TaskTurn, Dead

LEMMA WorkTurn ==
  ASSUME TaskInv, NEW t \in Tasks, Work(t) \/ Cancel(t)
  PROVE  TaskTurn(t)
<1>1. Live(t)
  BY AtIs, StepsCall, CallIsClient
     DEF Work, Cancel, Generate, Publish, MoveLinks, Raise, Refused, Faulty, AnswerLost,
         ActivatedButRaised, FailRequirement, Failing, FailTask, Live
<1>2. /\ {"scheduled", "noted", "ready", "moved", "published", "completed", "erring", "failing"}
           \subseteq Phases \ Dead
      /\ {"cancelled", "dropped"} \subseteq Phases
      /\ Dead = {"cancelled", "dropped"}
  BY DEF Phases, Dead
<1>3. ASSUME AfterException(t), UNCHANGED <<service, late>>
      PROVE  TaskTurn(t)
  BY <1>1, <1>2, <1>3, GotoTurn, EndTurn DEF AfterException, Guarded, Is
<1>4. CASE Accept(t) \/ Revise(t) \/ Note(t) \/ NoteOperation(t) \/ Publish(t) \/ MoveLinks(t)
           \/ Finalize(t) \/ Finish(t) \/ ActivatedButRaised(t)
  <2>1. /\ UNCHANGED <<service, late>> /\ task[t].pc \notin Dead
        /\ \/ End(t)
           \/ \E pc \in {"scheduled", "noted", "ready", "moved", "published", "completed",
                         "erring"} : Goto(t, pc)
    BY <1>2, <1>4, AtIs
       DEF Accept, Revise, Note, AfterNote, NoteOperation, Publish, MoveLinks, Finalize, Finish,
           ActivatedButRaised, CommitRoute
  <2>2. QED
    BY <1>1, <1>2, <2>1, GotoTurn, EndTurn
<1>5. CASE Raise(t) \/ AnswerLost(t)
  BY <1>3, <1>5 DEF Raise, AnswerLost
<1>6. CASE FailRequirement(t)
  <2>1. /\ UNCHANGED <<service, late>>
        /\ \/ End(t)
           \/ task[t].pc = "cancelled" /\ Goto(t, "dropped")
           \/ task[t].pc = "erring" /\ Goto(t, "failing")
    BY <1>6, AtIs DEF FailRequirement, Failing, AfterFailure
  <2>2. QED
    BY <1>1, <1>2, <2>1, GotoTurn, EndTurn
<1>7. CASE FailTask(t)
  BY <1>1, <1>7, EndTurn DEF FailTask
<1>8. CASE Cancel(t)
  <2>1. /\ service = "stopping" /\ service' = service /\ task[t].pc \notin Dead
        /\ End(t) \/ Goto(t, "cancelled")
        /\ Guarded(t) => Goto(t, "cancelled")
        /\ late' = late \/ (late' = late \cup {task[t]} /\ OutlivesTask(t))
    BY <1>2, <1>8 DEF Cancel
  <2>2. OutlivesTask(t) => task[t].pc \in {"ready", "moved"} /\ Guarded(t)
    BY DEF OutlivesTask, Guarded, Is
  <2>3. CASE End(t) /\ ~Guarded(t)
    BY <1>1, <2>1, <2>2, <2>3, EndIs DEF TaskTurn
  <2>4. CASE Goto(t, "cancelled")
    BY <1>1, <1>2, <2>1, <2>2, <2>4, GotoType DEF TaskTurn, Live
  <2>5. QED
    BY <2>1, <2>3, <2>4
<1>9. ASSUME NEW digest \in Digests, Generate(t, digest)
      PROVE  TaskTurn(t)
  <2>1. UNCHANGED <<service, late>>
    BY <1>9 DEF Generate
  <2>2. task'[t].requirement = task[t].requirement
    BY <1>9, TaskType, <1>1 DEF Generate, Task, TaskInv, TypeOK
  <2>3. QED
    BY <1>9, <2>1, <2>2, GenerateIs DEF TaskTurn, Dead
<1>10. QED
  BY <1>4, <1>5, <1>6, <1>7, <1>8, <1>9, ClaimWorkTurn DEF Work

LEMMA GenerateGives ==
  ASSUME TaskInv, NEW t \in Tasks, NEW digest \in Digests, Generate(t, digest)
  PROVE  /\ Running /\ task'[t].target = Candidate(t, digest) /\ Distinct(Candidate(t, digest))
         /\ task'[t].pc = "generated" /\ task[t].pc = "claimed" /\ Live(t)
         /\ UNCHANGED <<store, service, table, late, history>>
<1>1. task[t] \in Task
  BY GenerateIs, TaskType
<1>2. task'[t].target = Candidate(t, digest)
  BY <1>1 DEF Generate, Task, TaskInv, TypeOK
<1>3. QED
  BY <1>2, GenerateIs DEF Generate, At

\* The other steps, as far as tasks and their threads are concerned.
LEMMA OtherTurns ==
  ASSUME TaskInv, [NextTask]_vars, ~\E t \in Tasks : Work(t) \/ Cancel(t)
  PROVE  \/ \E t \in Tasks : Starts(t) /\ Request(t)
         \/ Crash
         \/ Shutdown \/ Exit \/ Startup
         \/ service' = service /\ task' = task /\ late' \subseteq late
<1>1. ASSUME NEW t \in Tasks, Request(t)
      PROVE  Starts(t) \/ UNCHANGED <<service, task, late>>
  BY <1>1, RequestIs
<1>2. ASSUME Late
      PROVE  service' = service /\ task' = task /\ late' \subseteq late
  BY <1>2 DEF Late, LateCommit, CommitRoute, LateMoveLinks
<1>3. QED
  BY <1>1, <1>2 DEF NextTask, Change, PutRoute, vars

LEMMA NextKeepsService ==
  ASSUME TaskInv, ServiceInv, [NextTask]_vars
  PROVE  ServiceInv'
<1>1. ASSUME NEW t \in Tasks, TaskTurn(t)
      PROVE  ServiceInv'
  BY <1>1 DEF TaskTurn, ServiceInv, Live
<1>2. ASSUME NEW t \in Tasks, Starts(t)
      PROVE  ServiceInv'
  BY <1>2, StartsIs DEF ServiceInv, Running, Dead, Live
<1>3. CASE Crash
  BY <1>3 DEF Crash, ServiceInv, Live
<1>4. CASE Shutdown \/ Exit
  BY <1>4 DEF Shutdown, Exit, Running, ServiceInv, Live
<1>5. CASE Startup
  BY <1>5 DEF Startup, ServiceInv, Live
<1>6. CASE service' = service /\ task' = task /\ late' \subseteq late
  BY <1>6 DEF ServiceInv, Live
<1>7. QED
  BY <1>1, <1>2, <1>3, <1>4, <1>5, <1>6, WorkTurn, OtherTurns

LEMMA ServiceInvariant == TaskSpec => []ServiceInv
<1>1. Init => ServiceInv
  BY DEF Init, ServiceInv, Live
<1>2. TaskInv /\ ServiceInv /\ [NextTask]_vars => ServiceInv'
  BY NextKeepsService
<1>3. QED
  BY <1>1, <1>2, TaskInvariant, PTL DEF TaskSpec

LEMMA NextKeepsDistinct ==
  ASSUME "collision" \notin Faults, TaskInv, ServiceInv, DistinctInv, [NextTask]_vars
  PROVE  DistinctInv'
<1>1. ASSUME NEW t \in Tasks, TaskTurn(t)
      PROVE  DistinctInv'
  <2>1. \A u \in Tasks : task'[u] # NoTask => Live(u)
    BY <1>1 DEF TaskTurn, Live
  <2>2. ASSUME task'[t] # NoTask, task'[t].target = task[t].target
        PROVE  \A u \in Tasks : task'[u] # NoTask => task'[u].target = task[u].target
    BY <1>1, <2>2 DEF TaskTurn
  <2>3. ASSUME NEW digest \in Digests, Generate(t, digest), NEW u \in Tasks \ {t}, Live(u)
        PROVE  task[u].target # task'[t].target
    BY <2>3, GenerateGives DEF Distinct, Live
  <2>4. ASSUME NEW u \in Tasks, NEW v \in Tasks, task'[u] # NoTask, task'[v] # NoTask, u # v,
               task'[u].target # NoTarget
        PROVE  task'[v].target # task'[u].target
    <3>1. Live(u) /\ Live(v)
      BY <2>1, <2>4
    <3>2. u # t => task'[u] = task[u]
      BY <1>1 DEF TaskTurn
    <3>3. v # t => task'[v] = task[v]
      BY <1>1 DEF TaskTurn
    <3>4. task'[t] # NoTask =>
            task'[t].target = task[t].target \/ \E digest \in Digests : Generate(t, digest)
      BY <1>1 DEF TaskTurn
    <3>5. QED
      BY <2>3, <2>4, <3>1, <3>2, <3>3, <3>4 DEF DistinctInv
  <2>5. ASSUME NEW w \in late', NEW u \in Tasks, task'[u] # NoTask, task'[u].target = w.target
        PROVE  task'[u].pc \in Dead
    <3>1. CASE w \in late
      <4>1. service = "stopping" /\ ~Running
        BY <3>1 DEF ServiceInv, Running
      <4>2. task'[u].target = task[u].target /\ Live(u)
        BY <1>1, <2>1, <2>5, <4>1, GenerateGives DEF TaskTurn
      <4>3. task[u].pc \in Dead
        BY <2>5, <3>1, <4>2 DEF DistinctInv
      <4>4. QED
        BY <1>1, <2>5, <4>3 DEF TaskTurn
    <3>2. CASE w \notin late
      <4>1. w = task[t] /\ task[t].pc \in {"ready", "moved"} /\ service = "stopping"
            /\ task'[t].pc = "cancelled" /\ Live(t)
        BY <1>1, <2>5, <3>2 DEF TaskTurn
      <4>2. w.target # NoTarget
        BY <4>1, TaskType, NoTargetAssumption DEF Shaped
      <4>3. CASE u = t
        BY <4>1, <4>3 DEF Dead
      <4>4. CASE u # t
        BY <1>1, <2>1, <2>5, <4>1, <4>2, <4>4 DEF TaskTurn, DistinctInv
      <4>5. QED
        BY <4>3, <4>4
    <3>3. QED
      BY <3>1, <3>2
  <2>6. QED
    BY <2>4, <2>5 DEF DistinctInv, Live
<1>2. ASSUME NEW t \in Tasks, Starts(t)
      PROVE  DistinctInv'
  <2>1. /\ \A u \in Tasks \ {t} : task'[u] = task[u]
        /\ task'[t].target = NoTarget /\ late' = late /\ Running
    BY <1>2, StartsIs
  <2>2. late = {}
    BY <2>1 DEF ServiceInv, Running
  <2>3. QED
    BY <2>1, <2>2 DEF DistinctInv, Live
<1>3. CASE Crash
  BY <1>3 DEF Crash, DistinctInv, Live
<1>4. CASE Shutdown \/ Exit \/ Startup
  BY <1>4 DEF Shutdown, Exit, Startup, DistinctInv, Live
<1>5. CASE service' = service /\ task' = task /\ late' \subseteq late
  BY <1>5 DEF DistinctInv, Live
<1>6. QED
  BY <1>1, <1>2, <1>3, <1>4, <1>5, WorkTurn, OtherTurns

LEMMA DistinctInvariant == "collision" \notin Faults => (TaskSpec => []DistinctInv)
<1> SUFFICES ASSUME "collision" \notin Faults PROVE TaskSpec => []DistinctInv
  OBVIOUS
<1>1. Init => DistinctInv
  BY DEF Init, DistinctInv, Live
<1>2. TaskInv /\ ServiceInv /\ DistinctInv /\ [NextTask]_vars => DistinctInv'
  BY NextKeepsDistinct
<1>3. QED
  BY <1>1, <1>2, TaskInvariant, ServiceInvariant, PTL DEF TaskSpec

\* The steps that leave a task with a claim.
LEMMA HoldingTurn ==
  ASSUME TaskInv, NEW t \in Tasks, Work(t) \/ Cancel(t), task'[t] # NoTask,
         task'[t].pc \in Holding
  PROVE  \/ ClaimWork(t)
         \/ \E digest \in Digests : Generate(t, digest)
         \/ /\ task[t].pc \in {"claimed", "generated", "noted", "ready", "moved"}
            /\ task'[t].target = task[t].target
<1>1. TaskTurn(t) /\ Live(t)
  BY WorkTurn DEF TaskTurn
<1>2. ~End(t)
  BY EndIs
<1>3. \A pc \in {"scheduled", "moved", "published", "completed", "failing", "dropped"} :
        pc \in Phases /\ ~Goto(t, pc)
  BY <1>1, GotoType DEF Holding, Phases
<1>4. ASSUME task[t].pc \in {"claimed", "generated", "noted", "ready", "moved"}
      PROVE  \/ \E digest \in Digests : Generate(t, digest)
             \/ /\ task[t].pc \in {"claimed", "generated", "noted", "ready", "moved"}
                /\ task'[t].target = task[t].target
  BY <1>1, <1>4 DEF TaskTurn
<1>5. CASE Accept(t) \/ Revise(t) \/ Finalize(t) \/ Finish(t) \/ FailTask(t) \/ FailRequirement(t)
           \/ Publish(t) \/ MoveLinks(t)
  BY <1>2, <1>3, <1>5
     DEF Accept, Revise, Finalize, Finish, FailTask, FailRequirement, AfterFailure,
         Publish, MoveLinks
<1>6. CASE Note(t) \/ NoteOperation(t) \/ ActivatedButRaised(t)
  BY <1>4, <1>6, AtIs DEF Note, NoteOperation, ActivatedButRaised
<1>7. CASE Raise(t) \/ AnswerLost(t) \/ Cancel(t)
  <2>1. Guarded(t)
    BY <1>2, <1>7 DEF Raise, AnswerLost, Cancel, AfterException
  <2>2. QED
    BY <1>4, <2>1 DEF Guarded, Is
<1>8. QED
  BY <1>5, <1>6, <1>7 DEF Work

\* The candidate is a version that the route never had.
LEMMA CandidateIsNew ==
  ASSUME TaskInv, PlaceInv, VersionInv, NEW t \in Tasks, NEW digest \in Digests,
         Generate(t, digest)
  PROVE  Candidate(t, digest) \notin published
<1> DEFINE candidate == Candidate(t, digest)
           base == task[t].base
<1>1. /\ Live(t) /\ Generatable(t) /\ base \in Link \cup {NoLink} /\ published \subseteq Target
      /\ Placed(task[t], requirement[task[t].requirement], operation[task[t].operation])
      /\ task[t].pc = "claimed"
  BY AtIs, TaskType, TaskIsPlaced DEF Generate, TaskInv, TypeOK
<1> SUFFICES ASSUME candidate \in published PROVE FALSE
  OBVIOUS
<1>2. base # NoLink => base.route = task[t].path /\ ~IsRouteMove(t)
  BY <1>1 DEF Placed, IsRouteMove
<1>3. /\ candidate.route = task[t].path
      /\ base # NoLink => candidate.version = base.version + 1
  BY <1>2 DEF Candidate, AsTarget
<1> HIDE DEF candidate
<1>4. /\ table[task[t].path] # NoPublication
      /\ \/ candidate.version < table[task[t].path].version
         \/ table[task[t].path].version = candidate.version
  <2>1. /\ table[candidate.route] # NoPublication
        /\ Superseded(candidate, table) \/ Published(candidate, table)
    BY DEF VersionInv
  <2>2. CASE Published(candidate, table)
    <3>1. table[candidate.route].version = candidate.version
      BY <2>2 DEF Published
    <3>2. QED
      BY <1>3, <2>1, <3>1
  <2>3. QED
    BY <1>3, <2>1, <2>2 DEF Superseded
<1>5. base # NoLink /\ table[task[t].path].version = base.version
  BY <1>1, <1>2, <1>4 DEF Generatable
<1>6. base.version \in Nat
  BY <1>1, <1>5, StoreAssumption DEF Link
<1>7. QED
  BY <1>3, <1>4, <1>5, <1>6

\* What is published now is the target of no task that goes on before its commit.
LEMMA NewIsDone ==
  ASSUME OneSource, TaskInv, PlaceInv, ServiceInv, DistinctInv, [NextTask]_vars,
         NEW target \in published', target \notin published,
         NEW t \in Tasks, Live(t), task[t].target = target
  PROVE  task'[t] # NoTask => task'[t].pc \notin Unpublished
<1>1. ASSUME NEW u \in Tasks, Publish(u)
      PROVE  task'[t] # NoTask => task'[t].pc \notin Unpublished
  <2>1. /\ Live(u) /\ task[u].pc = "ready" /\ target = task[u].target
        /\ \E pc \in {"published", "moved"} : Goto(u, pc)
    BY <1>1, AtIs DEF Publish, CommitRoute
  <2>2. target # NoTarget
    BY <2>1, TaskType, NoTargetAssumption DEF Shaped
  <2>3. t = u
    BY <2>1, <2>2 DEF DistinctInv
  <2>4. task'[t].pc \in {"published", "moved"}
    BY <2>1, <2>3, GotoType DEF Phases
  <2>5. QED
    BY <2>4 DEF Unpublished
<1>2. ASSUME NEW w \in late, LateCommit(w)
      PROVE  task'[t].pc \notin Unpublished
  <2>1. target = w.target /\ task' = task
    BY <1>2 DEF LateCommit, CommitRoute
  <2>2. QED
    BY <2>1 DEF DistinctInv, Dead, Unpublished
<1>3. ASSUME NEW route \in Routes, NEW digest \in Digests, PutRoute(route, digest)
      PROVE  FALSE
  BY <1>3 DEF PutRoute, Distinct, OneSource, Live
<1>4. ASSUME NEW u \in Tasks, Work(u) \/ Cancel(u), ~Publish(u)
      PROVE  FALSE
  BY <1>4 DEF Work, Cancel, Accept, Revise, ClaimWork, Generate, Note, NoteOperation, MoveLinks,
     Finalize, Finish, Raise, AnswerLost, ActivatedButRaised, OneSource,
     FailRequirement, FailTask,
     history
<1>5. ASSUME NEW u \in Tasks, Request(u)
      PROVE  FALSE
  BY <1>5, RequestIs, StartsIs DEF history
<1>6. CASE Late
  BY <1>2, <1>6 DEF Late, LateMoveLinks, history
<1>7. CASE \/ \E q \in Requirements : Change(q)
           \/ Shutdown \/ Exit \/ Crash \/ Startup \/ UNCHANGED vars
  <2>1. published' = published
    BY <1>7 DEF Change, Shutdown, Exit, Crash, Startup, vars, history
  <2>2. QED
    BY <2>1
<1>8. QED
  BY <1>1, <1>3, <1>4, <1>5, <1>6, <1>7 DEF NextTask

LEMMA NextKeepsFresh ==
  ASSUME OneSource, TaskInv, TaskInv', PlaceInv, VersionInv, ServiceInv, DistinctInv, FreshInv,
         [NextTask]_vars
  PROVE  FreshInv'
<1> SUFFICES ASSUME NEW t \in Tasks, task'[t] # NoTask, task'[t].pc \in Unpublished
             PROVE  task'[t].target \notin published'
  BY DEF FreshInv, Live
<1>1. NoTarget \notin published'
  BY NoTargetAssumption DEF TaskInv, TypeOK
<1>2. ASSUME Live(t), task'[t].target = task[t].target, task[t].target \notin published
      PROVE  task'[t].target \notin published'
  BY <1>2, NewIsDone
<1>3. ASSUME NEW digest \in Digests, Generate(t, digest)
      PROVE  task'[t].target \notin published'
  BY <1>3, GenerateGives, CandidateIsNew DEF history
<1>4. CASE Work(t) \/ Cancel(t)
  <2>1. Live(t)
    BY <1>4, WorkTurn DEF TaskTurn
  <2>2. CASE ClaimWork(t)
    BY <2>2, ClaimWorkIs DEF Unpublished
  <2>3. CASE /\ task[t].pc \in {"claimed", "generated", "noted", "ready", "moved"}
             /\ task'[t].target = task[t].target
    <3>1. CASE task[t].pc = "claimed"
      BY <1>1, <2>1, <2>3, <3>1, TaskIsPlaced DEF Placed, Early
    <3>2. CASE task[t].pc \in Unpublished
      BY <1>2, <2>1, <2>3, <3>2 DEF FreshInv
    <3>3. QED
      BY <2>1, <2>3, <3>1, <3>2, TaskIsPlaced DEF Unpublished
  <2>4. QED
    BY <1>3, <1>4, <2>2, <2>3, HoldingTurn DEF Holding, Unpublished
<1>5. CASE task'[t] = task[t]
  BY <1>2, <1>5 DEF FreshInv, Live
<1>6. ASSUME NEW u \in Tasks, Starts(u), task'[t] # task[t]
      PROVE  FALSE
  BY <1>6, StartsIs DEF Unpublished
<1>7. CASE Crash
  BY <1>7 DEF Crash
<1>8. CASE Shutdown \/ Exit \/ Startup
  BY <1>5, <1>8 DEF Shutdown, Exit, Startup
<1>9. ASSUME NEW u \in Tasks \ {t}, Work(u) \/ Cancel(u)
      PROVE  task'[t] = task[t]
  BY <1>9, WorkTurn DEF TaskTurn
<1>10. QED
  BY <1>4, <1>5, <1>6, <1>7, <1>8, <1>9, OtherTurns

LEMMA FreshInvariant == NoMoves /\ OneSource => (TaskSpec => []FreshInv)
<1> SUFFICES ASSUME NoMoves, OneSource PROVE TaskSpec => []FreshInv
  OBVIOUS
<1>1. "collision" \notin Faults
  BY DEF OneSource
<1>2. Init => FreshInv
  BY DEF Init, FreshInv, Live
<1>3. /\ TaskInv /\ TaskInv' /\ PlaceInv /\ VersionInv /\ ServiceInv /\ DistinctInv /\ FreshInv
      /\ [NextTask]_vars
      => FreshInv'
  BY NextKeepsFresh
<1>4. QED
  BY <1>1, <1>2, <1>3, TaskInvariant, PlaceInvariant, VersionInvariant, ServiceInvariant,
     DistinctInvariant, PTL DEF TaskSpec

-----------------------------------------------------------------------------
(* The claims.                                                             *)

Holds(t) ==
  /\ Live(t) /\ task[t].pc \in Holding
  /\ owner[task[t].requirement] = t
  /\ Held(task[t], requirement[task[t].requirement])

LEMMA SaveOther ==
  ASSUME TaskInv, NEW p \in Requirements, NEW row, Save(p, row), NEW q \in Requirements
  PROVE  /\ p # q => requirement'[q] = requirement[q]
         /\ requirement'[p] = row
BY DEF Save, TaskInv, StoreInv, RequirementInv

\* The claim of a task is on its requirement.
LEMMA ClaimRowIs ==
  ASSUME TaskInv, PlaceInv, NEW t \in Tasks, Is(t, "scheduled"), ClaimRow(t)
  PROVE  Claim(task[t].requirement)
<1>1. /\ Live(t) /\ task[t].operation \in Operations \cup {NoOperation}
      /\ Placed(task[t], requirement[task[t].requirement], operation[task[t].operation])
      /\ task[t].pc = "scheduled"
  BY AtIs, TaskType, TaskIsPlaced
<1>2. CASE task[t].operation = NoOperation
  BY <1>2 DEF ClaimRow, BeginImplementation
<1>3. CASE task[t].operation # NoOperation
  <2>1. operation[task[t].operation].requirement = task[t].requirement
    BY <1>1, <1>3 DEF Placed
  <2>2. QED
    BY <1>3, <2>1 DEF ClaimRow, BeginOperation
<1>4. QED
  BY <1>2, <1>3

\* No call of the store touches a held row, but the task's own note of its receipt.
LEMMA CallKeepsHeld ==
  ASSUME TaskInv, PlaceInv, DistinctInv, HoldInv, NEW t \in Tasks, Holds(t),
         NEW u \in Tasks, CommittedCall(u)
  PROVE  LET q == task[t].requirement
         IN  requirement'[q] = requirement[q] \/ (u = t /\ Held(task[t], requirement'[q]))
<1> DEFINE q == task[t].requirement
           r == task[u].requirement
           target == task[u].target
<1>1. /\ q \in Requirements /\ r \in Requirements /\ Live(t) /\ Live(u)
      /\ Shaped(task[t]) /\ Shaped(task[u]) /\ Implementing(q)
      /\ Held(task[t], requirement[q])
  BY CallIsClient, TaskType DEF Holds, Held, Implementing, Exists
<1>2. ASSUME NEW row, Save(r, row), r # q
      PROVE  requirement'[q] = requirement[q]
  BY <1>1, <1>2, SaveOther
<1>3. CASE UNCHANGED requirement
  BY <1>3
<1>4. CASE Is(u, "revising") /\ ReviseAndCreateOperation(task[u].operation, r, task[u].kind,
                                                          task[u].base)
  <2>1. r # q
    BY <1>1, <1>4 DEF ReviseAndCreateOperation, Edited, Implementing
  <2>2. QED
    BY <1>2, <1>4, <2>1 DEF ReviseAndCreateOperation, Edited
<1>5. CASE Is(u, "scheduled") /\ ClaimRow(u)
  <2>1. Claim(r)
    BY <1>5, ClaimRowIs
  <2>2. r # q
    BY <1>1, <2>1 DEF Claim, Claimable, Implementing
  <2>3. QED
    BY <1>2, <2>1, <2>2 DEF Claim
<1>6. CASE Is(u, "generated") /\ PreparePublication(r, target) /\ r = q
  <2>1. task[u].pc = "generated"
    BY <1>6, AtIs
  <2>2. owner[r] = u
    BY <1>1, <2>1 DEF HoldInv, Holding
  <2>3. u = t
    BY <1>6, <2>2 DEF Holds
  <2>4. requirement[q] \in Requirement
    BY <1>1, RowType DEF TaskInv, StoreInv, Proper, Implementing
  <2>5. requirement'[q] = [requirement[q] EXCEPT !.target = target]
    BY <1>1, <1>6, SaveOther DEF PreparePublication
  <2>6. /\ [requirement[q] EXCEPT !.target = target].status = requirement[q].status
        /\ [requirement[q] EXCEPT !.target = target].target = target
        /\ [requirement[q] EXCEPT !.target = target] \in Requirement
    BY <1>1, <2>1, <2>4 DEF Requirement, Shaped
  <2>7. Held(task[t], requirement'[q])
    BY <1>1, <2>3, <2>5, <2>6, NoRequirementAssumption DEF Held
  <2>8. QED
    BY <2>3, <2>7
<1>7. CASE Is(u, "generated") /\ PreparePublication(r, target) /\ r # q
  BY <1>2, <1>7 DEF PreparePublication
<1>8. CASE Is(u, "published") /\ CompleteImplementation(r, target)
           /\ requirement'[q] # requirement[q]
  <2>1. task[u].pc = "published" /\ target \in Target /\ target # NoTarget
    BY <1>1, <1>8, AtIs, NoTargetAssumption DEF Shaped
  <2>2. Completable(r, target) /\ r = q
    BY <1>2, <1>8 DEF CompleteImplementation
  <2>3. target.digest # NoDigest
    BY <2>1, StoreAssumption DEF Target
  <2>4. target = task[t].target
    BY <1>1, <2>1, <2>2, <2>3 DEF Completable, Held
  <2>5. u = t
    BY <1>1, <2>1, <2>4 DEF DistinctInv
  <2>6. QED
    BY <2>1, <2>5 DEF Holds, Holding
<1>9. QED
  BY <1>3, <1>4, <1>5, <1>6, <1>7, <1>8
     DEF CommittedCall, CreateOperation, PrepareOperationPublication, CompleteOperation

LEMMA WorkCalls ==
  ASSUME NEW t \in Tasks, Work(t) \/ Cancel(t)
  PROVE  CommittedCall(t) \/ UNCHANGED requirement \/ FailRequirement(t) \/ MoveLinks(t)
BY StepsCall
   DEF Work, Generate, Publish, CommitRoute, Raise, AnswerLost, ActivatedButRaised, FailTask,
       FailOperation, Cancel, store

LEMMA WorkOwner ==
  ASSUME NEW t \in Tasks, Work(t) \/ Cancel(t)
  PROVE  \/ UNCHANGED owner
         \/ /\ Is(t, "scheduled") /\ ClaimRow(t)
            /\ owner' = [owner EXCEPT ![task[t].requirement] = t]
<1>1. CASE ClaimWork(t)
  BY <1>1 DEF ClaimWork, At
<1>2. CASE AnswerLost(t)
  BY <1>2 DEF AnswerLost, CommittedCall, At, Is
<1>3. QED
  BY <1>1, <1>2
     DEF Work, Accept, Revise, Generate, Note, NoteOperation, Publish, CommitRoute, MoveLinks,
         Finalize, Finish, Raise, ActivatedButRaised, FailRequirement, FailTask, Cancel, history

\* Another task's step leaves a held row alone.
LEMMA OthersHeld ==
  ASSUME TaskInv, PlaceInv, DistinctInv, HoldInv, NEW t \in Tasks, Holds(t),
         NEW u \in Tasks \ {t}, Work(u) \/ Cancel(u)
  PROVE  Holds(t)'
<1> DEFINE q == task[t].requirement
           r == task[u].requirement
<1>1. /\ q \in Requirements /\ r \in Requirements /\ Live(t) /\ Live(u) /\ Implementing(q)
      /\ task'[t] = task[t] /\ owner[q] = t
  BY TaskType, WorkTurn DEF TaskTurn, Holds, Held, Implementing, Exists
<1>2. owner'[q] = owner[q]
  <2>1. ASSUME Is(u, "scheduled"), ClaimRow(u), owner' = [owner EXCEPT ![r] = u]
        PROVE  owner'[q] = owner[q]
    <3>1. Claim(r)
      BY <2>1, ClaimRowIs
    <3>2. r # q
      BY <1>1, <3>1 DEF Claim, Claimable, Implementing
    <3>3. QED
      BY <1>1, <2>1, <3>2 DEF TaskInv, TypeOK
  <2>2. QED
    BY <2>1, WorkOwner
<1>3. requirement'[q] = requirement[q]
  <2>1. CASE CommittedCall(u)
    BY <2>1, CallKeepsHeld
  <2>2. CASE FailRequirement(u)
    <3>1. task[u].pc \in Holding
      BY <2>2, AtIs DEF FailRequirement, Failing, Holding
    <3>2. r # q
      BY <1>1, <3>1 DEF HoldInv
    <3>3. QED
      BY <1>1, <2>2, <3>2, SaveOther DEF FailRequirement, FailImplementation, store
  <2>3. ~MoveLinks(u)
    BY <1>1, AtIs, TaskIsPlaced DEF MoveLinks
  <2>4. QED
    BY <2>1, <2>2, <2>3, WorkCalls
<1>4. QED
  BY <1>1, <1>2, <1>3 DEF Holds, Live

\* A task that claims, and one that has a claim.
LEMMA SelfHeld ==
  ASSUME TaskInv, PlaceInv, DistinctInv, HoldInv, NEW t \in Tasks, Work(t) \/ Cancel(t),
         task'[t] # NoTask, task'[t].pc \in Holding
  PROVE  Holds(t)'
<1> DEFINE q == task[t].requirement
<1>1. /\ q \in Requirements /\ Live(t) /\ task'[t].requirement = q
      /\ Placed(task[t], requirement[q], operation[task[t].operation])
      /\ task[t].pc # "moved"
  BY TaskType, TaskIsPlaced, WorkTurn DEF TaskTurn
<1>2. CASE ClaimWork(t)
  <2>1. Is(t, "scheduled") /\ ClaimRow(t) /\ owner' = [owner EXCEPT ![q] = t]
    BY <1>2 DEF ClaimWork, At
  <2>2. Exists(q) /\ Save(q, Cleared(requirement[q], "implementing"))
    BY <2>1, ClaimRowIs DEF Claim, Claimable
  <2>3. "implementing" \in RequirementStatuses
    BY DEF RequirementStatuses
  <2>4. /\ requirement'[q] \in Requirement /\ requirement'[q].status = "implementing"
        /\ requirement'[q].target = NoTarget
    BY <1>1, <2>2, <2>3, SaveOther, ClearedRow DEF TaskInv
  <2>5. owner'[q] = t
    BY <1>1, <2>1 DEF TaskInv, TypeOK
  <2>6. QED
    BY <1>1, <2>4, <2>5, NoRequirementAssumption DEF Holds, Held, Live
<1>3. ASSUME NEW digest \in Digests, Generate(t, digest)
      PROVE  Holds(t)'
  <2>1. task[t].pc = "claimed" /\ UNCHANGED <<requirement, owner>>
    BY <1>3, GenerateGives DEF store, history
  <2>2. task[t].target = NoTarget /\ Holds(t)
    BY <1>1, <2>1 DEF Placed, Early, HoldInv, Holding, Holds
  <2>3. QED
    BY <1>1, <2>1, <2>2 DEF Holds, Held, Live
<1>4. CASE /\ task[t].pc \in {"claimed", "generated", "noted", "ready"}
           /\ task'[t].target = task[t].target
  <2>1. Holds(t)
    BY <1>1, <1>4 DEF HoldInv, Holding, Holds
  <2>2. owner'[q] = owner[q]
    BY <1>4, AtIs, WorkOwner
  <2>3. ~FailRequirement(t) /\ ~MoveLinks(t)
    BY <1>4, AtIs DEF FailRequirement, Failing, MoveLinks
  <2>4. Held(task[t], requirement'[q])
    BY <2>1, <2>3, WorkCalls, CallKeepsHeld DEF Holds
  <2>5. QED
    BY <1>1, <1>4, <2>1, <2>2, <2>4 DEF Holds, Held, Live
<1>5. QED
  BY <1>1, <1>2, <1>3, <1>4, HoldingTurn

\* A request does not end a claim: a receipt that is served is of a task past its commit.
LEMMA RequestHeld ==
  ASSUME TaskInv, OwnInv, PlaceInv, ServiceInv, FreshInv, HoldInv, NEW t \in Tasks, Holds(t),
         NEW u \in Tasks, Request(u)
  PROVE  requirement'[task[t].requirement] = requirement[task[t].requirement]
<1> DEFINE q == task[t].requirement
           receipt == requirement[q].target
<1>1. /\ q \in Requirements /\ Live(t)
      /\ Implementing(q) /\ receipt \in {NoTarget, task[t].target}
      /\ task[t].target \in Target \cup {NoTarget} /\ task[t].pc \in Holding
      /\ Placed(task[t], requirement[q], operation[task[t].operation])
  BY TaskType, TaskIsPlaced DEF Holds, Held, Implementing, Exists
<1>2. ASSUME NEW p \in Requirements, NEW path, NEW link, Create(p, path, link)
      PROVE  requirement'[q] = requirement[q]
  BY <1>1, <1>2, SaveOther DEF Create, Implementing
<1>3. ASSUME NEW p \in Requirements, Running, ReconcilePublication(p, table)
      PROVE  requirement'[q] = requirement[q]
  <2>1. CASE p # q
    BY <1>1, <1>3, <2>1, SaveOther DEF ReconcilePublication
  <2>2. CASE p = q
    <3>1. Published(receipt, table) /\ receipt # NoTarget
      BY <1>3, <2>2 DEF ReconcilePublication, Published
    <3>2. task[t].target \in published /\ task[t].target # NoTarget
      BY <1>1, <3>1, FoundIsPublished
    <3>3. task[t].pc \in Unpublished \cup {"claimed", "cancelled"}
      BY <1>1 DEF Holding, Unpublished
    <3>4. task[t].pc # "cancelled"
      BY <1>1, <1>3 DEF ServiceInv, Running, Dead
    <3>5. task[t].pc # "claimed"
      BY <1>1, <3>2 DEF Placed, Early
    <3>6. QED
      BY <1>1, <3>2, <3>3, <3>4, <3>5 DEF FreshInv
  <2>3. QED
    BY <2>1, <2>2
<1>4. CASE UNCHANGED requirement
  BY <1>4
<1>5. QED
  BY <1>2, <1>3, <1>4
     DEF Request, RequestCreate, RequestMove, RequestRevise, RequestRetry, RequestImplement, store

LEMMA ChangeHeld ==
  ASSUME TaskInv, NEW t \in Tasks, Holds(t), NEW p \in Requirements, Change(p)
  PROVE  requirement'[task[t].requirement] = requirement[task[t].requirement]
<1> DEFINE q == task[t].requirement
<1>1. q \in Requirements /\ Implementing(q)
  BY TaskType DEF Holds, Held, Implementing, Exists
<1>2. \/ p # q /\ \E row : Save(p, row)
      \/ p = q /\ FALSE
  BY <1>1 DEF Change, EditRequirement, UpdateContent, Edited, RebaseRequirement, RebaseRoute,
              LinkRequirement, Create, Implementing
<1>3. QED
  BY <1>1, <1>2, SaveOther

LEMMA NextKeepsHeld ==
  ASSUME TaskInv, OwnInv, PlaceInv, ServiceInv, DistinctInv, FreshInv, HoldInv, [NextTask]_vars
  PROVE  HoldInv'
<1> SUFFICES ASSUME NEW t \in Tasks, task'[t] # NoTask, task'[t].pc \in Holding
             PROVE  Holds(t)'
  BY DEF HoldInv, Holds, Live
<1> DEFINE q == task[t].requirement
<1>1. CASE Work(t) \/ Cancel(t)
  BY <1>1, SelfHeld
<1>2. ASSUME task'[t] = task[t]
      PROVE  Holds(t) /\ q \in Requirements
  BY <1>2, TaskType DEF HoldInv, Holds, Live
<1>3. ASSUME task'[t] = task[t], requirement'[q] = requirement[q], owner' = owner
      PROVE  Holds(t)'
  BY <1>2, <1>3 DEF Holds, Live
<1>4. ASSUME NEW u \in Tasks \ {t}, Work(u) \/ Cancel(u)
      PROVE  Holds(t)'
  BY <1>2, <1>4, OthersHeld, WorkTurn DEF TaskTurn
<1>5. ASSUME NEW u \in Tasks, Request(u)
      PROVE  Holds(t)'
  <2>1. owner' = owner /\ (u # t \/ UNCHANGED task => task'[t] = task[t])
    BY <1>5, RequestIs, StartsIs DEF history
  <2>2. u # t \/ UNCHANGED task
    BY <1>5, RequestIs, StartsIs DEF Holding
  <2>3. QED
    BY <1>2, <1>3, <1>5, <2>1, <2>2, RequestHeld
<1>6. ASSUME NEW p \in Requirements, Change(p)
      PROVE  Holds(t)'
  <2>1. UNCHANGED <<task, owner>>
    BY <1>6 DEF Change, history
  <2>2. QED
    BY <1>2, <1>3, <1>6, <2>1, ChangeHeld
<1>7. CASE Startup
  BY <1>7 DEF Startup, ServiceInv, Live
<1>8. CASE Crash
  BY <1>8 DEF Crash
<1>9. CASE \/ \E route \in Routes, digest \in Digests : PutRoute(route, digest)
           \/ Shutdown \/ Exit \/ Late \/ UNCHANGED vars
  <2>1. ~\E w \in late : LateMoveLinks(w)
    BY DEF LateMoveLinks, PlaceInv
  <2>2. UNCHANGED <<task, requirement, owner>>
    BY <1>9, <2>1
       DEF PutRoute, Shutdown, Exit, Late, LateCommit, CommitRoute, vars, store, history
  <2>3. QED
    BY <1>3, <2>2
<1>10. QED
  BY <1>1, <1>4, <1>5, <1>6, <1>7, <1>8, <1>9 DEF NextTask

(***************************************************************************)
(* A task that fails returns its own claim, not one that another task has  *)
(* made on the requirement since, although fail_implementation does not    *)
(* ask whose claim it ends (metadata.py:1111-1145): as long as no route    *)
(* moves, an activation that was made does not raise, and two sources for  *)
(* one version of a route have two digests.                                *)
(***************************************************************************)
THEOREM FailuresAreOwn == NoMoves /\ OneSource => (TaskSpec => FailsOwnClaim)
<1> SUFFICES ASSUME NoMoves, OneSource PROVE TaskSpec => FailsOwnClaim
  OBVIOUS
<1> DEFINE Ends ==
      \A t \in Tasks :
        Failing(t) =>
          LET q == task[t].requirement IN
          Implementing(q) /\ requirement'[q].status = "failed" => owner[q] = t
<1>1. "collision" \notin Faults
  BY DEF OneSource
<1>2. Init => HoldInv
  BY DEF Init, HoldInv, Live
<1>3. /\ TaskInv /\ OwnInv /\ PlaceInv /\ ServiceInv /\ DistinctInv /\ FreshInv /\ HoldInv
      /\ [NextTask]_vars
      => HoldInv'
  BY NextKeepsHeld
<1>4. HoldInv => Ends
  BY AtIs DEF HoldInv, Failing, Holding
<1> HIDE DEF Ends
<1>5. TaskSpec => [][Ends]_vars
  BY <1>1, <1>2, <1>3, <1>4, TaskInvariant, OwnInvariant, PlaceInvariant, ServiceInvariant,
     DistinctInvariant, FreshInvariant, PTL DEF TaskSpec
<1>6. QED
  BY <1>5 DEF FailsOwnClaim, Ends

-----------------------------------------------------------------------------
(* Claims when SQLite answers, whatever moves: each is held by a task that *)
(* goes on with it and, unless /implement interferes, each such task has   *)
(* its claim and its operation until it has reported them.                 *)

StoreAnswers == "storage" \notin Faults

NoImplement == "implement" \notin Requests

\* Phases of a task that has claimed its requirement, and those with a receipt there.
Claiming == {"claimed", "generated", "noted", "ready", "moved", "published", "erring",
             "cancelled"}
Receipted == {"noted", "ready", "moved", "published"}

\* The task goes on with its claim on q, under which its receipt is the one there.
HoldsClaim(t, q) ==
  /\ Live(t) /\ task[t].pc \in Claiming /\ task[t].requirement = q
  /\ Implementing(q) /\ owner[q] = t
  /\ task[t].pc \in Receipted => requirement[q].target = task[t].target

\* Every claim is held by the task that made it.
ClaimsAreHeld ==
  Running => \A q \in Requirements :
               Implementing(q) => owner[q] \in Tasks /\ HoldsClaim(owner[q], q)

\* Every task that made a claim holds it.
ClaimantsHold ==
  \A t \in Tasks :
    Live(t) /\ task[t].pc \in Claiming => HoldsClaim(t, task[t].requirement)

\* An operation that was stored is on the requirement its task works on.
Refers(w, op) ==
  w.operation \in Operations /\ w.pc \notin {"revising", "created"}
    => op # NoOperation /\ op.requirement = w.requirement

TasksRefer == \A t \in Tasks : Live(t) => Refers(task[t], operation[task[t].operation])

LEMMA InsertRefers ==
  ASSUME TaskInv, NEW t \in Tasks, Accept(t) \/ Revise(t)
  PROVE  task'[t] # NoTask => Refers(task'[t], operation'[task'[t].operation])
<1> DEFINE o == task[t].operation
           q == task[t].requirement
<1>1. /\ Live(t) /\ task[t].pc \in {"created", "revising"} /\ "scheduled" \in Phases
      /\ Goto(t, "scheduled")
  BY AtIs DEF Accept, Revise, Phases
<1>2. task'[t].operation = o /\ task'[t].requirement = q /\ o \in Operations
  BY <1>1, GotoType, TaskType DEF Shaped
<1>3. q \in Requirements /\ task[t].kind \in Kinds /\ task[t].base \in Link \cup {NoLink}
      /\ task[t].path \in Routes
  BY <1>1, TaskType
<1>4. PICK path \in Routes : Insert(o, q, task[t].kind, path, task[t].base)
  <2>1. CASE Accept(t)
    BY <1>3, <2>1 DEF Accept, CreateOperation
  <2>2. CASE Revise(t)
    <3>1. Exists(q) /\ Insert(o, q, task[t].kind, requirement[q].path, task[t].base)
      BY <2>2 DEF Revise, ReviseAndCreateOperation, Insert
    <3>2. requirement[q].path \in Routes
      BY <1>3, <3>1, RowType DEF TaskInv, StoreInv, Proper, Requirement
    <3>3. QED
      BY <3>1, <3>2
  <2>3. QED
    BY <2>1, <2>2
<1> DEFINE row == [requirement |-> q, kind |-> task[t].kind, path |-> path,
                   base |-> task[t].base, target |-> NoTarget, status |-> "accepted"]
<1>5. operation'[o] = row
  BY <1>2, <1>4 DEF Insert, TaskInv, StoreInv, OperationInv
<1>6. row \in Operation /\ row.requirement = q
  BY <1>2, <1>3 DEF Operation, OperationStatuses
<1> HIDE DEF row
<1>7. QED
  BY <1>2, <1>5, <1>6, NoOperationAssumption DEF Refers

\* A task that is past its submission has been.
LEMMA SubmissionIs ==
  ASSUME TaskInv, NEW t \in Tasks, Work(t) \/ Cancel(t),
         task[t].pc \in {"revising", "created"}, task'[t] # NoTask
  PROVE  Accept(t) \/ Revise(t)
<1>1. Live(t)
  BY WorkTurn DEF TaskTurn
<1>2. ~Guarded(t)
  BY DEF Guarded, Is
<1>3. ~Raise(t) /\ ~AnswerLost(t) /\ ~Cancel(t)
  BY <1>2, EndIs DEF Raise, AnswerLost, AfterException, Cancel
<1>4. \A pc \in Phases \ {"revising", "created"} : ~At(t, pc) /\ ~Is(t, pc)
  BY AtIs
<1>5. QED
  BY <1>3, <1>4
     DEF Work, ClaimWork, Generate, Note, NoteOperation, Publish, MoveLinks, Finalize, Finish,
         ActivatedButRaised, FailRequirement, Failing, FailTask, Phases

LEMMA NextRefers ==
  ASSUME TaskInv, TasksRefer, [NextTask]_vars
  PROVE  TasksRefer'
<1> SUFFICES ASSUME NEW t \in Tasks, task'[t] # NoTask
             PROVE  Refers(task'[t], operation'[task'[t].operation])
  BY DEF TasksRefer, Live
<1>1. \A o \in Operations : OperationKept(operation[o], operation'[o])
  BY StepIsClient, OperationStays DEF TaskInv
<1>2. ASSUME NEW w, Refers(w, operation[w.operation])
      PROVE  Refers(w, operation'[w.operation])
  BY <1>1, <1>2 DEF Refers, OperationKept
<1>3. CASE task'[t] = task[t]
  BY <1>2, <1>3 DEF TasksRefer, Live
<1>4. CASE Work(t) \/ Cancel(t)
  <2>1. CASE task[t].pc \in {"revising", "created"}
    BY <1>4, <2>1, SubmissionIs, InsertRefers
  <2>2. CASE task[t].pc \notin {"revising", "created"}
    <3>1. Refers(task[t], operation'[task[t].operation]) /\ Live(t)
      BY <1>2, <1>4, WorkTurn DEF TasksRefer, TaskTurn
    <3>2. task'[t].operation = task[t].operation /\ task'[t].requirement = task[t].requirement
      BY <1>4, WorkTurn DEF TaskTurn
    <3>3. QED
      BY <2>2, <3>1, <3>2 DEF Refers
  <2>3. QED
    BY <2>1, <2>2
<1>5. ASSUME NEW u \in Tasks \ {t}, Work(u) \/ Cancel(u)
      PROVE  task'[t] = task[t]
  BY <1>5, WorkTurn DEF TaskTurn
<1>6. CASE Starts(t)
  BY <1>6, StartsIs, TaskAssumption DEF Refers
<1>7. ASSUME NEW u \in Tasks \ {t}, Starts(u)
      PROVE  task'[t] = task[t]
  BY <1>7, StartsIs
<1>8. CASE Crash \/ Shutdown \/ Exit \/ Startup \/ task' = task
  BY <1>3, <1>8 DEF Crash, Shutdown, Exit, Startup
<1>9. QED
  BY <1>3, <1>4, <1>5, <1>6, <1>7, <1>8, OtherTurns

LEMMA TasksReferAlways == TaskSpec => []TasksRefer
<1>1. Init => TasksRefer
  BY DEF Init, TasksRefer, Live
<1>2. QED
  BY <1>1, NextRefers, TaskInvariant, PTL DEF TaskSpec

\* The claim of a task is on its requirement, moved or not.
LEMMA ClaimIs ==
  ASSUME TaskInv, TasksRefer, NEW t \in Tasks, Is(t, "scheduled"), ClaimRow(t)
  PROVE  LET q == task[t].requirement
         IN  /\ q \in Requirements /\ ~Implementing(q) /\ Exists(q)
             /\ Save(q, Cleared(requirement[q], "implementing"))
<1> DEFINE q == task[t].requirement
<1>1. /\ Live(t) /\ task[t].pc = "scheduled" /\ q \in Requirements
      /\ task[t].operation \in Operations \cup {NoOperation}
  BY AtIs, TaskType
<1>2. Claim(q)
  <2>1. CASE task[t].operation = NoOperation
    BY <2>1 DEF ClaimRow, BeginImplementation
  <2>2. CASE task[t].operation # NoOperation
    <3>1. operation[task[t].operation].requirement = q
      BY <1>1, <2>2 DEF TasksRefer, Refers
    <3>2. QED
      BY <2>2, <3>1 DEF ClaimRow, BeginOperation
  <2>3. QED
    BY <2>1, <2>2
<1>3. QED
  BY <1>1, <1>2 DEF Claim, Claimable, Implementing

(***************************************************************************)
(* A call of a task writes the row of its requirement or none, and a       *)
(* claimed one only to note its receipt there or to complete it.           *)
(***************************************************************************)
LEMMA CallOnClaims ==
  ASSUME TaskInv, TasksRefer, NEW t \in Tasks, CommittedCall(t),
         NEW q \in Requirements, q = task[t].requirement
  PROVE  /\ \A p \in Requirements \ {q} : requirement'[p] = requirement[p]
         /\ Implementing(q) /\ task[t].pc \notin {"generated", "published"}
              => requirement'[q] = requirement[q]
         /\ ~Implementing(q) /\ task[t].pc # "scheduled" => ~Implementing(q)'
         /\ task[t].pc = "generated" => requirement'[q].target = task[t].target
         /\ task[t].pc = "published" => ~Implementing(q)'
<1> DEFINE target == task[t].target
<1>1. Live(t) /\ Shaped(task[t]) /\ task[t].base \in Link \cup {NoLink} /\ StoreInv
  BY TaskType DEF CommittedCall, Is, Live, TaskInv
<1>2. ASSUME NEW row, Save(q, row)
      PROVE  /\ requirement'[q] = row
             /\ \A p \in Requirements \ {q} : requirement'[p] = requirement[p]
  BY <1>1, <1>2, SaveOther
<1>3. {"draft", "implementing", "active"} \subseteq RequirementStatuses
  BY DEF RequirementStatuses
<1>4. CASE UNCHANGED requirement /\ task[t].pc \in {"created", "noted", "completed"}
  BY <1>4 DEF Implementing, Exists
<1>5. CASE Is(t, "revising") /\ Edited(q, task[t].base)
  <2> DEFINE row == [Cleared(requirement[q], "draft") EXCEPT !.link = task[t].base]
  <2>1. Exists(q) /\ ~Implementing(q) /\ Save(q, row)
    BY <1>5 DEF Edited, Implementing
  <2>2. row.status = "draft"
    BY <1>1, <1>3, <2>1, ClearedIs
  <2> HIDE DEF row
  <2>3. QED
    BY <1>2, <1>5, <2>1, <2>2, AtIs DEF Implementing
<1>6. CASE Is(t, "scheduled") /\ ClaimRow(t)
  <2>1. ~Implementing(q) /\ Save(q, Cleared(requirement[q], "implementing"))
    BY <1>6, ClaimIs
  <2>2. QED
    BY <1>2, <1>6, <2>1, AtIs
<1>7. CASE Is(t, "generated") /\ PreparePublication(q, target)
  <2>1. Implementing(q) /\ Save(q, [requirement[q] EXCEPT !.target = target])
    BY <1>7 DEF PreparePublication, ReceiptAgrees
  <2>2. requirement[q] \in Requirement
    BY <1>1, <2>1, RowType DEF Implementing, TaskInv, StoreInv, Proper
  <2>3. requirement'[q] = [requirement[q] EXCEPT !.target = target]
    BY <1>2, <2>1
  <2>4. requirement'[q].target = target
    BY <2>2, <2>3 DEF Requirement
  <2>5. QED
    BY <1>2, <1>7, <2>1, <2>4, AtIs
<1>8. CASE Is(t, "published") /\ CompleteImplementation(q, target)
  <2>1. CASE AlreadyActive(q, target) /\ UNCHANGED requirement
    BY <1>8, <2>1, AtIs DEF AlreadyActive, Implementing, Exists
  <2>2. CASE Completable(q, target) /\ Save(q, Activated(requirement[q], LinkOf(target)))
    <3>1. Exists(q) /\ LinkOf(target) \in Link
      BY <1>1, <1>8, <2>2, AtIs, LinkOfType DEF Completable, Implementing, Shaped
    <3> DEFINE link == LinkOf(target)
               row == [Cleared(requirement[q], "active") EXCEPT !.link = link]
    <3>2. link \in Link /\ Save(q, row)
      BY <2>2, <3>1 DEF Activated
    <3>3. row.status = "active"
      <4> HIDE DEF link
      <4>1. QED
        BY <1>1, <1>3, <3>1, <3>2, ClearedIs
    <3> HIDE DEF row
    <3>4. QED
      BY <1>2, <1>8, <3>2, <3>3, AtIs DEF Implementing
  <2>3. QED
    BY <1>8, <2>1, <2>2 DEF CompleteImplementation
<1>9. QED
  BY <1>4, <1>5, <1>6, <1>7, <1>8, AtIs
     DEF CommittedCall, CreateOperation, ReviseAndCreateOperation,
         PrepareOperationPublication, CompleteOperation

\* The other links of a moved route follow it, claimed rows do not.
LEMMA MoveOnClaims ==
  ASSUME TaskInv, NEW w \in Task, MoveRouteLinks(w.base.route, LinkOf(w.target), w.requirement),
         NEW q \in Requirements
  PROVE  /\ Implementing(q) => requirement'[q] = requirement[q]
         /\ ~Implementing(q) => ~Implementing(q)'
<1> DEFINE Moves == LinkedTo(q, w.base.route) /\ q # w.requirement
           link == LinkOf(w.target)
           row == [requirement[q] EXCEPT !.link = link, !.path = link.route, !.target = NoTarget]
<1>1. requirement'[q] = IF Moves THEN row ELSE requirement[q]
  BY DEF MoveRouteLinks
<1>2. Moves => Exists(q) /\ ~Implementing(q)
  BY DEF MoveRouteLinks, CanMove, LinkedTo, Implementing
<1>3. Moves => row.status = requirement[q].status
  BY <1>2, RowType DEF TaskInv, StoreInv, Proper, Requirement
<1> HIDE DEF row, Moves
<1>4. QED
  BY <1>1, <1>2, <1>3 DEF Implementing, Exists

(***************************************************************************)
(* No step of a task touches a claimed row but of the claim it goes on     *)
(* with, and only the claim itself makes a row claimed.                    *)
(***************************************************************************)
LEMMA WorkOnClaims ==
  ASSUME TaskInv, TasksRefer, NEW t \in Tasks, Work(t) \/ Cancel(t), NEW q \in Requirements
  PROVE  /\ Implementing(q) => owner'[q] = owner[q]
         /\ Implementing(q) /\ (q # task[t].requirement \/ task[t].pc \notin Claiming)
              => requirement'[q] = requirement[q]
         /\ StoreAnswers /\ Running /\ ~Implementing(q) /\ Implementing(q)'
              => ClaimWork(t) /\ q = task[t].requirement
<1> DEFINE r == task[t].requirement
<1>1. Live(t) /\ r \in Requirements /\ task[t] \in Task
  BY TaskType, WorkTurn DEF TaskTurn
<1>2. Implementing(q) => owner'[q] = owner[q]
  <2>1. ASSUME Is(t, "scheduled"), ClaimRow(t), owner' = [owner EXCEPT ![r] = t],
               Implementing(q)
        PROVE  owner'[q] = owner[q]
    <3>1. r # q
      BY <2>1, ClaimIs
    <3>2. QED
      BY <1>1, <2>1, <3>1 DEF TaskInv, TypeOK
  <2>2. QED
    BY <2>1, WorkOwner
<1>3. ASSUME UNCHANGED requirement
      PROVE  requirement'[q] = requirement[q] /\ (~Implementing(q) => ~Implementing(q)')
  BY <1>3 DEF Implementing, Exists
<1>4. ASSUME MoveLinks(t)
      PROVE  /\ Implementing(q) => requirement'[q] = requirement[q]
             /\ ~Implementing(q) => ~Implementing(q)'
  BY <1>1, <1>4, MoveOnClaims DEF MoveLinks
<1>5. ASSUME FailRequirement(t)
      PROVE  /\ task[t].pc \in Claiming
             /\ q # r => requirement'[q] = requirement[q]
             /\ ~Implementing(q) => ~Implementing(q)'
  <2>1. task[t].pc \in Claiming
    BY <1>5, AtIs DEF FailRequirement, Failing, Claiming
  <2>2. CASE UNCHANGED store
    BY <1>3, <2>1, <2>2 DEF store
  <2>3. CASE FailImplementation(r)
    <3>1. Implementing(r) /\ (q # r => requirement'[q] = requirement[q])
      BY <1>1, <2>3, SaveOther DEF FailImplementation
    <3>2. QED
      BY <2>1, <3>1 DEF Implementing, Exists
  <2>4. QED
    BY <1>5, <2>2, <2>3 DEF FailRequirement
<1>6. ASSUME CommittedCall(t)
      PROVE  /\ Implementing(q) /\ (q # r \/ task[t].pc \notin Claiming)
                  => requirement'[q] = requirement[q]
             /\ ~Implementing(q) /\ Implementing(q)' => q = r /\ task[t].pc = "scheduled"
  <2>1. CASE q = r
    BY <1>6, <2>1, CallOnClaims DEF Claiming
  <2>2. CASE q # r
    BY <1>1, <1>6, <2>2, CallOnClaims DEF Implementing, Exists
  <2>3. QED
    BY <2>1, <2>2
<1>7. ASSUME StoreAnswers, Running, task[t].pc = "scheduled", ~UNCHANGED requirement
      PROVE  ClaimWork(t)
  <2>1. ~AnswerLost(t) /\ ~Raise(t) /\ ~Cancel(t)
    BY <1>7 DEF StoreAnswers, AnswerLost, Raise, Cancel, Running, store
  <2>2. \A pc \in Phases \ {"scheduled"} : ~At(t, pc) /\ ~Is(t, pc)
    BY <1>7, AtIs
  <2>3. QED
    BY <2>1, <2>2
       DEF Work, Accept, Revise, Generate, Note, NoteOperation, Publish, MoveLinks, Finalize,
           Finish, ActivatedButRaised, FailRequirement, Failing, FailTask, Phases
<1>8. QED
  BY <1>2, <1>3, <1>4, <1>5, <1>6, <1>7, WorkCalls

\* A task starts to hold a claim where it makes one.
LEMMA ClaimBegins ==
  ASSUME TaskInv, TasksRefer, NEW t \in Tasks, ClaimWork(t),
         NEW q \in Requirements, q = task[t].requirement
  PROVE  HoldsClaim(t, q)'
<1>1. /\ Live(t)' /\ task'[t].pc = "claimed" /\ task'[t].requirement = q
      /\ Is(t, "scheduled") /\ ClaimRow(t) /\ owner' = [owner EXCEPT ![q] = t]
  BY ClaimWorkIs DEF ClaimWork, At
<1>2. Exists(q) /\ Save(q, Cleared(requirement[q], "implementing"))
  BY <1>1, ClaimIs
<1>3. "implementing" \in RequirementStatuses /\ StoreInv
  BY DEF RequirementStatuses, TaskInv
<1>4. /\ Cleared(requirement[q], "implementing") \in Requirement
      /\ Cleared(requirement[q], "implementing").status = "implementing"
  BY <1>2, <1>3, ClearedRow
<1>5. Implementing(q)'
  BY <1>2, <1>4, SaveOther, NoRequirementAssumption DEF Implementing, Exists
<1>6. owner'[q] = t
  BY <1>1 DEF TaskInv, TypeOK
<1>7. QED
  BY <1>1, <1>5, <1>6 DEF HoldsClaim, Claiming, Receipted

\* Without a claim a task makes one, or is submitted, or ends.
LEMMA OnlyClaimBegins ==
  ASSUME TaskInv, NEW t \in Tasks, Work(t) \/ Cancel(t), task[t].pc \notin Claiming,
         task'[t] # NoTask
  PROVE  ClaimWork(t) \/ task'[t].pc = "scheduled"
<1>1. ~Guarded(t) /\ Live(t)
  BY WorkTurn DEF Guarded, Is, Claiming, TaskTurn
<1>2. ~Raise(t) /\ ~AnswerLost(t) /\ ~Cancel(t)
  BY <1>1, EndIs DEF Raise, AnswerLost, AfterException, Cancel
<1>3. Accept(t) \/ Revise(t) => task'[t].pc = "scheduled"
  BY <1>1, GotoType DEF Accept, Revise, Phases
<1>4. \A pc \in Claiming : ~At(t, pc) /\ ~Is(t, pc)
  BY AtIs
<1>5. ~Finish(t) /\ ~FailTask(t)
  BY EndIs DEF Finish, FailTask
<1>6. QED
  BY <1>2, <1>3, <1>4, <1>5
     DEF Work, Generate, Note, NoteOperation, Publish, MoveLinks, Finalize,
         ActivatedButRaised, FailRequirement, Failing, Claiming

\* A task that holds a claim goes on with it, or gives it back.
LEMMA HolderStep ==
  ASSUME TaskInv, TasksRefer, StoreAnswers, NEW t \in Tasks, NEW q \in Requirements,
         HoldsClaim(t, q), Work(t) \/ Cancel(t)
  PROVE  /\ task'[t] # NoTask /\ task'[t].pc \in Claiming => HoldsClaim(t, q)'
         /\ Running /\ Implementing(q)' => task'[t] # NoTask /\ task'[t].pc \in Claiming
<1> DEFINE target == task[t].target
           Kept == task'[t] # NoTask /\ task'[t].pc \in Claiming /\ HoldsClaim(t, q)'
           Ended == /\ task'[t] # NoTask => task'[t].pc \notin Claiming
                    /\ Running => ~Implementing(q)'
<1>1. /\ Live(t) /\ task[t].pc \in Claiming /\ q = task[t].requirement /\ Implementing(q)
      /\ task[t].pc \in Receipted => requirement[q].target = target
      /\ owner'[q] = t
  BY WorkOnClaims DEF HoldsClaim
<1>2. {"generated", "noted", "ready", "moved", "published", "completed", "erring", "failing",
       "cancelled", "dropped"} \subseteq Phases
  BY DEF Phases
<1>3. ASSUME NEW pc \in Phases, Goto(t, pc), pc \in Claiming, requirement'[q] = requirement[q],
             pc \in Receipted => task[t].pc \in Receipted
      PROVE  Kept
  <2>1. Implementing(q)'
    BY <1>1, <1>3 DEF Implementing, Exists
  <2>2. Live(t)' /\ task'[t].pc = pc /\ task'[t].requirement = q /\ task'[t].target = target
    BY <1>1, <1>3, GotoType
  <2>3. QED
    BY <1>1, <1>3, <2>1, <2>2 DEF HoldsClaim, Live
<1>4. ASSUME End(t) \/ \E pc \in {"completed", "failing", "dropped"} : Goto(t, pc)
      PROVE  task'[t] # NoTask => task'[t].pc \notin Claiming
  <2>1. CASE End(t)
    BY <2>1, EndIs
  <2>2. ASSUME NEW pc \in {"completed", "failing", "dropped"}, Goto(t, pc)
        PROVE  task'[t].pc \notin Claiming
    BY <1>1, <1>2, <2>2, GotoType DEF Claiming
  <2>3. QED
    BY <1>4, <2>1, <2>2
<1>5. \A pc : At(t, pc) \/ Is(t, pc) => task[t].pc = pc
  BY AtIs
<1>6. ASSUME NEW digest \in Digests, Generate(t, digest)
      PROVE  Kept
  <2>1. /\ Live(t)' /\ task'[t].pc = "generated" /\ UNCHANGED store
        /\ task'[t].requirement = task[t].requirement
    BY <1>6, GenerateGives, GenerateIs, WorkTurn DEF TaskTurn, Live
  <2>2. Implementing(q)'
    BY <1>1, <2>1 DEF Implementing, Exists, store
  <2>3. QED
    BY <1>1, <2>1, <2>2 DEF HoldsClaim, Live, Claiming, Receipted
<1>7. CASE Note(t)
  <2>1. /\ Save(q, [requirement[q] EXCEPT !.target = target]) /\ task[t].pc = "generated"
        /\ Goto(t, "noted") \/ Goto(t, "ready")
    BY <1>1, <1>5, <1>7 DEF Note, AfterNote, PreparePublication
  <2>2. requirement[q] \in Requirement /\ target \in Target
    BY <1>1, <2>1, RowType, TaskType
       DEF Implementing, TaskInv, StoreInv, Proper, Shaped
  <2>3. requirement'[q] = [requirement[q] EXCEPT !.target = target]
    BY <2>1, SaveOther
  <2>4. /\ requirement'[q] \in Requirement /\ requirement'[q].target = target
        /\ requirement'[q].status = requirement[q].status
    BY <2>2, <2>3 DEF Requirement
  <2>5. Implementing(q)'
    BY <1>1, <2>4, NoRequirementAssumption DEF Implementing, Exists
  <2>6. /\ Live(t)' /\ task'[t].pc \in {"noted", "ready"} /\ task'[t].requirement = q
        /\ task'[t].target = target
    BY <1>1, <1>2, <2>1, GotoType
  <2>7. QED
    BY <1>1, <2>4, <2>5, <2>6 DEF HoldsClaim, Live, Claiming
<1>8. CASE NoteOperation(t) \/ Publish(t) \/ ActivatedButRaised(t)
  <2>1. /\ UNCHANGED requirement /\ task[t].pc \in {"noted", "ready"}
        /\ \E pc \in {"ready", "moved", "published", "erring"} : Goto(t, pc)
    BY <1>5, <1>8
       DEF NoteOperation, PrepareOperationPublication, Publish, ActivatedButRaised, CommitRoute,
           store
  <2>2. QED
    BY <1>2, <1>3, <2>1 DEF Claiming, Receipted
<1>9. CASE MoveLinks(t)
  <2>1. Goto(t, "published") /\ task[t].pc = "moved"
    BY <1>5, <1>9 DEF MoveLinks
  <2>2. requirement'[q] = requirement[q]
    BY <1>1, <1>9, MoveOnClaims, TaskType DEF MoveLinks
  <2>3. QED
    BY <1>2, <1>3, <2>1, <2>2 DEF Claiming, Receipted
<1>10. CASE Finalize(t)
  <2>1. /\ CommittedCall(t) /\ task[t].pc = "published"
        /\ End(t) \/ Goto(t, "completed")
    BY <1>5, <1>10, StepsCall DEF Finalize
  <2>2. ~Implementing(q)'
    BY <1>1, <2>1, CallOnClaims
  <2>3. Ended
    BY <1>4, <2>1, <2>2
  <2>4. QED
    BY <2>3
<1>11. CASE Raise(t)
  <2>1. task[t].pc # "published"
    <3>1. task[t].pc = "published" => Completable(q, target)
      BY <1>1 DEF Completable, Receipted
    <3>2. QED
      BY <1>1, <1>5, <1>11, <3>1 DEF Raise, Refused, Faulty, StoreAnswers
  <2>2. \E pc \in {"claimed", "generated", "noted", "ready", "moved"} : task[t].pc = pc
    BY <1>1, <1>5, <1>11, <2>1 DEF Raise, Refused, Faulty, StoreAnswers, Claiming
  <2>3. Guarded(t)
    BY <1>1, <2>2 DEF Guarded, Is, Live
  <2>4. Goto(t, "erring") /\ UNCHANGED requirement
    BY <1>11, <2>3 DEF Raise, AfterException, store
  <2>5. QED
    BY <1>2, <1>3, <2>4 DEF Claiming, Receipted
<1>12. CASE FailRequirement(t)
  <2>1. FailImplementation(q) /\ (End(t) \/ \E pc \in {"failing", "dropped"} : Goto(t, pc))
    BY <1>1, <1>12 DEF FailRequirement, AfterFailure, StoreAnswers
  <2>2. Save(q, Cleared(requirement[q], "failed")) /\ Exists(q)
    BY <1>1, <2>1 DEF FailImplementation, Failed, Implementing
  <2>3. "failed" \in RequirementStatuses
    BY DEF RequirementStatuses
  <2>4. requirement'[q].status = "failed"
    BY <2>2, <2>3, SaveOther, ClearedRow DEF TaskInv
  <2>5. Ended
    BY <1>4, <2>1, <2>4 DEF Implementing
  <2>6. QED
    BY <2>5
<1>13. CASE Cancel(t)
  <2>1. ~Running /\ ((Goto(t, "cancelled") /\ UNCHANGED requirement) \/ End(t))
    BY <1>13 DEF Cancel, Running, store
  <2>2. QED
    BY <1>2, <1>3, <1>4, <2>1 DEF Claiming, Receipted
<1>14. ~AnswerLost(t)
  BY DEF AnswerLost, StoreAnswers
<1>15. ~Accept(t) /\ ~Revise(t) /\ ~ClaimWork(t) /\ ~Finish(t) /\ ~FailTask(t)
  BY <1>1, <1>5 DEF Accept, Revise, ClaimWork, Finish, FailTask, Claiming
<1>16. QED
  BY <1>6, <1>7, <1>8, <1>9, <1>10, <1>11, <1>12, <1>13, <1>14, <1>15 DEF Work

\* No request makes a claim, and none but /implement ends one: a claimed row stays.
LEMMA OthersOnClaims ==
  ASSUME TaskInv, [NextTask]_vars, ~\E t \in Tasks : Work(t) \/ Cancel(t), ~Startup,
         NEW q \in Requirements
  PROVE  /\ owner' = owner
         /\ ~Implementing(q) => ~Implementing(q)'
         /\ NoImplement /\ Implementing(q) => requirement'[q] = requirement[q]
<1> DEFINE Same == /\ ~Implementing(q) => ~Implementing(q)'
                   /\ NoImplement /\ Implementing(q) => requirement'[q] = requirement[q]
<1>1. ASSUME UNCHANGED requirement
      PROVE  Same
  BY <1>1 DEF Implementing, Exists
<1>2. ASSUME NEW p \in Requirements, NEW row, Save(p, row), row.status # "implementing",
             NoImplement => ~Implementing(p)
      PROVE  Same
  BY <1>2, SaveOther DEF Implementing, Exists
<1>3. "draft" \in RequirementStatuses /\ "active" \in RequirementStatuses /\ StoreInv
  BY DEF RequirementStatuses, TaskInv
<1>4. ASSUME NEW p \in Requirements, NEW path, NEW link, Create(p, path, link)
      PROVE  Same
  <2> DEFINE row == [status |-> "draft", path |-> path, link |-> link, target |-> NoTarget]
  <2>1. Save(p, row) /\ ~Implementing(p) /\ row.status = "draft"
    BY <1>4 DEF Create, Implementing
  <2> HIDE DEF row
  <2>2. QED
    BY <1>2, <2>1
<1>5. ASSUME NEW p \in Requirements, NEW link \in Link \cup {NoLink}, Exists(p),
             ~Implementing(p), Save(p, [Cleared(requirement[p], "draft") EXCEPT !.link = link])
      PROVE  Same
  <2> DEFINE row == [Cleared(requirement[p], "draft") EXCEPT !.link = link]
  <2>1. row.status = "draft"
    BY <1>3, <1>5, ClearedIs
  <2> HIDE DEF row
  <2>2. QED
    BY <1>2, <1>5, <2>1 DEF row
<1>6. ASSUME NEW p \in Requirements, ReconcilePublication(p, table), ~NoImplement
      PROVE  Same
  <2> DEFINE row == Activated(requirement[p], LinkOf(requirement[p].target))
  <2>1. Implementing(p) /\ requirement[p].target # NoTarget /\ Save(p, row)
    BY <1>6 DEF ReconcilePublication, Published
  <2>2. LinkOf(requirement[p].target) \in Link
    BY <1>3, <2>1, RowType, LinkOfType DEF StoreInv, Proper, Requirement, Implementing
  <2>3. row.status = "active"
    BY <1>3, <2>1, <2>2, SettledProper DEF StoreInv
  <2> HIDE DEF row
  <2>4. QED
    BY <1>2, <1>6, <2>1, <2>3
<1>7. ASSUME NEW t \in Tasks, Request(t)
      PROVE  Same /\ owner' = owner
  <2>1. owner' = owner
    BY <1>7, RequestIs, StartsIs DEF history
  <2>2. CASE \E p \in Requirements : RequestImplement(t, p)
    <3>1. ~NoImplement /\ (UNCHANGED requirement \/ \E p \in Requirements :
                                                      ReconcilePublication(p, table))
      BY <2>2 DEF RequestImplement, NoImplement, store
    <3>2. QED
      BY <1>1, <1>6, <2>1, <3>1
  <2>3. \/ \E p \in Requirements : RequestImplement(t, p)
        \/ \E p \in Requirements, path \in Routes : \E link : Create(p, path, link)
        \/ UNCHANGED requirement
    BY <1>7 DEF Request, RequestCreate, RequestMove, RequestRevise, RequestRetry, store
  <2>4. QED
    BY <1>1, <1>4, <2>1, <2>2, <2>3
<1>8. ASSUME NEW p \in Requirements, Change(p)
      PROVE  Same /\ owner' = owner
  <2>1. owner' = owner
    BY <1>8 DEF Change, history
  <2>2. CASE EditRequirement(p)
    <3>1. Edited(p, requirement[p].link) /\ Exists(p)
      BY <2>2 DEF EditRequirement, UpdateContent, Edited
    <3>2. requirement[p].link \in Link \cup {NoLink}
      BY <1>3, <3>1, RowType DEF StoreInv, Proper, Requirement
    <3>3. QED
      BY <1>5, <2>1, <3>1, <3>2 DEF Edited, Implementing
  <2>3. CASE RebaseRequirement(p)
    <3>1. /\ RebaseRoute(p, Linked(requirement[p].path)) /\ Exists(p)
          /\ table[requirement[p].path] # NoPublication
      BY <2>3 DEF RebaseRequirement
    <3>2. requirement[p].path \in Routes
      BY <1>3, <3>1, RowType DEF StoreInv, Proper, Requirement
    <3>3. Linked(requirement[p].path) \in Link
      BY <3>1, <3>2, LinkedType
    <3>4. QED
      BY <1>5, <2>1, <3>1, <3>3 DEF RebaseRoute, Implementing
  <2>4. ASSUME NEW path \in Routes, LinkRequirement(p, path)
        PROVE  Same
    BY <1>4, <2>4 DEF LinkRequirement
  <2>5. QED
    BY <1>8, <2>1, <2>2, <2>3, <2>4 DEF Change
<1>9. ASSUME NEW w \in late, LateMoveLinks(w)
      PROVE  Same /\ owner' = owner
  <2>1. w \in Task
    BY DEF TaskInv, TypeOK
  <2>2. QED
    BY <1>9, <2>1, MoveOnClaims DEF LateMoveLinks, history
<1>10. CASE \/ \E route \in Routes, digest \in Digests : PutRoute(route, digest)
            \/ Shutdown \/ Exit \/ Crash \/ UNCHANGED vars
  BY <1>1, <1>10 DEF PutRoute, Shutdown, Exit, Crash, vars, store, history
<1>11. CASE Late
  BY <1>1, <1>9, <1>11 DEF Late, LateCommit, CommitRoute, store, history
<1>12. QED
  BY <1>7, <1>8, <1>10, <1>11 DEF NextTask

\* Startup gives back every claim.
LEMMA StartupEndsClaims ==
  ASSUME TaskInv, Startup, NEW q \in Requirements
  PROVE  ~Implementing(q)'
<1> DEFINE row == requirement[q]
<1>1. requirement'[q] = IF ~Implementing(q) THEN row
                        ELSE IF Published(row.target, table)
                          THEN Activated(row, LinkOf(row.target)) ELSE Failed(row)
  BY DEF Startup, RecoverInterrupted
<1>2. RequirementInv
  BY DEF TaskInv, StoreInv
<1>3. ASSUME Implementing(q)
      PROVE  Failed(row).status = "failed"
  BY <1>2, <1>3, FailedProper
<1>4. ASSUME Implementing(q), Published(row.target, table)
      PROVE  Activated(row, LinkOf(row.target)).status = "active"
  <2>1. LinkOf(row.target) \in Link
    BY <1>2, <1>4, RowType, LinkOfType DEF Implementing, Published, Proper, Requirement
  <2>2. QED
    BY <1>2, <1>4, <2>1, SettledProper
<1>5. QED
  BY <1>1, <1>3, <1>4 DEF Implementing, Exists

\* A receipt stays with its claim, so a claim stays with a task that does nothing.
LEMMA HolderWaits ==
  ASSUME TaskInv, [NextTask]_vars, NEW t \in Tasks, NEW q \in Requirements, HoldsClaim(t, q),
         task'[t] = task[t], owner'[q] = owner[q], Implementing(q)'
  PROVE  HoldsClaim(t, q)'
<1>1. task[t].pc \in Receipted => requirement'[q].target = task[t].target
  <2> SUFFICES ASSUME task[t].pc \in Receipted PROVE requirement'[q].target = task[t].target
    OBVIOUS
  <2>1. requirement[q].target = task[t].target /\ Implementing(q) /\ Live(t)
    BY DEF HoldsClaim
  <2>2. task[t].target # NoTarget
    BY <2>1, TaskType, NoTargetAssumption DEF Shaped, Receipted
  <2>3. Next \/ requirement' = requirement
    BY StepIsClient DEF store
  <2>4. QED
    BY <2>1, <2>2, <2>3, ReceiptStays DEF TaskInv
<1>2. QED
  BY <1>1 DEF HoldsClaim, Live

LEMMA NextClaimsHeld ==
  ASSUME StoreAnswers, TaskInv, TasksRefer, ClaimsAreHeld, [NextTask]_vars
  PROVE  ClaimsAreHeld'
<1> SUFFICES ASSUME service' = "running", NEW q \in Requirements, Implementing(q)'
             PROVE  \E t \in Tasks : HoldsClaim(t, q)'
  BY DEF ClaimsAreHeld, Running, HoldsClaim
<1>1. ~Startup
  BY StartupEndsClaims
<1>2. CASE \E u \in Tasks : Work(u) \/ Cancel(u)
  <2>1. PICK u \in Tasks : Work(u) \/ Cancel(u)
    BY <1>2
  <2>2. Running
    BY <2>1, WorkTurn DEF TaskTurn, Running
  <2>3. CASE ~Implementing(q)
    BY <2>1, <2>2, <2>3, WorkOnClaims, ClaimBegins
  <2>4. CASE Implementing(q)
    <3>1. PICK t \in Tasks : HoldsClaim(t, q)
      BY <2>2, <2>4 DEF ClaimsAreHeld
    <3>2. CASE t = u
      BY <2>1, <2>2, <3>1, <3>2, HolderStep
    <3>3. CASE t # u
      <4>1. task'[t] = task[t] /\ owner'[q] = owner[q]
        BY <2>1, <2>4, <3>3, WorkTurn, WorkOnClaims DEF TaskTurn
      <4>2. QED
        BY <3>1, <4>1, HolderWaits
    <3>4. QED
      BY <3>2, <3>3
  <2>5. QED
    BY <2>3, <2>4
<1>3. CASE ~\E u \in Tasks : Work(u) \/ Cancel(u)
  <2>1. Implementing(q) /\ owner' = owner
    BY <1>1, <1>3, OthersOnClaims
  <2>2. /\ Running
        /\ \A t \in Tasks : Live(t) => task'[t] = task[t]
    <3>1. ASSUME NEW u \in Tasks, Starts(u)
          PROVE  Running /\ \A t \in Tasks : Live(t) => task'[t] = task[t]
      BY <3>1, StartsIs
    <3>2. ~Crash /\ ~Shutdown /\ ~Exit
      BY DEF Crash, Shutdown, Exit
    <3>3. QED
      BY <1>1, <1>3, <3>1, <3>2, OtherTurns DEF Running
  <2>3. PICK t \in Tasks : HoldsClaim(t, q)
    BY <2>1, <2>2 DEF ClaimsAreHeld
  <2>4. task'[t] = task[t]
    BY <2>2, <2>3 DEF HoldsClaim
  <2>5. QED
    BY <2>1, <2>3, <2>4, HolderWaits
<1>4. QED
  BY <1>2, <1>3

(***************************************************************************)
(* While the service runs, a requirement in implementing is in the hands   *)
(* of the task that claimed it last: one whose handlers still give the     *)
(* claim back (api.py:1649-1923), whatever moves, crashes, reconciles or   *)
(* fails but SQLite itself.  With the fairness of the tasks this is what   *)
(* ends every claim.                                                       *)
(***************************************************************************)
THEOREM ClaimsHaveHolders == StoreAnswers => (TaskSpec => []ClaimsAreHeld)
<1> SUFFICES ASSUME StoreAnswers PROVE TaskSpec => []ClaimsAreHeld
  OBVIOUS
<1>1. Init => ClaimsAreHeld
  BY DEF Init, StoreInit, ClaimsAreHeld, Implementing, Exists
<1>2. TaskInv /\ TasksRefer /\ ClaimsAreHeld /\ [NextTask]_vars => ClaimsAreHeld'
  BY NextClaimsHeld
<1>3. QED
  BY <1>1, <1>2, TaskInvariant, TasksReferAlways, PTL DEF TaskSpec

\* What others do leaves the claim of a task as it is.
LEMMA OthersLeaveClaim ==
  ASSUME NoImplement, TaskInv, TasksRefer, ServiceInv, ClaimantsHold, [NextTask]_vars,
         NEW t \in Tasks, ~(Work(t) \/ Cancel(t)), task'[t] # NoTask, task'[t].pc \in Claiming
  PROVE  \E q \in Requirements :
           /\ HoldsClaim(t, q) /\ task'[t] = task[t]
           /\ requirement'[q] = requirement[q] /\ owner'[q] = owner[q]
<1>1. ~Startup
  BY DEF Startup, ServiceInv, Live
<1>2. task'[t] = task[t]
  <2>1. ~Crash /\ ~Starts(t)
    BY StartsIs DEF Crash, Claiming
  <2>2. ASSUME NEW u \in Tasks \ {t}, Starts(u)
        PROVE  task'[t] = task[t]
    BY <2>2, StartsIs
  <2>3. ASSUME NEW u \in Tasks \ {t}, Work(u) \/ Cancel(u)
        PROVE  task'[t] = task[t]
    BY <2>3, WorkTurn DEF TaskTurn
  <2>4. QED
    BY <1>1, <2>1, <2>2, <2>3, OtherTurns DEF Shutdown, Exit
<1>3. PICK q \in Requirements : HoldsClaim(t, q)
  BY <1>2, TaskType DEF ClaimantsHold, Live
<1>4. ASSUME NEW u \in Tasks \ {t}, Work(u) \/ Cancel(u)
      PROVE  requirement'[q] = requirement[q] /\ owner'[q] = owner[q]
  <2>1. Live(u)
    BY <1>4, WorkTurn DEF TaskTurn
  <2>2. Implementing(q) /\ owner[q] # u
    BY <1>3 DEF HoldsClaim
  <2>3. q # task[u].requirement \/ task[u].pc \notin Claiming
    BY <2>1, <2>2 DEF ClaimantsHold, HoldsClaim
  <2>4. QED
    BY <1>4, <2>2, <2>3, WorkOnClaims
<1>5. ASSUME ~\E u \in Tasks : Work(u) \/ Cancel(u)
      PROVE  requirement'[q] = requirement[q] /\ owner'[q] = owner[q]
  BY <1>1, <1>3, <1>5, OthersOnClaims DEF HoldsClaim
<1>6. requirement'[q] = requirement[q] /\ owner'[q] = owner[q]
  BY <1>4, <1>5
<1>7. QED
  BY <1>2, <1>3, <1>6

LEMMA NextClaimantsHold ==
  ASSUME StoreAnswers, NoImplement, TaskInv, TasksRefer, ServiceInv, ClaimantsHold,
         [NextTask]_vars
  PROVE  ClaimantsHold'
<1> SUFFICES ASSUME NEW t \in Tasks, task'[t] # NoTask, task'[t].pc \in Claiming
             PROVE  \E q \in Requirements : HoldsClaim(t, q)'
  BY DEF ClaimantsHold, HoldsClaim, Live
<1>1. CASE Work(t) \/ Cancel(t)
  <2>1. Live(t) /\ task[t].requirement \in Requirements
    BY <1>1, WorkTurn, TaskType DEF TaskTurn
  <2>2. CASE task[t].pc \in Claiming
    BY <1>1, <2>1, <2>2, HolderStep DEF ClaimantsHold
  <2>3. CASE task[t].pc \notin Claiming
    BY <1>1, <2>1, <2>3, OnlyClaimBegins, ClaimBegins DEF Claiming
  <2>4. QED
    BY <2>2, <2>3
<1>2. CASE ~(Work(t) \/ Cancel(t))
  <2>1. PICK q \in Requirements :
          /\ HoldsClaim(t, q) /\ task'[t] = task[t]
          /\ requirement'[q] = requirement[q] /\ owner'[q] = owner[q]
    BY <1>2, OthersLeaveClaim
  <2>2. QED
    BY <2>1 DEF HoldsClaim, Live, Implementing, Exists
<1>3. QED
  BY <1>1, <1>2

LEMMA ClaimantsInvariant == StoreAnswers /\ NoImplement => (TaskSpec => []ClaimantsHold)
<1> SUFFICES ASSUME StoreAnswers, NoImplement PROVE TaskSpec => []ClaimantsHold
  OBVIOUS
<1>1. Init => ClaimantsHold
  BY DEF Init, ClaimantsHold, Live
<1>2. TaskInv /\ TasksRefer /\ ServiceInv /\ ClaimantsHold /\ [NextTask]_vars => ClaimantsHold'
  BY NextClaimantsHold
<1>3. QED
  BY <1>1, <1>2, TaskInvariant, TasksReferAlways, ServiceInvariant, PTL DEF TaskSpec

(***************************************************************************)
(* Also where routes move and activated publications raise, a task that    *)
(* fails returns its own claim, although fail_implementation does not ask  *)
(* whose it is (metadata.py:1111-1145): as long as SQLite answers and no   *)
(* one calls /implement, which reconciles what a task is still about to    *)
(* report.                                                                 *)
(***************************************************************************)
THEOREM MovedFailuresAreOwn == StoreAnswers /\ NoImplement => (TaskSpec => FailsOwnClaim)
<1> SUFFICES ASSUME StoreAnswers, NoImplement PROVE TaskSpec => FailsOwnClaim
  OBVIOUS
<1> DEFINE Ends ==
      \A t \in Tasks :
        Failing(t) =>
          LET q == task[t].requirement IN
          Implementing(q) /\ requirement'[q].status = "failed" => owner[q] = t
<1>1. ClaimantsHold => Ends
  BY AtIs DEF ClaimantsHold, HoldsClaim, Failing, Claiming
<1> HIDE DEF Ends
<1>2. TaskSpec => [][Ends]_vars
  BY <1>1, ClaimantsInvariant, PTL
<1>3. QED
  BY <1>2 DEF FailsOwnClaim, Ends

-----------------------------------------------------------------------------
(* The operations of those tasks.                                          *)

\* Phases of a task that has begun its operation.
Engaged == Claiming \cup {"completed", "failing", "dropped"}

\* The operation of such a task is still in implementing.
EngagedHaveOperations ==
  \A t \in Tasks :
    Live(t) /\ task[t].pc \in Engaged /\ task[t].operation \in Operations
      => HasStatus(task[t].operation, "implementing")

\* Every operation in implementing has a task that goes on with it.
BegunAreEngaged ==
  Running => \A o \in Operations :
               HasStatus(o, "implementing") =>
                 \E t \in Tasks : Live(t) /\ task[t].pc \in Engaged /\ task[t].operation = o

\* A task changes the row of its operation, by a call of the store or as it fails it.
LEMMA WorkOnOperations ==
  ASSUME TaskInv, OwnInv, NEW t \in Tasks, Work(t) \/ Cancel(t), NEW p \in Operations,
         operation'[p] # operation[p]
  PROVE  /\ p = task[t].operation
         /\ CommittedCall(t) \/ (FailTask(t) /\ operation'[p].status = "failed")
<1> DEFINE o == task[t].operation
<1>1. \/ CommittedCall(t) \/ UNCHANGED operation \/ FailTask(t)
  BY StepsCall
     DEF Work, Generate, Publish, CommitRoute, Raise, AnswerLost, ActivatedButRaised, Cancel,
         MoveLinks, MoveRouteLinks, FailRequirement, FailImplementation, store
<1>2. CASE CommittedCall(t)
  BY <1>2, CallRows
<1>3. CASE FailTask(t)
  <2>1. /\ o \in Operations /\ operation[o] \in Operation
        /\ operation' = [operation EXCEPT ![o] = [operation[o] EXCEPT !.status = "failed"]]
    <3>1. Live(t) /\ task[t].pc \in {"failing", "dropped"} /\ FailOperation(o)
      BY <1>3, AtIs DEF FailTask, store
    <3>2. o \in Operations
      BY <3>1, TaskType DEF Shaped
    <3>3. QED
      BY <3>1, <3>2, OperationType DEF FailOperation, Failable, InProgress, SetOperation
  <2>2. [operation[o] EXCEPT !.status = "failed"].status = "failed"
    BY <2>1 DEF Operation
  <2>3. QED
    BY <1>3, <2>1, <2>2 DEF TaskInv, StoreInv, OperationInv
<1>4. QED
  BY <1>1, <1>2, <1>3

LEMMA ClaimBeginsOperation ==
  ASSUME TaskInv, NEW t \in Tasks, ClaimWork(t), NEW o \in Operations, o = task[t].operation
  PROVE  HasStatus(o, "implementing")'
<1>1. BeginOperation(o)
  BY TaskAssumption DEF ClaimWork, ClaimRow
<1>2. operation[o] \in Operation
  BY <1>1, OperationType DEF BeginOperation, HasStatus
<1>3. operation'[o] = [operation[o] EXCEPT !.status = "implementing"]
  BY <1>1 DEF BeginOperation, SetOperation, TaskInv, StoreInv, OperationInv
<1>4. operation'[o] \in Operation /\ operation'[o].status = "implementing"
  BY <1>2, <1>3 DEF Operation, OperationStatuses
<1>5. QED
  BY <1>4, NoOperationAssumption DEF HasStatus, Submitted

\* From its last phases a task goes nowhere else.
LEMMA LastStep ==
  ASSUME TaskInv, NEW t \in Tasks, Work(t) \/ Cancel(t), Live(t),
         task[t].pc \in {"completed", "failing", "dropped"}
  PROVE  task'[t] = NoTask
<1>1. ~Guarded(t)
  BY DEF Guarded, Is
<1>2. \A pc \in Phases \ {"completed", "failing", "dropped"} : ~At(t, pc) /\ ~Is(t, pc)
  BY AtIs
<1>3. End(t)
  BY <1>1, <1>2
     DEF Work, Accept, Revise, ClaimWork, Generate, Note, NoteOperation, Publish, MoveLinks,
         Finalize, Finish, Raise, AnswerLost, ActivatedButRaised, FailRequirement, Failing,
         FailTask, AfterException, Cancel, Phases
<1>4. QED
  BY <1>3, EndIs

\* A task that has begun its operation goes on with it, or ends it.
LEMMA EngagedStep ==
  ASSUME TaskInv, OwnInv, StoreAnswers, ClaimantsHold, NEW t \in Tasks, Work(t) \/ Cancel(t),
         Live(t), task[t].pc \in Engaged, NEW o \in Operations, o = task[t].operation,
         HasStatus(o, "implementing")
  PROVE  /\ task'[t] # NoTask => HasStatus(o, "implementing")'
         /\ Running /\ HasStatus(o, "implementing")'
              => task'[t] # NoTask /\ task'[t].pc \in Engaged
<1> DEFINE q == task[t].requirement
<1>1. \A pc : At(t, pc) \/ Is(t, pc) => task[t].pc = pc
  BY AtIs
<1>2. ASSUME task'[t] # NoTask
      PROVE  HasStatus(o, "implementing")'
  <2>1. CASE operation'[o] = operation[o]
    BY <2>1 DEF HasStatus, Submitted
  <2>2. CASE operation'[o] # operation[o]
    <3>1. task[t].pc \notin {"completed", "failing", "dropped"}
      BY <1>2, LastStep
    <3>2. CommittedCall(t)
      BY <2>2, <3>1, <1>1, WorkOnOperations DEF FailTask
    <3>3. operation'[o] # NoOperation /\ operation'[o].status = "implementing"
      BY <2>2, <3>1, <3>2, CallRows DEF Engaged, Claiming
    <3>4. QED
      BY <3>3 DEF HasStatus, Submitted
  <2>3. QED
    BY <2>1, <2>2
<1>3. ASSUME Running, HasStatus(o, "implementing")'
      PROVE  task'[t] # NoTask /\ task'[t].pc \in Engaged
  <2>1. {"generated", "noted", "ready", "moved", "published", "completed", "erring", "failing",
         "dropped"} \subseteq Phases \cap Engaged
    BY DEF Phases, Engaged, Claiming
  <2>2. ASSUME NEW pc \in Phases \cap Engaged, Goto(t, pc)
        PROVE  task'[t] # NoTask /\ task'[t].pc \in Engaged
    BY <2>2, GotoType DEF Live
  <2>3. o # NoOperation
    BY TaskAssumption
  <2>4. CASE Note(t) \/ NoteOperation(t) \/ Publish(t) \/ MoveLinks(t) \/ Finalize(t)
             \/ ActivatedButRaised(t) \/ FailRequirement(t)
    <3>1. \E pc \in {"noted", "ready", "moved", "published", "completed", "erring", "failing",
                     "dropped"} : Goto(t, pc)
      BY <2>3, <2>4
         DEF Note, AfterNote, NoteOperation, Publish, MoveLinks, Finalize, ActivatedButRaised,
             FailRequirement, AfterFailure
    <3>2. QED
      BY <2>1, <2>2, <3>1
  <2>5. ASSUME NEW digest \in Digests, Generate(t, digest)
        PROVE  task'[t] # NoTask /\ task'[t].pc \in Engaged
    BY <2>1, <2>5, GenerateIs DEF Live
  <2>6. CASE Raise(t)
    <3>1. task[t].pc # "completed"
      BY <1>1, <2>6 DEF Raise, Refused, Faulty, StoreAnswers
    <3>2. task[t].pc # "published"
      <4>1. task[t].pc = "published" => Completable(q, task[t].target)
        BY DEF ClaimantsHold, HoldsClaim, Claiming, Receipted, Completable
      <4>2. QED
        BY <1>1, <2>6, <4>1 DEF Raise, Refused, Faulty, StoreAnswers
    <3>3. task[t].pc \in {"claimed", "generated", "noted", "ready", "moved"}
      BY <1>1, <2>6, <3>1, <3>2 DEF Raise, Refused, Faulty, StoreAnswers, Engaged, Claiming
    <3>4. Guarded(t)
      BY <3>3 DEF Guarded, Is, Live
    <3>5. Goto(t, "erring")
      BY <2>6, <3>4 DEF Raise, AfterException
    <3>6. QED
      BY <2>1, <2>2, <3>5
  <2>7. ~Finish(t)
    <3> SUFFICES ASSUME Finish(t) PROVE FALSE
      OBVIOUS
    <3>1. /\ CommittedCall(t) /\ task[t].pc = "completed"
          /\ CompleteOperation(o, LinkOf(task[t].target))
      BY <1>1, StepsCall DEF Finish
    <3>2. operation'[o].status = "implementing" /\ operation[o].status = "implementing"
      BY <1>3 DEF HasStatus
    <3>3. operation'[o] = operation[o]
      BY <3>1, <3>2, CallRows
    <3>4. /\ operation[o] \in Operation /\ task[t].target \in Target
          /\ operation[o].target \in Target
      BY <3>1, <3>2, OperationType, TaskType, NoTargetAssumption
         DEF CompleteOperation, HasStatus, Shaped, Operation
    <3> DEFINE link == LinkOf(task[t].target)
               row == [operation[o] EXCEPT !.status = "finish", !.target.route = link.route,
                                           !.target.version = link.version]
    <3>5. operation' = [operation EXCEPT ![o] = row]
      BY <3>1, <3>2 DEF CompleteOperation, SetOperation, HasStatus
    <3>6. row.status = "finish"
      BY <3>4 DEF Operation
    <3> HIDE DEF row
    <3>7. operation'[o] = row
      BY <3>5 DEF TaskInv, StoreInv, OperationInv
    <3>8. QED
      BY <3>2, <3>6, <3>7
  <2>8. ~FailTask(t)
    <3> SUFFICES ASSUME FailTask(t) PROVE FALSE
      OBVIOUS
    <3>1. FailOperation(o) /\ operation[o] \in Operation
      BY OperationType DEF FailTask, StoreAnswers, Failable, InProgress, HasStatus
    <3>2. operation'[o] = [operation[o] EXCEPT !.status = "failed"]
      BY <3>1 DEF FailOperation, SetOperation, TaskInv, StoreInv, OperationInv
    <3>3. operation'[o].status = "failed"
      BY <3>1, <3>2 DEF Operation
    <3>4. QED
      BY <1>3, <3>3 DEF HasStatus
  <2>9. ~Cancel(t) /\ ~AnswerLost(t) /\ ~Accept(t) /\ ~Revise(t) /\ ~ClaimWork(t)
    BY <1>1, <1>3
       DEF Cancel, Running, AnswerLost, StoreAnswers, Accept, Revise, ClaimWork, Engaged, Claiming
  <2>10. QED
    BY <2>4, <2>5, <2>6, <2>7, <2>8, <2>9 DEF Work
<1>4. QED
  BY <1>2, <1>3

\* The other steps leave the operations alone.
LEMMA OthersOnOperations ==
  ASSUME TaskInv, [NextTask]_vars, ~\E t \in Tasks : Work(t) \/ Cancel(t), ~Startup
  PROVE  operation' = operation
BY RequestIs
   DEF NextTask, Change, EditRequirement, UpdateContent, RebaseRequirement, RebaseRoute,
       LinkRequirement, Create, PutRoute, Shutdown, Late, LateCommit, CommitRoute,
       LateMoveLinks, MoveRouteLinks, Exit, Crash, vars, store

\* Startup ends every operation that was begun.
LEMMA StartupEndsOperations ==
  ASSUME TaskInv, Startup, NEW o \in Operations
  PROVE  ~HasStatus(o, "implementing")'
<1> DEFINE status == RecoveredStatus(o, table)
<1>1. operation'[o] = IF ~InProgress(o) THEN operation[o]
                      ELSE [operation[o] EXCEPT !.status = status]
  BY DEF Startup, RecoverInterrupted
<1>2. status \in {"finish", "failed"}
  BY DEF RecoveredStatus
<1> HIDE DEF status
<1>3. CASE InProgress(o)
  <2>1. operation[o] \in Operation
    BY <1>3, OperationType DEF InProgress
  <2>2. operation'[o].status = status
    BY <1>1, <1>3, <2>1 DEF Operation
  <2>3. QED
    BY <1>2, <2>2 DEF HasStatus
<1>4. CASE ~InProgress(o)
  BY <1>1, <1>4 DEF InProgress, HasStatus, Submitted
<1>5. QED
  BY <1>3, <1>4

LEMMA NextEngagedHave ==
  ASSUME StoreAnswers, TaskInv, OwnInv, ServiceInv, ClaimantsHold, EngagedHaveOperations,
         [NextTask]_vars
  PROVE  EngagedHaveOperations'
<1> SUFFICES ASSUME NEW t \in Tasks, task'[t] # NoTask, task'[t].pc \in Engaged,
                    NEW o \in Operations, o = task'[t].operation
             PROVE  HasStatus(o, "implementing")'
  BY DEF EngagedHaveOperations, Live
<1>1. CASE Work(t) \/ Cancel(t)
  <2>1. Live(t) /\ task[t].operation = o
    BY <1>1, WorkTurn DEF TaskTurn
  <2>2. CASE task[t].pc \in Engaged
    BY <1>1, <2>1, <2>2, EngagedStep DEF EngagedHaveOperations
  <2>3. CASE task[t].pc \notin Engaged
    <3>1. task[t].pc \notin Claiming /\ task'[t].pc # "scheduled"
      BY <2>3 DEF Engaged, Claiming
    <3>2. ClaimWork(t)
      BY <1>1, <3>1, OnlyClaimBegins
    <3>3. QED
      BY <2>1, <3>2, ClaimBeginsOperation
  <2>4. QED
    BY <2>2, <2>3
<1>2. ASSUME task'[t] = task[t], operation'[o] = operation[o]
      PROVE  HasStatus(o, "implementing")'
  BY <1>2 DEF EngagedHaveOperations, Live, HasStatus, Submitted
<1>3. ASSUME NEW u \in Tasks \ {t}, Work(u) \/ Cancel(u)
      PROVE  HasStatus(o, "implementing")'
  <2>1. task'[t] = task[t] /\ Live(u) /\ Live(t)
    BY <1>3, WorkTurn DEF TaskTurn, Live
  <2>2. task[u].operation # o
    BY <2>1 DEF OwnInv, OwnOperation
  <2>3. operation'[o] = operation[o]
    BY <1>3, <2>2, WorkOnOperations
  <2>4. QED
    BY <1>2, <2>1, <2>3
<1>4. CASE Startup
  BY <1>4 DEF Startup, ServiceInv, Live
<1>5. CASE ~(\E u \in Tasks : Work(u) \/ Cancel(u)) /\ ~Startup
  <2>1. task'[t] = task[t]
    <3>1. ~Crash /\ ~Starts(t)
      BY StartsIs DEF Crash, Engaged, Claiming
    <3>2. ASSUME NEW u \in Tasks \ {t}, Starts(u)
          PROVE  task'[t] = task[t]
      BY <3>2, StartsIs
    <3>3. QED
      BY <1>5, <3>1, <3>2, OtherTurns DEF Shutdown, Exit
  <2>2. QED
    BY <1>2, <1>5, <2>1, OthersOnOperations
<1>6. QED
  BY <1>1, <1>3, <1>4, <1>5

LEMMA NextBegunAre ==
  ASSUME StoreAnswers, TaskInv, OwnInv, ClaimantsHold, BegunAreEngaged, [NextTask]_vars
  PROVE  BegunAreEngaged'
<1> SUFFICES ASSUME service' = "running", NEW o \in Operations, HasStatus(o, "implementing")'
             PROVE  \E t \in Tasks : /\ task'[t] # NoTask /\ task'[t].pc \in Engaged
                                     /\ task'[t].operation = o
  BY DEF BegunAreEngaged, Running, Live
<1>1. ~Startup
  BY StartupEndsOperations
<1>2. ASSUME NEW u \in Tasks, Work(u) \/ Cancel(u)
      PROVE  \E t \in Tasks : /\ task'[t] # NoTask /\ task'[t].pc \in Engaged
                              /\ task'[t].operation = o
  <2>1. TaskTurn(u) /\ Live(u) /\ Running
    BY <1>2, WorkTurn DEF TaskTurn, Running
  <2>2. CASE HasStatus(o, "implementing")
    <3>1. PICK t \in Tasks : Live(t) /\ task[t].pc \in Engaged /\ task[t].operation = o
      BY <2>1, <2>2 DEF BegunAreEngaged
    <3>2. CASE t = u
      BY <1>2, <2>1, <2>2, <3>1, <3>2, EngagedStep DEF TaskTurn
    <3>3. CASE t # u
      BY <2>1, <3>1, <3>3 DEF TaskTurn, Live
    <3>4. QED
      BY <3>2, <3>3
  <2>3. CASE ~HasStatus(o, "implementing")
    <3>1. operation'[o] # operation[o] /\ operation'[o].status = "implementing"
      BY <2>3 DEF HasStatus, Submitted
    <3>2. o = task[u].operation /\ CommittedCall(u)
      BY <1>2, <3>1, WorkOnOperations
    <3>3. task[u].pc # "noted"
      BY <2>3, <3>2, AtIs DEF CommittedCall, PrepareOperationPublication
    <3>4. task[u].pc = "scheduled"
      BY <3>1, <3>2, <3>3, CallRows
    <3>5. ClaimWork(u)
      <4>1. ~AnswerLost(u) /\ ~Raise(u) /\ ~Cancel(u)
        BY <2>1, <3>1 DEF StoreAnswers, AnswerLost, Raise, Cancel, Running, store
      <4>2. \A pc \in Phases \ {"scheduled"} : ~At(u, pc) /\ ~Is(u, pc)
        BY <3>4, AtIs
      <4>3. QED
        BY <1>2, <4>1, <4>2
           DEF Work, Accept, Revise, Generate, Note, NoteOperation, Publish, MoveLinks,
               Finalize, Finish, ActivatedButRaised, FailRequirement, Failing, FailTask, Phases
    <3>6. QED
      BY <3>2, <3>5, ClaimWorkIs DEF Engaged, Claiming, Live
  <2>4. QED
    BY <2>2, <2>3
<1>3. CASE ~\E u \in Tasks : Work(u) \/ Cancel(u)
  <2>1. HasStatus(o, "implementing")
    BY <1>1, <1>3, OthersOnOperations DEF HasStatus, Submitted
  <2>2. Running /\ \A t \in Tasks : Live(t) => task'[t] = task[t]
    <3>1. ASSUME NEW u \in Tasks, Starts(u)
          PROVE  Running /\ \A t \in Tasks : Live(t) => task'[t] = task[t]
      BY <3>1, StartsIs
    <3>2. ~Crash /\ ~Shutdown /\ ~Exit
      BY DEF Crash, Shutdown, Exit
    <3>3. QED
      BY <1>1, <1>3, <3>1, <3>2, OtherTurns DEF Running
  <2>3. QED
    BY <2>1, <2>2 DEF BegunAreEngaged, Live
<1>4. QED
  BY <1>2, <1>3

(***************************************************************************)
(* While the service runs, an operation in implementing is in the hands of *)
(* a task that still reports it finished or failed, under the same         *)
(* hypotheses: none is left to a restart.  With the fairness of the tasks  *)
(* this is what ends every operation that was begun (api.py:1649-1923).    *)
(***************************************************************************)
THEOREM OperationsHaveTasks ==
  StoreAnswers /\ NoImplement => (TaskSpec => []BegunAreEngaged)
<1> SUFFICES ASSUME StoreAnswers, NoImplement PROVE TaskSpec => []BegunAreEngaged
  OBVIOUS
<1>1. Init => BegunAreEngaged
  BY DEF Init, StoreInit, BegunAreEngaged, HasStatus, Submitted
<1>2. TaskInv /\ OwnInv /\ ClaimantsHold /\ BegunAreEngaged /\ [NextTask]_vars
        => BegunAreEngaged'
  BY NextBegunAre
<1>3. QED
  BY <1>1, <1>2, TaskInvariant, OwnInvariant, ClaimantsInvariant, PTL DEF TaskSpec

\* Until a task notes its receipt its claim has none.
ClaimsAreFresh ==
  \A t \in Tasks, q \in Requirements :
    Live(t) /\ task[t].pc \in {"claimed", "generated"} /\ task[t].requirement = q
      => requirement[q].target = NoTarget

LEMMA NextFreshClaims ==
  ASSUME NoImplement, TaskInv, TasksRefer, ServiceInv, ClaimantsHold, ClaimsAreFresh,
         [NextTask]_vars
  PROVE  ClaimsAreFresh'
<1> SUFFICES ASSUME NEW t \in Tasks, NEW q \in Requirements, task'[t] # NoTask,
                    task'[t].pc \in {"claimed", "generated"}, task'[t].requirement = q
             PROVE  requirement'[q].target = NoTarget
  BY DEF ClaimsAreFresh, Live
<1>1. CASE Work(t) \/ Cancel(t)
  <2>1. Live(t) /\ task[t].requirement = q
    BY <1>1, WorkTurn DEF TaskTurn
  <2>2. CASE ClaimWork(t)
    <3>1. Exists(q) /\ Save(q, Cleared(requirement[q], "implementing"))
      BY <2>1, <2>2, ClaimIs DEF ClaimWork, At
    <3>2. "implementing" \in RequirementStatuses /\ StoreInv
      BY DEF RequirementStatuses, TaskInv
    <3>3. QED
      BY <3>1, <3>2, SaveOther, ClearedRow
  <2>3. CASE ~ClaimWork(t)
    <3>1. task[t].pc \in Claiming
      BY <1>1, <2>3, OnlyClaimBegins
    <3>2. {"noted", "ready", "moved", "published", "completed", "erring", "failing", "cancelled",
           "dropped"} \subseteq Phases \ {"claimed", "generated"}
      BY DEF Phases
    <3>3. ASSUME NEW pc \in Phases \ {"claimed", "generated"}
          PROVE  ~Goto(t, pc)
      BY <2>1, <3>3, GotoType
    <3>4. ~End(t)
      BY EndIs
    <3>5. \A pc \in {"revising", "created", "scheduled"} : ~At(t, pc)
      BY <3>1, AtIs DEF Claiming
    <3>6. \E digest \in Digests : Generate(t, digest)
      BY <1>1, <2>3, <3>2, <3>3, <3>4, <3>5
         DEF Work, Accept, Revise, Note, AfterNote, NoteOperation, Publish, MoveLinks, Finalize,
             Finish, Raise, AnswerLost, ActivatedButRaised, FailRequirement, AfterFailure,
             FailTask, AfterException, Cancel
    <3>7. task[t].pc = "claimed" /\ UNCHANGED requirement
      BY <3>6, GenerateGives DEF store
    <3>8. QED
      BY <2>1, <3>7 DEF ClaimsAreFresh
  <2>4. QED
    BY <2>2, <2>3
<1>2. CASE ~(Work(t) \/ Cancel(t))
  <2>1. task'[t].pc \in Claiming
    BY DEF Claiming
  <2>2. PICK p \in Requirements : /\ HoldsClaim(t, p) /\ task'[t] = task[t]
                                  /\ requirement'[p] = requirement[p]
    BY <1>2, <2>1, OthersLeaveClaim
  <2>3. QED
    BY <2>2 DEF ClaimsAreFresh, HoldsClaim
<1>3. QED
  BY <1>1, <1>2

(***************************************************************************)
(* What a task reports is accepted, under the same hypotheses: when it has *)
(* a receipt to note or published work to finalize, its requirement is     *)
(* still claimed with exactly its receipt and its operation has not been   *)
(* ended by anyone.  A refusal after the publication would only be logged  *)
(* (api.py:1852-1923).                                                     *)
(***************************************************************************)
ReportsAreAccepted ==
  \A t \in Tasks :
    Refused(t) => \A pc \in {"generated", "noted", "published", "completed"} : ~At(t, pc)

\* The store accepts what a task reports of its work (metadata.py:744-821, 973-1109).
THEOREM ReportsAreNotRefused ==
  StoreAnswers /\ NoImplement => (TaskSpec => []ReportsAreAccepted)
<1> SUFFICES ASSUME StoreAnswers, NoImplement PROVE TaskSpec => []ReportsAreAccepted
  OBVIOUS
<1>1. Init => EngagedHaveOperations /\ ClaimsAreFresh
  BY DEF Init, EngagedHaveOperations, ClaimsAreFresh, Live
<1>2. /\ TaskInv /\ OwnInv /\ TasksRefer /\ ServiceInv /\ ClaimantsHold
      /\ EngagedHaveOperations /\ ClaimsAreFresh /\ [NextTask]_vars
      => EngagedHaveOperations' /\ ClaimsAreFresh'
  BY NextEngagedHave, NextFreshClaims
<1>3. TaskInv /\ ClaimantsHold /\ EngagedHaveOperations /\ ClaimsAreFresh => ReportsAreAccepted
  <2> SUFFICES ASSUME TaskInv, ClaimantsHold, EngagedHaveOperations, ClaimsAreFresh,
                      NEW t \in Tasks, Refused(t),
                      NEW pc \in {"generated", "noted", "published", "completed"}, At(t, pc)
               PROVE  FALSE
    BY DEF ReportsAreAccepted
  <2>1. Live(t) /\ task[t].pc = pc /\ \A other : At(t, other) \/ Is(t, other) => other = pc
    BY AtIs
  <2>2. pc # "completed" => HoldsClaim(t, task[t].requirement)
    BY <2>1 DEF ClaimantsHold, Claiming
  <2>3. pc = "published" => Completable(task[t].requirement, task[t].target)
    BY <2>1, <2>2 DEF HoldsClaim, Receipted, Completable
  <2>4. pc \in {"noted", "completed"} => HasStatus(task[t].operation, "implementing")
    <3>1. pc \in {"noted", "completed"} => task[t].operation \in Operations
      BY <2>1, TaskType DEF Shaped
    <3>2. QED
      BY <2>1, <3>1 DEF EngagedHaveOperations, Engaged, Claiming
  <2>5. pc = "generated" => ReceiptAgrees(task[t].requirement, task[t].target)
    BY <2>1, <2>2, TaskType DEF HoldsClaim, ClaimsAreFresh, ReceiptAgrees
  <2>6. QED
    BY <2>1, <2>3, <2>4, <2>5 DEF Refused
<1>4. QED
  BY <1>1, <1>2, <1>3, TaskInvariant, OwnInvariant, TasksReferAlways, ServiceInvariant,
     ClaimantsInvariant, PTL DEF TaskSpec
=============================================================================
