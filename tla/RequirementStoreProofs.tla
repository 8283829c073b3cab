----------------------- MODULE RequirementStoreProofs -----------------------
(***************************************************************************)
(* Theorems about RequirementStore, for any clients and every value of the *)
(* constants.  The invariant splits in two halves that share no variable:  *)
(* RequirementInv about the requirements and their events, OperationInv    *)
(* about the operations.  Every method keeps each half.                    *)
(***************************************************************************)
EXTENDS RequirementStore, TLAPS

RequirementInv ==
  /\ requirement \in [Requirements -> Requirement \cup {NoRequirement}]
  /\ event \in [Requirements -> Event]
  /\ ReceiptBelongsToClaim
  /\ NewestEventIsStatus

OperationInv ==
  /\ operation \in [Operations -> Operation \cup {NoOperation}]
  /\ OneActiveOperation

StoreInv == RequirementInv /\ OperationInv

-----------------------------------------------------------------------------
(* Requirements.                                                           *)

\* A row that may stand in the table.
Proper(row) ==
  /\ row \in Requirement
  /\ row.target # NoTarget => row.status = "implementing"

LEMMA RowType ==
  ASSUME RequirementInv, NEW q \in Requirements, Exists(q)
  PROVE  Proper(requirement[q])
BY DEF RequirementInv, Exists, ReceiptBelongsToClaim, Proper

\* Saving a proper row, with its event when the status changes, keeps the half.
LEMMA SaveKeeps ==
  ASSUME RequirementInv, NEW q \in Requirements, NEW row, Proper(row), Save(q, row),
         \/ Log(q, row.status)
         \/ UNCHANGED event /\ Exists(q) /\ row.status = requirement[q].status
  PROVE  RequirementInv'
<1> USE DEF RequirementInv
<1>1. row # NoRequirement /\ row.status \in RequirementStatuses
  BY NoRequirementAssumption DEF Proper, Requirement
<1>2. requirement' \in [Requirements -> Requirement \cup {NoRequirement}]
  BY DEF Save, Proper
<1>3. StatusOf(q) \in RequirementStatuses \cup {"none"}
  BY DEF StatusOf, Exists, Requirement
<1>4. event' \in [Requirements -> Event]
  BY <1>1, <1>3 DEF Log, Event
<1>5. \A p \in Requirements \ {q} : requirement'[p] = requirement[p] /\ event'[p] = event[p]
  BY DEF Save, Log
<1>6. requirement'[q] = row
  BY DEF Save
<1>7. ReceiptBelongsToClaim'
  BY <1>5, <1>6 DEF ReceiptBelongsToClaim, Exists, Proper
<1>8. NewestEventIsStatus'
  <2>1. StatusOf(q)' = row.status
    BY <1>1, <1>6 DEF StatusOf, Exists
  <2>2. event'[q].to = row.status
    BY DEF Log, NewestEventIsStatus, StatusOf
  <2>3. QED
    BY <1>5, <2>1, <2>2 DEF NewestEventIsStatus, StatusOf, Exists
<1>9. QED
  BY <1>2, <1>4, <1>7, <1>8

LEMMA ClearedProper ==
  ASSUME RequirementInv, NEW q \in Requirements, Exists(q),
         NEW status \in RequirementStatuses, NEW link \in Link \cup {NoLink}
  PROVE  /\ Proper(Cleared(requirement[q], status))
         /\ Cleared(requirement[q], status).status = status
         /\ Proper([Cleared(requirement[q], status) EXCEPT !.link = link])
         /\ [Cleared(requirement[q], status) EXCEPT !.link = link].status = status
BY RowType DEF Proper, Cleared, Requirement

LEMMA LinkOfType ==
  ASSUME NEW target \in Target
  PROVE  LinkOf(target) \in Link
BY DEF LinkOf, Link, Target

LEMMA ClaimKeeps ==
  ASSUME RequirementInv, NEW q \in Requirements, Claim(q)
  PROVE  RequirementInv'
<1>1. Exists(q) /\ "implementing" \in RequirementStatuses /\ NoLink \in Link \cup {NoLink}
  BY DEF Claim, Claimable, RequirementStatuses
<1>2. QED
  BY <1>1, ClearedProper, SaveKeeps DEF Claim

LEMMA EditedKeeps ==
  ASSUME RequirementInv, NEW q \in Requirements, NEW link \in Link \cup {NoLink},
         Edited(q, link)
  PROVE  RequirementInv'
<1>1. Exists(q) /\ "draft" \in RequirementStatuses
  BY DEF Edited, RequirementStatuses
<1>2. QED
  BY <1>1, ClearedProper, SaveKeeps DEF Edited

LEMMA PublicationKeeps ==
  ASSUME RequirementInv, NEW q \in Requirements, NEW target \in Target,
         PreparePublication(q, target)
  PROVE  RequirementInv'
<1> DEFINE row == [requirement[q] EXCEPT !.target = target]
<1>1. Exists(q) /\ requirement[q].status = "implementing"
  BY DEF PreparePublication, ReceiptAgrees, Implementing
<1>2. Proper(row) /\ row.status = requirement[q].status
  BY <1>1, RowType DEF Proper, Requirement
<1>3. QED
  BY <1>1, <1>2, SaveKeeps DEF PreparePublication

LEMMA CompletionKeeps ==
  ASSUME RequirementInv, NEW q \in Requirements, NEW target \in Completion,
         CompleteImplementation(q, target)
  PROVE  RequirementInv'
<1>1. LinkOf(target) \in Link
  BY DEF LinkOf, Link, Completion
<1>2. CASE UNCHANGED <<requirement, event>>
  BY <1>2 DEF RequirementInv, ReceiptBelongsToClaim, NewestEventIsStatus, Exists, StatusOf
<1>3. CASE /\ Completable(q, target)
           /\ Save(q, Activated(requirement[q], LinkOf(target)))
           /\ Log(q, "active")
  <2>1. Exists(q) /\ "active" \in RequirementStatuses
    BY <1>3 DEF Completable, Implementing, RequirementStatuses
  <2>2. Proper(Activated(requirement[q], LinkOf(target)))
        /\ Activated(requirement[q], LinkOf(target)).status = "active"
    BY <1>1, <2>1, ClearedProper DEF Activated
  <2>3. QED
    BY <1>3, <2>2, SaveKeeps
<1>4. QED
  BY <1>2, <1>3 DEF CompleteImplementation

LEMMA ReconcileKeeps ==
  ASSUME RequirementInv, NEW q \in Requirements, NEW active,
         ReconcilePublication(q, active)
  PROVE  RequirementInv'
<1>1. Exists(q) /\ requirement[q].target # NoTarget
  BY DEF ReconcilePublication, Implementing, Published
<1>2. LinkOf(requirement[q].target) \in Link /\ "active" \in RequirementStatuses
  BY <1>1, RowType, LinkOfType DEF Proper, Requirement, RequirementStatuses
<1>3. QED
  BY <1>1, <1>2, ClearedProper, SaveKeeps DEF ReconcilePublication, Activated

\* The methods on one requirement.
LEMMA ClientRequirementKeeps ==
  ASSUME RequirementInv, NEW q \in Requirements, ClientRequirement(q)
  PROVE  RequirementInv'
<1>1. ASSUME NEW path \in Routes, NEW link \in Link \cup {NoLink}, Create(q, path, link)
      PROVE  RequirementInv'
  <2> DEFINE row == [status |-> "draft", path |-> path, link |-> link, target |-> NoTarget]
  <2>1. Proper(row) /\ row.status = "draft"
    BY DEF Proper, Requirement, RequirementStatuses
  <2>2. QED
    BY <1>1, <2>1, SaveKeeps DEF Create
<1>2. CASE UpdateContent(q)
  <2>1. requirement[q].link \in Link \cup {NoLink}
    BY <1>2, RowType DEF UpdateContent, Edited, Proper, Requirement
  <2>2. QED
    BY <1>2, <2>1, EditedKeeps DEF UpdateContent
<1>3. CASE BeginImplementation(q)
  BY <1>3, ClaimKeeps DEF BeginImplementation
<1>4. CASE FailImplementation(q)
  <2>1. Exists(q) /\ "failed" \in RequirementStatuses /\ NoLink \in Link \cup {NoLink}
    BY <1>4 DEF FailImplementation, Implementing, RequirementStatuses
  <2>2. QED
    BY <1>4, <2>1, ClearedProper, SaveKeeps DEF FailImplementation, Failed
<1>5. ASSUME NEW target \in Target, PreparePublication(q, target)
      PROVE  RequirementInv'
  BY <1>5, PublicationKeeps
<1>6. ASSUME NEW target \in Completion, CompleteImplementation(q, target)
      PROVE  RequirementInv'
  BY <1>6, CompletionKeeps
<1>7. ASSUME NEW link \in Link, RebaseRoute(q, link)
      PROVE  RequirementInv'
  <2>1. Exists(q) /\ "draft" \in RequirementStatuses
    BY <1>7 DEF RebaseRoute, RequirementStatuses
  <2>2. QED
    BY <1>7, <2>1, ClearedProper, SaveKeeps DEF RebaseRoute
<1>8. QED
  BY <1>1, <1>2, <1>3, <1>4, <1>5, <1>6, <1>7 DEF ClientRequirement

LEMMA MoveKeeps ==
  ASSUME RequirementInv, NEW route \in Routes, NEW link \in Link, NEW exclude,
         MoveRouteLinks(route, link, exclude)
  PROVE  RequirementInv'
<1> USE DEF RequirementInv
<1>1. ASSUME NEW q \in Requirements, LinkedTo(q, route), q # exclude
      PROVE  /\ requirement'[q] \in Requirement
             /\ requirement'[q].target = NoTarget
             /\ requirement'[q].status = requirement[q].status
  <2>1. requirement[q] \in Requirement /\ link.route \in Routes
    BY <1>1 DEF LinkedTo, Exists, Link
  <2>2. requirement'[q] = [requirement[q] EXCEPT !.link = link, !.path = link.route,
                                                 !.target = NoTarget]
    BY <1>1 DEF MoveRouteLinks
  <2>3. QED
    BY <2>1, <2>2 DEF Requirement
<1>2. ASSUME NEW q \in Requirements, ~(LinkedTo(q, route) /\ q # exclude)
      PROVE  requirement'[q] = requirement[q]
  BY <1>2 DEF MoveRouteLinks
<1>3. requirement' \in [Requirements -> Requirement \cup {NoRequirement}]
  <2>1. \A q \in Requirements : requirement'[q] \in Requirement \cup {NoRequirement}
    BY <1>1, <1>2
  <2>2. QED
    BY <2>1 DEF MoveRouteLinks
<1>4. ReceiptBelongsToClaim'
  BY <1>1, <1>2 DEF ReceiptBelongsToClaim, Exists
<1>5. \A q \in Requirements : StatusOf(q)' = StatusOf(q)
  BY <1>1, <1>2, NoRequirementAssumption DEF StatusOf, Exists, LinkedTo
<1>6. QED
  BY <1>3, <1>4, <1>5 DEF MoveRouteLinks, NewestEventIsStatus

LEMMA RecoverKeepsRequirements ==
  ASSUME RequirementInv, NEW active, RecoverInterrupted(active)
  PROVE  RequirementInv'
<1> USE DEF RequirementInv
<1>1. ASSUME NEW q \in Requirements, Implementing(q)
      PROVE  /\ Proper(requirement'[q])
             /\ event'[q] \in Event
             /\ event'[q].to = requirement'[q].status
  <2>1. Exists(q) /\ "active" \in RequirementStatuses /\ "failed" \in RequirementStatuses
        /\ NoLink \in Link \cup {NoLink}
    BY <1>1 DEF Implementing, RequirementStatuses
  <2>2. CASE Published(requirement[q].target, active)
    <3>1. LinkOf(requirement[q].target) \in Link
      BY <2>1, <2>2, RowType, LinkOfType DEF Published, Proper, Requirement
    <3>2. requirement'[q] = Activated(requirement[q], LinkOf(requirement[q].target))
      BY <1>1, <2>2 DEF RecoverInterrupted
    <3>3. QED
      BY <1>1, <2>1, <2>2, <3>1, <3>2, ClearedProper
         DEF RecoverInterrupted, Activated, Event, RequirementStatuses
  <2>3. CASE ~Published(requirement[q].target, active)
    BY <1>1, <2>1, <2>3, ClearedProper
       DEF RecoverInterrupted, Failed, Event, RequirementStatuses
  <2>4. QED
    BY <2>2, <2>3
<1>2. ASSUME NEW q \in Requirements, ~Implementing(q)
      PROVE  requirement'[q] = requirement[q] /\ event'[q] = event[q]
  BY <1>2 DEF RecoverInterrupted
<1>3. requirement' \in [Requirements -> Requirement \cup {NoRequirement}]
  <2>1. \A q \in Requirements : requirement'[q] \in Requirement \cup {NoRequirement}
    BY <1>1, <1>2 DEF Proper
  <2>2. QED
    BY <2>1 DEF RecoverInterrupted
<1>4. event' \in [Requirements -> Event]
  <2>1. \A q \in Requirements : event'[q] \in Event
    BY <1>1, <1>2
  <2>2. QED
    BY <2>1 DEF RecoverInterrupted
<1>5. ReceiptBelongsToClaim'
  BY <1>1, <1>2 DEF ReceiptBelongsToClaim, Exists, Proper
<1>6. NewestEventIsStatus'
  <2>1. ASSUME NEW q \in Requirements, Implementing(q)
        PROVE  event'[q].to = StatusOf(q)'
    BY <1>1, <2>1, NoRequirementAssumption DEF StatusOf, Exists, Proper
  <2>2. QED
    BY <1>2, <2>1 DEF NewestEventIsStatus, StatusOf, Exists
<1>7. QED
  BY <1>3, <1>4, <1>5, <1>6

-----------------------------------------------------------------------------
(* Operations.                                                             *)

\* Changing one operation that is already in progress, or ending it.
LEMMA SetOperationKeeps ==
  ASSUME OperationInv, NEW o \in Operations, NEW row \in Operation,
         SetOperation(o, row), Submitted(o),
         row.requirement = operation[o].requirement,
         row.status \in {"accepted", "implementing"} => InProgress(o)
  PROVE  OperationInv'
<1> USE DEF OperationInv
<1>1. operation' = [operation EXCEPT ![o] = row]
  BY DEF SetOperation
<1>2. \A p \in Operations : InProgress(p)' =>
        InProgress(p) /\ operation'[p].requirement = operation[p].requirement
  BY <1>1 DEF InProgress, Submitted
<1>3. QED
  BY <1>1, <1>2 DEF OneActiveOperation

LEMMA InsertKeeps ==
  ASSUME OperationInv, NEW o \in Operations, NEW q \in Requirements, NEW kind \in Kinds,
         NEW path \in Routes, NEW base \in Link \cup {NoLink},
         Insert(o, q, kind, path, base)
  PROVE  OperationInv'
<1> USE DEF OperationInv
<1> DEFINE row == [requirement |-> q, kind |-> kind, path |-> path, base |-> base,
                   target |-> NoTarget, status |-> "accepted"]
<1>1. row \in Operation
  BY DEF Operation, OperationStatuses
<1>2. operation' = [operation EXCEPT ![o] = row]
  BY DEF Insert
<1>3. \A p \in Operations \ {o} : operation'[p] = operation[p]
  BY <1>2
<1>4. operation'[o].requirement = q
  BY <1>2
<1>5. \A p \in Operations \ {o} : ~(InProgress(p) /\ operation[p].requirement = q)
  BY DEF Insert, HasActiveOperation
<1>6. OneActiveOperation'
  BY <1>3, <1>4, <1>5 DEF OneActiveOperation, InProgress, Submitted
<1>7. QED
  BY <1>1, <1>2, <1>6

LEMMA ClientOperationKeeps ==
  ASSUME StoreInv, NEW o \in Operations, ClientOperation(o)
  PROVE  StoreInv'
<1> USE DEF StoreInv
<1>1. ASSUME NEW q \in Requirements, NEW kind \in Kinds, NEW path \in Routes,
             NEW base \in Link \cup {NoLink}, CreateOperation(o, q, kind, path, base)
      PROVE  StoreInv'
  <2>1. RequirementInv'
    BY <1>1 DEF CreateOperation, RequirementInv, ReceiptBelongsToClaim,
                NewestEventIsStatus, Exists, StatusOf
  <2>2. QED
    BY <1>1, <2>1, InsertKeeps DEF CreateOperation
<1>2. ASSUME NEW q \in Requirements, NEW kind \in Kinds,
             NEW base \in Link \cup {NoLink}, ReviseAndCreateOperation(o, q, kind, base)
      PROVE  StoreInv'
  <2>1. requirement[q].path \in Routes
    BY <1>2, RowType DEF ReviseAndCreateOperation, Edited, Proper, Requirement
  <2>2. QED
    BY <1>2, <2>1, EditedKeeps, InsertKeeps DEF ReviseAndCreateOperation
<1>3. CASE BeginOperation(o)
  <2>1. Submitted(o) /\ InProgress(o) /\ operation[o] \in Operation
    BY <1>3 DEF BeginOperation, HasStatus, Submitted, InProgress, OperationInv
  <2>2. operation[o].requirement \in Requirements
    BY <2>1 DEF Operation
  <2>3. RequirementInv'
    BY <1>3, <2>2, ClaimKeeps DEF BeginOperation
  <2> DEFINE row == [operation[o] EXCEPT !.status = "implementing"]
  <2>4. row \in Operation /\ row.requirement = operation[o].requirement
    BY <2>1 DEF Operation, OperationStatuses
  <2>5. OperationInv'
    BY <1>3, <2>1, <2>4, SetOperationKeeps DEF BeginOperation
  <2>6. QED
    BY <2>3, <2>5
<1>4. ASSUME UNCHANGED <<requirement, event>>
      PROVE  RequirementInv'
  BY <1>4 DEF RequirementInv, ReceiptBelongsToClaim, NewestEventIsStatus, Exists, StatusOf
<1>5. CASE FailOperation(o)
  <2> DEFINE row == [operation[o] EXCEPT !.status = "failed"]
  <2>1. Submitted(o) /\ operation[o] \in Operation
    BY <1>5 DEF FailOperation, Failable, InProgress, Submitted, OperationInv
  <2>2. row \in Operation /\ row.requirement = operation[o].requirement
        /\ row.status = "failed"
    BY <2>1 DEF Operation, OperationStatuses
  <2>3. OperationInv'
    BY <1>5, <2>1, <2>2, SetOperationKeeps DEF FailOperation
  <2>4. QED
    BY <1>4, <1>5, <2>3 DEF FailOperation
<1>6. ASSUME NEW target \in Target, PrepareOperationPublication(o, target)
      PROVE  StoreInv'
  <2> DEFINE row == [operation[o] EXCEPT !.target = target]
  <2>1. Submitted(o) /\ InProgress(o) /\ operation[o] \in Operation
    BY <1>6 DEF PrepareOperationPublication, HasStatus, InProgress, Submitted, OperationInv
  <2>2. row \in Operation /\ row.requirement = operation[o].requirement
    BY <2>1 DEF Operation
  <2>3. OperationInv'
    BY <1>6, <2>1, <2>2, SetOperationKeeps DEF PrepareOperationPublication
  <2>4. QED
    BY <1>4, <1>6, <2>3 DEF PrepareOperationPublication
<1>7. ASSUME NEW link \in Link, CompleteOperation(o, link)
      PROVE  StoreInv'
  <2>1. CASE UNCHANGED operation
    BY <1>4, <1>7, <2>1 DEF CompleteOperation, OperationInv, OneActiveOperation,
                            InProgress, Submitted
  <2>2. CASE HasStatus(o, "implementing") /\ ~UNCHANGED operation
    <3> DEFINE target == [operation[o].target EXCEPT !.route = link.route,
                                                     !.version = link.version]
               row == [operation[o] EXCEPT !.status = "finish",
                         !.target.route = link.route, !.target.version = link.version]
    <3>1. Submitted(o) /\ InProgress(o) /\ operation[o] \in Operation
      BY <2>2 DEF HasStatus, InProgress, Submitted, OperationInv
    <3>2. target \in Target
      <4>1. operation[o].target \in Target
        BY <1>7, <2>2, <3>1 DEF CompleteOperation, Operation
      <4>2. QED
        BY <4>1 DEF Target, Link
    <3>3. row \in Operation /\ row.requirement = operation[o].requirement
          /\ row.status = "finish"
      <4>1. row = [operation[o] EXCEPT !.status = "finish", !.target = target]
        BY <3>1, <3>2 DEF Operation, Target
      <4>2. QED
        BY <3>1, <3>2, <4>1 DEF Operation, OperationStatuses
    <3>4. SetOperation(o, row)
      BY <1>7, <2>2 DEF CompleteOperation
    <3>5. OperationInv'
      BY <3>1, <3>3, <3>4, SetOperationKeeps
    <3>6. QED
      BY <1>4, <1>7, <3>5 DEF CompleteOperation
  <2>3. QED
    BY <1>7, <2>1, <2>2 DEF CompleteOperation
<1>8. QED
  BY <1>1, <1>2, <1>3, <1>5, <1>6, <1>7 DEF ClientOperation

LEMMA RecoverKeepsOperations ==
  ASSUME OperationInv, NEW active, RecoverInterrupted(active)
  PROVE  OperationInv'
<1> USE DEF OperationInv
<1>1. ASSUME NEW o \in Operations
      PROVE  operation'[o] \in Operation \cup {NoOperation} /\ ~InProgress(o)'
  <2>1. CASE ~InProgress(o)
    BY <2>1 DEF RecoverInterrupted, InProgress, Submitted
  <2>2. CASE InProgress(o)
    <3>1. operation[o] \in Operation
      BY <2>2 DEF InProgress, Submitted
    <3>2. PICK status \in {"finish", "failed"} :
            operation'[o] = [operation[o] EXCEPT !.status = status]
      <4>1. RecoveredStatus(o, active) \in {"finish", "failed"}
        BY DEF RecoveredStatus
      <4>2. QED
        BY <2>2, <4>1 DEF RecoverInterrupted
    <3>3. operation'[o] \in Operation /\ operation'[o].status = status
      BY <3>1, <3>2 DEF Operation, OperationStatuses
    <3>4. QED
      BY <3>2, <3>3 DEF InProgress
  <2>3. QED
    BY <2>1, <2>2
<1>2. operation' \in [Operations -> Operation \cup {NoOperation}]
  BY <1>1 DEF RecoverInterrupted
<1>3. QED
  BY <1>1, <1>2 DEF OneActiveOperation

-----------------------------------------------------------------------------
(* The theorems.                                                           *)

LEMMA StoreInitInv == StoreInit => StoreInv
BY NoRequirementAssumption, NoOperationAssumption
   DEF StoreInit, StoreInv, RequirementInv, OperationInv, ReceiptBelongsToClaim,
       NewestEventIsStatus, OneActiveOperation, InProgress, Submitted, Exists,
       StatusOf, Event

LEMMA StoreStepInv == StoreInv /\ [Next]_store => StoreInv'
<1> SUFFICES ASSUME StoreInv, [Next]_store
             PROVE  StoreInv'
  OBVIOUS
<1> USE DEF StoreInv
<1>1. ASSUME UNCHANGED operation
      PROVE  OperationInv'
  BY <1>1 DEF OperationInv, OneActiveOperation, InProgress, Submitted
<1>2. ASSUME NEW q \in Requirements, ClientRequirement(q)
      PROVE  StoreInv'
  <2>1. UNCHANGED operation
    BY <1>2 DEF ClientRequirement, Create, UpdateContent, BeginImplementation,
       FailImplementation, PreparePublication, CompleteImplementation, RebaseRoute
  <2>2. QED
    BY <1>1, <1>2, <2>1, ClientRequirementKeeps
<1>3. ASSUME NEW o \in Operations, ClientOperation(o)
      PROVE  StoreInv'
  BY <1>3, ClientOperationKeeps
<1>4. ASSUME NEW route \in Routes, NEW link \in Link,
             NEW exclude \in Requirements \cup {NoRequirement},
             MoveRouteLinks(route, link, exclude)
      PROVE  StoreInv'
  BY <1>1, <1>4, MoveKeeps DEF MoveRouteLinks
<1>5. ASSUME NEW active, NEW q \in Requirements, ReconcilePublication(q, active)
      PROVE  StoreInv'
  BY <1>1, <1>5, ReconcileKeeps DEF ReconcilePublication
<1>6. ASSUME NEW active, RecoverInterrupted(active)
      PROVE  StoreInv'
  BY <1>6, RecoverKeepsRequirements, RecoverKeepsOperations
<1>7. CASE UNCHANGED store
  BY <1>1, <1>7 DEF store, RequirementInv, ReceiptBelongsToClaim, NewestEventIsStatus,
                    Exists, StatusOf
<1>8. QED
  BY <1>2, <1>3, <1>4, <1>5, <1>6, <1>7 DEF Next

LEMMA StoreInductive == Spec => []StoreInv
BY StoreInitInv, StoreStepInv, PTL DEF Spec

\* The three tables keep their types, whatever the clients call.
THEOREM StoreTypeCorrect == Spec => []StoreTypeOK
<1>1. StoreInv => StoreTypeOK
  BY DEF StoreInv, RequirementInv, OperationInv, StoreTypeOK
<1>2. QED
  BY <1>1, StoreInductive, PTL

(***************************************************************************)
(* A requirement never has two operations in progress, in any order of     *)
(* calls by any number of clients (metadata.py:1391-1404).                 *)
(***************************************************************************)
THEOREM OneOperationAtATime == Spec => []OneActiveOperation
<1>1. StoreInv => OneActiveOperation
  BY DEF StoreInv, OperationInv
<1>2. QED
  BY <1>1, StoreInductive, PTL

(***************************************************************************)
(* No receipt outlives the claim it was written under: a later claim never *)
(* finds a receipt it did not write (metadata.py:935-1312).                *)
(***************************************************************************)
THEOREM NoStaleReceipt == Spec => []ReceiptBelongsToClaim
<1>1. StoreInv => ReceiptBelongsToClaim
  BY DEF StoreInv, RequirementInv
<1>2. QED
  BY <1>1, StoreInductive, PTL

\* The event log always ends in the status the requirement has (1462-1479).
THEOREM LogFollowsStatus == Spec => []NewestEventIsStatus
<1>1. StoreInv => NewestEventIsStatus
  BY DEF StoreInv, RequirementInv
<1>2. QED
  BY <1>1, StoreInductive, PTL

-----------------------------------------------------------------------------
(* Steps.                                                                  *)

LEMMA EndedStays ==
  ASSUME StoreInv, Next, NEW o \in Operations, Submitted(o), ~InProgress(o)
  PROVE  operation'[o] = operation[o]
<1>1. operation \in [Operations -> Operation \cup {NoOperation}]
  BY DEF StoreInv, OperationInv
<1>2. ASSUME NEW p \in Operations, ClientOperation(p)
      PROVE  operation'[o] = operation[o]
  <2>1. CASE UNCHANGED operation
    BY <2>1
  <2>2. ASSUME NEW row, SetOperation(p, row), InProgress(p)
        PROVE  operation'[o] = operation[o]
    BY <1>1, <2>2 DEF SetOperation
  <2>3. ASSUME NEW q, NEW kind, NEW path, NEW base, Insert(p, q, kind, path, base)
        PROVE  operation'[o] = operation[o]
    BY <1>1, <2>3 DEF Insert
  <2>4. QED
    BY <1>2, <2>1, <2>2, <2>3
       DEF ClientOperation, CreateOperation, ReviseAndCreateOperation, BeginOperation,
           FailOperation, Failable, PrepareOperationPublication, CompleteOperation, HasStatus,
           InProgress
<1>3. ASSUME NEW active, RecoverInterrupted(active)
      PROVE  operation'[o] = operation[o]
  BY <1>3 DEF RecoverInterrupted
<1>4. CASE UNCHANGED operation
  BY <1>4
<1>5. QED
  BY <1>2, <1>3, <1>4
     DEF Next, ClientRequirement, Create, UpdateContent, BeginImplementation, FailImplementation,
         PreparePublication, CompleteImplementation, RebaseRoute, MoveRouteLinks,
         ReconcilePublication

LEMMA ReceiptStays ==
  ASSUME StoreInv, Next, NEW q \in Requirements,
         Implementing(q), Implementing(q)', requirement[q].target # NoTarget
  PROVE  requirement'[q].target = requirement[q].target
<1>1. /\ RequirementInv /\ Exists(q) /\ requirement[q].status = "implementing"
      /\ requirement'[q].status = "implementing"
  BY DEF StoreInv, Implementing
<1>2. CASE requirement'[q] = requirement[q]
  BY <1>2
<1>3. ASSUME NEW p \in Requirements, NEW row, Save(p, row)
      PROVE  requirement'[q] = requirement[q] \/ (p = q /\ requirement'[q] = row)
  BY <1>1, <1>3 DEF Save, RequirementInv
<1>4. ASSUME NEW p \in Requirements, NEW row, Save(p, row), ~Implementing(p)
      PROVE  requirement'[q] = requirement[q]
  BY <1>3, <1>4
<1>5. ASSUME NEW p \in Requirements, NEW row, Save(p, row), p = q => row.status # "implementing"
      PROVE  requirement'[q] = requirement[q]
  BY <1>1, <1>3, <1>5
<1>6. ASSUME NEW p \in Requirements, NEW link, Edited(p, link) \/ RebaseRoute(p, link)
      PROVE  requirement'[q] = requirement[q]
  BY <1>4, <1>6 DEF Edited, RebaseRoute, Implementing
<1>7. ASSUME NEW p \in Requirements, Claim(p)
      PROVE  requirement'[q] = requirement[q]
  BY <1>4, <1>7 DEF Claim, Claimable, Implementing
<1>8. ASSUME NEW p \in Requirements, NEW target \in Target, PreparePublication(p, target)
      PROVE  requirement'[q].target = requirement[q].target
  <2>1. /\ Save(p, [requirement[p] EXCEPT !.target = target])
        /\ requirement[p].target \in {NoTarget, target}
    BY <1>8 DEF PreparePublication, ReceiptAgrees
  <2>2. CASE p = q /\ requirement'[q] = [requirement[q] EXCEPT !.target = target]
    BY <1>1, <2>1, <2>2, RowType DEF Proper, Requirement
  <2>3. QED
    BY <1>3, <2>1, <2>2
<1>9. ASSUME NEW link \in Link
      PROVE  /\ Failed(requirement[q]).status # "implementing"
             /\ Activated(requirement[q], link).status # "implementing"
  <2>1. {"failed", "active"} \subseteq RequirementStatuses /\ NoLink \in Link \cup {NoLink}
    BY DEF RequirementStatuses
  <2>2. QED
    BY <1>1, <2>1, ClearedProper DEF Failed, Activated
<1>10. ASSUME NEW target \in Target
       PROVE  LinkOf(target) \in Link
  BY LinkOfType
<1>11. ASSUME NEW p \in Requirements, FailImplementation(p)
       PROVE  requirement'[q] = requirement[q]
  <2>1. Failed(requirement[q]).status # "implementing"
    BY <1>1, ClearedProper DEF Failed, RequirementStatuses
  <2>2. QED
    BY <1>5, <1>11, <2>1 DEF FailImplementation
<1>12. ASSUME NEW p \in Requirements, NEW target \in Completion, CompleteImplementation(p, target)
       PROVE  requirement'[q] = requirement[q]
  <2>1. LinkOf(target) \in Link
    BY DEF LinkOf, Link, Completion
  <2>2. QED
    BY <1>5, <1>9, <1>12, <2>1 DEF CompleteImplementation
<1>13. requirement[q].target \in Target
  BY <1>1, RowType DEF Proper, Requirement
<1>14. ASSUME NEW p \in Requirements, NEW active, ReconcilePublication(p, active)
       PROVE  requirement'[q] = requirement[q]
  BY <1>5, <1>9, <1>10, <1>13, <1>14 DEF ReconcilePublication
<1>15. ASSUME NEW active, RecoverInterrupted(active)
       PROVE  FALSE
  <2>1. \/ requirement'[q] = Failed(requirement[q])
        \/ requirement'[q] = Activated(requirement[q], LinkOf(requirement[q].target))
    BY <1>15 DEF RecoverInterrupted
  <2>2. QED
    BY <1>1, <1>9, <1>10, <1>13, <2>1
<1>16. ASSUME NEW route, NEW link, NEW exclude, MoveRouteLinks(route, link, exclude)
       PROVE  requirement'[q] = requirement[q]
  BY <1>1, <1>16 DEF MoveRouteLinks, CanMove
<1>17. ASSUME NEW p \in Requirements, NEW path, NEW link, Create(p, path, link)
       PROVE  requirement'[q] = requirement[q]
  BY <1>4, <1>17 DEF Create, Implementing
<1>18. ASSUME NEW p \in Requirements, ClientRequirement(p)
       PROVE  requirement'[q].target = requirement[q].target
  BY <1>6, <1>7, <1>8, <1>11, <1>12, <1>17, <1>18
     DEF ClientRequirement, UpdateContent, BeginImplementation
<1>19. ASSUME NEW o \in Operations, ClientOperation(o)
       PROVE  requirement'[q] = requirement[q]
  <2>1. CASE BeginOperation(o)
    <3>1. operation[o].requirement \in Requirements
      BY <2>1 DEF BeginOperation, HasStatus, Submitted, StoreInv, OperationInv, Operation
    <3>2. QED
      BY <1>7, <2>1, <3>1 DEF BeginOperation
  <2>2. QED
    BY <1>6, <1>19, <2>1
       DEF ClientOperation, CreateOperation, ReviseAndCreateOperation, FailOperation,
           PrepareOperationPublication, CompleteOperation
<1>20. QED
  BY <1>14, <1>15, <1>16, <1>18, <1>19 DEF Next

\* What was reported finished or failed is never anything else (metadata.py:783-844).
THEOREM ReportsAreFinal == Spec => ReportedOnce
<1>1. StoreInv /\ [Next]_store
        => [\A o \in Operations :
              Submitted(o) /\ ~InProgress(o) => operation'[o] = operation[o]]_store
  BY EndedStays
<1>2. QED
  BY <1>1, StoreInductive, PTL DEF Spec, ReportedOnce

\* A receipt stays as it was noted for as long as its claim lasts (metadata.py:973-1312).
THEOREM ReceiptsAreKept == Spec => ReceiptIsKept
<1>1. StoreInv /\ [Next]_store
        => [\A q \in Requirements :
              Implementing(q) /\ Implementing(q)' /\ requirement[q].target # NoTarget
                => requirement'[q].target = requirement[q].target]_store
  BY ReceiptStays
<1>2. QED
  BY <1>1, StoreInductive, PTL DEF Spec, ReceiptIsKept

-----------------------------------------------------------------------------
(* The store implements RequirementLifecycle: every method is one step of  *)
(* it, or leaves the statuses alone.                                       *)

\* Saving a row sets one status.
LEMMA SaveSetsStatus ==
  ASSUME RequirementInv, NEW q \in Requirements, NEW row, Proper(row), Save(q, row)
  PROVE  Statuses' = [Statuses EXCEPT ![q] = row.status]
<1>1. row # NoRequirement
  BY NoRequirementAssumption DEF Proper
<1>2. requirement' = [requirement EXCEPT ![q] = row]
      /\ requirement \in [Requirements -> Requirement \cup {NoRequirement}]
  BY DEF Save, RequirementInv
<1>3. ASSUME NEW p \in Requirements
      PROVE  StatusOf(p)' = IF p = q THEN row.status ELSE StatusOf(p)
  BY <1>1, <1>2, <1>3 DEF StatusOf, Exists
<1>4. QED
  BY <1>3 DEF Statuses

LEMMA SameRequirements ==
  ASSUME UNCHANGED requirement
  PROVE  UNCHANGED Statuses
BY DEF Statuses, StatusOf, Exists

LEMMA SameOperations ==
  ASSUME UNCHANGED operation
  PROVE  UNCHANGED <<Reports, Subjects>>
BY DEF Reports, Subjects, Submitted

\* Writing a row of operations sets one report.
LEMMA SetOperationReports ==
  ASSUME OperationInv, NEW o \in Operations, NEW row \in Operation, SetOperation(o, row)
  PROVE  /\ Reports' = [Reports EXCEPT ![o] = row.status]
         /\ Subjects' = [Subjects EXCEPT ![o] = row.requirement]
         /\ Submitted(o) /\ row.requirement = operation[o].requirement
              => UNCHANGED Subjects
<1>1. row # NoOperation
  BY NoOperationAssumption
<1>2. operation' = [operation EXCEPT ![o] = row]
      /\ operation \in [Operations -> Operation \cup {NoOperation}]
  BY DEF SetOperation, OperationInv
<1>3. ASSUME NEW p \in Operations
      PROVE  /\ Reports'[p] = IF p = o THEN row.status ELSE Reports[p]
             /\ Subjects'[p] = IF p = o THEN row.requirement ELSE Subjects[p]
  BY <1>1, <1>2, <1>3 DEF Reports, Subjects, Submitted
<1>4. QED
  BY <1>3 DEF Reports, Subjects

\* A claim of the store is a claim of the lifecycle.
LEMMA ClaimIsClaim ==
  ASSUME RequirementInv, NEW q \in Requirements, Claim(q)
  PROVE  Lifecycle!Claim(q)
<1>1. Exists(q) /\ "implementing" \in RequirementStatuses /\ NoLink \in Link \cup {NoLink}
  BY DEF Claim, Claimable, RequirementStatuses
<1>2. Statuses' = [Statuses EXCEPT ![q] = "implementing"]
  <2> DEFINE row == Cleared(requirement[q], "implementing")
  <2>1. Proper(row) /\ row.status = "implementing"
    BY <1>1, ClearedProper
  <2>2. Save(q, row)
    BY DEF Claim
  <2>3. Statuses' = [Statuses EXCEPT ![q] = row.status]
    BY <2>1, <2>2, SaveSetsStatus
  <2>4. QED
    BY <2>1, <2>3
<1>3. Statuses[q] \in {"draft", "failed"}
  BY DEF Claim, Claimable, Statuses, StatusOf
<1>4. QED
  BY <1>2, <1>3 DEF Lifecycle!Claim

\* So is writing the content of what is not being implemented.
LEMMA WriteIsWrite ==
  ASSUME RequirementInv, NEW q \in Requirements, ~Implementing(q),
         NEW row, Proper(row), row.status = "draft", Save(q, row)
  PROVE  Lifecycle!Write(q)
<1>1. Statuses' = [Statuses EXCEPT ![q] = "draft"]
  BY SaveSetsStatus
<1>2. Statuses[q] # "implementing"
  BY DEF Implementing, Statuses, StatusOf
<1>3. QED
  BY <1>1, <1>2 DEF Lifecycle!Write

LEMMA EditIsWrite ==
  ASSUME RequirementInv, NEW q \in Requirements, NEW link \in Link \cup {NoLink},
         Edited(q, link)
  PROVE  Lifecycle!Write(q)
<1>1. Exists(q) /\ ~Implementing(q) /\ "draft" \in RequirementStatuses
  BY DEF Edited, Implementing, RequirementStatuses
<1>2. QED
  BY <1>1, ClearedProper, WriteIsWrite DEF Edited

\* And ending an implementation.
LEMMA SettleIsSettle ==
  ASSUME RequirementInv, NEW q \in Requirements, Implementing(q),
         NEW row, Proper(row), row.status \in {"active", "failed"}, Save(q, row)
  PROVE  Lifecycle!Settle(q)
<1>1. Statuses' = [Statuses EXCEPT ![q] = row.status]
  BY SaveSetsStatus
<1>2. Statuses[q] = "implementing"
  BY DEF Implementing, Statuses, StatusOf
<1>3. QED
  BY <1>1, <1>2 DEF Lifecycle!Settle

\* What an implementing requirement becomes when it is failed, or completed with a link.
LEMMA SettledProper ==
  ASSUME RequirementInv, NEW q \in Requirements, Implementing(q), NEW link \in Link
  PROVE  /\ Proper(Failed(requirement[q])) /\ Failed(requirement[q]).status = "failed"
         /\ Proper(Activated(requirement[q], link))
         /\ Activated(requirement[q], link).status = "active"
<1>1. Exists(q) /\ {"active", "failed"} \subseteq RequirementStatuses
      /\ NoLink \in Link \cup {NoLink}
  BY DEF Implementing, RequirementStatuses
<1>2. QED
  BY <1>1, ClearedProper DEF Failed, Activated

LEMMA FailedProper ==
  ASSUME RequirementInv, NEW q \in Requirements, Implementing(q)
  PROVE  Proper(Failed(requirement[q])) /\ Failed(requirement[q]).status = "failed"
<1>1. Exists(q) /\ "failed" \in RequirementStatuses /\ NoLink \in Link \cup {NoLink}
  BY DEF Implementing, RequirementStatuses
<1>2. QED
  BY <1>1, ClearedProper DEF Failed

LEMMA RequirementStepIsLifecycle ==
  ASSUME StoreInv, NEW q \in Requirements, ClientRequirement(q)
  PROVE  [Lifecycle!Next]_(Lifecycle!vars)
<1> USE DEF StoreInv
<1>1. UNCHANGED operation
  BY DEF ClientRequirement, Create, UpdateContent, BeginImplementation,
     FailImplementation, PreparePublication, CompleteImplementation, RebaseRoute
<1>2. UNCHANGED <<Reports, Subjects>>
  BY <1>1, SameOperations
<1>3. ASSUME Lifecycle!Write(q) \/ Lifecycle!Claim(q) \/ Lifecycle!Settle(q)
      PROVE  Lifecycle!Next
  BY <1>2, <1>3 DEF Lifecycle!Next
<1>4. ASSUME UNCHANGED Statuses
      PROVE  UNCHANGED Lifecycle!vars
  BY <1>2, <1>4 DEF Lifecycle!vars
<1>5. ASSUME NEW path \in Routes, NEW link \in Link \cup {NoLink}, Create(q, path, link)
      PROVE  Lifecycle!Write(q)
  <2> DEFINE row == [status |-> "draft", path |-> path, link |-> link, target |-> NoTarget]
  <2>1. Proper(row) /\ row.status = "draft"
    BY DEF Proper, Requirement, RequirementStatuses
  <2>2. ~Implementing(q) /\ Save(q, row)
    BY <1>5 DEF Create, Implementing
  <2>3. QED
    BY <2>1, <2>2, WriteIsWrite
<1>6. ASSUME UpdateContent(q)
      PROVE  Lifecycle!Write(q)
  <2>1. Edited(q, requirement[q].link) /\ Exists(q)
    BY <1>6 DEF UpdateContent, Edited
  <2>2. requirement[q].link \in Link \cup {NoLink}
    BY <2>1, RowType DEF Proper, Requirement
  <2>3. QED
    BY <2>1, <2>2, EditIsWrite
<1>7. ASSUME BeginImplementation(q)
      PROVE  Lifecycle!Claim(q)
  BY <1>7, ClaimIsClaim DEF BeginImplementation
<1>8. ASSUME FailImplementation(q)
      PROVE  Lifecycle!Settle(q)
  BY <1>8, FailedProper, SettleIsSettle DEF FailImplementation
<1>9. ASSUME NEW target \in Target, PreparePublication(q, target)
      PROVE  UNCHANGED Statuses
  <2> DEFINE row == [requirement[q] EXCEPT !.target = target]
  <2>1. Exists(q) /\ requirement[q].status = "implementing" /\ Save(q, row)
    BY <1>9 DEF PreparePublication, ReceiptAgrees, Implementing
  <2>2. Proper(row) /\ row.status = requirement[q].status
    BY <2>1, RowType DEF Proper, Requirement
  <2>3. Statuses' = [Statuses EXCEPT ![q] = row.status]
    BY <2>1, <2>2, SaveSetsStatus
  <2>4. row.status = Statuses[q]
    BY <2>1, <2>2 DEF Statuses, StatusOf
  <2>5. QED
    BY <2>3, <2>4 DEF Statuses
<1>10. ASSUME NEW target \in Completion, CompleteImplementation(q, target)
       PROVE  UNCHANGED Statuses \/ Lifecycle!Settle(q)
  <2>1. LinkOf(target) \in Link
    BY DEF LinkOf, Link, Completion
  <2>2. CASE UNCHANGED <<requirement, event>>
    BY <2>2, SameRequirements
  <2>3. CASE /\ Completable(q, target)
             /\ Save(q, Activated(requirement[q], LinkOf(target)))
    BY <2>1, <2>3, SettledProper, SettleIsSettle DEF Completable
  <2>4. QED
    BY <1>10, <2>2, <2>3 DEF CompleteImplementation
<1>11. ASSUME NEW link \in Link, RebaseRoute(q, link)
       PROVE  Lifecycle!Write(q)
  <2>1. Exists(q) /\ ~Implementing(q) /\ "draft" \in RequirementStatuses
    BY <1>11 DEF RebaseRoute, Implementing, RequirementStatuses
  <2>2. QED
    BY <1>11, <2>1, ClearedProper, WriteIsWrite DEF RebaseRoute
<1>12. QED
  BY <1>3, <1>4, <1>5, <1>6, <1>7, <1>8, <1>9, <1>10, <1>11 DEF ClientRequirement

\* A new operation is accepted for a requirement that has none under way.
LEMMA InsertIsAccept ==
  ASSUME StoreInv, NEW o \in Operations, NEW q \in Requirements, NEW kind \in Kinds,
         NEW path \in Routes, NEW base \in Link \cup {NoLink},
         Insert(o, q, kind, path, base), Lifecycle!Write(q) \/ UNCHANGED Statuses
  PROVE  Lifecycle!Accept(o, q)
<1> USE DEF StoreInv
<1> DEFINE row == [requirement |-> q, kind |-> kind, path |-> path, base |-> base,
                   target |-> NoTarget, status |-> "accepted"]
<1>1. row \in Operation /\ SetOperation(o, row)
  BY DEF Insert, SetOperation, Operation, OperationStatuses
<1>2. Reports' = [Reports EXCEPT ![o] = "accepted"] /\ Subjects' = [Subjects EXCEPT ![o] = q]
  BY <1>1, SetOperationReports
<1>3. Reports[o] = "none" /\ Statuses[q] # "none"
  <2>1. requirement[q].status \in RequirementStatuses
    BY RowType DEF Insert, Proper, Requirement
  <2>2. QED
    BY <2>1 DEF Insert, Reports, Statuses, StatusOf, RequirementStatuses
<1>4. ASSUME NEW p \in Operations, Lifecycle!UnderWay(p)
      PROVE  Subjects[p] # q
  <2>1. InProgress(p)
    BY <1>4 DEF Lifecycle!UnderWay, Reports, InProgress
  <2>2. QED
    BY <2>1 DEF Insert, HasActiveOperation, Subjects, InProgress
<1>5. QED
  BY <1>2, <1>3, <1>4 DEF Lifecycle!Accept

LEMMA OperationRow ==
  ASSUME OperationInv, NEW o \in Operations, Submitted(o)
  PROVE  /\ operation[o] \in Operation
         /\ Reports[o] = operation[o].status /\ Subjects[o] = operation[o].requirement
BY DEF OperationInv, Submitted, Reports, Subjects

LEMMA OperationStepIsLifecycle ==
  ASSUME StoreInv, NEW o \in Operations, ClientOperation(o)
  PROVE  [Lifecycle!Next]_(Lifecycle!vars)
<1> USE DEF StoreInv
<1>1. ASSUME NEW q \in Requirements, NEW kind \in Kinds, NEW path \in Routes,
             NEW base \in Link \cup {NoLink}, CreateOperation(o, q, kind, path, base)
      PROVE  Lifecycle!Next
  BY <1>1, SameRequirements, InsertIsAccept DEF CreateOperation, Lifecycle!Next
<1>2. ASSUME NEW q \in Requirements, NEW kind \in Kinds, NEW base \in Link \cup {NoLink},
             ReviseAndCreateOperation(o, q, kind, base)
      PROVE  Lifecycle!Next
  <2>1. Lifecycle!Write(q) /\ requirement[q].path \in Routes
    BY <1>2, EditIsWrite, RowType
       DEF ReviseAndCreateOperation, Edited, Proper, Requirement
  <2>2. QED
    BY <1>2, <2>1, InsertIsAccept DEF ReviseAndCreateOperation, Lifecycle!Next
<1>3. ASSUME BeginOperation(o)
      PROVE  Lifecycle!Next
  <2> DEFINE q == operation[o].requirement
             row == [operation[o] EXCEPT !.status = "implementing"]
  <2>1. HasStatus(o, "accepted") /\ Claim(q) /\ SetOperation(o, row)
    BY <1>3 DEF BeginOperation
  <2>2. Submitted(o) /\ operation[o] \in Operation /\ Reports[o] = "accepted"
        /\ Subjects[o] = q
    BY <2>1, OperationRow DEF HasStatus
  <2>3. q \in Requirements /\ row \in Operation /\ row.requirement = q
        /\ row.status = "implementing"
    BY <2>2 DEF Operation, OperationStatuses
  <2>4. Reports' = [Reports EXCEPT ![o] = "implementing"] /\ UNCHANGED Subjects
    BY <2>1, <2>2, <2>3, SetOperationReports
  <2>5. Lifecycle!Claim(Subjects[o])
    BY <2>1, <2>2, <2>3, ClaimIsClaim
  <2>6. QED
    BY <2>2, <2>4, <2>5 DEF Lifecycle!Begin, Lifecycle!Next
<1>4. ASSUME UNCHANGED requirement, NEW row \in Operation, SetOperation(o, row),
             InProgress(o), row.requirement = operation[o].requirement,
             row.status \in {"finish", "failed"},
             row.status = "finish" => operation[o].status = "implementing"
      PROVE  Lifecycle!Next
  <2>1. Submitted(o) /\ Reports[o] = operation[o].status
    BY <1>4, OperationRow DEF InProgress
  <2>2. Reports' = [Reports EXCEPT ![o] = row.status] /\ UNCHANGED Subjects
    BY <1>4, <2>1, SetOperationReports
  <2>3. Lifecycle!UnderWay(o) /\ row.status \in Lifecycle!Outcome(o)
    BY <1>4, <2>1 DEF InProgress, Lifecycle!UnderWay, Lifecycle!Outcome
  <2>4. QED
    BY <1>4, <2>2, <2>3, SameRequirements DEF Lifecycle!End, Lifecycle!Next
<1>5. ASSUME FailOperation(o)
      PROVE  Lifecycle!Next
  <2> DEFINE row == [operation[o] EXCEPT !.status = "failed"]
  <2>1. InProgress(o) /\ SetOperation(o, row) /\ UNCHANGED requirement
    BY <1>5 DEF FailOperation, Failable
  <2>2. row \in Operation /\ row.requirement = operation[o].requirement
        /\ row.status = "failed"
    BY <2>1, OperationRow DEF InProgress, Operation, OperationStatuses
  <2>3. QED
    BY <1>4, <2>1, <2>2
<1>6. ASSUME NEW target \in Target, PrepareOperationPublication(o, target)
      PROVE  UNCHANGED Lifecycle!vars
  <2> DEFINE row == [operation[o] EXCEPT !.target = target]
  <2>1. /\ HasStatus(o, "implementing") /\ SetOperation(o, row)
        /\ UNCHANGED requirement
    BY <1>6 DEF PrepareOperationPublication
  <2>2. Submitted(o) /\ operation[o] \in Operation /\ Reports[o] = operation[o].status
    BY <2>1, OperationRow DEF HasStatus
  <2>3. row \in Operation /\ row.requirement = operation[o].requirement
        /\ row.status = operation[o].status
    BY <2>2 DEF Operation
  <2>4. Reports' = [Reports EXCEPT ![o] = Reports[o]] /\ UNCHANGED Subjects
    BY <2>1, <2>2, <2>3, SetOperationReports
  <2>5. UNCHANGED Reports
    BY <2>4 DEF Reports
  <2>6. QED
    BY <2>1, <2>4, <2>5, SameRequirements DEF Lifecycle!vars
<1>7. ASSUME NEW link \in Link, CompleteOperation(o, link)
      PROVE  [Lifecycle!Next]_(Lifecycle!vars)
  <2> DEFINE row == [operation[o] EXCEPT !.status = "finish", !.target.route = link.route,
                                         !.target.version = link.version]
  <2>1. CASE UNCHANGED operation
    BY <1>7, <2>1, SameRequirements, SameOperations DEF CompleteOperation, Lifecycle!vars
  <2>2. CASE /\ HasStatus(o, "implementing") /\ operation[o].target # NoTarget
             /\ SetOperation(o, row)
    <3>1. Submitted(o) /\ operation[o] \in Operation /\ operation[o].target \in Target
      BY <2>2, OperationRow DEF HasStatus, Operation
    <3>2. [operation[o].target EXCEPT !.route = link.route, !.version = link.version] \in Target
      BY <3>1 DEF Target, Link
    <3>3. row \in Operation /\ row.requirement = operation[o].requirement
          /\ row.status = "finish"
      BY <3>1, <3>2 DEF Operation, OperationStatuses
    <3>4. InProgress(o) /\ operation[o].status = "implementing" /\ UNCHANGED requirement
      BY <1>7, <2>2 DEF HasStatus, InProgress, CompleteOperation
    <3>5. QED
      BY <1>4, <2>2, <3>3, <3>4
  <2>3. QED
    BY <1>7, <2>1, <2>2 DEF CompleteOperation
<1>8. QED
  BY <1>1, <1>2, <1>3, <1>5, <1>6, <1>7 DEF ClientOperation

\* Moving links leaves the statuses alone.
LEMMA MoveIsNoStep ==
  ASSUME StoreInv, NEW route \in Routes, NEW link \in Link,
         NEW exclude \in Requirements \cup {NoRequirement},
         MoveRouteLinks(route, link, exclude)
  PROVE  UNCHANGED Lifecycle!vars
<1>1. ASSUME NEW q \in Requirements
      PROVE  StatusOf(q)' = StatusOf(q)
  <2>1. CASE requirement'[q] = requirement[q]
    BY <2>1 DEF StatusOf, Exists
  <2>2. CASE LinkedTo(q, route) /\ q # exclude
    <3>1. requirement'[q] = [requirement[q] EXCEPT !.link = link, !.path = link.route,
                                                   !.target = NoTarget]
      BY <2>2 DEF MoveRouteLinks
    <3>2. Exists(q) /\ requirement[q] \in Requirement /\ link.route \in Routes
      BY <2>2, RowType DEF LinkedTo, StoreInv, Proper, Link
    <3>3. requirement'[q] \in Requirement /\ requirement'[q].status = requirement[q].status
      BY <3>1, <3>2 DEF Requirement
    <3>4. QED
      BY <3>2, <3>3, NoRequirementAssumption DEF StatusOf, Exists
  <2>3. QED
    BY <2>1, <2>2 DEF MoveRouteLinks
<1>2. UNCHANGED Statuses
  BY <1>1 DEF Statuses
<1>3. QED
  BY <1>2, SameOperations DEF MoveRouteLinks, Lifecycle!vars

\* Recovery is a restart of the lifecycle.
LEMMA RecoveryIsRestart ==
  ASSUME StoreInv, NEW active, RecoverInterrupted(active)
  PROVE  Lifecycle!Restart
<1> USE DEF StoreInv
<1>1. ASSUME NEW q \in Requirements
      PROVE  /\ ~Implementing(q) => Statuses'[q] = Statuses[q]
             /\ Implementing(q) => Statuses'[q] \in {"active", "failed"}
  <2>1. CASE ~Implementing(q)
    <3>1. requirement'[q] = requirement[q]
      BY <2>1 DEF RecoverInterrupted
    <3>2. QED
      BY <2>1, <3>1 DEF Statuses, StatusOf, Exists
  <2>2. CASE Implementing(q) /\ Published(requirement[q].target, active)
    <3>1. requirement'[q] = Activated(requirement[q], LinkOf(requirement[q].target))
      BY <2>2 DEF RecoverInterrupted
    <3>2. requirement[q].target \in Target
      BY <2>2, RowType DEF Implementing, Published, Proper, Requirement
    <3>3. LinkOf(requirement[q].target) \in Link
      BY <3>2, LinkOfType
    <3>4. requirement'[q] \in Requirement /\ requirement'[q].status = "active"
      BY <2>2, <3>1, <3>3, SettledProper DEF Proper
    <3>5. QED
      BY <2>2, <3>4, NoRequirementAssumption DEF Statuses, StatusOf, Exists
  <2>3. CASE Implementing(q) /\ ~Published(requirement[q].target, active)
    <3>1. requirement'[q] = Failed(requirement[q])
      BY <2>3 DEF RecoverInterrupted
    <3>2. requirement'[q] \in Requirement /\ requirement'[q].status = "failed"
      BY <2>3, <3>1, FailedProper DEF Proper
    <3>3. QED
      BY <2>3, <3>2, NoRequirementAssumption DEF Statuses, StatusOf, Exists
  <2>4. QED
    BY <2>1, <2>2, <2>3
<1>2. \A q \in Requirements : Statuses[q] = "implementing" <=> Implementing(q)
  BY DEF Statuses, StatusOf, Implementing
<1>3. ASSUME NEW o \in Operations
      PROVE  /\ ~InProgress(o) => Reports'[o] = Reports[o] /\ Subjects'[o] = Subjects[o]
             /\ InProgress(o) => /\ Reports'[o] \in Lifecycle!Outcome(o)
                                 /\ Subjects'[o] = Subjects[o]
  <2>1. CASE ~InProgress(o)
    <3>1. operation'[o] = operation[o]
      BY <2>1 DEF RecoverInterrupted
    <3>2. QED
      BY <2>1, <3>1 DEF Reports, Subjects, Submitted
  <2>2. CASE InProgress(o)
    <3>1. operation'[o] = [operation[o] EXCEPT !.status = RecoveredStatus(o, active)]
      BY <2>2 DEF RecoverInterrupted
    <3>2. Submitted(o) /\ operation[o] \in Operation /\ Reports[o] = operation[o].status
      BY <2>2, OperationRow DEF InProgress
    <3>3. /\ RecoveredStatus(o, active) \in {"finish", "failed"}
          /\ RecoveredStatus(o, active) = "finish" => operation[o].status = "implementing"
      BY DEF RecoveredStatus, HasStatus
    <3>4. /\ operation'[o] \in Operation
          /\ operation'[o].status = RecoveredStatus(o, active)
          /\ operation'[o].requirement = operation[o].requirement
      BY <3>1, <3>2, <3>3 DEF Operation, OperationStatuses
    <3>5. /\ Reports'[o] = RecoveredStatus(o, active)
          /\ Subjects'[o] = Subjects[o]
      BY <3>2, <3>4, NoOperationAssumption DEF Reports, Subjects, Submitted
    <3>6. QED
      BY <2>2, <3>2, <3>3, <3>5 DEF Lifecycle!Outcome
  <2>3. QED
    BY <2>1, <2>2
<1>4. \A o \in Operations : Lifecycle!UnderWay(o) <=> InProgress(o)
  BY DEF Lifecycle!UnderWay, Reports, InProgress
<1>5. UNCHANGED Subjects
  BY <1>3 DEF Subjects
<1>6. Statuses' = [q \in Requirements |->
        IF Statuses[q] = "implementing" THEN Statuses'[q] ELSE Statuses[q]]
  BY <1>1, <1>2 DEF Statuses
<1>7. Reports' = [o \in Operations |->
        IF Lifecycle!UnderWay(o) THEN Reports'[o] ELSE Reports[o]]
  BY <1>3, <1>4 DEF Reports
<1>8. QED
  BY <1>1, <1>2, <1>3, <1>4, <1>5, <1>6, <1>7 DEF Lifecycle!Restart

LEMMA StepIsLifecycle == StoreInv /\ [Next]_store => [Lifecycle!Next]_(Lifecycle!vars)
<1> SUFFICES ASSUME StoreInv, [Next]_store
             PROVE  [Lifecycle!Next]_(Lifecycle!vars)
  OBVIOUS
<1>1. ASSUME NEW active, NEW q \in Requirements, ReconcilePublication(q, active)
      PROVE  Lifecycle!Next
  <2>1. Implementing(q) /\ requirement[q].target \in Target
    BY <1>1, RowType
       DEF ReconcilePublication, StoreInv, Implementing, Published, Proper, Requirement
  <2>2. Lifecycle!Settle(q)
    BY <1>1, <2>1, LinkOfType, SettledProper, SettleIsSettle
       DEF ReconcilePublication, StoreInv
  <2>3. UNCHANGED <<Reports, Subjects>>
    BY <1>1, SameOperations DEF ReconcilePublication
  <2>4. QED
    BY <2>2, <2>3 DEF Lifecycle!Next
<1>2. ASSUME NEW active, RecoverInterrupted(active)
      PROVE  Lifecycle!Next
  BY <1>2, RecoveryIsRestart DEF Lifecycle!Next
<1>3. CASE UNCHANGED store
  BY <1>3, SameRequirements, SameOperations DEF store, Lifecycle!vars
<1>4. QED
  BY <1>1, <1>2, <1>3, RequirementStepIsLifecycle, OperationStepIsLifecycle, MoveIsNoStep
     DEF Next

(***************************************************************************)
(* Statuses only ever change along the lifecycle of USAGE.md:291 and       *)
(* 387-423, and those of an operation and of its requirement together when *)
(* it begins, for any clients (metadata.py:597-1450).                      *)
(***************************************************************************)
THEOREM StoreImplementsLifecycle == Spec => ImplementsLifecycle
<1>1. StoreInit => Lifecycle!Init
  BY DEF StoreInit, Lifecycle!Init, Statuses, Reports, StatusOf, Exists, Submitted
<1>2. Spec => Lifecycle!Init /\ [][Lifecycle!Next]_(Lifecycle!vars)
  BY <1>1, StepIsLifecycle, StoreInductive, PTL DEF Spec
<1>3. QED
  BY <1>2 DEF ImplementsLifecycle, Lifecycle!Spec
=============================================================================
