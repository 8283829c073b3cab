------------------------ MODULE RouteRegistryProofs -------------------------
(***************************************************************************)
(* Theorems about RouteRegistry, for every set of callers, routes,         *)
(* projects and codes and every bound on versions.                         *)
(***************************************************************************)
EXTENDS RouteRegistry, TLAPS

USE DEF disk, Creates, Updates, Moves

LEMMA NoValues ==
  /\ MaxVersion \in Nat \ {0}
  /\ NoRoute \notin Record
  /\ NoRoute \notin Entry
  /\ NoCall \notin Call
  /\ NoCode \notin Codes
BY RegistryAssumption, NoRouteAssumption, NoEntryAssumption, NoCallAssumption

\* The steps of one caller, without the choice of a request.
CallerStep(c) ==
  \/ BuildFails(c) \/ Recheck(c) \/ Conflict(c)
  \/ WriteSource(c) \/ WriteSourceFails(c)
  \/ WriteManifest(c) \/ WriteManifestFails(c) \/ Activate(c)

\* A manifest entry keeps everything of a record but a restricted source.
LEMMA SerializedType ==
  ASSUME NEW x \in Record \cup {NoRoute}
  PROVE  Serialized(x) \in Entry \cup {NoRoute}
BY NoValues DEF Serialized, Record, Entry, Modes

LEMMA RestoredType ==
  ASSUME TypeOK, NEW r \in Routes, NEW e \in Entry \cup {NoRoute}
  PROVE  /\ Restored(r, e) = NoRoute <=> e = NoRoute
         /\ e # NoRoute =>
              /\ Restored(r, e) \in Entry
              /\ Restored(r, e).version = e.version
              /\ Restored(r, e).mode = e.mode
              /\ Restored(r, e).project = e.project
              /\ Restored(r, e).origin = e.origin
<1>1. CASE e = NoRoute
  BY <1>1 DEF Restored
<1>2. CASE e # NoRoute
  <2>1. e \in Entry
    BY <1>2
  <2>2. files[r][e.version] \in Codes \cup {NoCode}
    <3>1. e.version \in 1..MaxVersion
      BY <2>1 DEF Entry
    <3>2. files \in [Routes -> [1..MaxVersion -> Codes \cup {NoCode}]]
      BY DEF TypeOK
    <3>3. QED
      BY <3>1, <3>2
  <2> DEFINE code == IF e.mode = "plugin" THEN e.code ELSE files[r][e.version]
  <2>3. code \in Codes \cup {NoCode}
    BY <2>1, <2>2 DEF Entry
  <2>4. Restored(r, e) = [e EXCEPT !.code = code]
    BY <1>2 DEF Restored
  <2> HIDE DEF code
  <2>5. [e EXCEPT !.code = code] \in Entry
    BY <2>1, <2>3 DEF Entry
  <2>6. QED
    BY <1>2, <2>1, <2>4, <2>5, NoValues DEF Entry
<1>3. QED
  BY <1>1, <1>2

-----------------------------------------------------------------------------
(* Type correctness.  TypeOK needs one companion to be inductive: a caller *)
(* has a call exactly while it is not idle.                                *)

CallsPresent == \A c \in Callers : phase[c] # "idle" <=> call[c] # NoCall

Typed == TypeOK /\ CallsPresent

\* What the first critical section builds is a well-formed call.
LEMMA OfferType ==
  ASSUME Typed, NEW c \in Callers, NEW m \in Methods,
         NEW r \in Routes, NEW t \in Routes,
         NEW seen \in Record \cup {NoRoute}, NEW new \in Record,
         Offer(c, m, r, t, seen, new)
  PROVE  Typed'
<1>1. [method |-> m, from |-> r, to |-> t, seen |-> seen, new |-> new,
       existed |-> FALSE] \in Call
  BY DEF Call
<1>2. new.code \in Codes
  BY DEF Record
<1>3. TypeOK'
  BY <1>1, <1>2 DEF Offer, Typed, TypeOK, Phases
<1>4. CallsPresent'
  BY <1>1, NoValues DEF Offer, Typed, TypeOK, CallsPresent
<1>5. QED
  BY <1>3, <1>4 DEF Typed

\* A candidate's version is within the bound because its request was.
LEMMA SuccessorType ==
  ASSUME TypeOK, NEW m, NEW r \in Routes, NEW p \in Projects, NEW code \in Codes,
         mem[r] # NoRoute, mem[r].version < MaxVersion
  PROVE  Successor(m, r, p, code) \in Record
<1>1. mem[r] \in Record
  BY DEF TypeOK
<1>2. mem[r].version + 1 \in 1..MaxVersion
  BY <1>1, NoValues DEF Record
<1>3. QED
  BY <1>1, <1>2 DEF Successor, VersionAfter, ModeOf, Record, Modes

LEMMA PrepareType ==
  ASSUME Typed, NEW c \in Callers, Prepare(c)
  PROVE  Typed'
<1>1. PICK m \in Methods, r \in Routes, t \in Routes, p \in Projects, code \in Codes :
        \/ t = r /\ PrepareCreate(c, m, r, p, code)
        \/ t = r /\ PrepareUpdate(c, m, r, code)
        \/ PrepareMove(c, m, r, t, p, code)
  BY DEF Prepare
<1>2. CASE PrepareCreate(c, m, r, p, code)
  <2> DEFINE new == [version |-> 1, project |-> p, mode |-> ModeOf(m),
                     code |-> code, origin |-> code]
  <2>1. new \in Record
    BY NoValues DEF Record, Modes, ModeOf
  <2>2. Offer(c, m, r, r, NoRoute, new)
    BY <1>2 DEF PrepareCreate
  <2> HIDE DEF new
  <2>3. QED
    BY <2>1, <2>2, OfferType
<1>3. CASE PrepareUpdate(c, m, r, code)
  <2>1. mem[r] \in Record /\ mem[r].project \in Projects
    BY <1>3 DEF PrepareUpdate, Typed, TypeOK, Record
  <2>2. Successor(m, r, mem[r].project, code) \in Record
    BY <1>3, <2>1, SuccessorType DEF PrepareUpdate, Typed
  <2>3. QED
    BY <1>3, <2>1, <2>2, OfferType DEF PrepareUpdate
<1>4. CASE PrepareMove(c, m, r, t, p, code)
  <2>1. mem[r] \in Record
    BY <1>4 DEF PrepareMove, Typed, TypeOK
  <2>2. Successor(m, r, p, code) \in Record
    BY <1>4, SuccessorType DEF PrepareMove, Typed
  <2>3. QED
    BY <1>4, <2>1, <2>2, OfferType DEF PrepareMove
<1>5. QED
  BY <1>1, <1>2, <1>3, <1>4

\* A caller inside a call has one, with a record to commit.
LEMMA CallType ==
  ASSUME Typed, NEW c \in Callers, phase[c] # "idle"
  PROVE  /\ call[c] \in Call
         /\ call[c].new \in Record
         /\ call[c].new.version \in 1..MaxVersion
         /\ call[c].new.code \in Codes
         /\ call[c].new.origin \in Codes
         /\ call[c].to \in Routes
         /\ call[c].from \in Routes
         /\ call[c].method \in Methods
BY DEF Typed, TypeOK, CallsPresent, Call, Record

LEMMA NextRecordsType ==
  ASSUME Typed, NEW c \in Callers, phase[c] # "idle"
  PROVE  NextRecords(c) \in [Routes -> Record \cup {NoRoute}]
<1>1. call[c].new \in Record /\ mem \in [Routes -> Record \cup {NoRoute}]
  BY CallType DEF Typed, TypeOK
<1>2. QED
  BY <1>1 DEF NextRecords

LEMMA CallerStepType ==
  ASSUME Typed, NEW c \in Callers, CallerStep(c)
  PROVE  Typed'
<1> USE DEF Typed, CallsPresent
<1>1. CASE BuildFails(c) \/ Conflict(c) \/ WriteSourceFails(c)
  BY <1>1 DEF BuildFails, Conflict, WriteSourceFails, TypeOK, Phases
<1>2. CASE Recheck(c)
  <2>1. phase[c] # "idle" /\ call[c] \in Call
    BY <1>2, CallType DEF Recheck
  <2>2. Identified(c) \in Record
    <3>1. CASE call[c].method \in Creates
      BY <2>1, <3>1, CallType DEF Identified
    <3>2. CASE call[c].method \notin Creates
      <4>1. mem[call[c].from] \in Record
        BY <1>2, <2>1, <3>2, CallType DEF Recheck, StillValid, VersionMatches, TypeOK
      <4>2. mem[call[c].from].origin \in Codes
        BY <4>1 DEF Record
      <4>3. QED
        BY <2>1, <3>2, <4>2, CallType DEF Identified, Record
    <3>3. QED
      BY <3>1, <3>2
  <2>3. [call[c] EXCEPT !.new = Identified(c)] \in Call
    BY <2>1, <2>2 DEF Call
  <2>4. QED
    BY <1>2, <2>1, <2>3, NoValues DEF Recheck, TypeOK, Phases
<1>3. CASE WriteSource(c)
  <2>1. phase[c] # "idle" /\ call[c] \in Call
    BY <1>3, CallType DEF WriteSource
  <2>2. [call[c] EXCEPT !.existed = FileHolds(c) # NoCode] \in Call
    BY <2>1 DEF Call
  <2>3. files' \in [Routes -> [1..MaxVersion -> Codes \cup {NoCode}]]
    BY <1>3, <2>1, CallType DEF WriteSource, TypeOK
  <2>4. QED
    BY <1>3, <2>1, <2>2, <2>3, NoValues DEF WriteSource, TypeOK, Phases
<1>4. CASE WriteManifest(c)
  <2>1. phase[c] # "idle"
    BY <1>4 DEF WriteManifest, ReadyForManifest
  <2>2. manifest' \in [Routes -> Entry \cup {NoRoute}]
    BY <1>4, <2>1, NextRecordsType, SerializedType DEF WriteManifest
  <2>3. QED
    BY <1>4, <2>1, <2>2 DEF WriteManifest, TypeOK, Phases
<1>5. CASE WriteManifestFails(c)
  <2>1. phase[c] # "idle"
    BY <1>5 DEF WriteManifestFails, ReadyForManifest
  <2>2. files' \in [Routes -> [1..MaxVersion -> Codes \cup {NoCode}]]
    <3>1. files' = files \/ files' = [files EXCEPT
            ![call[c].to][call[c].new.version] = NoCode]
      BY <1>5 DEF WriteManifestFails, Unlinked
    <3>2. files \in [Routes -> [1..MaxVersion -> Codes \cup {NoCode}]]
      BY DEF TypeOK
    <3>3. call[c].to \in Routes /\ call[c].new.version \in 1..MaxVersion
      BY <2>1, CallType
    <3>4. [files EXCEPT ![call[c].to][call[c].new.version] = NoCode]
            \in [Routes -> [1..MaxVersion -> Codes \cup {NoCode}]]
      BY <3>2, <3>3
    <3>5. QED
      BY <3>1, <3>2, <3>4
  <2>3. QED
    BY <1>5, <2>1, <2>2 DEF WriteManifestFails, TypeOK, Phases
<1>6. CASE Activate(c)
  <2>1. phase[c] # "idle"
    BY <1>6 DEF Activate
  <2>2. mem' \in [Routes -> Record \cup {NoRoute}]
    BY <1>6, <2>1, NextRecordsType DEF Activate
  <2>3. acked' \in [Codes -> 0..MaxVersion]
    BY <1>6, <2>1, CallType, NoValues DEF Activate, TypeOK
  <2>4. QED
    BY <1>6, <2>2, <2>3 DEF Activate, TypeOK, Phases
<1>7. QED
  BY <1>1, <1>2, <1>3, <1>4, <1>5, <1>6 DEF CallerStep

\* An entry is an entry of a record again once its source is there.
LEMMA DurableType ==
  ASSUME TypeOK, Restorable
  PROVE  Durable \in [Routes -> Record \cup {NoRoute}]
<1> SUFFICES ASSUME NEW r \in Routes, manifest[r] # NoRoute
             PROVE  Restored(r, manifest[r]) \in Record
  <2>1. ASSUME NEW r \in Routes, manifest[r] = NoRoute
        PROVE  Restored(r, manifest[r]) = NoRoute
    BY <2>1 DEF Restored
  <2>2. QED
    BY <2>1 DEF Durable
<1>1. manifest[r] \in Entry
  BY DEF TypeOK
<1>2. Restored(r, manifest[r]) \in Entry
  BY <1>1, RestoredType
<1>3. Restored(r, manifest[r]).code # NoCode
  BY DEF Restorable
<1>4. QED
  BY <1>2, <1>3 DEF Entry, Record

LEMMA InitTyped == Init => Typed
<1> SUFFICES ASSUME Init PROVE Typed
  OBVIOUS
<1>1. TypeOK
  BY NoValues DEF Init, TypeOK, Phases
<1>2. CallsPresent
  BY DEF Init, CallsPresent
<1>3. QED
  BY <1>1, <1>2 DEF Typed

LEMMA StepTyped == Typed /\ [Next]_vars => Typed'
<1> SUFFICES ASSUME Typed, [Next]_vars
             PROVE  Typed'
  OBVIOUS
<1>1. CASE \E c \in Callers : Prepare(c)
  BY <1>1, PrepareType
<1>2. CASE \E c \in Callers : CallerStep(c)
  BY <1>2, CallerStepType
<1>3. CASE Crash
  BY <1>3 DEF Crash, Typed, TypeOK, CallsPresent, Phases
<1>4. CASE Restore
  <2>1. mem' \in [Routes -> Record \cup {NoRoute}]
    BY <1>4, DurableType DEF Restore, Typed
  <2>2. QED
    BY <1>4, <2>1 DEF Restore, Typed, TypeOK, CallsPresent
<1>5. CASE UNCHANGED vars
  BY <1>5 DEF vars, Typed, TypeOK, CallsPresent
<1>6. QED
  BY <1>1, <1>2, <1>3, <1>4, <1>5 DEF Next, CallerStep

(***************************************************************************)
(* Every variable of the registry keeps its type: in particular a restart  *)
(* never loads a record without code (runtime.py:729-757).                 *)
(***************************************************************************)
THEOREM TypeCorrect == Spec => []TypeOK
<1>1. Spec => []Typed
  BY InitTyped, StepTyped, PTL DEF Spec
<1>2. Typed => TypeOK
  BY DEF Typed
<1>3. QED
  BY <1>1, <1>2, PTL

-----------------------------------------------------------------------------
(* The disk and the memory.  The argument: the lock is held by one caller  *)
(* (Mutex), what it rechecked stays true while it holds it (Accepted), so  *)
(* the source file it writes or unlinks is one that routes.json does not   *)
(* name, and the manifest it writes restores to exactly the records it is  *)
(* about to serve (DiskAhead).                                             *)

Mutex ==
  \A c, d \in Callers : phase[c] \in InLock /\ phase[d] \in InLock => c = d

DownIsIdle == ~up => \A c \in Callers : phase[c] = "idle"

WellFormed(c) ==
  /\ call[c].new.mode = ModeOf(call[c].method)
  /\ call[c].method \in Creates =>
       call[c].to = call[c].from /\ call[c].new.version = 1
  /\ call[c].method \in Updates => call[c].to = call[c].from
  /\ call[c].method \notin Creates =>
       /\ call[c].seen \in Record
       /\ call[c].new.version = call[c].seen.version + 1

CallShape == \A c \in Callers : phase[c] # "idle" => WellFormed(c)

Accepted ==
  \A c \in Callers : phase[c] \in InLock =>
    /\ StillValid(c)
    /\ call[c].method \notin Creates =>
         call[c].new.origin = mem[call[c].from].origin

SourceWritten ==
  \A c \in Callers : phase[c] = "sourced" =>
    call[c].new.mode = "restricted" /\ FileHolds(c) = call[c].new.code

DiskAhead ==
  \A c \in Callers : phase[c] = "persisted" => Durable = NextRecords(c)

Control == Mutex /\ DownIsIdle /\ CallShape /\ Accepted

Disk == SourceWritten /\ DiskAhead /\ ServedIsDurable /\ Restorable

IInv == Typed /\ Control /\ Disk

\* The request that survives the first check is well formed.
LEMMA PrepareControl ==
  ASSUME Typed, Control, NEW c \in Callers, Prepare(c)
  PROVE  /\ phase[c] = "idle" /\ up /\ LockFree
         /\ phase' = [phase EXCEPT ![c] = "candidate"]
         /\ \A d \in Callers \ {c} : call'[d] = call[d]
         /\ WellFormed(c)'
         /\ UNCHANGED <<up, mem, manifest, files, acked>>
<1>1. PICK m \in Methods, r \in Routes, t \in Routes, p \in Projects, code \in Codes :
        \/ t = r /\ PrepareCreate(c, m, r, p, code)
        \/ t = r /\ PrepareUpdate(c, m, r, code)
        \/ PrepareMove(c, m, r, t, p, code)
  BY DEF Prepare
<1>2. \E t0, s0, n0 : t0 \in Routes /\ Offer(c, m, r, t0, s0, n0)
  BY <1>1 DEF PrepareCreate, PrepareUpdate, PrepareMove
<1>3. WellFormed(c)'
  <2>1. mem[r] # NoRoute => mem[r] \in Record
    BY DEF Typed, TypeOK
  <2>2. QED
    BY <1>1, <2>1 DEF PrepareCreate, PrepareUpdate, PrepareMove, Offer,
       Successor, VersionAfter, WellFormed, ModeOf, Typed, TypeOK
<1>4. QED
  BY <1>2, <1>3 DEF Offer, Typed, TypeOK

\* Ending a call, by success or failure, disturbs no other caller's control.
LEMMA EndControl ==
  ASSUME Typed, Control, NEW c \in Callers,
         phase' = [phase EXCEPT ![c] = "idle"],
         call' = [call EXCEPT ![c] = NoCall],
         up' = up,
         mem' = mem \/ phase[c] \in InLock
  PROVE  Control'
<1> USE DEF Control, Typed, TypeOK
<1>1. \A d \in Callers : phase'[d] # "idle" =>
        d # c /\ phase'[d] = phase[d] /\ call'[d] = call[d]
  OBVIOUS
<1>2. Mutex' /\ DownIsIdle'
  BY <1>1 DEF Mutex, DownIsIdle, InLock
<1>3. CallShape'
  BY <1>1 DEF CallShape, WellFormed
<1>4. Accepted'
  <2>1. CASE mem' = mem
    BY <1>1, <2>1 DEF Accepted, StillValid, VersionMatches, TargetFree, InLock
  <2>2. CASE phase[c] \in InLock
    BY <1>1, <2>2 DEF Accepted, Mutex, InLock
  <2>3. QED
    BY <2>1, <2>2
<1>5. QED
  BY <1>2, <1>3, <1>4

\* A step of the lock holder that keeps the lock keeps what it rechecked.
LEMMA HoldControl ==
  ASSUME Typed, Control, NEW c \in Callers,
         phase[c] \in InLock,
         phase' \in [Callers -> Phases], phase'[c] \in InLock,
         \A d \in Callers \ {c} : phase'[d] = phase[d] /\ call'[d] = call[d],
         call'[c].method = call[c].method, call'[c].from = call[c].from,
         call'[c].to = call[c].to, call'[c].seen = call[c].seen,
         call'[c].new = call[c].new,
         UNCHANGED <<up, mem>>
  PROVE  Control'
<1> USE DEF Control
<1>1. Mutex' /\ DownIsIdle'
  BY DEF Mutex, DownIsIdle, InLock
<1>2. CallShape'
  BY DEF CallShape, WellFormed, InLock
<1>3. Accepted'
  BY DEF Accepted, StillValid, VersionMatches, TargetFree, InLock
<1>4. QED
  BY <1>1, <1>2, <1>3

LEMMA RecheckControl ==
  ASSUME Typed, Control, NEW c \in Callers, Recheck(c)
  PROVE  Control'
<1> USE DEF Control
<1>1. phase[c] = "candidate" /\ phase'[c] = "locked" /\ call[c] \in Call
  BY CallType DEF Recheck, Typed, TypeOK
<1>2. \A d \in Callers \ {c} : phase'[d] = phase[d] /\ call'[d] = call[d]
  BY DEF Recheck, Typed, TypeOK
<1>3. \A d \in Callers \ {c} : phase'[d] \notin InLock
  BY <1>2 DEF Recheck, LockFree
<1>4. call'[c] = [call[c] EXCEPT !.new = Identified(c)]
  BY DEF Recheck, Typed, TypeOK
<1>5. /\ call'[c].method = call[c].method /\ call'[c].from = call[c].from
      /\ call'[c].to = call[c].to /\ call'[c].seen = call[c].seen
      /\ call'[c].new = Identified(c)
  BY <1>1, <1>4 DEF Call
<1>6. /\ Identified(c).version = call[c].new.version
      /\ Identified(c).mode = call[c].new.mode
      /\ call[c].method \notin Creates =>
           Identified(c).origin = mem[call[c].from].origin
  <2>1. call[c].new \in Record
    BY <1>1, CallType
  <2>2. QED
    BY <2>1 DEF Identified, Record
<1>7. Mutex' /\ DownIsIdle'
  BY <1>1, <1>3 DEF Mutex, DownIsIdle, Recheck
<1>8. CallShape'
  <2>1. WellFormed(c)
    BY <1>1 DEF CallShape
  <2>2. WellFormed(c)'
    BY <2>1, <1>5, <1>6 DEF WellFormed
  <2>3. QED
    BY <2>2, <1>2 DEF CallShape, WellFormed
<1>9. Accepted'
  <2>1. StillValid(c) /\ mem' = mem
    BY DEF Recheck
  <2>2. StillValid(c)'
    BY <2>1, <1>5 DEF StillValid, VersionMatches, TargetFree
  <2>3. QED
    BY <2>1, <2>2, <1>3, <1>5, <1>6 DEF Accepted
<1>10. QED
  BY <1>7, <1>8, <1>9

LEMMA StepControl == Typed /\ Control /\ [Next]_vars => Control'
<1> SUFFICES ASSUME Typed, Control, [Next]_vars
             PROVE  Control'
  OBVIOUS
<1>1. ASSUME NEW c \in Callers, Prepare(c)
      PROVE  Control'
  <2>1. \A d \in Callers : phase'[d] \in InLock => phase[d] \in InLock /\ d # c
    BY <1>1, PrepareControl DEF InLock, Typed, TypeOK
  <2>2. \A d \in Callers \ {c} : phase'[d] = phase[d]
    BY <1>1, PrepareControl DEF Typed, TypeOK
  <2>3. Mutex' /\ DownIsIdle'
    BY <1>1, <2>1, PrepareControl DEF Control, Mutex, DownIsIdle
  <2>4. CallShape'
    BY <1>1, <2>2, PrepareControl DEF Control, CallShape, WellFormed
  <2>5. Accepted'
    BY <1>1, <2>1, PrepareControl
       DEF Control, Accepted, StillValid, VersionMatches, TargetFree
  <2>6. QED
    BY <2>3, <2>4, <2>5 DEF Control
<1>2. ASSUME NEW c \in Callers, BuildFails(c) \/ Conflict(c) \/ WriteSourceFails(c)
                                \/ WriteManifestFails(c) \/ Activate(c)
      PROVE  Control'
  BY <1>2, EndControl
     DEF BuildFails, Conflict, WriteSourceFails, WriteManifestFails, Activate, InLock
<1>3. ASSUME NEW c \in Callers, Recheck(c)
      PROVE  Control'
  BY <1>3, RecheckControl
<1>4. ASSUME NEW c \in Callers, WriteSource(c)
      PROVE  Control'
  <2>1. phase[c] \in InLock /\ phase'[c] \in InLock /\ phase' \in [Callers -> Phases]
    BY <1>4 DEF WriteSource, InLock, Typed, TypeOK, Phases
  <2>2. call[c] \in Call /\ call'[c] = [call[c] EXCEPT !.existed = FileHolds(c) # NoCode]
    BY <1>4, <2>1, CallType DEF WriteSource, InLock, Typed, TypeOK
  <2>3. \A d \in Callers \ {c} : phase'[d] = phase[d] /\ call'[d] = call[d]
    BY <1>4 DEF WriteSource, Typed, TypeOK
  <2>4. UNCHANGED <<up, mem>>
    BY <1>4 DEF WriteSource
  <2>5. QED
    BY <2>1, <2>2, <2>3, <2>4, HoldControl DEF Call
<1>5. ASSUME NEW c \in Callers, WriteManifest(c)
      PROVE  Control'
  <2>1. phase[c] \in InLock /\ phase'[c] \in InLock /\ phase' \in [Callers -> Phases]
    BY <1>5 DEF WriteManifest, ReadyForManifest, InLock, Typed, TypeOK, Phases
  <2>2. QED
    BY <1>5, <2>1, HoldControl DEF WriteManifest, Typed, TypeOK
<1>6. CASE Crash
  BY <1>6 DEF Crash, Control, Mutex, DownIsIdle, CallShape, Accepted, InLock
<1>7. CASE Restore
  BY <1>7 DEF Restore, Control, Mutex, DownIsIdle, CallShape, Accepted, WellFormed, InLock
<1>8. CASE UNCHANGED vars
  BY <1>8 DEF vars, Control, Mutex, DownIsIdle, CallShape, Accepted, WellFormed,
              StillValid, VersionMatches, TargetFree
<1>9. QED
  BY <1>1, <1>2, <1>3, <1>4, <1>5, <1>6, <1>7, <1>8 DEF Next

-----------------------------------------------------------------------------
(* What the commit does to the disk.                                       *)

\* A step that leaves the disk alone leaves what a restart would serve alone.
LEMMA SameDisk ==
  ASSUME UNCHANGED <<manifest, files>>
  PROVE  /\ Durable' = Durable
         /\ Restorable' <=> Restorable
BY DEF Durable, Restorable, Restored

\* Before the manifest is replaced the lock holder sees the durable routes.
LEMMA HolderSeesDisk ==
  ASSUME IInv, NEW c \in Callers, phase[c] \in InLock, phase[c] # "persisted"
  PROVE  up /\ mem = Durable /\ \A d \in Callers : phase[d] # "persisted"
<1>1. \A d \in Callers : phase[d] # "persisted"
  BY DEF IInv, Control, Mutex, InLock
<1>2. up
  BY DEF IInv, Control, DownIsIdle, InLock, Typed, TypeOK
<1>3. QED
  BY <1>1, <1>2 DEF IInv, Disk, ServedIsDurable

(***************************************************************************)
(* The file a restricted commit writes, or unlinks when it fails, is not   *)
(* the source of any route in routes.json: the target is free, or it is    *)
(* the route itself one version earlier.                                   *)
(***************************************************************************)
LEMMA FileUnreferenced ==
  ASSUME IInv, NEW c \in Callers, phase[c] \in {"locked", "sourced"},
         call[c].new.mode = "restricted",
         manifest[call[c].to] # NoRoute
  PROVE  manifest[call[c].to].version # call[c].new.version
<1> DEFINE t == call[c].to
           m == call[c].method
<1>1. mem = Durable /\ phase[c] \in InLock /\ phase[c] # "idle"
  BY HolderSeesDisk DEF InLock
<1>2. t \in Routes /\ m \in Methods
  BY <1>1, CallType DEF IInv
<1>3. manifest[t] \in Entry
  BY <1>2 DEF IInv, Typed, TypeOK
<1>4. mem[t] # NoRoute /\ mem[t].version = manifest[t].version
  BY <1>1, <1>2, <1>3, RestoredType DEF Durable, IInv, Typed
<1>5. WellFormed(c) /\ StillValid(c)
  BY <1>1 DEF IInv, Control, CallShape, Accepted
<1>6. m \in Updates \/ m = "move"
  BY <1>2, <1>4, <1>5, RegistryAssumption DEF WellFormed, ModeOf, StillValid
<1>7. call[c].from = t /\ mem[t].version = call[c].seen.version
  BY <1>4, <1>5, <1>6 DEF WellFormed, StillValid, VersionMatches, TargetFree
<1>8. call[c].new.version = call[c].seen.version + 1 /\ call[c].seen.version \in Nat
  BY <1>5, <1>6, NoValues DEF WellFormed, Record
<1>9. QED
  BY <1>4, <1>7, <1>8

\* So touching that file changes nothing a restart would serve.
LEMMA TouchUnreferenced ==
  ASSUME IInv, NEW c \in Callers, phase[c] \in {"locked", "sourced"},
         call[c].new.mode = "restricted",
         NEW k, manifest' = manifest,
         files' = [files EXCEPT ![call[c].to][call[c].new.version] = k]
  PROVE  Durable' = Durable /\ (Restorable' <=> Restorable)
<1>1. ASSUME NEW r \in Routes, manifest[r] # NoRoute
      PROVE  files'[r][manifest[r].version] = files[r][manifest[r].version]
  <2>1. manifest[r].version \in 1..MaxVersion
    BY <1>1 DEF IInv, Typed, TypeOK, Entry
  <2>2. files \in [Routes -> [1..MaxVersion -> Codes \cup {NoCode}]]
    BY DEF IInv, Typed, TypeOK
  <2>3. CASE r = call[c].to
    BY <1>1, <2>1, <2>2, <2>3, FileUnreferenced
  <2>4. CASE r # call[c].to
    BY <2>2, <2>4
  <2>5. QED
    BY <2>3, <2>4
<1>2. \A r \in Routes : Restored(r, manifest[r])' = Restored(r, manifest[r])
  BY <1>1 DEF Restored
<1>3. QED
  BY <1>2 DEF Durable, Restorable

\* A record that has its source on disk survives serialization and restoration.
LEMMA RoundTrip ==
  ASSUME NEW r \in Routes, NEW x \in Record,
         x.mode = "restricted" => files[r][x.version] = x.code
  PROVE  Restored(r, Serialized(x)) = x
<1>1. Serialized(x) # NoRoute
  BY SerializedType, NoValues DEF Serialized, Record, Entry, Modes
<1>2. QED
  BY <1>1, NoValues DEF Restored, Serialized, Record, Modes

\* The manifest that is written restores to the records about to be served.
LEMMA ManifestRestores ==
  ASSUME IInv, NEW c \in Callers, WriteManifest(c)
  PROVE  Durable' = NextRecords(c) /\ Restorable'
<1>1. /\ phase[c] \in InLock /\ phase[c] # "idle" /\ phase[c] # "persisted"
      /\ files' = files
  BY DEF WriteManifest, ReadyForManifest, InLock
<1>2. mem = Durable
  BY <1>1, HolderSeesDisk
<1>3. /\ call[c].new \in Record /\ mem \in [Routes -> Record \cup {NoRoute}]
      /\ NextRecords(c) \in [Routes -> Record \cup {NoRoute}]
  BY <1>1, CallType, NextRecordsType DEF IInv, Typed, TypeOK
<1>4. ASSUME NEW r \in Routes
      PROVE  Restored(r, Serialized(NextRecords(c)[r])) = NextRecords(c)[r]
  <2> DEFINE x == NextRecords(c)[r]
  <2>1. CASE x = NoRoute
    BY <2>1 DEF Restored, Serialized
  <2>2. CASE x = call[c].new /\ r = call[c].to
    <3>1. x.mode = "restricted" => files[r][x.version] = x.code
      BY <2>2, <1>3 DEF WriteManifest, ReadyForManifest, IInv, Disk, SourceWritten,
         FileHolds, Record, Modes
    <3>2. QED
      BY <2>2, <3>1, <1>3, RoundTrip
  <2>3. CASE x = mem[r] /\ x # NoRoute
    <3>1. x \in Record /\ manifest[r] \in Entry \cup {NoRoute}
      BY <2>3, <1>3 DEF IInv, Typed, TypeOK
    <3>2. x = Restored(r, manifest[r])
      BY <2>3, <1>2 DEF Durable
    <3>3. manifest[r] \in Entry /\ x.mode = manifest[r].mode /\ x.version = manifest[r].version
      BY <2>3, <3>1, <3>2, RestoredType DEF IInv, Typed
    <3>4. x.mode = "restricted" => files[r][x.version] = x.code
      BY <2>3, <3>2, <3>3 DEF Restored, Entry
    <3>5. QED
      BY <3>1, <3>4, RoundTrip
  <2>4. QED
    BY <2>1, <2>2, <2>3 DEF NextRecords
<1>5. ASSUME NEW r \in Routes
      PROVE  Restored(r, manifest[r])' = NextRecords(c)[r]
  BY <1>1, <1>4 DEF WriteManifest, Restored
<1>6. Durable' = NextRecords(c)
  BY <1>3, <1>5 DEF Durable
<1>7. Restorable'
  <2>1. SUFFICES ASSUME NEW r \in Routes, manifest'[r] # NoRoute
                 PROVE  Restored(r, manifest[r])'.code # NoCode
    BY DEF Restorable
  <2>2. NextRecords(c)[r] \in Record
    BY <2>1, <1>3 DEF WriteManifest, Serialized
  <2>3. QED
    BY <2>2, <1>5, NoValues DEF Record
<1>8. QED
  BY <1>6, <1>7

\* A step that touches neither the records, the disk nor a commit in progress.
LEMMA QuietDisk ==
  ASSUME IInv, UNCHANGED <<up, mem, manifest, files>>,
         \A c \in Callers : phase'[c] \in {"sourced", "persisted"} =>
            /\ phase[c] = phase'[c]
            /\ call'[c].new = call[c].new /\ call'[c].to = call[c].to
            /\ call'[c].method = call[c].method /\ call'[c].from = call[c].from,
         \A c \in Callers : phase[c] = "persisted" => phase'[c] = "persisted"
  PROVE  Disk'
<1>1. Durable' = Durable /\ (Restorable' <=> Restorable)
  BY SameDisk
<1>2. SourceWritten'
  BY DEF IInv, Disk, SourceWritten, FileHolds
<1>3. DiskAhead'
  BY <1>1 DEF IInv, Disk, DiskAhead, NextRecords
<1>4. ServedIsDurable'
  BY <1>1 DEF IInv, Disk, ServedIsDurable
<1>5. QED
  BY <1>1, <1>2, <1>3, <1>4 DEF IInv, Disk

\* The steps of the lock holder up to the manifest move only unreferenced files.
LEMMA HolderDisk ==
  ASSUME IInv, NEW c \in Callers, phase[c] \in {"locked", "sourced"},
         phase'[c] \in {"idle", "sourced"},
         \A d \in Callers \ {c} : phase'[d] = phase[d],
         Durable' = Durable, Restorable' <=> Restorable, UNCHANGED <<up, mem>>,
         phase'[c] = "sourced" =>
            call'[c].new.mode = "restricted" /\ FileHolds(c)' = call'[c].new.code
  PROVE  Disk'
<1>1. \A d \in Callers \ {c} : phase[d] \notin InLock
  BY DEF IInv, Control, Mutex, InLock
<1>2. SourceWritten' /\ DiskAhead'
  BY <1>1 DEF SourceWritten, DiskAhead, InLock
<1>3. mem = Durable
  BY HolderSeesDisk DEF InLock
<1>4. ServedIsDurable' /\ Restorable'
  BY <1>3 DEF ServedIsDurable, IInv, Disk
<1>5. QED
  BY <1>2, <1>4 DEF Disk

LEMMA WriteSourceDisk ==
  ASSUME IInv, NEW c \in Callers, WriteSource(c)
  PROVE  Durable' = Durable /\ Disk'
<1>1. phase[c] # "idle" /\ phase[c] \in {"locked", "sourced"} /\ phase'[c] = "sourced"
  BY DEF WriteSource, IInv, Typed, TypeOK
<1>2. Durable' = Durable /\ (Restorable' <=> Restorable)
  BY <1>1, TouchUnreferenced DEF WriteSource
<1>3. call[c] \in Call /\ call'[c] = [call[c] EXCEPT !.existed = FileHolds(c) # NoCode]
  BY <1>1, CallType DEF WriteSource, IInv, Typed, TypeOK
<1>4. call'[c].new = call[c].new /\ call'[c].to = call[c].to
  BY <1>3 DEF Call
<1>5. FileHolds(c)' = call'[c].new.code
  <2>1. call[c].to \in Routes /\ call[c].new.version \in 1..MaxVersion
    BY <1>1, CallType DEF IInv
  <2>2. files \in [Routes -> [1..MaxVersion -> Codes \cup {NoCode}]]
    BY DEF IInv, Typed, TypeOK
  <2>3. files' = [files EXCEPT ![call[c].to][call[c].new.version] = call[c].new.code]
    BY DEF WriteSource
  <2>4. files'[call[c].to][call[c].new.version] = call[c].new.code
    BY <2>1, <2>2, <2>3
  <2>5. QED
    BY <1>4, <2>4 DEF FileHolds
<1>6. QED
  BY <1>1, <1>2, <1>4, <1>5, HolderDisk DEF WriteSource, IInv, Typed, TypeOK

LEMMA FailureDisk ==
  ASSUME IInv, NEW c \in Callers, WriteSourceFails(c) \/ WriteManifestFails(c)
  PROVE  Durable' = Durable /\ Disk'
<1>1. /\ phase[c] \in {"locked", "sourced"} /\ phase'[c] = "idle"
      /\ \A d \in Callers \ {c} : phase'[d] = phase[d]
      /\ UNCHANGED <<up, mem, manifest>>
  BY DEF WriteSourceFails, WriteManifestFails, ReadyForManifest, IInv, Typed, TypeOK
<1>2. \/ files' = files
      \/ /\ phase[c] = "sourced"
         /\ files' = [files EXCEPT ![call[c].to][call[c].new.version] = NoCode]
  BY DEF WriteSourceFails, WriteManifestFails, Unlinked
<1>3. phase[c] = "sourced" => call[c].new.mode = "restricted"
  BY DEF IInv, Disk, SourceWritten
<1>4. Durable' = Durable /\ (Restorable' <=> Restorable)
  BY <1>1, <1>2, <1>3, SameDisk, TouchUnreferenced
<1>5. QED
  BY <1>1, <1>4, HolderDisk

LEMMA WriteManifestDisk ==
  ASSUME IInv, NEW c \in Callers, WriteManifest(c)
  PROVE  Disk'
<1>1. /\ phase[c] \in InLock /\ phase'[c] = "persisted"
      /\ UNCHANGED <<up, mem, call>>
      /\ \A d \in Callers \ {c} : phase'[d] = phase[d]
  BY DEF WriteManifest, ReadyForManifest, InLock, IInv, Typed, TypeOK
<1>2. \A d \in Callers \ {c} : phase[d] \notin InLock
  BY <1>1 DEF IInv, Control, Mutex
<1>3. NextRecords(c)' = NextRecords(c)
  BY <1>1 DEF NextRecords
<1>4. SourceWritten' /\ DiskAhead'
  BY <1>1, <1>2, <1>3, ManifestRestores DEF SourceWritten, DiskAhead, InLock
<1>5. ServedIsDurable' /\ Restorable'
  BY <1>1, ManifestRestores DEF ServedIsDurable
<1>6. QED
  BY <1>4, <1>5 DEF Disk

LEMMA ActivateDisk ==
  ASSUME IInv, NEW c \in Callers, Activate(c)
  PROVE  Durable' = Durable /\ Disk'
<1>1. /\ phase[c] = "persisted" /\ phase'[c] = "idle" /\ phase[c] \in InLock
      /\ \A d \in Callers \ {c} : phase'[d] = phase[d]
      /\ UNCHANGED <<manifest, files>>
      /\ mem' = NextRecords(c)
  BY DEF Activate, InLock, IInv, Typed, TypeOK
<1>2. \A d \in Callers \ {c} : phase[d] \notin InLock
  BY <1>1 DEF IInv, Control, Mutex
<1>3. Durable' = Durable /\ (Restorable' <=> Restorable)
  BY <1>1, SameDisk
<1>4. Durable = NextRecords(c)
  BY <1>1 DEF IInv, Disk, DiskAhead
<1>5. SourceWritten' /\ DiskAhead'
  BY <1>1, <1>2 DEF SourceWritten, DiskAhead, InLock
<1>6. QED
  BY <1>1, <1>3, <1>4, <1>5 DEF IInv, Disk, ServedIsDurable

\* A restart serves what the disk holds.
LEMMA RestoreDisk ==
  ASSUME IInv, Restore
  PROVE  Durable' = Durable /\ Disk'
<1>1. Durable' = Durable /\ (Restorable' <=> Restorable)
  BY SameDisk DEF Restore
<1>2. \A c \in Callers : phase'[c] = "idle"
  BY DEF Restore, IInv, Control, DownIsIdle
<1>3. QED
  BY <1>1, <1>2 DEF Restore, Disk, SourceWritten, DiskAhead, ServedIsDurable

LEMMA CrashDisk ==
  ASSUME IInv, Crash
  PROVE  Durable' = Durable /\ Disk'
<1>1. Durable' = Durable /\ (Restorable' <=> Restorable)
  BY SameDisk DEF Crash
<1>2. QED
  BY <1>1 DEF Crash, IInv, Disk, SourceWritten, DiskAhead, ServedIsDurable

\* Until the second critical section has the lock, nothing is written.
LEMMA EarlyDisk ==
  ASSUME IInv, NEW c \in Callers,
         Prepare(c) \/ BuildFails(c) \/ Recheck(c) \/ Conflict(c)
  PROVE  Durable' = Durable /\ Disk'
<1> USE DEF IInv, Typed, TypeOK
<1>1. UNCHANGED <<up, mem, manifest, files>>
  BY PrepareControl DEF BuildFails, Recheck, Conflict
<1>2. /\ phase[c] \in {"idle", "candidate"}
      /\ phase'[c] \in {"idle", "candidate", "locked"}
      /\ \A d \in Callers \ {c} : phase'[d] = phase[d] /\ call'[d] = call[d]
  BY PrepareControl DEF BuildFails, Recheck, Conflict
<1>3. Disk'
  BY <1>1, <1>2, QuietDisk
<1>4. QED
  BY <1>1, <1>3, SameDisk

LEMMA StepDisk == IInv /\ [Next]_vars => Disk'
<1> SUFFICES ASSUME IInv, [Next]_vars
             PROVE  Disk'
  OBVIOUS
<1>1. CASE UNCHANGED vars
  BY <1>1, QuietDisk DEF vars
<1>2. CASE Next
  BY <1>2, EarlyDisk, WriteSourceDisk, FailureDisk, WriteManifestDisk,
     ActivateDisk, CrashDisk, RestoreDisk DEF Next
<1>3. QED
  BY <1>1, <1>2

LEMMA InitIInv == Init => IInv
<1> SUFFICES ASSUME Init PROVE IInv
  OBVIOUS
<1>1. Typed
  BY InitTyped
<1>2. Control
  BY DEF Init, Control, Mutex, DownIsIdle, CallShape, Accepted, InLock
<1>3. Durable = mem /\ Restorable
  BY DEF Init, Durable, Restorable, Restored
<1>4. Disk
  BY <1>3 DEF Init, Disk, SourceWritten, DiskAhead, ServedIsDurable
<1>5. QED
  BY <1>1, <1>2, <1>4 DEF IInv

LEMMA StepIInv == IInv /\ [Next]_vars => IInv'
BY StepTyped, StepControl, StepDisk DEF IInv

LEMMA Inductive == Spec => []IInv
BY InitIInv, StepIInv, PTL DEF Spec

(***************************************************************************)
(* A crash at any moment leaves a disk the service can start from: no      *)
(* commit, finished, failed or cut short, leaves routes.json naming a      *)
(* source file that is not there (runtime.py:655-677).                     *)
(***************************************************************************)
THEOREM Restartable == Spec => []AlwaysRestorable
<1>1. IInv => AlwaysRestorable
  BY DEF IInv, Disk, AlwaysRestorable
<1>2. QED
  BY <1>1, Inductive, PTL

(***************************************************************************)
(* What is served is what is stored, at every moment outside the last two  *)
(* steps of a commit (runtime.py:662-677).                                 *)
(***************************************************************************)
THEOREM ServesTheDisk == Spec => []ServedIsDurable
<1>1. IInv => ServedIsDurable
  BY DEF IInv, Disk
<1>2. QED
  BY <1>1, Inductive, PTL

-----------------------------------------------------------------------------
(* The registry implements RouteTable: replacing routes.json is a step of  *)
(* the table, every other step leaves what a restart would serve alone.    *)

\* The record that is committed is the next version of the one it replaces.
LEMMA CommitSucceeds ==
  ASSUME IInv, NEW c \in Callers, WriteManifest(c), call[c].method \notin Creates
  PROVE  Table!Succeeds(call[c].to, call[c].from)
<1>1. phase[c] \in InLock /\ phase[c] # "idle" /\ phase[c] # "persisted"
  BY DEF WriteManifest, ReadyForManifest, InLock
<1>2. /\ call[c].new \in Record /\ call[c].to \in Routes /\ call[c].from \in Routes
      /\ call[c].method \in Methods
  BY <1>1, CallType DEF IInv
<1>3. Durable = mem /\ Durable' = NextRecords(c)
  BY <1>1, HolderSeesDisk, ManifestRestores
<1>4. Durable'[call[c].to] = call[c].new
  BY <1>2, <1>3 DEF NextRecords
<1>5. VersionMatches(c) /\ WellFormed(c) /\ call[c].new.origin = mem[call[c].from].origin
  BY <1>1, <1>2, RegistryAssumption
     DEF IInv, Control, CallShape, Accepted, StillValid
<1>6. call[c].new.version = mem[call[c].from].version + 1
  BY <1>2, <1>5 DEF VersionMatches, WellFormed
<1>7. QED
  BY <1>2, <1>3, <1>4, <1>5, <1>6
     DEF Table!Succeeds, Table!Record, Table!Modes, Record, Modes, VersionMatches

LEMMA CommitIsTableStep ==
  ASSUME IInv, NEW c \in Callers, WriteManifest(c)
  PROVE  Table!Next
<1> DEFINE t == call[c].to
           r == call[c].from
           m == call[c].method
<1>1. phase[c] \in InLock /\ phase[c] # "idle" /\ phase[c] # "persisted"
  BY DEF WriteManifest, ReadyForManifest, InLock
<1>2. call[c].new \in Record /\ t \in Routes /\ r \in Routes /\ m \in Methods
  BY <1>1, CallType DEF IInv
<1>3. Durable = mem /\ Durable' = NextRecords(c)
  BY <1>1, HolderSeesDisk, ManifestRestores
<1>4. StillValid(c) /\ WellFormed(c)
  BY <1>1 DEF IInv, Control, CallShape, Accepted
<1>5. Durable' = [s \in Routes |-> Durable'[s]]
  BY <1>3 DEF NextRecords
<1>6. CASE m \in Creates
  <2>1. mem[t] = NoRoute /\ call[c].new.version = 1
    BY <1>4, <1>6 DEF StillValid, WellFormed
  <2>2. Durable'[t] = call[c].new /\ \A s \in Routes \ {t} : Durable'[s] = Durable[s]
    BY <1>2, <1>3, <1>6 DEF NextRecords
  <2>3. Table!Create(t)
    BY <1>2, <1>3, <2>1, <2>2
       DEF Table!Create, Table!Record, Table!Modes, Record, Modes
  <2>4. Durable' # Durable
    BY <1>2, <1>3, <2>1, <2>2, NoRouteAssumption
  <2>5. QED
    BY <1>2, <1>5, <2>3, <2>4 DEF Table!Next
<1>7. CASE m \notin Creates /\ t = r
  <2>1. \A s \in Routes \ {r} : Durable'[s] = Durable[s]
    BY <1>2, <1>3, <1>7 DEF NextRecords
  <2>2. Table!Update(r)
    BY <1>7, <2>1, CommitSucceeds DEF Table!Update
  <2>3. Durable' # Durable
    <3>1. Table!Succeeds(r, r)
      BY <1>7, CommitSucceeds
    <3>2. Durable[r].version \in Nat
      BY <1>2, <1>3, <3>1, RegistryAssumption
         DEF Table!Succeeds, IInv, Typed, TypeOK, Record
    <3>3. QED
      BY <3>1, <3>2 DEF Table!Succeeds
  <2>4. QED
    BY <1>2, <1>5, <2>2, <2>3 DEF Table!Next
<1>8. CASE m \notin Creates /\ t # r
  <2>1. m \in Moves
    BY <1>2, <1>4, <1>8, RegistryAssumption DEF WellFormed
  <2>2. /\ Durable'[t] = call[c].new /\ Durable'[r] = NoRoute
        /\ \A s \in Routes \ {r, t} : Durable'[s] = Durable[s]
    BY <1>2, <1>3, <1>8, <2>1 DEF NextRecords
  <2>3. Durable[t] = NoRoute \/ (m = "move_plugin" /\ Durable'[t].mode = "plugin")
    BY <1>3, <1>4, <1>8, <2>1, <2>2 DEF StillValid, TargetFree, WellFormed, ModeOf
  <2>4. Durable[t] = NoRoute
          \/ Durable'[t].mode \in (IF "move_plugin" \in Methods THEN {"plugin"} ELSE {})
    BY <1>2, <2>3
  <2>5. Table!Succeeds(t, r)
    BY <1>8, CommitSucceeds
  <2>6. Table!Move(r, t)
    BY <1>8, <2>2, <2>4, <2>5 DEF Table!Move
  <2>7. Durable' # Durable
    BY <1>2, <1>3, <2>2, <2>5 DEF Table!Succeeds
  <2>8. QED
    BY <1>2, <1>5, <2>6, <2>7 DEF Table!Next
<1>9. QED
  BY <1>6, <1>7, <1>8

LEMMA InitRefines == Init => Table!Init
BY DEF Init, Table!Init, Durable, Restored

LEMMA StepRefines == IInv /\ [Next]_vars => [Table!Next]_Durable
<1> SUFFICES ASSUME IInv, [Next]_vars
             PROVE  Table!Next \/ Durable' = Durable
  OBVIOUS
<1>1. CASE UNCHANGED vars
  BY <1>1, SameDisk DEF vars
<1>2. CASE Next
  BY <1>2, EarlyDisk, WriteSourceDisk, FailureDisk, CommitIsTableStep,
     ActivateDisk, CrashDisk, RestoreDisk DEF Next
<1>3. QED
  BY <1>1, <1>2

(***************************************************************************)
(* The routes a restart would serve change by compare-and-swap on one      *)
(* route's version and in no other way, although RouteRuntime checks,      *)
(* builds, rechecks, writes two files and swaps its records in separate    *)
(* steps (runtime.py:220-677).                                             *)
(***************************************************************************)
THEOREM RegistryImplementsTable == Spec => ImplementsTable
<1>1. Spec => Table!Init /\ [][Table!Next]_Durable
  BY InitRefines, StepRefines, Inductive, PTL DEF Spec
<1>2. QED
  BY <1>1 DEF ImplementsTable, Table!Spec

-----------------------------------------------------------------------------
(* A route is in one place.  The argument: the origin of a route not yet   *)
(* in routes.json is the code of one pending create, offered once, so no   *)
(* commit brings in an origin that is there already, and the commit that   *)
(* carries an origin to a new path drops the old one.                      *)

Pending(c) ==
  phase[c] \in {"candidate", "locked", "sourced"} /\ call[c].method \in Creates

Fresh ==
  /\ \A r \in Routes : Durable[r] # NoRoute => Durable[r].origin \in used
  /\ \A c \in Callers : Pending(c) =>
       /\ call[c].new.origin \in used
       /\ \A r \in Routes :
            Durable[r] # NoRoute => Durable[r].origin # call[c].new.origin
  /\ \A c, d \in Callers :
       Pending(c) /\ Pending(d) /\ c # d => call[c].new.origin # call[d].new.origin

\* Steps that leave the routes alone and bring no new request.
LEMMA QuietFresh ==
  ASSUME Fresh, OnePlace, Durable' = Durable, used' = used,
         \A c \in Callers :
           Pending(c)' => Pending(c) /\ call'[c].new.origin = call[c].new.origin
  PROVE  Fresh' /\ OnePlace'
<1>1. Fresh'
  BY DEF Fresh
<1>2. OnePlace'
  BY DEF OnePlace
<1>3. QED
  BY <1>1, <1>2

LEMMA EarlyFresh ==
  ASSUME IInv, Fresh, OnePlace, NEW c \in Callers,
         \/ BuildFails(c) \/ Recheck(c) \/ Conflict(c)
         \/ WriteSource(c) \/ WriteSourceFails(c) \/ WriteManifestFails(c)
         \/ Activate(c)
  PROVE  Fresh' /\ OnePlace'
<1> USE DEF IInv, Typed, TypeOK
<1>1. Durable' = Durable /\ used' = used
  BY EarlyDisk, WriteSourceDisk, FailureDisk, ActivateDisk
     DEF BuildFails, Recheck, Conflict, WriteSource, WriteSourceFails,
         WriteManifestFails, Activate
<1>2. \A d \in Callers \ {c} : phase'[d] = phase[d] /\ call'[d] = call[d]
  BY DEF BuildFails, Recheck, Conflict, WriteSource, WriteSourceFails,
         WriteManifestFails, Activate
<1>3. Pending(c)' => Pending(c) /\ call'[c].new.origin = call[c].new.origin
  <2>1. CASE Recheck(c) \/ WriteSource(c)
    <3>1. phase[c] # "idle" /\ phase[c] \in {"candidate", "locked"} /\ call[c] \in Call
      BY <2>1, CallType DEF Recheck, WriteSource
    <3>2. \/ call'[c] = [call[c] EXCEPT !.new = Identified(c)]
          \/ call'[c] = [call[c] EXCEPT !.existed = FileHolds(c) # NoCode]
      BY <2>1 DEF Recheck, WriteSource
    <3>3. QED
      BY <3>1, <3>2 DEF Pending, Call, Identified
  <2>2. CASE ~(Recheck(c) \/ WriteSource(c))
    BY <2>2 DEF BuildFails, Conflict, WriteSourceFails, WriteManifestFails,
                Activate, Pending
  <2>3. QED
    BY <2>1, <2>2
<1>4. \A d \in Callers :
        Pending(d)' => Pending(d) /\ call'[d].new.origin = call[d].new.origin
  BY <1>2, <1>3 DEF Pending
<1>5. QED
  BY <1>1, <1>4, QuietFresh

\* A create brings a code that no one offered before.
LEMMA PrepareFresh ==
  ASSUME IInv, Fresh, OnePlace, NEW c \in Callers, Prepare(c)
  PROVE  Fresh' /\ OnePlace'
<1> USE DEF IInv, Typed, TypeOK
<1>1. PICK m \in Methods, r \in Routes, t \in Routes, p \in Projects, code \in Codes :
        \/ t = r /\ PrepareCreate(c, m, r, p, code)
        \/ t = r /\ PrepareUpdate(c, m, r, code)
        \/ PrepareMove(c, m, r, t, p, code)
  BY DEF Prepare
<1>2. Durable' = Durable
  BY EarlyDisk
<1>3. \A d \in Callers \ {c} : phase'[d] = phase[d] /\ call'[d] = call[d]
  BY PrepareControl
<1>4. CASE PrepareCreate(c, m, r, p, code)
  <2>1. code \notin used /\ used' = used \cup {code} /\ call'[c].new.origin = code
    BY <1>4 DEF PrepareCreate, Offer
  <2>2. \A d \in Callers \ {c} : Pending(d)' <=> Pending(d)
    BY <1>3 DEF Pending
  <2>3. \A r0 \in Routes : Durable[r0] # NoRoute => Durable[r0].origin # code
    BY <2>1 DEF Fresh
  <2>4. \A d \in Callers \ {c} : Pending(d)' => call'[d].new.origin # code
    BY <1>3, <2>1, <2>2 DEF Fresh
  <2>5. \A r0 \in Routes :
          Durable'[r0] # NoRoute => Durable'[r0].origin \in used'
    BY <1>2, <2>1 DEF Fresh
  <2>6. \A d \in Callers \ {c} : Pending(d)' =>
          /\ call'[d].new.origin \in used'
          /\ \A r0 \in Routes :
               Durable'[r0] # NoRoute => Durable'[r0].origin # call'[d].new.origin
    BY <1>2, <1>3, <2>1, <2>2 DEF Fresh
  <2>7. \A d, e \in Callers \ {c} :
          Pending(d)' /\ Pending(e)' /\ d # e =>
            call'[d].new.origin # call'[e].new.origin
    BY <1>3, <2>2 DEF Fresh
  <2>8. Fresh'
    BY <1>2, <2>1, <2>3, <2>4, <2>5, <2>6, <2>7 DEF Fresh
  <2>9. QED
    BY <1>2, <2>8 DEF OnePlace
<1>5. CASE PrepareUpdate(c, m, r, code) \/ PrepareMove(c, m, r, t, p, code)
  <2>1. call'[c].method \notin Creates /\ used \subseteq used'
    BY <1>5 DEF PrepareUpdate, PrepareMove, Offer
  <2>2. Fresh'
    BY <1>2, <1>3, <2>1 DEF Fresh, Pending
  <2>3. QED
    BY <1>2, <2>2 DEF OnePlace
<1>6. QED
  BY <1>1, <1>4, <1>5

\* Where a route of the new manifest comes from.
LEMMA CommitOrigin ==
  ASSUME IInv, NEW c \in Callers, WriteManifest(c), NEW r \in Routes,
         Durable'[r] # NoRoute
  PROVE  \/ /\ r = call[c].to /\ call[c].method \in Creates
            /\ Durable'[r].origin = call[c].new.origin
         \/ /\ r = call[c].to /\ call[c].method \notin Creates
            /\ call[c].from \in Routes /\ Durable[call[c].from] # NoRoute
            /\ Durable'[r].origin = Durable[call[c].from].origin
         \/ /\ r # call[c].to /\ Durable'[r] = Durable[r]
            /\ call[c].method \notin Creates => r # call[c].from
<1>1. phase[c] \in InLock /\ phase[c] # "idle" /\ phase[c] # "persisted"
  BY DEF WriteManifest, ReadyForManifest, InLock
<1>2. call[c].to \in Routes /\ call[c].from \in Routes /\ call[c].method \in Methods
  BY <1>1, CallType DEF IInv
<1>3. Durable = mem /\ Durable' = NextRecords(c)
  BY <1>1, HolderSeesDisk, ManifestRestores
<1>4. StillValid(c) /\ WellFormed(c)
      /\ (call[c].method \notin Creates =>
             call[c].new.origin = mem[call[c].from].origin)
  BY <1>1 DEF IInv, Control, CallShape, Accepted
<1>5. CASE r = call[c].to
  <2>1. call[c].method \notin Creates => mem[call[c].from] # NoRoute
    BY <1>2, <1>4, RegistryAssumption DEF StillValid, VersionMatches
  <2>2. Durable'[r] = call[c].new
    BY <1>3, <1>5 DEF NextRecords
  <2>3. QED
    BY <1>2, <1>3, <1>4, <1>5, <2>1, <2>2
<1>6. CASE r # call[c].to
  <2>1. call[c].method \notin Creates => r # call[c].from
    BY <1>2, <1>3, <1>4, <1>6, RegistryAssumption DEF NextRecords, WellFormed
  <2>2. QED
    BY <1>3, <1>6, <2>1 DEF NextRecords
<1>7. QED
  BY <1>5, <1>6

LEMMA CommitFresh ==
  ASSUME IInv, Fresh, OnePlace, NEW c \in Callers, WriteManifest(c)
  PROVE  Fresh' /\ OnePlace'
<1> USE DEF IInv, Typed, TypeOK
<1>1. /\ phase[c] \in {"locked", "sourced"} /\ phase'[c] = "persisted"
      /\ used' = used /\ call' = call
      /\ \A d \in Callers \ {c} : phase'[d] = phase[d]
  BY DEF WriteManifest, ReadyForManifest
<1>2. call[c].method \in Creates => Pending(c)
  BY <1>1 DEF Pending
<1>3. \A d \in Callers : Pending(d)' => Pending(d) /\ d # c
  BY <1>1 DEF Pending
<1>4. \A r \in Routes : Durable'[r] # NoRoute =>
        \/ call[c].method \in Creates /\ Durable'[r].origin = call[c].new.origin
        \/ \E s \in Routes : Durable[s] # NoRoute /\ Durable'[r].origin = Durable[s].origin
  BY CommitOrigin
<1>5. Fresh'
  BY <1>1, <1>2, <1>3, <1>4 DEF Fresh
<1>6. OnePlace'
  <2>1. SUFFICES ASSUME NEW r \in Routes, NEW s \in Routes,
                        Durable'[r] # NoRoute, Durable'[s] # NoRoute,
                        Durable'[r].origin = Durable'[s].origin
                 PROVE  r = s
    BY DEF OnePlace
  <2>2. CASE call[c].method \in Creates
    BY <1>2, <2>1, <2>2, CommitOrigin DEF Fresh, OnePlace
  <2>3. CASE call[c].method \notin Creates
    BY <2>1, <2>3, CommitOrigin DEF OnePlace
  <2>4. QED
    BY <2>2, <2>3
<1>7. QED
  BY <1>5, <1>6

LEMMA StepFresh == IInv /\ Fresh /\ OnePlace /\ [Next]_vars => Fresh' /\ OnePlace'
<1> SUFFICES ASSUME IInv, Fresh, OnePlace, [Next]_vars
             PROVE  Fresh' /\ OnePlace'
  OBVIOUS
<1>1. CASE Crash \/ Restore
  <2>1. Durable' = Durable /\ used' = used
    BY <1>1, CrashDisk, RestoreDisk DEF Crash, Restore
  <2>2. \A c \in Callers : phase'[c] = "idle"
    BY <1>1 DEF Crash, Restore, IInv, Control, DownIsIdle
  <2>3. \A c \in Callers : ~Pending(c)'
    BY <2>2 DEF Pending
  <2>4. QED
    BY <2>1, <2>3, QuietFresh
<1>2. CASE UNCHANGED vars
  <2>1. Durable' = Durable /\ used' = used /\ \A c \in Callers : Pending(c)' <=> Pending(c)
    BY <1>2, SameDisk DEF vars, Pending
  <2>2. QED
    BY <1>2, <2>1, QuietFresh DEF vars
<1>3. CASE Next
  BY <1>1, <1>3, PrepareFresh, EarlyFresh, CommitFresh DEF Next
<1>4. QED
  BY <1>2, <1>3

LEMMA InitFresh == Init => Fresh /\ OnePlace
BY DEF Init, Fresh, OnePlace, Pending, Durable, Restored

(***************************************************************************)
(* A move never leaves the route, or an older version of it, behind at its *)
(* previous path, not even in what a restart after a crash would serve     *)
(* (runtime.py:486-492, 655-677).                                          *)
(***************************************************************************)
THEOREM MovesWhole == Spec => []OnePlace
<1>1. Spec => [](Fresh /\ OnePlace)
  BY InitFresh, StepFresh, Inductive, PTL DEF Spec
<1>2. QED
  BY <1>1, PTL

-----------------------------------------------------------------------------
(* Without move_plugin, an acknowledged publication is never overwritten.  *)

\* A commit keeps every route, where it was or one version on at its target.
LEMMA CommitKeeps ==
  ASSUME IInv, "move_plugin" \notin Methods, NEW c \in Callers, WriteManifest(c),
         NEW r \in Routes, Durable[r] # NoRoute
  PROVE  \E s \in Routes :
           /\ Durable'[s] # NoRoute
           /\ Durable'[s].origin = Durable[r].origin
           /\ Durable'[s].version >= Durable[r].version
<1>1. phase[c] \in InLock /\ phase[c] # "idle" /\ phase[c] # "persisted"
  BY DEF WriteManifest, ReadyForManifest, InLock
<1>2. /\ call[c].new \in Record /\ call[c].to \in Routes /\ call[c].from \in Routes
      /\ call[c].method \in Methods
  BY <1>1, CallType DEF IInv
<1>3. Durable = mem /\ Durable' = NextRecords(c)
  BY <1>1, HolderSeesDisk, ManifestRestores
<1>4. StillValid(c) /\ WellFormed(c)
  BY <1>1 DEF IInv, Control, CallShape, Accepted
<1>5. mem[r] \in Record
  BY <1>3 DEF IInv, Typed, TypeOK
<1>6. CASE call[c].method \notin Creates /\ r = call[c].from
  <2>1. Table!Succeeds(call[c].to, r)
    BY <1>6, CommitSucceeds
  <2>2. Durable'[call[c].to] # NoRoute
    BY <1>2, <1>3, NoValues DEF NextRecords
  <2>3. QED
    BY <1>2, <1>3, <1>5, <2>1, <2>2, NoValues DEF Table!Succeeds, Record
<1>7. CASE call[c].method \in Creates \/ r # call[c].from
  <2>1. r # call[c].to
    BY <1>2, <1>3, <1>4, <1>7, RegistryAssumption
       DEF StillValid, TargetFree, WellFormed
  <2>2. ~(call[c].method \in Moves /\ r = call[c].from)
    BY <1>7
  <2>3. Durable'[r] = Durable[r]
    BY <1>3, <2>1, <2>2 DEF NextRecords
  <2>4. QED
    BY <1>3, <1>5, <2>3 DEF Record
<1>8. QED
  BY <1>6, <1>7

LEMMA StepSurvives ==
  "move_plugin" \notin Methods /\ IInv /\ AcknowledgedSurvives /\ [Next]_vars
    => AcknowledgedSurvives'
<1> SUFFICES ASSUME "move_plugin" \notin Methods, IInv, AcknowledgedSurvives,
                    [Next]_vars
             PROVE  AcknowledgedSurvives'
  OBVIOUS
<1>1. ASSUME NEW c \in Callers, WriteManifest(c)
      PROVE  AcknowledgedSurvives'
  <2>1. acked' = acked
    BY <1>1 DEF WriteManifest
  <2>2. SUFFICES ASSUME NEW o \in Codes, acked[o] > 0
                 PROVE  \E s \in Routes :
                          /\ Durable'[s] # NoRoute
                          /\ Durable'[s].origin = o
                          /\ Durable'[s].version >= acked[o]
    BY <2>1 DEF AcknowledgedSurvives
  <2>3. PICK r \in Routes : /\ Durable[r] # NoRoute
                            /\ Durable[r].origin = o
                            /\ Durable[r].version >= acked[o]
    BY <2>2 DEF AcknowledgedSurvives
  <2>4. PICK s \in Routes : /\ Durable'[s] # NoRoute
                            /\ Durable'[s].origin = Durable[r].origin
                            /\ Durable'[s].version >= Durable[r].version
    BY <1>1, <2>3, CommitKeeps
  <2>5. Durable[r].version \in Nat /\ acked[o] \in Nat
    BY <2>2, <2>3, DurableType, NoValues DEF IInv, Disk, Typed, TypeOK, Record
  <2>6. Durable'[s].version \in Nat
    <3>1. NextRecords(c) \in [Routes -> Record \cup {NoRoute}]
      BY <1>1, NextRecordsType DEF IInv, WriteManifest, ReadyForManifest
    <3>2. Durable' = NextRecords(c)
      BY <1>1, ManifestRestores
    <3>3. Durable'[s] \in Record
      BY <2>4, <3>1, <3>2
    <3>4. QED
      BY <3>3, NoValues DEF Record
  <2>7. QED
    BY <2>3, <2>4, <2>5, <2>6
<1>2. ASSUME NEW c \in Callers, Activate(c)
      PROVE  AcknowledgedSurvives'
  <2>1. phase[c] = "persisted"
    BY <1>2 DEF Activate
  <2>2. call[c].new \in Record /\ call[c].to \in Routes
    BY <2>1, CallType DEF IInv
  <2>3. Durable' = Durable /\ Durable[call[c].to] = call[c].new
    BY <1>2, <2>1, <2>2, ActivateDisk DEF IInv, Disk, DiskAhead, NextRecords
  <2>4. acked' = [acked EXCEPT ![call[c].new.origin] = call[c].new.version]
    BY <1>2 DEF Activate
  <2>5. call[c].new # NoRoute /\ call[c].new.version \in Nat
    BY <2>2, NoValues DEF Record
  <2>6. QED
    BY <2>2, <2>3, <2>4, <2>5 DEF AcknowledgedSurvives, IInv, Typed, TypeOK
<1>3. ASSUME Durable' = Durable, acked' = acked
      PROVE  AcknowledgedSurvives'
  BY <1>3 DEF AcknowledgedSurvives
<1>4. ASSUME NEW c \in Callers,
             \/ Prepare(c) \/ BuildFails(c) \/ Recheck(c) \/ Conflict(c)
             \/ WriteSource(c) \/ WriteSourceFails(c) \/ WriteManifestFails(c)
      PROVE  Durable' = Durable /\ acked' = acked
  BY <1>4, PrepareControl, EarlyDisk, WriteSourceDisk, FailureDisk
     DEF BuildFails, Recheck, Conflict, WriteSource, WriteSourceFails,
         WriteManifestFails, IInv
<1>5. CASE Crash \/ Restore
  BY <1>3, <1>5, CrashDisk, RestoreDisk DEF Crash, Restore
<1>6. CASE UNCHANGED vars
  BY <1>3, <1>6, SameDisk DEF vars
<1>7. QED
  BY <1>1, <1>2, <1>3, <1>4, <1>5, <1>6 DEF Next

(***************************************************************************)
(* As long as no caller uses move_plugin, what a caller was told is        *)
(* published is never lost: not to another caller, a crash or an I/O error *)
(* (runtime.py:220-364, 417-493).                                          *)
(***************************************************************************)
THEOREM NothingOverwritten ==
  "move_plugin" \notin Methods => (Spec => []AcknowledgedSurvives)
<1> SUFFICES ASSUME "move_plugin" \notin Methods
             PROVE  Spec => []AcknowledgedSurvives
  OBVIOUS
<1>1. Init => AcknowledgedSurvives
  BY DEF Init, AcknowledgedSurvives
<1>2. IInv /\ AcknowledgedSurvives /\ [Next]_vars => AcknowledgedSurvives'
  BY StepSurvives
<1>3. QED
  BY <1>1, <1>2, Inductive, PTL DEF Spec
=============================================================================
