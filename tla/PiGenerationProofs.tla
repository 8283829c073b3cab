-------------------------- MODULE PiGenerationProofs --------------------------
(***************************************************************************)
(* Theorems about PiGeneration, for any number of runs and slots and any   *)
(* limits of the stream.  The slots add up because only the return of a    *)
(* run frees one; no process goes on without a slot because a run leaves   *)
(* its clean-up only when the group is gone or was killed, and a killed    *)
(* leader forks no more; and a result is for an accepted stream because    *)
(* the locals of the reader say what it has read.                          *)
(***************************************************************************)
EXTENDS PiGeneration, FiniteSetTheorems, SequenceTheorems, TLAPS

\* The phases in which a process may go on.
Alive == {"reading", "closing", "terminating"}

GroupIsDown == \A g \in Runs : phase[g] \notin Alive => group[g] \subseteq doomed[g]

\* What the locals r of the reader say of the events s it has read.
Knows(r, s) ==
  /\ r.acknowledged <=> \E i \in DOMAIN s : s[i] = "accepted"
  /\ \A i, j \in DOMAIN s : s[i] = "accepted" /\ s[j] = "accepted" => i = j
  /\ r.settled <=> \E i \in DOMAIN s : s[i] = "settled"
  /\ r.final = "none" => \A i \in DOMAIN s : s[i] \notin Assistant
  /\ r.final # "none" =>
       \E i \in DOMAIN s :
         s[i] = r.final /\ \A j \in DOMAIN s : s[j] \in Assistant => j <= i
  /\ \A i \in DOMAIN s : s[i] # "bad"

ReaderKnows ==
  \A g \in Runs :
    /\ phase[g] \in {"idle", "waiting", "starting"} => reader[g] = NewReader /\ seen[g] = <<>>
    /\ phase[g] = "reading" => Knows(reader[g], seen[g])
    /\ phase[g] \in Cleaning =>
         reader[g] = NewReader /\ (outcome[g] = "result" => Accepted(seen[g]))

PiInv == TypeOK /\ SlotsAccounted /\ GroupIsDown /\ ReaderKnows

-----------------------------------------------------------------------------
(* Types.                                                                  *)

LEMMA NewReaderType == NewReader \in Reader
BY GenerationAssumption DEF NewReader, Reader

\* An event that is not rejected leaves room for the counters.
LEMMA ReadingType ==
  ASSUME NEW r \in Reader, NEW e \in Event, ~Rejects(r, e)
  PROVE  Reading(r, e) \in Reader
BY GenerationAssumption DEF Reader, Reading, Rejects, Final, Event, Assistant

LEMMA SeenType ==
  ASSUME NEW s \in Seq(Event), NEW e \in Event
  PROVE  Append(s, e) \in Seq(Event) /\ <<>> \in Seq(Event)
BY AppendProperties, EmptySeq

\* The parts of TypeOK a run's own steps change.
RunTypeOK ==
  /\ phase \in [Runs -> {"idle", "waiting"} \cup Holding]
  /\ reader \in [Runs -> Reader]
  /\ seen \in [Runs -> Seq(Event)]
  /\ outcome \in [Runs -> Outcome]
  /\ answer \in [Runs -> Outcome \cup {"full"}]

LEMMA ReturnKeepsType ==
  ASSUME RunTypeOK, NEW g \in Runs, NEW a \in Outcome, Return(g, a), UNCHANGED reader
  PROVE  RunTypeOK'
<1>1. <<>> \in Seq(Event)
  BY EmptySeq
<1>2. answer' \in [Runs -> Outcome \cup {"full"}]
  BY DEF RunTypeOK, Return, Outcome
<1>3. QED
  BY <1>1, <1>2 DEF RunTypeOK, Return, Outcome

LEMMA FinishKeepsType ==
  ASSUME RunTypeOK, NEW g \in Runs, NEW a \in Outcome, NEW s \in Seq(Event),
         Finish(g, a, s), UNCHANGED answer
  PROVE  RunTypeOK'
<1>1. <<>> \in Seq(Event)
  BY EmptySeq
<1>2. QED
  BY <1>1, NewReaderType DEF RunTypeOK, Finish, Holding, Cleaning

LEMMA ReadEventKeepsType ==
  ASSUME RunTypeOK, NEW g \in Runs, NEW e \in Event, ReadEvent(g, e)
  PROVE  RunTypeOK'
<1> DEFINE r == reader[g]
           next == Reading(r, e)
           s == IF e \in Noise THEN seen[g] ELSE Append(seen[g], e)
<1>1. r \in Reader /\ s \in Seq(Event) /\ answer' = answer
  BY SeenType DEF RunTypeOK, ReadEvent
<1>2. CASE Rejects(r, e) \/ Complete(next)
  <2>1. \E a \in {"failed", "result"} : Finish(g, a, s)
    BY <1>2 DEF ReadEvent, Verdict
  <2>2. QED
    BY <1>1, <2>1, FinishKeepsType DEF Outcome
<1>3. CASE ~Rejects(r, e) /\ ~Complete(next)
  <2>1. /\ reader' = [reader EXCEPT ![g] = next] /\ seen' = [seen EXCEPT ![g] = s]
        /\ UNCHANGED <<phase, outcome, answer>>
    BY <1>3 DEF ReadEvent
  <2>2. next \in Reader
    BY <1>1, <1>3, ReadingType
  <2>3. QED
    BY <1>1, <2>1, <2>2 DEF RunTypeOK
<1>4. QED
  BY <1>2, <1>3

LEMMA RunTypeKept ==
  ASSUME TypeOK, [Next]_vars
  PROVE  RunTypeOK'
<1>1. RunTypeOK
  BY DEF TypeOK, RunTypeOK
<1>2. CASE UNCHANGED vars
  BY <1>1, <1>2 DEF RunTypeOK, vars
<1>3. SUFFICES ASSUME NEW g \in Runs, RunStep(g) PROVE RunTypeOK'
  BY <1>2 DEF Next
<1>4. CASE \E a \in {"failed", "cancelled"} : NotStarted(g, a)
  BY <1>1, <1>4, ReturnKeepsType DEF NotStarted, Outcome
<1>5. CASE \E e \in Event : ReadEvent(g, e)
  BY <1>1, <1>5, ReadEventKeepsType
<1>6. CASE GiveUp(g) \/ Cancel(g)
  <2>1. seen[g] \in Seq(Event) /\ "failed" \in Outcome /\ "cancelled" \in Outcome
    BY <1>1 DEF RunTypeOK, Outcome
  <2>2. QED
    BY <1>1, <1>6, <2>1, FinishKeepsType DEF GiveUp, Cancel
<1>7. CASE CleanedUp(g)
  <2>1. outcome[g] \in Outcome
    BY <1>1 DEF RunTypeOK
  <2>2. QED
    BY <1>1, <1>7, <2>1, ReturnKeepsType DEF CleanedUp
<1>8. CASE CancelCleaning(g)
  <2>1. <<>> \in Seq(Event) /\ "cancelled" \in Outcome
    BY EmptySeq DEF Outcome
  <2>2. QED
    BY <1>1, <1>8, <2>1 DEF CancelCleaning, RunTypeOK
<1>9. CASE \/ Begin(g) \/ Admit(g) \/ Start(g) \/ Terminate(g) \/ Kill(g) \/ Fork(g)
           \/ \E a \in {"full", "cancelled", "failed"} : NotAdmitted(g, a)
           \/ \E p \in {"leader", "child"} : Exit(g, p)
  BY <1>1, <1>9
  DEF RunTypeOK, Begin, Admit, Start, Terminate, Kill, Fork, NotAdmitted, Exit, Holding,
      Cleaning, Outcome
<1>10. QED
  BY <1>3, <1>4, <1>5, <1>6, <1>7, <1>8, <1>9 DEF RunStep

LEMMA GroupTypeKept ==
  ASSUME TypeOK, [Next]_vars
  PROVE  /\ group' \in [Runs -> SUBSET {"leader", "child"}]
         /\ doomed' \in [Runs -> SUBSET {"leader", "child"}]
<1> USE DEF TypeOK, processes
<1>1. CASE UNCHANGED <<group, doomed>>
  BY <1>1
<1>2. ASSUME NEW g \in Runs,
             \/ Start(g) \/ Kill(g) \/ Fork(g)
             \/ \E p \in {"leader", "child"} : Exit(g, p)
      PROVE  /\ group' \in [Runs -> SUBSET {"leader", "child"}]
             /\ doomed' \in [Runs -> SUBSET {"leader", "child"}]
  <2>1. CASE Start(g)
    BY <2>1 DEF Start
  <2>2. CASE Kill(g)
    BY <2>2 DEF Kill, Signalled
  <2>3. CASE Fork(g)
    BY <2>3 DEF Fork
  <2>4. CASE \E p \in {"leader", "child"} : Exit(g, p)
    BY <2>4 DEF Exit
  <2>5. QED
    BY <1>2, <2>1, <2>2, <2>3, <2>4
<1>3. ASSUME NEW g \in Runs, RunStep(g),
             ~(Start(g) \/ Kill(g) \/ Fork(g) \/ \E p \in {"leader", "child"} : Exit(g, p))
      PROVE  UNCHANGED <<group, doomed>>
  BY <1>3 DEF RunStep, Begin, Admit, NotAdmitted, NotStarted, ReadEvent, GiveUp, Cancel,
              CancelCleaning, Terminate, CleanedUp
<1>4. QED
  BY <1>1, <1>2, <1>3 DEF Next, vars

-----------------------------------------------------------------------------
(* Slots.                                                                  *)

LEMMA HoldersFinite == IsFiniteSet(Holders) /\ Cardinality(Holders) \in Nat
BY FS_Subset, FS_CardinalityType, GenerationAssumption DEF Holders

LEMMA SlotTaken ==
  ASSUME TypeOK, SlotsAccounted, NEW g \in Runs, g \notin Holders,
         Holders' = Holders \cup {g}, slots > 0, slots' = slots - 1
  PROVE  SlotsAccounted' /\ slots' \in 0..MaxRuns
<1>1. Cardinality(Holders') = Cardinality(Holders) + 1
  BY FS_AddElement, HoldersFinite
<1>2. QED
  BY <1>1, HoldersFinite, GenerationAssumption DEF TypeOK, SlotsAccounted

LEMMA SlotReturned ==
  ASSUME TypeOK, SlotsAccounted, NEW g \in Holders, Holders' = Holders \ {g},
         slots' = slots + 1
  PROVE  SlotsAccounted' /\ slots' \in 0..MaxRuns
<1>1. Cardinality(Holders') = Cardinality(Holders) - 1 /\ Cardinality(Holders) > 0
  BY FS_RemoveElement, FS_EmptySet, HoldersFinite
<1>2. QED
  BY <1>1, HoldersFinite, GenerationAssumption DEF TypeOK, SlotsAccounted

LEMMA SlotsKept ==
  ASSUME TypeOK, SlotsAccounted, [Next]_vars
  PROVE  SlotsAccounted' /\ slots' \in 0..MaxRuns
<1>1. CASE slots' = slots /\ Holders' = Holders
  BY <1>1 DEF TypeOK, SlotsAccounted
<1>2. ASSUME NEW g \in Runs, Admit(g)
      PROVE  SlotsAccounted' /\ slots' \in 0..MaxRuns
  <2>1. /\ g \notin Holders /\ Holders' = Holders \cup {g}
        /\ slots > 0 /\ slots' = slots - 1
    BY <1>2 DEF Admit, MayAdmit, Holders, Holding, Cleaning, TypeOK
  <2>2. QED
    BY <2>1, SlotTaken
<1>3. ASSUME NEW g \in Runs,
             CleanedUp(g) \/ \E a \in {"failed", "cancelled"} : NotStarted(g, a)
      PROVE  SlotsAccounted' /\ slots' \in 0..MaxRuns
  <2>1. g \in Holders /\ Holders' = Holders \ {g} /\ slots' = slots + 1
    BY <1>3 DEF CleanedUp, NotStarted, Return, SlotsAfter, Holders, Holding, Cleaning, TypeOK
  <2>2. QED
    BY <2>1, SlotReturned
<1>4. ASSUME NEW g \in Runs, NEW e \in Event, ReadEvent(g, e)
      PROVE  slots' = slots /\ Holders' = Holders
  <2>1. slots' = slots /\ phase[g] = "reading"
    BY <1>4 DEF ReadEvent
  <2>2. phase' = phase \/ phase' = [phase EXCEPT ![g] = "closing"]
    BY <1>4 DEF ReadEvent, Finish
  <2>3. QED
    BY <2>1, <2>2 DEF Holders, Holding, Cleaning, TypeOK
<1>5. ASSUME NEW g \in Runs,
        \/ Begin(g) \/ Start(g) \/ GiveUp(g) \/ Cancel(g) \/ CancelCleaning(g)
        \/ Terminate(g) \/ Kill(g) \/ Fork(g)
        \/ \E a \in {"full", "cancelled", "failed"} : NotAdmitted(g, a)
        \/ \E p \in {"leader", "child"} : Exit(g, p)
      PROVE  slots' = slots /\ Holders' = Holders
  BY <1>5 DEF Begin, Start, GiveUp, Cancel, Finish, CancelCleaning, Terminate, Kill, Fork,
              NotAdmitted, Exit, Holders, Holding, Cleaning, TypeOK
<1>6. CASE UNCHANGED vars
  BY <1>1, <1>6 DEF vars, Holders
<1>7. QED
  BY <1>1, <1>2, <1>3, <1>4, <1>5, <1>6 DEF Next, RunStep

-----------------------------------------------------------------------------
(* Processes.                                                              *)

LEMMA GroupKept ==
  ASSUME TypeOK, GroupIsDown, [Next]_vars
  PROVE  GroupIsDown'
<1>1. CASE UNCHANGED vars
  BY <1>1 DEF vars, GroupIsDown
<1>2. SUFFICES ASSUME NEW g \in Runs, NEW p \in Runs, phase'[p] \notin Alive, RunStep(g)
      PROVE  group'[p] \subseteq doomed'[p]
  BY <1>1 DEF Next, GroupIsDown
<1> USE DEF GroupIsDown, TypeOK, Alive, processes
<1>3. CASE Start(g)
  BY <1>2, <1>3 DEF Start
<1>4. CASE \/ Begin(g) \/ Admit(g)
           \/ \E a \in {"full", "cancelled", "failed"} : NotAdmitted(g, a)
           \/ \E a \in {"failed", "cancelled"} : NotStarted(g, a)
  BY <1>2, <1>4 DEF Begin, Admit, NotAdmitted, NotStarted, Return
<1>5. CASE \E e \in Event : ReadEvent(g, e)
  <2>1. group' = group /\ doomed' = doomed /\ phase[g] = "reading"
    BY <1>5 DEF ReadEvent
  <2>2. phase' = phase \/ phase' = [phase EXCEPT ![g] = "closing"]
    BY <1>5 DEF ReadEvent, Finish
  <2>3. QED
    BY <1>2, <2>1, <2>2
<1>6. CASE GiveUp(g) \/ Cancel(g) \/ CancelCleaning(g) \/ Terminate(g)
  BY <1>2, <1>6 DEF GiveUp, Cancel, Finish, CancelCleaning, Terminate
<1>7. CASE Kill(g)
  BY <1>2, <1>7 DEF Kill, Signalled
<1>8. CASE CleanedUp(g)
  BY <1>2, <1>8 DEF CleanedUp, Return, TreeGone, MayLeave
<1>9. CASE Fork(g)
  BY <1>2, <1>9 DEF Fork
<1>10. CASE \E q \in {"leader", "child"} : Exit(g, q)
  BY <1>2, <1>10 DEF Exit
<1>11. QED
  BY <1>2, <1>3, <1>4, <1>5, <1>6, <1>7, <1>8, <1>9, <1>10 DEF RunStep

-----------------------------------------------------------------------------
(* The reader.                                                             *)

LEMMA NewKnows == Knows(NewReader, <<>>)
<1>1. DOMAIN <<>> = {}
  OBVIOUS
<1>2. QED
  BY <1>1 DEF Knows, NewReader

\* Reading an event that is not rejected keeps what the locals say.
LEMMA ReadingKnows ==
  ASSUME NEW r \in Reader, NEW s \in Seq(Event), NEW e \in Event, Knows(r, s),
         ~Rejects(r, e)
  PROVE  Knows(Reading(r, e), IF e \in Noise THEN s ELSE Append(s, e))
<1>1. e # "bad" /\ (e = "accepted" => ~r.acknowledged)
  BY DEF Rejects
<1>2. CASE e \in Noise
  <2>1. /\ Reading(r, e).acknowledged = r.acknowledged
        /\ Reading(r, e).settled = r.settled /\ Reading(r, e).final = r.final
    BY <1>2 DEF Reading, Reader, Noise, Final, Assistant
  <2>2. QED
    BY <1>2, <2>1 DEF Knows
<1>3. CASE e \notin Noise
  <2> DEFINE t == Append(s, e)
             n == Len(s) + 1
             next == Reading(r, e)
  <2>1. /\ Len(s) \in Nat /\ DOMAIN s = 1..Len(s) /\ DOMAIN t = 1..n
        /\ t[n] = e /\ \A i \in 1..Len(s) : t[i] = s[i]
    BY AppendProperties, LenProperties
  <2>2. /\ n \in DOMAIN t /\ n \notin DOMAIN s
        /\ \A i \in DOMAIN t : i \in DOMAIN s \/ i = n
        /\ \A i \in DOMAIN s : i \in DOMAIN t /\ i <= n /\ t[i] = s[i]
    BY <2>1
  <2>3. /\ next.acknowledged <=> (r.acknowledged \/ e = "accepted")
        /\ next.settled <=> (r.settled \/ e = "settled")
        /\ next.final = IF e \in Assistant THEN e ELSE r.final
    BY DEF Reading, Final
  <2>4. next.acknowledged <=> \E i \in DOMAIN t : t[i] = "accepted"
    BY <2>1, <2>2, <2>3 DEF Knows
  <2>5. \A i, j \in DOMAIN t : t[i] = "accepted" /\ t[j] = "accepted" => i = j
    BY <1>1, <2>1, <2>2 DEF Knows
  <2>6. next.settled <=> \E i \in DOMAIN t : t[i] = "settled"
    BY <2>1, <2>2, <2>3 DEF Knows
  <2>7. next.final = "none" => \A i \in DOMAIN t : t[i] \notin Assistant
    BY <2>1, <2>2, <2>3 DEF Knows, Assistant
  <2>8. next.final # "none" =>
          \E i \in DOMAIN t :
            t[i] = next.final /\ \A j \in DOMAIN t : t[j] \in Assistant => j <= i
    <3>1. CASE e \in Assistant
      <4>1. t[n] = next.final /\ \A j \in DOMAIN t : j <= n
        BY <2>1, <2>3, <3>1
      <4>2. QED
        BY <2>2, <4>1
    <3>2. CASE e \notin Assistant
      BY <2>1, <2>2, <2>3, <3>2 DEF Knows
    <3>3. QED
      BY <3>1, <3>2
  <2>9. \A i \in DOMAIN t : t[i] # "bad"
    BY <1>1, <2>1, <2>2 DEF Knows
  <2>10. QED
    BY <1>3, <2>4, <2>5, <2>6, <2>7, <2>8, <2>9 DEF Knows
<1>4. QED
  BY <1>2, <1>3

\* The checks after the loop accept the stream the caller is answered for.
LEMMA CompleteIsAccepted ==
  ASSUME NEW r, NEW s, Knows(r, s), Complete(r), Verdict(r) = "result"
  PROVE  Accepted(s)
<1>1. r.final = "assistant_stop" /\ r.acknowledged /\ r.settled
  BY DEF Verdict, Complete
<1>2. QED
  BY <1>1 DEF Knows, Accepted

\* What ReaderKnows says of one run.
LEMMA FinishKnows ==
  ASSUME TypeOK, ReaderKnows, NEW g \in Runs, NEW a, NEW s, Finish(g, a, s),
         a = "result" => Accepted(s)
  PROVE  ReaderKnows'
BY DEF TypeOK, ReaderKnows, Finish, Cleaning

LEMMA ReadEventKnows ==
  ASSUME TypeOK, ReaderKnows, NEW g \in Runs, NEW e \in Event, ReadEvent(g, e)
  PROVE  ReaderKnows'
<1> DEFINE r == reader[g]
           next == Reading(r, e)
           s == IF e \in Noise THEN seen[g] ELSE Append(seen[g], e)
<1>1. r \in Reader /\ seen[g] \in Seq(Event) /\ Knows(r, seen[g]) /\ phase[g] = "reading"
  BY DEF TypeOK, ReaderKnows, ReadEvent
<1>2. CASE Rejects(r, e)
  <2>1. Finish(g, "failed", s)
    BY <1>2 DEF ReadEvent
  <2>2. QED
    BY <2>1, FinishKnows
<1>3. CASE ~Rejects(r, e)
  <2>1. Knows(next, s)
    BY <1>1, <1>3, ReadingKnows
  <2>2. CASE Complete(next)
    <3>1. Finish(g, Verdict(next), s)
      BY <1>3, <2>2 DEF ReadEvent
    <3>2. Verdict(next) = "result" => Accepted(s)
      BY <2>1, <2>2, CompleteIsAccepted
    <3>3. QED
      BY <3>1, <3>2, FinishKnows
  <2>3. CASE ~Complete(next)
    <3>1. /\ reader' = [reader EXCEPT ![g] = next] /\ seen' = [seen EXCEPT ![g] = s]
          /\ UNCHANGED <<phase, outcome>>
      BY <1>3, <2>3 DEF ReadEvent
    <3>2. \A p \in Runs \ {g} : reader'[p] = reader[p] /\ seen'[p] = seen[p]
      BY <3>1
    <3>3. reader'[g] = next /\ seen'[g] = s
      BY <3>1 DEF TypeOK
    <3>4. QED
      BY <1>1, <2>1, <3>1, <3>2, <3>3 DEF ReaderKnows, Cleaning
  <2>4. QED
    BY <2>2, <2>3
<1>4. QED
  BY <1>2, <1>3

LEMMA ReaderKept ==
  ASSUME TypeOK, ReaderKnows, [Next]_vars
  PROVE  ReaderKnows'
<1>1. CASE UNCHANGED vars
  BY <1>1 DEF vars, ReaderKnows
<1>2. SUFFICES ASSUME NEW g \in Runs, RunStep(g) PROVE ReaderKnows'
  BY <1>1 DEF Next
<1>3. CASE \E e \in Event : ReadEvent(g, e)
  BY <1>3, ReadEventKnows
<1>4. CASE GiveUp(g) \/ Cancel(g)
  BY <1>4, FinishKnows DEF GiveUp, Cancel
<1>5. CASE Start(g)
  BY <1>5, NewKnows DEF Start, ReaderKnows, TypeOK, Cleaning
<1>6. CASE \/ CleanedUp(g)
           \/ \E a \in {"failed", "cancelled"} : NotStarted(g, a)
  BY <1>6 DEF CleanedUp, NotStarted, Return, ReaderKnows, TypeOK, Cleaning
<1>7. CASE CancelCleaning(g)
  BY <1>7 DEF CancelCleaning, ReaderKnows, TypeOK, Cleaning
<1>8. CASE \/ Begin(g) \/ Admit(g) \/ Terminate(g) \/ Kill(g) \/ Fork(g)
           \/ \E a \in {"full", "cancelled", "failed"} : NotAdmitted(g, a)
           \/ \E q \in {"leader", "child"} : Exit(g, q)
  BY <1>8 DEF Begin, Admit, Terminate, Kill, Fork, NotAdmitted, Exit, ReaderKnows, TypeOK,
              Cleaning
<1>9. QED
  BY <1>2, <1>3, <1>4, <1>5, <1>6, <1>7, <1>8 DEF RunStep

-----------------------------------------------------------------------------
(* Theorems.                                                               *)

LEMMA InitHolds == Init => PiInv
<1> SUFFICES ASSUME Init PROVE PiInv
  OBVIOUS
<1>1. <<>> \in Seq(Event) /\ Holders = {} /\ Cardinality({}) = 0
  BY EmptySeq, FS_EmptySet DEF Init, Holders, Holding, Cleaning
<1>2. TypeOK
  BY <1>1, NewReaderType, GenerationAssumption DEF Init, TypeOK, Outcome
<1>3. SlotsAccounted
  BY <1>1, GenerationAssumption DEF Init, SlotsAccounted
<1>4. GroupIsDown /\ ReaderKnows
  BY DEF Init, GroupIsDown, ReaderKnows, Cleaning
<1>5. QED
  BY <1>2, <1>3, <1>4 DEF PiInv

LEMMA NextKeeps == PiInv /\ [Next]_vars => PiInv'
<1> SUFFICES ASSUME PiInv, [Next]_vars PROVE PiInv'
  OBVIOUS
<1>1. TypeOK'
  BY RunTypeKept, GroupTypeKept, SlotsKept DEF PiInv, TypeOK, RunTypeOK
<1>2. QED
  BY <1>1, SlotsKept, GroupKept, ReaderKept DEF PiInv

LEMMA PiInvariant == Spec => []PiInv
BY InitHolds, NextKeeps, PTL DEF Spec

\* The reader never goes past its limits, whatever Pi sends, and slots stay within theirs.
THEOREM TypeCorrect == Spec => []TypeOK
BY PiInvariant, PTL DEF PiInv

\* No failure, timeout or cancellation loses a slot, for any number of generations.
THEOREM SlotsAddUp == Spec => []SlotsAccounted
BY PiInvariant, PTL DEF PiInv

\* Whatever is left of the group when the caller has its answer has been sent SIGKILL.
THEOREM NoChildIsLeft == Spec => []NoChildLeft
<1>1. PiInv => NoChildLeft
  BY DEF PiInv, GroupIsDown, Alive, NoChildLeft, Holding, Cleaning
<1>2. QED
  BY <1>1, PiInvariant, PTL

\* No more Pi processes go on than one generator has slots.
THEOREM PiIsBounded == Spec => []PiBounded
<1>1. PiInv => PiBounded
  <2> SUFFICES ASSUME PiInv PROVE PiBounded
    OBVIOUS
  <2> DEFINE Busy == {g \in Runs : group[g] \ doomed[g] # {}}
  <2>1. Busy \in SUBSET Holders
    BY DEF PiInv, GroupIsDown, Alive, Holders, Holding, Cleaning
  <2>2. Cardinality(Busy) <= Cardinality(Holders) /\ Cardinality(Busy) \in Nat
    BY <2>1, HoldersFinite, FS_Subset, FS_CardinalityType
  <2>3. QED
    BY <2>2, HoldersFinite, GenerationAssumption DEF PiInv, TypeOK, SlotsAccounted, PiBounded
<1>2. QED
  BY <1>1, PiInvariant, PTL

\* A caller gets a result only for a stream in which the prompt was accepted once, the
\* agent settled, and the last assistant message is complete, in whatever order and
\* between whatever noise these came.
THEOREM ResultsAreAccepted == Spec => ResultIsAccepted
<1> DEFINE A == \A g \in Runs :
       phase[g] # "idle" /\ phase'[g] = "idle" /\ answer'[g] = "result" => Accepted(seen[g])
<1>1. PiInv /\ [Next]_vars => [A]_vars
  <2> SUFFICES ASSUME PiInv, Next, NEW p \in Runs, phase[p] # "idle", phase'[p] = "idle",
                      answer'[p] = "result"
               PROVE  Accepted(seen[p])
    BY DEF vars
  <2>1. PICK g \in Runs : RunStep(g)
    BY DEF Next
  <2> USE DEF PiInv, TypeOK
  <2>2. CASE CleanedUp(g)
    <3>1. p = g /\ phase[g] \in Cleaning /\ outcome[g] = "result"
      BY <2>2 DEF CleanedUp, Return
    <3>2. QED
      BY <3>1 DEF ReaderKnows
  <2>3. CASE \/ \E a \in {"full", "cancelled", "failed"} : NotAdmitted(g, a)
             \/ \E a \in {"failed", "cancelled"} : NotStarted(g, a)
    BY <2>3 DEF NotAdmitted, NotStarted, Return
  <2>4. CASE \E e \in Event : ReadEvent(g, e)
    BY <2>4 DEF ReadEvent, Finish
  <2>5. CASE \/ Begin(g) \/ Admit(g) \/ Start(g) \/ GiveUp(g) \/ Cancel(g)
             \/ CancelCleaning(g) \/ Terminate(g) \/ Kill(g) \/ Fork(g)
             \/ \E q \in {"leader", "child"} : Exit(g, q)
    BY <2>5 DEF Begin, Admit, Start, GiveUp, Cancel, Finish, CancelCleaning, Terminate,
                Kill, Fork, Exit
  <2>6. QED
    BY <2>1, <2>2, <2>3, <2>4, <2>5 DEF RunStep
<1>2. QED
  BY <1>1, PiInvariant, PTL DEF Spec, ResultIsAccepted
=============================================================================
