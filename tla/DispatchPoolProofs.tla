-------------------------- MODULE DispatchPoolProofs --------------------------
(***************************************************************************)
(* Theorems about DispatchPool, for any number of requests, tasks, slots   *)
(* and threads.  What makes the slots add up is that a job is in the pool  *)
(* exactly while its request or its task says so: no job is submitted      *)
(* twice, and no callback runs for one that was already accounted for.     *)
(***************************************************************************)
EXTENDS DispatchPool, FiniteSetTheorems, SequenceTheorems, TLAPS

\* The states in which a request or a task has each kind of job in the pool.
JobsAreExpected ==
  /\ \A r \in Requests : <<"handler", r>> \in Submitted <=> request[r] \in {"executing", "left"}
  /\ \A o \in Tasks :
       /\ <<"store", o>> \in Submitted <=> task[o] \in {"claiming", "noting", "completing"}
       /\ <<"publish", o>> \in Submitted <=> task[o] \in {"publishing", "noting", "noted"}
       /\ task[o] = "noting" => <<"publish", o>> \notin done

PoolInv == TypeOK /\ JobsAreExpected /\ SlotsAccounted

-----------------------------------------------------------------------------
(* Jobs.                                                                   *)

LEMMA HandlerJobs == \A r \in Requests : <<"handler", r>> \in Job
BY DEF Job

LEMMA TaskJobs == \A o \in Tasks : <<"store", o>> \in Job /\ <<"publish", o>> \in Job
BY DEF Job

LEMMA JobShape ==
  ASSUME NEW job \in Job
  PROVE  \/ \E r \in Requests : job = <<"handler", r>>
         \/ \E o \in Tasks : job = <<"store", o>> \/ job = <<"publish", o>>
BY DEF Job

\* A job that is not in the pool may be submitted, when the loop deals with others.
LEMMA SubmitKeeps ==
  ASSUME JobsTypeOK, NEW job \in Job \ Submitted, Submit(job), UNCHANGED running,
         NEW dealt \in SUBSET done, done' = done \ dealt
  PROVE  JobsTypeOK' /\ Submitted' = (Submitted \cup {job}) \ dealt
<1>1. /\ Len(queue) \in Nat
      /\ DOMAIN queue = 1..Len(queue)
  BY LenProperties DEF JobsTypeOK
<1>2. /\ queue' \in Seq(Job)
      /\ Len(queue') = Len(queue) + 1
      /\ \A i \in 1..Len(queue) : queue'[i] = queue[i]
      /\ queue'[Len(queue) + 1] = job
  BY AppendProperties DEF JobsTypeOK, Submit
<1>3. DOMAIN queue' = 1..(Len(queue) + 1)
  BY <1>2, LenProperties
<1>4. \A i \in 1..(Len(queue) + 1) : i \in 1..Len(queue) \/ i = Len(queue) + 1
  BY <1>1
<1>5. \A i \in DOMAIN queue : queue[i] # job
  BY DEF Submitted
<1>6. \A i \in DOMAIN queue' : queue'[i] \notin running \cup done
  BY <1>1, <1>2, <1>3, <1>4 DEF JobsTypeOK, Submitted
<1>7. \A i, k \in DOMAIN queue' : queue'[i] = queue'[k] => i = k
  BY <1>1, <1>2, <1>3, <1>4, <1>5 DEF JobsTypeOK
<1>8. {queue'[i] : i \in DOMAIN queue'} = {queue[i] : i \in DOMAIN queue} \cup {job}
  <2>1. \A i \in DOMAIN queue : i \in DOMAIN queue' /\ queue'[i] = queue[i]
    BY <1>1, <1>2, <1>3
  <2>2. Len(queue) + 1 \in DOMAIN queue'
    BY <1>1, <1>3
  <2>3. QED
    BY <1>1, <1>2, <1>3, <1>4, <2>1, <2>2
<1>9. QED
  <2>1. \A i \in DOMAIN queue : queue[i] \notin dealt
    BY DEF JobsTypeOK
  <2>2. running \cap dealt = {}
    BY DEF JobsTypeOK
  <2>3. job \notin dealt
    BY DEF Submitted
  <2>4. Submitted' = (Submitted \cup {job}) \ dealt
    BY <1>8, <2>1, <2>2, <2>3 DEF Submitted
  <2>5. QED
    BY <1>2, <1>6, <1>7, <2>4 DEF JobsTypeOK

LEMMA SubmittedMore ==
  ASSUME JobsTypeOK, NEW job \in Job \ Submitted, Submit(job), UNCHANGED <<running, done>>
  PROVE  JobsTypeOK' /\ Submitted' = Submitted \cup {job}
<1>1. done' = done \ {} /\ {} \in SUBSET done
  OBVIOUS
<1>2. QED
  BY <1>1, SubmitKeeps

\* A thread takes the first job of the queue.
LEMMA TakeJobKeeps ==
  ASSUME PoolInv, TakeJob
  PROVE  JobsTypeOK' /\ Submitted' = Submitted
<1> DEFINE n == Len(queue)
<1>1. n \in Nat \ {0} /\ DOMAIN queue = 1..n /\ queue \in [1..n -> Job]
  BY LenProperties, EmptySeq DEF PoolInv, TypeOK, JobsTypeOK, TakeJob
<1>2. /\ Head(queue) \in Job
      /\ queue' \in Seq(Job)
      /\ Len(queue') = n - 1
      /\ \A i \in 1..(n - 1) : queue'[i] = queue[i + 1]
      /\ Head(queue) = queue[1]
  BY HeadTailProperties DEF PoolInv, TypeOK, JobsTypeOK, TakeJob
<1>3. DOMAIN queue' = 1..(n - 1)
  BY <1>2, LenProperties
<1>4. \A i \in 1..(n - 1) : i + 1 \in 1..n /\ i + 1 # 1
  BY <1>1
<1>5. \A i \in 1..n : i = 1 \/ (i - 1 \in 1..(n - 1) /\ (i - 1) + 1 = i)
  BY <1>1
<1>6. 1 \in DOMAIN queue
  BY <1>1
<1>7. running' \subseteq Job /\ done' = done /\ done \subseteq Job \ running'
  BY <1>2, <1>6 DEF PoolInv, TypeOK, JobsTypeOK, TakeJob
<1>8. \A i \in DOMAIN queue' : queue'[i] \notin running' \cup done'
  BY <1>1, <1>2, <1>3, <1>4, <1>6 DEF PoolInv, TypeOK, JobsTypeOK, TakeJob
<1>9. \A i, k \in DOMAIN queue' : queue'[i] = queue'[k] => i = k
  <2> SUFFICES ASSUME NEW i \in 1..(n - 1), NEW k \in 1..(n - 1), queue'[i] = queue'[k]
               PROVE  i = k
    BY <1>3
  <2>1. queue[i + 1] = queue[k + 1] /\ i + 1 \in DOMAIN queue /\ k + 1 \in DOMAIN queue
    BY <1>1, <1>2, <1>4
  <2>2. i + 1 = k + 1
    BY <2>1 DEF PoolInv, TypeOK, JobsTypeOK
  <2>3. QED
    BY <2>2
<1>10. IsFiniteSet(running') /\ Cardinality(running') <= PoolSize
  <2>1. /\ IsFiniteSet(running) /\ Cardinality(running) < PoolSize
        /\ running' = running \cup {Head(queue)}
    BY DEF PoolInv, TypeOK, JobsTypeOK, TakeJob
  <2>2. Cardinality(running) \in Nat
    BY <2>1, FS_CardinalityType
  <2>3. IsFiniteSet(running') /\ Cardinality(running') <= Cardinality(running) + 1
    <3>1. /\ IsFiniteSet(running \cup {Head(queue)})
          /\ Cardinality(running \cup {Head(queue)}) =
               IF Head(queue) \in running THEN Cardinality(running) ELSE Cardinality(running) + 1
      BY <2>1, FS_AddElement, Zenon
    <3>2. QED
      BY <2>1, <2>2, <3>1
  <2>4. Cardinality(running') \in Nat
    BY <2>3, FS_CardinalityType
  <2>5. QED
    BY <2>1, <2>2, <2>3, <2>4, DispatchAssumption
<1>11. {queue[i] : i \in DOMAIN queue} = {queue'[i] : i \in DOMAIN queue'} \cup {Head(queue)}
  <2>1. \A i \in DOMAIN queue :
          queue[i] = Head(queue) \/ \E k \in DOMAIN queue' : queue'[k] = queue[i]
    <3> SUFFICES ASSUME NEW i \in 1..n, i # 1
                 PROVE  \E k \in 1..(n - 1) : queue'[k] = queue[i]
      BY <1>1, <1>2, <1>3
    <3>1. i - 1 \in 1..(n - 1) /\ queue'[i - 1] = queue[(i - 1) + 1]
      BY <1>2, <1>5
    <3>2. QED
      BY <1>5, <3>1
  <2>2. \A k \in DOMAIN queue' : \E i \in DOMAIN queue : queue[i] = queue'[k]
    BY <1>1, <1>2, <1>3, <1>4
  <2>3. QED
    BY <1>2, <1>6, <2>1, <2>2
<1>12. Submitted' = Submitted
  BY <1>11 DEF Submitted, TakeJob
<1>13. QED
  BY <1>2, <1>7, <1>8, <1>9, <1>10, <1>12 DEF JobsTypeOK

\* A job that has run waits for the loop; one the loop has dealt with is forgotten.
LEMMA EndJobKeeps ==
  ASSUME PoolInv, NEW job \in Job, EndJob(job)
  PROVE  JobsTypeOK' /\ Submitted' = Submitted
<1>1. IsFiniteSet(running') /\ Cardinality(running') <= PoolSize
  <2>1. /\ IsFiniteSet(running) /\ Cardinality(running) <= PoolSize
        /\ running' \in SUBSET running
    BY DEF PoolInv, TypeOK, JobsTypeOK, EndJob
  <2>2. /\ Cardinality(running) \in Nat /\ IsFiniteSet(running')
        /\ Cardinality(running') <= Cardinality(running)
    BY <2>1, FS_CardinalityType, FS_Subset
  <2>3. Cardinality(running') \in Nat
    BY <2>2, FS_CardinalityType
  <2>4. QED
    BY <2>1, <2>2, <2>3, DispatchAssumption
<1>2. QED
  BY <1>1 DEF PoolInv, TypeOK, JobsTypeOK, EndJob, Submitted

LEMMA ForgetKeeps ==
  ASSUME JobsTypeOK, NEW job \in done, done' = done \ {job}, UNCHANGED <<queue, running>>
  PROVE  JobsTypeOK' /\ Submitted' = Submitted \ {job}
BY DEF JobsTypeOK, Submitted

-----------------------------------------------------------------------------
(* Slots.                                                                  *)

LEMMA HoldersFinite == IsFiniteSet(Holders) /\ Cardinality(Holders) \in Nat
BY FS_Subset, FS_CardinalityType, DispatchAssumption DEF Holders

\* A request takes a slot or gives one back.
LEMMA HolderAdded ==
  ASSUME PoolInv, NEW r \in Requests, r \notin Holders, Holders' = Holders \cup {r},
         slots > 0, slots' = slots - 1
  PROVE  SlotsAccounted' /\ slots' \in 0..Slots
<1>1. Cardinality(Holders') = Cardinality(Holders) + 1
  BY FS_AddElement, HoldersFinite
<1>2. QED
  BY <1>1, HoldersFinite, DispatchAssumption DEF PoolInv, TypeOK, SlotsAccounted

LEMMA HolderRemoved ==
  ASSUME PoolInv, NEW r \in Holders, Holders' = Holders \ {r}, slots' = slots + 1
  PROVE  SlotsAccounted' /\ slots' \in 0..Slots
<1>1. Cardinality(Holders') = Cardinality(Holders) - 1 /\ Cardinality(Holders) > 0
  BY FS_RemoveElement, FS_EmptySet, HoldersFinite
<1>2. QED
  BY <1>1, HoldersFinite, DispatchAssumption DEF PoolInv, TypeOK, SlotsAccounted

LEMMA HoldersKept ==
  ASSUME PoolInv, Holders' = Holders, slots' = slots
  PROVE  SlotsAccounted' /\ slots' \in 0..Slots
BY DEF PoolInv, TypeOK, SlotsAccounted

-----------------------------------------------------------------------------
(* Steps.                                                                  *)

LEMMA InitHolds == Init => PoolInv
<1> SUFFICES ASSUME Init PROVE PoolInv
  OBVIOUS
<1>1. Holders = {} /\ Submitted = {} /\ Cardinality({}) = 0 /\ IsFiniteSet({})
  BY FS_EmptySet DEF Init, Holders, Submitted
<1>2. queue \in Seq(Job) /\ DOMAIN queue = {}
  BY EmptySeq DEF Init
<1>3. TypeOK
  BY <1>1, <1>2, DispatchAssumption
  DEF Init, TypeOK, JobsTypeOK, RequestStates, TaskStates
<1>4. QED
  BY <1>1, <1>3, DispatchAssumption DEF Init, PoolInv, JobsAreExpected, SlotsAccounted

LEMMA ThreadKeeps ==
  ASSUME PoolInv, TakeJob \/ \E job \in Job : EndJob(job)
  PROVE  PoolInv'
<1>1. /\ JobsTypeOK' /\ Submitted' = Submitted
      /\ UNCHANGED <<slots, request, task>>
  BY TakeJobKeeps, EndJobKeeps DEF TakeJob, EndJob
<1>2. \A o \in Tasks : task[o] = "noting" => <<"publish", o>> \notin done'
  <2>1. \A o \in Tasks : task[o] = "noting" => <<"publish", o>> \notin done
    BY DEF PoolInv, JobsAreExpected
  <2>2. CASE TakeJob
    BY <2>1, <2>2 DEF TakeJob
  <2>3. ASSUME NEW job \in Job, EndJob(job), NEW o \in Tasks, task[o] = "noting"
        PROVE  <<"publish", o>> \notin done'
    <3>1. job # <<"publish", o>>
      BY <2>3 DEF EndJob, MayEnd
    <3>2. QED
      BY <2>1, <2>3, <3>1 DEF EndJob
  <2>4. QED
    BY <2>2, <2>3
<1>3. Holders' = Holders
  BY <1>1 DEF Holders
<1>4. JobsAreExpected'
  BY <1>1, <1>2 DEF PoolInv, JobsAreExpected
<1>5. QED
  BY <1>1, <1>3, <1>4, HoldersKept DEF PoolInv, TypeOK

LEMMA RequestKeeps ==
  ASSUME PoolInv, NEW r \in Requests, RequestStep(r)
  PROVE  PoolInv'
<1> USE DEF PoolInv
<1>1. /\ request' \in [Requests -> RequestStates] /\ task' = task
      /\ \A p \in Requests \ {r} : request'[p] = request[p]
  BY DEF TypeOK, RequestStates, RequestStep, Arrive, Acquire, GiveUp, Reject, Execute,
         Disconnect, Return
<1>2. CASE Arrive(r) \/ GiveUp(r)
  <2>1. UNCHANGED <<queue, running, done>> /\ Holders' = Holders /\ slots' = slots
    BY <1>2 DEF Arrive, GiveUp, Holders, TypeOK
  <2>2. JobsTypeOK' /\ Submitted' = Submitted
    BY <2>1 DEF TypeOK, JobsTypeOK, Submitted
  <2>3. JobsAreExpected'
    BY <1>1, <1>2, <2>1, <2>2 DEF Arrive, GiveUp, JobsAreExpected, TypeOK
  <2>4. QED
    BY <1>1, <2>1, <2>2, <2>3, HoldersKept DEF TypeOK
<1>3. CASE Acquire(r)
  <2>1. /\ UNCHANGED <<queue, running, done>> /\ Holders' = Holders \cup {r}
        /\ r \notin Holders /\ slots > 0 /\ slots' = slots - 1
    BY <1>3 DEF Acquire, MayAcquire, Holders, TypeOK
  <2>2. JobsTypeOK' /\ Submitted' = Submitted
    BY <2>1 DEF TypeOK, JobsTypeOK, Submitted
  <2>3. JobsAreExpected'
    BY <1>1, <1>3, <2>1, <2>2 DEF Acquire, JobsAreExpected, TypeOK
  <2>4. QED
    BY <1>1, <2>1, <2>2, <2>3, HolderAdded DEF TypeOK
<1>4. CASE Reject(r)
  <2>1. /\ UNCHANGED <<queue, running, done>> /\ Holders' = Holders \ {r}
        /\ r \in Holders /\ slots' = slots + 1
    BY <1>4 DEF Reject, AfterFinally, FinallyReleases, Holders, TypeOK
  <2>2. JobsTypeOK' /\ Submitted' = Submitted
    BY <2>1 DEF TypeOK, JobsTypeOK, Submitted
  <2>3. JobsAreExpected'
    BY <1>1, <1>4, <2>1, <2>2 DEF Reject, JobsAreExpected, TypeOK
  <2>4. QED
    BY <1>1, <2>1, <2>2, <2>3, HolderRemoved DEF TypeOK
<1>5. CASE Execute(r)
  <2>1. /\ UNCHANGED <<running, done>> /\ Holders' = Holders /\ slots' = slots
        /\ request[r] = "admitted" /\ request'[r] = "executing" /\ Submit(<<"handler", r>>)
    BY <1>5 DEF Execute, Holders, TypeOK
  <2>2. JobsTypeOK' /\ Submitted' = Submitted \cup {<<"handler", r>>}
    BY <2>1, SubmittedMore, HandlerJobs DEF TypeOK, JobsAreExpected
  <2>3. JobsAreExpected'
    BY <1>1, <2>1, <2>2 DEF JobsAreExpected, TypeOK
  <2>4. QED
    BY <1>1, <2>1, <2>2, <2>3, HoldersKept DEF TypeOK
<1>6. CASE Disconnect(r)
  <2>1. /\ UNCHANGED <<queue, running, done>> /\ Holders' = Holders /\ slots' = slots
        /\ request[r] = "executing" /\ request'[r] = "left"
    BY <1>6 DEF Disconnect, AfterFinally, FinallyReleases, Holders, TypeOK
  <2>2. JobsTypeOK' /\ Submitted' = Submitted
    BY <2>1 DEF TypeOK, JobsTypeOK, Submitted
  <2>3. JobsAreExpected'
    BY <1>1, <2>1, <2>2 DEF JobsAreExpected, TypeOK
  <2>4. QED
    BY <1>1, <2>1, <2>2, <2>3, HoldersKept DEF TypeOK
<1>7. CASE Return(r)
  <2>1. /\ UNCHANGED <<queue, running>> /\ done' = done \ {<<"handler", r>>}
        /\ <<"handler", r>> \in done
        /\ Holders' = Holders \ {r} /\ r \in Holders /\ slots' = slots + 1
        /\ request'[r] = "idle"
    BY <1>7 DEF Return, CallbackRuns, AfterFinally, FinallyReleases, Holders, TypeOK
  <2>2. JobsTypeOK' /\ Submitted' = Submitted \ {<<"handler", r>>}
    BY <2>1, ForgetKeeps DEF TypeOK
  <2>3. JobsAreExpected'
    BY <1>1, <2>1, <2>2 DEF JobsAreExpected, TypeOK
  <2>4. QED
    BY <1>1, <2>1, <2>2, <2>3, HolderRemoved DEF TypeOK
<1>8. QED
  BY <1>2, <1>3, <1>4, <1>5, <1>6, <1>7 DEF RequestStep

LEMMA TaskKeeps ==
  ASSUME PoolInv, NEW o \in Tasks, TaskStep(o)
  PROVE  PoolInv'
<1> USE DEF PoolInv
<1>1. /\ task' \in [Tasks -> TaskStates] /\ UNCHANGED <<slots, request>>
      /\ \A p \in Tasks \ {o} : task'[p] = task[p]
  BY DEF TypeOK, TaskStates, TaskStep, Begin, Publish, SkipPublication, AskForNote,
         PublicationAnswers, StoreAnswers, AfterNote
<1>2. Holders' = Holders
  BY <1>1 DEF Holders
<1>3. SlotsAccounted' /\ slots' \in 0..Slots
  BY <1>1, <1>2, HoldersKept
<1>4. SUFFICES JobsTypeOK' /\ JobsAreExpected'
  BY <1>1, <1>3 DEF TypeOK
<1>5. CASE Begin(o) \/ SkipPublication(o)
  <2>1. /\ UNCHANGED <<running, done>> /\ task[o] \in {"idle", "generating"}
        /\ task'[o] \in {"claiming", "completing"} /\ Submit(<<"store", o>>)
    BY <1>5 DEF Begin, SkipPublication, TypeOK
  <2>2. JobsTypeOK' /\ Submitted' = Submitted \cup {<<"store", o>>}
    BY <2>1, SubmittedMore, TaskJobs DEF TypeOK, JobsAreExpected
  <2>3. QED
    BY <1>1, <2>1, <2>2 DEF JobsAreExpected
<1>6. CASE Publish(o)
  <2>1. /\ UNCHANGED <<running, done>> /\ task[o] = "generating"
        /\ task'[o] = "publishing" /\ Submit(<<"publish", o>>)
    BY <1>6 DEF Publish, TypeOK
  <2>2. JobsTypeOK' /\ Submitted' = Submitted \cup {<<"publish", o>>}
    BY <2>1, SubmittedMore, TaskJobs DEF TypeOK, JobsAreExpected
  <2>3. QED
    BY <1>1, <2>1, <2>2 DEF JobsAreExpected
<1>7. CASE AskForNote(o)
  <2>1. /\ UNCHANGED <<running, done>> /\ task[o] = "publishing"
        /\ <<"publish", o>> \in running
        /\ task'[o] = "noting" /\ Submit(<<"store", o>>)
    BY <1>7 DEF AskForNote, TypeOK
  <2>2. JobsTypeOK' /\ Submitted' = Submitted \cup {<<"store", o>>}
    BY <2>1, SubmittedMore, TaskJobs DEF TypeOK, JobsAreExpected
  <2>3. <<"publish", o>> \notin done'
    BY <2>1 DEF TypeOK, JobsTypeOK
  <2>4. QED
    BY <1>1, <2>1, <2>2, <2>3 DEF JobsAreExpected
<1>8. CASE PublicationAnswers(o)
  <2>1. /\ UNCHANGED <<running>> /\ <<"publish", o>> \in done
        /\ done' = done \ {<<"publish", o>>}
        /\ task'[o] = "completing" /\ Submit(<<"store", o>>)
    BY <1>8 DEF PublicationAnswers, TypeOK
  <2>2. task[o] \in {"publishing", "noted"}
    BY <2>1 DEF JobsAreExpected, Submitted
  <2>3. <<"store", o>> \in Job \ Submitted
    BY <2>2, TaskJobs DEF JobsAreExpected
  <2>4. JobsTypeOK' /\ Submitted' = (Submitted \cup {<<"store", o>>}) \ {<<"publish", o>>}
    BY <2>1, <2>3, SubmitKeeps DEF TypeOK
  <2>5. QED
    BY <1>1, <2>1, <2>2, <2>4 DEF JobsAreExpected
<1>9. CASE \E stored \in BOOLEAN : StoreAnswers(o, stored)
  <2>1. /\ UNCHANGED <<queue, running>> /\ <<"store", o>> \in done
        /\ done' = done \ {<<"store", o>>}
        /\ task'[o] = IF task[o] = "noting" THEN "noted"
                      ELSE IF task'[o] = "generating" THEN "generating" ELSE "idle"
    BY <1>9 DEF StoreAnswers, AfterNote, TypeOK
  <2>2. task[o] \in {"claiming", "noting", "completing"}
    BY <2>1 DEF JobsAreExpected, Submitted
  <2>3. JobsTypeOK' /\ Submitted' = Submitted \ {<<"store", o>>}
    BY <2>1, ForgetKeeps DEF TypeOK
  <2>4. QED
    BY <1>1, <2>1, <2>2, <2>3 DEF JobsAreExpected
<1>10. QED
  BY <1>5, <1>6, <1>7, <1>8, <1>9 DEF TaskStep

LEMMA NextKeeps == PoolInv /\ [Next]_vars => PoolInv'
<1> SUFFICES ASSUME PoolInv, [Next]_vars PROVE PoolInv'
  OBVIOUS
<1>1. CASE UNCHANGED vars
  <2>1. Holders' = Holders /\ Submitted' = Submitted
    BY <1>1 DEF vars, Holders, Submitted
  <2>2. QED
    BY <1>1, <2>1 DEF vars, PoolInv, TypeOK, JobsTypeOK, JobsAreExpected, SlotsAccounted
<1>2. QED
  BY <1>1, ThreadKeeps, RequestKeeps, TaskKeeps DEF Next

-----------------------------------------------------------------------------
(* Theorems.                                                               *)

LEMMA PoolInvariant == Spec => []PoolInv
BY InitHolds, NextKeeps, PTL DEF Spec

\* Jobs are never in two places of the pool, and the free slots stay within the limit.
THEOREM TypeCorrect == Spec => []TypeOK
BY PoolInvariant, PTL DEF PoolInv

\* No slot is lost and none is given back twice, for any number of requests that are
\* rejected, answered or abandoned (api.py:877-884 and 2198-2200).
THEOREM SlotsAddUp == Spec => []SlotsAccounted
BY PoolInvariant, PTL DEF PoolInv

\* MAX_CONCURRENT_HANDLERS bounds the handlers in the pool, also those whose client has
\* left (USAGE.md:340-344).
THEOREM HandlersAreBounded == Spec => []HandlersBounded
<1>1. PoolInv => HandlersBounded
  <2> SUFFICES ASSUME PoolInv PROVE HandlersBounded
    OBVIOUS
  <2> DEFINE Handlers == {r \in Requests : <<"handler", r>> \in Submitted}
  <2>1. Handlers \subseteq Holders
    BY DEF PoolInv, JobsAreExpected, Holders
  <2>2. Cardinality(Handlers) <= Cardinality(Holders) /\ Cardinality(Handlers) \in Nat
    BY <2>1, HoldersFinite, FS_Subset, FS_CardinalityType
  <2>3. QED
    BY <2>2, HoldersFinite, DispatchAssumption
    DEF PoolInv, TypeOK, SlotsAccounted, HandlersBounded
<1>2. QED
  BY <1>1, PoolInvariant, PTL
=============================================================================
