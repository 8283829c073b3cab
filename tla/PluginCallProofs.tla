--------------------------- MODULE PluginCallProofs ---------------------------
(***************************************************************************)
(* Theorems about PluginCall, for any number of concurrent calls, uses of  *)
(* the capability, replicas and retries: TLC can afford one call that uses *)
(* it once at a time.                                                      *)
(*                                                                         *)
(* UsesAreTold relates the threads of a use to what the capability has     *)
(* told the handler and to its accounts.  AccountsAreKept says who still   *)
(* answers for an instance, and for a replica that was left stopped; after *)
(* the response that is only an error that was captured before it.         *)
(* OkIsEarned relates the response, the outcome and the answer, and        *)
(* WorkerIsOver follows the process of the worker through the ways in      *)
(* which the executors end a call.                                         *)
(***************************************************************************)
EXTENDS PluginCall, TLAPS

\* The threads of use u, and what its handler and its accounts know of them.
Told(u) ==
  /\ u \in onMain => capability[u] = "working"
  /\ \A i \in Instances :
       /\ capability[u] # "working" /\ job[u][i].state \in AtWork => account[u][i] = "abandoned"
       /\ job[u][i].state \in AtWork => account[u][i] # "none"
       /\ job[u][i].state = "start" => i \in stopped[u]

UsesAreTold == \A u \in Uses : Told(u)

\* Use u has given up instance i, its failure is known, or it can still become known.
Covered(u, i) ==
  \/ account[u][i] = "abandoned"
  \/ CallOf[u] \in captured
  \/ /\ CallOf[u] \notin captureOver
     /\ worker[CallOf[u]] \in {"doomed", "gone"} \/ job[u][i].state \in AtWork

AccountsAreKept ==
  \A u \in Uses, i \in Instances :
    account[u][i] = "owed" \/ stoppedBy[i] = u => Covered(u, i)

OkIsEarned ==
  \A c \in Calls :
    /\ response[c] # "none" => c \in captureOver
    /\ response[c] = "ok" => c \notin captured
    /\ outcome[c] = "ok" => response[c] = "ok"
    /\ answer[c] = "ok" => response[c] = "ok"

Unremovable(c) == kind[c] = "container" /\ c \in unremoved

WorkerIsOver ==
  \A c \in Calls :
    /\ stage[c] = "new" => worker[c] = "none"
    /\ stage[c] = "executing" /\ kind[c] = "container" /\ client[c] = "gone"
         /\ worker[c] = "up" => c \in unremoved
    /\ stage[c] = "killing" => Leader(c) # "up"
    /\ stage[c] = "draining" /\ kind[c] = "container" /\ worker[c] = "up" => c \in unremoved
    /\ stage[c] = "over" /\ worker[c] = "up" => Unremovable(c)

CallInv == TypeOK /\ UsesAreTold /\ AccountsAreKept /\ OkIsEarned /\ WorkerIsOver

-----------------------------------------------------------------------------
(* The capability.                                                         *)

\* A step of use u leaves the other uses alone, but for the replicas, and records errors
\* for its own call only, and only while they are captured.
Own(u) ==
  /\ \A v \in Uses \ {u} :
       /\ capability'[v] = capability[v] /\ job'[v] = job[v] /\ stopped'[v] = stopped[v]
       /\ account'[v] = account[v] /\ (v \in onMain' <=> v \in onMain)
  /\ captureOver' = captureOver
  /\ captured \subseteq captured'
  /\ \A c \in Calls :
       c \in captured' /\ c \notin captured => c = CallOf[u] /\ c \notin captureOver
  /\ \A i \in Instances : stoppedBy'[i] \in {stoppedBy[i], u, NoUse}

\* What use u owes or has stopped is given up, reported, or can still be reported.
Reported(u) ==
  \A i \in Instances :
    account[u][i] = "owed" \/ stoppedBy[i] = u =>
      \/ account[u][i] = "abandoned"
      \/ CallOf[u] \in captured
      \/ CallOf[u] \notin captureOver /\ job[u][i].state \in AtWork

LEMMA JobTypes ==
  /\ NoJob \in Job
  /\ \A state \in JobState, left \in 0..Retries : [state |-> state, left |-> left] \in Job
BY ReplicationAssumption DEF NoJob, Job, JobState

\* The job of one thread of use u goes to one of some states.
JobMoves(u, i, states) ==
  /\ job' \in [Uses -> [Instances -> Job]]
  /\ \A v \in Uses \ {u} : job'[v] = job[v]
  /\ \A k \in Instances \ {i} : job'[u][k] = job[u][k]
  /\ job'[u][i].state \in states

\* An error may have been recorded.
MayRecord(u) == captured' \in {captured, Recorded(u)}

\* The error of a thread has been recorded, unless the worker records no more.
IsRecorded(u) == CallOf[u] \in captureOver \/ CallOf[u] \in captured'

LEMMA RecordedTypes ==
  ASSUME CapabilityTypeOK, NEW u \in Uses
  PROVE  /\ Recorded(u) \subseteq Calls /\ captured \subseteq Recorded(u)
         /\ \A c \in Recorded(u) : c \in captured \/ (c = CallOf[u] /\ c \notin captureOver)
         /\ CallOf[u] \in captureOver \/ CallOf[u] \in Recorded(u)
BY ReplicationAssumption DEF CapabilityTypeOK, Recorded

LEMMA SetJobMoves ==
  ASSUME CapabilityTypeOK, NEW u \in Uses, NEW i \in Instances,
         NEW state \in JobState, NEW left \in 0..Retries, SetJob(u, i, state, left)
  PROVE  JobMoves(u, i, {state})
BY JobTypes DEF CapabilityTypeOK, SetJob, JobMoves

LEMMA AttemptFailsMoves ==
  ASSUME CapabilityTypeOK, NEW u \in Uses, NEW i \in Instances, AttemptFails(u, i)
  PROVE  /\ MayRecord(u)
         /\ \/ JobMoves(u, i, {"connect"})
            \/ JobMoves(u, i, {"failed"}) /\ IsRecorded(u)
<1> DEFINE left == job[u][i].left
<1>1. left \in 0..Retries /\ 0 \in 0..Retries /\ "connect" \in JobState /\ "failed" \in JobState
  BY ReplicationAssumption DEF CapabilityTypeOK, Job, JobState, AtWork, Step
<1>2. CASE MayRetry(left)
  <2>1. left - 1 \in 0..Retries
    BY <1>1, <1>2, ReplicationAssumption DEF MayRetry
  <2>2. SetJob(u, i, "connect", left - 1) /\ captured' = captured
    BY <1>2 DEF AttemptFails
  <2>3. JobMoves(u, i, {"connect"})
    BY <1>1, <2>1, <2>2, SetJobMoves
  <2>4. QED
    BY <2>2, <2>3 DEF MayRecord
<1>3. CASE ~MayRetry(left)
  <2>1. SetJob(u, i, "failed", 0) /\ captured' = Recorded(u)
    BY <1>3 DEF AttemptFails
  <2>2. JobMoves(u, i, {"failed"})
    BY <1>1, <2>1, SetJobMoves
  <2>3. QED
    BY <2>1, <2>2, RecordedTypes DEF MayRecord, IsRecorded
<1>4. QED
  BY <1>2, <1>3

\* What the steps of a use have in common.
UseKeeps(u) == CapabilityTypeOK' /\ Own(u) /\ Told(u)' /\ Reported(u)'

\* A thread that is at work and stays so, or fails.  What it has at the replica is as the
\* caller says; its account stays.
LEMMA WorkKeeps ==
  ASSUME CapabilityTypeOK, NEW u \in Uses, NEW i \in Instances, Told(u), Reported(u),
         job[u][i].state \in AtWork,
         MayRecord(u),
         \/ JobMoves(u, i, {"connect", "stop"})
         \/ JobMoves(u, i, {"start"}) /\ i \in stopped'[u]
         \/ JobMoves(u, i, {"failed"}) /\ IsRecorded(u),
         stopped' \in [Uses -> SUBSET Instances],
         \A v \in Uses \ {u} : stopped'[v] = stopped[v],
         \A k \in Instances \ {i} : k \in stopped[u] => k \in stopped'[u],
         stoppedBy' \in [Instances -> Uses \cup {NoUse}],
         \A k \in Instances \ {i} : stoppedBy'[k] = stoppedBy[k],
         stoppedBy'[i] \in {stoppedBy[i], u, NoUse},
         UNCHANGED <<capability, onMain, captureOver, account>>
  PROVE  UseKeeps(u)
<1>1. captured' \subseteq Calls /\ captured \subseteq captured'
      /\ \A c \in captured' : c \in captured \/ (c = CallOf[u] /\ c \notin captureOver)
  BY RecordedTypes DEF MayRecord, CapabilityTypeOK
<1>2. CapabilityTypeOK'
  BY <1>1 DEF CapabilityTypeOK, JobMoves
<1>3. Own(u)
  BY <1>1 DEF Own, JobMoves
<1>4. Told(u)'
  BY DEF Told, JobMoves, AtWork, Step
<1>5. Reported(u)'
  <2> SUFFICES ASSUME NEW k \in Instances, account[u][k] = "owed" \/ stoppedBy'[k] = u
               PROVE  \/ account[u][k] = "abandoned"
                      \/ CallOf[u] \in captured'
                      \/ CallOf[u] \notin captureOver /\ job'[u][k].state \in AtWork
    BY DEF Reported
  <2>1. CASE k # i
    BY <1>1, <2>1 DEF Reported, JobMoves
  <2>2. CASE k = i
    <3>1. account[u][i] \in {"owed", "abandoned"}
      BY DEF Told, CapabilityTypeOK, Account
    <3>2. account[u][i] = "owed" => CallOf[u] \in captured \/ CallOf[u] \notin captureOver
      BY DEF Reported
    <3>3. job'[u][i].state \in AtWork \/ IsRecorded(u)
      BY DEF JobMoves, AtWork, Step
    <3>4. QED
      BY <1>1, <2>2, <3>1, <3>2, <3>3 DEF IsRecorded
  <2>3. QED
    BY <2>1, <2>2
<1>6. QED
  BY <1>2, <1>3, <1>4, <1>5 DEF UseKeeps

LEMMA ThreadStepKeeps ==
  ASSUME CapabilityTypeOK, NEW u \in Uses, NEW i \in Instances, Told(u), Reported(u),
         \/ \E configured \in BOOLEAN : TakeInstance(u, i, configured)
         \/ \E answered \in BOOLEAN : Connect(u, i, answered)
         \/ \E executed, answered \in BOOLEAN : StopReplica(u, i, executed, answered)
  PROVE  UseKeeps(u)
<1> DEFINE left == job[u][i].left
<1>1. /\ \A state \in {"connect", "stop", "start", "failed"} : state \in JobState
      /\ 0 \in 0..Retries /\ left \in 0..Retries
  BY ReplicationAssumption DEF CapabilityTypeOK, JobState, AtWork, Step, Job
<1>2. ASSUME NEW configured \in BOOLEAN, TakeInstance(u, i, configured)
      PROVE  UseKeeps(u)
  <2>1. /\ job[u][i].state \in AtWork
        /\ UNCHANGED <<capability, onMain, captureOver, stoppedBy, stopped, account>>
    BY <1>2 DEF TakeInstance, AtWork
  <2>2. /\ MayRecord(u)
        /\ JobMoves(u, i, {"connect"}) \/ (JobMoves(u, i, {"failed"}) /\ IsRecorded(u))
    <3>1. CASE configured
      <4>1. SetJob(u, i, "connect", left) /\ captured' = captured
        BY <1>2, <3>1 DEF TakeInstance
      <4>2. QED
        BY <1>1, <4>1, SetJobMoves DEF MayRecord
    <3>2. CASE ~configured
      <4>1. SetJob(u, i, "failed", 0) /\ captured' = Recorded(u)
        BY <1>2, <3>2 DEF TakeInstance
      <4>2. JobMoves(u, i, {"failed"})
        BY <1>1, <4>1, SetJobMoves
      <4>3. QED
        BY <4>1, <4>2, RecordedTypes DEF MayRecord, IsRecorded
    <3>3. QED
      BY <3>1, <3>2
  <2>3. JobMoves(u, i, {"connect", "stop"}) \/ (JobMoves(u, i, {"failed"}) /\ IsRecorded(u))
    BY <2>2 DEF JobMoves
  <2>4. QED
    BY <2>1, <2>2, <2>3, WorkKeeps DEF CapabilityTypeOK
<1>3. ASSUME NEW answered \in BOOLEAN, Connect(u, i, answered)
      PROVE  UseKeeps(u)
  <2>1. /\ job[u][i].state \in AtWork /\ stopped' = [stopped EXCEPT ![u] = @ \ {i}]
        /\ UNCHANGED <<capability, onMain, captureOver, stoppedBy, account>>
    BY <1>3 DEF Connect, AtWork, Step
  <2>2. /\ MayRecord(u)
        /\ \/ JobMoves(u, i, {"connect", "stop"})
           \/ JobMoves(u, i, {"failed"}) /\ IsRecorded(u)
    <3>1. CASE answered
      <4>1. SetJob(u, i, "stop", left) /\ captured' = captured
        BY <1>3, <3>1 DEF Connect
      <4>2. JobMoves(u, i, {"stop"})
        BY <1>1, <4>1, SetJobMoves
      <4>3. QED
        BY <4>1, <4>2 DEF JobMoves, MayRecord
    <3>2. CASE ~answered
      <4>1. AttemptFails(u, i)
        BY <1>3, <3>2 DEF Connect
      <4>2. QED
        BY <4>1, AttemptFailsMoves DEF JobMoves
    <3>3. QED
      BY <3>1, <3>2
  <2>3. /\ stopped' \in [Uses -> SUBSET Instances]
        /\ \A v \in Uses \ {u} : stopped'[v] = stopped[v]
        /\ \A k \in Instances \ {i} : k \in stopped[u] => k \in stopped'[u]
    BY <2>1 DEF CapabilityTypeOK
  <2>4. stoppedBy' \in [Instances -> Uses \cup {NoUse}]
    BY <2>1 DEF CapabilityTypeOK
  <2>5. QED
    BY <2>1, <2>2, <2>3, <2>4, WorkKeeps
<1>4. ASSUME NEW executed \in BOOLEAN, NEW answered \in BOOLEAN,
             StopReplica(u, i, executed, answered)
      PROVE  UseKeeps(u)
  <2>1. /\ job[u][i].state \in AtWork /\ (answered => executed)
        /\ stoppedBy' = IF executed THEN [stoppedBy EXCEPT ![i] = u] ELSE stoppedBy
        /\ stopped' = IF executed THEN [stopped EXCEPT ![u] = @ \cup {i}] ELSE stopped
        /\ UNCHANGED <<capability, onMain, captureOver, account>>
    BY <1>4 DEF StopReplica, AtWork, Step
  <2>2. /\ stopped' \in [Uses -> SUBSET Instances]
        /\ \A v \in Uses \ {u} : stopped'[v] = stopped[v]
        /\ \A k \in Instances \ {i} : k \in stopped[u] => k \in stopped'[u]
        /\ answered => i \in stopped'[u]
    BY <2>1 DEF CapabilityTypeOK
  <2>3. /\ stoppedBy' \in [Instances -> Uses \cup {NoUse}]
        /\ \A k \in Instances \ {i} : stoppedBy'[k] = stoppedBy[k]
        /\ stoppedBy'[i] \in {stoppedBy[i], u, NoUse}
    BY <2>1 DEF CapabilityTypeOK
  <2>4. /\ MayRecord(u)
        /\ \/ JobMoves(u, i, {"connect", "stop"})
           \/ JobMoves(u, i, {"start"}) /\ i \in stopped'[u]
           \/ JobMoves(u, i, {"failed"}) /\ IsRecorded(u)
    <3>1. CASE answered
      <4>1. SetJob(u, i, "start", left) /\ captured' = captured
        BY <1>4, <3>1 DEF StopReplica
      <4>2. JobMoves(u, i, {"start"})
        BY <1>1, <4>1, SetJobMoves
      <4>3. QED
        BY <2>2, <3>1, <4>1, <4>2 DEF MayRecord
    <3>2. CASE ~answered
      <4>1. AttemptFails(u, i)
        BY <1>4, <3>2 DEF StopReplica
      <4>2. QED
        BY <4>1, AttemptFailsMoves DEF JobMoves
    <3>3. QED
      BY <3>1, <3>2
  <2>5. QED
    BY <2>1, <2>2, <2>3, <2>4, WorkKeeps
<1>5. QED
  BY <1>2, <1>3, <1>4

LEMMA StartReplicaKeeps ==
  ASSUME CapabilityTypeOK, NEW u \in Uses, NEW i \in Instances, Told(u), Reported(u),
         NEW executed \in BOOLEAN, NEW answered \in BOOLEAN,
         StartReplica(u, i, executed, answered)
  PROVE  UseKeeps(u)
<1>1. /\ job[u][i].state = "start" /\ (answered => executed)
      /\ stoppedBy' = IF executed THEN [stoppedBy EXCEPT ![i] = NoUse] ELSE stoppedBy
      /\ UNCHANGED <<capability, onMain, captureOver, stopped>>
  BY DEF StartReplica
<1>2. i \in stopped[u]
  BY <1>1 DEF Told
<1>3. /\ stoppedBy' \in [Instances -> Uses \cup {NoUse}]
      /\ \A k \in Instances \ {i} : stoppedBy'[k] = stoppedBy[k]
      /\ stoppedBy'[i] \in {stoppedBy[i], u, NoUse}
      /\ executed => stoppedBy'[i] # u
  BY <1>1, ReplicationAssumption DEF CapabilityTypeOK
<1>4. CASE answered
  <2>1. /\ SetJob(u, i, "done", 0) /\ captured' = captured
        /\ account' = [account EXCEPT ![u][i] = "none"]
    BY <1>2, <1>4 DEF StartReplica
  <2>2. JobMoves(u, i, {"done"})
    <3>1. "done" \in JobState /\ 0 \in 0..Retries
      BY ReplicationAssumption DEF JobState
    <3>2. QED
      BY <2>1, <3>1, SetJobMoves
  <2>3. /\ account' \in [Uses -> [Instances -> Account]] /\ account'[u][i] = "none"
        /\ \A v \in Uses \ {u} : account'[v] = account[v]
        /\ \A k \in Instances \ {i} : account'[u][k] = account[u][k]
    BY <2>1 DEF CapabilityTypeOK, Account
  <2>4. CapabilityTypeOK' /\ Own(u)
    BY <1>1, <1>3, <2>1, <2>2, <2>3 DEF CapabilityTypeOK, Own, JobMoves
  <2>5. Told(u)'
    BY <1>1, <2>2, <2>3 DEF Told, JobMoves, AtWork, Step
  <2>6. Reported(u)'
    BY <1>1, <1>3, <1>4, <2>1, <2>2, <2>3 DEF Reported, JobMoves
  <2>7. QED
    BY <2>4, <2>5, <2>6 DEF UseKeeps
<1>5. CASE ~answered
  <2>1. AttemptFails(u, i) /\ account' = account
    BY <1>5 DEF StartReplica
  <2>2. /\ MayRecord(u)
        /\ \/ JobMoves(u, i, {"connect", "stop"})
           \/ JobMoves(u, i, {"failed"}) /\ IsRecorded(u)
    BY <2>1, AttemptFailsMoves DEF JobMoves
  <2>3. job[u][i].state \in AtWork /\ stopped' \in [Uses -> SUBSET Instances]
    BY <1>1 DEF AtWork, Step, CapabilityTypeOK
  <2>4. QED
    BY <1>1, <1>3, <2>1, <2>2, <2>3, WorkKeeps
<1>6. QED
  BY <1>4, <1>5

LEMMA EscapeKeeps ==
  ASSUME CapabilityTypeOK, NEW u \in Uses, NEW i \in Instances, Told(u), Reported(u),
         Escape(u, i)
  PROVE  UseKeeps(u)
<1>1. /\ SetJob(u, i, "escaped", 0) /\ account' = [account EXCEPT ![u][i] = "abandoned"]
      /\ UNCHANGED <<capability, onMain, captured, captureOver, stoppedBy, stopped>>
  BY DEF Escape
<1>2. JobMoves(u, i, {"escaped"})
  <2>1. "escaped" \in JobState /\ 0 \in 0..Retries
    BY ReplicationAssumption DEF JobState
  <2>2. QED
    BY <1>1, <2>1, SetJobMoves
<1>3. /\ account' \in [Uses -> [Instances -> Account]] /\ account'[u][i] = "abandoned"
      /\ \A v \in Uses \ {u} : account'[v] = account[v]
      /\ \A k \in Instances \ {i} : account'[u][k] = account[u][k]
  BY <1>1 DEF CapabilityTypeOK, Account
<1>4. CapabilityTypeOK' /\ Own(u)
  BY <1>1, <1>2, <1>3 DEF CapabilityTypeOK, Own, JobMoves
<1>5. Told(u)' /\ Reported(u)'
  BY <1>1, <1>2, <1>3 DEF Told, Reported, JobMoves, AtWork, Step
<1>6. QED
  BY <1>4, <1>5 DEF UseKeeps

LEMMA MessageStepKeeps ==
  ASSUME CapabilityTypeOK, NEW u \in Uses, Told(u), Reported(u),
         \/ RefuseRetries(u) \/ RejectMessage(u)
         \/ \E unexpected \in BOOLEAN : FinishUse(u, unexpected)
  PROVE  UseKeeps(u)
<1>1. /\ capability' = [capability EXCEPT ![u] = capability'[u]]
      /\ capability'[u] \in {"returned", "raised"}
      /\ onMain' \in {onMain, onMain \ {u}} /\ u \notin onMain'
      /\ UnderWay(u) = {} /\ MayRecord(u)
      /\ UNCHANGED <<job, captureOver, stoppedBy, stopped, account>>
  BY DEF RefuseRetries, RejectMessage, FinishUse, Callable, BatchOver, MayRecord,
         CapabilityTypeOK, Told
<1>2. captured' \subseteq Calls /\ captured \subseteq captured'
      /\ \A c \in captured' : c \in captured \/ (c = CallOf[u] /\ c \notin captureOver)
  BY <1>1, RecordedTypes DEF MayRecord, CapabilityTypeOK
<1>3. CapabilityTypeOK' /\ Own(u)
  BY <1>1, <1>2 DEF CapabilityTypeOK, Own
<1>4. Told(u)' /\ Reported(u)'
  BY <1>1, <1>2 DEF Told, Reported, UnderWay
<1>5. QED
  BY <1>3, <1>4 DEF UseKeeps

LEMMA AcceptMessageKeeps ==
  ASSUME CapabilityTypeOK, NEW u \in Uses, Told(u), Reported(u),
         NEW instances \in SUBSET Instances, NEW retries \in 0..Retries,
         NEW main \in BOOLEAN, AcceptMessage(u, instances, retries, main)
  PROVE  UseKeeps(u)
<1> DEFINE Queued(i) ==
             IF i \in instances THEN [state |-> "queued", left |-> retries] ELSE NoJob
           Owed(i) == IF i \notin instances THEN account[u][i]
                      ELSE IF CallOf[u] \in captureOver THEN "abandoned" ELSE "owed"
<1>1. /\ capability[u] # "working" /\ UnderWay(u) = {}
      /\ capability' = [capability EXCEPT ![u] =
                          IF instances = {} THEN "returned" ELSE "working"]
      /\ onMain' = IF main /\ instances # {} THEN onMain \cup {u} ELSE onMain
      /\ job' = [job EXCEPT ![u] = [i \in Instances |-> Queued(i)]]
      /\ account' = [account EXCEPT ![u] = [i \in Instances |-> Owed(i)]]
      /\ UNCHANGED <<captured, captureOver, stoppedBy, stopped>>
  BY DEF AcceptMessage, Callable
<1>2. /\ job' \in [Uses -> [Instances -> Job]]
      /\ \A v \in Uses \ {u} : job'[v] = job[v]
      /\ \A i \in Instances : job'[u][i].state = IF i \in instances THEN "queued" ELSE "none"
  <2>1. \A i \in Instances : Queued(i) \in Job
    BY JobTypes DEF JobState, AtWork
  <2>2. QED
    BY <1>1, <2>1 DEF NoJob, CapabilityTypeOK
<1>3. /\ account' \in [Uses -> [Instances -> Account]]
      /\ \A v \in Uses \ {u} : account'[v] = account[v]
      /\ \A i \in Instances : account'[u][i] = Owed(i)
  <2>1. \A i \in Instances : Owed(i) \in Account
    BY DEF CapabilityTypeOK, Account
  <2>2. QED
    BY <1>1, <2>1 DEF CapabilityTypeOK
<1> HIDE DEF Queued
<1>4. CapabilityTypeOK' /\ Own(u)
  BY <1>1, <1>2, <1>3 DEF CapabilityTypeOK, Own
<1>5. \A i \in Instances : job[u][i].state \notin AtWork
  BY <1>1 DEF UnderWay
<1>6. Told(u)'
  <2>1. u \in onMain' => capability'[u] = "working"
    BY <1>1 DEF Told, CapabilityTypeOK
  <2>2. \A i \in Instances : job'[u][i].state \in AtWork =>
          account'[u][i] # "none" /\ capability'[u] = "working"
    BY <1>1, <1>2, <1>3 DEF CapabilityTypeOK, AtWork, Step
  <2>3. \A i \in Instances : job'[u][i].state # "start"
    BY <1>2
  <2>4. QED
    BY <2>1, <2>2, <2>3 DEF Told
<1>7. Reported(u)'
  BY <1>1, <1>2, <1>3, <1>5 DEF Reported, AtWork, Step
<1>8. QED
  BY <1>4, <1>6, <1>7 DEF UseKeeps

LEMMA AbandonTypes ==
  ASSUME CapabilityTypeOK, NEW u \in Uses
  PROVE  /\ Abandon(u) \in [Instances -> Account]
         /\ \A i \in Instances :
              Abandon(u)[i] = IF job[u][i].state \in AtWork THEN "abandoned" ELSE account[u][i]
BY DEF CapabilityTypeOK, Abandon, UnderWay, Account

LEMMA InterruptKeeps ==
  ASSUME CapabilityTypeOK, NEW u \in Uses, Told(u), Reported(u), Interrupt(u)
  PROVE  UseKeeps(u)
<1>1. /\ capability' = [capability EXCEPT ![u] = "raised"] /\ onMain' = onMain \ {u}
      /\ account' = [account EXCEPT ![u] = Abandon(u)]
      /\ UNCHANGED <<job, captured, captureOver, stoppedBy, stopped>>
  BY DEF Interrupt
<1>2. /\ account' \in [Uses -> [Instances -> Account]]
      /\ \A v \in Uses \ {u} : account'[v] = account[v]
      /\ \A i \in Instances :
           account'[u][i] = IF job[u][i].state \in AtWork THEN "abandoned" ELSE account[u][i]
  BY <1>1, AbandonTypes DEF CapabilityTypeOK
<1>3. CapabilityTypeOK' /\ Own(u)
  BY <1>1, <1>2 DEF CapabilityTypeOK, Own
<1>4. Told(u)' /\ Reported(u)'
  BY <1>1, <1>2 DEF Told, Reported
<1>5. QED
  BY <1>3, <1>4 DEF UseKeeps

LEMMA CapabilityStepKeeps ==
  ASSUME CapabilityTypeOK, NEW u \in Uses, Told(u), Reported(u), CapabilityStep(u)
  PROVE  CapabilityTypeOK' /\ Own(u) /\ Told(u)' /\ Reported(u)'
BY ThreadStepKeeps, StartReplicaKeeps, EscapeKeeps, MessageStepKeeps, AcceptMessageKeeps,
   InterruptKeeps DEF CapabilityStep, UseKeeps

LEMMA EndThreadsKeeps ==
  ASSUME CapabilityTypeOK, NEW c \in Calls, EndThreads(c)
  PROVE  /\ CapabilityTypeOK'
         /\ \A u \in Uses : CallOf[u] # c => job'[u] = job[u] /\ stopped'[u] = stopped[u]
         /\ \A u \in Uses, i \in Instances : CallOf[u] = c => job'[u][i].state = "none"
BY JobTypes DEF CapabilityTypeOK, EndThreads, NoJob

LEMMA LeaveCaptureKeeps ==
  ASSUME CapabilityTypeOK, NEW c \in Calls, LeaveCapture(c)
  PROVE  /\ CapabilityTypeOK' /\ captureOver' = captureOver \cup {c}
         /\ \A u \in Uses : CallOf[u] # c => account'[u] = account[u]
         /\ \A u \in Uses, i \in Instances :
              CallOf[u] = c =>
                account'[u][i] =
                  IF job[u][i].state \in AtWork THEN "abandoned" ELSE account[u][i]
         /\ UNCHANGED <<capability, onMain, job, captured, stoppedBy, stopped>>
<1>1. /\ account' \in [Uses -> [Instances -> Account]]
      /\ \A u \in Uses : account'[u] = IF CallOf[u] = c THEN Abandon(u) ELSE account[u]
  BY AbandonTypes DEF LeaveCapture, CapabilityTypeOK
<1>2. QED
  BY <1>1, AbandonTypes DEF LeaveCapture, CapabilityTypeOK

-----------------------------------------------------------------------------
(* Steps.                                                                  *)

LEMMA UseCapabilityKeeps ==
  ASSUME CallInv, NEW c \in Calls, UseCapability(c)
  PROVE  CallInv'
<1>1. PICK u \in Uses : CallOf[u] = c /\ CapabilityStep(u)
  BY DEF UseCapability
<1>2. /\ worker[c] = "up"
      /\ UNCHANGED <<kind, stage, outcome, answer, client, worker, child, response, unremoved>>
  BY DEF UseCapability, executorVars
<1>3. CapabilityTypeOK /\ Told(u)
  BY DEF CallInv, TypeOK, UsesAreTold
<1>4. Reported(u)
  BY <1>1, <1>2 DEF CallInv, AccountsAreKept, Covered, Reported
<1>5. CapabilityTypeOK' /\ Own(u) /\ Told(u)' /\ Reported(u)'
  BY <1>1, <1>3, <1>4, CapabilityStepKeeps
<1>6. TypeOK'
  BY <1>2, <1>5 DEF CallInv, TypeOK
<1>7. UsesAreTold'
  <2> SUFFICES ASSUME NEW v \in Uses, v # u PROVE Told(v)'
    BY <1>5 DEF UsesAreTold
  <2>1. Told(v)
    BY DEF CallInv, UsesAreTold
  <2>2. QED
    BY <1>5, <2>1 DEF Told, Own
<1>8. AccountsAreKept'
  <2> SUFFICES ASSUME NEW v \in Uses, NEW i \in Instances,
                      account'[v][i] = "owed" \/ stoppedBy'[i] = v
               PROVE  Covered(v, i)'
    BY DEF AccountsAreKept
  <2>1. CASE v = u
    BY <1>5, <2>1 DEF Reported, Covered
  <2>2. CASE v # u
    <3>1. account[v][i] = "owed" \/ stoppedBy[i] = v
      BY <1>5, <2>2, ReplicationAssumption DEF Own
    <3>2. QED
      BY <1>2, <1>5, <2>2, <3>1 DEF CallInv, AccountsAreKept, Covered, Own
  <2>3. QED
    BY <2>1, <2>2
<1>9. OkIsEarned'
  BY <1>2, <1>5 DEF CallInv, OkIsEarned, Own
<1>10. WorkerIsOver'
  BY <1>2 DEF CallInv, WorkerIsOver, Leader, Unremovable
<1>11. QED
  BY <1>6, <1>7, <1>8, <1>9, <1>10 DEF CallInv

LEMMA RespondKeeps ==
  ASSUME CallInv, NEW c \in Calls, NEW returned \in BOOLEAN, Respond(c, returned)
  PROVE  CallInv'
<1>1. /\ worker[c] = "up" /\ response[c] = "none" /\ LeaveCapture(c)
      /\ response' = [response EXCEPT ![c] = ResponseTo(c, returned)]
      /\ UNCHANGED <<kind, stage, outcome, answer, client, worker, child, unremoved>>
  BY DEF Respond
<1>2. /\ ResponseTo(c, returned) \in {"ok", "capability_error", "error"}
      /\ ResponseTo(c, returned) = "ok" => c \notin captured
  BY DEF ResponseTo
<1>3. /\ CapabilityTypeOK' /\ captureOver' = captureOver \cup {c}
      /\ \A u \in Uses : CallOf[u] # c => account'[u] = account[u]
      /\ \A u \in Uses, i \in Instances :
           CallOf[u] = c =>
             account'[u][i] = IF job[u][i].state \in AtWork THEN "abandoned" ELSE account[u][i]
      /\ UNCHANGED <<capability, onMain, job, captured, stoppedBy, stopped>>
  BY <1>1, LeaveCaptureKeeps DEF CallInv, TypeOK
<1>4. TypeOK'
  BY <1>1, <1>2, <1>3 DEF CallInv, TypeOK, Response
<1>5. UsesAreTold'
  <2> SUFFICES ASSUME NEW u \in Uses PROVE Told(u)'
    BY DEF UsesAreTold
  <2>1. Told(u)
    BY DEF CallInv, UsesAreTold
  <2>2. QED
    BY <1>3, <2>1 DEF Told
<1>6. AccountsAreKept'
  <2> SUFFICES ASSUME NEW u \in Uses, NEW i \in Instances,
                      account'[u][i] = "owed" \/ stoppedBy[i] = u
               PROVE  Covered(u, i)'
    BY <1>3 DEF AccountsAreKept
  <2>1. account[u][i] = "owed" \/ stoppedBy[i] = u
    BY <1>3
  <2>2. Covered(u, i)
    BY <2>1 DEF CallInv, AccountsAreKept
  <2>3. CASE CallOf[u] = c
    BY <1>1, <1>3, <2>2, <2>3 DEF Covered
  <2>4. CASE CallOf[u] # c
    BY <1>1, <1>3, <2>2, <2>4 DEF Covered
  <2>5. QED
    BY <2>3, <2>4
<1>7. OkIsEarned'
  <2>1. response'[c] = ResponseTo(c, returned) /\ \A d \in Calls : d # c => response'[d] = response[d]
    BY <1>1 DEF CallInv, TypeOK
  <2>2. QED
    BY <1>1, <1>2, <1>3, <2>1 DEF CallInv, OkIsEarned
<1>8. WorkerIsOver'
  BY <1>1 DEF CallInv, WorkerIsOver, Leader, Unremovable
<1>9. QED
  BY <1>4, <1>5, <1>6, <1>7, <1>8 DEF CallInv

\* The worker ends, and its threads with it.
LEMMA WorkerGoneKeeps ==
  ASSUME CallInv, NEW c \in Calls, EndThreads(c), worker' = [worker EXCEPT ![c] = "gone"]
  PROVE  CapabilityTypeOK' /\ UsesAreTold' /\ AccountsAreKept'
<1>1. /\ CapabilityTypeOK'
      /\ \A u \in Uses : CallOf[u] # c => job'[u] = job[u] /\ stopped'[u] = stopped[u]
      /\ \A u \in Uses, i \in Instances : CallOf[u] = c => job'[u][i].state = "none"
  BY EndThreadsKeeps DEF CallInv, TypeOK
<1>2. UNCHANGED <<capability, onMain, captured, captureOver, stoppedBy, account>>
  BY DEF EndThreads
<1>3. UsesAreTold'
  <2> SUFFICES ASSUME NEW u \in Uses PROVE Told(u)'
    BY DEF UsesAreTold
  <2>1. Told(u)
    BY DEF CallInv, UsesAreTold
  <2>2. QED
    BY <1>1, <1>2, <2>1 DEF Told, AtWork, Step
<1>4. AccountsAreKept'
  <2>1. worker'[c] = "gone" /\ \A d \in Calls : d # c => worker'[d] = worker[d]
    BY DEF CallInv, TypeOK
  <2>2. \A u \in Uses : CallOf[u] \in Calls
    BY ReplicationAssumption
  <2>3. QED
    BY <1>1, <1>2, <2>1, <2>2 DEF CallInv, AccountsAreKept, Covered
<1>5. QED
  BY <1>1, <1>3, <1>4

LEMMA WorkerExitsKeeps ==
  ASSUME CallInv, NEW c \in Calls, WorkerExits(c)
  PROVE  CallInv'
<1>1. /\ worker' = [worker EXCEPT ![c] = "gone"] /\ EndThreads(c)
      /\ worker[c] \in {"up", "doomed"}
      /\ UNCHANGED <<kind, stage, outcome, answer, client, child, response, unremoved>>
  BY DEF WorkerExits
<1>2. CapabilityTypeOK' /\ UsesAreTold' /\ AccountsAreKept'
  BY <1>1, WorkerGoneKeeps
<1>3. TypeOK'
  BY <1>1, <1>2 DEF CallInv, TypeOK, Process
<1>4. OkIsEarned'
  BY <1>1 DEF CallInv, OkIsEarned, EndThreads
<1>5. WorkerIsOver'
  BY <1>1 DEF CallInv, WorkerIsOver, Leader, Unremovable, TypeOK
<1>6. QED
  BY <1>2, <1>3, <1>4, <1>5 DEF CallInv

\* Steps that leave the worker's side alone.
LEMMA QuietKeeps ==
  ASSUME CallInv, UNCHANGED <<capabilityVars, kind, response>>,
         \A c \in Calls : worker[c] \in {"doomed", "gone"} => worker'[c] \in {"doomed", "gone"}
  PROVE  CapabilityTypeOK' /\ UsesAreTold' /\ AccountsAreKept'
<1>1. UNCHANGED <<capability, onMain, job, captured, captureOver, stoppedBy, stopped, account>>
  BY DEF capabilityVars
<1>2. CapabilityTypeOK' /\ UsesAreTold'
  BY <1>1 DEF CallInv, TypeOK, CapabilityTypeOK, UsesAreTold, Told
<1>3. AccountsAreKept'
  BY <1>1, ReplicationAssumption DEF CallInv, AccountsAreKept, Covered
<1>4. QED
  BY <1>2, <1>3

LEMMA ProcessKeeps ==
  ASSUME CallInv, NEW c \in Calls, LeavesChild(c) \/ ChildExits(c) \/ ClientExits(c)
  PROVE  CallInv'
<1>1. /\ UNCHANGED <<capabilityVars, kind, stage, outcome, answer, worker, response>>
      /\ unremoved \subseteq unremoved'
  BY DEF LeavesChild, ChildExits, ClientExits
<1>2. CapabilityTypeOK' /\ UsesAreTold' /\ AccountsAreKept'
  BY <1>1, QuietKeeps
<1>3. TypeOK'
  BY <1>1, <1>2 DEF CallInv, TypeOK, LeavesChild, ChildExits, ClientExits, Process
<1>4. OkIsEarned'
  BY <1>1 DEF CallInv, OkIsEarned, capabilityVars
<1>5. CASE LeavesChild(c) \/ ChildExits(c)
  <2>1. UNCHANGED <<client, unremoved>>
    BY <1>5 DEF LeavesChild, ChildExits
  <2>2. WorkerIsOver'
    BY <1>1, <2>1 DEF CallInv, WorkerIsOver, Leader, Unremovable
  <2>3. QED
    BY <1>2, <1>3, <1>4, <2>2 DEF CallInv
<1>6. CASE ClientExits(c)
  <2>1. /\ client' = [client EXCEPT ![c] = "gone"]
        /\ worker[c] = "up" /\ stage[c] = "executing" => c \in unremoved'
    BY <1>6 DEF ClientExits
  <2>2. WorkerIsOver'
    BY <1>1, <2>1 DEF CallInv, WorkerIsOver, Leader, Unremovable, TypeOK
  <2>3. QED
    BY <1>2, <1>3, <1>4, <2>2 DEF CallInv
<1>7. QED
  BY <1>5, <1>6

LEMMA BeginKeeps ==
  ASSUME CallInv, NEW c \in Calls, Begin(c)
  PROVE  CallInv'
<1>1. /\ stage[c] = "new" /\ stage' = [stage EXCEPT ![c] = "executing"]
      /\ worker' = [worker EXCEPT ![c] = "up"]
      /\ client' = [client EXCEPT ![c] = IF kind[c] = "container" THEN "up" ELSE "none"]
      /\ UNCHANGED <<capabilityVars, kind, outcome, answer, child, response, unremoved>>
  BY DEF Begin
<1>2. worker[c] = "none"
  BY <1>1 DEF CallInv, WorkerIsOver
<1>3. CapabilityTypeOK' /\ UsesAreTold' /\ AccountsAreKept'
  BY <1>1, <1>2, QuietKeeps
<1>4. TypeOK'
  BY <1>1, <1>3 DEF CallInv, TypeOK, Process, Stage
<1>5. OkIsEarned'
  BY <1>1 DEF CallInv, OkIsEarned, capabilityVars
<1>6. WorkerIsOver'
  BY <1>1 DEF CallInv, TypeOK, WorkerIsOver, Leader, Unremovable
<1>7. QED
  BY <1>3, <1>4, <1>5, <1>6 DEF CallInv

\* The executor gives its answer, which is ok only if the response is.
LEMMA AnswerKeeps ==
  ASSUME CallInv, NEW c \in Calls, NEW a \in Answer, a = "ok" => response[c] = "ok",
         stage' = [stage EXCEPT ![c] = "over"], answer' = [answer EXCEPT ![c] = a],
         worker[c] = "up" => Unremovable(c),
         UNCHANGED <<capabilityVars, kind, outcome, client, worker, child, response, unremoved>>
  PROVE  CallInv'
<1>1. CapabilityTypeOK' /\ UsesAreTold' /\ AccountsAreKept'
  BY QuietKeeps
<1>2. TypeOK'
  BY <1>1 DEF CallInv, TypeOK, Stage
<1>3. OkIsEarned'
  BY DEF CallInv, TypeOK, OkIsEarned, capabilityVars
<1>4. WorkerIsOver'
  BY DEF CallInv, TypeOK, WorkerIsOver, Leader, Unremovable
<1>5. QED
  BY <1>1, <1>2, <1>3, <1>4 DEF CallInv

\* The executor learns how the call ends, or goes on with its end.
LEMMA StageKeeps ==
  ASSUME CallInv, NEW c \in Calls, NEW a \in Answer, a = "ok" => response[c] = "ok",
         NEW st \in {"terminating", "removing", "draining"},
         st = "draining" => kind[c] # "container",
         stage' = [stage EXCEPT ![c] = st], outcome' = [outcome EXCEPT ![c] = a],
         UNCHANGED <<capabilityVars, kind, answer, client, worker, child, response, unremoved>>
  PROVE  CallInv'
<1>1. CapabilityTypeOK' /\ UsesAreTold' /\ AccountsAreKept'
  BY QuietKeeps
<1>2. TypeOK'
  BY <1>1 DEF CallInv, TypeOK, Stage
<1>3. OkIsEarned'
  BY DEF CallInv, TypeOK, OkIsEarned, capabilityVars
<1>4. WorkerIsOver'
  BY DEF CallInv, TypeOK, WorkerIsOver, Leader, Unremovable
<1>5. QED
  BY <1>1, <1>2, <1>3, <1>4 DEF CallInv

LEMMA LeaderGone ==
  ASSUME CallInv, NEW c \in Calls, Leader(c) = "gone"
  PROVE  worker[c] = "up" => kind[c] = "container" /\ client[c] = "gone"
BY DEF Leader

LEMMA AnswersKeep ==
  ASSUME CallInv, NEW c \in Calls,
         NotStarted(c) \/ Drained(c) \/ \E valid \in BOOLEAN : Communicated(c, valid)
  PROVE  CallInv'
<1>1. CASE NotStarted(c)
  <2>1. worker[c] = "none" /\ "error" \in Answer
    BY <1>1 DEF CallInv, WorkerIsOver, NotStarted, Answer, Response
  <2>2. QED
    BY <1>1, <2>1, AnswerKeeps DEF NotStarted
<1>2. CASE Drained(c)
  <2>1. outcome[c] \in Answer /\ (outcome[c] = "ok" => response[c] = "ok")
    BY DEF CallInv, TypeOK, OkIsEarned
  <2>2. worker[c] = "up" => Unremovable(c)
    BY <1>2, LeaderGone DEF Drained, OutputClosed, CallInv, WorkerIsOver, Unremovable
  <2>3. QED
    BY <1>2, <2>1, <2>2, AnswerKeeps DEF Drained
<1>3. ASSUME NEW valid \in BOOLEAN, Communicated(c, valid)
      PROVE  CallInv'
  <2> DEFINE a == IF valid /\ response[c] # "none" THEN response[c] ELSE "error"
  <2>1. a \in Answer /\ (a = "ok" => response[c] = "ok")
    BY DEF CallInv, TypeOK, Answer, Response
  <2>2. worker[c] = "up" => Unremovable(c)
    BY <1>3, LeaderGone DEF Communicated, OutputClosed, CallInv, WorkerIsOver, Unremovable
  <2>3. QED
    BY <1>3, <2>1, <2>2, AnswerKeeps DEF Communicated
<1>4. QED
  BY <1>1, <1>2, <1>3

LEMMA StagesKeep ==
  ASSUME CallInv, NEW c \in Calls,
         Deadline(c) \/ \E valid \in BOOLEAN : Received(c, valid)
  PROVE  CallInv'
<1>1. CASE Deadline(c)
  <2>1. "timeout" \in Answer
    BY DEF Answer
  <2>2. QED
    BY <1>1, <2>1, StageKeeps DEF Deadline
<1>2. ASSUME NEW valid \in BOOLEAN, Received(c, valid)
      PROVE  CallInv'
  <2> DEFINE a == IF valid /\ response[c] # "none" THEN response[c] ELSE "error"
  <2>1. a \in Answer /\ (a = "ok" => response[c] = "ok")
    BY DEF CallInv, TypeOK, Answer, Response
  <2>2. QED
    BY <1>2, <2>1, StageKeeps DEF Received
<1>3. QED
  BY <1>1, <1>2

LEMMA ReapedKeeps ==
  ASSUME CallInv, NEW c \in Calls, Reaped(c)
  PROVE  CallInv'
<1>1. /\ stage[c] \in {"terminating", "killing"} /\ WaitIsOver(c) /\ Proceed(c)
      /\ UNCHANGED <<capabilityVars, kind, outcome, client, worker, child, response, unremoved>>
  BY DEF Reaped
<1>2. outcome[c] \in Answer /\ (outcome[c] = "ok" => response[c] = "ok") /\ kind[c] \in Kind
  BY DEF CallInv, TypeOK, OkIsEarned
<1>3. Leader(c) # "up"
  BY <1>1 DEF WaitIsOver, CallInv, WorkerIsOver
<1>4. CASE kind[c] \notin Piped
  <2>1. After(c) = "over"
    BY <1>4 DEF After, Piped
  <2>2. worker[c] # "up"
    BY <1>3, <1>4 DEF Leader, Piped
  <2>3. QED
    BY <1>1, <1>2, <2>1, <2>2, AnswerKeeps DEF Proceed
<1>5. CASE kind[c] \in Piped
  <2>1. After(c) = IF kind[c] = "plugin" THEN "draining" ELSE "removing"
    BY <1>5 DEF After, Piped
  <2>2. /\ stage' = [stage EXCEPT ![c] = After(c)] /\ answer' = answer
        /\ outcome' = [outcome EXCEPT ![c] = outcome[c]]
    BY <1>1, <2>1 DEF Proceed, CallInv, TypeOK
  <2>3. QED
    BY <1>1, <1>2, <2>1, <2>2, StageKeeps
<1>6. QED
  BY <1>4, <1>5

LEMMA KillKeeps ==
  ASSUME CallInv, NEW c \in Calls, Kill(c)
  PROVE  CallInv'
<1>1. /\ stage[c] = "terminating" /\ stage' = [stage EXCEPT ![c] = "killing"]
      /\ SetLeader(c, "doomed") /\ Leader(c) = "up" /\ child' = child \ {c}
      /\ UNCHANGED <<capabilityVars, kind, outcome, answer, response, unremoved>>
  BY DEF Kill, Killed
<1>2. /\ worker' \in [Calls -> Process] /\ client' \in [Calls -> Process]
      /\ \A d \in Calls \ {c} : worker'[d] = worker[d] /\ client'[d] = client[d]
      /\ worker'[c] \in {worker[c], "doomed"}
      /\ Leader(c)' = "doomed"
  BY <1>1 DEF SetLeader, Leader, CallInv, TypeOK, Process
<1>3. CapabilityTypeOK' /\ UsesAreTold' /\ AccountsAreKept'
  BY <1>1, <1>2, QuietKeeps
<1>4. TypeOK'
  BY <1>1, <1>2, <1>3 DEF CallInv, TypeOK, Stage
<1>5. OkIsEarned'
  BY <1>1 DEF CallInv, OkIsEarned, capabilityVars
<1>6. WorkerIsOver'
  <2>1. \A d \in Calls \ {c} : stage'[d] = stage[d] /\ Leader(d)' = Leader(d)
    BY <1>1, <1>2 DEF Leader
  <2>2. stage'[c] = "killing"
    BY <1>1 DEF CallInv, TypeOK
  <2>3. QED
    BY <1>1, <1>2, <2>1, <2>2 DEF CallInv, WorkerIsOver, Unremovable
<1>7. QED
  BY <1>3, <1>4, <1>5, <1>6 DEF CallInv

LEMMA RemoveContainerKeeps ==
  ASSUME CallInv, NEW c \in Calls, NEW removed \in BOOLEAN, RemoveContainer(c, removed)
  PROVE  CallInv'
<1>1. /\ stage' = [stage EXCEPT ![c] = "draining"] /\ stage[c] = "removing"
      /\ UNCHANGED <<kind, outcome, answer, client, child, response>>
  BY DEF RemoveContainer
<1>2. CASE removed
  <2>1. /\ worker' = [worker EXCEPT ![c] = "gone"] /\ EndThreads(c) /\ unremoved' = unremoved
    BY <1>2 DEF RemoveContainer
  <2>2. CapabilityTypeOK' /\ UsesAreTold' /\ AccountsAreKept'
    BY <1>1, <2>1, WorkerGoneKeeps
  <2>3. TypeOK'
    BY <1>1, <2>1, <2>2 DEF CallInv, TypeOK, Process, Stage
  <2>4. OkIsEarned'
    BY <1>1, <2>1 DEF CallInv, OkIsEarned, EndThreads
  <2>5. WorkerIsOver'
    BY <1>1, <2>1 DEF CallInv, TypeOK, WorkerIsOver, Leader, Unremovable
  <2>6. QED
    BY <2>2, <2>3, <2>4, <2>5 DEF CallInv
<1>3. CASE ~removed
  <2>1. unremoved' = unremoved \cup {c} /\ UNCHANGED <<worker, capabilityVars>>
    BY <1>3 DEF RemoveContainer
  <2>2. CapabilityTypeOK' /\ UsesAreTold' /\ AccountsAreKept'
    BY <1>1, <2>1, QuietKeeps
  <2>3. TypeOK'
    BY <1>1, <2>1, <2>2 DEF CallInv, TypeOK, Stage
  <2>4. OkIsEarned'
    BY <1>1, <2>1 DEF CallInv, OkIsEarned, capabilityVars
  <2>5. WorkerIsOver'
    BY <1>1, <2>1 DEF CallInv, TypeOK, WorkerIsOver, Leader, Unremovable
  <2>6. QED
    BY <2>2, <2>3, <2>4, <2>5 DEF CallInv
<1>4. QED
  BY <1>2, <1>3

LEMMA InitHolds == Init => CallInv
<1> SUFFICES ASSUME Init PROVE CallInv
  OBVIOUS
<1>1. TypeOK
  <2>1. job \in [Uses -> [Instances -> Job]]
    BY JobTypes DEF Init, CapabilityInit
  <2>2. CapabilityTypeOK
    BY <2>1 DEF Init, CapabilityInit, CapabilityTypeOK, Account
  <2>3. QED
    BY <2>2 DEF Init, TypeOK, Kind, Stage, Answer, Response, Process
<1>2. UsesAreTold /\ AccountsAreKept
  BY ReplicationAssumption DEF Init, CapabilityInit, UsesAreTold, Told, AccountsAreKept, NoJob,
                               AtWork, Step
<1>3. OkIsEarned /\ WorkerIsOver
  BY DEF Init, OkIsEarned, WorkerIsOver
<1>4. QED
  BY <1>1, <1>2, <1>3 DEF CallInv

LEMMA NextKeeps == CallInv /\ [Next]_vars => CallInv'
<1> SUFFICES ASSUME CallInv, [Next]_vars PROVE CallInv'
  OBVIOUS
<1>1. CASE UNCHANGED vars
  <2>1. UNCHANGED <<capabilityVars, kind, response, stage, outcome, answer, client, worker,
                    child, unremoved>>
    BY <1>1 DEF vars, executorVars
  <2>2. CapabilityTypeOK' /\ UsesAreTold' /\ AccountsAreKept'
    BY <2>1, QuietKeeps
  <2>3. TypeOK' /\ OkIsEarned' /\ WorkerIsOver'
    BY <2>1, <2>2 DEF CallInv, TypeOK, OkIsEarned, WorkerIsOver, Leader, Unremovable,
                      capabilityVars
  <2>4. QED
    BY <2>2, <2>3 DEF CallInv
<1>2. ASSUME NEW c \in Calls, Work(c)
      PROVE  CallInv'
  BY <1>2, UseCapabilityKeeps, RespondKeeps, WorkerExitsKeeps, ProcessKeeps DEF Work
<1>3. ASSUME NEW c \in Calls, Execute(c)
      PROVE  CallInv'
  BY <1>3, BeginKeeps, AnswersKeep, StagesKeep, ReapedKeeps, KillKeeps, RemoveContainerKeeps
  DEF Execute
<1>4. QED
  BY <1>1, <1>2, <1>3 DEF Next

-----------------------------------------------------------------------------
(* Theorems.                                                               *)

LEMMA CallInvariant == Spec => []CallInv
BY InitHolds, NextKeeps, PTL DEF Spec

\* No thread of a batch makes an attempt too many, whichever way its statements fail.
THEOREM TypeCorrect == Spec => []TypeOK
BY CallInvariant, PTL DEF CallInv

\* A call that answers ok has met no CapabilityError while its handler ran, and has
\* restarted every instance it was given and did not abandon, however its threads and
\* others restart the same replicas at the same time.
THEOREM OkIsAlwaysTrue == Spec => []OkIsTrue
<1>1. CallInv => OkIsTrue
  <2> SUFFICES ASSUME CallInv, NEW c \in Calls, answer[c] = "ok"
               PROVE  /\ c \notin captured
                      /\ \A u \in Uses, i \in Instances :
                           CallOf[u] = c => account[u][i] # "owed"
    BY DEF OkIsTrue
  <2>1. c \in captureOver /\ c \notin captured
    BY DEF CallInv, OkIsEarned
  <2>2. QED
    BY <2>1 DEF CallInv, AccountsAreKept, Covered
<1>2. QED
  BY <1>1, CallInvariant, PTL

\* The call that has left a replica stopped has not answered ok, or it had abandoned the
\* restart of this replica: no use of the capability fails on it in silence.
THEOREM StopsAreReported == Spec => []StoppedIsReported
<1>1. CallInv => StoppedIsReported
  <2> SUFFICES ASSUME CallInv, NEW u \in Uses, NEW i \in Instances,
                      stoppedBy[i] = u, answer[CallOf[u]] = "ok"
               PROVE  account[u][i] = "abandoned"
    BY DEF StoppedIsReported
  <2>1. CallOf[u] \in captureOver /\ CallOf[u] \notin captured
    BY ReplicationAssumption DEF CallInv, OkIsEarned
  <2>2. QED
    BY <2>1 DEF CallInv, AccountsAreKept, Covered
<1>2. QED
  BY <1>1, CallInvariant, PTL

\* After the answer no handler runs, but in a container that could not be removed.
THEOREM AnsweredCallsAreOver == Spec => []AnsweredIsOver
<1>1. CallInv => AnsweredIsOver
  BY DEF CallInv, WorkerIsOver, Unremovable, AnsweredIsOver
<1>2. QED
  BY <1>1, CallInvariant, PTL

\* The handler never goes on while a thread of its batch is at work, unless a signal took
\* its main thread out of the wait for it.
THEOREM BatchesAreWaitedFor == Spec => []BatchIsWaitedFor
<1>1. CallInv => BatchIsWaitedFor
  BY DEF CallInv, UsesAreTold, Told, BatchIsWaitedFor, Active, AtWork
<1>2. QED
  BY <1>1, CallInvariant, PTL
=============================================================================
