--------------------------- MODULE MysqlReplication ---------------------------
(***************************************************************************)
(* The capability of capabilities/mysql_replication.py, as the handlers of *)
(* plugins use it.  One use is one call of it: a message names some        *)
(* instances, and each is restarted by STOP REPLICA and START REPLICA on   *)
(* one connection, retried from the start on a new one.  Several instances *)
(* are restarted by a pool of threads, a single one by the caller itself.  *)
(*                                                                         *)
(* Handlers are external, and may use the capability from their main       *)
(* thread, where one use excludes another, and from threads of their own,  *)
(* for which the worker does not wait.  Exceptions the capability does not *)
(* expect may leave it anywhere: the CPU limit and other signals raise in  *)
(* the main thread, and a log handler of the plugin in every one.          *)
(*                                                                         *)
(* The database is external: a connection may be refused, a statement may  *)
(* fail, and it may fail although the server has executed it.  The server  *)
(* executes a statement when it is sent or never.                          *)
(***************************************************************************)
EXTENDS Naturals, FiniteSets

CONSTANTS
  Calls,      \* calls of a plugin that may be under way at once
  Uses,       \* uses of the capability that may be under way at once
  CallOf,     \* the call each use belongs to
  Instances,  \* replicas
  Retries,    \* _MAX_RETRIES
  Workers,    \* _MAX_BATCH_WORKERS
  NoUse       \* model value: no use

ASSUME ReplicationAssumption ==
  /\ CallOf \in [Uses -> Calls]
  /\ Retries \in Nat
  /\ Workers \in Nat \ {0}
  /\ NoUse \notin Uses

VARIABLES
  capability,   \* what each use has told the handler
  onMain,       \* uses the main thread of a worker is in
  job,          \* what the thread that restarts an instance does, for each use
  captured,     \* calls whose worker has recorded a CapabilityError
  captureOver,  \* calls whose worker has left capture_capability_errors
  stoppedBy,    \* the use whose STOP was the last statement a replica executed
  stopped,      \* history: instances a use has stopped on its present connection
  account       \* history: whether a use still answers for an instance it was given

capabilityVars ==
  <<capability, onMain, job, captured, captureOver, stoppedBy, stopped, account>>

Step == {"connect", "stop", "start"}

AtWork == {"queued"} \cup Step

JobState == {"none", "done", "failed", "escaped"} \cup AtWork

\* The attempts left, and what the present one does.
Job == [state : JobState, left : 0..Retries]

NoJob == [state |-> "none", left |-> 0]

(***************************************************************************)
(* "owed" until the instance has been stopped and started on one           *)
(* connection; "abandoned" when an unexpected exception has ended that, or *)
(* the handler has not waited for it.                                      *)
(***************************************************************************)
Account == {"none", "owed", "abandoned"}

CapabilityTypeOK ==
  /\ capability \in [Uses -> {"none", "working", "returned", "raised"}]
  /\ onMain \subseteq Uses
  /\ job \in [Uses -> [Instances -> Job]]
  /\ captured \subseteq Calls
  /\ captureOver \subseteq Calls
  /\ stoppedBy \in [Instances -> Uses \cup {NoUse}]
  /\ stopped \in [Uses -> SUBSET Instances]
  /\ account \in [Uses -> [Instances -> Account]]

CapabilityInit ==
  /\ capability = [u \in Uses |-> "none"]
  /\ onMain = {}
  /\ job = [u \in Uses |-> [i \in Instances |-> NoJob]]
  /\ captured = {}
  /\ captureOver = {}
  /\ stoppedBy = [i \in Instances |-> NoUse]
  /\ stopped = [u \in Uses |-> {}]
  /\ account = [u \in Uses |-> [i \in Instances |-> "none"]]

UnderWay(u) == {i \in Instances : job[u][i].state \in AtWork}

\* The accounts when call c answers for the instances of its use u no more.
Abandon(u) ==
  [i \in Instances |-> IF i \in UnderWay(u) THEN "abandoned" ELSE account[u][i]]

\* The main thread runs the handler, or has left it.
MainIsFree(c) == \A u \in onMain : CallOf[u] # c

\* The worker leaves capture_capability_errors, whatever threads of the handler still do.
LeaveCapture(c) ==
  /\ captureOver' = captureOver \cup {c}
  /\ account' = [u \in Uses |-> IF CallOf[u] = c THEN Abandon(u) ELSE account[u]]
  /\ UNCHANGED <<capability, onMain, job, captured, stoppedBy, stopped>>

\* The threads of a worker end with it.
EndThreads(c) ==
  /\ job' = [u \in Uses |-> IF CallOf[u] = c THEN [i \in Instances |-> NoJob] ELSE job[u]]
  /\ stopped' = [u \in Uses |-> IF CallOf[u] = c THEN {} ELSE stopped[u]]
  /\ UNCHANGED <<capability, onMain, captured, captureOver, stoppedBy, account>>

-----------------------------------------------------------------------------
(* The message.                                                            *)

\* A variation: an error in a thread of the pool is not recorded.
NothingRecorded(u) == captured

\* What the constructor of CapabilityError does, in any thread.
Recorded(u) == IF CallOf[u] \in captureOver THEN captured ELSE captured \cup {CallOf[u]}

\* A use that is over can stand for a new one.  The handler may go on with another,
\* whatever it was told.
Callable(u) == capability[u] # "working" /\ UnderWay(u) = {}

\* ValueError of _validate_retries, which nothing records.
RefuseRetries(u) ==
  /\ Callable(u)
  /\ capability' = [capability EXCEPT ![u] = "raised"]
  /\ UNCHANGED <<onMain, job, captured, captureOver, stoppedBy, stopped, account>>

\* CapabilityError: no instance, an invalid one, or too many.
RejectMessage(u) ==
  /\ Callable(u)
  /\ capability' = [capability EXCEPT ![u] = "raised"]
  /\ captured' = Recorded(u)
  /\ UNCHANGED <<onMain, job, captureOver, stoppedBy, stopped, account>>

\* Instances named twice are one.  A message whose alerts are all resolved has none.  The
\* main thread takes one message at a time, and none after the handler.
AcceptMessage(u, instances, retries, main) ==
  /\ Callable(u)
  /\ main => MainIsFree(CallOf[u]) /\ CallOf[u] \notin captureOver
  /\ capability' = [capability EXCEPT ![u] =
                      IF instances = {} THEN "returned" ELSE "working"]
  /\ onMain' = IF main /\ instances # {} THEN onMain \cup {u} ELSE onMain
  /\ job' = [job EXCEPT ![u] = [i \in Instances |->
               IF i \in instances THEN [state |-> "queued", left |-> retries] ELSE NoJob]]
  /\ account' = [account EXCEPT ![u] = [i \in Instances |->
                   IF i \notin instances THEN account[u][i]
                   ELSE IF CallOf[u] \in captureOver THEN "abandoned" ELSE "owed"]]
  /\ UNCHANGED <<captured, captureOver, stoppedBy, stopped>>

-----------------------------------------------------------------------------
(* One instance: rebuild_replication.                                      *)

Active(u) == {i \in Instances : job[u][i].state \in Step}

SetJob(u, i, state, left) ==
  job' = [job EXCEPT ![u][i] = [state |-> state, left |-> left]]

\* A thread takes the instance, and fails at once without credentials.
TakeInstance(u, i, configured) ==
  /\ job[u][i].state = "queued"
  /\ Cardinality(Active(u)) < Workers
  /\ IF configured
     THEN SetJob(u, i, "connect", job[u][i].left) /\ UNCHANGED captured
     ELSE SetJob(u, i, "failed", 0) /\ captured' = Recorded(u)
  /\ UNCHANGED <<capability, onMain, captureOver, stoppedBy, stopped, account>>

\* A variation: one attempt too many.
MayRetryOnceMore(left) == left >= 0

MayRetry(left) == left > 0

(***************************************************************************)
(* An attempt has failed: another one on a new connection, or              *)
(* CapabilityError after the last.                                         *)
(***************************************************************************)
AttemptFails(u, i) ==
  IF MayRetry(job[u][i].left)
  THEN SetJob(u, i, "connect", job[u][i].left - 1) /\ UNCHANGED captured
  ELSE SetJob(u, i, "failed", 0) /\ captured' = Recorded(u)

Connect(u, i, answered) ==
  /\ job[u][i].state = "connect"
  /\ IF answered
     THEN SetJob(u, i, "stop", job[u][i].left) /\ UNCHANGED captured
     ELSE AttemptFails(u, i)
  /\ stopped' = [stopped EXCEPT ![u] = @ \ {i}]
  /\ UNCHANGED <<capability, onMain, captureOver, stoppedBy, account>>

\* cursor.execute("STOP REPLICA")
StopReplica(u, i, executed, answered) ==
  /\ job[u][i].state = "stop"
  /\ answered => executed
  /\ stoppedBy' = IF executed THEN [stoppedBy EXCEPT ![i] = u] ELSE stoppedBy
  /\ stopped' = IF executed THEN [stopped EXCEPT ![u] = @ \cup {i}] ELSE stopped
  /\ IF answered
     THEN SetJob(u, i, "start", job[u][i].left) /\ UNCHANGED captured
     ELSE AttemptFails(u, i)
  /\ UNCHANGED <<capability, onMain, captureOver, account>>

\* cursor.execute("START REPLICA")
StartReplica(u, i, executed, answered) ==
  /\ job[u][i].state = "start"
  /\ answered => executed
  /\ stoppedBy' = IF executed THEN [stoppedBy EXCEPT ![i] = NoUse] ELSE stoppedBy
  /\ IF answered
     THEN /\ SetJob(u, i, "done", 0)
          /\ account' = IF i \in stopped[u] THEN [account EXCEPT ![u][i] = "none"] ELSE account
          /\ UNCHANGED captured
     ELSE AttemptFails(u, i) /\ UNCHANGED account
  /\ UNCHANGED <<capability, onMain, captureOver, stopped>>

(***************************************************************************)
(* An exception that no one records ends the restart of an instance, or it *)
(* is not submitted: _HandlerCpuLimitExceeded or an exception of another   *)
(* signal handler passes `except Exception` in the main thread, a log      *)
(* handler raises where nothing catches it, the pool cannot start a        *)
(* thread.                                                                 *)
(***************************************************************************)
Escape(u, i) ==
  /\ job[u][i].state \in AtWork
  /\ SetJob(u, i, "escaped", 0)
  /\ account' = [account EXCEPT ![u][i] = "abandoned"]
  /\ UNCHANGED <<capability, onMain, captured, captureOver, stoppedBy, stopped>>

-----------------------------------------------------------------------------
(* The batch: results in order, once the pool is shut down.                *)

\* A variation: the first failure is raised at once.
OverAtFirstFailure(u) ==
  UnderWay(u) = {} \/ \E i \in Instances : job[u][i].state = "failed"

\* The with statement waits for every thread.
BatchOver(u) == UnderWay(u) = {}

AllDone(u) == \A i \in Instances : job[u][i].state \in {"none", "done"}

\* Unexpected: a signal has raised in the caller and not in what it waits for.
FinishUse(u, unexpected) ==
  /\ capability[u] = "working"
  /\ BatchOver(u)
  /\ capability' = [capability EXCEPT ![u] =
                      IF AllDone(u) /\ ~unexpected THEN "returned" ELSE "raised"]
  /\ onMain' = onMain \ {u}
  /\ UNCHANGED <<job, captured, captureOver, stoppedBy, stopped, account>>

\* The use restarts one instance, in the thread of its caller.
Single(u) == \E i \in Instances : \A k \in Instances : job[u][k].state # "none" => k = i

\* A signal raises in the main thread while it waits, in the exit of the with statement,
\* for the threads of a batch: they go on without it.
Interrupt(u) ==
  /\ u \in onMain
  /\ ~Single(u)
  /\ capability' = [capability EXCEPT ![u] = "raised"]
  /\ onMain' = onMain \ {u}
  /\ account' = [account EXCEPT ![u] = Abandon(u)]
  /\ UNCHANGED <<job, captured, captureOver, stoppedBy, stopped>>

CapabilityStep(u) ==
  \/ RefuseRetries(u) \/ RejectMessage(u)
  \/ \E instances \in SUBSET Instances, retries \in 0..Retries, main \in BOOLEAN :
       AcceptMessage(u, instances, retries, main)
  \/ \E i \in Instances :
       \/ \E configured \in BOOLEAN : TakeInstance(u, i, configured)
       \/ \E answered \in BOOLEAN : Connect(u, i, answered)
       \/ \E executed, answered \in BOOLEAN :
            StopReplica(u, i, executed, answered) \/ StartReplica(u, i, executed, answered)
       \/ Escape(u, i)
  \/ \E unexpected \in BOOLEAN : FinishUse(u, unexpected)
  \/ Interrupt(u)

=============================================================================
