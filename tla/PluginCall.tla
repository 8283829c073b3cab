------------------------------ MODULE PluginCall ------------------------------
(***************************************************************************)
(* One call of a handler from the executor's side (executor.py,            *)
(* plugin_executor.py) and from the worker's (plugin_worker.py), with the  *)
(* capability the worker may use (MysqlReplication).                       *)
(*                                                                         *)
(* The executors differ in how they end a call:                            *)
(*   restricted  reads one answer from a pipe, then reaps its process;     *)
(*   tests       (plugin_test_runner.py) polls its process and the size of *)
(*               its output, which goes to a file;                         *)
(*   plugin      waits for the end of the output and of the process, and   *)
(*               after a timeout for both again, without a limit;          *)
(*   container   is a plugin whose process is the client of a runtime, and *)
(*               whose worker runs in a container that is removed.         *)
(*                                                                         *)
(* Whatever runs in a worker is external: it may hang, crash, and ignore   *)
(* SIGTERM.  A library a plugin uses may leave a process that holds its    *)
(* output open.                                                            *)
(***************************************************************************)
EXTENDS MysqlReplication

VARIABLES
  kind,       \* the executor of each call
  stage,      \* where execute is
  outcome,    \* what execute will return or raise
  answer,     \* what it has returned or raised
  client,     \* the process of the container runtime's client
  worker,     \* the process that runs the handler
  child,      \* calls whose worker has left a process that holds the output
  response,   \* what the worker has written
  unremoved   \* calls whose container could not be removed, or was lost

executorVars == <<kind, stage, outcome, answer, client, worker, child, response, unremoved>>

vars == <<capabilityVars, executorVars>>

Kind == {"restricted", "tests", "plugin", "container"}

\* The kinds that wait for the end of the output, and whose handlers have capabilities.
Piped == {"plugin", "container"}

Process == {"none", "up", "doomed", "gone"}

Response == {"none", "ok", "capability_error", "error"}

Answer == Response \cup {"timeout"}

Stage == {"new", "executing", "terminating", "killing", "removing", "draining", "over"}

TypeOK ==
  /\ CapabilityTypeOK
  /\ kind \in [Calls -> Kind]
  /\ stage \in [Calls -> Stage]
  /\ outcome \in [Calls -> Answer]
  /\ answer \in [Calls -> Answer]
  /\ client \in [Calls -> Process]
  /\ worker \in [Calls -> Process]
  /\ child \subseteq Calls
  /\ response \in [Calls -> Response]
  /\ unremoved \subseteq Calls

Init ==
  /\ CapabilityInit
  /\ kind \in [Calls -> Kind]
  /\ stage = [c \in Calls |-> "new"]
  /\ outcome = [c \in Calls |-> "none"]
  /\ answer = [c \in Calls |-> "none"]
  /\ client = [c \in Calls |-> "none"]
  /\ worker = [c \in Calls |-> "none"]
  /\ child = {}
  /\ response = [c \in Calls |-> "none"]
  /\ unremoved = {}

\* The process execute has started.
Leader(c) == IF kind[c] = "container" THEN client[c] ELSE worker[c]

SetLeader(c, state) ==
  IF kind[c] = "container"
  THEN client' = [client EXCEPT ![c] = state] /\ UNCHANGED worker
  ELSE worker' = [worker EXCEPT ![c] = state] /\ UNCHANGED client

\* Nothing holds the output open any more.
OutputClosed(c) == Leader(c) = "gone" /\ c \notin child

-----------------------------------------------------------------------------
(* The worker.                                                             *)

\* Threads of the handler go on after its answer, while the process waits for them.
UseCapability(c) ==
  /\ worker[c] = "up"
  /\ kind[c] \in Piped
  /\ \E u \in Uses : CallOf[u] = c /\ CapabilityStep(u)
  /\ UNCHANGED executorVars

\* A variation: only errors the handler lets pass count.
ResponseIfUncaught(c, returned) == IF returned THEN "ok" ELSE "error"

\* captured_capability_errors first, though the handler may have caught them.  An ok whose
\* result is too large, or is not JSON, is an error.
ResponseTo(c, returned) ==
  IF c \in captured THEN "capability_error"
  ELSE IF returned THEN "ok" ELSE "error"

\* The handler returns or raises, which it cannot do while the main thread is in the
\* capability; threads of its own may be.  What is recorded from here on comes too late.
Respond(c, returned) ==
  /\ worker[c] = "up"
  /\ response[c] = "none"
  /\ MainIsFree(c)
  /\ response' = [response EXCEPT ![c] = ResponseTo(c, returned)]
  /\ LeaveCapture(c)
  /\ UNCHANGED <<kind, stage, outcome, answer, client, worker, child, unremoved>>

\* It ends by itself, by a limit, by SIGTERM or by SIGKILL, in any state.
WorkerExits(c) ==
  /\ worker[c] \in {"up", "doomed"}
  /\ worker' = [worker EXCEPT ![c] = "gone"]
  /\ EndThreads(c)
  /\ UNCHANGED <<kind, stage, outcome, answer, client, child, response, unremoved>>

LeavesChild(c) ==
  /\ worker[c] = "up"
  /\ kind[c] = "plugin"
  /\ child' = child \cup {c}
  /\ UNCHANGED <<capabilityVars, kind, stage, outcome, answer, client, worker, response,
                 unremoved>>

ChildExits(c) ==
  /\ c \in child
  /\ child' = child \ {c}
  /\ UNCHANGED <<capabilityVars, kind, stage, outcome, answer, client, worker, response,
                 unremoved>>

\* The client ends after its container, or alone: execute then leaves the container.
ClientExits(c) ==
  /\ client[c] \in {"up", "doomed"}
  /\ client' = [client EXCEPT ![c] = "gone"]
  /\ unremoved' = IF worker[c] = "up" /\ stage[c] = "executing"
                  THEN unremoved \cup {c} ELSE unremoved
  /\ UNCHANGED <<capabilityVars, kind, stage, outcome, answer, worker, child, response>>

-----------------------------------------------------------------------------
(* The executor.                                                           *)

Begin(c) ==
  /\ stage[c] = "new"
  /\ stage' = [stage EXCEPT ![c] = "executing"]
  /\ worker' = [worker EXCEPT ![c] = "up"]
  /\ client' = [client EXCEPT ![c] = IF kind[c] = "container" THEN "up" ELSE "none"]
  /\ UNCHANGED <<capabilityVars, kind, outcome, answer, child, response, unremoved>>

\* The artifact is not valid, the request is too large, or the process does not start.
NotStarted(c) ==
  /\ stage[c] = "new"
  /\ stage' = [stage EXCEPT ![c] = "over"]
  /\ answer' = [answer EXCEPT ![c] = "error"]
  /\ UNCHANGED <<capabilityVars, kind, outcome, client, worker, child, response, unremoved>>

\* communicate() has returned: the output and the exit code decide.
Communicated(c, valid) ==
  /\ stage[c] = "executing"
  /\ kind[c] \in Piped
  /\ OutputClosed(c)
  /\ stage' = [stage EXCEPT ![c] = "over"]
  /\ answer' = [answer EXCEPT ![c] =
                  IF valid /\ response[c] # "none" THEN response[c] ELSE "error"]
  /\ UNCHANGED <<capabilityVars, kind, outcome, client, worker, child, response, unremoved>>

\* poll() is true: a response, or the end of the pipe.  The finally clause reaps.  Tests
\* have only their exit code.
Received(c, valid) ==
  /\ stage[c] = "executing"
  /\ kind[c] \notin Piped
  /\ (kind[c] = "restricted" /\ response[c] # "none") \/ worker[c] = "gone"
  /\ stage' = [stage EXCEPT ![c] = "terminating"]
  /\ outcome' = [outcome EXCEPT ![c] =
                   IF valid /\ response[c] # "none" THEN response[c] ELSE "error"]
  /\ UNCHANGED <<capabilityVars, kind, answer, client, worker, child, response, unremoved>>

\* The time is up, or the output of tests too large: SIGTERM, unless the process has exited.
Deadline(c) ==
  /\ stage[c] = "executing"
  /\ stage' = [stage EXCEPT ![c] = "terminating"]
  /\ outcome' = [outcome EXCEPT ![c] = "timeout"]
  /\ UNCHANGED <<capabilityVars, kind, answer, client, worker, child, response, unremoved>>

\* What execute does when its process is gone, or has not gone in time.
After(c) ==
  CASE kind[c] \notin Piped -> "over"
    [] kind[c] = "plugin" -> "draining"
    [] kind[c] = "container" -> "removing"

Proceed(c) ==
  /\ stage' = [stage EXCEPT ![c] = After(c)]
  /\ answer' = IF After(c) = "over" THEN [answer EXCEPT ![c] = outcome[c]] ELSE answer

\* Variations: SIGTERM is sent again instead; the wait after SIGTERM is the last.
KeepsRunning(c) == Leader(c)

SigtermSuffices(c) == TRUE

\* os.killpg(SIGKILL), process.kill()
Killed(c) == "doomed"

\* After SIGKILL the time alone decides.
WaitIsOver(c) == stage[c] = "killing" \/ Leader(c) = "gone"

Kill(c) ==
  /\ stage[c] = "terminating"
  /\ Leader(c) = "up"
  /\ stage' = [stage EXCEPT ![c] = "killing"]
  /\ SetLeader(c, Killed(c))
  /\ child' = child \ {c}
  /\ UNCHANGED <<capabilityVars, kind, outcome, answer, response, unremoved>>

\* The wait after a signal is over, because the process is gone or the time is up.
Reaped(c) ==
  /\ stage[c] \in {"terminating", "killing"}
  /\ WaitIsOver(c)
  /\ Proceed(c)
  /\ UNCHANGED <<capabilityVars, kind, outcome, client, worker, child, response, unremoved>>

\* docker rm --force, whose failure is only logged.
RemoveContainer(c, removed) ==
  /\ stage[c] = "removing"
  /\ stage' = [stage EXCEPT ![c] = "draining"]
  /\ IF removed
     THEN /\ worker' = [worker EXCEPT ![c] = "gone"]
          /\ EndThreads(c)
          /\ UNCHANGED unremoved
     ELSE unremoved' = unremoved \cup {c} /\ UNCHANGED <<worker, capabilityVars>>
  /\ UNCHANGED <<kind, outcome, answer, client, child, response>>

\* The second communicate(), which has no time limit.
Drained(c) ==
  /\ stage[c] = "draining"
  /\ OutputClosed(c)
  /\ stage' = [stage EXCEPT ![c] = "over"]
  /\ answer' = [answer EXCEPT ![c] = outcome[c]]
  /\ UNCHANGED <<capabilityVars, kind, outcome, client, worker, child, response, unremoved>>

Execute(c) ==
  \/ Begin(c) \/ NotStarted(c)
  \/ \E valid \in BOOLEAN : Communicated(c, valid) \/ Received(c, valid)
  \/ Deadline(c) \/ Kill(c) \/ Reaped(c)
  \/ \E removed \in BOOLEAN : RemoveContainer(c, removed)
  \/ Drained(c)

Work(c) ==
  \/ UseCapability(c)
  \/ \E returned \in BOOLEAN : Respond(c, returned)
  \/ WorkerExits(c) \/ LeavesChild(c) \/ ChildExits(c) \/ ClientExits(c)

Next == \E c \in Calls : Execute(c) \/ Work(c)

Spec == Init /\ [][Next]_vars

(***************************************************************************)
(* The executor goes on, its timers fire, what has been sent SIGKILL ends, *)
(* and a process that a library left behind closes the output some time:   *)
(* the code has no limit for that one.  Nothing is assumed of handlers,    *)
(* databases and containers.                                               *)
(***************************************************************************)
Fairness ==
  \A c \in Calls :
    /\ WF_vars(Deadline(c))
    /\ WF_vars(Kill(c) \/ Reaped(c))
    /\ WF_vars(\E removed \in BOOLEAN : RemoveContainer(c, removed))
    /\ WF_vars(Drained(c))
    /\ WF_vars(worker[c] = "doomed" /\ WorkerExits(c))
    /\ WF_vars(client[c] = "doomed" /\ ClientExits(c))
    /\ WF_vars(ChildExits(c))

FairSpec == Spec /\ Fairness

-----------------------------------------------------------------------------
(* Properties.                                                             *)

\* A call that answers ok has met no CapabilityError while its handler ran, though the
\* handler caught the error or a batch went on after it, and has restarted every instance
\* of its messages, by a STOP and a START on one connection; but for those it abandoned:
\* an exception that is no CapabilityError ended the restart and was caught, or the handler
\* answered without waiting for it (capture_capability_errors).
OkIsTrue ==
  \A c \in Calls :
    answer[c] = "ok" =>
      /\ c \notin captured
      /\ \A u \in Uses, i \in Instances : CallOf[u] = c => account[u][i] # "owed"

\* No replica is left stopped in silence, whether the retries were used up, the answer of a
\* statement was lost or the worker was killed between STOP and START: the call that
\* stopped it last has not answered ok, unless it abandoned the restart of this replica
\* as above (rebuild_replication, _terminate_process_group).
StoppedIsReported ==
  \A i \in Instances, u \in Uses :
    stoppedBy[i] = u /\ stage[CallOf[u]] = "over" /\ answer[CallOf[u]] = "ok"
      => account[u][i] = "abandoned"

\* Once a call has its answer, its handler runs no more and sends no statement, unless it
\* is in a container that could not be removed (_reap_process, _remove_container).
AnsweredIsOver ==
  \A c \in Calls :
    stage[c] = "over" /\ worker[c] = "up" => kind[c] = "container" /\ c \in unremoved

\* A thread of a batch still has work only while the capability has not answered: the
\* handler never sees an error of one instance while another is being stopped or started,
\* unless a signal took it out of the with statement that waits for the threads.
BatchIsWaitedFor ==
  \A u \in Uses, i \in Instances :
    capability[u] # "working" /\ i \in Active(u) => account[u][i] = "abandoned"

\* Every call ends, whatever its handler does: it hangs, ignores SIGTERM, or waits for a
\* database (timeout_seconds; the dispatcher gives the handler slot back only then).
CallEnds ==
  \A c \in Calls : stage[c] = "executing" ~> stage[c] = "over"

=============================================================================
