---------------------------- MODULE DispatchPool ----------------------------
(***************************************************************************)
(* How business requests and implementation tasks of self_grow_agent/api.py *)
(* share one event loop and one pool of threads.                           *)
(*                                                                         *)
(* A request takes a handler slot within a time limit, reads its body, and *)
(* hands its handler to the default executor (dispatch_dynamic_route).     *)
(* The client may leave at any time; the handler goes on, and gives the    *)
(* slot back from the loop when its thread has ended.                      *)
(*                                                                         *)
(* A task claims its rows, generates, publishes and completes.  Every      *)
(* store call and the whole publication of a plugin run in the same        *)
(* executor (asyncio.to_thread).  The publication's thread waits in        *)
(* before_activate for a coroutine, which makes a store call of its own    *)
(* (service.py, _run_plugin_publication).                                  *)
(*                                                                         *)
(* Store calls a task makes in a row are one.  A restricted handler is     *)
(* published on the loop, without a thread, and is part of "generating".   *)
(***************************************************************************)
EXTENDS Naturals, FiniteSets, Sequences

CONSTANTS
  Requests,  \* business requests that may be open at once
  Tasks,     \* implementation tasks that may run at once
  Slots,     \* MAX_CONCURRENT_HANDLERS
  PoolSize   \* threads of the default executor

ASSUME DispatchAssumption ==
  /\ Slots \in Nat \ {0}
  /\ PoolSize \in Nat \ {0}
  /\ IsFiniteSet(Requests)
  /\ IsFiniteSet(Tasks)

\* What a thread is asked to do, and for whom.
Job == ({"handler"} \X Requests) \cup ({"store", "publish"} \X Tasks)

VARIABLES
  slots,    \* handler_slots
  request,  \* what each request is doing
  task,     \* what each task is doing
  queue,    \* jobs no thread has taken yet
  running,  \* jobs a thread has taken
  done      \* jobs that have ended, before the loop learns of it

vars == <<slots, request, task, queue, running, done>>

\* left: the client of an executing handler is gone.
RequestStates == {"idle", "waiting", "admitted", "executing", "left"}

\* noting: the publication waits for its receipt to be noted; noted: it goes on.
TaskStates == {"idle", "claiming", "generating", "publishing", "noting", "noted",
               "completing"}

\* Jobs are distinct, and each is in one place.
JobsTypeOK ==
  /\ queue \in Seq(Job)
  /\ \A i \in DOMAIN queue :
       /\ queue[i] \notin running \cup done
       /\ \A k \in DOMAIN queue : queue[i] = queue[k] => i = k
  /\ running \subseteq Job
  /\ done \subseteq Job \ running
  /\ IsFiniteSet(running)
  /\ Cardinality(running) <= PoolSize

TypeOK ==
  /\ slots \in 0..Slots
  /\ request \in [Requests -> RequestStates]
  /\ task \in [Tasks -> TaskStates]
  /\ JobsTypeOK

Init ==
  /\ slots = Slots
  /\ request = [r \in Requests |-> "idle"]
  /\ task = [o \in Tasks |-> "idle"]
  /\ queue = <<>>
  /\ running = {}
  /\ done = {}

Submit(job) == queue' = Append(queue, job)

-----------------------------------------------------------------------------
(* Threads.                                                                *)

TakeJob ==
  /\ queue # <<>>
  /\ Cardinality(running) < PoolSize
  /\ running' = running \cup {Head(queue)}
  /\ queue' = Tail(queue)
  /\ UNCHANGED <<slots, request, task, done>>

\* A publication that waits for its note keeps its thread.
MayEnd(job) == job[1] = "publish" => task[job[2]] # "noting"

\* A handler has a deadline, a store call a busy timeout, a plugin's tests a limit.
EndJob(job) ==
  /\ job \in running
  /\ MayEnd(job)
  /\ running' = running \ {job}
  /\ done' = done \cup {job}
  /\ UNCHANGED <<slots, request, task, queue>>

(***************************************************************************)
(* before_activate: the thread of o puts the coroutine on the loop and     *)
(* waits; the coroutine asks for a store call.  A publication whose tests  *)
(* fail, and a rollback, end without it.                                   *)
(***************************************************************************)
AskForNote(o) ==
  /\ <<"publish", o>> \in running
  /\ task[o] = "publishing"
  /\ task' = [task EXCEPT ![o] = "noting"]
  /\ Submit(<<"store", o>>)
  /\ UNCHANGED <<slots, request, running, done>>

-----------------------------------------------------------------------------
(* Business requests, on the loop.                                         *)

Arrive(r) ==
  /\ request[r] = "idle"
  /\ request' = [request EXCEPT ![r] = "waiting"]
  /\ UNCHANGED <<slots, task, queue, running, done>>

\* Variations: admission without a limit; the finally clause that never gives the slot
\* back.
MayAcquireAlways == TRUE

MayAcquire == slots > 0

FinallyNeverReleases(r) == FALSE

\* execution is None.
FinallyReleases(r) == request[r] = "admitted"

AfterFinally(r) == IF FinallyReleases(r) THEN slots + 1 ELSE slots

Acquire(r) ==
  /\ request[r] = "waiting"
  /\ MayAcquire
  /\ slots' = slots - 1
  /\ request' = [request EXCEPT ![r] = "admitted"]
  /\ UNCHANGED <<task, queue, running, done>>

\* 429, or the client has left.
GiveUp(r) ==
  /\ request[r] = "waiting"
  /\ request' = [request EXCEPT ![r] = "idle"]
  /\ UNCHANGED <<slots, task, queue, running, done>>

\* The body is too large, not JSON, or never complete; the artifact is missing.
Reject(r) ==
  /\ request[r] = "admitted"
  /\ slots' = AfterFinally(r)
  /\ request' = [request EXCEPT ![r] = "idle"]
  /\ UNCHANGED <<task, queue, running, done>>

Execute(r) ==
  /\ request[r] = "admitted"
  /\ request' = [request EXCEPT ![r] = "executing"]
  /\ Submit(<<"handler", r>>)
  /\ UNCHANGED <<slots, task, running, done>>

\* The coroutine is cancelled; the shield keeps the handler.
Disconnect(r) ==
  /\ request[r] = "executing"
  /\ slots' = AfterFinally(r)
  /\ request' = [request EXCEPT ![r] = "left"]
  /\ UNCHANGED <<task, queue, running, done>>

\* A variation: the callback is on the future the coroutine waits for.
OnlyIfAwaited(r) == request[r] = "executing"

\* add_done_callback is on the execution itself, whoever waits for it.
CallbackRuns(r) == request[r] \in {"executing", "left"}

\* release_handler_slot, and the answer if the client is still there.
Return(r) ==
  /\ <<"handler", r>> \in done
  /\ CallbackRuns(r)
  /\ done' = done \ {<<"handler", r>>}
  /\ slots' = AfterFinally(r) + 1
  /\ request' = [request EXCEPT ![r] = "idle"]
  /\ UNCHANGED <<task, queue, running>>

-----------------------------------------------------------------------------
(* Implementation tasks, on the loop.                                      *)

Begin(o) ==
  /\ task[o] = "idle"
  /\ task' = [task EXCEPT ![o] = "claiming"]
  /\ Submit(<<"store", o>>)
  /\ UNCHANGED <<slots, request, running, done>>

\* The plugin is generated, within the limits of the generator.
Publish(o) ==
  /\ task[o] = "generating"
  /\ task' = [task EXCEPT ![o] = "publishing"]
  /\ Submit(<<"publish", o>>)
  /\ UNCHANGED <<slots, request, running, done>>

\* No plugin is generated: an exception, or a restricted handler.
SkipPublication(o) ==
  /\ task[o] = "generating"
  /\ task' = [task EXCEPT ![o] = "completing"]
  /\ Submit(<<"store", o>>)
  /\ UNCHANGED <<slots, request, running, done>>

\* A variation: an exception of the store call never reaches the thread.
AfterNoteIfStored(stored) == IF stored THEN "noted" ELSE "noting"

\* future.result() returns or raises.
AfterNote(stored) == "noted"

\* The store call of o has answered, or raised.
StoreAnswers(o, stored) ==
  /\ <<"store", o>> \in done
  /\ done' = done \ {<<"store", o>>}
  /\ task' = [task EXCEPT ![o] =
       IF task[o] = "noting" THEN AfterNote(stored)
       ELSE IF task[o] = "claiming" /\ stored THEN "generating"
       ELSE "idle"]
  /\ UNCHANGED <<slots, request, queue, running>>

\* The publication has returned or raised: complete or fail the rows.
PublicationAnswers(o) ==
  /\ <<"publish", o>> \in done
  /\ done' = done \ {<<"publish", o>>}
  /\ task' = [task EXCEPT ![o] = "completing"]
  /\ Submit(<<"store", o>>)
  /\ UNCHANGED <<slots, request, running>>

RequestStep(r) ==
  \/ Arrive(r) \/ Acquire(r) \/ GiveUp(r) \/ Reject(r) \/ Execute(r)
  \/ Disconnect(r) \/ Return(r)

TaskStep(o) ==
  \/ Begin(o) \/ Publish(o) \/ SkipPublication(o) \/ AskForNote(o)
  \/ PublicationAnswers(o)
  \/ \E stored \in BOOLEAN : StoreAnswers(o, stored)

Next ==
  \/ TakeJob
  \/ \E job \in Job : EndJob(job)
  \/ \E r \in Requests : RequestStep(r)
  \/ \E o \in Tasks : TaskStep(o)

Spec == Init /\ [][Next]_vars

(***************************************************************************)
(* The threads and the loop go on, and what they call has a time limit.    *)
(* Nothing is assumed of clients: they may never come, never complete a    *)
(* body, and never leave.                                                  *)
(***************************************************************************)
Fairness ==
  /\ WF_vars(TakeJob)
  /\ \A job \in Job : WF_vars(EndJob(job))
  /\ \A r \in Requests : WF_vars(Return(r))
  /\ \A o \in Tasks :
       /\ WF_vars(Publish(o) \/ SkipPublication(o))
       /\ WF_vars(\E stored \in BOOLEAN : StoreAnswers(o, stored))
       /\ WF_vars(PublicationAnswers(o))

FairSpec == Spec /\ Fairness

-----------------------------------------------------------------------------
(* Properties.                                                             *)

\* Jobs whose end the loop has not learned of yet.
Submitted == {queue[i] : i \in DOMAIN queue} \cup running \cup done

\* The requests that hold a slot.
Holders == {r \in Requests : request[r] \in {"admitted", "executing", "left"}}

(***************************************************************************)
(* No slot is lost and none is given back twice, whether a request is      *)
(* rejected, answered or abandoned: two places release it (api.py:877-884  *)
(* and 2198-2200).                                                         *)
(***************************************************************************)
SlotsAccounted == slots + Cardinality(Holders) = Slots

(***************************************************************************)
(* MAX_CONCURRENT_HANDLERS bounds the handlers in the pool, also those     *)
(* whose client has left (USAGE.md:340-344, README.md:54).                 *)
(***************************************************************************)
HandlersBounded ==
  Cardinality({r \in Requests : <<"handler", r>> \in Submitted}) <= Slots

(***************************************************************************)
(* A handler that was submitted ends and gives its slot back, with or      *)
(* without its client (USAGE.md:344).                                      *)
(***************************************************************************)
HandlerEnds ==
  \A r \in Requests : request[r] \in {"executing", "left"} ~> request[r] = "idle"

(***************************************************************************)
(* A task ends: its operation can be polled until finish or failed         *)
(* (README.md:91).                                                         *)
(***************************************************************************)
TaskEnds == \A o \in Tasks : task[o] # "idle" ~> task[o] = "idle"
=============================================================================
