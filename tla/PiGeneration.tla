----------------------------- MODULE PiGeneration -----------------------------
(***************************************************************************)
(* How one generator of self_grow_agent runs Pi (pi_generator.py,          *)
(* plugin_generator.py, pi_rpc.py).  A run waits for a slot within a time  *)
(* limit, starts a process in a session of its own, reads its events until *)
(* the agent has settled, and then takes the whole process group down      *)
(* before the slot is free again.  The caller may be cancelled at any      *)
(* await, more than once.                                                  *)
(*                                                                         *)
(* Handlers and plugins have a generator each, with slots of its own; the  *)
(* two share nothing, so this is either of them.  Pi is external: it sends *)
(* whatever it likes, forks, ignores every signal but SIGKILL, and exits   *)
(* when it likes.  A process that leaves the group is out of reach of the  *)
(* code, and is not modelled.                                              *)
(***************************************************************************)
EXTENDS Naturals, FiniteSets, Sequences

CONSTANTS
  Runs,        \* generations that may be under way at once
  MaxRuns,     \* max_concurrent_runs
  MaxStream,   \* max_event_stream_bytes, an event being one unit
  MaxRetained  \* _MAX_RETAINED_EVENTS

ASSUME GenerationAssumption ==
  /\ IsFiniteSet(Runs)
  /\ MaxRuns \in Nat \ {0}
  /\ MaxStream \in Nat
  /\ MaxRetained \in Nat

(***************************************************************************)
(* Lines of Pi as the reader tells them apart: the answer to the prompt,   *)
(* the end of an assistant message (with stopReason "stop" and a text, or  *)
(* not), agent_settled, a streaming update, any other event; and "bad",    *)
(* what the reader raises for at once: a refused prompt, no JSON, a line   *)
(* too long or cut, the end of the stream.                                 *)
(***************************************************************************)
Event == {"accepted", "assistant_stop", "assistant_other", "settled", "streaming",
          "ignored", "bad"}

Assistant == {"assistant_stop", "assistant_other"}

\* Events that count against the limits and mean nothing to the reader.
Noise == {"streaming", "ignored"}

VARIABLES
  slots,    \* _run_slots
  phase,    \* where each run is
  reader,   \* the locals of _read_result
  seen,     \* history: the events a run has read, without the noise
  outcome,  \* what the run will return, or raise, once cleaned up
  answer,   \* what its caller got
  group,    \* processes of the run's group that exist
  doomed    \* those among them that have been sent SIGKILL

vars == <<slots, phase, reader, seen, outcome, answer, group, doomed>>

Cleaning == {"closing", "terminating", "killing"}

\* The phases in which a run has its slot.
Holding == {"starting", "reading"} \cup Cleaning

Outcome == {"none", "result", "failed", "cancelled"}

NewReader == [acknowledged |-> FALSE, settled |-> FALSE, final |-> "none",
              total |-> 0, retained |-> 0]

Reader == [acknowledged : BOOLEAN, settled : BOOLEAN, final : Assistant \cup {"none"},
           total : 0..MaxStream, retained : 0..MaxRetained]

TypeOK ==
  /\ slots \in 0..MaxRuns
  /\ phase \in [Runs -> {"idle", "waiting"} \cup Holding]
  /\ reader \in [Runs -> Reader]
  /\ seen \in [Runs -> Seq(Event)]
  /\ outcome \in [Runs -> Outcome]
  /\ answer \in [Runs -> Outcome \cup {"full"}]
  /\ group \in [Runs -> SUBSET {"leader", "child"}]
  /\ doomed \in [Runs -> SUBSET {"leader", "child"}]

Init ==
  /\ slots = MaxRuns
  /\ phase = [g \in Runs |-> "idle"]
  /\ reader = [g \in Runs |-> NewReader]
  /\ seen = [g \in Runs |-> <<>>]
  /\ outcome = [g \in Runs |-> "none"]
  /\ answer = [g \in Runs |-> "none"]
  /\ group = [g \in Runs |-> {}]
  /\ doomed = [g \in Runs |-> {}]

processes == <<group, doomed>>

-----------------------------------------------------------------------------
(* Admission: generate and generate_plugin up to the run.                  *)

\* A bound of the model: an identifier is used again when its processes are gone.
Begin(g) ==
  /\ phase[g] = "idle"
  /\ group[g] = {}
  /\ phase' = [phase EXCEPT ![g] = "waiting"]
  /\ answer' = [answer EXCEPT ![g] = "none"]
  /\ UNCHANGED <<slots, reader, seen, outcome, processes>>

\* Variations: a slot is taken without waiting for one.
MayAdmitAlways == TRUE

MayAdmit == slots > 0

Admit(g) ==
  /\ phase[g] = "waiting"
  /\ MayAdmit
  /\ slots' = slots - 1
  /\ phase' = [phase EXCEPT ![g] = "starting"]
  /\ UNCHANGED <<reader, seen, outcome, answer, processes>>

\* The admission timeout, a cancellation while it waits, or the prompt of a plugin that
\* is too large (which is looked at before the wait).
NotAdmitted(g, a) ==
  /\ phase[g] = "waiting"
  /\ a \in {"full", "cancelled", "failed"}
  /\ phase' = [phase EXCEPT ![g] = "idle"]
  /\ answer' = [answer EXCEPT ![g] = a]
  /\ UNCHANGED <<slots, reader, seen, outcome, processes>>

(***************************************************************************)
(* The run returns or raises a: the finally clause gives the slot back.    *)
(* A result is then parsed, and its workspace removed; either may fail.    *)
(***************************************************************************)
\* A variation: release after the await instead of in a finally clause.
SlotsAfterAnswer(a) == IF a = "cancelled" THEN slots ELSE slots + 1

SlotsAfter(a) == slots + 1

Return(g, a) ==
  /\ phase' = [phase EXCEPT ![g] = "idle"]
  /\ slots' = SlotsAfter(a)
  /\ \E usable \in BOOLEAN :
       answer' = [answer EXCEPT ![g] = IF a = "result" /\ ~usable THEN "failed" ELSE a]
  /\ outcome' = [outcome EXCEPT ![g] = "none"]
  /\ seen' = [seen EXCEPT ![g] = <<>>]

-----------------------------------------------------------------------------
(* The run: run and _run_process.                                          *)

Start(g) ==
  /\ phase[g] = "starting"
  /\ phase' = [phase EXCEPT ![g] = "reading"]
  /\ group' = [group EXCEPT ![g] = {"leader"}]
  /\ doomed' = [doomed EXCEPT ![g] = {}]
  /\ UNCHANGED <<slots, reader, seen, outcome, answer>>

\* No workspace, no executable, a prompt too large, the deadline, or a cancellation
\* (asyncio then takes the new process down itself).
NotStarted(g, a) ==
  /\ phase[g] = "starting"
  /\ a \in {"failed", "cancelled"}
  /\ Return(g, a)
  /\ UNCHANGED <<reader, processes>>

(***************************************************************************)
(* The end of the reading, with outcome a: the finally clause starts the   *)
(* clean-up.  The locals of the reader are dropped, and with them the      *)
(* history, unless there is a result.                                      *)
(***************************************************************************)
Finish(g, a, s) ==
  /\ phase' = [phase EXCEPT ![g] = "closing"]
  /\ outcome' = [outcome EXCEPT ![g] = a]
  /\ reader' = [reader EXCEPT ![g] = NewReader]
  /\ seen' = [seen EXCEPT ![g] = IF a = "result" THEN s ELSE <<>>]

\* _read_result raises at the event e.
Rejects(r, e) ==
  \/ e = "bad"
  \/ r.total = MaxStream
  \/ e # "streaming" /\ r.retained = MaxRetained
  \/ e = "accepted" /\ r.acknowledged

\* A variation: the first assistant message is kept.
FinalKeptFirst(r, e) == IF e \in Assistant /\ r.final = "none" THEN e ELSE r.final

\* final_assistant = message
Final(r, e) == IF e \in Assistant THEN e ELSE r.final

Reading(r, e) ==
  [acknowledged |-> r.acknowledged \/ e = "accepted",
   settled |-> r.settled \/ e = "settled",
   final |-> Final(r, e),
   total |-> r.total + 1,
   retained |-> IF e = "streaming" THEN r.retained ELSE r.retained + 1]

Complete(r) == r.acknowledged /\ r.settled

\* The checks after the loop.
Verdict(r) == IF r.final = "assistant_stop" THEN "result" ELSE "failed"

ReadEvent(g, e) ==
  /\ phase[g] = "reading"
  /\ LET next == Reading(reader[g], e)
         s == IF e \in Noise THEN seen[g] ELSE Append(seen[g], e)
     IN  IF Rejects(reader[g], e) THEN Finish(g, "failed", s)
         ELSE IF Complete(next) THEN Finish(g, Verdict(next), s)
         ELSE /\ reader' = [reader EXCEPT ![g] = next]
              /\ seen' = [seen EXCEPT ![g] = s]
              /\ UNCHANGED <<phase, outcome>>
  /\ UNCHANGED <<slots, answer, processes>>

\* Variations: the deadline covers the start of the process only.
TimedToStart == {"starting"}

\* async with asyncio.timeout
Timed == {"starting", "reading"}

\* The deadline, or a pipe that breaks while the prompt is written.
GiveUp(g) ==
  /\ phase[g] = "reading"
  /\ "reading" \in Timed
  /\ Finish(g, "failed", seen[g])
  /\ UNCHANGED <<slots, answer, processes>>

Cancel(g) ==
  /\ phase[g] = "reading"
  /\ Finish(g, "cancelled", seen[g])
  /\ UNCHANGED <<slots, answer, processes>>

-----------------------------------------------------------------------------
(* The clean-up: _finish_cleanup and _cleanup_process.                     *)

\* The shield keeps the clean-up going; the cancellation is raised after it.
CancelCleaning(g) ==
  /\ phase[g] \in Cleaning
  /\ outcome' = [outcome EXCEPT ![g] = "cancelled"]
  /\ seen' = [seen EXCEPT ![g] = <<>>]
  /\ UNCHANGED <<slots, phase, reader, answer, processes>>

\* A variation: the leader alone is killed.
LeaderOnly(g) == group[g] \cap {"leader"}

\* _wait_for_process_tree: the leader is reaped and no process of the group is left.
TreeGone(g) == group[g] = {}

\* os.killpg(SIGKILL)
Signalled(g) == group[g]

\* stdin is closed, and SIGTERM sent when the time of grace is over.
Terminate(g) ==
  /\ phase[g] = "closing"
  /\ ~TreeGone(g)
  /\ phase' = [phase EXCEPT ![g] = "terminating"]
  /\ UNCHANGED <<slots, reader, seen, outcome, answer, processes>>

Kill(g) ==
  /\ phase[g] = "terminating"
  /\ ~TreeGone(g)
  /\ phase' = [phase EXCEPT ![g] = "killing"]
  /\ doomed' = [doomed EXCEPT ![g] = Signalled(g)]
  /\ UNCHANGED <<slots, reader, seen, outcome, answer, group>>

\* kill_unreaped
MayLeave(g) == phase[g] = "killing"

CleanedUp(g) ==
  /\ phase[g] \in Cleaning
  /\ TreeGone(g) \/ MayLeave(g)
  /\ Return(g, outcome[g])
  /\ UNCHANGED <<reader, processes>>

Cleanup(g) == Terminate(g) \/ Kill(g) \/ CleanedUp(g)

-----------------------------------------------------------------------------
(* The processes of Pi.                                                    *)

Fork(g) ==
  /\ "leader" \in group[g] \ doomed[g]
  /\ group' = [group EXCEPT ![g] = @ \cup {"child"}]
  /\ UNCHANGED <<slots, phase, reader, seen, outcome, answer, doomed>>

Exit(g, p) ==
  /\ p \in group[g]
  /\ group' = [group EXCEPT ![g] = @ \ {p}]
  /\ doomed' = [doomed EXCEPT ![g] = @ \ {p}]
  /\ UNCHANGED <<slots, phase, reader, seen, outcome, answer>>

RunStep(g) ==
  \/ Begin(g) \/ Admit(g)
  \/ \E a \in {"full", "cancelled", "failed"} : NotAdmitted(g, a)
  \/ Start(g)
  \/ \E a \in {"failed", "cancelled"} : NotStarted(g, a)
  \/ \E e \in Event : ReadEvent(g, e)
  \/ GiveUp(g) \/ Cancel(g) \/ CancelCleaning(g)
  \/ Terminate(g) \/ Kill(g) \/ CleanedUp(g)
  \/ Fork(g)
  \/ \E p \in {"leader", "child"} : Exit(g, p)

Next == \E g \in Runs : RunStep(g)

Spec == Init /\ [][Next]_vars

(***************************************************************************)
(* The event loop goes on and its timers fire: every wait of a run has a   *)
(* limit.  Nothing is assumed of Pi, not even that a killed process dies.  *)
(***************************************************************************)
Fairness ==
  \A g \in Runs :
    /\ WF_vars(NotAdmitted(g, "full"))
    /\ WF_vars(Start(g) \/ NotStarted(g, "failed"))
    /\ WF_vars(GiveUp(g))
    /\ WF_vars(Cleanup(g))

FairSpec == Spec /\ Fairness

-----------------------------------------------------------------------------
(* Properties.                                                             *)

Holders == {g \in Runs : phase[g] \in Holding}

\* A slot is lost by no failure, timeout or cancellation, and none is returned twice:
\* the slots that are free and the runs that hold one make up the limit (finally:
\* self._run_slots.release()).
SlotsAccounted == slots + Cardinality(Holders) = MaxRuns

\* No process outlives its run: once the caller has its answer, whatever is left of the
\* group has been sent SIGKILL, though the leader was gone before its children, ignored
\* SIGTERM, or the caller was cancelled during the clean-up (_cleanup_process).
NoChildLeft ==
  \A g \in Runs : phase[g] \notin Holding => group[g] \subseteq doomed[g]

\* However many generations were cancelled or timed out, no more Pi processes go on than
\* there are slots: a slot is free again only after its group is down (run, then release).
PiBounded ==
  Cardinality({g \in Runs : group[g] \ doomed[g] # {}}) <= MaxRuns

\* What Pi has to have sent for its text to be used, whatever else came in between and
\* in whatever order: the prompt accepted, once; the agent settled; and the last
\* assistant message a complete one.
Accepted(s) ==
  /\ \E i \in DOMAIN s : s[i] = "settled"
  /\ \E i \in DOMAIN s : s[i] = "accepted" /\ \A j \in DOMAIN s : s[j] = "accepted" => i = j
  /\ \E i \in DOMAIN s :
       s[i] = "assistant_stop" /\ \A j \in DOMAIN s : s[j] \in Assistant => j <= i
  /\ \A i \in DOMAIN s : s[i] # "bad"

\* A caller gets a result only for such a stream, and never when it was cancelled
\* (_read_result: the loop goes on until acknowledged and settled).
ResultIsAccepted ==
  [][\A g \in Runs :
       phase[g] # "idle" /\ phase'[g] = "idle" /\ answer'[g] = "result"
         => Accepted(seen[g])]_vars

\* Every generation ends, whatever Pi does or fails to do, and however often its caller
\* is cancelled.
GenerationEnds ==
  \A g \in Runs : phase[g] # "idle" ~> phase[g] = "idle"

=============================================================================
