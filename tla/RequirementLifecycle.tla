------------------------ MODULE RequirementLifecycle ------------------------
(***************************************************************************)
(* What RequirementStore (self_grow_agent/metadata.py) promises those who  *)
(* read statuses, the console and the clients that poll (docs/USAGE.md:291 *)
(* and 387-423), without routes, versions, receipts and recovery rules: a  *)
(* requirement is written, claimed and settled; an operation is accepted   *)
(* for a requirement that has none under way, begins together with a claim *)
(* of that requirement, and ends once.                                     *)
(*                                                                         *)
(* RequirementStore, the model of the code, implements this specification  *)
(* with the status columns of its two tables.                              *)
(***************************************************************************)
CONSTANTS Requirements, Operations

VARIABLES
  status,   \* of each requirement, "none" before it exists
  report,   \* the status of each operation, "none" before it is accepted
  subject   \* the requirement an operation is for, once it is accepted

vars == <<status, report, subject>>

Init ==
  /\ status = [q \in Requirements |-> "none"]
  /\ report = [o \in Operations |-> "none"]

UnderWay(o) == report[o] \in {"accepted", "implementing"}

\* Its content is set, again or for the first time.
Write(q) ==
  /\ status[q] # "implementing"
  /\ status' = [status EXCEPT ![q] = "draft"]

\* Only what is new, was changed, or has failed can be claimed.
Claim(q) ==
  /\ status[q] \in {"draft", "failed"}
  /\ status' = [status EXCEPT ![q] = "implementing"]

Settle(q) ==
  /\ status[q] = "implementing"
  /\ \E outcome \in {"active", "failed"} :
       status' = [status EXCEPT ![q] = outcome]

\* A revision writes the requirement in the same step.
Accept(o, q) ==
  /\ status[q] # "none"
  /\ report[o] = "none"
  /\ \A p \in Operations : UnderWay(p) => subject[p] # q
  /\ report' = [report EXCEPT ![o] = "accepted"]
  /\ subject' = [subject EXCEPT ![o] = q]
  /\ Write(q) \/ UNCHANGED status

Begin(o) ==
  /\ report[o] = "accepted"
  /\ report' = [report EXCEPT ![o] = "implementing"]
  /\ Claim(subject[o])
  /\ UNCHANGED subject

\* Only an operation that began can finish; one that waits can fail.
Outcome(o) == IF report[o] = "accepted" THEN {"failed"} ELSE {"finish", "failed"}

End(o) ==
  /\ UnderWay(o)
  /\ \E outcome \in Outcome(o) : report' = [report EXCEPT ![o] = outcome]
  /\ UNCHANGED <<status, subject>>

\* A new process finds nothing under way that it could go on with.
Restart ==
  /\ status' = [q \in Requirements |->
       IF status[q] = "implementing" THEN status'[q] ELSE status[q]]
  /\ \A q \in Requirements :
       status[q] = "implementing" => status'[q] \in {"active", "failed"}
  /\ report' = [o \in Operations |-> IF UnderWay(o) THEN report'[o] ELSE report[o]]
  /\ \A o \in Operations : UnderWay(o) => report'[o] \in Outcome(o)
  /\ UNCHANGED subject

Next ==
  \/ \E q \in Requirements :
       (Write(q) \/ Claim(q) \/ Settle(q)) /\ UNCHANGED <<report, subject>>
  \/ \E o \in Operations, q \in Requirements : Accept(o, q)
  \/ \E o \in Operations : Begin(o) \/ End(o)
  \/ Restart

Spec == Init /\ [][Next]_vars
=============================================================================
