----------------------------- MODULE RouteTable -----------------------------
(***************************************************************************)
(* What RouteRuntime (self_grow_agent/runtime.py) promises its callers,    *)
(* without locks, files or restarts: one durable table of routes that      *)
(* changes only by compare-and-swap on the version of one route.           *)
(*                                                                         *)
(* RouteRegistry, the model of the code, implements this specification     *)
(* with table <- the routes a restart would restore.                       *)
(***************************************************************************)
EXTENDS Naturals

CONSTANTS
  Routes,         \* method/path pairs, which are also the deterministic route ids
  Projects,
  Codes,          \* generated handlers: a source text or a plugin bundle
  MaxVersion,     \* bound on a route's version
  EvictingModes,  \* execution modes whose move may replace another route
  NoRoute

Modes == {"restricted", "plugin"}

(***************************************************************************)
(* origin is a history field: the code its route was created with, carried *)
(* along by updates and moves, so it names the route wherever it goes.     *)
(***************************************************************************)
Record == [version : 1..MaxVersion, project : Projects, mode : Modes,
           code : Codes, origin : Codes]

VARIABLE table

Init == table = [r \in Routes |-> NoRoute]

(***************************************************************************)
(* The actions constrain the record a step leaves in the table instead of  *)
(* enumerating Record: RouteTable is a property of other specifications.   *)
(***************************************************************************)

\* Creating needs a free route and starts it at version one.
Create(r) ==
  /\ table[r] = NoRoute
  /\ table'[r] \in Record
  /\ table'[r].version = 1
  /\ \A s \in Routes \ {r} : table'[s] = table[s]

\* The route at r lives on at t: the same route, exactly one version on.
Succeeds(t, r) ==
  /\ table[r] # NoRoute
  /\ table'[t] \in Record
  /\ table'[t].version = table[r].version + 1
  /\ table'[t].origin = table[r].origin

\* An update, or a move to another project under the same path.
Update(r) ==
  /\ Succeeds(r, r)
  /\ \A s \in Routes \ {r} : table'[s] = table[s]

\* A move to another path, which must be free.
Move(r, t) ==
  /\ t # r
  /\ Succeeds(t, r)
  /\ table[t] = NoRoute \/ table'[t].mode \in EvictingModes
  /\ table'[r] = NoRoute
  /\ \A s \in Routes \ {r, t} : table'[s] = table[s]

Next ==
  /\ table' # table
  /\ \/ \E r \in Routes : Create(r) \/ Update(r)
     \/ \E r, t \in Routes : Move(r, t)
  /\ table' = [r \in Routes |-> table'[r]]

Spec == Init /\ [][Next]_table
=============================================================================
