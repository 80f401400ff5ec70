------------------------------- MODULE Watched -------------------------------
(***************************************************************************)
(* An API object as a controller meets it: the sequence of its states from *)
(* the one in the informer's cache to the one in the API server.  Writes   *)
(* append, deliveries of the watch drop the front.  A state is None or     *)
(* {object}.  A resource version is modelled by the state itself.          *)
(***************************************************************************)
EXTENDS Naturals, Sequences

CONSTANT MaxLag     \* bound on the changes of one object a cache is behind

ASSUME LagAssumption == MaxLag \in Nat \ {0}

None == {}

Now(log) == log[Len(log)]
Cached(log) == log[1]

(* Room for another change, and the log with it; writing what is already   *)
(* there changes nothing and is not delivered.                             *)
Accepts(log, state) == Len(log) <= MaxLag \/ state = Now(log)
Changed(log, state) == IF state = Now(log) THEN log ELSE Append(log, state)

(* Where the next delivery may end: one change further or, after a relist, *)
(* several, unless the relist shows what was cached before.                *)
Later(log) == {k \in 2 .. Len(log) : log[k] # Cached(log)}
From(log, k) == SubSeq(log, k, Len(log))
==============================================================================
