--------------------------- MODULE MCPostLifecycle ---------------------------
(***************************************************************************)
(* PostLifecycle for TLC: one post and two devices, one that queues writes *)
(* while it is offline and one that makes its writes one at a time, and a  *)
(* bound on the calls in flight.                                           *)
(***************************************************************************)
EXTENDS PostLifecycle, FiniteSets, TLC

CONSTANTS
    d1, d2,
    MaxCalls   \* bound: Storage calls and document reads in flight

TwoDevices == {d1, d2}

QueueBounds == (d1 :> 2) @@ (d2 :> 1)

\* Calls in flight and queued writes of both devices together.
Load == Cardinality(tasks) + Len(pending[d1]) + Len(pending[d2])

\* Once a write is repeated, fewer things are under way at a time.
CallsBounded ==
    /\ Cardinality(tasks) <= MaxCalls
    /\ repeated # {} => Load <= MaxCalls

=============================================================================
