------------------------------- MODULE RelayFeed -------------------------------
(***************************************************************************)
(* The receiving side of the relay pool as both transports use it: the     *)
(* broadcast channel of nostr-sdk's Client::notifications().  A receiver   *)
(* is a bounded queue.  A sender never waits: it overwrites the oldest     *)
(* element of a receiver that is full, whose next recv() then fails with   *)
(* Lagged.  The library is not part of the repository.                     *)
(***************************************************************************)
EXTENDS Naturals, Sequences

CONSTANT NotifCapacity  \* capacity of the channel

ASSUME CapacityAssumption == NotifCapacity \in Nat \ {0}

Full(q)    == Len(q) = NotifCapacity
Push(q, w) == Append(IF Full(q) THEN Tail(q) ELSE q, w)

Queued(q, w) == \E i \in 1 .. Len(q) : q[i] = w
================================================================================
