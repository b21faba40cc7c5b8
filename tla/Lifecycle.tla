------------------------------- MODULE Lifecycle -------------------------------
(***************************************************************************)
(* What the gateway (gateway/mod.rs) and the proxy (proxy/mod.rs) add to   *)
(* the transport they own: the flag is_active() returns, and the receiver  *)
(* of the transport's channel, which exists once and which the first       *)
(* start() that gets as far takes away.  start() and stop() have &mut      *)
(* self, so at most one of them is in progress, and no call on &self.      *)
(***************************************************************************)
VARIABLES
  is_running,
  receiver,  \* the transport still has its message_rx
  outcome,   \* "receiver" or "error" (or dropped) for the last start(), or "none"
  stopped    \* history: some stop() has closed the transport

lifecycle == <<is_running, receiver, outcome, stopped>>

LInit == is_running = FALSE /\ receiver = TRUE /\ outcome = "none" /\ stopped = FALSE

MayStartAlways == TRUE    \* mutant: no check whether it is running
MayStart == ~is_running

\* The transport has started: the flag is set, then the receiver is asked for.
Activate ==
  /\ MayStart
  /\ is_running' = TRUE
  /\ receiver' = FALSE
  /\ outcome' = IF receiver THEN "receiver" ELSE "error"
  /\ UNCHANGED stopped

\* start() returns an error: it is running already, or the transport failed.
Refuse == outcome' = "error" /\ UNCHANGED <<is_running, receiver, stopped>>

\* stop() has closed the transport.
Deactivate == is_running' = FALSE /\ stopped' = TRUE /\ UNCHANGED <<receiver, outcome>>

\* gateway/mod.rs: "Start the gateway. Returns a receiver for incoming requests."
\* A start() that activates the gateway returns its receiver.
ActivationGivesReceiver ==
  [][~is_running /\ is_running' => outcome' = "receiver"]_lifecycle
================================================================================
