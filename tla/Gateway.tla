-------------------------------- MODULE Gateway --------------------------------
(***************************************************************************)
(* NostrMCPGateway (gateway/mod.rs): a server transport that is started    *)
(* and stopped only through a Lifecycle.  send_response is passed through, *)
(* whether the gateway runs or not; notifications are not offered, and     *)
(* announce() is in module Announcements.                                  *)
(***************************************************************************)
EXTENDS ServerTransport, Lifecycle

gvars == <<vars, lifecycle>>

GInit == Init /\ LInit

------------------------------------------------------------------------------
GatewayStart(l) == Start(l) /\ Activate

\* The transport connects and then fails, or the future is dropped there: start()
\* leaves before the flag is set.
GatewayStartFails == MayStart /\ StartFails /\ Refuse

\* It is running, or no relay could be added.
GatewayStartRefused == Exclusive /\ Refuse /\ UNCHANGED vars

StopIgnored == UNCHANGED vars /\ Deactivate    \* mutant: the transport stays open
\* stop() of a gateway that does not run does nothing.  The flag is reset when
\* close() has gone through its steps.
Stopping == Close /\ UNCHANGED lifecycle
GatewayStop == is_running /\ Exclusive /\ Stopping

Stopped == admin_at # "idle" /\ admin_at' = "idle"

GatewayRunning ==
  /\ Running
  /\ \/ Stopped /\ Deactivate
     \/ ~Stopped /\ UNCHANGED lifecycle

GNext ==
  \/ GatewayRunning
  \/ \E l \in Loops : GatewayStart(l)
  \/ GatewayStartFails \/ GatewayStartRefused \/ GatewayStop

GSpec == GInit /\ [][GNext]_gvars

------------------------------------------------------------------------------
(* Safety *)

\* A gateway that is not active is not connected either, whatever sequence of
\* start() and stop() led there, except after a start() that failed half-way: then
\* is_active() denies it, stop() does nothing, and only another start() helps.
InactiveIsClosed == connected /\ ~is_running => outcome = "error"

\* Until it is stopped for the first time, a gateway hands each message to the
\* application once, however often start() is called and however it fails; after
\* a stop() the loop of the earlier start() is still there to do it again.
OnceUntilStopped == ~stopped => ForwardedOnce
================================================================================
