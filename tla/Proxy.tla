--------------------------------- MODULE Proxy ---------------------------------
(***************************************************************************)
(* NostrMCPProxy (proxy/mod.rs): a client transport that is started and    *)
(* stopped only through a Lifecycle.  send is passed through, whether the  *)
(* proxy runs or not.                                                      *)
(***************************************************************************)
EXTENDS ClientTransport, Lifecycle

pvars == <<vars, lifecycle>>

PInit == Init /\ LInit

------------------------------------------------------------------------------
ProxyStart(l) == Start(l) /\ Activate

\* The transport connects and then fails, or the future is dropped there.
ProxyStartFails == MayStart /\ StartFails /\ Refuse

ProxyStartRefused == NoSendInProgress /\ Refuse /\ UNCHANGED vars

\* close() only disconnects: the loop and the pending ids stay.
ProxyStop == is_running /\ Close /\ Deactivate

PNext ==
  \/ Running /\ UNCHANGED lifecycle
  \/ \E l \in Loops : ProxyStart(l)
  \/ ProxyStartFails \/ ProxyStartRefused \/ ProxyStop

PSpec == PInit /\ [][PNext]_pvars
PFairSpec == PSpec /\ Fairness

------------------------------------------------------------------------------
(* Safety *)

\* Until it is stopped for the first time, a proxy uses an id up by exactly one
\* message, however often start() is called and however it fails; after a stop() the
\* loop of the earlier start() is still there, and both may find the same id pending.
AnsweredOnceUntilStopped == ~stopped => AnsweredOnce
================================================================================
