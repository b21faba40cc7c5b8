---------------------------- MODULE Gateway_proofs ----------------------------
(***************************************************************************)
(* Proofs about Gateway: it adds nothing to what a server transport may    *)
(* do, so every theorem about ServerTransport holds of it, and its flag is *)
(* true to the connection.                                                 *)
(***************************************************************************)
EXTENDS Gateway, ServerTransport_traffic

\* A step of the gateway is a step of its transport, or none.
LEMMA GatewayStep == [GNext]_gvars => [Next]_vars
<1>1. ASSUME GNext
      PROVE  [Next]_vars
  BY <1>1 DEF GNext, GatewayRunning, GatewayStart, GatewayStartFails, GatewayStartRefused,
              GatewayStop, Stopping, Next, Admin
<1>2. UNCHANGED gvars => UNCHANGED vars
  BY DEF gvars
<1> QED BY <1>1, <1>2

\* A gateway is a server transport that is used in a certain way.
THEOREM GatewayIsTransport == GSpec => Spec
<1>1. GInit => Init
  BY DEF GInit
<1> QED BY <1>1, GatewayStep, PTL DEF GSpec, Spec

\* Through the starts, failed starts and stops of a gateway, a request it accepted stays
\* answerable, is forgotten only when answered, and is answered under its own id;
\* what is mapped is tracked; and no two of its tasks wait for each other.
THEOREM GatewaySafe == GSpec => /\ []Answerable /\ []MappedIsTracked /\ []HoldersProceed
                                /\ PublishesRestoredId /\ ForgetsOnlyAnswered
BY GatewayIsTransport, AnswerableTheorem, MappedTheorem, ProceedTheorem, RestoredTheorem,
   ForgetsTheorem, PTL

\* To its clients a gateway is a RequestService, restarted or not.
THEOREM GatewayService == GSpec => ImplementsService
BY GatewayIsTransport, ServiceRefinement, PTL

Flag ==
  /\ InactiveIsClosed
  /\ admin_at # "idle" => ~connected

\* The flag and the connection part ways only in a start that fails half-way, whatever
\* is called and fails in which order.
THEOREM InactiveTheorem == GSpec => []InactiveIsClosed
<1>1. GInit => Flag
  BY DEF GInit, Init, Flag, InactiveIsClosed
<1>2. ASSUME Flag, [GNext]_gvars
      PROVE  Flag'
  <2>1. CASE GatewayRunning
    <3>1. connected' = connected
      BY <2>1 DEF GatewayRunning, Running, Deliver, Tick, LoopStep, LoopSubscribe, LoopRecv,
                  LoopLag, LoopTrack, LoopMap, LoopFinish, LoopForward, CleanStep,
                  CleanAcquire, CleanExpire, CallStep, CallSession, CallPublish, CallForget,
                  CallUnmap, Cancel, CallLookup, CloseSessions, CloseMap, input
    <3>2. admin_at' # "idle" => admin_at # "idle"
      BY <2>1 DEF GatewayRunning, Running, Deliver, Tick, LoopStep, LoopSubscribe, LoopRecv,
                  LoopLag, LoopTrack, LoopMap, LoopFinish, LoopForward, CleanStep,
                  CleanAcquire, CleanExpire, CallStep, CallSession, CallPublish, CallForget,
                  CallUnmap, Cancel, CallLookup, CloseSessions, CloseMap
    <3>3. CASE Stopped
      BY <1>2, <3>1, <3>2, <3>3 DEF Flag, InactiveIsClosed, Stopped
    <3>4. CASE ~Stopped
      BY <1>2, <2>1, <3>1, <3>2, <3>4
         DEF GatewayRunning, Flag, InactiveIsClosed, lifecycle
    <3> QED BY <3>3, <3>4
  <2>2. ASSUME NEW l \in Loops, GatewayStart(l)
        PROVE  Flag'
    BY <2>2 DEF GatewayStart, Activate, Start, Exclusive, Flag, InactiveIsClosed
  <2>3. CASE GatewayStartFails
    BY <2>3 DEF GatewayStartFails, StartFails, Refuse, Exclusive, Flag, InactiveIsClosed
  <2>4. CASE GatewayStartRefused
    BY <1>2, <2>4
       DEF GatewayStartRefused, Refuse, Exclusive, Flag, InactiveIsClosed, vars, input
  <2>5. CASE GatewayStop
    BY <2>5 DEF GatewayStop, Stopping, Close, Flag, InactiveIsClosed, lifecycle
  <2>6. CASE UNCHANGED gvars
    BY <1>2, <2>6 DEF gvars, vars, input, lifecycle, Flag, InactiveIsClosed
  <2> QED BY <1>2, <2>1, <2>2, <2>3, <2>4, <2>5, <2>6 DEF GNext
<1>3. Flag => InactiveIsClosed
  BY DEF Flag
<1> QED BY <1>1, <1>2, <1>3, PTL DEF GSpec

------------------------------------------------------------------------------
(* One loop until the first stop(). *)

\* The flag is what keeps a second loop from being spawned.
Guarded ==
  ~stopped => /\ Single /\ Flow
              /\ ~is_running => admin_at = "idle" /\ \A l \in Loops : ~On(l)

\* Only a start() spawns a loop, and only then does it set the flag.
LEMMA GuardedStep ==
  ASSUME TypeOK, Work, Guarded, [GNext]_gvars
  PROVE  Guarded'
<1> SUFFICES ASSUME ~stopped'
             PROVE  Guarded'
  BY DEF Guarded
<1>1. ~stopped
  BY DEF GNext, GatewayRunning, GatewayStart, GatewayStartFails, GatewayStartRefused,
         GatewayStop, Stopping, Activate, Refuse, Deactivate, gvars, lifecycle
<1>2. Single /\ Flow'
  BY <1>1, FlowStep, GatewayStep DEF Guarded
<1>3. ASSUME \A l \in Loops : On(l)' = On(l),
             is_running' = is_running, ~is_running => admin_at' = "idle"
      PROVE  Guarded'
  BY <1>1, <1>2, <1>3 DEF Guarded, Single
<1>4. CASE GatewayRunning
  <2>1. UNCHANGED lifecycle /\ ~Stopped
    BY <1>4 DEF GatewayRunning, Deactivate
  <2>2. /\ \A l \in Loops : On(l)' = On(l)
        /\ admin_at = "idle" => admin_at' = "idle"
    <3>1. ASSUME NEW l \in Loops, LoopStep(l)
          PROVE  /\ \A k \in Loops : On(k)' = On(k)
                 /\ admin_at' = admin_at
      BY <3>1 DEF LoopStep, LoopSubscribe, LoopRecv, LoopLag, LoopTrack, LoopMap, LoopFinish,
                  LoopForward, On, TypeOK
    <3>2. ASSUME Running, ~\E l \in Loops : LoopStep(l)
          PROVE  /\ loop_at' = loop_at
                 /\ admin_at = "idle" => admin_at' = "idle"
      BY <3>2 DEF Running, Deliver, Tick, CleanStep, CleanAcquire, CleanExpire, CallStep,
                  CallSession, CallPublish, CallForget, CallUnmap, Cancel, CallLookup,
                  CloseSessions, CloseMap, tasks
    <3> QED BY <1>4, <3>1, <3>2 DEF GatewayRunning, On
  <2> QED BY <1>1, <1>3, <2>1, <2>2 DEF Guarded, lifecycle
<1>5. ASSUME NEW l \in Loops, GatewayStart(l)
      PROVE  Guarded'
  <2>1. ~is_running /\ is_running' /\ \A k \in Loops : k # l => On(k)' = On(k)
    BY <1>5 DEF GatewayStart, Activate, MayStart, Start, On, TypeOK
  <2>2. \A k \in Loops : ~On(k)
    BY <1>1, <2>1 DEF Guarded
  <2> QED BY <1>2, <2>1, <2>2 DEF Guarded, Single
<1>6. CASE GatewayStartFails
  BY <1>1, <1>3, <1>6 DEF GatewayStartFails, StartFails, Refuse, tasks, On, Guarded
<1>7. CASE GatewayStartRefused
  BY <1>1, <1>3, <1>7 DEF GatewayStartRefused, Refuse, vars, tasks, On, Guarded
<1>8. CASE GatewayStop
  BY <1>1, <1>3, <1>8 DEF GatewayStop, Stopping, Close, lifecycle, tasks, On, Guarded
<1>9. CASE UNCHANGED gvars
  BY <1>1, <1>3, <1>9 DEF gvars, vars, lifecycle, tasks, On, Guarded
<1> QED BY <1>4, <1>5, <1>6, <1>7, <1>8, <1>9 DEF GNext

\* However often start() is called and however it fails, until the first stop() a gateway
\* has one loop at most, and hands each message to the application once at most.
THEOREM OnceTheorem == GSpec => []OnceUntilStopped
<1>1. GInit => Guarded
  <2>1. GInit => Single /\ Flow
    BY FlowInit DEF GInit
  <2>2. GInit => admin_at = "idle" /\ \A l \in Loops : ~On(l)
    BY DEF GInit, Init, On
  <2> QED BY <2>1, <2>2 DEF Guarded
<1>2. Guarded /\ IInv => OnceUntilStopped
  BY FlowOnce DEF Guarded, OnceUntilStopped
<1>3. IInv /\ Guarded /\ [GNext]_gvars => Guarded'
  BY GuardedStep DEF IInv, Base
<1> QED BY <1>1, <1>2, <1>3, GatewayIsTransport, Inductive, PTL DEF GSpec
================================================================================
