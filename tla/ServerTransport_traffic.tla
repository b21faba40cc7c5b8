------------------------ MODULE ServerTransport_traffic ------------------------
(***************************************************************************)
(* Proofs about ServerTransport, for all values of its constants: what     *)
(* becomes of the messages that come in.  One event loop forwards each of  *)
(* them once at most: nothing looks for duplicates, but a message is in    *)
(* one place at a time.  What a session says of its client, its form and   *)
(* whether it is initialized, some message that was let through has said.  *)
(* To its clients the whole is a RequestService.                           *)
(***************************************************************************)
EXTENDS ServerTransport_proofs

------------------------------------------------------------------------------
(* One loop forwards once. *)

\* At most one start() has succeeded.
Single == \A k, l \in Loops : On(k) /\ On(l) => k = l

\* A message is in a receiver, then with its loop, then forwarded, and in one of
\* these places at a time.
Flow ==
  /\ \A l \in Loops : ~On(l) => feed[l] = <<>>
  /\ \A l \in Loops : Distinct(feed[l])
  /\ \A l \in Loops, w \in Wires : Queued(feed[l], w) => w \in arrived /\ forwarded[w] = 0
  /\ \A l \in Loops : Busy(l) =>
       /\ current[l] \in arrived /\ forwarded[current[l]] = 0
       /\ ~Queued(feed[l], current[l])
  /\ \A w \in Wires : forwarded[w] > 0 => forwarded[w] = 1 /\ w \in arrived

\* Initially nothing is anywhere.
LEMMA FlowInit == Init => Single /\ Flow
<1> SUFFICES ASSUME Init
             PROVE  Single /\ Flow
  OBVIOUS
<1>1. \A l \in Loops : feed[l] = <<>> /\ ~On(l) /\ ~Busy(l)
  BY DEF Init, On, Busy
<1> QED BY <1>1, EmptyFeed DEF Init, Single, Flow

\* A message moves from the relays to the receiver, to the loop, to the application.
LEMMA FlowStep ==
  ASSUME TypeOK, Work, Single, Flow, [Next]_vars
  PROVE  Flow'
<1>1. ASSUME Still
      PROVE  Flow'
  BY <1>1 DEF Still, Flow
<1>2. ASSUME NEW w \in Wires, Deliver(w)
      PROVE  Flow'
  <2>1. /\ w \notin arrived /\ arrived' = arrived \cup {w} /\ forwarded[w] = 0
        /\ UNCHANGED <<forwarded, current, loop_at>>
    BY <1>2 DEF Deliver, tasks, TypeOK, Flow
  <2>2. \A l \in Loops : /\ feed'[l] = feed[l] \/ feed'[l] = Push(feed[l], w)
                         /\ ~On(l) => feed'[l] = feed[l]
    BY <1>2 DEF Deliver, Listening, On
  <2>3. ASSUME NEW l \in Loops
        PROVE  /\ Distinct(feed'[l])
               /\ \A x : Queued(feed'[l], x) => Queued(feed[l], x) \/ x = w
    <3>1. feed[l] \in Seq(Wires) /\ ~Queued(feed[l], w) /\ Distinct(feed[l])
      BY <2>1 DEF TypeOK, Flow
    <3>2. /\ Distinct(Push(feed[l], w))
          /\ \A x : Queued(Push(feed[l], w), x) => Queued(feed[l], x) \/ x = w
      BY <3>1, PushSound
    <3>3. CASE feed'[l] = feed[l]
      BY <3>1, <3>3
    <3>4. CASE feed'[l] = Push(feed[l], w)
      BY <3>2, <3>4
    <3> QED BY <2>2, <3>3, <3>4
  <2>4. \A l \in Loops : /\ Busy(l)' = Busy(l) /\ On(l)' = On(l)
                         /\ Busy(l) => current[l] # w
    BY <2>1 DEF Busy, On, Flow
  <2> QED BY <2>1, <2>2, <2>3, <2>4 DEF Flow
<1>3. ASSUME NEW l \in Loops, LoopRecv(l)
      PROVE  Flow'
  <2> DEFINE w == Head(feed[l])
  <2>1. /\ feed[l] \in Seq(Wires) /\ feed[l] # <<>> /\ feed'[l] = Tail(feed[l])
        /\ On(l) /\ On(l)' /\ (Busy(l)' => current'[l] = w)
        /\ UNCHANGED <<arrived, forwarded>>
    BY <1>3 DEF LoopRecv, TypeOK, On, Busy
  <2>2. \A k \in Loops : k # l => /\ feed'[k] = feed[k] /\ current'[k] = current[k]
                                  /\ Busy(k)' = Busy(k) /\ On(k)' = On(k)
    BY <1>3 DEF LoopRecv, TypeOK, On, Busy
  <2>3. /\ w \in Wires /\ Queued(feed[l], w) /\ ~Queued(feed'[l], w) /\ Distinct(feed'[l])
        /\ \A x : Queued(feed'[l], x) => Queued(feed[l], x)
    BY <2>1, TailSound DEF Flow
  <2>4. w \in arrived /\ forwarded[w] = 0
    BY <2>3 DEF Flow
  <2> HIDE DEF w
  <2> QED BY <2>1, <2>2, <2>3, <2>4 DEF Flow
<1>4. ASSUME NEW l \in Loops, LoopLag(l)
      PROVE  Flow'
  <2>1. /\ feed'[l] = <<>> /\ ~Busy(l)' /\ UNCHANGED <<arrived, forwarded, current>>
        /\ \A k \in Loops : k # l => /\ feed'[k] = feed[k]
                                     /\ Busy(k)' = Busy(k) /\ On(k)' = On(k)
    BY <1>4 DEF LoopLag, TypeOK, On, Busy
  <2> QED BY <2>1, EmptyFeed DEF Flow
<1>5. ASSUME NEW l \in Loops, LoopForward(l)
      PROVE  Flow'
  <2> DEFINE w == current[l]
  <2>1. /\ On(l) /\ Busy(l) /\ ~Busy(l)' /\ UNCHANGED <<arrived, feed>>
        /\ \A k \in Loops : k # l => Busy(k)' = Busy(k)
        /\ \A k \in Loops : On(k)' = On(k)
    BY <1>5 DEF LoopForward, TypeOK, On, Busy, input
  <2>2. w \in Wires /\ w \in arrived /\ forwarded[w] = 0 /\ ~Queued(feed[l], w)
    BY <2>1 DEF Work, Flow
  <2>3. forwarded'[w] = 1 /\ \A v \in Wires : v # w => forwarded'[v] = forwarded[v]
    BY <1>5, <2>2 DEF LoopForward, TypeOK
  <2>4. \A k \in Loops : k # l => ~On(k) /\ ~Busy(k) /\ feed[k] = <<>>
    BY <2>1 DEF Single, On, Busy, Flow
  <2>5. \A k \in Loops : ~Queued(feed[k], w) /\ ~Busy(k)'
    BY <2>1, <2>2, <2>4, EmptyFeed
  <2> HIDE DEF w
  <2> QED BY <2>1, <2>2, <2>3, <2>5 DEF Flow
<1> QED BY <1>1, <1>2, <1>3, <1>4, <1>5, StillStep

\* What is forwarded more than zero times is forwarded once.
LEMMA FlowOnce == Flow /\ IInv => ForwardedOnce
<1> SUFFICES ASSUME Flow, IInv, NEW w \in Wires
             PROVE  forwarded[w] <= 1
  BY DEF ForwardedOnce
<1>1. forwarded[w] \in Nat
  BY DEF IInv, Base, TypeOK
<1>2. forwarded[w] > 0 => forwarded[w] = 1
  BY DEF Flow
<1> QED BY <1>1, <1>2

\* As long as there is one loop it holds.
LEMMA FlowInductive == Spec /\ []Single => []Flow
<1>1. IInv /\ Single /\ Flow /\ [Next]_vars => Flow'
  BY FlowStep DEF IInv, Base
<1> QED BY <1>1, FlowInit, Inductive, PTL DEF Spec

\* A started transport hands each message to the application once at most, as long
\* as start() is called once: that there is one loop is all it rests on.
THEOREM ForwardedOnceTheorem == Spec /\ []Single => []ForwardedOnce
BY FlowInductive, FlowOnce, Inductive, PTL

------------------------------------------------------------------------------
(* Where a session has its knowledge from; for any number of loops. *)

\* The clients of which a message in this form was let through.
Heard == [enc \in BOOLEAN |->
  {c \in Clients : \E w \in arrived :
     Author[w] = c /\ Admitted(w) /\ (w \in Wrapped) = enc}]

\* Those of which notifications/initialized was.
Announced ==
  {c \in Clients : \E w \in arrived : /\ Author[w] = c /\ Admitted(w)
                                     /\ Message[w].kind = "notification"
                                     /\ Message[w].method = "notifications/initialized"}

Sourced(c) ==
  sessions[c] # None => /\ c \in Heard[sessions[c].is_encrypted]
                        /\ sessions[c].is_initialized => c \in Announced

FormedCall(r) == call[r].at = "publish" => call[r].client \in Heard[call[r].enc]

FormedOutbox == \A m \in outbox : \E enc \in BOOLEAN :
  m.to \in Heard[enc] /\ m.encrypted = ShouldEncrypt(enc)

Provenance ==
  /\ \A c \in Clients : Sourced(c)
  /\ \A r \in Callers : FormedCall(r)
  /\ FormedOutbox

\* What was said stays said.
LEMMA SaidStays ==
  ASSUME [Next]_vars
  PROVE  /\ arrived \subseteq arrived'
         /\ \A enc \in BOOLEAN : Heard[enc] \subseteq Heard'[enc]
         /\ Announced \subseteq Announced'
<1>1. arrived \subseteq arrived'
  BY ArrivedGrows
<1>2. \A w : Admitted(w)' = Admitted(w)
  BY DEF Admitted
<1> QED BY <1>1, <1>2 DEF Heard, Announced

\* The form and the flag of a session after each of the operations on it.
LEMMA FlagFields ==
  ASSUME NEW s \in Session, NEW w \in Wires, NEW e \in Events
  PROVE  /\ Touched(s, w).is_encrypted = (w \in Wrapped)
         /\ Touched(s, w).is_initialized = s.is_initialized
         /\ Touched(None, w).is_encrypted = (w \in Wrapped)
         /\ ~Touched(None, w).is_initialized
         /\ Finished(s, w).is_encrypted = s.is_encrypted
         /\ Finished(s, w).is_initialized =>
              \/ s.is_initialized
              \/ /\ Message[w].kind = "notification"
                 /\ Message[w].method = "notifications/initialized"
         /\ Forgotten(s, e).is_encrypted = s.is_encrypted
         /\ Forgotten(s, e).is_initialized = s.is_initialized
         /\ [s EXCEPT !.elapsed = @ + 1].is_encrypted = s.is_encrypted
         /\ [s EXCEPT !.elapsed = @ + 1].is_initialized = s.is_initialized
<1>1. /\ Touched(s, w).is_encrypted = (w \in Wrapped)
      /\ Touched(s, w).is_initialized = s.is_initialized
  BY AbsentAssumption DEF Touched, Session
<1>2. /\ Touched(None, w).is_encrypted = (w \in Wrapped)
      /\ ~Touched(None, w).is_initialized
  BY DEF Touched, NewSession
<1>3. /\ Finished(s, w).is_encrypted = s.is_encrypted
      /\ Finished(s, w).is_initialized =>
           \/ s.is_initialized
           \/ /\ Message[w].kind = "notification"
              /\ Message[w].method = "notifications/initialized"
  BY DEF Finished, Session
<1>4. /\ Forgotten(s, e).is_encrypted = s.is_encrypted
      /\ Forgotten(s, e).is_initialized = s.is_initialized
  BY DEF Forgotten, Session
<1>5. /\ [s EXCEPT !.elapsed = @ + 1].is_encrypted = s.is_encrypted
      /\ [s EXCEPT !.elapsed = @ + 1].is_initialized = s.is_initialized
  BY DEF Session
<1> QED BY <1>1, <1>2, <1>3, <1>4, <1>5

\* Tracking takes the form from its message, finishing the flag; no other step
\* changes either, and a session that is created anew starts from its message.
LEMMA SourcedStep ==
  ASSUME TypeOK, Work, Received, Provenance, [Next]_vars, NEW c \in Clients
  PROVE  Sourced(c)'
<1> DEFINE s == sessions[c]  t == sessions'[c]
<1>0. /\ s \in Session \cup {None} /\ Sourced(c)
      /\ s # None => s \in Session /\ s.is_encrypted \in BOOLEAN
  BY DEF TypeOK, Provenance, Session
<1>1. ASSUME t # None => /\ s # None
                         /\ t.is_encrypted = s.is_encrypted
                         /\ t.is_initialized => s.is_initialized \/ c \in Announced
      PROVE  Sourced(c)'
  BY <1>0, <1>1, SaidStays DEF Sourced
<1>2. ASSUME t \in {s, None}
      PROVE  Sourced(c)'
  BY <1>1, <1>2
<1>3. CASE Tick
  <2>1. CASE t = s
    BY <1>2, <2>1
  <2>2. CASE t # s
    <3>1. s \in Session /\ s # None /\ t = [s EXCEPT !.elapsed = @ + 1]
      BY <1>0, <1>3, <2>2 DEF Tick
    <3>2. t.is_encrypted = s.is_encrypted /\ t.is_initialized = s.is_initialized
      BY <3>1 DEF Session
    <3> QED BY <1>1, <3>1, <3>2
  <2> QED BY <2>1, <2>2
<1>4. ASSUME NEW l \in Loops, LoopTrack(l)
      PROVE  Sourced(c)'
  <2> DEFINE w == current[l]
  <2>1. w \in Wires /\ w \in arrived /\ Admitted(w) /\ Inner[w] \in Events
        /\ Author[w] \in Clients
    BY <1>4, TrafficAssumption DEF LoopTrack, Work, Received, Busy
  <2>2. sessions' = [sessions EXCEPT ![Author[w]] = Touched(@, w)]
    BY <1>4 DEF LoopTrack
  <2>3. CASE c # Author[w]
    <3> HIDE DEF w
    <3> QED BY <1>2, <2>1, <2>2, <2>3 DEF TypeOK
  <2>4. CASE c = Author[w]
    <3> DEFINE f == w \in Wrapped
    <3>1. t = Touched(s, w)
      BY <2>2, <2>4 DEF TypeOK
    <3>2. f \in BOOLEAN /\ c \in Heard[f]
      BY <2>1, <2>4 DEF Heard
    <3>3. t.is_encrypted = f
      <4>1. CASE s = None
        BY <3>1, <4>1 DEF Touched, NewSession
      <4>2. CASE s # None
        BY <1>0, <2>1, <3>1, <4>2, FlagFields
      <4> QED BY <4>1, <4>2
    <3>4. t.is_initialized => s # None /\ s.is_initialized
      <4>1. CASE s = None
        BY <3>1, <4>1 DEF Touched, NewSession
      <4>2. CASE s # None
        BY <1>0, <2>1, <3>1, <4>2, FlagFields
      <4> QED BY <4>1, <4>2
    <3>5. c \in Heard'[t.is_encrypted]
      BY <3>2, <3>3, SaidStays
    <3>6. t.is_initialized => c \in Announced'
      BY <1>0, <3>4, SaidStays DEF Sourced
    <3> QED BY <3>5, <3>6 DEF Sourced
  <2> QED BY <2>3, <2>4
<1>5. ASSUME NEW l \in Loops, LoopFinish(l)
      PROVE  Sourced(c)'
  <2> DEFINE w == current[l]
  <2>1. /\ w \in Wires /\ w \in arrived /\ Admitted(w) /\ Author[w] \in Clients
        /\ sessions[Author[w]] # None
    BY <1>5, TrafficAssumption DEF LoopFinish, Work, Received, Busy
  <2>2. sessions' = [sessions EXCEPT ![Author[w]] = Finished(@, w)]
    BY <1>5 DEF LoopFinish
  <2>3. CASE c # Author[w]
    <3> HIDE DEF w
    <3> QED BY <1>2, <2>1, <2>2, <2>3 DEF TypeOK
  <2>4. CASE c = Author[w]
    <3>1. s \in Session /\ s # None /\ t = Finished(s, w)
      BY <1>0, <2>1, <2>2, <2>4 DEF TypeOK
    <3>2. /\ Message[w].kind = "notification" /\ Message[w].method = "notifications/initialized"
          => c \in Announced
      BY <2>1, <2>4 DEF Announced
    <3>4. Inner[w] \in Events
      BY <2>1, TrafficAssumption
    <3>3. /\ t.is_encrypted = s.is_encrypted
          /\ t.is_initialized => s.is_initialized \/ c \in Announced
      BY <2>1, <3>1, <3>2, <3>4, FlagFields
    <3> QED BY <1>1, <3>1, <3>3
  <2> QED BY <2>3, <2>4
<1>6. ASSUME NEW r \in Callers, CallForget(r)
      PROVE  Sourced(c)'
  <2>1. CASE t = s
    BY <1>2, <2>1
  <2>2. CASE t # s
    <3>1. s # None /\ t = Forgotten(s, call[r].event)
      BY <1>6, <2>2 DEF CallForget, TypeOK
    <3>2. s \in Session
      BY <1>0, <3>1
    <3>3. t.is_encrypted = s.is_encrypted /\ t.is_initialized = s.is_initialized
      BY <3>1, <3>2 DEF Forgotten, Session
    <3> QED BY <1>1, <3>1, <3>3
  <2> QED BY <2>1, <2>2
<1>7. CASE CloseSessions \/ \E l \in Loops : CleanExpire(l)
  BY <1>2, <1>7 DEF CloseSessions, CleanExpire
<1>8. CASE UNCHANGED sessions
  BY <1>2, <1>8
<1>9. ASSUME \/ \E w \in Wires : Deliver(w)
             \/ \E l \in Loops : \/ LoopSubscribe(l) \/ LoopRecv(l) \/ LoopLag(l) \/ LoopMap(l)
                                  \/ LoopForward(l) \/ CleanAcquire(l) \/ Start(l)
             \/ \E r \in Callers : \/ CallSession(r) \/ CallPublish(r) \/ CallUnmap(r)
                                    \/ Cancel(r) \/ \E e \in Events : CallLookup(r, e)
             \/ CloseMap \/ StartFails \/ Close \/ UNCHANGED vars
      PROVE  UNCHANGED sessions
  BY <1>9 DEF Deliver, LoopSubscribe, LoopRecv, LoopLag, LoopMap, LoopForward, CleanAcquire,
              Start, CallSession, CallPublish, CallUnmap, Cancel, CallLookup, CloseMap,
              StartFails, Close, shared, vars
<1> QED BY <1>3, <1>4, <1>5, <1>6, <1>7, <1>8, <1>9
        DEF Next, Running, Admin, LoopStep, CleanStep, CallStep

\* A call takes the form from the session of its client, and publishes in it.
LEMMA FormStep ==
  ASSUME TypeOK, Calls, Provenance, [Next]_vars
  PROVE  (\A r \in Callers : FormedCall(r))' /\ FormedOutbox'
<1> DEFINE Keeps   == \A q \in Callers : call'[q].at = "publish" => call'[q] = call[q]
           Outbox2 == \A m \in outbox' : m \in outbox \/ \E enc \in BOOLEAN :
                        m.to \in Heard[enc] /\ m.encrypted = ShouldEncrypt(enc)
<1>0. call \in [Callers -> Call]
  BY DEF TypeOK
<1>1. Keeps => (\A r \in Callers : FormedCall(r))'
  BY <1>0, SaidStays DEF Provenance, FormedCall, Call
<1>2. Outbox2 => FormedOutbox'
  BY SaidStays DEF Provenance, FormedOutbox
<1> HIDE DEF Keeps, Outbox2
<1>3. ASSUME NEW r \in Callers, CallPublish(r)
      PROVE  Keeps /\ Outbox2
  <2>1. /\ call[r] \in Call /\ call[r].enc \in BOOLEAN
        /\ call[r].client \in Heard[call[r].enc]
    BY <1>0, <1>3 DEF CallPublish, Provenance, FormedCall, Call
  <2>2. Outbox2
    BY <1>3, <2>1 DEF CallPublish, Outbox2
  <2>3. Keeps
    BY <1>0, <1>3, <2>1 DEF CallPublish, Set, AfterPublish, Idle, Call, Keeps
  <2> QED BY <2>2, <2>3
<1>4. ASSUME NEW r \in Callers, CallSession(r)
      PROVE  (\A q \in Callers : FormedCall(q))' /\ Outbox2
  <2> DEFINE s == sessions[call[r].client]
  <2>1. outbox' = outbox /\ call[r] \in Call
    BY <1>0, <1>4 DEF CallSession
  <2>2. CASE s = None
    BY <1>0, <1>1, <1>4, <2>1, <2>2 DEF CallSession, Set, Idle, Keeps, Outbox2
  <2>3. CASE s # None
    <3>1. /\ \A q \in Callers : q # r => call'[q] = call[q]
          /\ call'[r].client = call[r].client /\ call'[r].enc = s.is_encrypted
      BY <1>0, <1>4, <2>1, <2>3 DEF CallSession, Set, Call
    <3>2. call[r].client \in Clients
      BY <1>4 DEF CallSession, Calls
    <3>3. s \in Session /\ call[r].client \in Heard[s.is_encrypted]
      BY <2>3, <3>2 DEF TypeOK, Provenance, Sourced
    <3>4. call[r].client \in Heard'[s.is_encrypted]
      BY <3>3, SaidStays DEF Session
    <3>5. \A q \in Callers : q # r => FormedCall(q)'
      BY <1>0, <3>1, SaidStays DEF Provenance, FormedCall, Call
    <3>6. FormedCall(r)'
      BY <3>1, <3>4 DEF FormedCall
    <3> QED BY <2>1, <3>5, <3>6 DEF Outbox2
  <2> QED BY <2>2, <2>3
<1>5. ASSUME NEW r \in Callers,
             CallForget(r) \/ CallUnmap(r) \/ Cancel(r) \/ \E e \in Events : CallLookup(r, e)
      PROVE  Keeps /\ Outbox2
  <2>1. \E x : Set(r, x) /\ x.at # "publish"
    <3>1. CASE CallForget(r)
      <4>1. [call[r] EXCEPT !.at = "unmap"].at = "unmap"
        BY <1>0 DEF Call
      <4> QED BY <3>1, <4>1 DEF CallForget
    <3>2. CASE CallUnmap(r) \/ Cancel(r)
      <4>1. Idle.at = "idle"
        BY DEF Idle
      <4> QED BY <3>2, <4>1 DEF CallUnmap, Cancel
    <3>3. ASSUME NEW e \in Events, CallLookup(r, e)
          PROVE  \E x : Set(r, x) /\ x.at # "publish"
      <4> DEFINE x == [Idle EXCEPT !.at = "session", !.event = e,
                                   !.client = event_to_client[e]]
      <4>1. x.at = "session" /\ Set(r, x)
        BY <3>3 DEF CallLookup, Idle
      <4> HIDE DEF x
      <4> QED BY <4>1
    <3> QED BY <1>5, <3>1, <3>2, <3>3
  <2>2. outbox' = outbox
    BY <1>5 DEF CallForget, CallUnmap, Cancel, CallLookup
  <2> QED BY <1>0, <2>1, <2>2 DEF Set, Keeps, Outbox2
<1>6. ASSUME \/ \E w \in Wires : Deliver(w)
             \/ \E l \in Loops : LoopStep(l) \/ CleanStep(l) \/ Start(l)
             \/ Tick \/ CloseSessions \/ CloseMap \/ StartFails \/ Close \/ UNCHANGED vars
      PROVE  Keeps /\ Outbox2
  <2>1. UNCHANGED <<call, outbox>>
    BY <1>6 DEF Deliver, LoopStep, LoopSubscribe, LoopRecv, LoopLag, LoopTrack, LoopMap,
                LoopFinish, LoopForward, CleanStep, CleanAcquire, CleanExpire, Start, Tick,
                CloseSessions, CloseMap, StartFails, Close, vars
  <2> QED BY <2>1 DEF Keeps, Outbox2
<1> QED BY <1>1, <1>2, <1>3, <1>4, <1>5, <1>6 DEF Next, Running, Admin, CallStep

\* Provenance holds of every reachable state.
LEMMA ProvenanceInductive == Spec => []Provenance
<1>1. Init => Provenance
  <2> SUFFICES ASSUME Init
               PROVE  Provenance
    OBVIOUS
  <2>1. /\ \A c \in Clients : sessions[c] = None
        /\ \A r \in Callers : call[r].at = "idle"
        /\ outbox = {}
    BY DEF Init, Idle
  <2> QED BY <2>1
          DEF Provenance, Sourced, FormedCall, FormedOutbox
<1>2. IInv /\ Provenance /\ [Next]_vars => Provenance'
  <2> SUFFICES ASSUME IInv, Provenance, [Next]_vars
               PROVE  Provenance'
    OBVIOUS
  <2>1. TypeOK /\ Work /\ Received /\ Calls
    BY DEF IInv, Base
  <2>3. \A c \in Clients : Sourced(c)'
    BY <2>1, SourcedStep
  <2> QED BY <2>1, <2>3, FormStep DEF Provenance
<1> QED BY <1>1, <1>2, Inductive, PTL DEF Spec

\* A response has the form of some message of its client that was let through, as far
\* as the mode leaves it open, so a client that never changes form is answered in it.
THEOREM MirrorsTheorem == Spec => []MirrorsUniformClient
<1>1. Provenance => MirrorsUniformClient
  <2> SUFFICES ASSUME Provenance, NEW m \in outbox, NEW wrapped \in BOOLEAN,
                      \A w \in arrived : Author[w] = m.to => (w \in Wrapped) = wrapped
               PROVE  m.encrypted = (\/ EncryptionMode = "Required"
                                     \/ EncryptionMode = "Optional" /\ wrapped)
    BY DEF MirrorsUniformClient
  <2>1. PICK enc \in BOOLEAN : m.to \in Heard[enc] /\ m.encrypted = ShouldEncrypt(enc)
    BY DEF Provenance, FormedOutbox
  <2>2. enc = wrapped
    BY <2>1 DEF Heard
  <2> QED BY <2>1, <2>2 DEF ShouldEncrypt
<1> QED BY <1>1, ProvenanceInductive, PTL

------------------------------------------------------------------------------
(* RequestService: what is open changes only where a session is tracked,
   forgotten, swept or cleared; every other step is a stutter or an answer. *)

\* A request begins to be tracked only when a loop tracks it.
LEMMA GainStep ==
  ASSUME IInv, Next, NEW c \in Clients, NEW e \in Events, ~Holds(c, e), Holds(c, e)'
  PROVE  \E l \in Loops : /\ LoopTrack(l) /\ IsRequest(current[l])
                          /\ c = Author[current[l]] /\ e = Inner[current[l]]
<1>0. TypeOK /\ Work
  BY DEF IInv, Base
<1> DEFINE s == sessions[c]
<1>1. s \in Session \cup {None} /\ e \in Keys
  BY <1>0 DEF TypeOK, Keys
<1>2. sessions'[c] # None /\ sessions'[c].pending_requests[e] # None
  BY DEF Holds
<1>3. s = None \/ s.pending_requests[e] = None
  BY DEF Holds
<1>4. ASSUME NEW l \in Loops, LoopTrack(l)
      PROVE  IsRequest(current[l]) /\ c = Author[current[l]] /\ e = Inner[current[l]]
  <2> DEFINE w == current[l]
  <2>1. w \in Wires
    BY <1>0, <1>4 DEF Work, Busy, LoopTrack
  <2>2. sessions'[c] = IF c = Author[w] THEN Touched(s, w) ELSE s
    BY <1>0, <1>1, <1>4 DEF TypeOK, LoopTrack
  <2>3. Touched(s, w).pending_requests[e] =
          IF e = Inner[w] /\ IsRequest(w) THEN Message[w].id
          ELSE IF s = None THEN None ELSE s.pending_requests[e]
    BY <1>1, <2>1, TouchedFields
  <2> QED BY <1>2, <1>3, <2>2, <2>3
<1>5. ASSUME NEW l \in Loops, LoopFinish(l)
      PROVE  FALSE
  <2> DEFINE w == current[l]
  <2>1. w \in Wires /\ (c = Author[w] => s # None)
    BY <1>0, <1>5 DEF Work, Busy, LoopFinish
  <2>2. sessions'[c] = IF c = Author[w] THEN Finished(s, w) ELSE s
    BY <1>0, <1>1, <1>5 DEF TypeOK, LoopFinish
  <2>3. c = Author[w] => Finished(s, w).pending_requests[e] = s.pending_requests[e]
    BY <1>1, <2>1, FinishedFields, KeysDistinct, TrafficAssumption
  <2> QED BY <1>2, <1>3, <2>1, <2>2, <2>3
<1>6. ASSUME NEW r \in Callers, CallForget(r)
      PROVE  FALSE
  <2> DEFINE i == call[r].event
  <2>1. i \in Events
    BY <1>6 DEF IInv, Base, Calls, CallForget
  <2>2. sessions'[c] = s \/ (s # None /\ sessions'[c] = Forgotten(s, i))
    BY <1>0, <1>1, <1>6 DEF TypeOK, CallForget
  <2>3. s # None => Forgotten(s, i).pending_requests[e] \in {None, s.pending_requests[e]}
    BY <1>1, <2>1, ForgottenFields
  <2> QED BY <1>2, <1>3, <2>2, <2>3
<1>7. ASSUME Tick
      PROVE  FALSE
  BY <1>0, <1>1, <1>2, <1>3, <1>7, TickKeeps
<1>8. ASSUME (\E l \in Loops : CleanExpire(l)) \/ CloseSessions
      PROVE  FALSE
  BY <1>1, <1>2, <1>3, <1>8 DEF CleanExpire, CloseSessions
<1>9. sessions' # sessions
  BY <1>2, <1>3
<1> QED BY <1>4, <1>5, <1>6, <1>7, <1>8, <1>9
        DEF Next, Running, Admin, LoopStep, CleanStep, CallStep, Deliver, LoopSubscribe, LoopRecv, LoopLag,
            LoopMap, LoopForward, CleanAcquire, Start, CallLookup, CallSession, CallPublish,
            CallUnmap, Cancel, StartFails, Close, CloseMap, shared

\* Unless a request is tracked, forgotten, swept or cleared, the same ones are open.
LEMMA OpenKept ==
  ASSUME IInv, Next,
         ~\E l \in Loops : LoopTrack(l) \/ CleanExpire(l),
         ~\E r \in Callers : CallForget(r), ~CloseSessions
  PROVE  \A c \in Clients, e \in Events : Holds(c, e)' <=> Holds(c, e)
BY GainStep, TrackedStep DEF IInv

Requests == {[event |-> Inner[w], to |-> Author[w], id |-> Message[w].id] :
               w \in {v \in Wires : IsRequest(v)}}
open == {p \in Clients \X Events : Holds(p[1], p[2])}
done == acked \cup lapsed
replies == {[event |-> m.event, to |-> m.to, id |-> m.id] : m \in outbox}

\* What is open is known by client and event.
LEMMA OpenPairs == \A c \in Clients, e \in Events : <<c, e>> \in open <=> Holds(c, e)
BY DEF open

\* Two sets of pairs that agree on every client and event are the same.
LEMMA SamePairs ==
  ASSUME NEW P \in SUBSET (Clients \X Events), NEW Q \in SUBSET (Clients \X Events),
         \A c \in Clients, e \in Events : <<c, e>> \in P <=> <<c, e>> \in Q
  PROVE  P = Q
OBVIOUS

\* What tracking does to the service.
LEMMA TrackStep ==
  ASSUME IInv, Next, NEW l \in Loops, LoopTrack(l)
  PROVE  [Service!Next]_(Service!vars)
<1>0. Work /\ TypeOK
  BY DEF IInv, Base
<1>1. PICK w \in Wires : w = current[l]
  BY <1>0 DEF Work, Busy, LoopTrack
<1>2. lock["sessions"] = None /\ lock'["sessions"] = <<"loop", l>> /\ <<"loop", l>> # None
  BY <1>0, TaskIsSome DEF TypeOK, LoopTrack, Free
<1>3. ~CloseSessions /\ (\A r \in Callers : ~CallForget(r)) /\ \A k \in Loops : ~CleanExpire(k)
  BY <1>0, <1>2 DEF TypeOK, CallForget, CleanExpire, CleanupOrder, CloseSessions
<1>4. \A k \in Loops : LoopTrack(k) => k = l
  BY <1>0, <1>2 DEF TypeOK, LoopTrack
<1>5. ASSUME NEW c \in Clients, NEW e \in Events
      PROVE  /\ Holds(c, e) => Holds(c, e)'
             /\ Holds(c, e)' => Holds(c, e) \/ (IsRequest(w) /\ c = Author[w] /\ e = Inner[w])
  BY <1>1, <1>3, <1>4, TrackedStep, GainStep DEF IInv
<1>6. UNCHANGED <<acked, lapsed, outbox>>
  BY DEF LoopTrack, ghosts
<1> DEFINE q == [event |-> Inner[w], to |-> Author[w], id |-> Message[w].id]
<1>7. open' = open \/ (IsRequest(w) /\ open' = open \cup {<<Author[w], Inner[w]>>})
  <2>1. open \subseteq Clients \X Events /\ open' \subseteq Clients \X Events
        /\ Author[w] \in Clients /\ Inner[w] \in Events
    BY TrafficAssumption DEF open
  <2>2. \A c \in Clients, e \in Events : <<c, e>> \in open' <=> Holds(c, e)'
    BY DEF open
  <2>3. CASE IsRequest(w) /\ Holds(Author[w], Inner[w])'
    <3>1. \A c \in Clients, e \in Events :
            Holds(c, e)' <=> Holds(c, e) \/ (c = Author[w] /\ e = Inner[w])
      BY <1>5, <2>3 DEF Holds
    <3>2. \A c \in Clients, e \in Events :
            <<c, e>> \in open' <=> <<c, e>> \in open \cup {<<Author[w], Inner[w]>>}
      BY <2>2, <3>1, OpenPairs
    <3>3. open' = open \cup {<<Author[w], Inner[w]>>}
      BY <2>1, <3>2, SamePairs
    <3> QED BY <2>3, <3>3
  <2>4. CASE ~(IsRequest(w) /\ Holds(Author[w], Inner[w])')
    <3>1. \A c \in Clients, e \in Events : Holds(c, e)' <=> Holds(c, e)
      BY <1>5, <2>4 DEF Holds
    <3>2. \A c \in Clients, e \in Events : <<c, e>> \in open' <=> <<c, e>> \in open
      BY <2>2, <3>1, OpenPairs
    <3>3. open' = open
      BY <2>1, <3>2, SamePairs
    <3> QED BY <3>3
  <2> QED BY <2>3, <2>4
<1>8. IsRequest(w) => q \in Requests /\ <<q.to, q.event>> = <<Author[w], Inner[w]>>
  BY DEF Requests
<1> HIDE DEF q
<1> QED BY <1>6, <1>7, <1>8 DEF open, Requests, Service!Next, Service!vars, Service!Accept

\* What the first clean-up section of a call does to it.
LEMMA ForgetStep ==
  ASSUME IInv, Next, NEW r \in Callers, CallForget(r)
  PROVE  [Service!Next]_(Service!vars)
<1>0. Calls /\ TypeOK /\ CallHistory
  BY DEF IInv, Base
<1>1. PICK d \in Clients, f \in Events : d = call[r].client /\ f = call[r].event
  BY <1>0 DEF Calls, CallForget
<1>2. f \in done
  BY <1>0, <1>1 DEF CallHistory, History, CallForget, done
<1>3. ~CloseSessions /\ (\A k \in Callers : CallForget(k) => k = r)
      /\ \A k \in Loops : ~CleanExpire(k) /\ ~LoopTrack(k)
  <2>1. ~CloseSessions
    BY <1>0 DEF Calls, CallForget, CloseSessions
  <2>2. \A k \in Callers : CallForget(k) => k = r
    BY <1>0 DEF TypeOK, Call, CallForget, Set
  <2>3. \A k \in Loops : ~CleanExpire(k) /\ ~LoopTrack(k)
    BY <1>0 DEF TypeOK, CallForget, CleanExpire, LoopTrack, tasks
  <2> QED BY <2>1, <2>2, <2>3
<1>4. ASSUME NEW c \in Clients, NEW e \in Events
      PROVE  /\ Holds(c, e) => Holds(c, e)' \/ (c = d /\ e = f)
             /\ Holds(c, e)' => Holds(c, e)
  BY <1>1, <1>3, TrackedStep, GainStep DEF IInv
<1>5. UNCHANGED <<acked, lapsed, outbox>>
  BY DEF CallForget, ghosts
<1> DEFINE p == <<d, f>>
<1>6. open' = open \/ (p \in open /\ open' = open \ {p})
  <2>1. open \subseteq Clients \X Events /\ open' \subseteq Clients \X Events
    BY DEF open
  <2>2. \A c \in Clients, e \in Events : <<c, e>> \in open' <=> Holds(c, e)'
    BY DEF open
  <2>3. CASE \A c \in Clients, e \in Events : Holds(c, e)' <=> Holds(c, e)
    BY <2>1, <2>2, <2>3, OpenPairs, SamePairs
  <2>4. CASE ~\A c \in Clients, e \in Events : Holds(c, e)' <=> Holds(c, e)
    <3>1. Holds(d, f) /\ ~Holds(d, f)'
      BY <1>4, <2>4 DEF Holds
    <3>2. \A c \in Clients, e \in Events :
            Holds(c, e)' <=> Holds(c, e) /\ ~(c = d /\ e = f)
      BY <1>4, <3>1 DEF Holds
    <3>3. \A c \in Clients, e \in Events : <<c, e>> \in open' <=> <<c, e>> \in open \ {p}
      BY <2>2, <3>2, OpenPairs
    <3>4. open' = open \ {p}
      BY <2>1, <3>3, SamePairs
    <3> QED BY <3>1, <3>4, OpenPairs
  <2> QED BY <2>3, <2>4
<1>7. p[2] \in done
  BY <1>2
<1> HIDE DEF p
<1> QED BY <1>5, <1>6, <1>7
        DEF open, done, Service!Next, Service!vars, Service!Forget

\* What a sweep does to it.
LEMMA ExpireStep ==
  ASSUME IInv, Next, NEW l \in Loops, CleanExpire(l)
  PROVE  [Service!Next]_(Service!vars)
<1>0. TypeOK /\ Contents /\ Locks
  BY DEF IInv, Base
<1>1. lock["sessions"] = <<"cleaner", l>> /\ <<"cleaner", l>> # None
  BY <1>0, TaskIsSome DEF Locks, CleanExpire
<1>2. ~CloseSessions /\ (\A r \in Callers : ~CallForget(r)) /\ \A k \in Loops : ~LoopTrack(k)
  BY <1>1 DEF Free, CallForget, LoopTrack, CloseSessions
<1> DEFINE Q == {p \in open : Expired(sessions[p[1]])}
<1>3. ASSUME NEW c \in Clients, NEW e \in Events
      PROVE  Holds(c, e)' <=> Holds(c, e) /\ ~Expired(sessions[c])
  <2>1. Holds(c, e)' => Holds(c, e)
    BY <1>2, GainStep
  <2>2. Holds(c, e)' => ~Expired(sessions[c])
    BY DEF Holds, CleanExpire
  <2>3. Holds(c, e) /\ ~Holds(c, e)' => Expired(sessions[c])
    BY <1>2, TrackedStep DEF IInv
  <2> QED BY <2>1, <2>2, <2>3
<1>4. open' = open \ Q
  <2>1. open \ Q \subseteq Clients \X Events /\ open' \subseteq Clients \X Events
    BY DEF open
  <2>2. \A c \in Clients, e \in Events : <<c, e>> \in open' <=> Holds(c, e)'
    BY DEF open
  <2>3. \A c \in Clients, e \in Events : <<c, e>> \in open \ Q <=>
          Holds(c, e) /\ ~Expired(sessions[c])
    BY OpenPairs
  <2> QED BY <1>3, <2>1, <2>2, <2>3, SamePairs
<1>5. Swept = {p[2] : p \in Q}
  <2>1. ASSUME NEW e \in Swept
        PROVE  e \in {p[2] : p \in Q}
    <3>1. PICK c \in Clients : e \in Events /\ Expired(sessions[c]) /\ Holds(c, e)
      BY <1>0, <2>1, SweptExpired
    <3>2. <<c, e>> \in Q
      BY <3>1, OpenPairs
    <3> QED BY <3>2
  <2>2. ASSUME NEW p \in Q
        PROVE  p[2] \in Swept
    BY <2>2 DEF open, Swept, Holds
  <2> QED BY <2>1, <2>2
<1>6. done' = done \cup {p[2] : p \in Q}
  BY <1>5 DEF CleanExpire, done
<1>7. UNCHANGED outbox /\ Q \in SUBSET open
  BY DEF CleanExpire
<1> HIDE DEF Q
<1> QED BY <1>4, <1>6, <1>7 DEF open, done, Service!Next, Service!Expire

\* What close() does to it.
LEMMA CloseStep ==
  ASSUME IInv, Next, CloseSessions
  PROVE  [Service!Next]_(Service!vars)
<1>1. \A c \in Clients, e \in Events : ~Holds(c, e)'
  BY DEF Holds, CloseSessions
<1>2. open' = {} /\ UNCHANGED <<acked, lapsed, outbox>>
  BY <1>1 DEF open, CloseSessions
<1> QED BY <1>2 DEF open, Service!Next, Service!Close

\* What a publish does to it, whether or not it is reported.
LEMMA PublishStep ==
  ASSUME IInv, Next, NEW r \in Callers, CallPublish(r)
  PROVE  [Service!Next]_(Service!vars)
<1>0. TypeOK /\ Calls /\ CallHistory
  BY DEF IInv, Base
<1> DEFINE c == call[r]
           a == [event |-> c.event, to |-> c.client, id |-> c.id]
           sent == [event |-> c.event, to |-> c.client, id |-> c.id,
                    encrypted |-> ShouldEncrypt(c.enc)]
<1>1. /\ c.event \in Events /\ c.client \in Clients
      /\ c.id \in RpcIds \cup Events \cup {AppId}
  BY <1>0 DEF TypeOK, Call, Calls, CallPublish
<1>2. PICK q \in Requests :
        /\ q.event = c.event /\ q.to = c.client
        /\ c.id = q.id \/ q.event \in done
  <2>1. PICK i :
          /\ Asked(c.client, c.event, i)
          /\ c.id = i \/ c.event \in done
    BY <1>0 DEF Calls, Named, CallHistory, History, CallPublish, Settled, done
  <2>2. PICK w \in Wires :
          Inner[w] = c.event /\ Author[w] = c.client /\ IsRequest(w) /\ Message[w].id = i
    BY <1>0, <2>1 DEF Asked, TypeOK
  <2>3. [event |-> Inner[w], to |-> Author[w], id |-> Message[w].id] \in Requests
    BY <2>2 DEF Requests
  <2> QED BY <2>1, <2>2, <2>3
<1>3. q.event \in done \/ <<q.to, q.event>> \in open
  BY <1>0, <1>1, <1>2, OpenPairs DEF CallHistory, History, CallPublish, Settled, done
<1>5. open' = open
  BY DEF open, CallPublish, shared, Holds
<1>6. done' \in {done, done \cup {q.event}}
  BY <1>2 DEF done, CallPublish
<1>7. outbox' \in {outbox, outbox \cup {sent}}
  BY DEF CallPublish
<1>8. replies' \in {replies, replies \cup {a}}
  BY <1>7 DEF replies
<1>9. a = [event |-> q.event, to |-> q.to, id |-> c.id]
  BY <1>2
<1> HIDE DEF a, c
<1> QED BY <1>1, <1>2, <1>3, <1>5, <1>6, <1>8, <1>9
        DEF open, done, replies, Requests, Service!Answer, Service!Next

\* A step of the transport is a step of the service, or none.
LEMMA ServiceStep ==
  ASSUME IInv, [Next]_vars
  PROVE  [Service!Next]_(Service!vars)
<1>1. CASE Next
  <2>1. ASSUME ~\E l \in Loops : LoopTrack(l) \/ CleanExpire(l),
               ~\E r \in Callers : CallForget(r) \/ CallPublish(r),
               ~CloseSessions
        PROVE  UNCHANGED <<open, done, replies>>
    <3>1. UNCHANGED <<acked, lapsed, outbox>>
      BY <1>1, <2>1
         DEF Next, Running, Admin, LoopStep, CleanStep, CallStep, Deliver, Tick, LoopSubscribe,
             LoopRecv, LoopLag, LoopMap, LoopFinish, LoopForward, CleanAcquire, Start, StartFails,
             CallLookup, CallSession, CallUnmap, Cancel, Close, CloseMap, ghosts
    <3>2. \A c \in Clients, e \in Events : Holds(c, e)' <=> Holds(c, e)
      BY <1>1, <2>1, OpenKept
    <3>3. open' = open
      BY <3>2 DEF open
    <3> QED BY <3>1, <3>3 DEF done, replies
  <2>2. ASSUME UNCHANGED <<open, done, replies>>
        PROVE  UNCHANGED Service!vars
    BY <2>2 DEF open, done, replies, Service!vars
  <2> QED BY <1>1, <2>1, <2>2, TrackStep, ForgetStep, ExpireStep, CloseStep, PublishStep
<1>2. CASE UNCHANGED vars
  <2>1. UNCHANGED <<open, done, replies>>
    BY <1>2 DEF vars, shared, ghosts, Holds, open, done, replies
  <2>2. UNCHANGED Service!vars
    BY <2>1 DEF open, done, replies, Service!vars
  <2> QED BY <2>2
<1> QED BY <1>1, <1>2

\* The server transport implements RequestService: for any number of clients,
\* requests, loops and calls, what is replied and what is closed is what the
\* service names.
THEOREM ServiceRefinement == Spec => ImplementsService
<1>1. Init => Service!Init
  BY DEF Init, Service!Init, Holds
<1> QED BY <1>1, Inductive, ServiceStep, PTL DEF Spec, ImplementsService, Service!Spec

------------------------------------------------------------------------------
(* What is answered has a cause; for any number of loops. *)

\* What is tracked or handed to the application has arrived; a call is about a request
\* that was handed to it, and so is what was published, under the id of such a request
\* of the client it goes to unless it had been settled.
Caused ==
  /\ \A w \in Wires : forwarded[w] > 0 => w \in arrived
  /\ \A c \in Clients, e \in Events : Holds(c, e) => \E w \in arrived : Inner[w] = e
  /\ \A r \in Callers : call[r].at # "idle" => KnownToApp(call[r].event)
  /\ \A m \in outbox : /\ KnownToApp(m.event)
                       /\ Asked(m.to, m.event, m.id) \/ Settled(m.event)

\* Only a publish adds to what was published.
LEMMA OutboxStep ==
  ASSUME [Next]_vars
  PROVE  outbox' = outbox \/ \E r \in Callers : CallPublish(r)
BY DEF Next, Running, Admin, Deliver, Tick, LoopStep, LoopSubscribe, LoopRecv, LoopLag,
       LoopTrack, LoopMap, LoopFinish, LoopForward, CleanStep, CleanAcquire, CleanExpire,
       CallStep, CallSession, CallForget, CallUnmap, Cancel, CallLookup, Start,
       StartFails, Close, CloseSessions, CloseMap, vars

\* What the application was handed it knows for good, and what is settled stays so.
LEMMA KnownStays ==
  ASSUME TypeOK, [Next]_vars
  PROVE  /\ \A w \in Wires : forwarded[w] > 0 => forwarded'[w] > 0
         /\ \A e : KnownToApp(e) => KnownToApp(e)'
         /\ \A e : Settled(e) => Settled(e)'
<1>1. forwarded' = forwarded \/ \E l \in Loops : LoopForward(l)
  BY StillStep DEF Still, Deliver, LoopRecv, LoopLag
<1>2. ASSUME NEW w \in Wires, forwarded[w] > 0
      PROVE  forwarded'[w] > 0
  <2>1. ASSUME NEW l \in Loops, LoopForward(l)
        PROVE  forwarded'[w] \in {forwarded[w], forwarded[w] + 1} /\ forwarded[w] \in Nat
    BY <2>1 DEF LoopForward, TypeOK
  <2> QED BY <1>1, <1>2, <2>1
<1>3. \A e : Settled(e) => Settled(e)'
  BY SettledStays DEF Settled, vars, ghosts
<1> QED BY <1>2, <1>3 DEF KnownToApp, IsRequest

\* Forwarding hands out what arrived, tracking tracks it, a call begins with a request
\* the application knows, and publishes that.
LEMMA CausedStep ==
  ASSUME IInv, Caused, [Next]_vars
  PROVE  Caused'
<1>0. TypeOK /\ Work /\ Calls /\ CallHistory /\ Received
  BY DEF IInv, Base
<1>1. ASSUME NEW w \in Wires, forwarded'[w] > 0
      PROVE  w \in arrived'
  <2>1. ASSUME NEW l \in Loops, LoopForward(l)
        PROVE  w \in arrived'
    <3>1. current[l] \in arrived
      BY <1>0, <2>1 DEF Received, Busy, LoopForward
    <3>2. w = current[l] \/ forwarded[w] > 0
      BY <1>0, <1>1, <2>1 DEF LoopForward, TypeOK
    <3> QED BY <3>1, <3>2, ArrivedGrows DEF Caused
  <2>2. forwarded' = forwarded \/ \E l \in Loops : LoopForward(l)
    BY <1>0, StillStep DEF Still, Deliver, LoopRecv, LoopLag
  <2> QED BY <1>1, <2>1, <2>2, ArrivedGrows DEF Caused
<1>2. ASSUME NEW c \in Clients, NEW e \in Events, Holds(c, e)'
      PROVE  \E w \in arrived' : Inner[w] = e
  <2>1. CASE Holds(c, e)
    BY <2>1, ArrivedGrows DEF Caused
  <2>2. CASE ~Holds(c, e)
    <3>1. Next
      BY <1>2, <2>2 DEF vars, shared, Holds
    <3>2. PICK l \in Loops : LoopTrack(l) /\ e = Inner[current[l]]
      BY <1>2, <2>2, <3>1, GainStep
    <3>3. current[l] \in arrived
      BY <1>0, <3>2 DEF Received, Busy, LoopTrack
    <3> QED BY <3>2, <3>3, ArrivedGrows
  <2> QED BY <2>1, <2>2
<1>3. ASSUME NEW r \in Callers, call'[r].at # "idle"
      PROVE  KnownToApp(call[r].event)'
  <2>1. ASSUME call'[r].event = call[r].event, call[r].at # "idle"
        PROVE  KnownToApp(call[r].event)'
    <3>1. KnownToApp(call[r].event)
      BY <2>1 DEF Caused
    <3> QED BY <1>0, <2>1, <3>1, KnownStays DEF KnownToApp, IsRequest
  <2>2. ASSUME NEW k \in Callers, NEW e \in Events, CallLookup(k, e)
        PROVE  KnownToApp(call[r].event)'
    <3>1. CASE r = k
      <4>1. KnownToApp(e) /\ call'[r].event = e
        BY <1>0, <2>2, <3>1 DEF CallLookup, Set, TypeOK, Idle
      <4> QED BY <1>0, <4>1, KnownStays DEF KnownToApp, IsRequest
    <3>2. CASE r # k
      BY <1>0, <1>3, <2>1, <2>2, <3>2 DEF CallLookup, Set, TypeOK
    <3> QED BY <3>1, <3>2
  <2>3. ASSUME NEW k \in Callers, CallStep(k) \/ Cancel(k)
        PROVE  KnownToApp(call[r].event)'
    <3>1. CASE r = k
      <4>1. call[r] \in Call /\ Idle.at = "idle"
        BY <1>0 DEF TypeOK, Idle
      <4>2. call'[r].event = call[r].event /\ call[r].at # "idle"
        <5>1. call[r].at # "idle"
          BY <2>3, <3>1 DEF CallStep, CallSession, CallPublish, CallForget, CallUnmap, Cancel
        <5>2. call'[r] # Idle
          BY <1>3, <4>1
        <5>3. CASE CallSession(k)
          BY <1>0, <3>1, <4>1, <5>2, <5>3 DEF CallSession, Set, TypeOK, Call
        <5>4. CASE CallPublish(k)
          BY <1>0, <3>1, <4>1, <5>2, <5>4 DEF CallPublish, AfterPublish, Set, TypeOK, Call
        <5>5. CASE CallForget(k)
          BY <1>0, <3>1, <4>1, <5>5 DEF CallForget, Set, TypeOK, Call
        <5>6. CASE CallUnmap(k) \/ Cancel(k)
          BY <1>0, <3>1, <5>2, <5>6 DEF CallUnmap, Cancel, Set, TypeOK
        <5> QED BY <2>3, <5>1, <5>3, <5>4, <5>5, <5>6 DEF CallStep
      <4> QED BY <2>1, <4>2
    <3>2. CASE r # k
      BY <1>0, <1>3, <2>1, <2>3, <3>2
         DEF CallStep, CallSession, CallPublish, CallForget, CallUnmap, Cancel, Set, TypeOK
    <3> QED BY <3>1, <3>2
  <2>4. CASE UNCHANGED call
    BY <1>3, <2>1, <2>4
  <2> QED BY <2>2, <2>3, <2>4
          DEF Next, Running, Admin, Deliver, Tick, LoopStep, LoopSubscribe, LoopRecv, LoopLag,
              LoopTrack, LoopMap, LoopFinish, LoopForward, CleanStep, CleanAcquire, CleanExpire,
              Start, StartFails, Close, CloseSessions, CloseMap, vars
<1>4. ASSUME NEW m \in outbox'
      PROVE  /\ KnownToApp(m.event)'
             /\ Asked(m.to, m.event, m.id)' \/ Settled(m.event)'
  <2>1. CASE m \in outbox
    BY <1>0, <2>1, KnownStays, AskedStays DEF Caused
  <2>2. ASSUME NEW r \in Callers, CallPublish(r), m \notin outbox
        PROVE  /\ KnownToApp(m.event)'
               /\ Asked(m.to, m.event, m.id)' \/ Settled(m.event)'
    <3>1. /\ m.event = call[r].event /\ m.to = call[r].client /\ m.id = call[r].id
          /\ call[r].at = "publish"
      BY <1>4, <2>2 DEF CallPublish
    <3>2. /\ KnownToApp(call[r].event)
          /\ Asked(m.to, m.event, m.id) \/ Settled(m.event)
      BY <1>0, <3>1 DEF Caused, CallHistory, History
    <3> QED BY <1>0, <3>1, <3>2, KnownStays, AskedStays
  <2> QED BY <1>4, <2>1, <2>2, OutboxStep
<1> QED BY <1>1, <1>2, <1>3, <1>4 DEF Caused

\* Nothing is answered that was not handed to the application.
LEMMA CausedInductive == Spec => []Caused
<1>1. Init => Caused
  <2> SUFFICES ASSUME Init
               PROVE  Caused
    OBVIOUS
  <2>1. \A c \in Clients, e \in Events : ~Holds(c, e)
    BY DEF Init, Holds
  <2> QED BY <2>1 DEF Init, Caused, Idle
<1> QED BY <1>1, CausedStep, Inductive, PTL DEF Spec

------------------------------------------------------------------------------
(* What the liveness properties rest on; for any number of loops. *)

\* A guard that is held has a holder, which is where it holds it; a cleanup is
\* spawned with its loop.
GuardsHeld ==
  /\ lock["sessions"] # None =>
       \E l \in Loops :
         \/ lock["sessions"] = <<"loop", l>> /\ loop_at[l] \in {"map", "finish"}
         \/ lock["sessions"] = <<"cleaner", l>> /\ clean_at[l] = "locked"
  /\ \A l \in Loops : loop_at[l] = "off" => clean_at[l] = "off"

\* Who takes a guard goes on holding it until the step that drops it.
LEMMA GuardsHeldStep ==
  ASSUME TypeOK, Locks, GuardsHeld, [Next]_vars
  PROVE  GuardsHeld'
<1>1. \A l \in Loops : loop_at'[l] = "off" => loop_at[l] = "off"
  <2>1. ASSUME NEW k \in Loops, LoopStep(k) \/ Start(k)
        PROVE  \A l \in Loops : loop_at'[l] = "off" => loop_at[l] = "off"
    BY <2>1 DEF TypeOK, LoopStep, LoopSubscribe, LoopRecv, LoopLag, LoopTrack, LoopMap,
                LoopFinish, LoopForward, Start
  <2>2. loop_at' = loop_at \/ \E k \in Loops : LoopStep(k) \/ Start(k)
    BY DEF Next, Running, Admin, Deliver, Tick, CleanStep, CleanAcquire, CleanExpire, CallStep,
           CallSession, CallPublish, CallForget, CallUnmap, Cancel, CallLookup, StartFails,
           Close, CloseSessions, CloseMap, tasks, vars
  <2> QED BY <2>1, <2>2
<1>2. ASSUME lock' = lock, clean_at' = clean_at,
             \A l \in Loops : loop_at[l] \in {"map", "finish"} =>
               loop_at'[l] \in {"map", "finish"}
      PROVE  GuardsHeld'
  BY <1>1, <1>2 DEF GuardsHeld
<1>3. ASSUME NEW l \in Loops, LoopTrack(l)
      PROVE  GuardsHeld'
  <2>1. lock'["sessions"] = <<"loop", l>> /\ loop_at'[l] \in {"map", "finish"}
        /\ clean_at' = clean_at
    BY <1>3 DEF TypeOK, LoopTrack
  <2> QED BY <1>1, <2>1 DEF GuardsHeld
<1>4. ASSUME NEW l \in Loops, LoopFinish(l) \/ CleanExpire(l)
      PROVE  GuardsHeld'
  <2>1. lock'["sessions"] = None
    BY <1>4 DEF TypeOK, LoopFinish, CleanExpire, CleanupOrder
  <2>2. \A k \in Loops : clean_at[k] = "off" => clean_at'[k] = "off"
    BY <1>4 DEF TypeOK, LoopFinish, CleanExpire
  <2> QED BY <1>1, <2>1, <2>2 DEF GuardsHeld
<1>5. ASSUME NEW l \in Loops, CleanAcquire(l)
      PROVE  GuardsHeld'
  <2>1. lock'["sessions"] = <<"cleaner", l>> /\ clean_at'[l] = "locked"
    BY <1>5 DEF TypeOK, CleanAcquire, CleanupOrder
  <2>2. \A k \in Loops : clean_at[k] = "off" => clean_at'[k] = "off"
    BY <1>5 DEF TypeOK, CleanAcquire
  <2> QED BY <1>1, <2>1, <2>2 DEF GuardsHeld
<1>6. ASSUME NEW l \in Loops, Start(l)
      PROVE  GuardsHeld'
  <2>1. lock' = lock /\ loop_at[l] = "off" /\ clean_at[l] = "off" /\ loop_at'[l] # "off"
        /\ \A k \in Loops : k # l => loop_at'[k] = loop_at[k] /\ clean_at'[k] = clean_at[k]
    BY <1>6 DEF TypeOK, GuardsHeld, Start, shared
  <2> QED BY <2>1 DEF GuardsHeld
<1>7. ASSUME NEW l \in Loops,
             LoopSubscribe(l) \/ LoopRecv(l) \/ LoopLag(l) \/ LoopMap(l) \/ LoopForward(l)
      PROVE  GuardsHeld'
  BY <1>2, <1>7 DEF TypeOK, LoopSubscribe, LoopRecv, LoopLag, LoopMap, LoopForward, shared
<1>8. ASSUME UNCHANGED <<lock, tasks>>
      PROVE  GuardsHeld'
  BY <1>2, <1>8 DEF tasks
<1> QED BY <1>3, <1>4, <1>5, <1>6, <1>7, <1>8
        DEF Next, Running, Admin, Deliver, Tick, LoopStep, CleanStep, CallStep, CallSession,
            CallPublish, CallForget, CallUnmap, Cancel, CallLookup, StartFails, Close,
            CloseSessions, CloseMap, shared, vars

\* The order in which the two guards are taken keeps a holder from waiting for a task
\* that waits for it: nobody keeps the second guard across an await.
THEOREM ProceedTheorem == Spec => []HoldersProceed
<1>1. Init => GuardsHeld
  BY DEF Init, GuardsHeld
<1>2. ASSUME Locks, GuardsHeld
      PROVE  HoldersProceed
  BY <1>2 DEF Locks, GuardsHeld, HoldersProceed, Free, CleanupOrder
<1>3. IInv /\ GuardsHeld /\ [Next]_vars => GuardsHeld'
  BY GuardsHeldStep DEF IInv, Base
<1>4. IInv => Locks
  BY DEF IInv, Base
<1> QED BY <1>1, <1>2, <1>3, <1>4, Inductive, PTL DEF Spec

\* A loop that is not busy has nothing in its hands.
Resting == \A l \in Loops : ~Busy(l) => current[l] = None

\* A loop puts a message down only to forward it.
LEMMA RestingStep ==
  ASSUME TypeOK, Resting, [Next]_vars
  PROVE  Resting'
<1>1. ASSUME NEW l \in Loops, LoopRecv(l) \/ LoopLag(l) \/ LoopForward(l)
      PROVE  Resting'
  BY <1>1 DEF TypeOK, Resting, LoopRecv, LoopLag, LoopForward, Busy
<1>2. ASSUME NEW l \in Loops,
             LoopSubscribe(l) \/ LoopTrack(l) \/ LoopMap(l) \/ LoopFinish(l) \/ Start(l)
      PROVE  Resting'
  BY <1>2 DEF TypeOK, Resting, LoopSubscribe, LoopTrack, LoopMap, LoopFinish, Start, Busy
<1>3. ASSUME UNCHANGED <<loop_at, current>>
      PROVE  Resting'
  BY <1>3 DEF Resting, Busy
<1> QED BY <1>1, <1>2, <1>3
        DEF Next, Running, Admin, Deliver, Tick, LoopStep, CleanStep, CleanAcquire, CleanExpire,
            CallStep, CallSession, CallPublish, CallForget, CallUnmap, Cancel, CallLookup,
            StartFails, Close, CloseSessions, CloseMap, tasks, vars

\* What leaves a receiver is in the hands of its loop, and what leaves those has been
\* forwarded; an overrun is the exception.
LEMMA HandStep ==
  ASSUME TypeOK, Resting, [Next]_vars, NEW l \in Loops, NEW w \in Wires,
         InHand(l, w), ~InHand(l, w)'
  PROVE  forwarded'[w] > forwarded[w] \/ lagged'[l] \/ ~Admitted(w)
<1>1. w # None
  BY SetsAssumption
<1>2. ~Still
  BY DEF Still, InHand
<1>3. ASSUME NEW x \in Wires, Deliver(x)
      PROVE  lagged'[l]
  <2>1. current' = current /\ feed'[l] # feed[l] /\ Queued(feed[l], w) /\ ~Queued(feed'[l], w)
    BY <1>3 DEF Deliver, tasks, InHand
  <2>2. Listening(l) /\ feed'[l] = Push(feed[l], x)
    BY <1>3, <2>1 DEF Deliver
  <2>3. Full(feed[l])
    BY <2>1, <2>2, PushKeeps DEF TypeOK
  <2> QED BY <1>3, <2>2, <2>3 DEF Deliver
<1>4. ASSUME NEW k \in Loops, LoopRecv(k)
      PROVE  ~Admitted(w)
  <2>1. k = l
    BY <1>4 DEF TypeOK, LoopRecv, InHand
  <2>2. current[l] = None /\ feed[l] \in Seq(Wires) /\ feed[l] # <<>> /\ feed'[l] = Tail(feed[l])
    BY <1>4, <2>1 DEF TypeOK, Resting, Busy, LoopRecv
  <2>3. w = Head(feed[l]) /\ current'[l] # w
    BY <1>1, <2>2, TailKeeps DEF InHand
  <2> QED BY <1>4, <2>1, <2>3 DEF TypeOK, LoopRecv
<1>5. ASSUME NEW k \in Loops, LoopLag(k)
      PROVE  lagged'[l]
  BY <1>5 DEF TypeOK, LoopLag, InHand
<1>6. ASSUME NEW k \in Loops, LoopForward(k)
      PROVE  forwarded'[w] > forwarded[w]
  <2>1. k = l /\ current[l] = w
    BY <1>6 DEF TypeOK, LoopForward, InHand, input
  <2>2. forwarded'[w] = forwarded[w] + 1 /\ forwarded[w] \in Nat
    BY <1>6, <2>1 DEF TypeOK, LoopForward
  <2> QED BY <2>2
<1> QED BY <1>2, <1>3, <1>4, <1>5, <1>6, StillStep

\* No message that may be served is lost between the receiver and the application,
\* whatever goes on beside it, unless the receiver is overrun.
THEOREM VanishTheorem == Spec => NothingVanishes
<1>1. Init => Resting
  BY DEF Init, Resting
<1>2. IInv => TypeOK
  BY DEF IInv, Base
<1>3. TypeOK /\ Resting /\ [Next]_vars =>
        [\A l \in Loops, w \in Wires :
           InHand(l, w) /\ ~InHand(l, w)' =>
             forwarded'[w] > forwarded[w] \/ lagged'[l] \/ ~Admitted(w)]_vars
  BY HandStep
<1> QED BY <1>1, <1>2, <1>3, RestingStep, Inductive, PTL DEF Spec, NothingVanishes
================================================================================
