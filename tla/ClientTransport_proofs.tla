------------------------ MODULE ClientTransport_proofs ------------------------
(***************************************************************************)
(* Proofs about ClientTransport, for all values of its constants, and the  *)
(* step from there to Proxy, which only restricts its use.  What is        *)
(* handed on as correlated was solicited however many loops there are, and *)
(* an id is used up once per loop at most.                                 *)
(* That an id is used up by one message alone holds for one loop: between  *)
(* the check of an id and its removal a second loop could pass the check.  *)
(* A proxy has one loop until it is stopped for the first time.            *)
(***************************************************************************)
EXTENDS Proxy, RelayFeed_proofs, FiniteSetTheorems

On(l)      == loop_at[l] # "off"
Working(l) == loop_at[l] \in {"check", "deliver"}

\* The ids that are published, and those that tags name, are ids of sends.
LEMMA IdsTyped ==
  /\ \A s \in Sends : PublishedId(s) \in Ids
  /\ \A w \in Wires : Tag(w) \in Ids \cup {None}
BY TrafficAssumption DEF PublishedId, SignedId, WrapId, Ids, Tag

\* The type invariant is inductive with what a working loop works on.
TypeInv == TypeOK /\ \A l \in Loops : Working(l) => current[l] \in Wires

\* Nothing is being worked on initially.
LEMMA TypeInit == Init => TypeInv
<1> SUFFICES ASSUME Init
             PROVE  TypeInv
  OBVIOUS
<1>1. TypeOK
  <2>1. feed \in [Loops -> Seq(Wires)]
    BY DEF Init
  <2> QED BY <2>1 DEF Init, TypeOK
<1>2. \A l \in Loops : ~Working(l)
  BY DEF Init, Working
<1> QED BY <1>1, <1>2 DEF TypeInv

\* One step per action; only receiving puts a message in front of a loop.
LEMMA TypeStep ==
  ASSUME TypeInv, [Next]_vars
  PROVE  TypeInv'
<1>0. TypeOK /\ \A l \in Loops : Working(l) => current[l] \in Wires
  BY DEF TypeInv
<1>1. ASSUME NEW s \in Sends, SendLocal(s)
      PROVE  TypeInv'
  BY <1>0, <1>1 DEF SendLocal, TypeInv, TypeOK, Working, input
<1>2. ASSUME NEW s \in Sends, SendPublish(s)
      PROVE  TypeInv'
  <2>1. published' \subseteq Sends
    BY <1>0, <1>2 DEF SendPublish, TypeOK
  <2>2. send_at' \in [Sends -> {"idle", "register", "done", "failed"}]
    BY <1>0, <1>2 DEF SendPublish, TypeOK
  <2> QED BY <1>0, <1>2, <2>1, <2>2 DEF SendPublish, TypeInv, TypeOK, Working, input
<1>3. ASSUME NEW s \in Sends, SendRegister(s)
      PROVE  TypeInv'
  BY <1>0, <1>3, IdsTyped DEF SendRegister, TypeInv, TypeOK, Working, input
<1>4. ASSUME NEW w \in Wires, Deliver(w)
      PROVE  TypeInv'
  <2>1. feed' \in [Loops -> Seq(Wires)]
    BY <1>0, <1>4, PushSound DEF Deliver, TypeOK
  <2>2. lagged' \in [Loops -> BOOLEAN]
    BY <1>0, <1>4 DEF Deliver, TypeOK
  <2> QED BY <1>0, <1>4, <2>1, <2>2 DEF Deliver, TypeInv, TypeOK, Working, sender
<1>5. ASSUME NEW l \in Loops, LoopSubscribe(l)
      PROVE  TypeInv'
  BY <1>0, <1>5 DEF LoopSubscribe, TypeInv, TypeOK, Working, input, sender
<1>6. ASSUME NEW l \in Loops, LoopRecv(l)
      PROVE  TypeInv'
  <2>1. Head(feed[l]) \in Wires /\ Tail(feed[l]) \in Seq(Wires)
    BY <1>0, <1>6, TailSound DEF LoopRecv, TypeOK
  <2>2. feed' \in [Loops -> Seq(Wires)]
    BY <1>0, <1>6, <2>1 DEF LoopRecv, TypeOK
  <2>3. /\ loop_at' \in [Loops -> {"off", "spawned", "recv", "check", "deliver", "ended"}]
        /\ current' \in [Loops -> Wires \cup {None}]
    BY <1>0, <1>6, <2>1 DEF LoopRecv, TypeOK
  <2>4. \A k \in Loops : Working(k)' => current'[k] \in Wires
    BY <1>0, <1>6, <2>1 DEF LoopRecv, TypeOK, Working
  <2> QED BY <1>0, <1>6, <2>2, <2>3, <2>4 DEF LoopRecv, TypeInv, TypeOK, sender
<1>7. ASSUME NEW l \in Loops, LoopLag(l)
      PROVE  TypeInv'
  <2>1. feed' \in [Loops -> Seq(Wires)]
    BY <1>0, <1>7 DEF LoopLag, TypeOK
  <2> QED BY <1>0, <1>7, <2>1 DEF LoopLag, TypeInv, TypeOK, Working, sender
<1>8. ASSUME NEW l \in Loops, LoopCheck(l)
      PROVE  TypeInv'
  BY <1>0, <1>8 DEF LoopCheck, AfterCheck, TypeInv, TypeOK, Working, input, sender
<1>9. ASSUME NEW l \in Loops, LoopDeliver(l)
      PROVE  TypeInv'
  BY <1>0, <1>9 DEF LoopDeliver, Answered, TypeInv, TypeOK, Working, input, sender
<1>10. ASSUME NEW l \in Loops, Start(l)
      PROVE  TypeInv'
  BY <1>0, <1>10 DEF Start, TypeInv, TypeOK, Working, sender
<1>11. ASSUME StartFails \/ Close
      PROVE  TypeInv'
  BY <1>0, <1>11 DEF StartFails, Close, TypeInv, TypeOK, Working, sender
<1>12. ASSUME UNCHANGED vars
      PROVE  TypeInv'
  BY <1>0, <1>12 DEF vars, sender, input, TypeInv, TypeOK, Working
<1> QED BY <1>1, <1>2, <1>3, <1>4, <1>5, <1>6, <1>7, <1>8, <1>9, <1>10, <1>11, <1>12
        DEF Next, Running, Admin

\* Every variable keeps its type; a loop never works on an absent message, and only
\* ids of published events are ever pending.
THEOREM ClientTypeCorrect == Spec => []TypeOK
<1>1. TypeInv => TypeOK
  BY DEF TypeInv
<1> QED BY <1>1, TypeInit, TypeStep, PTL DEF Spec

------------------------------------------------------------------------------
(* Correlation, for any number of loops. *)

\* An id is registered by the send that it was published under, which returns with that.
Registered == \A i \in registered : \E s \in Sends : i = PublishedId(s) /\ send_at[s] = "done"

\* A tag that is registered is so by the send it refers to.
LEMMA TagOfDone ==
  ASSUME Registered, NEW w \in Wires, Tag(w) # None, Tag(w) \in registered
  PROVE  send_at[Inbound[w].about] = "done"
BY DEF Registered, Tag, PublishedId, SignedId, WrapId

Correlated ==
  /\ pending \subseteq registered
  /\ Registered
  /\ \A l \in Loops : loop_at[l] = "deliver" /\ Tag(current[l]) # None =>
       Tag(current[l]) \in registered
  /\ OnlySolicited
  /\ PendingUntilAnswered

\* Only these steps change what a loop works on, or what is pending or handed on.
Quiet ==
  /\ UNCHANGED <<pending, registered, delivered, current>>
  /\ \A s \in Sends : send_at[s] = "done" => send_at'[s] = "done"
  /\ \A l \in Loops : Working(l)' => loop_at'[l] = loop_at[l]

\* All other actions are quiet.
LEMMA QuietStep ==
  ASSUME TypeInv, [Next]_vars
  PROVE  \/ Quiet
         \/ \E s \in Sends : SendRegister(s)
         \/ \E l \in Loops : LoopRecv(l) \/ LoopCheck(l) \/ LoopDeliver(l)
<1>1. ASSUME \/ \E s \in Sends : SendLocal(s) \/ SendPublish(s)
             \/ \E w \in Wires : Deliver(w)
             \/ StartFails \/ Close \/ UNCHANGED vars
      PROVE  Quiet
  BY <1>1 DEF TypeInv, TypeOK, SendLocal, SendPublish, Deliver, StartFails, Close, vars, input,
              sender, Quiet
<1>2. ASSUME NEW l \in Loops, LoopSubscribe(l) \/ LoopLag(l) \/ Start(l)
      PROVE  Quiet
  BY <1>2 DEF TypeInv, TypeOK, LoopSubscribe, LoopLag, Start, sender, Quiet, Working
<1> QED BY <1>1, <1>2 DEF Next, Running, Admin

\* A loop delivers what it checked, and removes an id together with delivering.
LEMMA CorrelatedStep ==
  ASSUME TypeInv, Correlated, [Next]_vars
  PROVE  Correlated'
<1>0. TypeOK /\ \A l \in Loops : Working(l) => current[l] \in Wires
  BY DEF TypeInv
<1>1. ASSUME Quiet
      PROVE  Correlated'
  <2>1. Registered'
    BY <1>1 DEF Quiet, Correlated, Registered, PublishedId, SignedId, WrapId, Encrypts, ShouldEncrypt
  <2>2. OnlySolicited'
    BY <1>1, TrafficAssumption DEF Quiet, Correlated, OnlySolicited, Tag
  <2> QED BY <1>1, <2>1, <2>2 DEF Quiet, Correlated, Working, Tag, PendingUntilAnswered
<1>2. ASSUME NEW s \in Sends, SendRegister(s)
      PROVE  Correlated'
  <2>1. /\ registered' = registered \cup {PublishedId(s)} /\ pending' = pending \cup {PublishedId(s)}
        /\ send_at'[s] = "done" /\ \A p \in Sends : send_at[p] = "done" => send_at'[p] = "done"
        /\ UNCHANGED <<delivered, loop_at, current>>
    BY <1>0, <1>2 DEF SendRegister, TypeOK
  <2>2. Registered'
    BY <2>1 DEF Correlated, Registered, PublishedId, SignedId, WrapId, Encrypts, ShouldEncrypt
  <2>3. OnlySolicited'
    BY <2>1, TrafficAssumption DEF Correlated, OnlySolicited, Tag
  <2> QED BY <2>1, <2>2, <2>3 DEF Correlated, Working, Tag, PendingUntilAnswered
<1>3. ASSUME NEW l \in Loops, LoopRecv(l)
      PROVE  Correlated'
  <2>1. UNCHANGED <<send_at, pending, registered, delivered>>
    BY <1>3 DEF LoopRecv, sender
  <2>2. \A k \in Loops : k # l => loop_at'[k] = loop_at[k] /\ current'[k] = current[k]
    BY <1>0, <1>3 DEF LoopRecv, TypeOK
  <2>3. loop_at'[l] = "deliver" => Tag(current'[l]) = None
    BY <1>0, <1>3 DEF LoopRecv, TypeOK
  <2>4. Registered'
    BY <2>1 DEF Correlated, Registered, PublishedId, SignedId, WrapId, Encrypts, ShouldEncrypt
  <2> QED BY <2>1, <2>2, <2>3, <2>4
          DEF Correlated, Working, Tag, OnlySolicited, PendingUntilAnswered
<1>4. ASSUME NEW l \in Loops, LoopCheck(l)
      PROVE  Correlated'
  <2>1. UNCHANGED <<send_at, pending, registered, delivered>>
    BY <1>4 DEF LoopCheck, sender
  <2>2. \A k \in Loops : k # l => loop_at'[k] = loop_at[k] /\ current'[k] = current[k]
    BY <1>0, <1>4 DEF LoopCheck, TypeOK
  <2>3. Working(l)' => current'[l] = current[l] /\ Working(l) /\ Tag(current[l]) \in pending
    BY <1>0, <1>4 DEF LoopCheck, AfterCheck, Accepts, TypeOK, Working
  <2>4. Registered'
    BY <2>1 DEF Correlated, Registered, PublishedId, SignedId, WrapId, Encrypts, ShouldEncrypt
  <2> QED BY <2>1, <2>2, <2>3, <2>4
          DEF Correlated, Working, Tag, OnlySolicited, PendingUntilAnswered
<1>5. ASSUME NEW l \in Loops, LoopDeliver(l)
      PROVE  Correlated'
  <2> DEFINE w == current[l]
  <2>1. /\ UNCHANGED <<send_at, registered>> /\ pending' = pending \ {Tag(w)}
    BY <1>5 DEF LoopDeliver, Answered, sender
  <2>2. \A k \in Loops : Working(k)' => k # l /\ loop_at'[k] = loop_at[k] /\ current'[k] = current[k]
    BY <1>0, <1>5 DEF LoopDeliver, TypeOK, Working
  <2>3. w \in Wires /\ (Tag(w) # None => Tag(w) \in registered)
    BY <1>0, <1>5 DEF LoopDeliver, Working, Correlated
  <2>7. Tag(w) # None => send_at[Inbound[w].about] = "done"
    BY <2>3, TagOfDone DEF Correlated
  <2>4. /\ delivered'[w] > 0
        /\ \A v \in Wires : /\ delivered'[v] > 0 => delivered[v] > 0 \/ v = w
                            /\ delivered[v] > 0 => delivered'[v] > 0
    BY <1>0, <1>5, <2>3 DEF LoopDeliver, TypeOK
  <2>5. OnlySolicited'
    BY <2>1, <2>3, <2>4, <2>7 DEF Correlated, OnlySolicited, Tag
  <2>6. PendingUntilAnswered'
    BY <2>1, <2>3, <2>4 DEF Correlated, PendingUntilAnswered, Tag
  <2>8. Registered'
    BY <2>1 DEF Correlated, Registered, PublishedId, SignedId, WrapId, Encrypts, ShouldEncrypt
  <2> QED BY <2>1, <2>2, <2>5, <2>6, <2>8 DEF Correlated, Working, Tag
<1> QED BY <1>1, <1>2, <1>3, <1>4, <1>5, QuietStep

\* Both invariants hold of every reachable state.
LEMMA CorrelationInductive == Spec => [](TypeInv /\ Correlated)
<1>1. Init => TypeInv /\ Correlated
  BY TypeInit DEF Init, Correlated, Registered, Working, OnlySolicited, PendingUntilAnswered
<1>2. TypeInv /\ Correlated /\ [Next]_vars => (TypeInv /\ Correlated)'
  BY TypeStep, CorrelatedStep
<1> QED BY <1>1, <1>2, PTL DEF Spec

\* Whatever is handed to the application as correlated answers a send of this client
\* that has returned with Ok and registered its id, for any number of loops and sends.
THEOREM SolicitedTheorem == Spec => []OnlySolicited
<1>1. Correlated => OnlySolicited
  BY DEF Correlated
<1> QED BY <1>1, CorrelationInductive, PTL

\* No id is used up by a message that is not handed on.
THEOREM PendingTheorem == Spec => []PendingUntilAnswered
<1>1. Correlated => PendingUntilAnswered
  BY DEF Correlated
<1> QED BY <1>1, CorrelationInductive, PTL

\* What is in a receiver, worked on or handed on has arrived.
Received ==
  /\ \A l \in Loops, w \in Wires : Queued(feed[l], w) => w \in arrived
  /\ \A l \in Loops : Working(l) => current[l] \in arrived
  /\ \A w \in Wires : delivered[w] > 0 => w \in arrived

\* Nothing is in an empty receiver.
LEMMA EmptyFeed == \A x : ~Queued(<<>>, x) /\ Distinct(<<>>)
BY DEF Queued, Distinct

\* Only the relays put something new in a receiver.
LEMMA ReceivedStep ==
  ASSUME TypeInv, Received, [Next]_vars
  PROVE  Received'
<1>0. TypeOK /\ \A l \in Loops : Working(l) => current[l] \in Wires
  BY DEF TypeInv
<1>1. ASSUME UNCHANGED <<feed, arrived, delivered>>,
             \A l \in Loops : Working(l)' => Working(l) /\ current'[l] = current[l]
      PROVE  Received'
  BY <1>1 DEF Received
<1>2. ASSUME \/ \E s \in Sends : SendLocal(s) \/ SendPublish(s) \/ SendRegister(s)
             \/ StartFails \/ Close \/ UNCHANGED vars
      PROVE  Received'
  BY <1>1, <1>2 DEF SendLocal, SendPublish, SendRegister, StartFails, Close, vars, input, Working
<1>3. ASSUME NEW l \in Loops, LoopSubscribe(l) \/ LoopCheck(l) \/ Start(l)
      PROVE  Received'
  BY <1>0, <1>1, <1>3 DEF TypeOK, LoopSubscribe, LoopCheck, AfterCheck, Start, Working, input
<1>4. ASSUME NEW w \in Wires, Deliver(w)
      PROVE  Received'
  <2>1. /\ arrived' = arrived \cup {w} /\ UNCHANGED <<delivered, current, loop_at>>
        /\ \A l \in Loops : feed'[l] = feed[l] \/ feed'[l] = Push(feed[l], w)
    BY <1>4 DEF Deliver
  <2>2. ASSUME NEW l \in Loops, NEW x \in Wires, Queued(feed'[l], x)
        PROVE  x \in arrived'
    <3>1. feed[l] \in Seq(Wires) /\ (Queued(feed[l], x) => x \in arrived)
      BY <1>0 DEF TypeOK, Received
    <3>2. CASE feed'[l] = feed[l]
      BY <2>1, <2>2, <3>1, <3>2
    <3>3. CASE feed'[l] = Push(feed[l], w)
      <4>1. Queued(Push(feed[l], w), x) => Queued(feed[l], x) \/ x = w
        BY <3>1, PushSound
      <4> QED BY <2>1, <2>2, <3>1, <3>3, <4>1
    <3> QED BY <2>1, <3>2, <3>3
  <2> QED BY <2>1, <2>2 DEF Received, Working
<1>5. ASSUME NEW l \in Loops, LoopRecv(l)
      PROVE  Received'
  <2> DEFINE w == Head(feed[l])
  <2>1. /\ feed[l] \in Seq(Wires) /\ feed[l] # <<>> /\ feed'[l] = Tail(feed[l])
        /\ UNCHANGED <<arrived, delivered>> /\ (Working(l)' => current'[l] = w)
        /\ \A k \in Loops : k # l => /\ feed'[k] = feed[k] /\ current'[k] = current[k]
                                     /\ Working(k)' = Working(k)
    BY <1>0, <1>5 DEF LoopRecv, TypeOK, Working
  <2>2. w \in Wires /\ Queued(feed[l], w) /\ \A x : Queued(feed'[l], x) => Queued(feed[l], x)
    BY <2>1, TailSound
  <2> HIDE DEF w
  <2> QED BY <2>1, <2>2 DEF Received
<1>6. ASSUME NEW l \in Loops, LoopLag(l)
      PROVE  Received'
  <2>1. /\ feed'[l] = <<>> /\ ~Working(l)' /\ UNCHANGED <<arrived, delivered, current>>
        /\ \A k \in Loops : k # l => feed'[k] = feed[k] /\ Working(k)' = Working(k)
    BY <1>0, <1>6 DEF LoopLag, TypeOK, Working
  <2> QED BY <2>1, EmptyFeed DEF Received
<1>7. ASSUME NEW l \in Loops, LoopDeliver(l)
      PROVE  Received'
  <2>1. /\ UNCHANGED <<arrived, feed>> /\ current[l] \in arrived
        /\ \A k \in Loops : Working(k)' => Working(k) /\ current'[k] = current[k]
    BY <1>0, <1>7 DEF LoopDeliver, Received, Working, TypeOK, input
  <2>2. \A v \in Wires : delivered'[v] > 0 => delivered[v] > 0 \/ v = current[l]
    BY <1>0, <1>7 DEF LoopDeliver, TypeOK
  <2> QED BY <2>1, <2>2 DEF Received
<1> QED BY <1>2, <1>3, <1>4, <1>5, <1>6, <1>7 DEF Next, Running, Admin

\* It holds of every reachable state, for any number of loops.
LEMMA ReceivedInductive == Spec => []Received
<1>1. Init => Received
  <2> SUFFICES ASSUME Init
               PROVE  Received
    OBVIOUS
  <2>1. \A l \in Loops : feed[l] = <<>> /\ ~Working(l)
    BY DEF Init, Working
  <2> QED BY <2>1, EmptyFeed DEF Init, Received
<1> QED BY <1>1, ReceivedStep, CorrelationInductive, PTL DEF Spec

------------------------------------------------------------------------------
(* Exactly one answer, for one loop. *)

\* At most one start() has succeeded.
Single == \A k, l \in Loops : On(k) /\ On(l) => k = l

\* A message is in the receiver, then with the loop, then handed on, never in two
\* of these places: it is handed on once at most.
Linear ==
  /\ \A l \in Loops : ~On(l) => feed[l] = <<>>
  /\ \A l \in Loops : Distinct(feed[l])
  /\ \A l \in Loops, w \in Wires : Queued(feed[l], w) => w \in arrived /\ delivered[w] = 0
  /\ \A l \in Loops : Working(l) =>
       /\ current[l] \in arrived /\ delivered[current[l]] = 0
       /\ ~Queued(feed[l], current[l])
  /\ \A w \in Wires : delivered[w] > 0 => delivered[w] = 1 /\ w \in arrived

\* An id is registered once, by the send that published it; a message that was handed
\* on has used its id up, and one that is about to be has found its id there.
Exact ==
  /\ \A s \in Sends : PublishedId(s) \in registered => send_at[s] = "done"
  /\ \A w \in Wires : delivered[w] > 0 /\ Tag(w) # None => Tag(w) \notin pending
  /\ \A l \in Loops : loop_at[l] = "deliver" /\ Tag(current[l]) # None =>
       Tag(current[l]) \in pending
  /\ AnsweredOnce

\* Beside the loop that runs there is none with work, or with a message in its receiver.
LEMMA Alone ==
  ASSUME Single, Linear, NEW l \in Loops, On(l), NEW k \in Loops, k # l
  PROVE  ~On(k) /\ ~Working(k) /\ loop_at[k] # "deliver" /\ feed[k] = <<>>
BY DEF Single, Linear, On, Working

\* A message moves from the relays to the receiver, to the loop, to the application.
LEMMA LinearStep ==
  ASSUME TypeInv, Single, Linear, [Next]_vars
  PROVE  Linear'
<1>0. TypeOK /\ \A l \in Loops : Working(l) => current[l] \in Wires
  BY DEF TypeInv
<1>1. ASSUME UNCHANGED <<feed, arrived, delivered, current>>,
             \A l \in Loops : (Working(l)' => Working(l)) /\ (On(l) => On(l)')
      PROVE  Linear'
  BY <1>1 DEF Linear
<1>2. ASSUME \/ \E s \in Sends : SendLocal(s) \/ SendPublish(s) \/ SendRegister(s)
             \/ StartFails \/ Close \/ UNCHANGED vars
      PROVE  Linear'
  BY <1>1, <1>2 DEF SendLocal, SendPublish, SendRegister, StartFails, Close, vars, input,
                    Working, On
<1>3. ASSUME NEW l \in Loops, LoopSubscribe(l) \/ Start(l)
      PROVE  Linear'
  BY <1>0, <1>1, <1>3 DEF TypeOK, LoopSubscribe, Start, Working, On, input
<1>4. ASSUME NEW w \in Wires, Deliver(w)
      PROVE  Linear'
  <2>1. /\ w \notin arrived /\ arrived' = arrived \cup {w} /\ delivered[w] = 0
        /\ UNCHANGED <<delivered, current, loop_at>>
    BY <1>0, <1>4 DEF Deliver, TypeOK, Linear
  <2>2. \A l \in Loops : /\ feed'[l] = feed[l] \/ feed'[l] = Push(feed[l], w)
                         /\ ~On(l) => feed'[l] = feed[l]
    BY <1>4 DEF Deliver, Listening, On
  <2>3. ASSUME NEW l \in Loops
        PROVE  /\ Distinct(feed'[l])
               /\ \A x : Queued(feed'[l], x) => Queued(feed[l], x) \/ x = w
    <3>1. feed[l] \in Seq(Wires) /\ ~Queued(feed[l], w) /\ Distinct(feed[l])
      BY <1>0, <2>1 DEF TypeOK, Linear
    <3>2. /\ Distinct(Push(feed[l], w))
          /\ \A x : Queued(Push(feed[l], w), x) => Queued(feed[l], x) \/ x = w
      BY <3>1, PushSound
    <3>3. CASE feed'[l] = feed[l]
      BY <3>1, <3>3
    <3>4. CASE feed'[l] = Push(feed[l], w)
      BY <3>2, <3>4
    <3> QED BY <2>2, <3>3, <3>4
  <2>4. \A l \in Loops : /\ Working(l)' = Working(l) /\ On(l)' = On(l)
                         /\ Working(l) => current[l] # w
    BY <2>1 DEF Working, On, Linear
  <2> QED BY <2>1, <2>2, <2>3, <2>4 DEF Linear
<1>5. ASSUME NEW l \in Loops, LoopRecv(l)
      PROVE  Linear'
  <2> DEFINE w == Head(feed[l])
  <2>1. /\ feed[l] \in Seq(Wires) /\ feed[l] # <<>> /\ feed'[l] = Tail(feed[l])
        /\ On(l) /\ On(l)' /\ (Working(l)' => current'[l] = w)
        /\ UNCHANGED <<arrived, delivered>>
    BY <1>0, <1>5 DEF LoopRecv, TypeOK, On, Working
  <2>2. \A k \in Loops : k # l => /\ feed'[k] = feed[k] /\ current'[k] = current[k]
                                  /\ Working(k)' = Working(k) /\ On(k)' = On(k)
    BY <1>0, <1>5 DEF LoopRecv, TypeOK, On, Working
  <2>3. /\ w \in Wires /\ Queued(feed[l], w) /\ ~Queued(feed'[l], w) /\ Distinct(feed'[l])
        /\ \A x : Queued(feed'[l], x) => Queued(feed[l], x)
    BY <2>1, TailSound DEF Linear
  <2>4. w \in arrived /\ delivered[w] = 0
    BY <2>3 DEF Linear
  <2> HIDE DEF w
  <2> QED BY <2>1, <2>2, <2>3, <2>4 DEF Linear
<1>6. ASSUME NEW l \in Loops, LoopLag(l)
      PROVE  Linear'
  <2>1. /\ feed'[l] = <<>> /\ ~Working(l)' /\ UNCHANGED <<arrived, delivered, current>>
        /\ \A k \in Loops : k # l => /\ feed'[k] = feed[k]
                                     /\ Working(k)' = Working(k) /\ On(k)' = On(k)
    BY <1>0, <1>6 DEF LoopLag, TypeOK, On, Working
  <2> QED BY <2>1, EmptyFeed DEF Linear
<1>7. ASSUME NEW l \in Loops, LoopCheck(l)
      PROVE  Linear'
  <2>1. UNCHANGED <<feed, arrived, delivered>> /\ \A k \in Loops : On(k)' = On(k)
    BY <1>0, <1>7 DEF LoopCheck, AfterCheck, TypeOK, On, input
  <2>2. \A k \in Loops : Working(k)' => Working(k) /\ current'[k] = current[k]
    BY <1>0, <1>7 DEF LoopCheck, AfterCheck, TypeOK, Working
  <2> QED BY <2>1, <2>2 DEF Linear
<1>8. ASSUME NEW l \in Loops, LoopDeliver(l)
      PROVE  Linear'
  <2> DEFINE w == current[l]
  <2>1. /\ On(l) /\ Working(l) /\ ~Working(l)' /\ UNCHANGED <<feed, arrived>>
        /\ \A k \in Loops : k # l => Working(k)' = Working(k)
        /\ \A k \in Loops : On(k)' = On(k)
    BY <1>0, <1>8 DEF LoopDeliver, TypeOK, On, Working, input
  <2>2. w \in Wires /\ w \in arrived /\ delivered[w] = 0 /\ ~Queued(feed[l], w)
    BY <1>0, <2>1 DEF Linear
  <2>3. delivered'[w] = 1 /\ \A v \in Wires : v # w => delivered'[v] = delivered[v]
    BY <1>0, <1>8, <2>2 DEF LoopDeliver, TypeOK
  <2>4. \A k \in Loops : ~Queued(feed[k], w) /\ ~Working(k)'
    BY <2>1, <2>2, Alone, EmptyFeed
  <2> HIDE DEF w
  <2> QED BY <2>1, <2>2, <2>3, <2>4 DEF Linear
<1> QED BY <1>2, <1>3, <1>4, <1>5, <1>6, <1>7, <1>8 DEF Next, Running, Admin

\* Delivering needs a pending id and uses it up; registering adds one that never was.
LEMMA ExactStep ==
  ASSUME TypeInv, Correlated, Single, Linear, Exact, [Next]_vars
  PROVE  Exact'
<1>0. TypeOK /\ \A l \in Loops : Working(l) => current[l] \in Wires
  BY DEF TypeInv
<1>1. \A s, t \in Sends : PublishedId(s) = PublishedId(t) => s = t
  BY DEF PublishedId, WrapId, SignedId
<1>2. \A s \in Sends : send_at[s] = "done" => send_at'[s] = "done"
  BY <1>0 DEF Next, Running, Admin, SendLocal, SendPublish, SendRegister, Deliver, LoopSubscribe,
              LoopRecv, LoopLag, LoopCheck, LoopDeliver, Start, StartFails, Close, vars, sender,
              TypeOK
<1>3. ASSUME Quiet
      PROVE  Exact'
  BY <1>2, <1>3 DEF Quiet, Exact, Working, Tag, AnsweredOnce, PublishedId
<1>4. ASSUME NEW s \in Sends, SendRegister(s)
      PROVE  Exact'
  <2>1. /\ send_at[s] = "register" /\ send_at'[s] = "done"
        /\ registered' = registered \cup {PublishedId(s)}
        /\ pending' = pending \cup {PublishedId(s)}
        /\ UNCHANGED <<delivered, current, loop_at>>
    BY <1>0, <1>4 DEF SendRegister, TypeOK
  <2>2. PublishedId(s) \notin registered
    BY <2>1 DEF Exact
  <2>3. \A w \in Wires : delivered[w] > 0 /\ Tag(w) # None => Tag(w) # PublishedId(s)
    BY <2>2 DEF Correlated, OnlySolicited
  <2>4. \A t \in Sends : PublishedId(t) \in registered' => send_at'[t] = "done"
    BY <1>1, <1>2, <2>1 DEF Exact
  <2> QED BY <2>1, <2>3, <2>4 DEF Exact, AnsweredOnce, Tag, PublishedId
<1>5. ASSUME NEW l \in Loops, LoopRecv(l)
      PROVE  Exact'
  <2>1. UNCHANGED <<pending, registered, delivered>>
        /\ \A k \in Loops : k # l => loop_at'[k] = loop_at[k] /\ current'[k] = current[k]
    BY <1>0, <1>5 DEF LoopRecv, TypeOK
  <2>2. loop_at'[l] = "deliver" => Tag(current'[l]) = None
    BY <1>0, <1>5 DEF LoopRecv, TypeOK
  <2> QED BY <1>2, <2>1, <2>2 DEF Exact, AnsweredOnce, Tag, PublishedId
<1>6. ASSUME NEW l \in Loops, LoopCheck(l)
      PROVE  Exact'
  <2>1. UNCHANGED <<pending, registered, delivered>>
        /\ \A k \in Loops : k # l => loop_at'[k] = loop_at[k] /\ current'[k] = current[k]
    BY <1>0, <1>6 DEF LoopCheck, TypeOK
  <2>2. loop_at'[l] = "deliver" => current'[l] = current[l] /\ Tag(current[l]) \in pending
    BY <1>0, <1>6 DEF LoopCheck, AfterCheck, Accepts, TypeOK
  <2> QED BY <1>2, <2>1, <2>2 DEF Exact, AnsweredOnce, Tag, PublishedId
<1>7. ASSUME NEW l \in Loops, LoopDeliver(l)
      PROVE  Exact'
  <2> DEFINE w == current[l]
  <2>0. On(l)
    BY <1>7 DEF LoopDeliver, On
  <2>1. registered' = registered /\ pending' = pending \ {Tag(w)}
        /\ \A k \in Loops : loop_at'[k] # "deliver"
    BY <1>0, <1>7, <2>0, Alone DEF LoopDeliver, Answered, TypeOK
  <2>2. w \in Wires /\ delivered[w] = 0 /\ (Tag(w) # None => Tag(w) \in pending)
    BY <1>0, <1>7 DEF LoopDeliver, Working, Linear, Exact
  <2>3. delivered'[w] = 1 /\ \A v \in Wires : v # w => delivered'[v] = delivered[v]
    BY <1>0, <1>7, <2>2 DEF LoopDeliver, TypeOK
  <2>4. \A v \in Wires : Tag(v)' = Tag(v)
    BY DEF Tag
  <2> HIDE DEF w
  <2>5. \A v \in Wires : delivered'[v] > 0 /\ Tag(v) # None => Tag(v) \notin pending'
    BY <2>1, <2>2, <2>3 DEF Exact
  <2>6. \A v \in Wires : delivered[v] > 0 /\ Tag(v) # None => Tag(v) # Tag(w)
    BY <2>2 DEF Exact
  <2>7. AnsweredOnce'
    BY <2>2, <2>3, <2>4, <2>6 DEF Exact, AnsweredOnce
  <2> QED BY <1>2, <2>1, <2>4, <2>5, <2>7 DEF Exact, PublishedId
<1> QED BY <1>3, <1>4, <1>5, <1>6, <1>7, QuietStep

\* Initially nothing is anywhere.
LEMMA LinearInit == Init => Single /\ Linear /\ Exact
<1> SUFFICES ASSUME Init
             PROVE  Single /\ Linear /\ Exact
  OBVIOUS
<1>1. \A l \in Loops : feed[l] = <<>> /\ ~On(l) /\ ~Working(l) /\ loop_at[l] # "deliver"
  BY DEF Init, On, Working
<1> QED BY <1>1, EmptyFeed DEF Init, Single, Linear, Exact, AnsweredOnce

\* As long as there is one loop both invariants hold.
LEMMA ExactInductive == Spec /\ []Single => [](Linear /\ Exact)
<1>1. TypeInv /\ Correlated /\ Single /\ Linear /\ Exact /\ [Next]_vars => Linear' /\ Exact'
  BY LinearStep, ExactStep
<1> QED BY <1>1, LinearInit, CorrelationInductive, PTL DEF Spec

\* With one event loop a registered id is used up by exactly one message, although
\* its check and its removal are two critical sections: the loop is the only one that
\* removes, and no id is registered twice.
THEOREM AnsweredOnceTheorem == Spec /\ []Single => []AnsweredOnce
<1>1. Exact => AnsweredOnce
  BY DEF Exact
<1> QED BY <1>1, ExactInductive, PTL

------------------------------------------------------------------------------
(* At most one answer per loop, for any number of loops. *)

\* The loops that were ever spawned; those about to hand on something for s; and every
\* time something was handed on for s.
Spawned == {l \in Loops : On(l)}
Ready(s) == {l \in Loops : loop_at[l] = "deliver" /\ Tag(current[l]) = SignedId(s)}
Used(s) == UNION {{w} \X (1 .. delivered[w]) : w \in {v \in Wires : Tag(v) = SignedId(s)}}

\* A loop gets ready only while the id is pending, when nothing was handed on for it; after
\* that every loop that is ready makes one use at most.
Bounded ==
  /\ IsFiniteSet(Spawned)
  /\ \A s \in Sends :
       /\ IsFiniteSet(Used(s))
       /\ Cardinality(Used(s)) + Cardinality(Ready(s)) <= Cardinality(Spawned)
       /\ SignedId(s) \in pending => Used(s) = {}

\* The pairs of some wires and their counts.
LEMMA PairsOf ==
  ASSUME NEW V \in SUBSET Wires, NEW d \in [Wires -> Nat]
  PROVE  LET U == UNION {{w} \X (1 .. d[w]) : w \in V}
         IN  /\ \A w \in Wires, n \in Nat : <<w, n>> \in U <=> w \in V /\ n \in 1 .. d[w]
             /\ U \subseteq Wires \X Nat
             /\ U # {} => \E w \in V : d[w] > 0
<1> DEFINE U == UNION {{w} \X (1 .. d[w]) : w \in V}
<1>1. \A x : x \in U <=> \E w \in V : x \in {w} \X (1 .. d[w])
  OBVIOUS
<1>2. ASSUME NEW w \in V, NEW x, x \in {w} \X (1 .. d[w])
      PROVE  d[w] > 0
  BY <1>2
<1>3. U \subseteq Wires \X Nat
  BY <1>1
<1> QED BY <1>1, <1>2, <1>3

\* A set that grows by one element at most counts one more at most.
LEMMA OneMore ==
  ASSUME NEW S, NEW x, IsFiniteSet(S)
  PROVE  /\ IsFiniteSet(S \cup {x})
         /\ Cardinality(S) \in Nat /\ Cardinality(S \cup {x}) \in Nat
         /\ Cardinality(S) <= Cardinality(S \cup {x})
         /\ Cardinality(S \cup {x}) <= Cardinality(S) + 1
<1>1. IsFiniteSet(S \cup {x}) /\ Cardinality(S) \in Nat /\ Cardinality(S \cup {x}) \in Nat
  BY FS_AddElement, FS_CardinalityType
<1>2. Cardinality(S \cup {x}) = IF x \in S THEN Cardinality(S) ELSE Cardinality(S) + 1
  BY FS_AddElement
<1> QED BY <1>1, <1>2

\* Loops are spawned one at a time, and never vanish.
LEMMA SpawnedStep ==
  ASSUME TypeInv, [Next]_vars
  PROVE  \/ Spawned' = Spawned
         \/ \E l \in Loops : Spawned' = Spawned \cup {l}
<1>0. TypeOK
  BY DEF TypeInv
<1>1. ASSUME \/ \E s \in Sends : SendLocal(s) \/ SendPublish(s) \/ SendRegister(s)
             \/ \E w \in Wires : Deliver(w)
             \/ StartFails \/ Close \/ UNCHANGED vars
      PROVE  Spawned' = Spawned
  BY <1>1 DEF SendLocal, SendPublish, SendRegister, Deliver, StartFails, Close, vars, Spawned, On
<1>2. ASSUME NEW l \in Loops,
             LoopSubscribe(l) \/ LoopRecv(l) \/ LoopLag(l) \/ LoopCheck(l) \/ LoopDeliver(l)
      PROVE  Spawned' = Spawned
  <2>1. /\ loop_at[l] # "off" /\ loop_at'[l] # "off"
        /\ \A k \in Loops : k # l => loop_at'[k] = loop_at[k]
    BY <1>0, <1>2 DEF LoopSubscribe, LoopRecv, LoopLag, LoopCheck, LoopDeliver, AfterCheck, TypeOK
  <2> QED BY <2>1 DEF Spawned, On
<1>3. ASSUME NEW l \in Loops, Start(l)
      PROVE  Spawned' = Spawned \cup {l}
  <2>1. loop_at'[l] # "off" /\ \A k \in Loops : k # l => loop_at'[k] = loop_at[k]
    BY <1>0, <1>3 DEF Start, TypeOK
  <2> QED BY <2>1 DEF Spawned, On
<1> QED BY <1>1, <1>2, <1>3 DEF Next, Running, Admin

\* As long as nothing was used, or what is used and ready is no more than before, the
\* bound is kept by any step.
LEMMA BoundKept ==
  ASSUME TypeInv, Bounded, [Next]_vars, NEW s \in Sends,
         \/ Used(s)' = {}
         \/ Used(s)' = Used(s) /\ Ready(s)' \subseteq Ready(s)
  PROVE  /\ IsFiniteSet(Spawned') /\ IsFiniteSet(Used(s)')
         /\ Cardinality(Used(s)') + Cardinality(Ready(s)') <= Cardinality(Spawned')
<1>1. /\ IsFiniteSet(Spawned) /\ IsFiniteSet(Spawned')
      /\ Cardinality(Spawned) \in Nat /\ Cardinality(Spawned') \in Nat
      /\ Cardinality(Spawned) <= Cardinality(Spawned')
  <2>1. IsFiniteSet(Spawned) /\ Cardinality(Spawned) \in Nat
    BY FS_CardinalityType DEF Bounded
  <2>2. CASE Spawned' = Spawned
    BY <2>1, <2>2
  <2>3. ASSUME NEW l \in Loops, Spawned' = Spawned \cup {l}
        PROVE  IsFiniteSet(Spawned') /\ Cardinality(Spawned') \in Nat
               /\ Cardinality(Spawned) <= Cardinality(Spawned')
    BY <2>1, <2>3, OneMore
  <2> QED BY <2>1, <2>2, <2>3, SpawnedStep
<1>2. /\ Ready(s) \subseteq Spawned /\ Ready(s)' \subseteq Spawned'
  BY DEF Ready, Spawned, On
<1>3. IsFiniteSet(Ready(s)) /\ IsFiniteSet(Ready(s)') /\ Cardinality(Ready(s)) \in Nat
      /\ Cardinality(Ready(s)') \in Nat /\ Cardinality(Ready(s)') <= Cardinality(Spawned')
  BY <1>1, <1>2, FS_Subset, FS_CardinalityType
<1>4. CASE Used(s)' = {}
  BY <1>1, <1>3, <1>4, FS_EmptySet
<1>5. CASE Used(s)' = Used(s) /\ Ready(s)' \subseteq Ready(s)
  <2>1. Cardinality(Ready(s)') <= Cardinality(Ready(s))
    BY <1>3, <1>5, FS_Subset
  <2>2. /\ IsFiniteSet(Used(s)) /\ Cardinality(Used(s)) \in Nat
        /\ Cardinality(Used(s)) + Cardinality(Ready(s)) <= Cardinality(Spawned)
    BY FS_CardinalityType DEF Bounded
  <2> QED BY <1>1, <1>3, <1>5, <2>1, <2>2
<1> QED BY <1>4, <1>5

\* A delivery makes a ready loop one more use.
LEMMA BoundedStep ==
  ASSUME TypeInv, Correlated, Bounded, [Next]_vars
  PROVE  Bounded'
<1>0. TypeOK /\ TypeInv' /\ \A l \in Loops : Working(l) => current[l] \in Wires
  BY TypeStep DEF TypeInv
<1>1. \A s \in Sends : SignedId(s) # None /\ SignedId(s)' = SignedId(s)
  BY TrafficAssumption DEF SignedId
<1>2. ASSUME UNCHANGED delivered, NEW s \in Sends
      PROVE  Used(s)' = Used(s)
  BY <1>2 DEF Used, Tag, SignedId
<1>3. ASSUME UNCHANGED delivered, pending' \subseteq pending,
             \A s \in Sends : Used(s) = {} \/ Ready(s)' \subseteq Ready(s)
      PROVE  Bounded'
  <2>1. ASSUME NEW s \in Sends
        PROVE  /\ IsFiniteSet(Spawned') /\ IsFiniteSet(Used(s)')
               /\ Cardinality(Used(s)') + Cardinality(Ready(s)') <= Cardinality(Spawned')
               /\ SignedId(s) \in pending' => Used(s)' = {}
    <3>1. Used(s)' = Used(s)
      BY <1>2, <1>3
    <3>2. Used(s)' = {} \/ (Used(s)' = Used(s) /\ Ready(s)' \subseteq Ready(s))
      BY <1>3, <3>1
    <3>3. SignedId(s) \in pending' => Used(s)' = {}
      BY <1>3, <3>1 DEF Bounded
    <3> QED BY <3>2, <3>3, BoundKept
  <2>2. IsFiniteSet(Spawned')
    BY SpawnedStep, FS_AddElement DEF Bounded
  <2> QED BY <1>1, <2>1, <2>2 DEF Bounded
<1>4. CASE Quiet
  <2>1. \A s \in Sends : Ready(s)' \subseteq Ready(s)
    BY <1>4 DEF Quiet, Ready, Working, Tag, SignedId
  <2> QED BY <1>3, <1>4, <2>1 DEF Quiet
<1>5. ASSUME NEW t \in Sends, SendRegister(t)
      PROVE  Bounded'
  <2>1. /\ pending' = pending \cup {PublishedId(t)} /\ send_at[t] = "register"
        /\ UNCHANGED <<delivered, loop_at, current>>
    BY <1>5 DEF SendRegister
  <2>2. PublishedId(t) \notin registered
    BY <2>1 DEF Correlated, Registered, PublishedId, SignedId, WrapId
  <2>3. ASSUME NEW s \in Sends
        PROVE  /\ IsFiniteSet(Used(s)')
               /\ Cardinality(Used(s)') + Cardinality(Ready(s)') <= Cardinality(Spawned')
               /\ SignedId(s) \in pending' => Used(s)' = {}
    <3>1. Used(s)' = Used(s) /\ Ready(s)' = Ready(s)
      BY <1>2, <2>1 DEF Ready, Tag, SignedId
    <3>2. SignedId(s) = PublishedId(t) => Used(s) = {}
      <4>1. Used(s) # {} => \E w \in {v \in Wires : Tag(v) = SignedId(s)} : delivered[w] > 0
        BY <1>0, PairsOf DEF Used, TypeOK
      <4> QED BY <1>1, <2>2, <4>1 DEF Correlated, OnlySolicited
    <3> QED BY <2>1, <3>1, <3>2, BoundKept DEF Bounded
  <2>4. IsFiniteSet(Spawned')
    BY SpawnedStep, FS_AddElement DEF Bounded
  <2> QED BY <1>1, <2>3, <2>4 DEF Bounded
<1>6. ASSUME NEW l \in Loops, LoopRecv(l)
      PROVE  Bounded'
  <2>1. UNCHANGED <<pending, delivered>>
        /\ \A k \in Loops : k # l => loop_at'[k] = loop_at[k] /\ current'[k] = current[k]
    BY <1>0, <1>6 DEF LoopRecv, TypeOK
  <2>2. loop_at'[l] = "deliver" => Tag(current'[l]) = None
    BY <1>0, <1>6 DEF LoopRecv, TypeOK
  <2>3. \A s \in Sends : Ready(s)' \subseteq Ready(s)
    BY <1>1, <2>1, <2>2 DEF Ready, Tag
  <2> QED BY <1>3, <2>1, <2>3
<1>7. ASSUME NEW l \in Loops, LoopCheck(l)
      PROVE  Bounded'
  <2>1. UNCHANGED <<pending, delivered>>
        /\ \A k \in Loops : k # l => loop_at'[k] = loop_at[k] /\ current'[k] = current[k]
    BY <1>0, <1>7 DEF LoopCheck, TypeOK
  <2>2. loop_at'[l] = "deliver" => current'[l] = current[l] /\ Tag(current[l]) \in pending
    BY <1>0, <1>7 DEF LoopCheck, AfterCheck, Accepts, TypeOK
  <2>3. ASSUME NEW s \in Sends
        PROVE  Used(s) = {} \/ Ready(s)' \subseteq Ready(s)
    BY <1>1, <2>1, <2>2 DEF Ready, Bounded, Tag
  <2> QED BY <1>3, <2>1, <2>3
<1>8. ASSUME NEW l \in Loops, LoopDeliver(l)
      PROVE  Bounded'
  <2> DEFINE w == current[l]
  <2>1. /\ pending' = pending \ {Tag(w)} /\ loop_at[l] = "deliver" /\ loop_at'[l] = "recv"
        /\ \A k \in Loops : k # l => loop_at'[k] = loop_at[k] /\ current'[k] = current[k]
    BY <1>0, <1>8 DEF LoopDeliver, Answered, TypeOK
  <2>2. w \in Wires /\ delivered[w] \in Nat /\ delivered'[w] = delivered[w] + 1
        /\ \A v \in Wires : v # w => delivered'[v] = delivered[v]
    BY <1>0, <1>8 DEF LoopDeliver, TypeOK, Working
  <2>3. \A v \in Wires : Tag(v)' = Tag(v)
    BY DEF Tag
  <2>4. Spawned' = Spawned
    BY <2>1 DEF Spawned, On
  <2>5. \A s \in Sends : Ready(s)' = Ready(s) \ {l} /\ (l \in Ready(s) <=> Tag(w) = SignedId(s))
    BY <2>1 DEF Ready, Tag, SignedId
  <2> HIDE DEF w
  <2>6. ASSUME NEW s \in Sends, Tag(w) # SignedId(s)
        PROVE  Used(s)' = Used(s)
    BY <1>1, <2>2, <2>3, <2>6 DEF Used
  <2>7. ASSUME NEW s \in Sends, Tag(w) = SignedId(s)
        PROVE  Used(s)' = Used(s) \cup {<<w, delivered[w] + 1>>}
    <3> DEFINE V == {v \in Wires : Tag(v) = SignedId(s)}
    <3>0. /\ Used(s) = UNION {{v} \X (1 .. delivered[v]) : v \in V}
          /\ Used(s)' = UNION {{v} \X (1 .. delivered'[v]) : v \in V}
          /\ delivered \in [Wires -> Nat] /\ delivered' \in [Wires -> Nat]
      BY <1>0, <1>1, <2>3 DEF Used, TypeInv, TypeOK
    <3>1. /\ \A v \in Wires, n \in Nat :
              <<v, n>> \in Used(s) <=> Tag(v) = SignedId(s) /\ n \in 1 .. delivered[v]
          /\ Used(s) \subseteq Wires \X Nat
      BY <3>0, PairsOf
    <3>2. /\ \A v \in Wires, n \in Nat :
              <<v, n>> \in Used(s)' <=> Tag(v) = SignedId(s) /\ n \in 1 .. delivered'[v]
          /\ Used(s)' \subseteq Wires \X Nat
      BY <3>0, PairsOf
    <3>3. \A n \in Nat : n \in 1 .. delivered'[w] <=> n \in 1 .. delivered[w] \/ n = delivered[w] + 1
      BY <2>2
    <3>4. \A v \in Wires, n \in Nat :
            <<v, n>> \in Used(s)' <=> <<v, n>> \in Used(s) \/ <<v, n>> = <<w, delivered[w] + 1>>
      BY <2>2, <2>7, <3>1, <3>2, <3>3
    <3>5. <<w, delivered[w] + 1>> \in Wires \X Nat
      BY <2>2
    <3> QED BY <3>1, <3>2, <3>4, <3>5
  <2>8. ASSUME NEW s \in Sends
        PROVE  /\ IsFiniteSet(Used(s)')
               /\ Cardinality(Used(s)') + Cardinality(Ready(s)') <= Cardinality(Spawned')
               /\ SignedId(s) \in pending' => Used(s)' = {}
    <3>1. CASE Tag(w) # SignedId(s)
      <4>1. Used(s)' = Used(s) /\ Ready(s)' \subseteq Ready(s)
        BY <2>5, <2>6, <3>1
      <4> QED BY <2>1, <4>1, BoundKept DEF Bounded
    <3>2. CASE Tag(w) = SignedId(s)
      <4>1. /\ IsFiniteSet(Used(s)) /\ IsFiniteSet(Spawned) /\ Cardinality(Used(s)) \in Nat
            /\ Cardinality(Used(s)) + Cardinality(Ready(s)) <= Cardinality(Spawned)
        BY FS_CardinalityType DEF Bounded
      <4>2. Ready(s) \subseteq Spawned
        BY DEF Ready, Spawned, On
      <4>3. IsFiniteSet(Ready(s)) /\ Cardinality(Ready(s)) \in Nat
        BY <4>1, <4>2, FS_Subset, FS_CardinalityType
      <4>4. Cardinality(Ready(s)') = Cardinality(Ready(s)) - 1
        BY <2>5, <3>2, <4>3, FS_RemoveElement
      <4>5. /\ IsFiniteSet(Used(s)') /\ Cardinality(Used(s)') \in Nat
            /\ Cardinality(Used(s)') <= Cardinality(Used(s)) + 1
        BY <2>7, <3>2, <4>1, OneMore
      <4>6. Cardinality(Spawned) \in Nat
        BY <4>1, FS_CardinalityType
      <4> QED BY <2>1, <2>4, <3>2, <4>1, <4>3, <4>4, <4>5, <4>6
    <3> QED BY <3>1, <3>2
  <2> QED BY <1>1, <2>4, <2>8 DEF Bounded
<1> QED BY <1>4, <1>5, <1>6, <1>7, <1>8, QuietStep

\* An id is used up by at most one message per loop that was ever spawned, for any number
\* of loops, whatever comes in for it.
THEOREM PerLoopTheorem == Spec => []OncePerLoop
<1>1. Init => Bounded
  <2> SUFFICES ASSUME Init
               PROVE  Bounded
    OBVIOUS
  <2>1. Spawned = {} /\ \A s \in Sends : Ready(s) = {} /\ Used(s) = {}
    BY DEF Init, Spawned, On, Ready, Used
  <2> QED BY <2>1, FS_EmptySet DEF Bounded
<1>2. TypeInv /\ Bounded => OncePerLoop
  <2> SUFFICES ASSUME TypeInv, Bounded, NEW s \in Sends
               PROVE  Cardinality(Used(s)) <= Cardinality(Spawned)
    BY DEF OncePerLoop, Used, Spawned, On
  <2>1. /\ IsFiniteSet(Used(s)) /\ IsFiniteSet(Spawned) /\ Ready(s) \subseteq Spawned
        /\ Cardinality(Used(s)) + Cardinality(Ready(s)) <= Cardinality(Spawned)
    BY DEF Bounded, Ready, Spawned, On
  <2>2. /\ Cardinality(Used(s)) \in Nat /\ Cardinality(Ready(s)) \in Nat
        /\ Cardinality(Spawned) \in Nat
    BY <2>1, FS_Subset, FS_CardinalityType
  <2> QED BY <2>1, <2>2
<1>3. TypeInv /\ Correlated /\ Bounded /\ [Next]_vars => Bounded'
  BY BoundedStep
<1> QED BY <1>1, <1>2, <1>3, CorrelationInductive, PTL DEF Spec

------------------------------------------------------------------------------
(* The proxy. *)

\* A step of the proxy is a step of its transport, or none.
LEMMA ProxyStep == [PNext]_pvars => [Next]_vars
BY DEF PNext, ProxyStart, ProxyStartFails, ProxyStartRefused, ProxyStop, Next, Admin, pvars

\* A proxy is a client transport that is used in a certain way, so whatever is proved
\* of the transport holds of it.
THEOREM ProxyIsTransport == PSpec => Spec
<1>1. PInit => Init
  BY DEF PInit
<1> QED BY <1>1, ProxyStep, PTL DEF PSpec, Spec

\* Through all starts, failed starts and stops of a proxy, an id is used up only by a
\* message that is handed on, and what is handed on was solicited.
THEOREM ProxyCorrelation == PSpec => [](OnlySolicited /\ PendingUntilAnswered)
BY ProxyIsTransport, SolicitedTheorem, PendingTheorem, PTL

\* The flag is what keeps a second loop from being spawned.
Guarded ==
  ~stopped => /\ Single /\ Linear /\ Exact
              /\ ~is_running => \A l \in Loops : ~On(l)

\* Only a start() spawns a loop, and only then does it set the flag.
LEMMA GuardedStep ==
  ASSUME TypeInv, Correlated, Guarded, [PNext]_pvars
  PROVE  Guarded'
<1> SUFFICES ASSUME ~stopped'
             PROVE  Guarded'
  BY DEF Guarded
<1>1. ~stopped
  BY DEF PNext, ProxyStart, ProxyStartFails, ProxyStartRefused, ProxyStop, Activate, Refuse,
         Deactivate, pvars, lifecycle
<1>2. Single /\ Linear' /\ Exact'
  BY <1>1, LinearStep, ExactStep, ProxyStep DEF Guarded
<1>3. ASSUME \A l \in Loops : On(l)' = On(l), is_running' = is_running
      PROVE  Guarded'
  BY <1>1, <1>2, <1>3 DEF Guarded, Single
<1>4. CASE Running /\ UNCHANGED lifecycle
  <2>1. \A l \in Loops : On(l)' = On(l)
    BY <1>4 DEF Running, SendLocal, SendPublish, SendRegister, Deliver, LoopSubscribe, LoopRecv,
                LoopLag, LoopCheck, AfterCheck, LoopDeliver, On, TypeInv, TypeOK
  <2> QED BY <1>3, <1>4, <2>1 DEF lifecycle
<1>5. ASSUME NEW l \in Loops, ProxyStart(l)
      PROVE  Guarded'
  <2>1. ~is_running /\ is_running' /\ \A k \in Loops : k # l => On(k)' = On(k)
    BY <1>5 DEF ProxyStart, Activate, MayStart, Start, On, TypeInv, TypeOK
  <2>2. \A k \in Loops : ~On(k)
    BY <1>1, <2>1 DEF Guarded
  <2> QED BY <1>2, <2>1, <2>2 DEF Guarded, Single
<1>6. CASE ProxyStartFails \/ ProxyStartRefused
  BY <1>3, <1>6 DEF ProxyStartFails, ProxyStartRefused, StartFails, Refuse, vars, On
<1>7. CASE ProxyStop
  BY <1>7 DEF ProxyStop, Deactivate
<1>8. CASE UNCHANGED pvars
  BY <1>3, <1>8 DEF pvars, vars, lifecycle, On
<1> QED BY <1>4, <1>5, <1>6, <1>7, <1>8 DEF PNext

\* However often start() is called and however it fails, until its first stop() a proxy
\* uses an id up by exactly one message.
THEOREM ProxyAnsweredOnce == PSpec => []AnsweredOnceUntilStopped
<1>1. PInit => Guarded
  <2>1. PInit => Single /\ Linear /\ Exact
    BY LinearInit DEF PInit
  <2>2. PInit => \A l \in Loops : ~On(l)
    BY DEF PInit, Init, On
  <2> QED BY <2>1, <2>2 DEF Guarded
<1>2. Guarded => AnsweredOnceUntilStopped
  BY DEF Guarded, Exact, AnsweredOnceUntilStopped
<1>3. TypeInv /\ Correlated /\ Guarded /\ [PNext]_pvars => Guarded'
  BY GuardedStep
<1> QED BY <1>1, <1>2, <1>3, ProxyIsTransport, CorrelationInductive, PTL DEF PSpec
================================================================================
