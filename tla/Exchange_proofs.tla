---------------------------- MODULE Exchange_proofs ----------------------------
(***************************************************************************)
(* Proofs about Exchange, for all values of its constants.  Each side is a *)
(* transport of which everything proved before holds; between them the     *)
(* relays invent nothing.  So an answer has a cause, however many loops    *)
(* run; and with one loop on either side, where each side handles a        *)
(* message once at most, the whole is an RpcExchange.                      *)
(***************************************************************************)
EXTENDS Exchange, ServerTransport_traffic, FiniteSetTheorems

\* What is proved of a client transport, for the client of the exchange; it is used
\* without the flags of a proxy.
CP == INSTANCE ClientTransport_proofs WITH
        EncryptionMode <- ClientMode, Allowed <- {}, Excluded <- {},
        NotifCapacity <- ClientCapacity,
        Sends <- Events, Message <- Sent, Wires <- Answers, Server <- ServerKey, Other <- Nobody,
        Inbound <- Seen, Loops <- ClientLoops, IsStateless <- FALSE,
        send_at <- c_send_at, published <- c_published, pending <- c_pending,
        connected <- c_connected, arrived <- c_arrived, feed <- c_feed,
        lagged <- c_lagged, loop_at <- c_loop_at, current <- c_current,
        delivered <- c_delivered, emulated <- c_emulated, registered <- c_registered,
        is_running <- FALSE, receiver <- FALSE, outcome <- "none", stopped <- FALSE

\* What the client sees in an answer.
LEMMA SeenFields ==
  \A a \in Answers : /\ Seen[a].from = ServerKey /\ Seen[a].kind = "response"
                     /\ Seen[a].about = a.response.event /\ a.response.event \in Events
BY DEF Seen, Answers, Response

\* The exchange gives the client constants it can have.
LEMMA ClientAssumption ==
  /\ ClientMode \in {"Optional", "Required", "Disabled"}
  /\ ClientCapacity \in Nat \ {0}
  /\ None \notin Events \cup Answers \cup ({"signed", "wrap"} \X Events)
  /\ ServerKey # Nobody
  /\ \A w \in Answers : /\ Seen[w].from \in {ServerKey, Nobody}
                        /\ Seen[w].about \in Events \cup {None}
                        /\ Seen[w].kind \in {"response", "notification", "request", "invalid"}
  /\ FALSE \in BOOLEAN
<1>1. None \notin {"signed", "wrap"} \X Events
  BY ExchangeAssumption, SetsAssumption DEF PublishedIds, C!Ids
<1> QED BY <1>1, ExchangeAssumption, SetsAssumption, SeenFields

\* Each side of an exchange is a transport that the other may be.
LEMMA ExchangeStep ==
  ASSUME [XNext]_xvars
  PROVE  [Next]_vars /\ [C!Next]_cvars
BY DEF XNext, Next, C!Next, Carried, CarriedBack, xvars

\* The client of the exchange starts and steps as a client transport does: its actions
\* are those of the module that the proofs are about.
LEMMA ClientInit == C!Init => CP!Init
BY DEF C!Init, CP!Init

\* The same for its steps, operator by operator.
LEMMA ClientNext == [C!Next]_cvars => [CP!Next]_(CP!vars)
BY DEF C!Next, CP!Next, C!Running, CP!Running, C!Admin, CP!Admin, cvars, CP!vars,
       C!vars, CP!sender, C!sender, C!input, CP!input, C!SendLocal, CP!SendLocal,
       C!SendPublish, CP!SendPublish, C!SendRegister, CP!SendRegister, C!Deliver,
       CP!Deliver, C!LoopSubscribe, CP!LoopSubscribe, C!LoopRecv, CP!LoopRecv,
       C!LoopLag, CP!LoopLag, C!LoopCheck, CP!LoopCheck, C!LoopDeliver, CP!LoopDeliver,
       C!Start, CP!Start, C!StartFails, CP!StartFails, C!Close, CP!Close,
       C!IsInitialize, CP!IsInitialize, C!IsInitialized, CP!IsInitialized,
       C!PublishedId, CP!PublishedId, C!Encrypts, CP!Encrypts, C!ShouldEncrypt,
       CP!ShouldEncrypt, C!WrapId, CP!WrapId, C!SignedId, CP!SignedId, C!Listening,
       CP!Listening, C!Push, CP!Push, C!Full, CP!Full, C!FromServer, CP!FromServer,
       C!Tag, CP!Tag, C!Accepts, CP!Accepts, C!AfterCheck, CP!AfterCheck, C!Answered,
       CP!Answered, C!NoSendInProgress, CP!NoSendInProgress

\* Whatever is proved of a server transport holds of the one in an exchange.
THEOREM ExchangeIsServer == XSpec => Spec
<1>1. XInit => Init
  BY DEF XInit
<1>2. [XNext]_xvars => [Next]_vars
  BY ExchangeStep
<1> QED BY <1>1, <1>2, PTL DEF XSpec, Spec

\* And whatever is proved of a client transport of the other.
THEOREM ExchangeIsClient == XSpec => CP!Spec
<1>1. XInit => CP!Init
  BY ClientInit DEF XInit
<1>2. [XNext]_xvars => [CP!Next]_(CP!vars)
  BY ExchangeStep, ClientNext
<1> QED BY <1>1, <1>2, PTL DEF XSpec, CP!Spec

\* Its invariants, for any number of loops.
LEMMA ClientInductive == XSpec => [](CP!TypeInv /\ CP!Correlated /\ CP!Received)
BY ExchangeIsClient, ClientAssumption, CP!CorrelationInductive, CP!ReceivedInductive, PTL

------------------------------------------------------------------------------
(* Causes; for any number of loops on either side. *)

\* What arrives at one side has left the other.
Linked ==
  /\ \A w \in arrived : \E q \in c_published : w = C!PublishedId(q)
  /\ \A a \in c_arrived : a.response \in outbox

\* A wire of the server is one of the two ids of a send of the client.
LEMMA WireFields ==
  /\ \A q \in Events : /\ C!SignedId(q) \in Wires /\ C!WrapId(q) \in Wires
                       /\ C!SignedId(q) # C!WrapId(q)
                       /\ Inner[C!SignedId(q)] = q /\ Inner[C!WrapId(q)] = q
                       /\ C!PublishedId(q) \in {C!SignedId(q), C!WrapId(q)}
  /\ \A w \in Wires : /\ Inner[w] \in Events
                      /\ Author[w] = ClientKey /\ Message[w] = Sent[Inner[w]]
                      /\ w \in {C!SignedId(Inner[w]), C!WrapId(Inner[w])}
<1>1. /\ \A q \in Events : /\ C!SignedId(q) \in C!Ids /\ C!WrapId(q) \in C!Ids
                           /\ C!SignedId(q) # C!WrapId(q)
                           /\ C!SignedId(q)[2] = q /\ C!WrapId(q)[2] = q
      /\ \A w \in C!Ids : w[2] \in Events /\ w \in {C!SignedId(w[2]), C!WrapId(w[2])}
  BY DEF C!SignedId, C!WrapId, C!Ids
<1>2. /\ Wires = C!Ids
      /\ \A w \in C!Ids : /\ Inner[w] = w[2] /\ Author[w] = ClientKey
                          /\ Message[w] = Sent[w[2]]
  BY ExchangeAssumption DEF PublishedIds, Published, Signer, PublishedMessage
<1>3. \A q \in Events : C!PublishedId(q) \in {C!SignedId(q), C!WrapId(q)}
  BY DEF C!PublishedId
<1> QED BY <1>1, <1>2, <1>3

\* Whoever asks here is the client, under the id of what it sent.
LEMMA AskedFields ==
  ASSUME TypeOK
  PROVE  \A c, q, i : Asked(c, q, i) => c = ClientKey /\ i = Sent[q].id
<1> SUFFICES ASSUME NEW c, NEW q, NEW i, Asked(c, q, i)
             PROVE  c = ClientKey /\ i = Sent[q].id
  OBVIOUS
<1>1. PICK w \in Wires : Inner[w] = q /\ Author[w] = c /\ Message[w].id = i
  BY DEF Asked, TypeOK
<1> QED BY <1>1, WireFields

\* An answer refers to the signed event of its request.
LEMMA TagFields ==
  \A a \in Answers : CP!Tag(a) = C!SignedId(a.response.event) /\ CP!Tag(a) # None
<1>1. None \notin Events \cup Wires
  BY SetsAssumption
<1>2. \A a \in Answers : CP!Tag(a) = C!SignedId(a.response.event)
  BY <1>1, SeenFields DEF CP!Tag, CP!SignedId, C!SignedId
<1> QED BY <1>1, <1>2, SeenFields, WireFields

\* What was published stays published, on both sides.
LEMMA PublishedStays ==
  ASSUME [XNext]_xvars
  PROVE  c_published \subseteq c_published' /\ outbox \subseteq outbox'
<1>1. outbox \subseteq outbox'
  BY ExchangeStep, OutboxStep DEF CallPublish
<1>2. c_published \subseteq c_published'
  BY ExchangeStep
     DEF C!Next, C!Running, C!Admin, C!SendLocal, C!SendPublish, C!SendRegister, C!Deliver,
         C!LoopSubscribe, C!LoopRecv, C!LoopLag, C!LoopCheck, C!LoopDeliver, C!Start,
         C!StartFails, C!Close, C!sender, cvars
<1> QED BY <1>1, <1>2

\* Nothing comes out of the relays that was not put in.
LEMMA LinkedStep ==
  ASSUME Linked, [XNext]_xvars
  PROVE  Linked'
<1>1. \A q : C!PublishedId(q)' = C!PublishedId(q)
  BY DEF C!PublishedId, C!SignedId, C!WrapId, C!Encrypts, C!ShouldEncrypt
<1>2. \A w \in arrived' \ arrived : \E q \in c_published' : w = C!PublishedId(q)
  BY PublishedStays DEF XNext, Carried, CarriedBack, xvars, vars, input
<1>3. \A a \in c_arrived' \ c_arrived : a.response \in outbox'
  BY PublishedStays DEF XNext, Carried, CarriedBack, xvars, cvars
<1> QED BY <1>1, <1>2, <1>3, PublishedStays DEF Linked

\* It holds of every reachable state.
LEMMA LinkedInductive == XSpec => []Linked
<1>1. XInit => Linked
  BY DEF XInit, Init, C!Init, Linked
<1> QED BY <1>1, LinkedStep, PTL DEF XSpec

\* Backwards from the client's application to its request.
THEOREM CauseTheorem == XSpec => []AnswerHasCause
<1>1. ASSUME IInv, Caused, Linked, CP!TypeInv, CP!Correlated, CP!Received
      PROVE  AnswerHasCause
  <2> SUFFICES ASSUME NEW a \in Answers, c_delivered[a] > 0
               PROVE  LET q == a.response.event IN
                        /\ q \in c_published /\ C!SignedId(q) \in c_registered
                        /\ KnownToApp(q)
                        /\ a.response \in outbox /\ a.response.to = ClientKey
                        /\ a.response.id = Sent[q].id \/ q \in acked \cup lapsed
    BY DEF AnswerHasCause
  <2> DEFINE q == a.response.event
  <2>1. a.response \in outbox /\ q \in Events
    BY <1>1, SeenFields DEF CP!Received, Linked
  <2>2. KnownToApp(q) /\ (a.response.id = Sent[q].id \/ q \in acked \cup lapsed)
    BY <1>1, <2>1, AskedFields DEF Caused, Settled, IInv, Base
  <2>3. q \in c_published
    <3>1. PICK w \in Wires : Inner[w] = q /\ w \in arrived
      BY <1>1, <2>2 DEF KnownToApp, Caused
    <3>2. PICK p \in c_published : w = C!PublishedId(p)
      BY <1>1, <3>1 DEF Linked
    <3>3. p \in Events
      BY <1>1 DEF CP!TypeInv, CP!TypeOK
    <3> QED BY <3>1, <3>2, <3>3, WireFields
  <2>4. C!SignedId(q) \in c_registered
    <3>1. CP!Tag(a) = C!SignedId(q) /\ CP!Tag(a) # None
      BY TagFields
    <3> QED BY <1>1, <3>1 DEF CP!Correlated, CP!OnlySolicited
  <2>5. a.response.to = ClientKey
    BY <1>1, <2>1, AskedFields DEF IInv, Base, ResponseRouting
  <2> QED BY <2>1, <2>2, <2>3, <2>4, <2>5
<1> QED BY <1>1, ExchangeIsServer, Inductive, CausedInductive, ClientInductive,
           LinkedInductive, PTL

------------------------------------------------------------------------------
(* RpcExchange; for one loop on either side. *)

executed == [q \in Events |-> forwarded[C!SignedId(q)] + forwarded[C!WrapId(q)]]
answered == {<<m.event, IF m.id = Sent[m.event].id THEN "own" ELSE "foreign">> : m \in outbox}
received == [q \in Events |-> Cardinality(Handed(q))]

\* What holds of the server and the relays, and of the client.
Served == IInv /\ Flow /\ Caused /\ Provenance /\ Linked
Requested  == CP!TypeInv /\ CP!Received /\ CP!Linear /\ CP!Exact

\* A request travels under one of its two ids, so it is executed once at most; and a
\* request the application knows has been executed, and was asked for.
LEMMA ExecutedOnce ==
  ASSUME Served, Requested, NEW q \in Events
  PROVE  /\ executed[q] \in {0, 1}
         /\ \A w \in Wires : Inner[w] = q /\ (w \in arrived \/ forwarded[w] > 0) => q \in c_published
         /\ \A w \in Wires : Inner[w] = q /\ w \in arrived /\ forwarded[w] = 0 => executed[q] = 0
         /\ KnownToApp(q) => executed[q] = 1
<1> DEFINE s == C!SignedId(q)
           g == C!WrapId(q)
<1>1. forwarded[s] \in Nat /\ forwarded[g] \in Nat /\ Inner[s] = q /\ Inner[g] = q /\ s # g
  BY WireFields DEF Served, IInv, Base, TypeOK
<1>2. \A w \in Wires : Inner[w] = q => w \in {s, g}
  BY WireFields
<1>3. \A w \in Wires : /\ forwarded[w] > 0 => forwarded[w] = 1 /\ w \in arrived
                       /\ w \in arrived => \E p \in c_published : w = C!PublishedId(p)
  BY DEF Served, Flow, Linked
<1>4. \A w \in Wires : w \in arrived /\ Inner[w] = q => w = C!PublishedId(q) /\ q \in c_published
  <2>1. \A p \in c_published : p \in Events
    BY DEF Requested, CP!TypeInv, CP!TypeOK
  <2> QED BY <1>3, <2>1, WireFields
<1>5. executed[q] = forwarded[s] + forwarded[g]
  BY DEF executed
<1>6. s \in Wires /\ g \in Wires
  BY WireFields
<1> HIDE DEF s, g
<1>7. forwarded[s] = 0 \/ forwarded[g] = 0
  BY <1>1, <1>3, <1>4, <1>6
<1>8. executed[q] \in {0, 1}
  BY <1>1, <1>3, <1>5, <1>6, <1>7
<1>9. ASSUME NEW w \in Wires, Inner[w] = q, w \in arrived, forwarded[w] = 0
      PROVE  executed[q] = 0
  BY <1>1, <1>2, <1>3, <1>4, <1>5, <1>6, <1>9
<1>10. KnownToApp(q) => executed[q] = 1
  BY <1>1, <1>2, <1>3, <1>5, <1>6, <1>7 DEF KnownToApp
<1> QED BY <1>3, <1>4, <1>8, <1>9, <1>10

\* Handing a request to the application is its execution.
LEMMA ExecuteStep ==
  ASSUME Served, Requested, NEW l \in Loops, LoopForward(l), UNCHANGED cvars
  PROVE  [RPC!Next]_(RPC!vars)
<1> DEFINE w == current[l]
           q == Inner[w]
<1>1. w \in Wires /\ w \in arrived /\ forwarded[w] = 0 /\ q \in Events
  BY WireFields DEF Served, IInv, Base, Work, Flow, Busy, LoopForward
<1>2. q \in c_published /\ executed[q] = 0
  BY <1>1, ExecutedOnce
<1>3. forwarded'[w] = 1 /\ \A v \in Wires : v # w => forwarded'[v] = forwarded[v]
  BY <1>1 DEF LoopForward, Served, IInv, Base, TypeOK
<1>4. executed' = [executed EXCEPT ![q] = 1]
  <2>1. ASSUME NEW p \in Events
        PROVE  forwarded'[C!SignedId(p)] + forwarded'[C!WrapId(p)] = IF p = q THEN 1 ELSE executed[p]
    <3>1. CASE p = q
      <4> DEFINE s == C!SignedId(q)
                 g == C!WrapId(q)
      <4>1. s \in Wires /\ g \in Wires /\ s # g /\ (w = s \/ w = g)
        BY <1>1, WireFields
      <4>2. forwarded[s] \in Nat /\ forwarded[g] \in Nat
        BY <4>1 DEF Served, IInv, Base, TypeOK
      <4>3. forwarded[s] + forwarded[g] = 0
        BY <1>1, <1>2 DEF executed
      <4> HIDE DEF s, g, w
      <4>4. forwarded[s] = 0 /\ forwarded[g] = 0
        BY <4>2, <4>3
      <4>5. forwarded'[s] + forwarded'[g] = 1
        BY <1>3, <4>1, <4>4
      <4> QED BY <3>1, <4>5 DEF s, g
    <3>2. CASE p # q
      BY <1>1, <1>3, <3>2, WireFields DEF executed
    <3> QED BY <3>1, <3>2
  <2>2. executed' = [p \in Events |-> forwarded'[C!SignedId(p)] + forwarded'[C!WrapId(p)]]
    BY DEF executed, C!SignedId, C!WrapId
  <2>3. executed' = [p \in Events |-> IF p = q THEN 1 ELSE executed[p]]
    BY <2>1, <2>2
  <2> QED BY <2>3 DEF executed
<1>5. UNCHANGED <<c_published, answered, done, received>>
  BY DEF LoopForward, ghosts, cvars, answered, done, received, Handed
<1> QED BY <1>1, <1>2, <1>4, <1>5
        DEF executed, answered, done, received, RPC!Next, RPC!vars, RPC!Execute

\* A publish answers a request that was executed, under its own id unless the server
\* was through with it.
LEMMA AnswerStep ==
  ASSUME Served, Requested, NEW r \in Callers, CallPublish(r), UNCHANGED cvars
  PROVE  [RPC!Next]_(RPC!vars)
<1> DEFINE c == call[r]
           sent == [event |-> c.event, to |-> c.client, id |-> c.id,
                    encrypted |-> ShouldEncrypt(c.enc)]
<1>1. c.event \in Events /\ KnownToApp(c.event)
      /\ (c.id = Sent[c.event].id \/ Settled(c.event))
  BY AskedFields DEF Served, IInv, Base, Calls, CallHistory, History, Caused, CallPublish
<1>2. PICK q \in Events : q = c.event
  BY <1>1
<1>3. executed[q] = 1
  BY <1>1, <1>2, ExecutedOnce
<1>4. outbox' \in {outbox, outbox \cup {sent}}
  BY DEF CallPublish
<1>5. PICK i \in {"own", "foreign"} : i = IF c.id = Sent[q].id THEN "own" ELSE "foreign"
  OBVIOUS
<1>6. sent.event = q /\ sent.id = c.id
  BY <1>2
<1> HIDE DEF sent
<1>7. answered' \in {answered, answered \cup {<<q, i>>}}
  BY <1>4, <1>5, <1>6 DEF answered
<1>8. i = "foreign" => q \in done
  BY <1>1, <1>2, <1>5 DEF Settled, done
<1>9. done' \in {done, done \cup {q}}
  BY <1>2 DEF done, CallPublish
<1>10. UNCHANGED <<c_published, executed, received>>
  BY DEF CallPublish, cvars, executed, received, Handed, C!SignedId, C!WrapId
<1>11. RPC!Answer(q)
  BY <1>3, <1>7, <1>8, <1>9, <1>10 DEF RPC!Answer, executed, answered, done, received
<1> QED BY <1>11 DEF RPC!Next

\* What is swept was tracked, hence arrived, hence got out.
LEMMA LapseStep ==
  ASSUME Served, Requested, NEW l \in Loops, CleanExpire(l), UNCHANGED cvars
  PROVE  [RPC!Next]_(RPC!vars)
<1>1. ASSUME NEW q \in Swept
      PROVE  q \in Events /\ q \in c_published
  <2>1. q \in Events /\ \E c \in Clients : Holds(c, q)
    BY SweptExpired DEF Served, IInv
  <2>2. PICK w \in Wires : Inner[w] = q /\ w \in arrived
    BY <2>1 DEF Served, Caused, IInv, Base, TypeOK
  <2> QED BY <2>1, <2>2, ExecutedOnce
<1>2. done' = done \cup Swept
  BY DEF CleanExpire, done
<1>3. UNCHANGED <<c_published, executed, answered, received>>
  BY DEF CleanExpire, cvars, executed, answered, received, Handed, C!SignedId, C!WrapId
<1>4. RPC!Lapse(Swept) /\ Swept \in SUBSET Events
  BY <1>1, <1>2, <1>3 DEF RPC!Lapse, executed, answered, done, received
<1> QED BY <1>4 DEF RPC!Next

\* No other step of the server is one of the exchange.
LEMMA ServerQuiet ==
  ASSUME [Next]_vars, ~(\E l \in Loops : LoopForward(l) \/ CleanExpire(l)),
         ~(\E r \in Callers : CallPublish(r))
  PROVE  UNCHANGED <<forwarded, outbox, acked, lapsed>>
BY DEF Next, Running, Admin, Deliver, Tick, LoopStep, LoopSubscribe, LoopRecv, LoopLag,
       LoopTrack, LoopMap, LoopFinish, CleanStep, CleanAcquire, CallStep, CallSession,
       CallForget, CallUnmap, Cancel, CallLookup, Start, StartFails, Close, CloseSessions,
       CloseMap, ghosts, vars

\* A publish of the client asks.
LEMMA AskStep ==
  ASSUME NEW s \in Events, C!SendPublish(s), UNCHANGED vars
  PROVE  [RPC!Next]_(RPC!vars)
<1>1. c_published' \in {c_published, c_published \cup {s}}
  BY DEF C!SendPublish
<1>2. UNCHANGED <<executed, answered, done, received>>
  BY DEF C!SendPublish, vars, ghosts, executed, answered, done, received, Handed,
         C!SignedId, C!WrapId
<1>3. CASE c_published' = c_published
  BY <1>2, <1>3 DEF RPC!vars, executed, answered, done, received
<1>4. CASE c_published' = c_published \cup {s}
  <2>1. RPC!Ask(s)
    BY <1>2, <1>4 DEF RPC!Ask, executed, answered, done, received
  <2> QED BY <2>1 DEF RPC!Next
<1> QED BY <1>1, <1>3, <1>4

\* Handing an answer to the client's application is its reception: no other answer
\* to the request was handed to it, or the id would not be pending.
LEMMA ReceiveStep ==
  ASSUME Served, Requested, NEW l \in ClientLoops, C!LoopDeliver(l), UNCHANGED vars
  PROVE  [RPC!Next]_(RPC!vars)
<1>1. c_loop_at[l] = "deliver"
  BY DEF C!LoopDeliver
<1>2. PICK a \in Answers : a = c_current[l]
  BY <1>1 DEF Requested, CP!TypeInv, CP!Working
<1>3. PICK q \in Events : q = a.response.event
  BY SeenFields
<1>4. a \in c_arrived /\ c_delivered[a] = 0
  BY <1>1, <1>2 DEF Requested, CP!Linear, CP!Working
<1>5. CP!Tag(a) \in c_pending
  BY <1>1, <1>2, TagFields DEF Requested, CP!Exact
<1>6. \A b \in Answers : b.response.event = q => c_delivered[b] = 0
  <2> SUFFICES ASSUME NEW b \in Answers, b.response.event = q
               PROVE  c_delivered[b] = 0
    OBVIOUS
  <2>1. CP!Tag(b) = CP!Tag(a) /\ CP!Tag(b) # None
    BY <1>3, TagFields
  <2>2. ~(c_delivered[b] > 0) /\ c_delivered[b] \in Nat
    BY <1>5, <2>1 DEF Requested, CP!Exact, CP!TypeInv, CP!TypeOK
  <2> QED BY <2>2
<1>7. /\ c_delivered'[a] = 1 /\ \A b \in Answers : b # a => c_delivered'[b] = c_delivered[b]
  BY <1>4, <1>2 DEF C!LoopDeliver, Requested, CP!TypeInv, CP!TypeOK
<1>8. a.response \in outbox
  BY <1>4 DEF Served, Linked
<1>9. Handed(q) = {}
  BY <1>6 DEF Handed
<1>10. Handed(q)' = {<<a, 1>>}
  BY <1>6, <1>7, <1>3 DEF Handed
<1>11. \A p \in Events : p # q => Handed(p)' = Handed(p)
  BY <1>7, <1>3 DEF Handed
<1>12. received[q] = 0 /\ received' = [received EXCEPT ![q] = 1]
  <2>1. Cardinality(Handed(q)) = 0 /\ Cardinality(Handed(q))' = 1
    BY <1>9, <1>10, FS_EmptySet, FS_Singleton
  <2>2. received' = [p \in Events |-> Cardinality(Handed(p))']
    BY DEF received
  <2>3. received' = [p \in Events |-> IF p = q THEN 1 ELSE Cardinality(Handed(p))]
    BY <1>11, <2>1, <2>2
  <2> QED BY <2>1, <2>3 DEF received
<1>13. PICK i \in {"own", "foreign"} : <<q, i>> \in answered
  BY <1>8, <1>3 DEF answered
<1>14. UNCHANGED <<c_published, executed, answered, done>>
  BY DEF C!LoopDeliver, C!sender, vars, ghosts, executed, answered, done, C!SignedId, C!WrapId
<1>15. RPC!Receive(q)
  BY <1>12, <1>13, <1>14 DEF RPC!Receive, executed, answered, done, received
<1> QED BY <1>4, <1>15 DEF RPC!Next

\* No other step of the client is one of the exchange.
LEMMA ClientQuiet ==
  ASSUME [C!Next]_cvars, ~(\E s \in Events : C!SendPublish(s)),
         ~(\E l \in ClientLoops : C!LoopDeliver(l))
  PROVE  UNCHANGED <<c_published, c_delivered>>
BY DEF C!Next, C!Running, C!Admin, C!SendLocal, C!SendRegister, C!Deliver, C!LoopSubscribe,
       C!LoopRecv, C!LoopLag, C!LoopCheck, C!Start, C!StartFails, C!Close, C!sender, cvars

\* A step of the two transports is a step of the exchange, or none.
LEMMA RpcStep ==
  ASSUME Served, Requested, [XNext]_xvars
  PROVE  [RPC!Next]_(RPC!vars)
<1>1. [Next]_vars /\ [C!Next]_cvars /\ (UNCHANGED cvars \/ UNCHANGED vars)
  BY ExchangeStep DEF XNext, Carried, CarriedBack, xvars
<1>2. ASSUME UNCHANGED <<forwarded, outbox, acked, lapsed, c_published, c_delivered>>
      PROVE  UNCHANGED RPC!vars
  BY <1>2 DEF RPC!vars, Handed, C!SignedId, C!WrapId
<1>3. UNCHANGED vars => UNCHANGED <<forwarded, outbox, acked, lapsed>>
  BY DEF vars, ghosts
<1>4. UNCHANGED cvars => UNCHANGED <<c_published, c_delivered>>
  BY DEF cvars
<1>5. CASE UNCHANGED cvars
  BY <1>1, <1>2, <1>4, <1>5, ExecuteStep, AnswerStep, LapseStep, ServerQuiet
<1>6. CASE UNCHANGED vars
  BY <1>1, <1>2, <1>3, <1>6, AskStep, ReceiveStep, ClientQuiet
<1> QED BY <1>1, <1>5, <1>6

\* Both transports over the relays, with whatever clean-ups, calls, failures, overruns
\* and stops, implement RpcExchange as long as one start() at most succeeds on either side:
\* a request is executed once at most, and its client is handed one answer at most.
THEOREM RpcRefinement == XSpec /\ [](Single /\ CP!Single) => ImplementsRpc
<1>1. XInit => RPC!Init
  <2> SUFFICES ASSUME XInit
               PROVE  RPC!Init
    OBVIOUS
  <2>1. \A q \in Events : /\ forwarded[C!SignedId(q)] + forwarded[C!WrapId(q)] = 0
                         /\ Handed(q) = {}
    BY WireFields DEF XInit, Init, C!Init, Handed
  <2> QED BY <2>1, FS_EmptySet DEF XInit, Init, C!Init, RPC!Init
<1>2. XSpec /\ []Single => []Served
  BY ExchangeIsServer, FlowInductive, Inductive, CausedInductive, ProvenanceInductive,
     LinkedInductive, PTL DEF Served
<1>3. XSpec /\ [](CP!Single) => []Requested
  BY ExchangeIsClient, ClientAssumption, CP!CorrelationInductive, CP!ReceivedInductive,
     CP!ExactInductive, PTL DEF Requested
<1> QED BY <1>1, <1>2, <1>3, RpcStep, PTL DEF XSpec, ImplementsRpc, RPC!Spec

\* The exchange keeps its word: who has an answer was executed, and counts stay below two.
RpcInv ==
  /\ executed \in [Events -> {0, 1}] /\ received \in [Events -> {0, 1}]
  /\ \A q \in Events : executed[q] = 1 => q \in c_published
  /\ \A q \in Events : received[q] = 1 => executed[q] = 1
  /\ \A q \in Events, i \in {"own", "foreign"} : <<q, i>> \in answered => executed[q] = 1

\* One step per action of RpcExchange.
LEMMA RpcInvStep ==
  ASSUME RpcInv, [RPC!Next]_(RPC!vars)
  PROVE  RpcInv'
<1>1. ASSUME NEW q \in Events, RPC!Ask(q)
      PROVE  RpcInv'
  <2>1. c_published \subseteq c_published' /\ UNCHANGED <<executed, answered, received>>
    BY <1>1 DEF RPC!Ask, executed, answered, received
  <2> QED BY <2>1 DEF RpcInv
<1>2. ASSUME NEW q \in Events, RPC!Execute(q)
      PROVE  RpcInv'
  <2>1. /\ q \in c_published /\ executed' = [executed EXCEPT ![q] = 1]
        /\ UNCHANGED <<c_published, answered, received>>
    BY <1>2 DEF RPC!Execute, executed, answered, received
  <2> QED BY <2>1 DEF RpcInv
<1>3. ASSUME NEW q \in Events, RPC!Answer(q)
      PROVE  RpcInv'
  <2>1. /\ executed[q] = 1 /\ UNCHANGED <<c_published, executed, received>>
        /\ \E i \in {"own", "foreign"} : answered' \in {answered, answered \cup {<<q, i>>}}
    BY <1>3 DEF RPC!Answer, executed, answered, received
  <2> QED BY <2>1 DEF RpcInv
<1>4. ASSUME NEW q \in Events, RPC!Receive(q)
      PROVE  RpcInv'
  <2>1. /\ \E i \in {"own", "foreign"} : <<q, i>> \in answered
        /\ received' = [received EXCEPT ![q] = 1]
        /\ UNCHANGED <<c_published, executed, answered>>
    BY <1>4 DEF RPC!Receive, executed, answered, received
  <2> QED BY <2>1 DEF RpcInv
<1>5. ASSUME UNCHANGED <<c_published, executed, answered, received>>
      PROVE  RpcInv'
  BY <1>5 DEF RpcInv
<1>6. ASSUME NEW Q \in SUBSET Events, RPC!Lapse(Q)
      PROVE  UNCHANGED <<c_published, executed, answered, received>>
  BY <1>6 DEF RPC!Lapse, executed, answered, received
<1>7. ASSUME UNCHANGED RPC!vars
      PROVE  UNCHANGED <<c_published, executed, answered, received>>
  BY <1>7 DEF RPC!vars, executed, answered, received
<1> QED BY <1>1, <1>2, <1>3, <1>4, <1>5, <1>6, <1>7 DEF RPC!Next

\* Beyond any number of retries, failures, overruns, clean-ups and stops: no request is
\* executed twice, no answer is received twice, and none is without an execution.
THEOREM RpcOnceEach == XSpec /\ [](Single /\ CP!Single) => []RPC!OnceEach
<1>1. RPC!Init => RpcInv
  <2> SUFFICES ASSUME RPC!Init
               PROVE  RpcInv
    OBVIOUS
  <2>1. answered = {} /\ executed = [q \in Events |-> 0] /\ received = [q \in Events |-> 0]
    BY DEF RPC!Init, executed, answered, received
  <2> QED BY <2>1 DEF RpcInv
<1>2. RpcInv => RPC!OnceEach
  <2> DEFINE Once == \A q \in Events :
               /\ executed[q] \in {0, 1} /\ received[q] \in {0, 1}
               /\ received[q] = 1 => executed[q] = 1
               /\ executed[q] = 1 => q \in c_published
  <2>1. RpcInv => Once
    BY DEF RpcInv
  <2>2. RPC!OnceEach = Once
    BY DEF RPC!OnceEach, executed, received
  <2> QED BY <2>1, <2>2
<1>3. RPC!Spec => []RpcInv
  BY <1>1, RpcInvStep, PTL DEF RPC!Spec
<1>4. XSpec /\ [](Single /\ CP!Single) => RPC!Spec
  BY RpcRefinement DEF ImplementsRpc
<1> QED BY <1>2, <1>3, <1>4, PTL

================================================================================
