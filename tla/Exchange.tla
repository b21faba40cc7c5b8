-------------------------------- MODULE Exchange --------------------------------
(***************************************************************************)
(* One client transport and one server transport over the relays.  The     *)
(* server's variables have their names of ServerTransport, the client's    *)
(* begin with c_.  What the client publishes is what can arrive at the     *)
(* server: its sends are the server's events, and the ids it publishes     *)
(* under are the server's wires.  What the server publishes can arrive at  *)
(* the client, in up to Copies events: a response that is sent again after *)
(* a failed publish is another event.  Here all traffic comes from the two *)
(* transports: what else may name the client's or the server's key on the  *)
(* wire, which neither side verifies, is left to the modules of each side. *)
(***************************************************************************)
EXTENDS ServerTransport

CONSTANTS
  Sent,           \* [Events -> message], what the client sends
  ClientMode,     \* the client's encryption mode
  ClientKey, ServerKey, Nobody,
  ClientLoops, ClientCapacity,
  Copies          \* bound: events that carry one response

VARIABLES
  c_send_at, c_published, c_pending, c_connected, c_arrived, c_feed, c_lagged,
  c_loop_at, c_current, c_delivered, c_emulated, c_registered

cvars == <<c_send_at, c_published, c_pending, c_connected, c_arrived, c_feed, c_lagged,
           c_loop_at, c_current, c_delivered, c_emulated, c_registered>>

\* An event on its way to the client, and what the client's loop sees in it.
Answers == [response : Response, copy : 1 .. Copies]
Seen == [a \in Answers |-> [from |-> ServerKey, about |-> a.response.event, kind |-> "response"]]

C == INSTANCE ClientTransport WITH
       EncryptionMode <- ClientMode, Allowed <- {}, Excluded <- {},
       NotifCapacity <- ClientCapacity,
       Sends <- Events, Message <- Sent, Wires <- Answers, Server <- ServerKey, Other <- Nobody,
       Inbound <- Seen, Loops <- ClientLoops, IsStateless <- FALSE,
       send_at <- c_send_at, published <- c_published, pending <- c_pending,
       connected <- c_connected, arrived <- c_arrived, feed <- c_feed,
       lagged <- c_lagged, loop_at <- c_loop_at, current <- c_current,
       delivered <- c_delivered, emulated <- c_emulated, registered <- c_registered

\* The server's side of the same traffic, for its constants Wires, Wrapped, Inner,
\* Author and Message.
PublishedIds     == C!Ids
PublishedWraps   == {i \in C!Ids : i[1] = "wrap"}
Published        == [i \in C!Ids |-> i[2]]
Signer           == [i \in C!Ids |-> ClientKey]
PublishedMessage == [i \in C!Ids |-> Sent[i[2]]]

ASSUME ExchangeAssumption ==
  /\ Wires = PublishedIds /\ Wrapped = PublishedWraps
  /\ Inner = Published /\ Author = Signer /\ Message = PublishedMessage
  /\ ClientKey \in Clients /\ ServerKey # Nobody
  /\ ClientMode \in {"Optional", "Required", "Disabled"}
  /\ ClientCapacity \in Nat \ {0}
  /\ Copies \in Nat
  /\ None \notin Answers

xvars == <<vars, cvars>>

XInit == Init /\ C!Init

------------------------------------------------------------------------------
\* The relays carry what was published, in both directions.
Carried == /\ \A w \in arrived' \ arrived : \E q \in c_published : w = C!PublishedId(q)
           /\ UNCHANGED cvars
CarriedBack == /\ \A a \in c_arrived' \ c_arrived : a.response \in outbox
               /\ UNCHANGED vars

XNext ==
  \/ (Running \/ Admin) /\ Carried
  \/ (C!Running \/ C!Admin) /\ CarriedBack

XSpec == XInit /\ [][XNext]_xvars

------------------------------------------------------------------------------
(* Safety *)

\* However many loops run on either side: what the client's application is handed as
\* an answer was published by the server to this client, after the server's application
\* was handed the request, which got out and is one the client has registered; and
\* the answer carries the JSON-RPC id of the request unless the server was through
\* with the request before.
AnswerHasCause ==
  \A a \in Answers : c_delivered[a] > 0 =>
    LET q == a.response.event IN
    /\ q \in c_published /\ C!SignedId(q) \in c_registered
    /\ KnownToApp(q)
    /\ a.response \in outbox /\ a.response.to = ClientKey
    /\ a.response.id = Sent[q].id \/ q \in acked \cup lapsed

------------------------------------------------------------------------------
(* Refinement of RpcExchange *)

\* Every time the application was handed an answer to q.
Handed(q) == UNION {{a} \X (1 .. c_delivered[a]) : a \in {b \in Answers : b.response.event = q}}

RPC == INSTANCE RpcExchange WITH
         Requests <- Events, Own <- "own", Foreign <- "foreign",
         asked    <- c_published,
         executed <- [q \in Events |-> forwarded[C!SignedId(q)] + forwarded[C!WrapId(q)]],
         answered <- {<<m.event, IF m.id = Sent[m.event].id THEN "own" ELSE "foreign">> :
                        m \in outbox},
         lapsed   <- acked \cup lapsed,
         received <- [q \in Events |-> Cardinality(Handed(q))]

\* Both transports with their loops, clean-ups, calls, stops and failures together
\* are an exchange: whatever the client is handed as an answer, once per request,
\* follows from one execution of its request, and until the server is through with
\* a request its answers carry the id the client gave it.
ImplementsRpc == RPC!Spec
================================================================================
