---------------------------- MODULE ClientTransport ----------------------------
(***************************************************************************)
(* NostrClientTransport (transport/client.rs): calls of send that publish  *)
(* a message and then register the id it was published under, and the      *)
(* event loop that matches what comes back against the registered ids.     *)
(*                                                                         *)
(* A sent message is a signed event and, when it is encrypted, a gift wrap *)
(* around it: two events with two ids.  The peer answers the signed event  *)
(* (transport/server.rs takes the inner id of a gift wrap), with a         *)
(* response, or with notifications correlated to the request, or it sends  *)
(* messages on its own.  What may come back is given by the constants;     *)
(* a step of the model delivers it, once, after what it answers was sent.  *)
(* Whether it is the server's is judged by the public key it names, which  *)
(* nothing compares with a signature when it comes in a gift wrap.         *)
(***************************************************************************)
EXTENDS TransportPolicy, RelayFeed, FiniteSets

CONSTANTS
  Sends,         \* calls of send
  Message,       \* [Sends -> message]
  Wires,         \* outer events addressed to this client
  Server, Other, \* public keys: the configured server, somebody else
  Inbound,       \* [Wires -> [from, about, kind]]: the public key it
                 \* names, the send its e tag refers to or None, what it says
  Loops,         \* event loops that start() may spawn
  IsStateless    \* config.is_stateless

ASSUME TrafficAssumption ==
  /\ None \notin Sends \cup Wires \cup ({"signed", "wrap"} \X Sends)
  /\ Server # Other
  /\ \A w \in Wires : /\ Inbound[w].from \in {Server, Other}
                      /\ Inbound[w].about \in Sends \cup {None}
                      /\ Inbound[w].kind \in {"response", "notification", "request", "invalid"}
  /\ IsStateless \in BOOLEAN

VARIABLES
  send_at,     \* where each call of send is
  published,   \* sends whose event reached a relay
  pending,     \* pending_requests
  connected,   \* base.is_connected
  arrived,     \* wires the relay pool has emitted so far
  feed,        \* each loop's broadcast receiver
  lagged,      \* a loop's receiver was overrun
  loop_at,     \* where each event loop is
  current,     \* the wire a loop is working on
  delivered,   \* how often each wire went into the application's channel
  emulated,    \* initialize requests answered locally
  registered   \* history: ids that were ever in pending

input  == <<connected, arrived, feed, lagged>>
sender == <<send_at, published, emulated>>
vars   == <<sender, pending, input, loop_at, current, delivered, registered>>

------------------------------------------------------------------------------
SignedId(s) == <<"signed", s>>
WrapId(s)   == <<"wrap", s>>
Ids == {"signed", "wrap"} \X Sends

\* send passes no preference on, so Optional encrypts.
Encrypts == ShouldEncrypt(None)

PublishedIdRpc(s) == Message[s].id    \* mutant: the JSON-RPC id in place of the event's
\* What send_mcp_message returns: the id of the event it published.
PublishedId(s) == IF Encrypts THEN WrapId(s) ELSE SignedId(s)

\* The e tag of a message from the wire.
Tag(w) == IF Inbound[w].about = None THEN None ELSE SignedId(Inbound[w].about)

IsInitialize(m)  == m.kind = "request" /\ m.method = "initialize"
IsInitialized(m) == m.kind = "notification" /\ m.method = "notifications/initialized"

TypeOK ==
  /\ send_at \in [Sends -> {"idle", "register", "done", "failed"}]
  /\ published \subseteq Sends
  /\ pending \subseteq Ids
  /\ connected \in BOOLEAN
  /\ arrived \subseteq Wires
  /\ feed \in [Loops -> Seq(Wires)]
  /\ lagged \in [Loops -> BOOLEAN]
  /\ loop_at \in [Loops -> {"off", "spawned", "recv", "check", "deliver", "ended"}]
  /\ current \in [Loops -> Wires \cup {None}]
  /\ delivered \in [Wires -> Nat]
  /\ emulated \subseteq Sends
  /\ registered \subseteq Ids

Init ==
  /\ send_at = [s \in Sends |-> "idle"]
  /\ published = {}
  /\ pending = {} /\ registered = {}
  /\ connected = FALSE
  /\ arrived = {}
  /\ feed = [l \in Loops |-> <<>>]
  /\ lagged = [l \in Loops |-> FALSE]
  /\ loop_at = [l \in Loops |-> "off"]
  /\ current = [l \in Loops |-> None]
  /\ delivered = [w \in Wires |-> 0]
  /\ emulated = {}

------------------------------------------------------------------------------
(* send.  Several calls may be in progress; none overlaps start() or close(). *)

NoSendInProgress == \A s \in Sends : send_at[s] # "register"

\* Stateless mode: initialize is answered here, initialized is swallowed.
SendLocal(s) ==
  /\ send_at[s] = "idle" /\ IsStateless
  /\ \/ IsInitialize(Message[s]) /\ emulated' = emulated \cup {s}
     \/ IsInitialized(Message[s]) /\ UNCHANGED emulated
  /\ send_at' = [send_at EXCEPT ![s] = "done"]
  /\ UNCHANGED <<published, pending, input, loop_at, current, delivered, registered>>

\* The event may reach a relay although the publish reports an error, and the
\* other way round.
SendPublish(s) ==
  /\ send_at[s] = "idle"
  /\ ~(IsStateless /\ (IsInitialize(Message[s]) \/ IsInitialized(Message[s])))
  /\ \E sent, ok \in BOOLEAN :
       /\ (sent \/ ok) => connected
       /\ published' = IF sent THEN published \cup {s} ELSE published
       /\ send_at' = [send_at EXCEPT ![s] = IF ok THEN "register" ELSE "failed"]
  /\ UNCHANGED <<emulated, pending, input, loop_at, current, delivered, registered>>

\* pending_requests.write().insert(event_id), whatever kind of message it was.
SendRegister(s) ==
  /\ send_at[s] = "register"
  /\ pending' = pending \cup {PublishedId(s)}
  /\ registered' = registered \cup {PublishedId(s)}
  /\ send_at' = [send_at EXCEPT ![s] = "done"]
  /\ UNCHANGED <<published, emulated, input, loop_at, current, delivered>>

------------------------------------------------------------------------------
(* The relays: what is correlated to a send comes after that send got out. *)
Listening(l) == loop_at[l] \notin {"off", "spawned", "ended"}

Deliver(w) ==
  /\ connected /\ w \notin arrived
  /\ Inbound[w].about \in published \cup {None}
  /\ arrived' = arrived \cup {w}
  /\ feed' = [l \in Loops |-> IF Listening(l) THEN Push(feed[l], w) ELSE feed[l]]
  /\ lagged' = [l \in Loops |-> lagged[l] \/ (Listening(l) /\ Full(feed[l]))]
  /\ UNCHANGED <<sender, pending, connected, loop_at, current, delivered, registered>>

------------------------------------------------------------------------------
(* The event loop.  Its encryption_mode parameter is unused: gift wraps and plain
   events are read alike in every mode, so a wire does not say which it is. *)

LoopSubscribe(l) ==
  /\ loop_at[l] = "spawned"
  /\ loop_at' = [loop_at EXCEPT ![l] = "recv"]
  /\ UNCHANGED <<sender, pending, input, current, delivered, registered>>

\* The message names the configured server; nothing more is known of its origin.
FromServer(w) == Inbound[w].from = Server

\* recv(), unwrapping, the check of the public key, and for an uncorrelated
\* message the parse.
LoopRecv(l) ==
  LET w == Head(feed[l]) IN
  /\ loop_at[l] = "recv" /\ ~lagged[l] /\ feed[l] # <<>>
  /\ feed' = [feed EXCEPT ![l] = Tail(@)]
  /\ \/ /\ FromServer(w)
        /\ Tag(w) # None \/ Inbound[w].kind # "invalid"
        /\ current' = [current EXCEPT ![l] = w]
        /\ loop_at' = [loop_at EXCEPT ![l] = IF Tag(w) = None THEN "deliver" ELSE "check"]
     \/ /\ \/ ~FromServer(w)
           \/ Tag(w) = None /\ Inbound[w].kind = "invalid"
        /\ UNCHANGED <<current, loop_at>>
  /\ UNCHANGED <<sender, pending, connected, arrived, lagged, delivered, registered>>

LoopLag(l) ==
  /\ loop_at[l] = "recv" /\ lagged[l]
  /\ loop_at' = [loop_at EXCEPT ![l] = "ended"]
  /\ feed' = [feed EXCEPT ![l] = <<>>]
  /\ UNCHANGED <<sender, pending, connected, arrived, lagged, current, delivered, registered>>

AcceptsUnknown(w) == Inbound[w].kind # "invalid"    \* mutant: no correlation
Accepts(w) == Tag(w) \in pending /\ Inbound[w].kind # "invalid"

AfterCheckBreak(w) == IF Accepts(w) THEN "deliver" ELSE "ended"    \* mutant: break, not continue
AfterCheck(w) == IF Accepts(w) THEN "deliver" ELSE "recv"

\* mutant: the id is removed before the message is parsed
LoopCheckConsumes(l) ==
  LET w == current[l] IN
  /\ loop_at[l] = "check"
  /\ pending' = pending \ {Tag(w)}
  /\ loop_at' = [loop_at EXCEPT ![l] = AfterCheck(w)]
  /\ current' = [current EXCEPT ![l] = IF Accepts(w) THEN w ELSE None]
  /\ UNCHANGED <<sender, input, delivered, registered>>

\* pending.read().contains(e tag), then the parse.
LoopCheck(l) ==
  LET w == current[l] IN
  /\ loop_at[l] = "check"
  /\ loop_at' = [loop_at EXCEPT ![l] = AfterCheck(w)]
  /\ current' = [current EXCEPT ![l] = IF Accepts(w) THEN w ELSE None]
  /\ UNCHANGED <<sender, pending, input, delivered, registered>>

AnsweredKept(w) == pending    \* mutant: a pending id is never removed
Answered(w) == pending \ {Tag(w)}

\* pending.write().remove(e tag) and tx.send.
LoopDeliver(l) ==
  /\ loop_at[l] = "deliver"
  /\ pending' = Answered(current[l])
  /\ delivered' = [delivered EXCEPT ![current[l]] = @ + 1]
  /\ loop_at' = [loop_at EXCEPT ![l] = "recv"]
  /\ current' = [current EXCEPT ![l] = None]
  /\ UNCHANGED <<sender, input, registered>>

------------------------------------------------------------------------------
(* start() and close(); close() leaves the loops and pending_requests alone. *)

Start(l) ==
  /\ NoSendInProgress /\ loop_at[l] = "off"
  /\ connected' = TRUE
  /\ loop_at' = [loop_at EXCEPT ![l] = "spawned"]
  /\ UNCHANGED <<sender, pending, arrived, feed, lagged, current, delivered, registered>>

StartFails ==
  /\ NoSendInProgress
  /\ connected' = TRUE
  /\ UNCHANGED <<sender, pending, arrived, feed, lagged, loop_at, current, delivered, registered>>

Close ==
  /\ NoSendInProgress
  /\ connected' = FALSE
  /\ UNCHANGED <<sender, pending, arrived, feed, lagged, loop_at, current, delivered, registered>>

------------------------------------------------------------------------------
\* The calls of send, the relays and the loops.
Running ==
  \/ \E s \in Sends : SendLocal(s) \/ SendPublish(s) \/ SendRegister(s)
  \/ \E w \in Wires : Deliver(w)
  \/ \E l \in Loops : LoopSubscribe(l) \/ LoopRecv(l) \/ LoopLag(l)
                      \/ LoopCheck(l) \/ LoopDeliver(l)

\* What needs the transport for itself.
Admin == StartFails \/ Close \/ \E l \in Loops : Start(l)

Next == Running \/ Admin

Spec == Init /\ [][Next]_vars

\* The runtime polls the loop's task and a send that has begun; whether the
\* application sends, starts or closes and what the relays deliver is open.
\* No guard of pending_requests is held across an await.
Fairness ==
  /\ \A l \in Loops : /\ WF_vars(LoopSubscribe(l)) /\ WF_vars(LoopRecv(l))
                      /\ WF_vars(LoopLag(l)) /\ WF_vars(LoopCheck(l))
                      /\ WF_vars(LoopDeliver(l))
  /\ \A s \in Sends : WF_vars(SendRegister(s))

FairSpec == Spec /\ Fairness

------------------------------------------------------------------------------
(* Safety *)

\* What the application is handed as correlated answers a send that has come back with
\* Ok and left its id, whoever wrote it, although the answer can overtake the rest of
\* the send and is checked some awaits before it is handed on.  A send that reported an
\* error is never answered, even if its event got out.
OnlySolicited ==
  \A w \in Wires : delivered[w] > 0 /\ Tag(w) # None =>
    Tag(w) \in registered /\ send_at[Inbound[w].about] = "done"

\* The check and the removal of a pending id are two critical sections, yet with
\* one event loop a registered id is used up by exactly one message: whatever
\* number of messages for it arrive, before or after, one is handed on.
AnsweredOnce ==
  \A v, w \in Wires :
    delivered[v] > 0 /\ delivered[w] > 0 /\ Tag(v) = Tag(w) /\ Tag(w) # None
      => v = w /\ delivered[w] = 1

\* Loops that earlier starts have left behind may find the same id pending before one
\* of them removes it; still an id is used up by at most as many messages as there
\* are loops, and not by one more, whatever keeps coming in for it.
OncePerLoop ==
  \A s \in Sends :
    Cardinality(UNION {{w} \X (1 .. delivered[w]) : w \in {v \in Wires : Tag(v) = SignedId(s)}})
      <= Cardinality({l \in Loops : loop_at[l] # "off"})

\* A registered id leaves pending_requests only for a message that was handed on:
\* neither a message that does not parse nor one that names another key uses it up.
PendingUntilAnswered ==
  \A i \in registered \ pending : \E w \in Wires : Tag(w) = i /\ delivered[w] > 0

------------------------------------------------------------------------------
(* Liveness, under FairSpec *)

\* An answer that waits in the receiver while its id is pending leads to that id
\* being used up by this answer or another one, unless the receiver is overrun.
PendingAnswered ==
  \A l \in Loops, w \in Wires :
    (/\ Queued(feed[l], w) /\ Tag(w) \in pending
     /\ FromServer(w) /\ Inbound[w].kind # "invalid")
      ~> Tag(w) \notin pending \/ lagged[l]

------------------------------------------------------------------------------
(* What the repository's comments promise and the code does not keep *)

\* server.rs, event_loop: "the client registers the inner event ID in its
\* correlation store".
RegistersInnerId == registered \subseteq {SignedId(s) : s \in Sends}

\* client.rs, pending_requests: "Pending request event IDs awaiting responses".
\* What ends the wait of a pending id is a response.
AwaitsResponse ==
  [][\A i \in pending \ pending' :
       \E w \in Wires : Tag(w) = i /\ Inbound[w].kind = "response" /\ delivered'[w] > 0]_vars

\* DESIGN.md, 2.3: "send request, receive correlated response".  A response that
\* reached the event loop is handed on, unless the send itself reported an error.
ResponseReceived ==
  \A l \in Loops, w \in Wires :
    (/\ Queued(feed[l], w) /\ Tag(w) # None
     /\ FromServer(w) /\ Inbound[w].kind = "response")
      ~> \/ lagged[l] \/ send_at[Inbound[w].about] = "failed"
         \/ \E v \in Wires : Tag(v) = Tag(w) /\ delivered[v] > 0
================================================================================
