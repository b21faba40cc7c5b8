---------------------------- MODULE ServerTransport ----------------------------
(***************************************************************************)
(* NostrServerTransport (transport/server.rs): the event loop that turns   *)
(* Nostr events into requests, the periodic session cleanup, the calls of  *)
(* send_response that the application makes concurrently, and start/close. *)
(*                                                                         *)
(* The three kinds of task share two maps behind tokio RwLocks: sessions   *)
(* and event_to_client.  A step here is the code between two awaits at     *)
(* which another task can run.  A guard on sessions that is held across an *)
(* await is recorded in lock; every other guard is taken and dropped       *)
(* inside one step.                                                        *)
(*                                                                         *)
(* What is outside the process (relays, clients, the application that      *)
(* answers) appears only as Deliver, the outcome of a publish, and the     *)
(* choice of the event id a call is made with.  The loop takes id, public  *)
(* key and content of a wrapped event as it finds them: nothing compares   *)
(* them with each other or with a signature, so several wires may bear one *)
(* event id and differ in the rest.                                        *)
(***************************************************************************)
EXTENDS TransportPolicy, RelayFeed, FiniteSets

CONSTANTS
  Clients,         \* public keys of clients
  Events,          \* ids that MCP events bear (the inner event of a gift wrap)
  Tokens,          \* progress tokens
  RpcIds,          \* JSON-RPC ids chosen by clients
  AppId,           \* the id the application leaves in a response
  Wires,           \* outer Nostr events addressed to this server
  Wrapped,         \* the wires that are gift wraps
  Inner,           \* [Wires -> Events], the id of the MCP event a wire carries
  Author,          \* [Wires -> Clients], the public key that event names
  Message,         \* [Wires -> message], what it says; kind "invalid" does not parse
  Loops,           \* event loops (with their cleanup tasks) that start() may spawn
  Callers,         \* concurrent calls of send_response
  SessionTimeout,  \* session_timeout, in ticks
  Cancellable      \* TRUE: the application may drop a send_response future

ASSUME SetsAssumption ==
  /\ Tokens \cap Events = {}
  /\ None \notin Clients \cup Events \cup Tokens \cup RpcIds \cup Wires \cup Loops \cup {AppId}
  /\ AppId \notin RpcIds

ASSUME TrafficAssumption ==
  /\ Wrapped \subseteq Wires
  /\ Inner \in [Wires -> Events]
  /\ Author \in [Wires -> Clients]
  /\ \A w \in Wires : /\ Message[w].kind = "request" => Message[w].id \in RpcIds
                      /\ Message[w].token \in Tokens \cup {None}

ASSUME BoundsAssumption ==
  /\ SessionTimeout \in Nat
  /\ Cancellable \in BOOLEAN

VARIABLES
  sessions,         \* client -> its ClientSession, or None
  event_to_client,  \* event id -> client, or None
  lock,             \* who holds the write guard of each map across an await
  connected,        \* base.is_connected
  arrived,          \* wires the relay pool has emitted so far
  feed,             \* each loop's broadcast receiver
  lagged,           \* a loop's receiver was overrun
  loop_at,          \* where each event loop is
  current,          \* the wire a loop is working on
  clean_at,         \* where each cleanup task is
  forwarded,        \* how often each wire went into the consumer's channel
  call,             \* the calls of send_response
  admin_at,         \* where close() is; start() is one step
  outbox,           \* responses that reached a relay
  owed,             \* history: requests accepted and neither answered nor expired
  acked,            \* history: events some send_response published with Ok
  lapsed            \* history: events tracked in a session when it expired

shared == <<sessions, event_to_client, lock>>
input  == <<connected, arrived, feed, lagged>>
tasks  == <<loop_at, current, clean_at>>
ghosts == <<owed, acked, lapsed>>
vars   == <<shared, input, tasks, forwarded, call, admin_at, outbox, ghosts>>

------------------------------------------------------------------------------
Keys  == Events \cup Tokens
Tasks == {"loop", "cleaner"} \X Loops

Session == [is_initialized : BOOLEAN,
            is_encrypted : BOOLEAN,
            elapsed : 0 .. SessionTimeout + 1,     \* last_activity.elapsed(), capped
            pending_requests : [Keys -> RpcIds \cup Events \cup {None}],
            event_to_progress_token : [Events -> Tokens \cup {None}]]

ASSUME AbsentAssumption == None \notin Session /\ None \notin Tasks

\* ClientSession::new
NewSession(wrapped) ==
  [is_initialized |-> FALSE,
   is_encrypted |-> wrapped,
   elapsed |-> 0,
   pending_requests |-> [k \in Keys |-> None],
   event_to_progress_token |-> [e \in Events |-> None]]

\* One send_response: what it has read so far is kept in locals.
Idle == [at |-> "idle", event |-> None, client |-> None, id |-> None, enc |-> FALSE]
Call == [at : {"idle", "session", "publish", "forget", "unmap"},
         event : Events \cup {None},
         client : Clients \cup {None},
         id : RpcIds \cup Events \cup {AppId, None},
         enc : BOOLEAN]

Response == [event : Events, to : Clients, id : RpcIds \cup Events \cup {AppId},
             encrypted : BOOLEAN]

IsRequest(w) == Message[w].kind = "request"

\* What the loop lets through to session management.
Admitted(w) ==
  /\ Readable(w \in Wrapped)
  /\ Message[w].kind # "invalid"
  /\ Authorized(Author[w], Message[w])

Free(m) == lock[m] = None

\* The session of c has an entry for the request e: its response will bear the id
\* that stands there.
Holds(c, e) == sessions[c] # None /\ sessions[c].pending_requests[e] # None

ExpiredLate(s) == s # None /\ s.elapsed > SessionTimeout + 1    \* mutant: off by one
Expired(s) == s # None /\ s.elapsed > SessionTimeout

TypeOK ==
  /\ sessions \in [Clients -> Session \cup {None}]
  /\ event_to_client \in [Events -> Clients \cup {None}]
  /\ lock \in [{"sessions", "event_to_client"} -> Tasks \cup {None}]
  /\ connected \in BOOLEAN
  /\ arrived \subseteq Wires
  /\ feed \in [Loops -> Seq(Wires)]
  /\ lagged \in [Loops -> BOOLEAN]
  /\ loop_at \in [Loops -> {"off", "spawned", "recv", "track", "map", "finish",
                            "forward", "ended"}]
  /\ current \in [Loops -> Wires \cup {None}]
  /\ clean_at \in [Loops -> {"off", "idle", "locked"}]
  /\ forwarded \in [Wires -> Nat]
  /\ call \in [Callers -> Call]
  /\ admin_at \in {"idle", "clear_sessions", "clear_map"}
  /\ outbox \subseteq Response
  /\ owed \subseteq Events /\ acked \subseteq Events /\ lapsed \subseteq Events

Init ==
  /\ sessions = [c \in Clients |-> None]
  /\ event_to_client = [e \in Events |-> None]
  /\ lock = [m \in {"sessions", "event_to_client"} |-> None]
  /\ connected = FALSE
  /\ arrived = {}
  /\ feed = [l \in Loops |-> <<>>]
  /\ lagged = [l \in Loops |-> FALSE]
  /\ loop_at = [l \in Loops |-> "off"]
  /\ current = [l \in Loops |-> None]
  /\ clean_at = [l \in Loops |-> "off"]
  /\ forwarded = [w \in Wires |-> 0]
  /\ call = [r \in Callers |-> Idle]
  /\ admin_at = "idle"
  /\ outbox = {}
  /\ owed = {} /\ acked = {} /\ lapsed = {}

------------------------------------------------------------------------------
(***************************************************************************)
(* The relay pool (nostr-sdk) emits an event to every receiver of its      *)
(* bounded broadcast channel, once per event id.  Nobody keeps it for a    *)
(* loop that has not called notifications() yet.                           *)
(***************************************************************************)
Listening(l) == loop_at[l] \notin {"off", "spawned", "ended"}

Deliver(w) ==
  /\ connected /\ w \notin arrived
  /\ arrived' = arrived \cup {w}
  /\ feed' = [l \in Loops |->
                IF Listening(l) THEN Push(feed[l], w) ELSE feed[l]]
  /\ lagged' = [l \in Loops |-> lagged[l] \/ (Listening(l) /\ Full(feed[l]))]
  /\ UNCHANGED <<shared, connected, tasks, forwarded, call, admin_at, outbox, ghosts>>

Tick ==
  /\ sessions' = [c \in Clients |->
                    IF sessions[c] = None \/ Expired(sessions[c]) THEN sessions[c]
                    ELSE [sessions[c] EXCEPT !.elapsed = @ + 1]]
  /\ UNCHANGED <<event_to_client, lock, input, tasks, forwarded, call, admin_at,
                 outbox, ghosts>>

------------------------------------------------------------------------------
(* The event loop *)

\* client.notifications(): from here on the loop has a receiver.
LoopSubscribe(l) ==
  /\ loop_at[l] = "spawned"
  /\ loop_at' = [loop_at EXCEPT ![l] = "recv"]
  /\ UNCHANGED <<shared, input, current, clean_at, forwarded, call, admin_at, outbox, ghosts>>

\* recv(), the encryption gate, decryption, parsing and authorization.
LoopRecv(l) ==
  /\ loop_at[l] = "recv" /\ ~lagged[l] /\ feed[l] # <<>>
  /\ feed' = [feed EXCEPT ![l] = Tail(@)]
  /\ IF Admitted(Head(feed[l]))
       THEN /\ loop_at' = [loop_at EXCEPT ![l] = "track"]
            /\ current' = [current EXCEPT ![l] = Head(feed[l])]
       ELSE UNCHANGED <<loop_at, current>>
  /\ UNCHANGED <<shared, connected, arrived, lagged, clean_at, forwarded, call,
                 admin_at, outbox, ghosts>>

\* Err(Lagged) fails the pattern of the while let, and the task returns.
LoopLag(l) ==
  /\ loop_at[l] = "recv" /\ lagged[l]
  /\ loop_at' = [loop_at EXCEPT ![l] = "ended"]
  /\ feed' = [feed EXCEPT ![l] = <<>>]
  /\ UNCHANGED <<shared, connected, arrived, lagged, current, clean_at, forwarded,
                 call, admin_at, outbox, ghosts>>

\* mutant: the form of the message is not recorded
TouchedPlain(s, w) ==
  LET t == [(IF s = None THEN NewSession(FALSE) ELSE s) EXCEPT !.elapsed = 0]
  IN IF IsRequest(w) THEN [t EXCEPT !.pending_requests[Inner[w]] = Message[w].id] ELSE t
\* sessions.write(): find or create the session, touch it, remember the form
\* of the message, and remember the id of a request.
Touched(s, w) ==
  LET t == [(IF s = None THEN NewSession(w \in Wrapped) ELSE s)
              EXCEPT !.elapsed = 0, !.is_encrypted = w \in Wrapped]
  IN IF IsRequest(w) THEN [t EXCEPT !.pending_requests[Inner[w]] = Message[w].id] ELSE t

LoopTrack(l) ==
  LET w == current[l] IN
  /\ loop_at[l] = "track" /\ Free("sessions")
  /\ lock' = [lock EXCEPT !["sessions"] = <<"loop", l>>]
  /\ sessions' = [sessions EXCEPT ![Author[w]] = Touched(@, w)]
  /\ loop_at' = [loop_at EXCEPT ![l] = IF IsRequest(w) THEN "map" ELSE "finish"]
  /\ UNCHANGED <<event_to_client, input, current, clean_at, forwarded, call, admin_at,
                 outbox, ghosts>>

\* mutant: correlation by JSON-RPC id, which two clients may share
MappedByRpcId(w) ==
  [e \in Events |-> IF \E v \in Wires : Inner[v] = e /\ Message[v].id = Message[w].id
                    THEN Author[w] ELSE event_to_client[e]]
Mapped(w) == [event_to_client EXCEPT ![Inner[w]] = Author[w]]

\* event_to_client.write() while the sessions guard is still held.
LoopMap(l) ==
  LET w == current[l] IN
  /\ loop_at[l] = "map" /\ Free("event_to_client")
  /\ event_to_client' = Mapped(w)
  /\ owed' = owed \cup ({Inner[w]} \ acked)
  /\ loop_at' = [loop_at EXCEPT ![l] = "finish"]
  /\ UNCHANGED <<sessions, lock, input, current, clean_at, forwarded, call, admin_at,
                 outbox, acked, lapsed>>

\* Progress token, initialized flag, drop of the sessions guard.
Finished(s, w) ==
  LET m == Message[w]
      e == Inner[w]
  IN
  CASE m.kind = "request" /\ m.token # None ->
         [s EXCEPT !.pending_requests[m.token] = e, !.event_to_progress_token[e] = m.token]
    [] m.kind = "notification" /\ m.method = "notifications/initialized" ->
         [s EXCEPT !.is_initialized = TRUE]
    [] OTHER -> s

LoopFinish(l) ==
  LET w == current[l] IN
  /\ loop_at[l] = "finish"
  /\ sessions' = [sessions EXCEPT ![Author[w]] = Finished(@, w)]
  /\ lock' = [lock EXCEPT !["sessions"] = None]
  /\ loop_at' = [loop_at EXCEPT ![l] = "forward"]
  /\ UNCHANGED <<event_to_client, input, current, clean_at, forwarded, call, admin_at,
                 outbox, ghosts>>

\* tx.send, after the guard is gone.
LoopForward(l) ==
  /\ loop_at[l] = "forward"
  /\ forwarded' = [forwarded EXCEPT ![current[l]] = @ + 1]
  /\ loop_at' = [loop_at EXCEPT ![l] = "recv"]
  /\ current' = [current EXCEPT ![l] = None]
  /\ UNCHANGED <<shared, input, clean_at, call, admin_at, outbox, ghosts>>

------------------------------------------------------------------------------
(* The cleanup task: cleanup_sessions takes both write guards in this order
   and holds them over the whole sweep. *)
CleanupOrderReversed == <<"event_to_client", "sessions">>    \* mutant
CleanupOrder == <<"sessions", "event_to_client">>

CleanAcquire(l) ==
  /\ clean_at[l] = "idle" /\ Free(CleanupOrder[1])
  /\ lock' = [lock EXCEPT ![CleanupOrder[1]] = <<"cleaner", l>>]
  /\ clean_at' = [clean_at EXCEPT ![l] = "locked"]
  /\ UNCHANGED <<sessions, event_to_client, input, loop_at, current, forwarded, call,
                 admin_at, outbox, ghosts>>

SweptNone == {}    \* mutant: the sweep leaves the reverse mappings
\* The events whose mapping goes with the sessions that have expired.
Swept == {e \in Events : \E c \in Clients :
            /\ Expired(sessions[c])
            /\ \/ sessions[c].pending_requests[e] # None
               \/ sessions[c].event_to_progress_token[e] # None}

CleanExpire(l) ==
  /\ clean_at[l] = "locked" /\ Free(CleanupOrder[2])
  /\ sessions' = [c \in Clients |-> IF Expired(sessions[c]) THEN None ELSE sessions[c]]
  /\ event_to_client' = [e \in Events |-> IF e \in Swept THEN None ELSE event_to_client[e]]
  /\ lock' = [lock EXCEPT ![CleanupOrder[1]] = None]
  /\ clean_at' = [clean_at EXCEPT ![l] = "idle"]
  /\ lapsed' = lapsed \cup Swept
  /\ owed' = {e \in owed : ~\E c \in Clients : Expired(sessions[c]) /\ Holds(c, e)}
  /\ UNCHANGED <<input, loop_at, current, forwarded, call, admin_at, outbox, acked>>

------------------------------------------------------------------------------
(***************************************************************************)
(* send_response, one action per stretch between two awaits.  It runs on   *)
(* &self, so it cannot overlap start() or close() (&mut self); it can      *)
(* overlap other calls, the loops and the cleanup.  The application knows  *)
(* the ids of the requests it was handed, and may repeat a call.  A call   *)
(* that fails (no mapping, no session, publish error) returns at once.     *)
(***************************************************************************)
KnownToApp(e) == \E w \in Wires : Inner[w] = e /\ IsRequest(w) /\ forwarded[w] > 0

Set(r, c) == call' = [call EXCEPT ![r] = c]

CallLookup(r, e) ==
  /\ call[r].at = "idle" /\ admin_at = "idle" /\ KnownToApp(e)
  /\ Free("event_to_client") /\ event_to_client[e] # None
  /\ Set(r, [Idle EXCEPT !.at = "session", !.event = e, !.client = event_to_client[e]])
  /\ UNCHANGED <<shared, input, tasks, forwarded, admin_at, outbox, ghosts>>

RestoredId(s, e) ==
  IF s.pending_requests[e] = None THEN AppId ELSE s.pending_requests[e]

CallSession(r) ==
  LET s == sessions[call[r].client] IN
  /\ call[r].at = "session" /\ Free("sessions")
  /\ Set(r, IF s = None THEN Idle
            ELSE [call[r] EXCEPT !.at = "publish",
                                 !.id = RestoredId(s, call[r].event),
                                 !.enc = s.is_encrypted])
  /\ UNCHANGED <<shared, input, tasks, forwarded, admin_at, outbox, ghosts>>

AfterPublishAlways(c, ok) == [c EXCEPT !.at = "forget"]    \* mutant: `?` is missing
AfterPublish(c, ok) == IF ok THEN [c EXCEPT !.at = "forget"] ELSE Idle

\* The message may reach a relay although the publish reports an error, and
\* a publish may report success for a message no client will see.
CallPublish(r) ==
  LET c == call[r]
      m == [event |-> c.event, to |-> c.client, id |-> c.id,
            encrypted |-> ShouldEncrypt(c.enc)]
  IN
  /\ c.at = "publish"
  /\ \E sent, ok \in BOOLEAN :
       /\ (sent \/ ok) => connected
       /\ outbox' = IF sent THEN outbox \cup {m} ELSE outbox
       /\ acked' = IF ok THEN acked \cup {c.event} ELSE acked
       /\ owed' = IF ok THEN owed \ {c.event} ELSE owed
       /\ Set(r, AfterPublish(c, ok))
  /\ UNCHANGED <<shared, input, tasks, forwarded, admin_at, lapsed>>

\* mutants: clear() in place of remove(); the token's entry stays
ForgottenAll(s, e) == [s EXCEPT !.event_to_progress_token[e] = None,
                                !.pending_requests = [k \in Keys |-> None]]
ForgottenKeepsToken(s, e) == [s EXCEPT !.event_to_progress_token[e] = None,
                                       !.pending_requests[e] = None]
\* The first clean-up section: the session drops the request and its token.
Forgotten(s, e) ==
  LET t == s.event_to_progress_token[e]
      gone == {e} \cup (IF t = None THEN {} ELSE {t})
  IN [s EXCEPT !.event_to_progress_token[e] = None,
               !.pending_requests = [k \in Keys |-> IF k \in gone THEN None ELSE @[k]]]

CallForget(r) ==
  LET c == call[r] IN
  /\ c.at = "forget" /\ Free("sessions")
  /\ sessions' = [sessions EXCEPT ![c.client] = IF @ = None THEN None
                                                ELSE Forgotten(@, c.event)]
  /\ Set(r, [c EXCEPT !.at = "unmap"])
  /\ UNCHANGED <<event_to_client, lock, input, tasks, forwarded, admin_at, outbox, ghosts>>

\* The second: the mapping goes, and the call returns Ok.
CallUnmap(r) ==
  /\ call[r].at = "unmap" /\ Free("event_to_client")
  /\ event_to_client' = [event_to_client EXCEPT ![call[r].event] = None]
  /\ Set(r, Idle)
  /\ UNCHANGED <<sessions, lock, input, tasks, forwarded, admin_at, outbox, ghosts>>

\* The application drops the future at an await (a timeout around the call,
\* an aborted task).
Cancel(r) ==
  /\ Cancellable /\ call[r].at # "idle"
  /\ Set(r, Idle)
  /\ UNCHANGED <<shared, input, tasks, forwarded, admin_at, outbox, ghosts>>

------------------------------------------------------------------------------
(***************************************************************************)
(* start() and close().  Neither knows of the loops an earlier start()     *)
(* spawned; close() leaves them running.  The model allows one start() per *)
(* member of Loops.                                                        *)
(***************************************************************************)
Exclusive == admin_at = "idle" /\ \A r \in Callers : call[r].at = "idle"

Start(l) ==
  /\ Exclusive /\ loop_at[l] = "off"
  /\ connected' = TRUE
  /\ loop_at' = [loop_at EXCEPT ![l] = "spawned"]
  /\ clean_at' = [clean_at EXCEPT ![l] = "idle"]
  /\ UNCHANGED <<shared, arrived, feed, lagged, current, forwarded, call, admin_at,
                 outbox, ghosts>>

\* The public key or the subscription fails after connect() has succeeded.
StartFails ==
  /\ Exclusive
  /\ connected' = TRUE
  /\ UNCHANGED <<shared, arrived, feed, lagged, tasks, forwarded, call, admin_at,
                 outbox, ghosts>>

Close ==
  /\ Exclusive
  /\ connected' = FALSE
  /\ admin_at' = "clear_sessions"
  /\ UNCHANGED <<shared, arrived, feed, lagged, tasks, forwarded, call, outbox, ghosts>>

CloseSessions ==
  /\ admin_at = "clear_sessions" /\ Free("sessions")
  /\ sessions' = [c \in Clients |-> None]
  /\ owed' = {}
  /\ admin_at' = "clear_map"
  /\ UNCHANGED <<event_to_client, lock, input, tasks, forwarded, call, outbox, acked, lapsed>>

CloseMap ==
  /\ admin_at = "clear_map" /\ Free("event_to_client")
  /\ event_to_client' = [e \in Events |-> None]
  /\ owed' = {}
  /\ admin_at' = "idle"
  /\ UNCHANGED <<sessions, lock, input, tasks, forwarded, call, outbox, acked, lapsed>>

------------------------------------------------------------------------------
\* mutant: try_write in place of write(), and the message is dropped
LoopStepTries(l) ==
  \/ LoopSubscribe(l) \/ LoopRecv(l) \/ LoopLag(l)
  \/ LoopTrack(l) \/ LoopMap(l) \/ LoopFinish(l) \/ LoopForward(l)
  \/ /\ loop_at[l] = "track" /\ ~Free("sessions")
     /\ loop_at' = [loop_at EXCEPT ![l] = "recv"]
     /\ current' = [current EXCEPT ![l] = None]
     /\ UNCHANGED <<shared, input, clean_at, forwarded, call, admin_at, outbox, ghosts>>
LoopStep(l) ==
  \/ LoopSubscribe(l) \/ LoopRecv(l) \/ LoopLag(l)
  \/ LoopTrack(l) \/ LoopMap(l) \/ LoopFinish(l) \/ LoopForward(l)

CleanStep(l) == CleanAcquire(l) \/ CleanExpire(l)

CallStep(r) ==
  \/ CallSession(r) \/ CallPublish(r) \/ CallForget(r) \/ CallUnmap(r)

\* What goes on beside each other: the relays, the spawned tasks, the calls on
\* &self, and close() once it has begun.
Running ==
  \/ \E w \in Wires : Deliver(w)
  \/ Tick
  \/ \E l \in Loops : LoopStep(l) \/ CleanStep(l)
  \/ \E r \in Callers : CallStep(r) \/ Cancel(r) \/ \E e \in Events : CallLookup(r, e)
  \/ CloseSessions \/ CloseMap

\* What begins on &mut self.
Admin == StartFails \/ Close \/ \E l \in Loops : Start(l)

Next == Running \/ Admin

Spec == Init /\ [][Next]_vars

(***************************************************************************)
(* Spawned tasks are polled, the cleanup's interval fires again and again, *)
(* and a publish gives up after a timeout of the relay pool, so every step *)
(* of a task or of a call in progress is weakly fair.  tokio's RwLock      *)
(* queues its waiters first-in first-out, so one that waits for a guard    *)
(* gets it although the guard is taken by others in between: strong        *)
(* fairness.  Nobody has to send, answer, start, close or cancel.          *)
(***************************************************************************)
Fairness ==
  /\ \A l \in Loops :
       /\ WF_vars(LoopSubscribe(l)) /\ WF_vars(LoopRecv(l)) /\ WF_vars(LoopLag(l))
       /\ SF_vars(LoopTrack(l)) /\ SF_vars(LoopMap(l))
       /\ WF_vars(LoopFinish(l)) /\ WF_vars(LoopForward(l))
       /\ SF_vars(CleanAcquire(l)) /\ SF_vars(CleanExpire(l))
  /\ \A r \in Callers :
       /\ SF_vars(CallSession(r)) /\ WF_vars(CallPublish(r))
       /\ SF_vars(CallForget(r)) /\ SF_vars(CallUnmap(r))
  /\ SF_vars(CloseSessions) /\ SF_vars(CloseMap)

FairSpec == Spec /\ Fairness

------------------------------------------------------------------------------
(* Safety *)

\* A request with the id e was let through that names client c, under JSON-RPC id i.
Asked(c, e, i) ==
  \E w \in arrived : /\ Inner[w] = e /\ Author[w] = c /\ IsRequest(w) /\ Admitted(w)
                     /\ Message[w].id = i

(***************************************************************************)
(* A request that was accepted stays answerable until a response to it has *)
(* been published or its session has expired: whatever loops, cleanup and  *)
(* other calls do in between, send_response will find the client it names  *)
(* and the JSON-RPC id that client chose.  In particular a publish that    *)
(* failed can be repeated.  Of several that bear the same id one remains   *)
(* answerable.                                                             *)
(***************************************************************************)
Answerable == \A e \in owed :
  LET c == event_to_client[e] IN
  c # None /\ sessions[c] # None /\ Asked(c, e, sessions[c].pending_requests[e])

\* A response goes to a client that a request with this event id names, under the
\* JSON-RPC id of a request of this client (or the application's own), although the
\* call reads the client in one critical section and uses it in three later ones, and
\* another client's request may take the event id over in between.
ResponseRouting ==
  \A m \in outbox : \E i \in RpcIds : Asked(m.to, m.event, i) /\ m.id \in {i, AppId}

\* The mapping and the session are cleaned up in two sections by send_response
\* and in one by the cleanup; outside close() an event that is still mapped but
\* no longer tracked is one that was answered and whose call is about to unmap it
\* (or was cancelled there, which leaks the entry for good).
MappedIsTracked ==
  admin_at # "clear_map" =>
    \A e \in Events : event_to_client[e] # None /\ ~Holds(event_to_client[e], e) =>
      /\ e \in acked
      /\ Cancellable \/ \E r \in Callers : call[r].at = "unmap" /\ call[r].event = e

\* The entry a progress token has in pending_requests never outlives the entry
\* of the request it belongs to, although a token may be used again by a later
\* request of the session while the first is in progress.  (Of two tokens that come
\* with one event id the session would remember the second.)
OneToken(c, e) ==
  \A v, w \in arrived :
    /\ Inner[v] = e /\ Author[v] = c /\ IsRequest(v)
    /\ Inner[w] = e /\ Author[w] = c /\ IsRequest(w)
    => Message[v].token = Message[w].token

TokensFollowRequest ==
  \A c \in Clients : sessions[c] # None =>
    \A t \in Tokens, e \in Events : OneToken(c, e) /\ sessions[c].pending_requests[t] = e =>
      /\ sessions[c].pending_requests[e] # None
      /\ sessions[c].event_to_progress_token[e] = t

\* Mirror mode for a client that never changes form: if every message of a
\* client that arrived was wrapped, or none was, so is every response to it
\* that the mode leaves open (and Required wraps all, Disabled none).
MirrorsUniformClient ==
  \A m \in outbox, wrapped \in BOOLEAN :
    (\A w \in arrived : Author[w] = m.to => (w \in Wrapped) = wrapped)
      => m.encrypted = (\/ EncryptionMode = "Required"
                        \/ EncryptionMode = "Optional" /\ wrapped)

\* One running event loop hands each message to the consumer at most once.
ForwardedOnce == \A w \in Wires : forwarded[w] <= 1

\* Two kinds of task wait for one map's guard while they hold the other's, yet whoever
\* holds a guard across an await can go on at once: however many loops and cleanups
\* earlier starts have left behind, no two tasks wait for each other.
HoldersProceed ==
  \A m \in {"sessions", "event_to_client"} : ~Free(m) =>
    \E l \in Loops :
      \/ /\ lock[m] = <<"loop", l>>
         /\ loop_at[l] = "finish" \/ (loop_at[l] = "map" /\ Free("event_to_client"))
      \/ /\ lock[m] = <<"cleaner", l>>
         /\ clean_at[l] = "locked" /\ Free(CleanupOrder[2])

\* A message that a loop has received and may serve is not lost on the way: whatever
\* the cleanup, the calls, close() and other loops do, it leaves the receiver and the
\* loop's hands only for the application, unless the receiver is overrun.
InHand(l, w) == Queued(feed[l], w) \/ current[l] = w
NothingVanishes ==
  [][\A l \in Loops, w \in Wires :
       InHand(l, w) /\ ~InHand(l, w)' =>
         forwarded'[w] > forwarded[w] \/ lagged'[l] \/ ~Admitted(w)]_vars

\* What is published carries the id the client chose, unless the request had
\* already been answered or its session had expired when the call started to
\* publish: no interleaving of the session lookup with the clean-up of other
\* calls exposes the application's own id for an open request.
PublishesRestoredId ==
  [][\A m \in outbox' \ outbox :
       Asked(m.to, m.event, m.id) \/ m.event \in acked \cup lapsed]_vars

\* A response is forgotten only after it was published: no step drops a tracked
\* request that is neither answered, nor swept with its session, nor closed.
ForgetsOnlyAnswered ==
  [][\A c \in Clients, e \in Events : Holds(c, e) /\ ~Holds(c, e)' =>
       e \in acked \cup lapsed' \/ admin_at = "clear_sessions"]_vars

------------------------------------------------------------------------------
(* Refinement of RequestService *)

Service == INSTANCE RequestService WITH
             Requests <- {[event |-> Inner[w], to |-> Author[w], id |-> Message[w].id] :
                            w \in {v \in Wires : IsRequest(v)}},
             Ids     <- RpcIds \cup Events \cup {AppId},
             open    <- {p \in Clients \X Events : Holds(p[1], p[2])},
             done    <- acked \cup lapsed,
             replies <- {[event |-> m.event, to |-> m.to, id |-> m.id] : m \in outbox}

\* Sessions, locks and the interleavings of loops, cleanups, calls, start() and
\* close() hide behind this promise: a reply is to a request that was opened, goes to
\* the client that it was opened for, and carries an id of that client's unless the
\* event was done; and a request is closed only by what the service names.
ImplementsService == Service!Spec

------------------------------------------------------------------------------
(* Liveness, under FairSpec *)

\* What a loop received and may serve reaches the consumer, however the cleanup
\* and the calls compete for the two maps, unless the receiver is overrun.
EveryAdmittedForwarded ==
  \A l \in Loops, w \in Wires :
    Admitted(w) /\ Queued(feed[l], w) ~> forwarded[w] > 0 \/ lagged[l]

\* Every send_response returns, and so does close().
CallsReturn ==
  /\ \A r \in Callers : call[r].at # "idle" ~> call[r].at = "idle"
  /\ admin_at # "idle" ~> admin_at = "idle"

\* An expired session does not stay: it is removed, or its client comes back.
ExpiredSessionsGo ==
  \A c \in Clients : Expired(sessions[c]) ~> ~Expired(sessions[c])

------------------------------------------------------------------------------
(* What the repository's comments promise and the code does not keep *)

\* types.rs, EncryptionMode::Optional: "Encrypt responses only when the incoming
\* request was encrypted (mirror mode)".
MirrorsRequest ==
  EncryptionMode = "Optional" =>
    \A m \in outbox, wrapped \in BOOLEAN :
      (\A w \in arrived : Inner[w] = m.event => (w \in Wrapped) = wrapped)
        => m.encrypted = wrapped
================================================================================
