------------------------ MODULE ServerTransport_proofs ------------------------
(***************************************************************************)
(* Proofs about ServerTransport, for all values of its constants.          *)
(*                                                                         *)
(* The invariants the configurations check are not inductive.  They hold   *)
(* because of the lock discipline (Locks, Work): a loop that has tracked a *)
(* request keeps the sessions guard until the request is mapped, so no     *)
(* cleanup, call or close sees one without the other.                      *)
(***************************************************************************)
EXTENDS ServerTransport, RelayFeed_proofs

Locks ==
  /\ lock["event_to_client"] = None
  /\ \A l \in Loops : loop_at[l] \in {"map", "finish"} => lock["sessions"] = <<"loop", l>>
  /\ \A l \in Loops : clean_at[l] = "locked" => lock["sessions"] = <<"cleaner", l>>

On(l)   == loop_at[l] # "off"
Busy(l) == loop_at[l] \in {"track", "map", "finish", "forward"}

\* What is in a receiver has arrived; what a loop works on was let through too.
Received ==
  /\ \A l \in Loops, w \in Wires : Queued(feed[l], w) => w \in arrived
  /\ \A l \in Loops : Busy(l) => current[l] \in arrived /\ Admitted(current[l])

Work ==
  \A l \in Loops :
    /\ Busy(l) => current[l] \in Wires
    /\ loop_at[l] = "map" => IsRequest(current[l])
    /\ loop_at[l] \in {"map", "finish"} =>
         /\ sessions[Author[current[l]]] # None
         /\ IsRequest(current[l]) => Holds(Author[current[l]], Inner[current[l]])

\* A request with the id e that names c was let through.
Named(c, e) == \E i \in RpcIds : Asked(c, e, i)

Mapping == \A e \in Events : event_to_client[e] # None => Named(event_to_client[e], e)

Calls ==
  \A r \in Callers : call[r].at # "idle" =>
    /\ admin_at = "idle"
    /\ call[r].event \in Events /\ call[r].client \in Clients
    /\ Named(call[r].client, call[r].event)
    /\ call[r].at = "publish" => call[r].id # None

Base == TypeOK /\ Locks /\ Received /\ Work /\ Mapping /\ Calls

------------------------------------------------------------------------------
(* What the operators on sessions and receivers do. *)

\* Touched adds the entry of a request and keeps all others.
LEMMA TouchedFields ==
  ASSUME NEW s \in Session \cup {None}, NEW w \in Wires
  PROVE  /\ Touched(s, w) \in Session
         /\ \A k \in Keys : Touched(s, w).pending_requests[k] =
              IF k = Inner[w] /\ IsRequest(w) THEN Message[w].id
              ELSE IF s = None THEN None ELSE s.pending_requests[k]
         /\ \A e \in Events : Touched(s, w).event_to_progress_token[e] =
              IF s = None THEN None ELSE s.event_to_progress_token[e]
<1> DEFINE x == w \in Wrapped
           b == IF s = None THEN NewSession(x) ELSE s
           t == [b EXCEPT !.elapsed = 0, !.is_encrypted = x]
<1>0. x \in BOOLEAN
  OBVIOUS
<1>6. Touched(s, w) = IF IsRequest(w)
                      THEN [t EXCEPT !.pending_requests[Inner[w]] = Message[w].id] ELSE t
  BY DEF Touched
<1> HIDE DEF x
<1>1. b \in Session
  BY <1>0, BoundsAssumption DEF NewSession, Session
<1>2. t \in Session /\ t.pending_requests = b.pending_requests
      /\ t.event_to_progress_token = b.event_to_progress_token
  <2> HIDE DEF b
  <2>1. 0 \in 0 .. SessionTimeout + 1
    BY BoundsAssumption
  <2>2. t \in Session
    BY <1>0, <1>1, <2>1, Zenon DEF Session
  <2>3. t.pending_requests = b.pending_requests
    BY <1>1 DEF Session
  <2>4. t.event_to_progress_token = b.event_to_progress_token
    BY <1>1 DEF Session
  <2> QED BY <2>2, <2>3, <2>4
<1>3. Inner[w] \in Events /\ Inner[w] \in Keys
      /\ (IsRequest(w) => Message[w].id \in RpcIds)
  BY TrafficAssumption DEF Keys, IsRequest
<1>4. \A k \in Keys : b.pending_requests[k] = IF s = None THEN None ELSE s.pending_requests[k]
  BY <1>1 DEF NewSession
<1>5. \A e \in Events : b.event_to_progress_token[e] =
        IF s = None THEN None ELSE s.event_to_progress_token[e]
  BY <1>1 DEF NewSession
<1> HIDE DEF t, b
<1>7. CASE IsRequest(w)
  <2>1. Touched(s, w) \in Session
        /\ Touched(s, w).pending_requests =
             [t.pending_requests EXCEPT ![Inner[w]] = Message[w].id]
        /\ Touched(s, w).event_to_progress_token = t.event_to_progress_token
    BY <1>2, <1>3, <1>6, <1>7 DEF Session
  <2>2. t.pending_requests \in [Keys -> RpcIds \cup Events \cup {None}]
    BY <1>2 DEF Session
  <2> QED BY <1>2, <1>3, <1>4, <1>5, <1>7, <2>1, <2>2
<1>8. CASE ~IsRequest(w)
  BY <1>2, <1>4, <1>5, <1>6, <1>8
<1> QED BY <1>7, <1>8

\* Finished adds a token's two entries and touches no key of an event.
LEMMA FinishedFields ==
  ASSUME NEW s \in Session, NEW w \in Wires
  PROVE  /\ Finished(s, w) \in Session
         /\ \A k \in Keys : Finished(s, w).pending_requests[k] =
              IF IsRequest(w) /\ Message[w].token # None /\ k = Message[w].token THEN Inner[w]
              ELSE s.pending_requests[k]
         /\ \A f \in Events : Finished(s, w).event_to_progress_token[f] =
              IF IsRequest(w) /\ Message[w].token # None /\ f = Inner[w] THEN Message[w].token
              ELSE s.event_to_progress_token[f]
<1> DEFINE e == Inner[w]
<1>1. e \in Events /\ Message[w].token \in Tokens \cup {None}
  BY TrafficAssumption
<1>2. s.pending_requests \in [Keys -> RpcIds \cup Events \cup {None}]
      /\ s.event_to_progress_token \in [Events -> Tokens \cup {None}]
  BY DEF Session
<1>3. CASE IsRequest(w) /\ Message[w].token # None
  <2> DEFINE t == Message[w].token
             u == [s EXCEPT !.pending_requests[t] = e, !.event_to_progress_token[e] = t]
  <2>1. Finished(s, w) = u
    BY <1>3 DEF Finished, IsRequest
  <2>2. t \in Tokens /\ e \in Events
    BY <1>1, <1>3
  <2> HIDE DEF t, e
  <2>3. u \in Session
    BY <2>2 DEF Session, Keys
  <2>4. u.pending_requests = [s.pending_requests EXCEPT ![t] = e]
    BY DEF Session
  <2>5. u.event_to_progress_token = [s.event_to_progress_token EXCEPT ![e] = t]
    BY DEF Session
  <2> HIDE DEF u
  <2>6. \A k \in Keys : u.pending_requests[k] = IF k = t THEN e ELSE s.pending_requests[k]
    BY <1>2, <2>4
  <2>7. \A f \in Events : u.event_to_progress_token[f] =
          IF f = e THEN t ELSE s.event_to_progress_token[f]
    BY <1>2, <2>5
  <2> QED BY <1>3, <2>1, <2>3, <2>6, <2>7 DEF t, e
<1>4. CASE ~(IsRequest(w) /\ Message[w].token # None)
  <2>1. Finished(s, w) \in {s, [s EXCEPT !.is_initialized = TRUE]}
    BY <1>4 DEF Finished, IsRequest
  <2>2. /\ Finished(s, w) \in Session
        /\ Finished(s, w).pending_requests = s.pending_requests
        /\ Finished(s, w).event_to_progress_token = s.event_to_progress_token
    BY <2>1 DEF Session
  <2> QED BY <1>4, <2>2
<1> QED BY <1>3, <1>4

\* Forgotten removes the keys of the event and of its token, and no other.
LEMMA ForgottenFields ==
  ASSUME NEW s \in Session, NEW e \in Events
  PROVE  /\ Forgotten(s, e) \in Session
         /\ \A k \in Keys : Forgotten(s, e).pending_requests[k] =
              IF k = e \/ k = s.event_to_progress_token[e] THEN None ELSE s.pending_requests[k]
         /\ \A f \in Events : Forgotten(s, e).event_to_progress_token[f] =
              IF f = e THEN None ELSE s.event_to_progress_token[f]
<1>1. None \notin Keys
  BY SetsAssumption DEF Keys
<1>2. s.pending_requests \in [Keys -> RpcIds \cup Events \cup {None}]
      /\ s.event_to_progress_token \in [Events -> Tokens \cup {None}]
  BY DEF Session
<1> DEFINE t == s.event_to_progress_token[e]
           gone == {e} \cup (IF t = None THEN {} ELSE {t})
<1>3. Forgotten(s, e) \in Session
      /\ Forgotten(s, e).pending_requests =
           [k \in Keys |-> IF k \in gone THEN None ELSE s.pending_requests[k]]
      /\ Forgotten(s, e).event_to_progress_token = [s.event_to_progress_token EXCEPT ![e] = None]
  BY <1>2 DEF Forgotten, Session
<1>4. \A k \in Keys : k \in gone <=> k = e \/ k = t
  BY <1>1
<1> QED BY <1>2, <1>3, <1>4

\* Nothing is in an empty receiver.
LEMMA EmptyFeed == \A x : ~Queued(<<>>, x) /\ Distinct(<<>>)
BY DEF Queued, Distinct

\* No guard is held when lock says None: a task is not None.
LEMMA TaskIsSome ==
  \A l \in Loops : <<"loop", l>> # None /\ <<"cleaner", l>> # None
BY AbsentAssumption DEF Tasks

\* Time passing changes nothing a session is asked for.
LEMMA AgedFields ==
  ASSUME NEW s \in Session, ~Expired(s)
  PROVE  /\ [s EXCEPT !.elapsed = @ + 1] \in Session
         /\ [s EXCEPT !.elapsed = @ + 1].pending_requests = s.pending_requests
         /\ [s EXCEPT !.elapsed = @ + 1].event_to_progress_token = s.event_to_progress_token
<1>1. s.elapsed + 1 \in 0 .. SessionTimeout + 1
  BY AbsentAssumption, BoundsAssumption DEF Session, Expired
<1>2. [s EXCEPT !.elapsed = @ + 1] \in Session
  BY <1>1, Zenon DEF Session
<1> QED BY <1>2 DEF Session

\* Time passing changes no entry of a session and removes none.
LEMMA TickKeeps ==
  ASSUME TypeOK, Tick
  PROVE  \A c \in Clients :
           /\ sessions'[c] = None <=> sessions[c] = None
           /\ sessions[c] # None =>
                /\ sessions'[c].pending_requests = sessions[c].pending_requests
                /\ sessions'[c].event_to_progress_token = sessions[c].event_to_progress_token
BY AgedFields, AbsentAssumption DEF TypeOK, Tick
------------------------------------------------------------------------------
(* Base is inductive: one lemma per conjunct, one step per action. *)

\* Types: one step per action.
LEMMA TypeStep ==
  ASSUME Base, Next
  PROVE  TypeOK'
<1>0. TypeOK
  BY DEF Base
<1>1. ASSUME NEW w \in Wires, Deliver(w)
      PROVE  TypeOK'
  <2>1. feed' \in [Loops -> Seq(Wires)]
    BY <1>0, <1>1, PushSound DEF TypeOK, Deliver
  <2>2. lagged' \in [Loops -> BOOLEAN]
    BY <1>1, Zenon DEF Deliver
  <2> QED BY <1>0, <1>1, <2>1, <2>2 DEF TypeOK, Deliver, shared, tasks, ghosts
<1>2. ASSUME Tick
      PROVE  TypeOK'
  <2>1. sessions' \in [Clients -> Session \cup {None}]
    BY <1>0, <1>2, AgedFields, Zenon DEF TypeOK, Tick
  <2> QED BY <1>0, <1>2, <2>1 DEF TypeOK, Tick, input, tasks, ghosts
<1>3. ASSUME NEW l \in Loops, LoopSubscribe(l)
      PROVE  TypeOK'
  BY <1>0, <1>3 DEF TypeOK, LoopSubscribe, shared, input, ghosts
<1>4. ASSUME NEW l \in Loops, LoopRecv(l)
      PROVE  TypeOK'
  <2>1. Head(feed[l]) \in Wires /\ Tail(feed[l]) \in Seq(Wires)
    BY <1>0, <1>4 DEF TypeOK, LoopRecv
  <2>2. feed' \in [Loops -> Seq(Wires)]
    BY <1>0, <1>4, <2>1 DEF TypeOK, LoopRecv
  <2>3. loop_at' \in [Loops -> {"off", "spawned", "recv", "track", "map", "finish",
                                "forward", "ended"}]
    BY <1>0, <1>4 DEF TypeOK, LoopRecv
  <2>4. current' \in [Loops -> Wires \cup {None}]
    BY <1>0, <1>4, <2>1 DEF TypeOK, LoopRecv
  <2> QED BY <1>0, <1>4, <2>2, <2>3, <2>4 DEF TypeOK, LoopRecv, shared, ghosts
<1>5. ASSUME NEW l \in Loops, LoopLag(l)
      PROVE  TypeOK'
  BY <1>0, <1>5 DEF TypeOK, LoopLag, shared, ghosts
<1>6. ASSUME NEW l \in Loops, LoopTrack(l)
      PROVE  TypeOK'
  <2>1. current[l] \in Wires /\ Author[current[l]] \in Clients
    BY <1>6, TrafficAssumption DEF Base, Work, Busy, LoopTrack
  <2>2. Touched(sessions[Author[current[l]]], current[l]) \in Session
    BY <1>0, <2>1, TouchedFields DEF TypeOK
  <2>3. sessions' \in [Clients -> Session \cup {None}]
    BY <1>0, <1>6, <2>2 DEF TypeOK, LoopTrack
  <2>4. lock' \in [{"sessions", "event_to_client"} -> Tasks \cup {None}]
    BY <1>0, <1>6 DEF TypeOK, LoopTrack, Tasks
  <2> QED BY <1>0, <1>6, <2>3, <2>4 DEF TypeOK, LoopTrack, input, ghosts
<1>7. ASSUME NEW l \in Loops, LoopMap(l)
      PROVE  TypeOK'
  <2>1. Inner[current[l]] \in Events /\ Author[current[l]] \in Clients
    BY <1>7, TrafficAssumption DEF Base, Work, Busy, LoopMap
  <2> QED BY <1>0, <1>7, <2>1 DEF TypeOK, LoopMap, Mapped, input
<1>8. ASSUME NEW l \in Loops, LoopFinish(l)
      PROVE  TypeOK'
  <2> DEFINE w == current[l]
  <2>1. w \in Wires /\ Author[w] \in Clients /\ sessions[Author[w]] # None
    BY <1>8, TrafficAssumption DEF Base, Work, Busy, LoopFinish
  <2>2. Finished(sessions[Author[w]], w) \in Session
    BY <1>0, <2>1, FinishedFields DEF TypeOK
  <2>3. sessions' \in [Clients -> Session \cup {None}]
    BY <1>0, <1>8, <2>2 DEF TypeOK, LoopFinish
  <2> QED BY <1>0, <1>8, <2>3 DEF TypeOK, LoopFinish, input, ghosts
<1>9. ASSUME NEW l \in Loops, LoopForward(l)
      PROVE  TypeOK'
  <2>1. forwarded' \in [Wires -> Nat]
    BY <1>0, <1>9 DEF TypeOK, LoopForward, Base, Work, Busy
  <2>2. current' \in [Loops -> Wires \cup {None}]
    BY <1>0, <1>9 DEF TypeOK, LoopForward
  <2> QED BY <1>0, <1>9, <2>1, <2>2 DEF TypeOK, LoopForward, shared, input, ghosts
<1>10. ASSUME NEW l \in Loops, CleanAcquire(l)
       PROVE  TypeOK'
  <2>1. lock' \in [{"sessions", "event_to_client"} -> Tasks \cup {None}]
    BY <1>0, <1>10 DEF TypeOK, CleanAcquire, CleanupOrder, Tasks
  <2> QED BY <1>0, <1>10, <2>1 DEF TypeOK, CleanAcquire, input, ghosts
<1>11. ASSUME NEW l \in Loops, CleanExpire(l)
       PROVE  TypeOK'
  <2>1. sessions' \in [Clients -> Session \cup {None}]
    BY <1>0, <1>11 DEF TypeOK, CleanExpire
  <2>2. event_to_client' \in [Events -> Clients \cup {None}]
    BY <1>0, <1>11 DEF TypeOK, CleanExpire
  <2>3. lock' \in [{"sessions", "event_to_client"} -> Tasks \cup {None}]
    BY <1>0, <1>11 DEF TypeOK, CleanExpire, CleanupOrder
  <2>4. owed' \subseteq Events /\ lapsed' \subseteq Events
    BY <1>0, <1>11 DEF TypeOK, CleanExpire, Swept
  <2> QED BY <1>0, <1>11, <2>1, <2>2, <2>3, <2>4 DEF TypeOK, CleanExpire, input
<1>12. ASSUME NEW l \in Loops, Start(l)
       PROVE  TypeOK'
  BY <1>0, <1>12 DEF TypeOK, Start, shared, ghosts
<1>13. ASSUME NEW r \in Callers, NEW e \in Events, CallLookup(r, e)
       PROVE  TypeOK'
  <2>1. [Idle EXCEPT !.at = "session", !.event = e, !.client = event_to_client[e]] \in Call
    BY <1>0, <1>13 DEF TypeOK, Idle, Call
  <2> QED BY <1>0, <1>13, <2>1 DEF TypeOK, CallLookup, Set, shared, input, tasks, ghosts
<1>14. ASSUME NEW r \in Callers, CallSession(r)
       PROVE  TypeOK'
  <2> DEFINE c == call[r]
             s == sessions[c.client]
  <2>1. c \in Call /\ c.event \in Events /\ c.event \in Keys /\ c.client \in Clients
    BY <1>0, <1>14 DEF TypeOK, Base, Calls, CallSession, Keys
  <2>2. ASSUME s # None
        PROVE  [c EXCEPT !.at = "publish", !.id = RestoredId(s, c.event),
                         !.enc = s.is_encrypted] \in Call
    <3>1. s \in Session
      BY <1>0, <2>1, <2>2 DEF TypeOK
    <3>2. RestoredId(s, c.event) \in RpcIds \cup Events \cup {AppId, None}
      BY <2>1, <3>1 DEF RestoredId, Session
    <3>3. s.is_encrypted \in BOOLEAN
      BY <3>1 DEF Session
    <3> QED BY <2>1, <3>2, <3>3 DEF Call
  <2>3. Idle \in Call
    BY DEF Idle, Call
  <2>4. call' \in [Callers -> Call]
    BY <1>0, <1>14, <2>2, <2>3 DEF TypeOK, CallSession, Set
  <2> QED BY <1>0, <1>14, <2>4 DEF TypeOK, CallSession, shared, input, tasks, ghosts
<1>15. ASSUME NEW r \in Callers, CallPublish(r)
       PROVE  TypeOK'
  <2> DEFINE c == call[r]
             m == [event |-> c.event, to |-> c.client, id |-> c.id,
                   encrypted |-> ShouldEncrypt(c.enc)]
  <2>1. c \in Call /\ c.event \in Events /\ c.client \in Clients /\ c.id # None
    BY <1>0, <1>15 DEF TypeOK, Base, Calls, CallPublish
  <2>2. m \in Response
    <3>1. ShouldEncrypt(c.enc) \in BOOLEAN
      BY DEF ShouldEncrypt
    <3>2. c.id \in RpcIds \cup Events \cup {AppId}
      BY <2>1 DEF Call
    <3> QED BY <2>1, <3>1, <3>2 DEF Response
  <2>3. Idle \in Call /\ [c EXCEPT !.at = "forget"] \in Call
    BY <2>1 DEF Idle, Call
  <2> HIDE DEF m
  <2>4. outbox' \subseteq Response /\ acked' \subseteq Events /\ owed' \subseteq Events
    BY <1>0, <1>15, <2>1, <2>2 DEF TypeOK, CallPublish, m
  <2>5. call' \in [Callers -> Call]
    BY <1>0, <1>15, <2>3 DEF TypeOK, CallPublish, AfterPublish, Set
  <2> QED BY <1>0, <1>15, <2>4, <2>5 DEF TypeOK, CallPublish, shared, input, tasks
<1>16. ASSUME NEW r \in Callers, CallForget(r)
       PROVE  TypeOK'
  <2> DEFINE c == call[r]
  <2>1. c \in Call /\ c.event \in Events /\ c.client \in Clients
    BY <1>0, <1>16 DEF TypeOK, Base, Calls, CallForget
  <2>2. sessions' \in [Clients -> Session \cup {None}]
    BY <1>0, <1>16, <2>1, ForgottenFields DEF TypeOK, CallForget
  <2>3. [c EXCEPT !.at = "unmap"] \in Call
    BY <2>1 DEF Call
  <2> QED BY <1>0, <1>16, <2>2, <2>3 DEF TypeOK, CallForget, Set, input, tasks, ghosts
<1>17. ASSUME NEW r \in Callers, CallUnmap(r)
       PROVE  TypeOK'
  <2>1. Idle \in Call
    BY DEF Idle, Call
  <2> QED BY <1>0, <1>17, <2>1 DEF TypeOK, CallUnmap, Set, input, tasks, ghosts
<1>18. ASSUME NEW r \in Callers, Cancel(r)
       PROVE  TypeOK'
  <2>1. Idle \in Call
    BY DEF Idle, Call
  <2> QED BY <1>0, <1>18, <2>1 DEF TypeOK, Cancel, Set, shared, input, tasks, ghosts
<1>19. ASSUME StartFails \/ Close
       PROVE  TypeOK'
  BY <1>0, <1>19 DEF TypeOK, StartFails, Close, shared, tasks, ghosts
<1>20. ASSUME CloseSessions \/ CloseMap
       PROVE  TypeOK'
  BY <1>0, <1>20 DEF TypeOK, CloseSessions, CloseMap, input, tasks
<1> QED BY <1>1, <1>2, <1>3, <1>4, <1>5, <1>6, <1>7, <1>8, <1>9, <1>10, <1>11, <1>12,
           <1>13, <1>14, <1>15, <1>16, <1>17, <1>18, <1>19, <1>20
        DEF Next, Running, Admin, LoopStep, CleanStep, CallStep

\* Only the steps that take or drop a guard, or move a loop or a cleanup between
\* places, touch Locks.
LEMMA LocksStep ==
  ASSUME Base, Next
  PROVE  Locks'
<1>0. Locks /\ TypeOK
  BY DEF Base
<1>1. ASSUME NEW l \in Loops, LoopTrack(l)
      PROVE  Locks'
  <2>1. lock["sessions"] = None
    BY <1>1 DEF LoopTrack, Free
  <2>2. \A k \in Loops : loop_at[k] \notin {"map", "finish"} /\ clean_at[k] # "locked"
    BY <1>0, <2>1, TaskIsSome DEF Locks
  <2> QED BY <1>0, <1>1, <2>2 DEF Locks, TypeOK, LoopTrack
<1>2. ASSUME NEW l \in Loops, CleanAcquire(l)
      PROVE  Locks'
  <2>1. lock["sessions"] = None
    BY <1>2 DEF CleanAcquire, CleanupOrder, Free
  <2>2. \A k \in Loops : loop_at[k] \notin {"map", "finish"} /\ clean_at[k] # "locked"
    BY <1>0, <2>1, TaskIsSome DEF Locks
  <2> QED BY <1>0, <1>2, <2>2 DEF Locks, TypeOK, CleanAcquire, CleanupOrder
<1>3. ASSUME NEW l \in Loops, LoopFinish(l)
      PROVE  Locks'
  <2>1. lock["sessions"] = <<"loop", l>>
    BY <1>0, <1>3 DEF Locks, LoopFinish
  <2>2. \A k \in Loops : /\ k # l => loop_at[k] \notin {"map", "finish"}
                         /\ clean_at[k] # "locked"
    BY <1>0, <2>1, TaskIsSome DEF Locks
  <2> QED BY <1>0, <1>3, <2>2 DEF Locks, TypeOK, LoopFinish
<1>4. ASSUME NEW l \in Loops, CleanExpire(l)
      PROVE  Locks'
  <2>1. lock["sessions"] = <<"cleaner", l>>
    BY <1>0, <1>4 DEF Locks, CleanExpire
  <2>2. \A k \in Loops : /\ loop_at[k] \notin {"map", "finish"}
                         /\ k # l => clean_at[k] # "locked"
    BY <1>0, <2>1, TaskIsSome DEF Locks
  <2> QED BY <1>0, <1>4, <2>2 DEF Locks, TypeOK, CleanExpire, CleanupOrder
<1>5. ASSUME NEW l \in Loops,
             LoopSubscribe(l) \/ LoopRecv(l) \/ LoopLag(l) \/ LoopMap(l) \/ LoopForward(l)
                              \/ Start(l)
      PROVE  Locks'
  BY <1>0, <1>5 DEF Locks, TypeOK, LoopSubscribe, LoopRecv, LoopLag, LoopMap, LoopForward,
                    Start, shared
<1>6. ASSUME UNCHANGED <<lock, loop_at, clean_at>>
      PROVE  Locks'
  BY <1>0, <1>6 DEF Locks
<1> QED BY <1>1, <1>2, <1>3, <1>4, <1>5, <1>6
        DEF Next, Running, Admin, LoopStep, CleanStep, CallStep, Deliver, Tick, CallLookup, CallSession,
            CallPublish, CallForget, CallUnmap, Cancel, StartFails, Close, CloseSessions,
            CloseMap, shared, tasks

\* While nobody or a cleanup holds the sessions guard no loop is inside its
\* critical section, and there is never more than one.
LEMMA Exclusion ==
  ASSUME Locks
  PROVE  /\ Free("sessions") => \A k \in Loops : loop_at[k] \notin {"map", "finish"}
         /\ \A l, k \in Loops : clean_at[l] = "locked" => loop_at[k] \notin {"map", "finish"}
         /\ \A l, k \in Loops : loop_at[l] \in {"map", "finish"} /\ l # k
                                  => loop_at[k] \notin {"map", "finish"}
BY TaskIsSome DEF Locks, Free

\* A loop that holds the sessions guard keeps its session and its tracked request.
LEMMA WorkStep ==
  ASSUME Base, Next
  PROVE  Work'
<1>0. Work /\ TypeOK /\ Locks
  BY DEF Base
<1> DEFINE Untouched == \A l \in Loops : loop_at[l] \notin {"map", "finish"}
<1>1. ASSUME NEW l \in Loops, LoopTrack(l)
      PROVE  Work'
  <2> DEFINE w == current[l]
  <2>1. Untouched
    BY <1>0, <1>1, Exclusion DEF LoopTrack
  <2>2. w \in Wires /\ Inner[w] \in Events /\ Inner[w] \in Keys /\ Author[w] \in Clients
    BY <1>0, <1>1, TrafficAssumption DEF Work, Busy, Busy, LoopTrack, Keys
  <2>3. sessions'[Author[w]] = Touched(sessions[Author[w]], w)
    BY <1>0, <1>1, <2>2 DEF TypeOK, LoopTrack
  <2>4. sessions[Author[w]] \in Session \cup {None}
    BY <1>0, <2>2 DEF TypeOK
  <2>6. IsRequest(w) => Message[w].id # None
    BY <2>2, SetsAssumption, TrafficAssumption DEF IsRequest
  <2>7. /\ Touched(sessions[Author[w]], w) \in Session
        /\ IsRequest(w) =>
             Touched(sessions[Author[w]], w).pending_requests[Inner[w]] = Message[w].id
    BY <2>2, <2>4, TouchedFields
  <2>5. sessions'[Author[w]] # None
        /\ (IsRequest(w) => sessions'[Author[w]].pending_requests[Inner[w]] # None)
    BY <2>3, <2>6, <2>7, AbsentAssumption
  <2> QED BY <1>0, <1>1, <2>1, <2>2, <2>5
          DEF Work, Busy, TypeOK, LoopTrack, Holds, IsRequest
<1>2. ASSUME NEW l \in Loops, LoopRecv(l)
      PROVE  Work'
  <2>1. Head(feed[l]) \in Wires
    BY <1>0, <1>2 DEF TypeOK, LoopRecv
  <2>2. /\ current'[l] \in {current[l], Head(feed[l])} /\ loop_at'[l] \in {"recv", "track"}
        /\ loop_at'[l] = "track" => current'[l] = Head(feed[l])
        /\ \A k \in Loops : k # l => current'[k] = current[k] /\ loop_at'[k] = loop_at[k]
        /\ sessions' = sessions
    BY <1>0, <1>2 DEF TypeOK, LoopRecv, shared
  <2> QED BY <1>0, <2>1, <2>2 DEF Work, Busy, Holds, IsRequest
<1>3. ASSUME NEW l \in Loops,
             LoopSubscribe(l) \/ LoopLag(l) \/ LoopMap(l) \/ LoopForward(l) \/ Start(l)
      PROVE  Work'
  BY <1>0, <1>3 DEF Work, Busy, TypeOK, LoopSubscribe, LoopLag, LoopMap, LoopForward, Start,
                    shared, Holds, IsRequest
<1>4. ASSUME NEW l \in Loops, LoopFinish(l)
      PROVE  Work'
  <2>1. \A k \in Loops : loop_at'[k] \notin {"map", "finish"}
    BY <1>0, <1>4, Exclusion DEF TypeOK, LoopFinish
  <2> QED BY <1>0, <1>4, <2>1 DEF Work, Busy, TypeOK, LoopFinish
<1>5. ASSUME UNCHANGED <<loop_at, current>>, Untouched
      PROVE  Work'
  BY <1>0, <1>5 DEF Work, Busy
<1>6. ASSUME UNCHANGED <<loop_at, current, sessions>>
      PROVE  Work'
  BY <1>0, <1>6 DEF Work, Busy, Holds, IsRequest
<1>7. ASSUME Tick
      PROVE  Work'
  <2>1. \A c \in Clients : /\ sessions'[c] = None <=> sessions[c] = None
                           /\ sessions[c] # None =>
                                sessions'[c].pending_requests = sessions[c].pending_requests
    BY <1>0, <1>7, TickKeeps
  <2> QED BY <1>0, <1>7, <2>1, TrafficAssumption
          DEF Work, Busy, Tick, tasks, Holds, IsRequest
<1>8. ASSUME NEW l \in Loops, CleanAcquire(l) \/ CleanExpire(l)
      PROVE  Work'
  <2>1. CASE CleanAcquire(l)
    BY <1>6, <2>1 DEF CleanAcquire
  <2>2. CASE CleanExpire(l)
    <3>1. Untouched
      BY <1>0, <2>2, Exclusion DEF CleanExpire
    <3> QED BY <1>5, <2>2, <3>1 DEF CleanExpire
  <2> QED BY <1>8, <2>1, <2>2
<1>9. ASSUME NEW r \in Callers, CallForget(r)
      PROVE  Work'
  <2>1. Untouched
    BY <1>0, <1>9, Exclusion DEF CallForget
  <2> QED BY <1>5, <1>9, <2>1 DEF CallForget, tasks
<1>10. ASSUME CloseSessions
       PROVE  Work'
  <2>1. Untouched
    BY <1>0, <1>10, Exclusion DEF CloseSessions
  <2> QED BY <1>5, <1>10, <2>1 DEF CloseSessions, tasks
<1> QED BY <1>1, <1>2, <1>3, <1>4, <1>6, <1>7, <1>8, <1>9, <1>10
        DEF Next, Running, Admin, LoopStep, CleanStep, CallStep, Deliver, CallLookup, CallSession,
            CallPublish, CallUnmap, Cancel, StartFails, Close, CloseMap, shared, tasks

\* What has arrived stays, and with it whoever asked for something.
LEMMA ArrivedGrows ==
  ASSUME [Next]_vars
  PROVE  arrived \subseteq arrived'
BY DEF Next, Running, Admin, Deliver, Tick, LoopStep, LoopSubscribe, LoopRecv, LoopLag,
       LoopTrack, LoopMap, LoopFinish, LoopForward, CleanStep, CleanAcquire, CleanExpire,
       CallStep, CallSession, CallPublish, CallForget, CallUnmap, Cancel, CallLookup,
       Start, StartFails, Close, CloseSessions, CloseMap, input, vars

\* Who has asked for something has asked for it for good.
LEMMA AskedStays ==
  ASSUME [Next]_vars
  PROVE  \A c, e, i : Asked(c, e, i) => Asked(c, e, i)'
BY ArrivedGrows DEF Asked, Admitted, IsRequest

\* The same without the JSON-RPC id.
LEMMA NamedStays ==
  ASSUME [Next]_vars
  PROVE  \A c, e : Named(c, e) => Named(c, e)'
BY AskedStays DEF Named

\* A request that a loop works on makes its client one that has asked.
LEMMA WireNames ==
  ASSUME Received, NEW l \in Loops, Busy(l), IsRequest(current[l]), TypeOK
  PROVE  /\ current[l] \in Wires /\ Inner[current[l]] \in Events
         /\ Author[current[l]] \in Clients /\ Message[current[l]].id \in RpcIds
         /\ Asked(Author[current[l]], Inner[current[l]], Message[current[l]].id)
         /\ Named(Author[current[l]], Inner[current[l]])
<1>1. current[l] \in arrived /\ Admitted(current[l]) /\ current[l] \in Wires
  BY DEF Received, TypeOK
<1>2. /\ Inner[current[l]] \in Events /\ Author[current[l]] \in Clients
      /\ Message[current[l]].id \in RpcIds
  BY <1>1, TrafficAssumption DEF IsRequest
<1>3. Asked(Author[current[l]], Inner[current[l]], Message[current[l]].id)
  BY <1>1 DEF Asked
<1> QED BY <1>1, <1>2, <1>3 DEF Named

\* An event is mapped to a client that has asked under its id, after every step.
LEMMA MappingStep ==
  ASSUME Base, Next
  PROVE  Mapping'
<1>0. Mapping /\ TypeOK /\ Received /\ Work
  BY DEF Base
<1>1. ASSUME NEW l \in Loops, LoopMap(l)
      PROVE  Mapping'
  <2>1. /\ current[l] \in Wires
        /\ Named(Author[current[l]], Inner[current[l]])
    BY <1>0, <1>1, WireNames DEF LoopMap, Busy, Work
  <2>2. \A e \in Events : event_to_client'[e] =
          IF e = Inner[current[l]] THEN Author[current[l]] ELSE event_to_client[e]
    BY <1>0, <1>1 DEF LoopMap, Mapped, TypeOK
  <2> QED BY <1>0, <2>1, <2>2, NamedStays DEF Mapping
<1>2. ASSUME \A e \in Events : event_to_client'[e] \in {None, event_to_client[e]}
      PROVE  Mapping'
  BY <1>0, <1>2, NamedStays DEF Mapping
<1>3. ASSUME \/ \E l \in Loops : CleanExpire(l)
             \/ \E r \in Callers : CallUnmap(r)
             \/ CloseMap \/ UNCHANGED event_to_client
      PROVE  \A e \in Events : event_to_client'[e] \in {None, event_to_client[e]}
  BY <1>0, <1>3 DEF TypeOK, CleanExpire, CallUnmap, CloseMap
<1> QED BY <1>1, <1>2, <1>3
        DEF Next, Running, Admin, LoopStep, CleanStep, CallStep, Deliver, Tick, LoopSubscribe, LoopRecv,
            LoopLag, LoopTrack, LoopFinish, LoopForward, CleanAcquire, Start, CallLookup,
            CallSession, CallPublish, CallForget, Cancel, StartFails, Close, CloseSessions,
            shared

\* A call keeps a client that has asked for its event through all its sections.
LEMMA CallsStep ==
  ASSUME Base, Next
  PROVE  Calls'
<1>0. Calls /\ TypeOK /\ Mapping
  BY DEF Base
<1>1. ASSUME NEW r \in Callers, NEW e \in Events, CallLookup(r, e)
      PROVE  Calls'
  <2>1. event_to_client[e] \in Clients /\ Named(event_to_client[e], e)
    BY <1>0, <1>1 DEF Mapping, CallLookup, TypeOK
  <2>2. /\ call'[r].event = e /\ call'[r].client = event_to_client[e] /\ call'[r].at = "session"
        /\ \A q \in Callers : q # r => call'[q] = call[q]
        /\ admin_at = "idle" /\ admin_at' = "idle"
    BY <1>0, <1>1 DEF TypeOK, CallLookup, Set, Idle
  <2> QED BY <1>0, <2>1, <2>2, NamedStays DEF Calls
<1>2. ASSUME NEW r \in Callers, CallSession(r)
      PROVE  Calls'
  <2> DEFINE s == sessions[call[r].client]
  <2>1. call[r] \in Call /\ call[r].event \in Events /\ call[r].client \in Clients
        /\ Named(call[r].client, call[r].event) /\ admin_at = "idle" /\ admin_at' = "idle"
    BY <1>0, <1>2 DEF Calls, TypeOK, CallSession
  <2>2. RestoredId(s, call[r].event) # None
    BY SetsAssumption DEF RestoredId
  <2>3. /\ \A q \in Callers : q # r => call'[q] = call[q]
        /\ \/ call'[r].at = "idle"
           \/ /\ call'[r].event = call[r].event /\ call'[r].client = call[r].client
              /\ call'[r].id # None
    BY <1>0, <1>2, <2>1, <2>2 DEF TypeOK, CallSession, Set, Idle, Call
  <2> QED BY <1>0, <2>1, <2>3, NamedStays DEF Calls
<1>3. ASSUME NEW r \in Callers, CallPublish(r) \/ CallForget(r) \/ CallUnmap(r) \/ Cancel(r)
      PROVE  Calls'
  <2>1. call[r].at # "idle" /\ call[r] \in Call /\ UNCHANGED admin_at
    BY <1>0, <1>3 DEF TypeOK, CallPublish, CallForget, CallUnmap, Cancel
  <2>2. CASE call' = [call EXCEPT ![r] = Idle]
    <3>1. call'[r].at = "idle" /\ \A q \in Callers : q # r => call'[q] = call[q]
      BY <1>0, <2>2 DEF TypeOK, Idle
    <3> QED BY <1>0, <2>1, <3>1, NamedStays DEF Calls
  <2>3. ASSUME NEW a \in {"forget", "unmap"}, call' = [call EXCEPT ![r] = [call[r] EXCEPT !.at = a]]
        PROVE  Calls'
    <3>1. /\ call'[r].event = call[r].event /\ call'[r].client = call[r].client
          /\ call'[r].at # "publish" /\ \A q \in Callers : q # r => call'[q] = call[q]
      BY <1>0, <2>1, <2>3 DEF TypeOK, Call
    <3> QED BY <1>0, <2>1, <3>1, NamedStays DEF Calls
  <2> QED BY <1>3, <2>2, <2>3 DEF CallPublish, AfterPublish, CallForget, CallUnmap, Cancel, Set
<1>4. ASSUME UNCHANGED <<call, admin_at>>
      PROVE  Calls'
  BY <1>0, <1>4, NamedStays DEF Calls
<1>5. ASSUME Close \/ CloseSessions \/ CloseMap
      PROVE  Calls'
  BY <1>0, <1>5 DEF Calls, Close, CloseSessions, CloseMap, Exclusive
<1> QED BY <1>1, <1>2, <1>3, <1>4, <1>5
        DEF Next, Running, Admin, LoopStep, CleanStep, CallStep, Deliver, Tick, LoopSubscribe, LoopRecv,
            LoopLag, LoopTrack, LoopMap, LoopFinish, LoopForward, CleanAcquire,
            CleanExpire, Start, StartFails

\* Only these steps touch a receiver, what a loop is busy with, or what was forwarded.
Still == /\ UNCHANGED <<arrived, feed, current, forwarded>>
         /\ \A l \in Loops : (Busy(l)' => Busy(l)) /\ (On(l) => On(l)')

\* All other actions are still.
LEMMA StillStep ==
  ASSUME TypeOK, [Next]_vars
  PROVE  \/ Still
         \/ \E w \in Wires : Deliver(w)
         \/ \E l \in Loops : LoopRecv(l) \/ LoopLag(l) \/ LoopForward(l)
<1>1. ASSUME NEW l \in Loops,
             LoopSubscribe(l) \/ LoopTrack(l) \/ LoopMap(l) \/ LoopFinish(l) \/ Start(l)
      PROVE  Still
  BY <1>1 DEF TypeOK, LoopSubscribe, LoopTrack, LoopMap, LoopFinish, Start, Still, Busy, On,
              input
<1>2. ASSUME NEW l \in Loops, CleanStep(l)
      PROVE  Still
  BY <1>2 DEF CleanStep, CleanAcquire, CleanExpire, Still, Busy, On, input
<1>3. ASSUME NEW r \in Callers, CallStep(r) \/ Cancel(r) \/ \E e \in Events : CallLookup(r, e)
      PROVE  Still
  BY <1>3 DEF CallStep, CallSession, CallPublish, CallForget, CallUnmap, Cancel, CallLookup,
              Still, Busy, On, input, tasks
<1>4. ASSUME Tick \/ CloseSessions \/ CloseMap \/ StartFails \/ Close \/ UNCHANGED vars
      PROVE  Still
  BY <1>4 DEF Tick, CloseSessions, CloseMap, StartFails, Close, vars, Still, Busy, On,
              input, tasks
<1> QED BY <1>1, <1>2, <1>3, <1>4 DEF Next, Running, Admin, LoopStep

\* What a receiver holds or a loop is busy with has arrived, and was let through.
LEMMA ReceivedStep ==
  ASSUME TypeOK, Received, [Next]_vars
  PROVE  Received'
<1>0. arrived \subseteq arrived'
  BY ArrivedGrows
<1>1. \A w : Admitted(w)' = Admitted(w)
  BY DEF Admitted
<1>2. ASSUME Still
      PROVE  Received'
  BY <1>1, <1>2 DEF Still, Received
<1>3. ASSUME NEW w \in Wires, Deliver(w)
      PROVE  Received'
  <2>1. /\ arrived' = arrived \cup {w} /\ UNCHANGED <<current, loop_at>>
        /\ \A l \in Loops : feed'[l] = feed[l] \/ feed'[l] = Push(feed[l], w)
    BY <1>3 DEF Deliver, tasks
  <2>2. ASSUME NEW l \in Loops, NEW x \in Wires, Queued(feed'[l], x)
        PROVE  x \in arrived'
    <3>1. feed[l] \in Seq(Wires) /\ (Queued(feed[l], x) => x \in arrived)
      BY DEF TypeOK, Received
    <3>2. CASE feed'[l] = feed[l]
      BY <2>1, <2>2, <3>1, <3>2
    <3>3. CASE feed'[l] = Push(feed[l], w)
      <4>1. Queued(Push(feed[l], w), x) => Queued(feed[l], x) \/ x = w
        BY <3>1, PushSound
      <4> QED BY <2>1, <2>2, <3>1, <3>3, <4>1
    <3> QED BY <2>1, <3>2, <3>3
  <2> QED BY <1>1, <2>1, <2>2 DEF Received, Busy
<1>4. ASSUME NEW l \in Loops, LoopRecv(l)
      PROVE  Received'
  <2> DEFINE w == Head(feed[l])
  <2>1. /\ feed[l] \in Seq(Wires) /\ feed[l] # <<>> /\ feed'[l] = Tail(feed[l])
        /\ UNCHANGED arrived /\ (Busy(l)' => current'[l] = w /\ Admitted(w))
        /\ \A k \in Loops : k # l => /\ feed'[k] = feed[k] /\ current'[k] = current[k]
                                     /\ Busy(k)' = Busy(k)
    BY <1>4 DEF LoopRecv, TypeOK, Busy
  <2>2. w \in Wires /\ Queued(feed[l], w) /\ \A x : Queued(feed'[l], x) => Queued(feed[l], x)
    BY <2>1, TailSound
  <2> HIDE DEF w
  <2> QED BY <1>1, <2>1, <2>2 DEF Received
<1>5. ASSUME NEW l \in Loops, LoopLag(l)
      PROVE  Received'
  <2>1. /\ feed'[l] = <<>> /\ ~Busy(l)' /\ UNCHANGED <<arrived, current>>
        /\ \A k \in Loops : k # l => feed'[k] = feed[k] /\ Busy(k)' = Busy(k)
    BY <1>5 DEF LoopLag, TypeOK, Busy
  <2> QED BY <1>1, <2>1, EmptyFeed DEF Received
<1>6. ASSUME NEW l \in Loops, LoopForward(l)
      PROVE  Received'
  <2>1. /\ ~Busy(l)' /\ UNCHANGED <<arrived, feed>>
        /\ \A k \in Loops : k # l => current'[k] = current[k] /\ Busy(k)' = Busy(k)
    BY <1>6 DEF LoopForward, TypeOK, Busy, input
  <2> QED BY <1>1, <2>1 DEF Received
<1> QED BY <1>2, <1>3, <1>4, <1>5, <1>6, StillStep

\* The basic invariant holds at first.
LEMMA BaseInit == Init => Base
<1> SUFFICES ASSUME Init
             PROVE  Base
  OBVIOUS
<1>1. TypeOK
  <2>1. Idle \in Call /\ [w \in Wires |-> 0] \in [Wires -> Nat]
        /\ [l \in Loops |-> <<>>] \in [Loops -> Seq(Wires)]
    BY DEF Idle, Call
  <2> QED BY <2>1 DEF Init, TypeOK
<1>2. Locks /\ Work /\ Mapping
  BY DEF Init, Locks, Work, Busy, Mapping
<1>4. Received
  <2>1. \A l \in Loops : feed[l] = <<>> /\ ~Busy(l)
    BY DEF Init, Busy
  <2> QED BY <2>1, EmptyFeed DEF Received
<1>3. Calls
  BY DEF Init, Calls, Idle
<1> QED BY <1>1, <1>2, <1>3, <1>4 DEF Base

\* The basic invariant is kept by every step, its parts relying on each other.
LEMMA BaseStep == Base /\ [Next]_vars => Base'
<1>1. ASSUME Base, Next
      PROVE  Base'
  BY <1>1, TypeStep, LocksStep, ReceivedStep, WorkStep, MappingStep, CallsStep DEF Base
<1>2. ASSUME Base, UNCHANGED vars
      PROVE  Base'
  <2>1. Received'
    BY <1>2, ReceivedStep DEF Base
  <2>2. Mapping' /\ Calls'
    BY <1>2, NamedStays DEF Base, Mapping, Calls, vars, shared
  <2> QED BY <1>2, <2>1, <2>2 DEF Base, TypeOK, Locks, Work, Busy, Holds, IsRequest,
              vars, shared, input, tasks, ghosts
<1> QED BY <1>1, <1>2

------------------------------------------------------------------------------
(* What a session holds, in terms of the wires A that have arrived. *)

AsksFor(A, w, c, e) ==
  w \in A /\ Inner[w] = e /\ Author[w] = c /\ IsRequest(w) /\ Admitted(w)

Alike(A, c, e) ==
  \A v, w \in A : /\ Inner[v] = e /\ Author[v] = c /\ IsRequest(v)
                  /\ Inner[w] = e /\ Author[w] = c /\ IsRequest(w)
                  => Message[v].token = Message[w].token

Sound(A, c, s) ==
  /\ \A e \in Events : s.pending_requests[e] # None =>
       \E w : AsksFor(A, w, c, e) /\ Message[w].id = s.pending_requests[e]
  /\ \A e \in Events : s.event_to_progress_token[e] # None =>
       /\ s.pending_requests[e] # None
       /\ \E w : AsksFor(A, w, c, e) /\ Message[w].token = s.event_to_progress_token[e]
  /\ \A t \in Tokens, e \in Events : Alike(A, c, e) /\ s.pending_requests[t] = e =>
       /\ s.pending_requests[e] # None
       /\ s.event_to_progress_token[e] = t

Contents == \A c \in Clients : sessions[c] # None => Sound(arrived, c, sessions[c])

\* A session stays sound when more arrives, and when only other fields change.
LEMMA SoundStays ==
  ASSUME NEW A, NEW B, A \subseteq B, NEW c, NEW s, NEW u, Sound(A, c, s),
         u.pending_requests = s.pending_requests,
         u.event_to_progress_token = s.event_to_progress_token
  PROVE  Sound(B, c, u)
<1>1. \A w, e : AsksFor(A, w, c, e) => AsksFor(B, w, c, e)
  BY DEF AsksFor
<1>2. \A e : Alike(B, c, e) => Alike(A, c, e)
  BY DEF Alike
<1> QED BY <1>1, <1>2 DEF Sound

\* Keys of events, keys of tokens and the absent value are told apart.
LEMMA KeysDistinct ==
  /\ None \notin Events /\ None \notin Tokens /\ None \notin RpcIds
  /\ \A e \in Events, t \in Tokens : e # t
  /\ Events \subseteq Keys /\ Tokens \subseteq Keys
BY SetsAssumption DEF Keys

\* Tracking a request keeps the contents of its client's session sound.
LEMMA TouchedSound ==
  ASSUME NEW A, NEW s \in Session \cup {None}, NEW w \in Wires, w \in A, Admitted(w),
         s # None => Sound(A, Author[w], s)
  PROVE  Sound(A, Author[w], Touched(s, w))
<1> DEFINE u == Touched(s, w)
           i == Inner[w]
           c == Author[w]
<1>1. /\ \A k \in Keys : u.pending_requests[k] =
           IF k = i /\ IsRequest(w) THEN Message[w].id
           ELSE IF s = None THEN None ELSE s.pending_requests[k]
      /\ \A e \in Events : u.event_to_progress_token[e] =
           IF s = None THEN None ELSE s.event_to_progress_token[e]
  BY TouchedFields
<1>2. i \in Events /\ (IsRequest(w) => Message[w].id \in RpcIds)
  BY TrafficAssumption DEF IsRequest
<1>3. IsRequest(w) => AsksFor(A, w, c, i)
  BY DEF AsksFor
<1>4. s # None => Sound(A, c, s)
  OBVIOUS
<1> HIDE DEF u, i, c
<1>5. ASSUME NEW e \in Events, u.pending_requests[e] # None
      PROVE  \E v : AsksFor(A, v, c, e) /\ Message[v].id = u.pending_requests[e]
  <2>1. CASE e = i /\ IsRequest(w)
    BY <1>1, <1>2, <1>3, <2>1, KeysDistinct
  <2>2. CASE ~(e = i /\ IsRequest(w))
    BY <1>1, <1>4, <1>5, <2>2, KeysDistinct DEF Sound
  <2> QED BY <2>1, <2>2
<1>6. ASSUME NEW e \in Events, s # None, s.pending_requests[e] # None
      PROVE  u.pending_requests[e] # None
  BY <1>1, <1>2, <1>6, KeysDistinct
<1>7. ASSUME NEW e \in Events, u.event_to_progress_token[e] # None
      PROVE  /\ u.pending_requests[e] # None
             /\ \E v : AsksFor(A, v, c, e) /\ Message[v].token = u.event_to_progress_token[e]
  BY <1>1, <1>4, <1>6, <1>7 DEF Sound
<1>8. ASSUME NEW t \in Tokens, NEW e \in Events, Alike(A, c, e), u.pending_requests[t] = e
      PROVE  u.pending_requests[e] # None /\ u.event_to_progress_token[e] = t
  <2>1. s # None /\ s.pending_requests[t] = e
    BY <1>1, <1>2, <1>8, KeysDistinct
  <2> QED BY <1>1, <1>4, <1>6, <1>8, <2>1 DEF Sound
<1>9. Sound(A, c, u)
  BY <1>5, <1>7, <1>8 DEF Sound
<1> QED BY <1>9 DEF u, c

\* Recording a progress token does, once the request is tracked.
LEMMA FinishedSound ==
  ASSUME NEW A, NEW s \in Session, NEW w \in Wires, w \in A, Admitted(w),
         Sound(A, Author[w], s),
         IsRequest(w) => s.pending_requests[Inner[w]] # None
  PROVE  Sound(A, Author[w], Finished(s, w))
<1> DEFINE u == Finished(s, w)
           i == Inner[w]
           c == Author[w]
           n == Message[w].token
           marks == IsRequest(w) /\ n # None
<1>1. /\ \A k \in Keys : u.pending_requests[k] =
           IF marks /\ k = n THEN i ELSE s.pending_requests[k]
      /\ \A f \in Events : u.event_to_progress_token[f] =
           IF marks /\ f = i THEN n ELSE s.event_to_progress_token[f]
  BY FinishedFields
<1>2. n \in Tokens \cup {None} /\ i \in Events
  BY TrafficAssumption
<1>3. marks => AsksFor(A, w, c, i) /\ Message[w].token = n
  BY DEF AsksFor
<1>4. Sound(A, c, s) /\ (marks => s.pending_requests[i] # None /\ n # None)
  OBVIOUS
<1> HIDE DEF u, i, c, n, marks
<1>5. \A e \in Events : u.pending_requests[e] = s.pending_requests[e]
  BY <1>1, <1>2, KeysDistinct
<1>6. ASSUME NEW e \in Events, u.event_to_progress_token[e] # None
      PROVE  /\ u.pending_requests[e] # None
             /\ \E v : AsksFor(A, v, c, e) /\ Message[v].token = u.event_to_progress_token[e]
  <2>1. CASE marks /\ e = i
    BY <1>1, <1>3, <1>4, <1>5, <2>1
  <2>2. CASE ~(marks /\ e = i)
    BY <1>1, <1>4, <1>5, <1>6, <2>2 DEF Sound
  <2> QED BY <2>1, <2>2
<1>7. ASSUME NEW t \in Tokens, NEW e \in Events, Alike(A, c, e), u.pending_requests[t] = e
      PROVE  u.pending_requests[e] # None /\ u.event_to_progress_token[e] = t
  <2>1. CASE marks /\ t = n
    BY <1>1, <1>4, <1>5, <1>7, <2>1, KeysDistinct
  <2>2. CASE ~(marks /\ t = n)
    <3>1. /\ s.pending_requests[t] = e
          /\ s.pending_requests[e] # None /\ s.event_to_progress_token[e] = t
      BY <1>1, <1>4, <1>7, <2>2, KeysDistinct DEF Sound
    <3>2. CASE marks /\ e = i
      <4>1. t # None
        BY KeysDistinct
      <4>2. PICK v : AsksFor(A, v, c, e) /\ Message[v].token = t
        BY <1>4, <3>1, <4>1 DEF Sound
      <4>3. t = n
        BY <1>3, <1>7, <3>2, <4>2 DEF Alike, AsksFor
      <4> QED BY <2>2, <3>2, <4>3
    <3>3. CASE ~(marks /\ e = i)
      BY <1>1, <1>5, <3>1, <3>3
    <3> QED BY <3>2, <3>3
  <2> QED BY <2>1, <2>2
<1>8. Sound(A, c, u)
  BY <1>4, <1>5, <1>6, <1>7 DEF Sound
<1> QED BY <1>8 DEF u, c

\* Forgetting an answered request does, whichever request its token names by then.
LEMMA ForgottenSound ==
  ASSUME NEW A, NEW c, NEW s \in Session, NEW i \in Events, Sound(A, c, s)
  PROVE  Sound(A, c, Forgotten(s, i))
<1> DEFINE u == Forgotten(s, i)
<1>1. /\ \A k \in Keys : u.pending_requests[k] =
           IF k = i \/ k = s.event_to_progress_token[i] THEN None ELSE s.pending_requests[k]
      /\ \A f \in Events : u.event_to_progress_token[f] =
           IF f = i THEN None ELSE s.event_to_progress_token[f]
  BY ForgottenFields
<1>2. s.event_to_progress_token[i] \in Tokens \cup {None}
  BY DEF Session
<1> HIDE DEF u
<1>3. \A e \in Events : u.pending_requests[e] = IF e = i THEN None ELSE s.pending_requests[e]
  BY <1>1, <1>2, KeysDistinct
<1>4. ASSUME NEW t \in Tokens, NEW e \in Events, Alike(A, c, e), u.pending_requests[t] = e
      PROVE  u.pending_requests[e] # None /\ u.event_to_progress_token[e] = t
  <2>1. s.pending_requests[t] = e /\ t # s.event_to_progress_token[i]
    BY <1>1, <1>4, KeysDistinct
  <2>2. e # i /\ s.pending_requests[e] # None /\ s.event_to_progress_token[e] = t
    BY <1>4, <2>1 DEF Sound
  <2> QED BY <1>1, <1>3, <2>2
<1>5. ASSUME NEW e \in Events, u.event_to_progress_token[e] # None
      PROVE  /\ u.pending_requests[e] # None
             /\ \E w : AsksFor(A, w, c, e) /\ Message[w].token = u.event_to_progress_token[e]
  BY <1>1, <1>3, <1>5 DEF Sound
<1>6. ASSUME NEW e \in Events, u.pending_requests[e] # None
      PROVE  \E w : AsksFor(A, w, c, e) /\ Message[w].id = u.pending_requests[e]
  BY <1>3, <1>6 DEF Sound
<1> QED BY <1>4, <1>5, <1>6 DEF Sound, u

\* Every step keeps every session sound.
LEMMA ContentsStep ==
  ASSUME Base, Contents, Next
  PROVE  Contents'
<1>0. TypeOK /\ Work /\ Received /\ arrived \subseteq arrived'
  BY ArrivedGrows DEF Base
<1>1. ASSUME NEW c \in Clients, NEW u \in Session, Sound(arrived, c, u),
             sessions' = [sessions EXCEPT ![c] = u], arrived' = arrived
      PROVE  Contents'
  BY <1>0, <1>1 DEF Contents, TypeOK
<1>2. ASSUME NEW l \in Loops, LoopTrack(l)
      PROVE  Contents'
  <2> DEFINE w == current[l]
             c == Author[w]
  <2>1. w \in Wires /\ c \in Clients /\ w \in arrived /\ Admitted(w)
    BY <1>0, <1>2, TrafficAssumption DEF Work, Received, Busy, LoopTrack
  <2>2. sessions[c] \in Session \cup {None} /\ (sessions[c] # None => Sound(arrived, c, sessions[c]))
    BY <1>0, <2>1 DEF TypeOK, Contents
  <2>3. Touched(sessions[c], w) \in Session /\ Sound(arrived, c, Touched(sessions[c], w))
    BY <2>1, <2>2, TouchedFields, TouchedSound
  <2> QED BY <1>1, <1>2, <2>1, <2>3 DEF LoopTrack, input
<1>3. ASSUME NEW l \in Loops, LoopFinish(l)
      PROVE  Contents'
  <2> DEFINE w == current[l]
             c == Author[w]
  <2>1. /\ w \in Wires /\ c \in Clients /\ w \in arrived /\ Admitted(w) /\ sessions[c] # None
        /\ IsRequest(w) => sessions[c].pending_requests[Inner[w]] # None
    BY <1>0, <1>3, TrafficAssumption DEF Work, Received, Busy, LoopFinish, Holds
  <2>2. sessions[c] \in Session /\ Sound(arrived, c, sessions[c])
    BY <1>0, <2>1 DEF TypeOK, Contents
  <2>3. Finished(sessions[c], w) \in Session /\ Sound(arrived, c, Finished(sessions[c], w))
    BY <2>1, <2>2, FinishedFields, FinishedSound
  <2> QED BY <1>1, <1>3, <2>1, <2>3 DEF LoopFinish, input
<1>4. ASSUME NEW r \in Callers, CallForget(r)
      PROVE  Contents'
  <2> DEFINE e == call[r].event
             c == call[r].client
  <2>1. e \in Events /\ c \in Clients
    BY <1>4 DEF Base, Calls, CallForget
  <2>2. CASE sessions[c] = None
    <3>1. sessions' = sessions /\ arrived' = arrived
      BY <1>0, <1>4, <2>1, <2>2 DEF TypeOK, CallForget, input
    <3> QED BY <3>1 DEF Contents
  <2>3. CASE sessions[c] # None
    <3>1. sessions[c] \in Session /\ Sound(arrived, c, sessions[c])
      BY <1>0, <2>1, <2>3 DEF TypeOK, Contents
    <3>2. Forgotten(sessions[c], e) \in Session /\ Sound(arrived, c, Forgotten(sessions[c], e))
      BY <2>1, <3>1, ForgottenFields, ForgottenSound
    <3>3. sessions' = [sessions EXCEPT ![c] = Forgotten(sessions[c], e)] /\ arrived' = arrived
      BY <1>4, <2>3 DEF CallForget, input
    <3> QED BY <1>1, <2>1, <3>2, <3>3
  <2> QED BY <2>2, <2>3
<1>5. ASSUME \A c \in Clients : sessions'[c] # None =>
               /\ sessions[c] # None
               /\ sessions'[c].pending_requests = sessions[c].pending_requests
               /\ sessions'[c].event_to_progress_token = sessions[c].event_to_progress_token
      PROVE  Contents'
  BY <1>0, <1>5, SoundStays DEF Contents
<1>6. ASSUME Tick
      PROVE  Contents'
  BY <1>0, <1>5, <1>6, TickKeeps
<1>7. ASSUME (\E l \in Loops : CleanExpire(l)) \/ CloseSessions
      PROVE  Contents'
  <2>1. \A c \in Clients : sessions'[c] \in {None, sessions[c]}
    BY <1>7 DEF CleanExpire, CloseSessions
  <2> QED BY <1>5, <2>1
<1>8. ASSUME UNCHANGED sessions
      PROVE  Contents'
  BY <1>5, <1>8
<1> QED BY <1>2, <1>3, <1>4, <1>6, <1>7, <1>8
        DEF Next, Running, Admin, LoopStep, CleanStep, CallStep, Deliver, LoopSubscribe, LoopRecv, LoopLag,
            LoopMap, LoopForward, CleanAcquire, Start, CallLookup, CallSession, CallPublish,
            CallUnmap, Cancel, StartFails, Close, CloseMap, shared

------------------------------------------------------------------------------
(* The only ways a tracked request stops being tracked. *)

\* An entry goes with an answer, with its expired session, or with close().
LEMMA TrackedStep ==
  ASSUME Base, Next, NEW c \in Clients, NEW e \in Events, Holds(c, e), ~Holds(c, e)'
  PROVE  \/ \E r \in Callers : CallForget(r) /\ call[r].event = e /\ call[r].client = c
         \/ \E l \in Loops : CleanExpire(l) /\ Expired(sessions[c])
         \/ CloseSessions
<1>0. TypeOK /\ Work
  BY DEF Base
<1> DEFINE s == sessions[c]
<1>1. s \in Session /\ s # None /\ s.pending_requests[e] # None /\ e \in Keys
  BY <1>0 DEF TypeOK, Holds, Keys
<1>2. sessions'[c] = None \/ sessions'[c].pending_requests[e] = None
  BY DEF Holds
<1>3. ASSUME NEW l \in Loops, LoopTrack(l)
      PROVE  FALSE
  <2> DEFINE w == current[l]
  <2>1. w \in Wires /\ Author[w] \in Clients /\ Inner[w] \in Events
    BY <1>0, <1>3, TrafficAssumption DEF Work, Busy, LoopTrack
  <2>2. sessions'[c] = IF c = Author[w] THEN Touched(s, w) ELSE s
    BY <1>0, <1>1, <1>3, <2>1 DEF TypeOK, LoopTrack
  <2>3. IsRequest(w) => Message[w].id # None
    BY <2>1, KeysDistinct, TrafficAssumption DEF IsRequest
  <2>4. Touched(s, w) \in Session
        /\ Touched(s, w).pending_requests[e] \in {Message[w].id, s.pending_requests[e]}
        /\ (~IsRequest(w) => Touched(s, w).pending_requests[e] = s.pending_requests[e])
    BY <1>1, <2>1, TouchedFields
  <2>5. Touched(s, w) # None /\ Touched(s, w).pending_requests[e] # None
    BY <1>1, <2>3, <2>4, AbsentAssumption
  <2> QED BY <1>1, <1>2, <2>2, <2>5
<1>4. ASSUME NEW l \in Loops, LoopFinish(l)
      PROVE  FALSE
  <2> DEFINE w == current[l]
  <2>1. w \in Wires /\ Inner[w] \in Events
    BY <1>0, <1>4, TrafficAssumption DEF Work, Busy, LoopFinish
  <2>2. sessions'[c] = IF c = Author[w] THEN Finished(s, w) ELSE s
    BY <1>0, <1>1, <1>4 DEF TypeOK, LoopFinish
  <2>3. Finished(s, w) # None /\ Finished(s, w).pending_requests[e] # None
    BY <1>1, <2>1, FinishedFields, AbsentAssumption, KeysDistinct
  <2> QED BY <1>1, <1>2, <2>2, <2>3
<1>5. ASSUME NEW r \in Callers, CallForget(r)
      PROVE  call[r].event = e /\ call[r].client = c
  <2> DEFINE i == call[r].event
  <2>1. i \in Events
    BY <1>5 DEF Base, Calls, CallForget
  <2>2. sessions'[c] = s \/ (call[r].client = c /\ sessions'[c] = Forgotten(s, i))
    BY <1>0, <1>1, <1>5 DEF TypeOK, CallForget
  <2>3. call[r].client = c /\ sessions'[c] = Forgotten(s, i)
    BY <1>1, <1>2, <2>2
  <2>4. Forgotten(s, i).pending_requests[e] = None /\ s.event_to_progress_token[i] \in Tokens \cup {None}
    BY <1>1, <1>2, <2>1, <2>3, ForgottenFields, AbsentAssumption DEF Session
  <2> QED BY <1>1, <2>1, <2>3, <2>4, ForgottenFields, KeysDistinct
<1>6. ASSUME Tick
      PROVE  FALSE
  BY <1>0, <1>1, <1>2, <1>6, TickKeeps
<1>7. ASSUME NEW l \in Loops, CleanExpire(l)
      PROVE  Expired(s)
  BY <1>1, <1>2, <1>7 DEF CleanExpire
<1>8. sessions' # sessions
  BY <1>1, <1>2
<1> QED BY <1>3, <1>4, <1>5, <1>6, <1>7, <1>8
        DEF Next, Running, Admin, LoopStep, CleanStep, CallStep, Deliver, LoopSubscribe, LoopRecv, LoopLag,
            LoopMap, LoopForward, CleanAcquire, Start, CallLookup, CallSession, CallPublish,
            CallUnmap, Cancel, StartFails, Close, CloseMap, shared

------------------------------------------------------------------------------
(* What the calls in progress have seen, and what is owed. *)

Settled(e) == e \in acked \cup lapsed

History(r) ==
  LET c == call[r] IN
  /\ c.at \in {"session", "publish"} => Holds(c.client, c.event) \/ Settled(c.event)
  /\ c.at = "publish" => c.id = AppId \/ Asked(c.client, c.event, c.id)
  /\ c.at = "publish" => Asked(c.client, c.event, c.id) \/ Settled(c.event)
  /\ c.at \in {"forget", "unmap"} => c.event \in acked

CallHistory == \A r \in Callers : History(r)

Owed ==
  /\ owed \cap acked = {}
  /\ \A e \in owed : event_to_client[e] # None /\ Holds(event_to_client[e], e)

IInv == Base /\ Contents /\ CallHistory /\ Owed /\ MappedIsTracked /\ ResponseRouting

\* The entry a session holds is the JSON-RPC id of a request of its client.
LEMMA HeldAsked ==
  ASSUME Contents, TypeOK, NEW c \in Clients, NEW e \in Events, Holds(c, e)
  PROVE  /\ sessions[c].pending_requests[e] \in RpcIds
         /\ Asked(c, e, sessions[c].pending_requests[e])
<1>1. PICK w : AsksFor(arrived, w, c, e) /\ Message[w].id = sessions[c].pending_requests[e]
  BY DEF Contents, Sound, Holds
<1>2. w \in Wires /\ w \in arrived /\ IsRequest(w)
  BY <1>1 DEF TypeOK, AsksFor
<1> QED BY <1>1, <1>2, TrafficAssumption DEF Asked, AsksFor, IsRequest

\* A swept event belongs to a session that has expired.
LEMMA SweptExpired ==
  ASSUME Contents, NEW e \in Swept
  PROVE  e \in Events /\ \E c \in Clients : Expired(sessions[c]) /\ Holds(c, e)
BY DEF Swept, Contents, Sound, Expired, Holds

\* Settled is for ever.
LEMMA SettledStays ==
  ASSUME Next
  PROVE  acked \subseteq acked' /\ lapsed \subseteq lapsed'
<1>1. ASSUME NEW r \in Callers, CallPublish(r)
      PROVE  acked \subseteq acked' /\ lapsed \subseteq lapsed'
  BY <1>1 DEF CallPublish
<1>2. ASSUME NEW l \in Loops, CleanExpire(l)
      PROVE  acked \subseteq acked' /\ lapsed \subseteq lapsed'
  BY <1>2 DEF CleanExpire
<1> QED BY <1>1, <1>2
        DEF Next, Running, Admin, LoopStep, CleanStep, CallStep, Deliver, Tick, LoopSubscribe, LoopRecv,
            LoopLag, LoopTrack, LoopMap, LoopFinish, LoopForward, CleanAcquire, Start,
            CallLookup, CallSession, CallForget, CallUnmap, Cancel, StartFails, Close,
            CloseSessions, CloseMap, ghosts

\* A tracked request that stops being tracked is settled, unless close() runs.
LEMMA UntrackedSettled ==
  ASSUME IInv, Next, NEW c \in Clients, NEW e \in Events, Holds(c, e), ~Holds(c, e)'
  PROVE  e \in acked \/ e \in lapsed' \/ CloseSessions
<1>1. ASSUME NEW r \in Callers, CallForget(r), call[r].event = e
      PROVE  e \in acked
  BY <1>1 DEF IInv, CallHistory, History, CallForget
<1>2. ASSUME NEW l \in Loops, CleanExpire(l), Expired(sessions[c])
      PROVE  e \in lapsed'
  BY <1>2 DEF CleanExpire, Swept, Holds
<1> QED BY <1>1, <1>2, TrackedStep DEF IInv

\* What a call read is still true, or its event has been answered or has lapsed.
LEMMA CallHistoryStep ==
  ASSUME IInv, Next
  PROVE  CallHistory'
<1>0. CallHistory /\ TypeOK /\ Calls /\ Contents
  BY DEF IInv, Base
<1>1. ASSUME NEW r \in Callers, call'[r] = call[r]
      PROVE  History(r)'
  <2>1. CASE call[r].at = "idle"
    BY <1>1, <2>1 DEF History
  <2>2. CASE call[r].at # "idle"
    <3>1. PICK c \in Clients, e \in Events : c = call[r].client /\ e = call[r].event
      BY <1>0, <2>2 DEF Calls
    <3>2. ~CloseSessions
      BY <1>0, <2>2 DEF Calls, CloseSessions
    <3>3. Settled(e) => Settled(e)'
      BY SettledStays DEF Settled
    <3>4. Holds(c, e) => Holds(c, e)' \/ Settled(e)'
      BY <3>2, UntrackedSettled, SettledStays DEF Settled
    <3>5. e \in acked => e \in acked'
      BY SettledStays
    <3>6. \A i : Asked(c, e, i) => Asked(c, e, i)'
      BY AskedStays
    <3>7. History(r)
      BY <1>0 DEF CallHistory
    <3> QED BY <1>1, <3>1, <3>3, <3>4, <3>5, <3>6, <3>7 DEF History
  <2> QED BY <2>1, <2>2
<1>2. ASSUME NEW r \in Callers, NEW e \in Events, CallLookup(r, e)
      PROVE  History(r)'
  <2>1. Holds(event_to_client[e], e) \/ e \in acked
    BY <1>2 DEF IInv, MappedIsTracked, CallLookup
  <2>2. /\ call'[r].at = "session" /\ call'[r].event = e /\ call'[r].client = event_to_client[e]
        /\ UNCHANGED <<sessions, acked, lapsed>>
    BY <1>0, <1>2 DEF CallLookup, Set, TypeOK, Idle, shared, ghosts
  <2> QED BY <2>1, <2>2 DEF Holds, History, Settled
<1>3. ASSUME NEW r \in Callers, CallSession(r)
      PROVE  History(r)'
  <2>1. CASE sessions[call[r].client] = None
    BY <1>0, <1>3, <2>1 DEF CallSession, Set, TypeOK, Idle, History
  <2>2. CASE sessions[call[r].client] # None
    <3>1. PICK c \in Clients, e \in Events : c = call[r].client /\ e = call[r].event
      BY <1>0, <1>3 DEF Calls, CallSession
    <3>2. call[r].at = "session" /\ call[r] \in Call /\ (Holds(c, e) \/ Settled(e))
      BY <1>0, <1>3, <3>1 DEF CallSession, TypeOK, CallHistory, History
    <3>3. /\ call'[r].at = "publish" /\ call'[r].event = e /\ call'[r].client = c
          /\ call'[r].id = RestoredId(sessions[c], e)
          /\ UNCHANGED <<sessions, acked, lapsed>>
      BY <1>0, <1>3, <2>2, <3>1, <3>2 DEF CallSession, Set, TypeOK, Call, shared, ghosts
    <3>4. CASE Holds(c, e)
      <4>1. Asked(c, e, RestoredId(sessions[c], e))
        BY <1>0, <3>4, HeldAsked DEF RestoredId, Holds
      <4>2. Asked(c, e, RestoredId(sessions[c], e))'
        <5>1. \A i : Asked(c, e, i) => Asked(c, e, i)'
          BY AskedStays
        <5>2. RestoredId(sessions[c], e)' = RestoredId(sessions[c], e)
          BY <3>3 DEF RestoredId
        <5> QED BY <4>1, <5>1, <5>2 DEF Asked
      <4>3. Asked(call[r].client, call[r].event, call[r].id)'
        BY <3>3, <4>2 DEF RestoredId, Asked
      <4> QED BY <3>3, <3>4, <4>3 DEF History, Holds
    <3>5. CASE ~Holds(c, e)
      <4>1. RestoredId(sessions[c], e) = AppId
        BY <2>2, <3>1, <3>5 DEF RestoredId, Holds
      <4> QED BY <3>2, <3>3, <3>5, <4>1 DEF Settled, History
    <3> QED BY <3>4, <3>5
  <2> QED BY <2>1, <2>2
<1>4. ASSUME NEW r \in Callers, CallPublish(r)
      PROVE  History(r)'
  <2>1. call'[r].at = "idle" \/ (call'[r].at = "forget" /\ call'[r].event \in acked')
    BY <1>0, <1>4 DEF CallPublish, AfterPublish, Set, TypeOK, Idle, Call
  <2> QED BY <2>1 DEF History
<1>5. ASSUME NEW r \in Callers, CallForget(r)
      PROVE  History(r)'
  <2>1. call'[r].at = "unmap" /\ call'[r].event \in acked'
    BY <1>0, <1>5, SettledStays DEF CallForget, Set, TypeOK, CallHistory, History, Call
  <2> QED BY <2>1 DEF History
<1>6. ASSUME NEW r \in Callers, CallUnmap(r) \/ Cancel(r)
      PROVE  History(r)'
  <2>1. call'[r].at = "idle"
    BY <1>0, <1>6 DEF CallUnmap, Cancel, Set, TypeOK, Idle
  <2> QED BY <2>1 DEF History
<1>7. ASSUME NEW q \in Callers,
             (\E e \in Events : CallLookup(q, e)) \/ CallStep(q) \/ Cancel(q)
      PROVE  CallHistory'
  <2>1. \A r \in Callers : r # q => call'[r] = call[r]
    BY <1>0, <1>7 DEF CallStep, CallLookup, CallSession, CallPublish, CallForget, CallUnmap,
                      Cancel, Set, TypeOK
  <2>2. History(q)'
    BY <1>2, <1>3, <1>4, <1>5, <1>6, <1>7 DEF CallStep
  <2> QED BY <1>1, <2>1, <2>2 DEF CallHistory
<1>8. ASSUME UNCHANGED call
      PROVE  CallHistory'
  BY <1>1, <1>8 DEF CallHistory
<1> QED BY <1>7, <1>8
        DEF Next, Running, Admin, LoopStep, CleanStep, Deliver, Tick, LoopSubscribe, LoopRecv,
            LoopLag, LoopTrack, LoopMap, LoopFinish, LoopForward, CleanAcquire, CleanExpire,
            Start, StartFails, Close, CloseSessions, CloseMap

\* An owed request stays tracked by the client that its id is mapped to.
LEMMA OwedStep ==
  ASSUME IInv, Next
  PROVE  Owed'
<1>0. TypeOK /\ Work /\ Owed /\ Contents /\ CallHistory
  BY DEF IInv, Base
<1>2. owed' \cap acked' = {}
  <2>1. ASSUME NEW r \in Callers, CallPublish(r)
        PROVE  owed' \cap acked' = {}
    BY <1>0, <2>1 DEF Owed, CallPublish
  <2>2. ASSUME NEW l \in Loops, LoopMap(l) \/ CleanExpire(l)
        PROVE  owed' \cap acked' = {}
    BY <1>0, <2>2 DEF Owed, LoopMap, CleanExpire
  <2>3. ASSUME CloseSessions \/ CloseMap \/ UNCHANGED <<owed, acked>>
        PROVE  owed' \cap acked' = {}
    BY <1>0, <2>3 DEF Owed, CloseSessions, CloseMap
  <2> QED BY <2>1, <2>2, <2>3
          DEF Next, Running, Admin, LoopStep, CleanStep, CallStep, Deliver, Tick, LoopSubscribe, LoopRecv,
              LoopLag, LoopTrack, LoopFinish, LoopForward, CleanAcquire, Start, CallLookup,
              CallSession, CallForget, CallUnmap, Cancel, StartFails, Close, ghosts
<1>3. ASSUME NEW e \in owed', e \notin owed
      PROVE  \E l \in Loops : LoopMap(l) /\ e = Inner[current[l]]
  BY <1>3 DEF Next, Running, Admin, LoopStep, CleanStep, CallStep, Deliver, Tick, LoopSubscribe, LoopRecv,
              LoopLag, LoopTrack, LoopMap, LoopFinish, LoopForward, CleanAcquire, CleanExpire,
              Start, CallLookup, CallSession, CallPublish, CallForget, CallUnmap, Cancel,
              StartFails, Close, CloseSessions, CloseMap, ghosts
<1>4. ASSUME NEW l \in Loops, LoopMap(l), NEW e, e = Inner[current[l]]
      PROVE  event_to_client'[e] # None /\ Holds(event_to_client[e], e)'
  <2> DEFINE w == current[l]
  <2>1. e \in Events /\ Author[w] \in Clients /\ Holds(Author[w], e)
    BY <1>0, <1>4, TrafficAssumption DEF Work, Busy, LoopMap
  <2>2. event_to_client'[e] = Author[w] /\ sessions' = sessions
    BY <1>0, <1>4, <2>1 DEF TypeOK, LoopMap, Mapped
  <2> QED BY <2>1, <2>2, SetsAssumption DEF Holds
<1>5. ASSUME NEW e \in owed', e \in owed
      PROVE  event_to_client'[e] # None /\ Holds(event_to_client[e], e)'
  <2> DEFINE c == event_to_client[e]
  <2>1. e \in Events /\ c # None /\ c \in Clients /\ Holds(c, e) /\ e \notin acked
    BY <1>0, <1>5 DEF Owed, TypeOK
  <2>2. ~CloseSessions /\ ~CloseMap
    BY <1>5 DEF CloseSessions, CloseMap
  <2>3. ASSUME NEW l \in Loops, CleanExpire(l), NEW d \in Clients, Expired(sessions[d])
        PROVE  ~Holds(d, e)
    BY <1>5, <2>3 DEF CleanExpire
  <2>5. Holds(c, e) => sessions'[c] # None /\ sessions'[c].pending_requests[e] # None
    <3>1. ASSUME NEW r \in Callers, CallForget(r), call[r].event = e
          PROVE  FALSE
      BY <1>0, <2>1, <3>1 DEF CallHistory, History, CallForget
    <3>2. \A d \in Clients : Holds(d, e) /\ d = c =>
            sessions'[d] # None /\ sessions'[d].pending_requests[e] # None
      BY <2>1, <2>2, <2>3, <3>1, TrackedStep DEF IInv, Holds
    <3> QED BY <2>1, <3>2
  <2>6. CASE event_to_client'[e] = c
    BY <2>1, <2>5, <2>6 DEF Holds
  <2>7. ASSUME NEW l \in Loops, LoopMap(l)
        PROVE  event_to_client'[e] = c \/ e = Inner[current[l]]
    BY <1>0, <2>1, <2>7 DEF TypeOK, LoopMap, Mapped
  <2>8. ASSUME NEW l \in Loops, CleanExpire(l)
        PROVE  event_to_client'[e] = c
    <3>1. e \notin Swept
      BY <1>0, <2>3, <2>8, SweptExpired
    <3> QED BY <2>1, <2>8, <3>1 DEF CleanExpire
  <2>9. ASSUME NEW r \in Callers, CallUnmap(r)
        PROVE  event_to_client'[e] = c
    <3>1. call[r].event # e
      BY <1>0, <2>1, <2>9 DEF CallHistory, History, CallUnmap
    <3> QED BY <1>0, <2>1, <2>9, <3>1 DEF TypeOK, CallUnmap
  <2>10. ASSUME UNCHANGED event_to_client
         PROVE  event_to_client'[e] = c
    BY <2>10
  <2> QED BY <1>4, <2>2, <2>6, <2>7, <2>8, <2>9, <2>10
          DEF Next, Running, Admin, LoopStep, CleanStep, CallStep, Deliver, Tick, LoopSubscribe, LoopRecv,
              LoopLag, LoopTrack, LoopFinish, LoopForward, CleanAcquire, Start, CallLookup,
              CallSession, CallPublish, CallForget, Cancel, StartFails, Close, shared
<1> QED BY <1>2, <1>3, <1>4, <1>5 DEF Owed

\* No step leaves a mapping of an event that is neither tracked nor being unmapped.
LEMMA MappedStep ==
  ASSUME IInv, Next
  PROVE  MappedIsTracked'
<1>0. TypeOK /\ Work /\ MappedIsTracked /\ CallHistory /\ Calls
  BY DEF IInv, Base
<1> DEFINE Closing(e) == \E r \in Callers : call[r].at = "unmap" /\ call[r].event = e
<1> SUFFICES ASSUME admin_at' # "clear_map", NEW e \in Events,
                    event_to_client'[e] # None, ~Holds(event_to_client[e], e)'
             PROVE  /\ e \in acked'
                    /\ Cancellable \/ \E r \in Callers : call'[r].at = "unmap" /\ call'[r].event = e
  BY DEF MappedIsTracked
<1>1. ~CloseMap /\ ~CloseSessions
  BY DEF CloseMap, CloseSessions
<1>2. ASSUME NEW l \in Loops, LoopMap(l)
      PROVE  event_to_client'[e] = event_to_client[e]
  <2> DEFINE w == current[l]
  <2>1. Inner[w] \in Events /\ Holds(Author[w], Inner[w])
    BY <1>0, <1>2, TrafficAssumption DEF Work, Busy, LoopMap
  <2>2. event_to_client'[e] = IF e = Inner[w] THEN Author[w] ELSE event_to_client[e]
    BY <1>0, <1>2 DEF TypeOK, LoopMap, Mapped
  <2>3. sessions' = sessions
    BY <1>2 DEF LoopMap
  <2>4. e # Inner[w]
    BY <2>1, <2>2, <2>3 DEF Holds
  <2> QED BY <2>2, <2>4
<1>3. event_to_client'[e] = event_to_client[e]
  <2>1. ASSUME NEW l \in Loops, CleanExpire(l)
        PROVE  event_to_client'[e] = event_to_client[e]
    BY <2>1 DEF CleanExpire
  <2>2. ASSUME NEW r \in Callers, CallUnmap(r)
        PROVE  event_to_client'[e] = event_to_client[e]
    BY <1>0, <2>2 DEF TypeOK, CallUnmap
  <2> QED BY <1>1, <1>2, <2>1, <2>2
          DEF Next, Running, Admin, LoopStep, CleanStep, CallStep, Deliver, Tick, LoopSubscribe, LoopRecv,
              LoopLag, LoopTrack, LoopFinish, LoopForward, CleanAcquire, Start, CallLookup,
              CallSession, CallPublish, CallForget, Cancel, StartFails, Close, shared
<1>4. PICK c \in Clients : c = event_to_client[e] /\ ~Holds(c, e)'
  <2>1. event_to_client[e] \in Clients
    BY <1>0, <1>3 DEF TypeOK
  <2> QED BY <1>3, <2>1 DEF Holds
<1>5. CASE Holds(c, e)
  <2>1. ASSUME NEW r \in Callers, CallForget(r), call[r].event = e
        PROVE  e \in acked /\ call'[r].at = "unmap" /\ call'[r].event = e
    BY <1>0, <2>1 DEF CallForget, CallHistory, History, Set, TypeOK, Call
  <2>2. ASSUME NEW l \in Loops, CleanExpire(l), Expired(sessions[c])
        PROVE  FALSE
    <3>1. e \in Swept
      BY <1>5, <2>2 DEF Swept, Holds
    <3> QED BY <2>2, <3>1 DEF CleanExpire
  <2> QED BY <1>1, <1>4, <1>5, <2>1, <2>2, TrackedStep, SettledStays DEF IInv
<1>6. CASE ~Holds(c, e)
  <2>1. admin_at # "clear_map"
    BY <1>1 DEF Next, Running, Admin, LoopStep, CleanStep, CallStep, Deliver, Tick, LoopSubscribe, LoopRecv,
              LoopLag, LoopTrack, LoopMap, LoopFinish, LoopForward, CleanAcquire, CleanExpire,
              Start, CallLookup, CallSession, CallPublish, CallForget, CallUnmap, Cancel,
              StartFails, Close, Exclusive
  <2>2. e \in acked /\ (Cancellable \/ Closing(e))
    BY <1>0, <1>3, <1>4, <1>6, <2>1 DEF MappedIsTracked
  <2>3. ASSUME ~Cancellable, NEW r \in Callers, call[r].at = "unmap", call[r].event = e
        PROVE  call'[r] = call[r]
    <3>1. ASSUME CallUnmap(r)
          PROVE  FALSE
      BY <1>0, <2>3, <3>1 DEF CallUnmap, TypeOK
    <3>2. ASSUME NEW q \in Callers, q # r,
                 (\E f \in Events : CallLookup(q, f)) \/ CallStep(q)
          PROVE  call'[r] = call[r]
      BY <1>0, <3>2 DEF CallStep, CallLookup, CallSession, CallPublish, CallForget, CallUnmap,
                        Set, TypeOK
    <3>3. ASSUME (\E f \in Events : CallLookup(r, f)) \/ CallSession(r) \/ CallPublish(r)
                 \/ CallForget(r)
          PROVE  FALSE
      BY <2>3, <3>3 DEF CallLookup, CallSession, CallPublish, CallForget
    <3>4. ~\E q \in Callers : Cancel(q)
      BY <2>3 DEF Cancel
    <3> QED BY <3>1, <3>2, <3>3, <3>4
            DEF Next, Running, Admin, LoopStep, CleanStep, CallStep, Deliver, Tick, LoopSubscribe, LoopRecv,
                LoopLag, LoopTrack, LoopMap, LoopFinish, LoopForward, CleanAcquire,
                CleanExpire, Start, StartFails, Close, CloseSessions, CloseMap
  <2> QED BY <2>2, <2>3, SettledStays
<1> QED BY <1>5, <1>6

\* What is published goes to a client that asked, under an id of that client.
LEMMA RoutingStep ==
  ASSUME IInv, Next
  PROVE  ResponseRouting'
<1>0. ResponseRouting /\ Calls /\ CallHistory /\ TypeOK
  BY DEF IInv, Base
<1>1. \A c, e, i : Asked(c, e, i) => Asked(c, e, i)'
  BY AskedStays
<1>2. ASSUME NEW r \in Callers, CallPublish(r)
      PROVE  ResponseRouting'
  <2> DEFINE c == call[r]
             m == [event |-> c.event, to |-> c.client, id |-> c.id,
                   encrypted |-> ShouldEncrypt(c.enc)]
  <2>1. outbox' \subseteq outbox \cup {m}
    BY <1>2 DEF CallPublish
  <2>2. Named(c.client, c.event) /\ (c.id = AppId \/ Asked(c.client, c.event, c.id))
    BY <1>0, <1>2 DEF Calls, CallHistory, History, CallPublish
  <2>3. \A j : Asked(c.client, c.event, j) => j \in RpcIds
    BY <1>0, TrafficAssumption DEF Asked, IsRequest, TypeOK
  <2>4. \E i \in RpcIds : Asked(m.to, m.event, i) /\ m.id \in {i, AppId}
    BY <2>2, <2>3 DEF Named
  <2> HIDE DEF m
  <2> QED BY <1>0, <1>1, <2>1, <2>4 DEF ResponseRouting
<1>3. ASSUME UNCHANGED outbox
      PROVE  ResponseRouting'
  BY <1>0, <1>1, <1>3 DEF ResponseRouting
<1> QED BY <1>2, <1>3
        DEF Next, Running, Admin, LoopStep, CleanStep, CallStep, Deliver, Tick, LoopSubscribe, LoopRecv,
            LoopLag, LoopTrack, LoopMap, LoopFinish, LoopForward, CleanAcquire, CleanExpire,
            Start, CallLookup, CallSession, CallForget, CallUnmap, Cancel, StartFails, Close,
            CloseSessions, CloseMap

------------------------------------------------------------------------------
(* The theorems. *)

\* The inductive invariant holds of every reachable state.
LEMMA Inductive == Spec => []IInv
<1>1. Init => IInv
  <2>1. ASSUME Init
        PROVE  Contents /\ CallHistory /\ Owed /\ MappedIsTracked /\ ResponseRouting
    BY <2>1 DEF Init, Contents, CallHistory, History, Owed, MappedIsTracked, ResponseRouting,
                Idle
  <2> QED BY <2>1, BaseInit DEF IInv
<1>2. IInv /\ [Next]_vars => IInv'
  <2>1. ASSUME IInv, Next
        PROVE  IInv'
    BY <2>1, BaseStep, ContentsStep, CallHistoryStep, OwedStep, MappedStep, RoutingStep
       DEF IInv
  <2>2. ASSUME IInv, UNCHANGED vars
        PROVE  IInv'
    <3>1. Base'
      BY <2>2, BaseStep DEF IInv
    <3>2. \A c, e, i : Asked(c, e, i) => Asked(c, e, i)'
      BY <2>2, AskedStays
    <3>3. ResponseRouting' /\ CallHistory'
      BY <2>2, <3>2 DEF IInv, CallHistory, History, Settled, ResponseRouting, Holds,
                        vars, shared, ghosts
    <3> QED BY <2>2, <3>1, <3>3 DEF IInv, Contents, Owed, MappedIsTracked, Holds,
                vars, shared, input, ghosts
  <2> QED BY <2>1, <2>2
<1> QED BY <1>1, <1>2, PTL DEF Spec

\* Every variable keeps its type; a loop never indexes a map with an absent wire
\* and send_response never publishes without an id.
THEOREM TypeCorrect == Spec => []TypeOK
<1>1. IInv => TypeOK
  BY DEF IInv, Base
<1> QED BY <1>1, Inductive, PTL

\* An accepted request stays answerable until it was answered, expired with its
\* session, or was dropped by close(), for any number of clients, requests, calls
\* and restarts.
THEOREM AnswerableTheorem == Spec => []Answerable
<1>1. ASSUME IInv
      PROVE  Answerable
  <2>1. ASSUME NEW e \in owed
        PROVE  /\ e \in Events /\ event_to_client[e] \in Clients
               /\ event_to_client[e] # None /\ Holds(event_to_client[e], e)
    BY <1>1, <2>1 DEF IInv, Base, TypeOK, Owed
  <2> QED BY <1>1, <2>1, HeldAsked DEF IInv, Base, Answerable, Holds
<1> QED BY <1>1, Inductive, PTL

\* A response goes to a client that some request with its event id names, under the
\* JSON-RPC id of such a request, also when requests of several clients bear the id
\* and arrive between the sections of a call.
THEOREM RoutingTheorem == Spec => []ResponseRouting
<1>1. IInv => ResponseRouting
  BY DEF IInv
<1> QED BY <1>1, Inductive, PTL

\* The two clean-up sections of send_response and the cleanup's sweep leave no
\* mapping of an untracked request behind, unless a call is cut between the two.
THEOREM MappedTheorem == Spec => []MappedIsTracked
<1>1. IInv => MappedIsTracked
  BY DEF IInv
<1> QED BY <1>1, Inductive, PTL

\* The entry of a progress token dies with the request, if all requests of the client
\* that bear the event id bear the same token.
THEOREM TokensTheorem == Spec => []TokensFollowRequest
<1>1. \A c, e : OneToken(c, e) => Alike(arrived, c, e)
  BY DEF OneToken, Alike
<1>2. IInv => TokensFollowRequest
  BY <1>1 DEF IInv, Contents, Sound, TokensFollowRequest
<1> QED BY <1>2, Inductive, PTL

\* A response to a request that is still open carries an id its client chose.
THEOREM RestoredTheorem == Spec => PublishesRestoredId
<1> DEFINE Restores == \A m \in outbox' \ outbox :
             Asked(m.to, m.event, m.id) \/ m.event \in acked \cup lapsed
<1>1. IInv /\ [Next]_vars => Restores
  <2>1. ASSUME IInv, NEW r \in Callers, CallPublish(r)
        PROVE  Restores
    BY <2>1 DEF IInv, CallHistory, History, Settled, CallPublish
  <2>2. ASSUME UNCHANGED outbox
        PROVE  Restores
    BY <2>2
  <2> QED BY <2>1, <2>2
          DEF Next, Running, Admin, LoopStep, CleanStep, CallStep, Deliver, Tick, LoopSubscribe, LoopRecv,
              LoopLag, LoopTrack, LoopMap, LoopFinish, LoopForward, CleanAcquire, CleanExpire,
              Start, CallLookup, CallSession, CallForget, CallUnmap, Cancel, StartFails, Close,
              CloseSessions, CloseMap, vars
<1> QED BY <1>1, Inductive, PTL DEF Spec, PublishesRestoredId

\* A request leaves its session only answered, expired or closed.
THEOREM ForgetsTheorem == Spec => ForgetsOnlyAnswered
<1> DEFINE Forgets == \A c \in Clients, e \in Events : Holds(c, e) /\ ~Holds(c, e)' =>
             e \in acked \cup lapsed' \/ admin_at = "clear_sessions"
<1>1. IInv /\ [Next]_vars => Forgets
  <2>1. ASSUME IInv, Next
        PROVE  Forgets
    BY <2>1, UntrackedSettled DEF CloseSessions
  <2>2. ASSUME UNCHANGED vars
        PROVE  Forgets
    BY <2>2 DEF vars, shared, Holds
  <2> QED BY <2>1, <2>2
<1> QED BY <1>1, Inductive, PTL DEF Spec, ForgetsOnlyAnswered
================================================================================
