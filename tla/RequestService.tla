---------------------------- MODULE RequestService ----------------------------
(***************************************************************************)
(* What a server promises for requests, without sessions, locks, tasks or  *)
(* calls: it opens them, replies to them, and has done with those it       *)
(* answered or gave up.  It knows a request by the client it is from and   *)
(* the id of its event, and keeps nothing that would tell two of one       *)
(* client with the same event apart.                                       *)
(***************************************************************************)
CONSTANTS
  Ids,      \* what a reply may carry as its id
  Requests  \* records [event, to, id]: its event, who asks, the JSON-RPC id

VARIABLES
  open,    \* pairs <<client, event>> of requests that can be replied to
  done,    \* events of requests that were answered, or given up
  replies  \* the replies that got out

vars == <<open, done, replies>>

Init == open = {} /\ done = {} /\ replies = {}

\* A request that is done can be opened again, when its client repeats it.
Accept(q) == open' = open \cup {<<q.to, q.event>>} /\ UNCHANGED <<done, replies>>

\* A reply is to a request of the client it goes to.  The server need not learn that
\* it got out, and one that it believes to have sent may be lost.
Answer(q, i) ==
  /\ i = q.id \/ q.event \in done
  /\ q.event \in done \/ <<q.to, q.event>> \in open
  /\ replies' \in {replies, replies \cup {[event |-> q.event, to |-> q.to, id |-> i]}}
  /\ done' \in {done, done \cup {q.event}}
  /\ UNCHANGED open

Forget(p) == p[2] \in done /\ open' = open \ {p} /\ UNCHANGED <<done, replies>>

Expire(Q) ==
  /\ open' = open \ Q
  /\ done' = done \cup {p[2] : p \in Q}
  /\ UNCHANGED replies

Close == open' = {} /\ UNCHANGED <<done, replies>>

Next ==
  \/ \E q \in Requests : Accept(q) \/ \E i \in Ids : Answer(q, i)
  \/ \E p \in open : Forget(p)
  \/ \E Q \in SUBSET open : Expire(Q)
  \/ Close

Spec == Init /\ [][Next]_vars
================================================================================
