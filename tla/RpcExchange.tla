------------------------------ MODULE RpcExchange ------------------------------
(***************************************************************************)
(* What two applications that talk over the transports may rely on: a      *)
(* request is executed at most once, and its sender is handed at most one  *)
(* answer, which somebody who executed it gave.  Any step may fail to      *)
(* happen.                                                                 *)
(***************************************************************************)
EXTENDS Naturals

CONSTANTS
  Requests,
  Own, Foreign  \* the JSON-RPC id of an answer: the one its request had, or not

VARIABLES
  asked,     \* requests that got out
  executed,  \* how often each was handed to the serving application
  answered,  \* the answers that got out: pairs of a request and an id
  lapsed,    \* requests the server has finished with
  received   \* how many answers the sender was handed

vars == <<asked, executed, answered, lapsed, received>>

Init ==
  /\ asked = {} /\ answered = {} /\ lapsed = {}
  /\ executed = [q \in Requests |-> 0]
  /\ received = [q \in Requests |-> 0]

Ask(q) ==
  /\ asked' = asked \cup {q}
  /\ UNCHANGED <<executed, answered, lapsed, received>>

Execute(q) ==
  /\ q \in asked /\ executed[q] = 0
  /\ executed' = [executed EXCEPT ![q] = 1]
  /\ UNCHANGED <<asked, answered, lapsed, received>>

\* An answer can get out while its sender is told that it did not, and the other
\* way round.
Answer(q) ==
  /\ executed[q] = 1
  /\ \E i \in {Own, Foreign} :
       /\ i = Foreign => q \in lapsed
       /\ answered' \in {answered, answered \cup {<<q, i>>}}
  /\ lapsed' \in {lapsed, lapsed \cup {q}}
  /\ UNCHANGED <<asked, executed, received>>

\* The server forgets the requests of a client it has not heard of for long.
Lapse(Q) ==
  /\ Q \subseteq asked
  /\ lapsed' = lapsed \cup Q
  /\ UNCHANGED <<asked, executed, answered, received>>

Receive(q) ==
  /\ \E i \in {Own, Foreign} : <<q, i>> \in answered
  /\ received[q] = 0
  /\ received' = [received EXCEPT ![q] = 1]
  /\ UNCHANGED <<asked, executed, answered, lapsed>>

Next ==
  \/ \E q \in Requests : Ask(q) \/ Execute(q) \/ Answer(q) \/ Receive(q)
  \/ \E Q \in SUBSET Requests : Lapse(Q)

Spec == Init /\ [][Next]_vars

------------------------------------------------------------------------------
\* What both sides may rely on: no request is executed twice or answered twice, and
\* one that was answered was executed, and asked for.
OnceEach ==
  \A q \in Requests :
    /\ executed[q] \in {0, 1} /\ received[q] \in {0, 1}
    /\ received[q] = 1 => executed[q] = 1
    /\ executed[q] = 1 => q \in asked
================================================================================
