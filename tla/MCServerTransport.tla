--------------------------- MODULE MCServerTransport ---------------------------
(***************************************************************************)
(* Traffic for model-checking ServerTransport.  A configuration picks the  *)
(* wires that exist, which of them are gift wraps, and the mode.           *)
(*   w1, w1b  two outer events that carry the same request e1 of client c1 *)
(*   w2       its request e2, which uses the same progress token           *)
(*   w3       a request of client c2 that bears the event id e1, and the   *)
(*            JSON-RPC id of e2                                            *)
(*   w4       c1's notifications/initialized, e4                           *)
(***************************************************************************)
EXTENDS ServerTransport, TLC

CONSTANTS c1, c2, e1, e2, e4, w1, w1b, w2, w3, w4, t1, n1, n2

Request(method, name, id, token) ==
  [kind |-> "request", method |-> method, name |-> name, id |-> id, token |-> token]
Notification(method) ==
  [kind |-> "notification", method |-> method, name |-> None, id |-> None, token |-> None]

TrafficMessage ==
  [w \in Wires |->
     CASE w \in {w1, w1b} -> Request("tools/call", "add", n1, t1)
       [] w = w2 -> Request("tools/list", None, n2, t1)
       [] w = w3 -> Request("tools/call", "add", n2, None)
       [] w = w4 -> Notification("notifications/initialized")]

TrafficAuthor == [w \in Wires |-> IF w = w3 THEN c2 ELSE c1]

TrafficInner ==
  [w \in Wires |-> CASE w \in {w1, w1b, w3} -> e1 [] w = w2 -> e2 [] w = w4 -> e4]

\* excluded_capabilities: none, or the tool "add" for clients not on the list.
NothingExcluded == {}
AddExcluded == {[method |-> "tools/call", name |-> "add"]}

\* Calls of send_response differ in nothing; safety runs may identify them.
CallerSymmetry == Permutations(Callers)
================================================================================
