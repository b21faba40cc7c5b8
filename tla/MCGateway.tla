------------------------------- MODULE MCGateway -------------------------------
(***************************************************************************)
(* A gateway and one client: e1 is a request that comes in two gift wraps, *)
(* e4 the client's notifications/initialized.                              *)
(***************************************************************************)
EXTENDS Gateway, TLC

CONSTANTS c1, e1, e4, w1, w1b, w4, n1, t1

GatewayMessage ==
  [w \in Wires |->
     IF w = w4 THEN [kind |-> "notification", method |-> "notifications/initialized",
                     name |-> None, id |-> None, token |-> None]
     ELSE [kind |-> "request", method |-> "tools/call", name |-> "add", id |-> n1, token |-> t1]]

GatewayAuthor == [w \in Wires |-> c1]
GatewayInner  == [w \in Wires |-> IF w = w4 THEN e4 ELSE e1]

NothingExcluded == {}
CallerSymmetry == Permutations(Callers)
================================================================================
