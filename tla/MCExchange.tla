------------------------------ MODULE MCExchange ------------------------------
(***************************************************************************)
(* One client and one server that exchange a request, or two that share a  *)
(* JSON-RPC id.                                                            *)
(***************************************************************************)
EXTENDS Exchange, TLC

CONSTANTS q1, q2, n1

ExchangeMessage ==
  [q \in Events |-> [kind |-> "request", method |-> "tools/call", name |-> "add",
                     id |-> n1, token |-> None]]

NothingExcluded == {}
CallerSymmetry == Permutations(Callers)
================================================================================
