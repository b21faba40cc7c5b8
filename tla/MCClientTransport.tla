--------------------------- MODULE MCClientTransport ---------------------------
(***************************************************************************)
(* Traffic for model-checking ClientTransport and Proxy.                   *)
(*   s1      a tools/call request                                          *)
(*   s2      notifications/initialized                                     *)
(*   s3      initialize                                                    *)
(*   w1, w1b two responses to s1 (two relays, a server that answers twice) *)
(*   w1n     a progress notification correlated to s1                      *)
(*   w1x     something correlated to s1 that does not parse                *)
(*   wf      a response to s1 that names another key                       *)
(***************************************************************************)
EXTENDS Proxy, TLC

CONSTANTS s1, s2, s3, w1, w1b, w1n, w1x, wf

Msg(kind, method) ==
  [kind |-> kind, method |-> method, name |-> None, id |-> None, token |-> None]

TrafficMessage ==
  [s \in Sends |-> CASE s = s1 -> Msg("request", "tools/call")
                     [] s = s2 -> Msg("notification", "notifications/initialized")
                     [] s = s3 -> Msg("request", "initialize")]

In(from, about, kind) == [from |-> from, about |-> about, kind |-> kind]

TrafficInbound ==
  [w \in Wires |-> CASE w \in {w1, w1b} -> In(Server, s1, "response")
                     [] w = w1n -> In(Server, s1, "notification")
                     [] w = w1x -> In(Server, s1, "invalid")
                     [] w = wf  -> In(Other, s1, "response")]
================================================================================
