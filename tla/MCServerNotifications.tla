------------------------- MODULE MCServerNotifications -------------------------
(***************************************************************************)
(* Two clients that initialize, one of them with wrapped messages.         *)
(*   i1, i2  notifications/initialized of clients c1 and c2                *)
(*   q1      a request of c1: it opens a session before i1, or opens a new *)
(*           one, not initialized, after the one of i1 expired             *)
(***************************************************************************)
EXTENDS ServerNotifications, TLC

CONSTANTS c1, c2, i1, i2, q1

Says(kind, method, id) ==
  [kind |-> kind, method |-> method, name |-> None, id |-> id, token |-> None]

NoteMessage ==
  [w \in Wires |-> IF w \in {i1, i2} THEN Says("notification", "notifications/initialized", None)
                    ELSE Says("request", "tools/list", 1)]

NoteAuthor == [w \in Wires |-> IF w = i2 THEN c2 ELSE c1]

\* Outer and inner event of a wire are given the same name.
NoteInner == [w \in Wires |-> w]

NothingExcluded == {}
================================================================================
