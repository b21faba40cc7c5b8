-------------------------- MODULE ServerNotifications --------------------------
(***************************************************************************)
(* send_notification and broadcast_notification (transport/server.rs),     *)
(* called concurrently with everything ServerTransport describes.  They    *)
(* read the sessions the event loop, the cleanup and close() write, and    *)
(* change none of them.                                                    *)
(*                                                                         *)
(* A broadcast takes a snapshot of the initialized clients and then makes  *)
(* one send_notification after the other, each with awaits of its own: a   *)
(* session of the snapshot may be gone, or be a new one, when its turn     *)
(* comes.  A call whose future is dropped leaves nothing behind and is not *)
(* told apart from one that takes no further step.                         *)
(***************************************************************************)
EXTENDS ServerTransport

CONSTANT Notifiers  \* concurrent calls of the two operations

VARIABLES
  note,     \* the calls
  notices   \* notifications that reached a relay

nvars == <<note, notices>>

------------------------------------------------------------------------------
\* One call: the send_notification it is in, and for a broadcast the clients of
\* its snapshot whose turn has not come.
Quiet == [at |-> "idle", broadcast |-> FALSE, client |-> None, about |-> None,
          enc |-> FALSE, todo |-> {}]
Note == [at : {"idle", "session", "publish"}, broadcast : BOOLEAN,
         client : Clients \cup {None}, about : Events \cup {None},
         enc : BOOLEAN, todo : SUBSET Clients]

Notice == [to : Clients, about : Events \cup {None}, broadcast : BOOLEAN, encrypted : BOOLEAN]

NTypeOK ==
  /\ note \in [Notifiers -> Note] /\ notices \subseteq Notice
  /\ \A n \in Notifiers : note[n].at # "idle" => note[n].client \in Clients

NInit == Init /\ note = [n \in Notifiers |-> Quiet] /\ notices = {}

\* Who the application has heard of: an IncomingRequest carries its client.
KnownClient(c) == \E w \in Wires : Author[w] = c /\ forwarded[w] > 0

SetNote(n, x) == note' = [note EXCEPT ![n] = x]

------------------------------------------------------------------------------
\* send_notification, with an event the application was handed or without.
Notify(n, c, e) ==
  /\ note[n].at = "idle" /\ admin_at = "idle"
  /\ KnownClient(c) /\ (e = None \/ KnownToApp(e))
  /\ SetNote(n, [Quiet EXCEPT !.at = "session", !.client = c, !.about = e])
  /\ UNCHANGED <<vars, notices>>

\* mutant: the loop goes once more round when nobody is left
TurnPast(n, S) == SetNote(n, [Quiet EXCEPT !.at = "session", !.broadcast = TRUE])
\* The turn of one of the clients S, or the end of the call.
Turn(n, S) ==
  \/ S = {} /\ SetNote(n, Quiet)
  \/ \E c \in S :
       SetNote(n, [Quiet EXCEPT !.at = "session", !.broadcast = TRUE, !.client = c,
                                !.todo = S \ {c}])

InitializedAll == {c \in Clients : sessions[c] # None}    \* mutant: no filter
Initialized == {c \in Clients : sessions[c] # None /\ sessions[c].is_initialized}

Broadcast(n) ==
  /\ note[n].at = "idle" /\ admin_at = "idle" /\ Free("sessions")
  /\ Initialized # {}
  /\ Turn(n, Initialized)
  /\ UNCHANGED <<vars, notices>>

RestStops(n, ok) == IF ok THEN Turn(n, note[n].todo) ELSE SetNote(n, Quiet)    \* mutant: `?`
\* A broadcast logs an error and goes on; for a single call nothing is left.
Rest(n, ok) == Turn(n, note[n].todo)

NoteSession(n) ==
  LET s == sessions[note[n].client] IN
  /\ note[n].at = "session" /\ Free("sessions")
  /\ \/ s = None /\ Rest(n, FALSE)
     \/ s # None /\ SetNote(n, [note[n] EXCEPT !.at = "publish", !.enc = s.is_encrypted])
  /\ UNCHANGED <<vars, notices>>

Form(enc) == ShouldEncrypt(enc)

NotePublish(n) ==
  LET x == note[n]
      m == [to |-> x.client, about |-> x.about, broadcast |-> x.broadcast,
            encrypted |-> Form(x.enc)]
  IN
  /\ x.at = "publish"
  /\ \E sent, ok \in BOOLEAN :
       /\ (sent \/ ok) => connected
       /\ notices' = IF sent THEN notices \cup {m} ELSE notices
       /\ Rest(n, ok)
  /\ UNCHANGED vars

NoteStep(n) == NoteSession(n) \/ NotePublish(n)

------------------------------------------------------------------------------
\* start() and close() wait for the calls on &self.
NExclusive == \A n \in Notifiers : note[n].at = "idle"

NNext ==
  \/ Running /\ UNCHANGED nvars
  \/ NExclusive /\ Admin /\ UNCHANGED nvars
  \/ \E n \in Notifiers : NoteStep(n) \/ Broadcast(n)
                          \/ \E c \in Clients, e \in Events \cup {None} : Notify(n, c, e)

NSpec == NInit /\ [][NNext]_<<vars, nvars>>

------------------------------------------------------------------------------
(* Safety *)

\* Whatever became of its session since the snapshot (it expired, it was closed,
\* it was created anew), a client that a broadcast reaches has at some time sent
\* notifications/initialized and was let through: never one that merely has a
\* session.
BroadcastOnlyInitialized ==
  \A m \in notices : m.broadcast =>
    \E w \in arrived : /\ Author[w] = m.to /\ Admitted(w)
                       /\ Message[w].kind = "notification"
                       /\ Message[w].method = "notifications/initialized"

\* A notification has the form of its client's messages, as far as the mode
\* leaves it open, also when the session was replaced under a broadcast.
NoticesMirrorUniformClient ==
  \A m \in notices, wrapped \in BOOLEAN :
    (\A w \in arrived : Author[w] = m.to => (w \in Wrapped) = wrapped)
      => m.encrypted = (\/ EncryptionMode = "Required"
                        \/ EncryptionMode = "Optional" /\ wrapped)

\* A client leaves the snapshot of a broadcast only when its turn comes, however
\* many of the sends before it failed and whatever happened to their sessions.
BroadcastGoesOn ==
  [][\A n \in Notifiers, c \in Clients :
       c \in note[n].todo \ note'[n].todo =>
         note'[n].at = "session" /\ note'[n].client = c]_<<vars, nvars>>
================================================================================
