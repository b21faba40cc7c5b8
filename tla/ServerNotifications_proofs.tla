----------------------- MODULE ServerNotifications_proofs -----------------------
(***************************************************************************)
(* Proofs about ServerNotifications, for all values of its constants.  The *)
(* notifications leave the transport alone, so what is proved of it holds  *)
(* beside them; and what a broadcast knows of its clients it has from      *)
(* sessions, whose knowledge comes from messages that were let through     *)
(* (module ServerTransport_traffic).                                       *)
(***************************************************************************)
EXTENDS ServerNotifications, ServerTransport_traffic

\* A step of a notification is no step of the transport.
LEMMA NotificationStep == [NNext]_<<vars, nvars>> => [Next]_vars
<1>1. ASSUME NNext
      PROVE  [Next]_vars
  BY <1>1 DEF NNext, NoteStep, NoteSession, NotePublish, Broadcast, Notify, Next
<1> QED BY <1>1

\* Whatever is proved of a server transport holds while notifications are sent.
THEOREM NotifyingIsTransport == NSpec => Spec
<1>1. NInit => Init
  BY DEF NInit
<1> QED BY <1>1, NotificationStep, PTL DEF NSpec, Spec

------------------------------------------------------------------------------
\* What a call holds: a single notification has nobody else to send to, and all that
\* a broadcast sends to or still has to were initialized.
Held(n) ==
  /\ note[n].at = "idle" => ~note[n].broadcast
  /\ ~note[n].broadcast => note[n].todo = {}
  /\ note[n].broadcast => note[n].client \in Announced /\ note[n].todo \subseteq Announced
  /\ note[n].at = "publish" => note[n].client \in Heard[note[n].enc]

Noticed == \A m \in notices :
  /\ m.broadcast => m.to \in Announced
  /\ \E enc \in BOOLEAN : m.to \in Heard[enc] /\ m.encrypted = Form(enc)

NInv == NTypeOK /\ (\A n \in Notifiers : Held(n)) /\ Noticed

\* Setting a call replaces it and leaves the others.
LEMMA SetNoteFields ==
  ASSUME note \in [Notifiers -> Note], NEW n \in Notifiers, NEW x \in Note, SetNote(n, x)
  PROVE  /\ note' \in [Notifiers -> Note] /\ note'[n] = x
         /\ \A k \in Notifiers : k # n => note'[k] = note[k]
BY DEF SetNote

\* The next turn is that of one of the clients, and the others keep theirs.
LEMMA TurnFields ==
  ASSUME note \in [Notifiers -> Note], NEW n \in Notifiers, NEW S \in SUBSET Clients, Turn(n, S)
  PROVE  /\ note' \in [Notifiers -> Note]
         /\ \A k \in Notifiers : k # n => note'[k] = note[k]
         /\ \/ S = {} /\ note'[n] = Quiet
            \/ /\ note'[n].at = "session" /\ note'[n].broadcast
               /\ note'[n].client \in S /\ note'[n].todo = S \ {note'[n].client}
<1>1. Quiet \in Note
  BY DEF Quiet, Note
<1>2. CASE S = {} /\ SetNote(n, Quiet)
  BY <1>1, <1>2, SetNoteFields
<1>3. ASSUME NEW c \in S,
             SetNote(n, [Quiet EXCEPT !.at = "session", !.broadcast = TRUE, !.client = c,
                                      !.todo = S \ {c}])
      PROVE  /\ note' \in [Notifiers -> Note]
             /\ \A k \in Notifiers : k # n => note'[k] = note[k]
             /\ note'[n].at = "session" /\ note'[n].broadcast
             /\ note'[n].client \in S /\ note'[n].todo = S \ {note'[n].client}
  <2> DEFINE x == [Quiet EXCEPT !.at = "session", !.broadcast = TRUE, !.client = c,
                                !.todo = S \ {c}]
  <2>1. x \in Note /\ x.at = "session" /\ x.broadcast /\ x.client = c /\ x.todo = S \ {c}
    BY DEF Quiet, Note
  <2> HIDE DEF x
  <2>2. SetNote(n, x)
    BY <1>3 DEF x
  <2> QED BY <2>1, <2>2, SetNoteFields
<1> QED BY <1>2, <1>3 DEF Turn

\* A turn over initialized clients holds what it should.
LEMMA TurnHolds ==
  ASSUME NInv, Announced \subseteq Announced',
         \A enc \in BOOLEAN : Heard[enc] \subseteq Heard'[enc],
         NEW n \in Notifiers, NEW S \in SUBSET Clients, Turn(n, S), S \subseteq Announced
  PROVE  /\ (\A k \in Notifiers : Held(k))'
         /\ note' \in [Notifiers -> Note]
         /\ \A k \in Notifiers : note'[k].at # "idle" => note'[k].client \in Clients
<1>1. note \in [Notifiers -> Note] /\ \A k \in Notifiers : Held(k)
  BY DEF NInv, NTypeOK
<1>2. ASSUME NEW k \in Notifiers, note'[k] = note[k]
      PROVE  Held(k)' /\ (note'[k].at # "idle" => note'[k].client \in Clients)
  <2>1. note[k].enc \in BOOLEAN
    BY <1>1 DEF Note
  <2> QED BY <1>1, <1>2, <2>1 DEF Held, NInv, NTypeOK
<1>3. CASE S = {} /\ note'[n] = Quiet
  <2>1. Held(n)' /\ note'[n].at = "idle"
    BY <1>3 DEF Quiet, Held
  <2> QED BY <1>1, <1>2, <2>1, TurnFields
<1>4. CASE /\ note'[n].at = "session" /\ note'[n].broadcast
           /\ note'[n].client \in S /\ note'[n].todo = S \ {note'[n].client}
  <2>1. Held(n)' /\ note'[n].client \in Clients
    BY <1>4 DEF Held
  <2> QED BY <1>1, <1>2, <2>1, TurnFields
<1> QED BY <1>1, <1>3, <1>4, TurnFields

\* One step per action; a step of the transport only adds to what was heard.
LEMMA NInvStep ==
  ASSUME IInv, Provenance, NInv, [NNext]_<<vars, nvars>>
  PROVE  NInv'
<1>1. note \in [Notifiers -> Note] /\ notices \subseteq Notice /\ \A k \in Notifiers : Held(k)
  BY DEF NInv, NTypeOK
<1>2. /\ Announced \subseteq Announced'
      /\ \A enc \in BOOLEAN : Heard[enc] \subseteq Heard'[enc]
  BY SaidStays, NotificationStep
<1>3. notices' = notices => Noticed'
  BY <1>2 DEF NInv, Noticed, Form, ShouldEncrypt
<1>4. ASSUME UNCHANGED nvars
      PROVE  NInv'
  <2>1. \A k \in Notifiers : note[k].enc \in BOOLEAN
    BY <1>1 DEF Note
  <2>2. (\A k \in Notifiers : Held(k))'
    BY <1>1, <1>2, <1>4, <2>1 DEF Held, nvars
  <2> QED BY <1>3, <1>4, <2>2 DEF NInv, NTypeOK, nvars
<1>5. ASSUME NEW n \in Notifiers, NEW c \in Clients, NEW e \in Events \cup {None}, Notify(n, c, e)
      PROVE  NInv'
  <2> DEFINE x == [Quiet EXCEPT !.at = "session", !.client = c, !.about = e]
  <2>1. x \in Note /\ x.at = "session" /\ ~x.broadcast /\ x.client = c /\ x.todo = {}
    BY DEF Quiet, Note
  <2>2. SetNote(n, x) /\ notices' = notices
    BY <1>5 DEF Notify
  <2> HIDE DEF x
  <2>3. /\ note' \in [Notifiers -> Note] /\ note'[n] = x
        /\ \A k \in Notifiers : k # n => note'[k] = note[k]
    BY <1>1, <2>1, <2>2, SetNoteFields
  <2>4. Held(n)'
    BY <2>1, <2>3 DEF Held
  <2>5. ASSUME NEW k \in Notifiers, k # n
        PROVE  Held(k)'
    <3>1. note[k].enc \in BOOLEAN /\ note'[k] = note[k]
      BY <1>1, <2>3, <2>5 DEF Note
    <3> QED BY <1>1, <1>2, <3>1 DEF Held
  <2>6. NTypeOK'
    BY <2>1, <2>2, <2>3 DEF NInv, NTypeOK
  <2> QED BY <1>3, <2>2, <2>4, <2>5, <2>6 DEF NInv
<1>6. ASSUME NEW n \in Notifiers, Broadcast(n)
      PROVE  NInv'
  <2>1. Initialized \in SUBSET Clients /\ Initialized \subseteq Announced
    BY DEF Initialized, Provenance, Sourced
  <2>2. Turn(n, Initialized) /\ notices' = notices
    BY <1>6 DEF Broadcast
  <2>3. (\A k \in Notifiers : Held(k))' /\ NTypeOK'
    BY <1>1, <1>2, <2>1, <2>2, TurnHolds DEF NTypeOK
  <2> QED BY <1>3, <2>2, <2>3 DEF NInv
<1>7. ASSUME NEW n \in Notifiers, NEW ok, Rest(n, ok)
      PROVE  /\ (\A k \in Notifiers : Held(k))'
             /\ note' \in [Notifiers -> Note]
             /\ \A k \in Notifiers : note'[k].at # "idle" => note'[k].client \in Clients
  <2>1. note[n].todo \in SUBSET Clients /\ note[n].broadcast \in BOOLEAN
    BY <1>1 DEF Note
  <2>2. note[n].todo \subseteq Announced
    BY <1>1, <2>1 DEF Held
  <2> QED BY <1>2, <1>7, <2>1, <2>2, TurnHolds DEF Rest
<1>8. ASSUME NEW n \in Notifiers, NoteSession(n)
      PROVE  NInv'
  <2> DEFINE c == note[n].client  s == sessions[c]
             x == [note[n] EXCEPT !.at = "publish", !.enc = s.is_encrypted]
  <2>1. notices' = notices /\ c \in Clients /\ note[n] \in Note
    BY <1>1, <1>8 DEF NoteSession, NInv, NTypeOK, nvars
  <2>2. CASE s = None
    <3>1. \E ok : Rest(n, ok)
      <4>1. Rest(n, FALSE)
        BY <1>8, <2>2 DEF NoteSession, SetNote, Rest
      <4> QED BY <4>1
    <3> QED BY <1>1, <1>3, <1>7, <2>1, <3>1 DEF NInv, NTypeOK
  <2>3. CASE s # None
    <3>1. s \in Session /\ s.is_encrypted \in BOOLEAN /\ c \in Heard[s.is_encrypted]
      BY <2>1, <2>3 DEF IInv, Base, TypeOK, Session, Provenance, Sourced
    <3>2. /\ x \in Note /\ x.at = "publish" /\ x.enc = s.is_encrypted /\ x.client = c
          /\ x.broadcast = note[n].broadcast /\ x.todo = note[n].todo
      BY <2>1, <3>1 DEF Note
    <3>3. SetNote(n, x)
      BY <1>8, <2>3 DEF NoteSession
    <3> HIDE DEF x
    <3>4. /\ note' \in [Notifiers -> Note] /\ note'[n] = x
          /\ \A k \in Notifiers : k # n => note'[k] = note[k]
      BY <1>1, <3>2, <3>3, SetNoteFields
    <3>5. Held(n)'
      BY <1>1, <1>2, <3>1, <3>2, <3>4 DEF Held
    <3>6. ASSUME NEW k \in Notifiers, k # n
          PROVE  Held(k)'
      <4>1. note[k].enc \in BOOLEAN /\ note'[k] = note[k]
        BY <1>1, <3>4, <3>6 DEF Note
      <4> QED BY <1>1, <1>2, <4>1 DEF Held
    <3>7. NTypeOK'
      BY <2>1, <3>2, <3>4 DEF NInv, NTypeOK
    <3> QED BY <1>3, <2>1, <3>5, <3>6, <3>7 DEF NInv
  <2> QED BY <2>2, <2>3
<1>9. ASSUME NEW n \in Notifiers, NotePublish(n)
      PROVE  NInv'
  <2> DEFINE x == note[n]
             m == [to |-> x.client, about |-> x.about, broadcast |-> x.broadcast,
                   encrypted |-> Form(x.enc)]
  <2>1. /\ x \in Note /\ x.client \in Clients /\ x.client \in Heard[x.enc]
        /\ x.broadcast => x.client \in Announced
    BY <1>1, <1>9 DEF NotePublish, NInv, NTypeOK, Held
  <2>2. x.about \in Events \cup {None} /\ x.broadcast \in BOOLEAN /\ x.enc \in BOOLEAN
    BY <2>1 DEF Note
  <2>3. m \in Notice
    BY <2>1, <2>2 DEF Notice, Form, ShouldEncrypt
  <2>4. PICK sent, ok \in BOOLEAN : /\ notices' = IF sent THEN notices \cup {m} ELSE notices
                                    /\ Rest(n, ok)
    BY <1>9 DEF NotePublish
  <2>5. m.to = x.client /\ m.broadcast = x.broadcast /\ m.encrypted = Form(x.enc)
    OBVIOUS
  <2> HIDE DEF x, m
  <2>6. notices' \subseteq notices \cup {m}
    BY <2>4
  <2>7. /\ m.broadcast => m.to \in Announced'
        /\ \E enc \in BOOLEAN : m.to \in Heard'[enc] /\ m.encrypted = Form(enc)
    BY <1>2, <2>1, <2>2, <2>5
  <2>8. Noticed'
    BY <1>2, <2>6, <2>7 DEF NInv, Noticed, Form, ShouldEncrypt
  <2>9. NTypeOK'
    BY <1>1, <1>7, <2>3, <2>4, <2>6 DEF NTypeOK
  <2> QED BY <1>7, <2>4, <2>8, <2>9 DEF NInv
<1> QED BY <1>4, <1>5, <1>6, <1>8, <1>9 DEF NNext, NoteStep

\* NInv holds of every reachable state.
LEMMA NInvInductive == NSpec => []NInv
<1>1. NInit => NInv
  <2> SUFFICES ASSUME NInit
               PROVE  NInv
    OBVIOUS
  <2>1. \A n \in Notifiers : note[n] = Quiet
    BY DEF NInit
  <2>2. Quiet \in Note /\ Quiet.at = "idle" /\ ~Quiet.broadcast /\ Quiet.todo = {}
    BY DEF Quiet, Note
  <2> QED BY <2>1, <2>2 DEF NInit, NInv, NTypeOK, Held, Noticed
<1>2. IInv /\ Provenance /\ NInv /\ [NNext]_<<vars, nvars>> => NInv'
  BY NInvStep
<1> QED BY <1>1, <1>2, NotifyingIsTransport, Inductive, ProvenanceInductive, PTL DEF NSpec

\* A call that is under way has a client, and every notice one of the registered forms.
THEOREM NTypeCorrect == NSpec => []NTypeOK
<1>1. NInv => NTypeOK
  BY DEF NInv
<1> QED BY <1>1, NInvInductive, PTL

\* A broadcast reaches nobody whose notifications/initialized was not let through,
\* whatever became of its session between the snapshot and its turn.
THEOREM BroadcastTheorem == NSpec => []BroadcastOnlyInitialized
<1>1. NInv => BroadcastOnlyInitialized
  BY DEF NInv, Noticed, Announced, BroadcastOnlyInitialized
<1> QED BY <1>1, NInvInductive, PTL

\* A notification has the form of some message of its client that was let through, as
\* far as the mode leaves it open.
THEOREM NoticesTheorem == NSpec => []NoticesMirrorUniformClient
<1>1. NInv => NoticesMirrorUniformClient
  <2> SUFFICES ASSUME NInv, NEW m \in notices, NEW wrapped \in BOOLEAN,
                      \A w \in arrived : Author[w] = m.to => (w \in Wrapped) = wrapped
               PROVE  m.encrypted = (\/ EncryptionMode = "Required"
                                     \/ EncryptionMode = "Optional" /\ wrapped)
    BY DEF NoticesMirrorUniformClient
  <2>1. PICK enc \in BOOLEAN : m.to \in Heard[enc] /\ m.encrypted = Form(enc)
    BY DEF NInv, Noticed
  <2>2. enc = wrapped
    BY <2>1 DEF Heard
  <2> QED BY <2>1, <2>2 DEF Form, ShouldEncrypt
<1> QED BY <1>1, NInvInductive, PTL

\* A broadcast passes over nobody: a client leaves the snapshot only for its own turn.
THEOREM GoesOnTheorem == NSpec => BroadcastGoesOn
<1> DEFINE Goes == \A n \in Notifiers, c \in Clients :
             c \in note[n].todo \ note'[n].todo =>
               note'[n].at = "session" /\ note'[n].client = c
<1>1. NInv /\ [NNext]_<<vars, nvars>> => [Goes]_<<vars, nvars>>
  <2> SUFFICES ASSUME NInv, NNext
               PROVE  Goes
    OBVIOUS
  <2>1. /\ note \in [Notifiers -> Note]
        /\ \A n \in Notifiers : note[n].at = "idle" => note[n].todo = {}
    BY DEF NInv, NTypeOK, Held
  <2>2. ASSUME NEW n \in Notifiers, Turn(n, note[n].todo)
        PROVE  Goes
    <3>1. note[n].todo \in SUBSET Clients
      BY <2>1 DEF Note
    <3>2. /\ \A k \in Notifiers : k # n => note'[k] = note[k]
          /\ \/ note[n].todo = {}
             \/ /\ note'[n].at = "session"
                /\ note'[n].todo = note[n].todo \ {note'[n].client}
      BY <2>1, <2>2, <3>1, TurnFields
    <3> QED BY <3>2
  <2>3. ASSUME \A n \in Notifiers : note'[n] = note[n] \/ note[n].todo \subseteq note'[n].todo
        PROVE  Goes
    BY <2>3
  <2>4. ASSUME NEW n \in Notifiers, NEW x, SetNote(n, x), note[n].todo \subseteq x.todo
        PROVE  Goes
    <3>1. note'[n] = x /\ \A k \in Notifiers : k # n => note'[k] = note[k]
      BY <2>1, <2>4 DEF SetNote
    <3> QED BY <2>3, <2>4, <3>1
  <2> HIDE DEF Goes
  <2>5. ASSUME NEW n \in Notifiers, NoteStep(n)
        PROVE  Goes
    <3>1. note[n] \in Note /\ \A b : [note[n] EXCEPT !.at = "publish", !.enc = b].todo = note[n].todo
      BY <2>1 DEF Note
    <3> QED BY <2>2, <2>4, <2>5, <3>1 DEF NoteStep, NoteSession, NotePublish, Rest
  <2>6. ASSUME NEW n \in Notifiers, Broadcast(n) \/ \E c \in Clients, e \in Events \cup {None} : Notify(n, c, e)
        PROVE  Goes
    <3>1. note[n].todo = {}
      BY <2>1, <2>6 DEF Broadcast, Notify
    <3>2. \E x : SetNote(n, x)
      BY <2>6 DEF Broadcast, Turn, Notify
    <3> QED BY <2>4, <3>1, <3>2
  <2>7. ASSUME UNCHANGED nvars
        PROVE  Goes
    BY <2>3, <2>7 DEF nvars
  <2> QED BY <2>5, <2>6, <2>7 DEF NNext
<1> QED BY <1>1, NInvInductive, PTL DEF NSpec, BroadcastGoesOn
================================================================================
