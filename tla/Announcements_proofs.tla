-------------------------- MODULE Announcements_proofs --------------------------
(***************************************************************************)
(* Proofs about Announcements, for all values of its constants: any number *)
(* of relays, servers and versions, and a clock that runs to any time.     *)
(***************************************************************************)
EXTENDS Announcements, FiniteSetTheorems, TLAPS

------------------------------------------------------------------------------
(* Deletion *)

\* A call that has reached a position has had every request before it accepted.
Deleting ==
  /\ delete_at \in [Servers -> 0 .. 6]
  /\ deleted \in [Servers -> {None, "ok", "error"}]
  /\ \A s \in Servers, i \in 1 .. 5 :
       i < delete_at[s] => <<s, UNENCRYPTED_KINDS[i]>> \in accepted
  /\ \A s \in Servers, i \in 1 .. 5 :
       deleted[s] = "ok" => <<s, UNENCRYPTED_KINDS[i]>> \in accepted

\* The table names every kind of announcement.
LEMMA AllKinds == /\ Len(UNENCRYPTED_KINDS) = 5
                  /\ \A k \in Kinds : \E i \in 1 .. 5 : k = UNENCRYPTED_KINDS[i]
<1>1. Kinds = {11316, 11317, 11318, 11319, 11320}
  BY DEF Kinds, SERVER_ANNOUNCEMENT_KIND, PROMPTS_LIST_KIND
<1>2. UNENCRYPTED_KINDS = <<11316, 11317, 11318, 11319, 11320>>
  BY DEF UNENCRYPTED_KINDS, SERVER_ANNOUNCEMENT_KIND, TOOLS_LIST_KIND, RESOURCES_LIST_KIND,
         RESOURCETEMPLATES_LIST_KIND, PROMPTS_LIST_KIND
<1>3. /\ UNENCRYPTED_KINDS[1] = 11316 /\ UNENCRYPTED_KINDS[2] = 11317
      /\ UNENCRYPTED_KINDS[3] = 11318 /\ UNENCRYPTED_KINDS[4] = 11319
      /\ UNENCRYPTED_KINDS[5] = 11320 /\ Len(UNENCRYPTED_KINDS) = 5
  BY <1>2
<1> QED BY <1>1, <1>3

\* The position moves past a request only when it was accepted, and the call returns
\* Ok only from the last.
LEMMA DeletingStep ==
  ASSUME Deleting, [Next]_vars
  PROVE  Deleting'
<1>0. UNENCRYPTED_KINDS' = UNENCRYPTED_KINDS
  BY DEF UNENCRYPTED_KINDS
<1>1. ASSUME UNCHANGED <<delete_at, deleted, accepted>>
      PROVE  Deleting'
  BY <1>0, <1>1 DEF Deleting
<1>2. ASSUME NEW s \in Servers, DeleteStart(s)
      PROVE  Deleting'
  <2>1. delete_at' = [delete_at EXCEPT ![s] = 1] /\ UNCHANGED <<deleted, accepted>>
    BY <1>2 DEF DeleteStart
  <2>2. delete_at' \in [Servers -> 0 .. 6]
    BY <2>1 DEF Deleting
  <2>3. ASSUME NEW t \in Servers, NEW i \in 1 .. 5, i < delete_at'[t]
        PROVE  i < delete_at[t]
    BY <2>1, <2>3 DEF Deleting
  <2> QED BY <1>0, <2>1, <2>2, <2>3 DEF Deleting
<1>3. ASSUME NEW s \in Servers, DeleteStep(s)
      PROVE  Deleting'
  <2> DEFINE n == delete_at[s]
  <2>1. n \in 1 .. 5
    BY <1>3, AllKinds DEF DeleteStep
  <2>2. PICK ok \in BOOLEAN :
          /\ accepted' = IF ok THEN accepted \cup {<<s, UNENCRYPTED_KINDS[n]>>} ELSE accepted
          /\ delete_at' = [delete_at EXCEPT ![s] = AfterRequest(s, ok)]
          /\ deleted' = [deleted EXCEPT ![s] =
                           IF AfterRequest(s, ok) = 0 THEN "error"
                           ELSE IF AfterRequest(s, ok) > 5 THEN "ok" ELSE None]
    BY <1>3, AllKinds DEF DeleteStep
  <2>3. CASE ok
    <3>1. AfterRequest(s, ok) = n + 1
      BY <2>3 DEF AfterRequest
    <3>2. /\ delete_at' = [delete_at EXCEPT ![s] = n + 1]
          /\ deleted' = [deleted EXCEPT ![s] = IF n = 5 THEN "ok" ELSE None]
          /\ accepted' = accepted \cup {<<s, UNENCRYPTED_KINDS[n]>>}
      <4>1. (IF n + 1 = 0 THEN "error" ELSE IF n + 1 > 5 THEN "ok" ELSE None)
            = IF n = 5 THEN "ok" ELSE None
        BY <2>1
      <4> HIDE DEF n
      <4> QED BY <2>2, <2>3, <3>1, <4>1
    <3>3. \A i \in 1 .. 5 : i < n + 1 => <<s, UNENCRYPTED_KINDS[i]>> \in accepted'
      <4>1. \A i \in 1 .. 5 : i < n + 1 => i < n \/ i = n
        BY <2>1
      <4>2. \A i \in 1 .. 5 : i < n => <<s, UNENCRYPTED_KINDS[i]>> \in accepted
        BY DEF Deleting
      <4> HIDE DEF n
      <4> QED BY <3>2, <4>1, <4>2
    <3>4. n = 5 => \A i \in 1 .. 5 : <<s, UNENCRYPTED_KINDS[i]>> \in accepted'
      BY <3>3
    <3> HIDE DEF n
    <3>5. /\ delete_at'[s] = n + 1 /\ deleted'[s] \in {None, "ok"} /\ (deleted'[s] = "ok" => n = 5)
          /\ \A t \in Servers : t # s => delete_at'[t] = delete_at[t] /\ deleted'[t] = deleted[t]
      BY <3>2, AnnouncementsAssumption DEF Deleting
    <3>6. delete_at' \in [Servers -> 0 .. 6] /\ deleted' \in [Servers -> {None, "ok", "error"}]
      BY <2>1, <3>2 DEF Deleting
    <3>7. accepted \subseteq accepted'
      BY <3>2
    <3> QED BY <1>0, <3>3, <3>4, <3>5, <3>6, <3>7 DEF Deleting
  <2>4. CASE ~ok
    <3>1. AfterRequest(s, ok) = 0
      BY <2>4 DEF AfterRequest
    <3>2. /\ delete_at' = [delete_at EXCEPT ![s] = 0]
          /\ deleted' = [deleted EXCEPT ![s] = "error"]
          /\ accepted' = accepted
      BY <2>2, <2>4, <3>1
    <3>3. \A t \in Servers, i \in 1 .. 5 : i < delete_at'[t] => i < delete_at[t]
      BY <3>2 DEF Deleting
    <3>4. \A t \in Servers : deleted'[t] = "ok" => deleted[t] = "ok"
      BY <3>2 DEF Deleting
    <3>5. delete_at' \in [Servers -> 0 .. 6] /\ deleted' \in [Servers -> {None, "ok", "error"}]
      BY <3>2 DEF Deleting
    <3> QED BY <1>0, <3>2, <3>3, <3>4, <3>5 DEF Deleting
  <2> QED BY <2>3, <2>4
<1>4. ASSUME NEW s \in Deleters, DeleteStart(s) \/ DeleteStep(s)
      PROVE  Deleting'
  BY <1>2, <1>3, <1>4, AnnouncementsAssumption
<1>5. ASSUME \/ Second \/ ReturnServers \/ ReturnList \/ FetchFails \/ UNCHANGED vars
             \/ \E p \in Publishes : Publish(p[1], p[2])
             \/ \E r \in Relays : Answer(r) \/ \E e \in signed : Reach(r, e)
             \/ \E a \in Asks : Ask(a[1], a[2])
             \/ Ask(SERVER_ANNOUNCEMENT_KIND, None)
      PROVE  UNCHANGED <<delete_at, deleted, accepted>>
  BY <1>5 DEF Second, ReturnServers, ReturnList, FetchFails, vars, Publish, Answer, Reach, Ask
<1> QED BY <1>1, <1>4, <1>5 DEF Next

\* delete_announcements returns Ok only when the request of every kind was accepted.
THEOREM DeletedTheorem == Spec => []DeletedCoversAllKinds
<1>1. Init => Deleting
  BY AnnouncementsAssumption DEF Init, Deleting
<1>2. Deleting => DeletedCoversAllKinds
  BY AllKinds DEF Deleting, DeletedCoversAllKinds
<1> QED BY <1>1, <1>2, DeletingStep, PTL DEF Spec

------------------------------------------------------------------------------
(* Discovery *)

\* What was published of an event's list.
List(s, k) == {e \in signed : e.author = s /\ e.kind = k}

\* Versions and times grow together.
Versioned ==
  /\ IsFiniteSet(signed) /\ signed \subseteq Event /\ now \in 0 .. MaxTime
  /\ \A e \in signed : /\ e.created <= now /\ e.version > 0
                       /\ e.version <= Cardinality(List(e.author, e.kind))
                       /\ e.key = PublishedKey(e.kind)
  /\ \A e, f \in signed : SameList(e, f) /\ e.created < f.created => e.version < f.version

\* What a query has seen are events it asked for, of those that were signed.
Seeing ==
  /\ store \in [Relays -> SUBSET signed]
  /\ query \in [at : {"idle", "fetch", "done", "failed"}, author : Servers \cup {None}, kind : Kinds,
                answered : SUBSET Relays, seen : SUBSET signed, found : SUBSET
                  [author : Servers, created : 0 .. MaxTime, version : Nat]]
  /\ \A e \in query.seen : Matches(e)
  /\ query.at = "fetch" => query.found = {}
  /\ DiscoveryFresh

\* The discovery looks for a list under the key it was published with.
LEMMA KeysAgree == \A k \in Kinds : PublishedKey(k) = DiscoveredKey(k)
<1> SUFFICES ASSUME NEW k \in Kinds
             PROVE  PublishedKey(k) = DiscoveredKey(k)
  OBVIOUS
<1>1. k \in {11316, 11317, 11318, 11319, 11320}
  BY DEF Kinds, SERVER_ANNOUNCEMENT_KIND, PROMPTS_LIST_KIND
<1> QED
  BY <1>1 DEF PublishedKey, DiscoveredKey, SERVER_ANNOUNCEMENT_KIND, TOOLS_LIST_KIND,
              RESOURCES_LIST_KIND, RESOURCETEMPLATES_LIST_KIND, PROMPTS_LIST_KIND

\* A new version is later than all that were published of its list.
LEMMA VersionedStep ==
  ASSUME Versioned, [Next]_vars
  PROVE  Versioned' /\ signed \subseteq signed'
<1>1. ASSUME UNCHANGED <<signed, now>>
      PROVE  Versioned' /\ signed \subseteq signed'
  BY <1>1 DEF Versioned, List, SameList, PublishedKey
<1>2. CASE Second
  <2>1. signed' = signed /\ now' = now + 1 /\ now' \in 0 .. MaxTime
    BY <1>2, AnnouncementsAssumption DEF Second, Versioned
  <2>2. \A e \in signed : e.created \in Nat /\ e.created <= now'
    BY <2>1, AnnouncementsAssumption DEF Versioned, Event
  <2> QED BY <2>1, <2>2 DEF Versioned, List, SameList, PublishedKey
<1>3. ASSUME NEW p \in Publishes, Publish(p[1], p[2])
      PROVE  Versioned' /\ signed \subseteq signed'
  <2> DEFINE s == p[1]  k == p[2]  n == Cardinality(List(s, k))
             d == [author |-> s, kind |-> k, key |-> PublishedKey(k), version |-> n + 1,
                   created |-> now]
  <2>1. s \in Servers /\ k \in Kinds
    BY AnnouncementsAssumption
  <2>2. signed' = signed \cup {d} /\ now' = now
    BY <1>3 DEF Publish, List
  <2>3. IsFiniteSet(List(s, k)) /\ n \in Nat
    BY FS_Subset, FS_CardinalityType DEF Versioned, List
  <2>4. /\ d.author = s /\ d.kind = k /\ d.key = PublishedKey(k)
        /\ d.version = n + 1 /\ d.created = now
    OBVIOUS
  <2>5. d \in Event
    BY <2>1, <2>3, KeysAgree DEF Event, Versioned
  <2>6. \A e \in List(s, k) : e \in signed /\ e.author = s /\ e.kind = k /\ e.version <= n
    BY DEF Versioned, List
  <2>7. d \notin List(s, k)
    BY <2>3, <2>4, <2>6
  <2>8. Cardinality(List(s, k) \cup {d}) = n + 1
    BY <2>3, <2>7, FS_AddElement
  <2> HIDE DEF s, k, d, n
  <2>9. List(s, k)' = List(s, k) \cup {d}
    BY <2>2, <2>4 DEF List
  <2>10. \A a, b : a # s \/ b # k => List(a, b)' = List(a, b)
    BY <2>2, <2>4 DEF List
  <2>11. IsFiniteSet(signed') /\ signed' \subseteq Event
    BY <2>2, <2>5, FS_AddElement DEF Versioned
  <2>12. ASSUME NEW e \in signed'
         PROVE  /\ e.created <= now /\ e.version > 0
                /\ e.version <= Cardinality(List(e.author, e.kind)')
                /\ e.key = PublishedKey(e.kind)
    <3>0. now \in Nat
      BY AnnouncementsAssumption DEF Versioned
    <3>1. CASE e = d
      BY <2>3, <2>4, <2>8, <2>9, <3>0, <3>1
    <3>2. CASE e \in signed /\ e.author = s /\ e.kind = k
      <4>1. e.version \in Nat /\ e.version <= n
        BY <2>6, <3>2 DEF List, Versioned, Event
      <4>2. List(e.author, e.kind)' = List(s, k) \cup {d}
        BY <2>9, <3>2
      <4>3. e.version <= Cardinality(List(e.author, e.kind)')
        BY <2>3, <2>8, <4>1, <4>2
      <4> QED BY <3>2, <4>3 DEF Versioned
    <3>3. CASE e \in signed /\ (e.author # s \/ e.kind # k)
      BY <2>10, <3>3 DEF Versioned
    <3> QED BY <2>2, <3>1, <3>2, <3>3
  <2>13. ASSUME NEW e \in signed', NEW f \in signed', SameList(e, f), e.created < f.created
         PROVE  e.version < f.version
    <3>0. now \in Nat /\ \A x \in signed : x.created \in Nat /\ x.version \in Nat
      BY AnnouncementsAssumption DEF Versioned, Event
    <3>1. CASE e \in signed /\ f \in signed
      BY <2>13, <3>1 DEF Versioned
    <3>2. CASE e = d
      BY <2>2, <2>4, <2>13, <3>0, <3>2 DEF Versioned
    <3>3. CASE e \in signed /\ f = d
      <4>1. e \in List(s, k)
        BY <2>4, <2>13, <3>3 DEF List, SameList
      <4> QED BY <2>3, <2>4, <2>6, <3>0, <3>3, <4>1
    <3> QED BY <2>2, <3>1, <3>2, <3>3
  <2> QED BY <2>2, <2>11, <2>12, <2>13 DEF Versioned, SameList, PublishedKey, List
<1>4. ASSUME \/ ReturnServers \/ ReturnList \/ FetchFails \/ UNCHANGED vars
             \/ \E r \in Relays : Answer(r) \/ \E e \in signed : Reach(r, e)
             \/ \E s \in Deleters : DeleteStart(s) \/ DeleteStep(s)
             \/ \E a \in Asks : Ask(a[1], a[2])
             \/ Ask(SERVER_ANNOUNCEMENT_KIND, None)
      PROVE  UNCHANGED <<signed, now>>
  BY <1>4 DEF ReturnServers, ReturnList, FetchFails, vars, Answer, Reach, DeleteStart, DeleteStep, Ask
<1> QED BY <1>1, <1>2, <1>3, <1>4 DEF Next

\* What is kept and seen stays signed; a query returns the latest of what it saw, and
\* of one server and kind the latest is the last version.
LEMMA SeeingStep ==
  ASSUME Versioned, Seeing, [Next]_vars
  PROVE  Seeing'
<1>0. signed \subseteq signed'
  BY VersionedStep
<1>1. ASSUME UNCHANGED <<store, query>>
      PROVE  Seeing'
  <2>1. \A e : Matches(e)' = Matches(e)
    BY <1>1 DEF Matches
  <2>2. DiscoveryFresh' = DiscoveryFresh
    BY <1>1 DEF DiscoveryFresh
  <2> QED BY <1>0, <1>1, <2>1, <2>2 DEF Seeing
<1>2. ASSUME NEW r \in Relays, NEW e \in signed, Reach(r, e)
      PROVE  Seeing'
  <2>1. query' = query /\ signed' = signed
    BY <1>2 DEF Reach
  <2>2. store' \in [Relays -> SUBSET signed]
    BY <1>2 DEF Reach, Seeing
  <2>3. (\A f : Matches(f)' = Matches(f)) /\ DiscoveryFresh' = DiscoveryFresh
    BY <2>1 DEF Matches, DiscoveryFresh
  <2> QED BY <2>1, <2>2, <2>3 DEF Seeing
<1>3. ASSUME NEW k \in Kinds, NEW a \in Servers \cup {None}, Ask(k, a)
      PROVE  Seeing'
  <2>1. UNCHANGED <<store, signed>>
    BY <1>3 DEF Ask
  <2>2. query' = [at |-> "fetch", author |-> a, kind |-> k, answered |-> {}, seen |-> {},
                  found |-> {}]
    BY <1>3 DEF Ask, NoQuery
  <2> QED BY <2>1, <2>2 DEF Seeing, DiscoveryFresh
<1>4. ASSUME NEW r \in Relays, Answer(r)
      PROVE  Seeing'
  <2> DEFINE new == {e \in store[r] : Matches(e)}
  <2>1. UNCHANGED <<store, signed>> /\ query.at = "fetch"
    BY <1>4 DEF Answer
  <2>2. query' = [query EXCEPT !.answered = @ \cup {r}, !.seen = @ \cup new]
    BY <1>4 DEF Answer
  <2>3. new \subseteq signed /\ \A e \in new : Matches(e)
    BY DEF Seeing
  <2> HIDE DEF new
  <2>4. /\ query'.seen = query.seen \cup new /\ query'.answered = query.answered \cup {r}
        /\ query'.at = "fetch" /\ query'.kind = query.kind /\ query'.author = query.author
        /\ query'.found = query.found
    BY <2>1, <2>2 DEF Seeing
  <2>5. \A e \in query'.seen : Matches(e)'
    BY <2>3, <2>4 DEF Seeing, Matches
  <2>6. query' \in [at : {"idle", "fetch", "done", "failed"}, author : Servers \cup {None}, kind : Kinds,
                answered : SUBSET Relays, seen : SUBSET signed, found : SUBSET
                  [author : Servers, created : 0 .. MaxTime, version : Nat]]
    BY <2>2, <2>3 DEF Seeing
  <2> QED BY <2>1, <2>4, <2>5, <2>6 DEF Seeing, DiscoveryFresh
<1>5. ASSUME ReturnServers \/ ReturnList
      PROVE  Seeing'
  <2>1. UNCHANGED <<store, signed>>
    BY <1>5 DEF ReturnServers, ReturnList
  <2>2. \A e \in query.seen : /\ e \in signed /\ e \in Event /\ Matches(e)
                              /\ e.version \in Nat /\ e.created \in Nat
    BY AnnouncementsAssumption DEF Seeing, Versioned, Event
  <2>3. \A e \in query.seen : Listed(e) = [author |-> e.author, created |-> e.created,
                                           version |-> e.version]
    BY <2>2, KeysAgree DEF Listed, Versioned, Event
  <2>4. \A e \in query.seen : /\ Listed(e).author = e.author /\ Listed(e).created = e.created
                              /\ Listed(e).version = e.version
                              /\ Listed(e) \in [author : Servers, created : 0 .. MaxTime, version : Nat]
    BY <2>2, <2>3 DEF Event
  <2>5. PICK S \in SUBSET query.seen :
          /\ query' = [query EXCEPT !.at = "done", !.found = {Listed(e) : e \in S}]
          /\ \/ S = query.seen
             \/ query.author # None /\ \E e \in MostRecent(query.seen) : S = {e}
    <3>1. CASE query' = [query EXCEPT !.at = "done", !.found = {Listed(e) : e \in query.seen}]
      BY <3>1
    <3>2. ASSUME query.author # None, NEW e \in MostRecent(query.seen),
                 query' = [query EXCEPT !.at = "done", !.found = {Listed(e)}]
          PROVE  \E S \in SUBSET query.seen :
                   /\ query' = [query EXCEPT !.at = "done", !.found = {Listed(f) : f \in S}]
                   /\ \/ S = query.seen
                      \/ query.author # None /\ \E f \in MostRecent(query.seen) : S = {f}
      <4>1. {e} \in SUBSET query.seen
        BY <3>2 DEF MostRecent
      <4>2. {Listed(f) : f \in {e}} = {Listed(e)}
        OBVIOUS
      <4> QED BY <3>2, <4>1, <4>2
    <3>3. CASE query.seen = {} /\ query' = [query EXCEPT !.at = "done"]
      <4>1. query.at = "fetch"
        BY <1>5 DEF ReturnServers, ReturnList
      <4>2. query.found = {}
        BY <4>1 DEF Seeing
      <4>3. query' = [query EXCEPT !.at = "done", !.found = {Listed(e) : e \in {}}]
        BY <3>3, <4>2 DEF Seeing
      <4> QED BY <3>3, <4>3
    <3> QED BY <1>5, <3>1, <3>2, <3>3 DEF ReturnServers, ReturnList
  <2>6. /\ query'.seen = query.seen /\ query'.kind = query.kind /\ query'.author = query.author
        /\ query'.found = {Listed(e) : e \in S} /\ query'.answered = query.answered
        /\ query'.at = "done"
    BY <2>5 DEF Seeing
  <2>7. {Listed(e) : e \in S} \subseteq [author : Servers, created : 0 .. MaxTime, version : Nat]
    BY <2>4
  <2>8. query' \in [at : {"idle", "fetch", "done", "failed"}, author : Servers \cup {None}, kind : Kinds,
                answered : SUBSET Relays, seen : SUBSET signed, found : SUBSET
                  [author : Servers, created : 0 .. MaxTime, version : Nat]]
    BY <2>5, <2>7 DEF Seeing
  <2>9. ASSUME NEW e \in query.seen
        PROVE  \E f \in {Listed(x) : x \in S} :
                 /\ f.author = e.author
                 /\ f.version >= e.version \/ (f.version > 0 /\ f.created = e.created)
    <3>1. CASE S = query.seen
      BY <2>2, <2>4, <2>9, <3>1
    <3>2. ASSUME query.author # None, NEW m \in MostRecent(query.seen), S = {m}
          PROVE  \E f \in {Listed(x) : x \in S} :
                   /\ f.author = e.author
                   /\ f.version >= e.version \/ (f.version > 0 /\ f.created = e.created)
      <4>1. m \in query.seen /\ e.created <= m.created
        BY <3>2 DEF MostRecent
      <4>2. SameList(e, m) /\ m.author = e.author
        BY <2>2, <3>2, <4>1 DEF Matches, SameList
      <4>3. m.version > 0 /\ (e.created < m.created => e.version < m.version)
        BY <2>2, <4>1, <4>2 DEF Versioned
      <4>4. e.created = m.created \/ e.version < m.version
        BY <2>2, <4>1, <4>3
      <4>5. Listed(m) \in {Listed(x) : x \in S}
        BY <3>2
      <4> QED BY <2>2, <2>4, <4>1, <4>2, <4>3, <4>4, <4>5
    <3> QED BY <2>5, <3>1, <3>2
  <2>10. DiscoveryFresh'
    BY <2>6, <2>9 DEF DiscoveryFresh
  <2>11. \A e \in query'.seen : Matches(e)'
    BY <2>6 DEF Seeing, Matches
  <2> QED BY <2>1, <2>6, <2>8, <2>10, <2>11 DEF Seeing
<1>6. CASE FetchFails
  <2>1. UNCHANGED <<store, signed>> /\ query' = [query EXCEPT !.at = "failed"]
    BY <1>6 DEF FetchFails
  <2>2. /\ query'.seen = query.seen /\ query'.kind = query.kind /\ query'.author = query.author
        /\ query'.at = "failed"
    BY <2>1 DEF Seeing
  <2> QED BY <2>1, <2>2 DEF Seeing, Matches, DiscoveryFresh
<1>7. ASSUME \/ Second \/ UNCHANGED vars
             \/ \E p \in Publishes : Publish(p[1], p[2])
             \/ \E s \in Deleters : DeleteStart(s) \/ DeleteStep(s)
      PROVE  UNCHANGED <<store, query>>
  BY <1>7 DEF Second, vars, Publish, DeleteStart, DeleteStep
<1>8. ASSUME \/ \E a \in Asks : Ask(a[1], a[2])
             \/ Ask(SERVER_ANNOUNCEMENT_KIND, None)
      PROVE  \E k \in Kinds, a \in Servers \cup {None} : Ask(k, a)
  <2>1. SERVER_ANNOUNCEMENT_KIND \in Kinds
    BY DEF Kinds, SERVER_ANNOUNCEMENT_KIND, PROMPTS_LIST_KIND
  <2>2. \A a \in Asks : a[1] \in Kinds /\ a[2] \in Servers
    BY AnnouncementsAssumption
  <2> QED BY <1>8, <2>1, <2>2
<1> QED BY <1>1, <1>2, <1>3, <1>4, <1>5, <1>6, <1>7, <1>8 DEF Next

\* A discovery returns, of what the relays that answered keep, nothing older than the
\* last version, except for what was published in the same second, and it finds the
\* content.
THEOREM DiscoveryTheorem == Spec => []DiscoveryFresh
<1>1. Init => Versioned /\ Seeing
  <2> SUFFICES ASSUME Init
               PROVE  Versioned /\ Seeing
    OBVIOUS
  <2>1. TOOLS_LIST_KIND \in Kinds
    BY DEF Kinds, TOOLS_LIST_KIND, SERVER_ANNOUNCEMENT_KIND, PROMPTS_LIST_KIND
  <2>2. Versioned
    BY FS_EmptySet, AnnouncementsAssumption DEF Init, Versioned
  <2>3. Seeing
    BY <2>1 DEF Init, NoQuery, Seeing, DiscoveryFresh
  <2> QED BY <2>2, <2>3
<1>2. Versioned /\ Seeing /\ [Next]_vars => Versioned' /\ Seeing'
  BY VersionedStep, SeeingStep
<1>3. Seeing => DiscoveryFresh
  BY DEF Seeing
<1> QED BY <1>1, <1>2, <1>3, PTL DEF Spec

Requested == accepted \subseteq Servers \X Kinds

\* Every variable keeps its type: relays keep, and queries see, signed events only.
THEOREM AnnouncementsTypeCorrect == Spec => []TypeOK
<1>1. Init => Versioned /\ Seeing /\ Deleting /\ Requested
  <2> SUFFICES ASSUME Init
               PROVE  Versioned /\ Seeing /\ Deleting /\ Requested
    OBVIOUS
  <2>1. TOOLS_LIST_KIND \in Kinds
    BY DEF Kinds, TOOLS_LIST_KIND, SERVER_ANNOUNCEMENT_KIND, PROMPTS_LIST_KIND
  <2>2. Versioned
    BY FS_EmptySet, AnnouncementsAssumption DEF Init, Versioned
  <2>3. Seeing
    BY <2>1 DEF Init, NoQuery, Seeing, DiscoveryFresh
  <2>4. Deleting /\ accepted = {}
    BY AnnouncementsAssumption DEF Init, Deleting
  <2> QED BY <2>2, <2>3, <2>4 DEF Requested
<1>2. Requested /\ [Next]_vars => Requested'
  <2>1. \A i \in 1 .. 5 : UNENCRYPTED_KINDS[i] \in Kinds
    BY DEF UNENCRYPTED_KINDS, Kinds, SERVER_ANNOUNCEMENT_KIND, TOOLS_LIST_KIND,
           RESOURCES_LIST_KIND, RESOURCETEMPLATES_LIST_KIND, PROMPTS_LIST_KIND
  <2>2. ASSUME Requested, NEW s \in Deleters, DeleteStep(s)
        PROVE  accepted' \subseteq Servers \X Kinds
    <3>1. s \in Servers /\ delete_at[s] \in 1 .. 5
      BY <2>2, AllKinds, AnnouncementsAssumption DEF DeleteStep
    <3>2. <<s, UNENCRYPTED_KINDS[delete_at[s]]>> \in Servers \X Kinds
      BY <2>1, <3>1
    <3> QED BY <2>2, <3>2 DEF DeleteStep, Requested
  <2> QED BY <2>2 DEF Requested, Next, Second, Publish, Reach, DeleteStart, Ask, Answer,
                          ReturnServers, ReturnList, FetchFails, vars
<1>3. Versioned /\ Seeing /\ Deleting /\ [Next]_vars => Versioned' /\ Seeing' /\ Deleting'
  BY VersionedStep, SeeingStep, DeletingStep
<1>4. Versioned /\ Seeing /\ Deleting /\ Requested => TypeOK
  BY AllKinds DEF Requested, Versioned, Seeing, Deleting, TypeOK
<1> QED BY <1>1, <1>2, <1>3, <1>4, PTL DEF Spec
================================================================================
