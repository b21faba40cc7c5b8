----------------------------- MODULE Announcements -----------------------------
(***************************************************************************)
(* The public side of a server: announce, the publish_* operations and     *)
(* delete_announcements (transport/server.rs), and how clients find it     *)
(* (discovery/mod.rs), over relays that each keep what reaches them.       *)
(*                                                                         *)
(* The five kinds are replaceable events: of one author and kind a relay   *)
(* keeps the event with the latest created_at, which counts seconds.       *)
(* Relays are outside the repository: an event reaches any of them, at any *)
(* time after it was signed, or never, and two events in any order.  A     *)
(* deletion request names kinds in k tags and no event (e or a tags), so a *)
(* relay has nothing to delete for it (NIP-09).                            *)
(***************************************************************************)
EXTENDS Naturals, Sequences, FiniteSets

CONSTANTS
  Relays,
  Servers,      \* public keys of servers
  Announced,    \* the servers with a server_info
  Publishes,    \* who publishes what: pairs of a server and a kind
  Asks,         \* what clients discover: pairs of a list's kind and a server
  Deleters,     \* the servers that call delete_announcements
  MaxVersions,  \* bound: how often each of them publishes it
  MaxTime,      \* bound of the clock, in seconds
  None

SERVER_ANNOUNCEMENT_KIND == 11316
TOOLS_LIST_KIND == 11317
RESOURCES_LIST_KIND == 11318
RESOURCETEMPLATES_LIST_KIND == 11319
PROMPTS_LIST_KIND == 11320
UnencryptedKindsWrong ==    \* mutant: the message kind in place of the prompts'
  <<SERVER_ANNOUNCEMENT_KIND, TOOLS_LIST_KIND, RESOURCES_LIST_KIND,
    RESOURCETEMPLATES_LIST_KIND, 25910>>
UNENCRYPTED_KINDS == <<SERVER_ANNOUNCEMENT_KIND, TOOLS_LIST_KIND, RESOURCES_LIST_KIND,
                       RESOURCETEMPLATES_LIST_KIND, PROMPTS_LIST_KIND>>

Kinds == SERVER_ANNOUNCEMENT_KIND .. PROMPTS_LIST_KIND

ASSUME AnnouncementsAssumption ==
  /\ Publishes \subseteq Servers \X Kinds
  /\ Asks \subseteq (Kinds \ {SERVER_ANNOUNCEMENT_KIND}) \X Servers
  /\ Announced \subseteq Servers /\ Deleters \subseteq Servers
  /\ None \notin Servers \cup {"ok", "error"}
  /\ MaxVersions \in [Publishes -> Nat] /\ MaxTime \in Nat

VARIABLES
  now,
  signed,     \* the events that were built and handed to the relay pool
  store,      \* what each relay keeps
  delete_at,  \* each server's delete_announcements: the position in
              \* UNENCRYPTED_KINDS it has reached, 0 before it was called
  deleted,    \* what it returned, or None
  accepted,   \* history: deletion requests whose publish returned Ok
  query       \* a discovery call

vars == <<now, signed, store, delete_at, deleted, accepted, query>>

------------------------------------------------------------------------------
\* Where publish_* puts a list in its event, and where the discovery looks for it.
PublishedKey(kind) ==
  CASE kind = SERVER_ANNOUNCEMENT_KIND -> "info"
    [] kind = TOOLS_LIST_KIND -> "tools"
    [] kind = RESOURCES_LIST_KIND -> "resources"
    [] kind = RESOURCETEMPLATES_LIST_KIND -> "resourceTemplates"
    [] kind = PROMPTS_LIST_KIND -> "prompts"
DiscoveredKey(kind) ==
  CASE kind = SERVER_ANNOUNCEMENT_KIND -> "info"
    [] kind = TOOLS_LIST_KIND -> "tools"
    [] kind = RESOURCES_LIST_KIND -> "resources"
    [] kind = RESOURCETEMPLATES_LIST_KIND -> "resourceTemplates"
    [] kind = PROMPTS_LIST_KIND -> "prompts"

\* The n-th list (or server info) that a server publishes has version n.
Event == [author : Servers, kind : Kinds, key : {PublishedKey(k) : k \in Kinds},
          version : Nat, created : 0 .. MaxTime]
SameList(e, f) == e.author = f.author /\ e.kind = f.kind

NoQuery == [at |-> "idle", author |-> None, kind |-> TOOLS_LIST_KIND,
            answered |-> {}, seen |-> {}, found |-> {}]

Init ==
  /\ now = 0
  /\ signed = {}
  /\ store = [r \in Relays |-> {}]
  /\ delete_at = [s \in Servers |-> 0] /\ deleted = [s \in Servers |-> None]
  /\ accepted = {}
  /\ query = NoQuery

\* The system clock does not go back.
Second ==
  /\ now < MaxTime
  /\ now' = now + 1
  /\ UNCHANGED <<signed, store, delete_at, deleted, accepted, query>>

------------------------------------------------------------------------------
(* The server *)

\* announce() needs a server_info; the lists need nothing.  The event is signed with
\* the time of the call; calls on &self may overlap, so nothing orders arrivals.
Publish(s, k) ==
  LET earlier == {e \in signed : e.author = s /\ e.kind = k}
      n == Cardinality(earlier)
  IN
  /\ n < MaxVersions[<<s, k>>]
  /\ k = SERVER_ANNOUNCEMENT_KIND => s \in Announced
  /\ signed' = signed \cup
       {[author |-> s, kind |-> k, key |-> PublishedKey(k), version |-> n + 1, created |-> now]}
  /\ UNCHANGED <<now, store, delete_at, deleted, accepted, query>>

\* A relay takes an event, unless it has a later one in its place.  Which of two
\* events of one second it keeps is decided by their ids.
Reach(r, e) ==
  /\ \A f \in store[r] : SameList(e, f) => f.created <= e.created
  /\ store' = [store EXCEPT ![r] = {f \in @ : ~SameList(e, f)} \cup {e}]
  /\ UNCHANGED <<now, signed, delete_at, deleted, accepted, query>>

AfterRequestAlways(s, ok) == delete_at[s] + 1    \* mutant: `?` is missing
AfterRequest(s, ok) == IF ok THEN delete_at[s] + 1 ELSE 0

DeleteStart(s) ==
  /\ delete_at[s] = 0 /\ deleted[s] = None
  /\ delete_at' = [delete_at EXCEPT ![s] = 1]
  /\ UNCHANGED <<now, signed, store, deleted, accepted, query>>

\* One deletion request per kind; the first that fails ends the call.
DeleteStep(s) ==
  /\ delete_at[s] \in 1 .. Len(UNENCRYPTED_KINDS)
  /\ \E ok \in BOOLEAN :
       /\ accepted' = IF ok THEN accepted \cup {<<s, UNENCRYPTED_KINDS[delete_at[s]]>>}
                      ELSE accepted
       /\ delete_at' = [delete_at EXCEPT ![s] = AfterRequest(s, ok)]
       /\ deleted' = [deleted EXCEPT ![s] =
                        IF AfterRequest(s, ok) = 0 THEN "error"
                        ELSE IF AfterRequest(s, ok) > Len(UNENCRYPTED_KINDS) THEN "ok" ELSE None]
  /\ UNCHANGED <<now, signed, store, query>>

------------------------------------------------------------------------------
(* Discovery: one filter, by kind alone (discover_servers) or by kind and author
   (the four lists), sent to every relay, whose answers are waited for at most ten
   seconds. *)

Ask(k, a) ==
  /\ query.at # "fetch"
  /\ query' = [NoQuery EXCEPT !.at = "fetch", !.kind = k, !.author = a]
  /\ UNCHANGED <<now, signed, store, delete_at, deleted, accepted>>

Matches(e) == e.kind = query.kind /\ query.author \in {None, e.author}

Answer(r) ==
  /\ query.at = "fetch" /\ r \notin query.answered
  /\ query' = [query EXCEPT !.answered = @ \cup {r},
                            !.seen = @ \cup {e \in store[r] : Matches(e)}]
  /\ UNCHANGED <<now, signed, store, delete_at, deleted, accepted>>

OldestFirst(S) == {e \in S : \A f \in S : e.created <= f.created}    \* mutant
\* The events come sorted, the latest first; ids decide within a second.
MostRecent(S) == {e \in S : \A f \in S : f.created <= e.created}

\* What a list event says to the discovery; a list it does not find is empty.
Listed(e) == [author |-> e.author, created |-> e.created,
              version |-> IF e.key = DiscoveredKey(e.kind) THEN e.version ELSE 0]

\* discover_servers returns an entry per event.
ReturnServers ==
  /\ query.at = "fetch" /\ query.author = None
  /\ query' = [query EXCEPT !.at = "done", !.found = {Listed(e) : e \in query.seen}]
  /\ UNCHANGED <<now, signed, store, delete_at, deleted, accepted>>

\* fetch_list takes the first event; without one the list is empty.
ReturnList ==
  /\ query.at = "fetch" /\ query.author # None
  /\ \/ /\ query.seen = {}
        /\ query' = [query EXCEPT !.at = "done"]
     \/ \E e \in MostRecent(query.seen) :
          query' = [query EXCEPT !.at = "done", !.found = {Listed(e)}]
  /\ UNCHANGED <<now, signed, store, delete_at, deleted, accepted>>

\* fetch_events reports an error, and `?` passes it on.
FetchFails ==
  /\ query.at = "fetch"
  /\ query' = [query EXCEPT !.at = "failed"]
  /\ UNCHANGED <<now, signed, store, delete_at, deleted, accepted>>

------------------------------------------------------------------------------
Next ==
  \/ Second
  \/ \E p \in Publishes : Publish(p[1], p[2])
  \/ \E r \in Relays : Answer(r) \/ \E e \in signed : Reach(r, e)
  \/ \E s \in Deleters : DeleteStart(s) \/ DeleteStep(s)
  \/ \E a \in Asks : Ask(a[1], a[2])
  \/ Ask(SERVER_ANNOUNCEMENT_KIND, None)
  \/ ReturnServers \/ ReturnList \/ FetchFails

Spec == Init /\ [][Next]_vars

------------------------------------------------------------------------------
(* Properties *)

TypeOK ==
  /\ now \in 0 .. MaxTime
  /\ signed \subseteq Event
  /\ store \in [Relays -> SUBSET signed]
  /\ delete_at \in [Servers -> 0 .. Len(UNENCRYPTED_KINDS) + 1]
  /\ deleted \in [Servers -> {None, "ok", "error"}]
  /\ accepted \subseteq Servers \X Kinds
  /\ query.seen \subseteq signed

\* Whatever the answering relays hold of a server and kind, the discovery finds it
\* or something that server published later, with its content: neither a relay
\* that is behind nor another server's event hides it, although events reach the
\* relays in any order.  Only what was published in the same second may hide it.
DiscoveryFresh ==
  query.at = "done" =>
    \A e \in query.seen :
      e.kind = query.kind /\ query.author \in {None, e.author} =>
        \E f \in query.found :
          /\ f.author = e.author
          /\ f.version >= e.version \/ (f.version > 0 /\ f.created = e.created)

\* delete_announcements reports success only when every kind's deletion request was
\* accepted: a failure half-way, which leaves the later kinds announced, is told.
DeletedCoversAllKinds ==
  \A s \in Servers : deleted[s] = "ok" => \A k \in Kinds : <<s, k>> \in accepted
================================================================================
