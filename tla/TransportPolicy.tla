--------------------------- MODULE TransportPolicy ---------------------------
(***************************************************************************)
(* The pure decisions of the transports: who may be served, what may be    *)
(* read, and how a message leaves.  Nothing here has state.  Strings are   *)
(* compared only, so method and capability names are whatever the          *)
(* instance uses; a message is a record                                    *)
(*   [kind, id, method, name, token]                                       *)
(* whose absent fields are None.                                           *)
(***************************************************************************)
EXTENDS Naturals

CONSTANTS
  EncryptionMode,  \* "Optional", "Required" or "Disabled"
  Allowed,         \* allowed_public_keys; empty means everybody
  Excluded,        \* excluded_capabilities, records [method, name]
  None             \* an absent value (Option::None)

ASSUME ModeAssumption ==
  EncryptionMode \in {"Optional", "Required", "Disabled"}

(***************************************************************************)
(* JsonRpcMessage::method() and the capability name the authorization      *)
(* check reads: a response has neither, and a name is taken from the       *)
(* params of a request only.                                               *)
(***************************************************************************)
MethodOf(m) == IF m.kind \in {"request", "notification"} THEN m.method ELSE ""
NameOf(m)   == IF m.kind = "request" THEN m.name ELSE None

IsCapabilityExcluded(method, name) ==
  \/ method \in {"initialize", "notifications/initialized"}
  \/ \E x \in Excluded : x.method = method /\ x.name \in {None, name}

Authorized(author, m) ==
  \/ Allowed = {}
  \/ author \in Allowed
  \/ IsCapabilityExcluded(MethodOf(m), NameOf(m))

\* The server's encryption gate on what comes in (wrapped = kind 1059).
Readable(wrapped) == EncryptionMode # (IF wrapped THEN "Disabled" ELSE "Required")

\* BaseTransport::should_encrypt for a message kind; requested is
\* TRUE, FALSE or None.
ShouldEncrypt(requested) ==
  \/ EncryptionMode = "Required"
  \/ EncryptionMode = "Optional" /\ requested # FALSE
==============================================================================
