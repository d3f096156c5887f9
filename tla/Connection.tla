----------------------------- MODULE Connection -----------------------------
(***************************************************************************)
(* Opening a session: the Worker (index.ts) asks the registry object to    *)
(* resolve a JWT, opens a session in the catalog object with the principal *)
(* and policy it was given, and signs the connection id.  The three run    *)
(* apart and every call between them can be interleaved with the admin     *)
(* API: credentials are issued, revoked or expire, the policy of the       *)
(* catalog is replaced or deleted.                                         *)
(***************************************************************************)
EXTENDS Naturals

CONSTANTS Attempt,      \* CONNECTION_REQUESTs; each is made once
          Credential,   \* first-party JWTs, by their jti
          Catalog,
          CatalogOf,    \* the catalog_id claim of a credential
          Document,     \* policy documents
          NoDocument,   \* what a catalog without a policy row has
          MaxVersion,   \* bound: policy versions
          None

ASSUME CatalogOfAssumption == CatalogOf \in [Credential -> Catalog]
ASSUME VersionsAreNaturals == MaxVersion \in Nat
ASSUME NoDocumentAssumption == NoDocument \notin Document

VARIABLES
    credentials,   \* the registry's row of a credential: "none", "active" or "revoked"
    expired,       \* credentials past their expires_at
    signed,        \* JWTs signed whose row is not inserted yet
    held,          \* JWTs the admin API returned
    policies,      \* catalog_auth_policies: document and version of every catalog
    attempts,      \* the Worker's and registry's progress with every attempt
    sessions,      \* session rows of the catalog objects, with their auth context
    doomed,        \* history: attempts whose credential was unusable when they began
    deleted        \* history: catalogs whose policy was deleted

registry == <<credentials, expired, signed, held, policies, deleted>>
vars == <<credentials, expired, signed, held, policies, attempts, sessions, doomed, deleted>>

Policy == [document : Document \cup {NoDocument}, version : 0..MaxVersion]
NoPolicy == [document |-> NoDocument, version |-> 0]

\* What resolveAuthString answers, and the session stores.
Grant == [credential : Credential, policy : Policy]

ASSUME NoneAssumption == None \notin Credential \cup Grant

Phase == {"idle", "verifying", "opening", "signing", "connected", "failed", "closed"}
Idle == [phase |-> "idle", credential |-> None, grant |-> None]

Session == [attempt : Attempt, grant : Grant]

Usable == {c \in Credential : credentials[c] = "active" /\ c \notin expired}

Init ==
    /\ credentials = [c \in Credential |-> "none"]
    /\ expired = {}
    /\ signed = {}
    /\ held = {}
    /\ policies = [k \in Catalog |-> NoPolicy]
    /\ attempts = [a \in Attempt |-> Idle]
    /\ sessions = {}
    /\ doomed = {}
    /\ deleted = {}

-----------------------------------------------------------------------------
(* The admin API at the registry                                           *)

\* Mistaken: the JWT is answered before its row is there.
SignAndAnswer(c) ==
    /\ credentials[c] = "none"
    /\ signed' = signed \cup {c}
    /\ held' = held \cup {c}
    /\ UNCHANGED <<credentials, expired, policies, attempts, sessions, doomed, deleted>>

\* createCredentialSync up to the await on the signature.
SignCredential(c) ==
    /\ credentials[c] = "none"
    /\ signed' = signed \cup {c}
    /\ UNCHANGED <<credentials, expired, held, policies, attempts, sessions, doomed, deleted>>

\* The INSERT after it.  The reply may not reach the administrator.
InsertCredential(c, delivered) ==
    /\ c \in signed
    /\ signed' = signed \ {c}
    /\ credentials' = [credentials EXCEPT ![c] = "active"]
    /\ held' = IF delivered THEN held \cup {c} ELSE held
    /\ UNCHANGED <<expired, policies, attempts, sessions, doomed, deleted>>

\* Updates no row when there is none, and keeps the first revocation.
RevokeCredential(c) ==
    /\ credentials[c] # "none"
    /\ credentials' = [credentials EXCEPT ![c] = "revoked"]
    /\ UNCHANGED <<expired, signed, held, policies, attempts, sessions, doomed, deleted>>

\* The clock passes expires_at.
Expire(c) ==
    /\ credentials[c] # "none"
    /\ expired' = expired \cup {c}
    /\ UNCHANGED <<credentials, signed, held, policies, attempts, sessions, doomed, deleted>>

\* Mistaken: a policy that replaces another keeps its version.
PutKeepsVersion(k, d) ==
    /\ policies[k].version < MaxVersion
    /\ policies' = [policies EXCEPT ![k] = [document |-> d, version |-> 1]]
    /\ UNCHANGED <<credentials, expired, signed, held, attempts, sessions, doomed, deleted>>

PutCatalogAuthPolicy(k, d) ==
    /\ policies[k].version < MaxVersion
    /\ policies' = [policies EXCEPT ![k] = [document |-> d, version |-> @.version + 1]]
    /\ UNCHANGED <<credentials, expired, signed, held, attempts, sessions, doomed, deleted>>

\* The row goes, and the version with it.
DeleteCatalogAuthPolicy(k) ==
    /\ policies' = [policies EXCEPT ![k] = NoPolicy]
    /\ deleted' = deleted \cup {k}
    /\ UNCHANGED <<credentials, expired, signed, held, attempts, sessions, doomed>>

-----------------------------------------------------------------------------
(* An attempt                                                              *)

Advance(a, record) == attempts' = [attempts EXCEPT ![a] = record]

\* A client sends the JWT; the registry begins to verify its signature.
Start(a, c) ==
    /\ attempts[a].phase = "idle"
    /\ c \in held
    /\ Advance(a, [phase |-> "verifying", credential |-> c, grant |-> None])
    /\ doomed' = IF c \in Usable THEN doomed ELSE doomed \cup {a}
    /\ UNCHANGED <<registry, sessions>>

\* Mistaken: the expiry of the row is not looked at.
ResolveExpired(a) ==
    LET c == attempts[a].credential IN
    /\ attempts[a].phase = "verifying"
    /\ credentials[c] = "active"
    /\ Advance(a, [phase |-> "opening", credential |-> c,
                   grant |-> [credential |-> c, policy |-> policies[CatalogOf[c]]]])
    /\ UNCHANGED <<registry, sessions, doomed>>

\* What follows the await in resolveFirstPartyJwt runs at once: the row is looked
\* up and the policy is read in one step.
Resolve(a) ==
    LET c == attempts[a].credential IN
    /\ attempts[a].phase = "verifying"
    /\ c \in Usable
    /\ Advance(a, [phase |-> "opening", credential |-> c,
                   grant |-> [credential |-> c, policy |-> policies[CatalogOf[c]]]])
    /\ UNCHANGED <<registry, sessions, doomed>>

\* "Invalid auth JWT"
Deny(a) ==
    /\ attempts[a].phase = "verifying"
    /\ attempts[a].credential \notin Usable
    /\ Advance(a, [attempts[a] EXCEPT !.phase = "failed"])
    /\ UNCHANGED <<registry, sessions, doomed>>

\* Mistaken: the object asks for the policy again.
OpenUnderCurrentPolicy(a) ==
    LET c == attempts[a].credential IN
    /\ attempts[a].phase = "opening"
    /\ sessions' = sessions \cup
         {[attempt |-> a, grant |-> [credential |-> c, policy |-> policies[CatalogOf[c]]]]}
    /\ Advance(a, [attempts[a] EXCEPT !.phase = "signing"])
    /\ UNCHANGED <<registry, doomed>>

\* openConnection of the catalog object: the session and its auth context.
Open(a) ==
    /\ attempts[a].phase = "opening"
    /\ sessions' = sessions \cup {[attempt |-> a, grant |-> attempts[a].grant]}
    /\ Advance(a, [attempts[a] EXCEPT !.phase = "signing"])
    /\ UNCHANGED <<registry, doomed>>

\* The signed connection id reaches the client.
Sign(a) ==
    /\ attempts[a].phase = "signing"
    /\ Advance(a, [attempts[a] EXCEPT !.phase = "connected"])
    /\ UNCHANGED <<registry, sessions, doomed>>

\* Mistaken: the failed attempt forgets whose it was.
FailAnonymously(a) ==
    /\ attempts[a].phase \in {"verifying", "opening", "signing"}
    /\ Advance(a, [attempts[a] EXCEPT !.phase = "failed", !.credential = None])
    /\ UNCHANGED <<registry, sessions, doomed>>

\* A call fails, the Worker is gone or the reply is lost.  A session that is
\* open by then stays: no client knows its id.
Fail(a) ==
    /\ attempts[a].phase \in {"verifying", "opening", "signing"}
    /\ Advance(a, [attempts[a] EXCEPT !.phase = "failed"])
    /\ UNCHANGED <<registry, sessions, doomed>>

\* Mistaken: the session row stays.
DisconnectKeepsSession(a) ==
    /\ attempts[a].phase = "connected"
    /\ Advance(a, [attempts[a] EXCEPT !.phase = "closed"])
    /\ UNCHANGED <<registry, sessions, doomed>>

\* DISCONNECT_MESSAGE: routed by the signed id, not by any credential.
Disconnect(a) ==
    /\ attempts[a].phase = "connected"
    /\ sessions' = {s \in sessions : s.attempt # a}
    /\ Advance(a, [attempts[a] EXCEPT !.phase = "closed"])
    /\ UNCHANGED <<registry, doomed>>

Administration ==
    \/ \E c \in Credential :
          \/ SignCredential(c)
          \/ \E delivered \in BOOLEAN : InsertCredential(c, delivered)
          \/ RevokeCredential(c)
          \/ Expire(c)
    \/ \E k \in Catalog :
          \/ \E d \in Document : PutCatalogAuthPolicy(k, d)
          \/ DeleteCatalogAuthPolicy(k)

Next ==
    \/ Administration
    \/ \E a \in Attempt :
          \/ \E c \in Credential : Start(a, c)
          \/ Resolve(a)
          \/ Deny(a)
          \/ Open(a)
          \/ Sign(a)
          \/ Fail(a)
          \/ Disconnect(a)

Spec == Init /\ [][Next]_vars

-----------------------------------------------------------------------------
(* Correctness                                                             *)

\* The rows of the registry and of the catalog objects hold what their columns
\* say, and a grant is for the credential that was sent.
TypeOK ==
    /\ credentials \in [Credential -> {"none", "active", "revoked"}]
    /\ expired \subseteq Credential
    /\ signed \subseteq Credential
    /\ held \subseteq Credential
    /\ policies \in [Catalog -> Policy]
    /\ attempts \in [Attempt -> [phase : Phase, credential : Credential \cup {None},
                                 grant : Grant \cup {None}]]
    /\ \A a \in Attempt : /\ attempts[a].phase # "idle" => attempts[a].credential \in Credential
                          /\ attempts[a].grant \in {None} \cup
                               [credential : {attempts[a].credential}, policy : Policy]
    /\ sessions \subseteq Session
    /\ doomed \subseteq Attempt
    /\ deleted \subseteq Catalog

\* A CONNECTION_REQUEST that arrives after its credential was revoked or has
\* expired opens no session, whatever is administered while the registry
\* verifies the signature.
DoomedAttemptsOpenNothing == \A s \in sessions : s.attempt \notin doomed

\* Every JWT the admin API handed out has a row in the registry, so that
\* DELETE .../credentials/<id> can revoke it: the signature made before the
\* INSERT, or a reply that is lost, leaves none that only expiry stops.
HeldCredentialsCanBeRevoked == \A c \in held : credentials[c] # "none"

SessionsOf(a) == {s \in sessions : s.attempt = a}

\* A client that was answered has the one session its signed id names, until it
\* disconnects; a session nobody was told of belongs to an attempt that is
\* under way or that failed after the catalog object opened it.
AnsweredClientsHaveOneSession ==
    \A a \in Attempt :
        /\ \A s, t \in SessionsOf(a) : s = t
        /\ attempts[a].phase \in {"signing", "connected"} => SessionsOf(a) # {}
        /\ attempts[a].phase \in {"idle", "verifying", "opening", "closed"} => SessionsOf(a) = {}

\* policyVersion names a policy: as long as the policy of a catalog is never
\* deleted, two sessions of it with equal versions were given equal documents,
\* and no session has a version the registry has not reached.
VersionNamesPolicy ==
    \A s \in sessions :
        LET k == CatalogOf[s.grant.credential]
            p == s.grant.policy
        IN  k \notin deleted =>
              /\ p.version <= policies[k].version
              /\ p.version = policies[k].version => p.document = policies[k].document
              /\ \A t \in sessions :
                    /\ CatalogOf[t.grant.credential] = k
                    /\ t.grant.policy.version = p.version
                    => t.grant.policy = p

\* "Revocation prevents new sessions with that JWT" (guides/authn-authz.md).
RevocationPreventsNewSessions ==
    [][\A s \in sessions' \ sessions : credentials[s.grant.credential] # "revoked"]_vars

-----------------------------------------------------------------------------
(* The promise: authentication and the choice of the policy are one step.  *)

Opened ==
    {a \in Attempt : \/ attempts[a].phase \in {"signing", "connected", "closed"}
                     \/ SessionsOf(a) # {}}

Promise == INSTANCE AtomicGrant WITH
    Ungranted <- None,
    usable    <- Usable,
    policy    <- policies,
    grant     <- [a \in Attempt |-> attempts[a].grant],
    opened    <- Opened,
    sessions  <- sessions

\* Every session holds the principal and the policy that were valid together at
\* one instant of its attempt, and an attempt opens at most one.
ImplementsAtomicGrant == Promise!Spec
=============================================================================
