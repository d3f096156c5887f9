---------------------------- MODULE OidcResolution ---------------------------
(***************************************************************************)
(* The OIDC half of CatalogRegistry (registry.ts): providers and catalog   *)
(* mappings, which administrators change, and the resolution of a token,   *)
(* which reads the list of providers once, awaits the verification against *)
(* each of them in turn, and reads the mappings after the last.            *)
(*                                                                         *)
(* A provider's configuration is what it makes of every token: the user    *)
(* that its claim mapping reads out of the token, or Refused (issuer,      *)
(* audience, algorithm, signature), and whether its keys are fetched.      *)
(***************************************************************************)
EXTENDS Naturals, FiniteSetsExt

CONSTANTS Provider,     \* provider ids, in the order of ORDER BY provider_id
          Config,       \* [answer : [Token -> User \cup {Refused}], remote : BOOLEAN]
          Token, User, Catalog,
          Document,     \* mapping documents, as the [provider, user] they match
          Attempt,      \* calls of resolveAuthString
          Admin,        \* administrators that PUT mapping documents
          Refused, None

ASSUME ProvidersAreOrdered == Provider \subseteq Nat
ASSUME ConfigAssumption ==
    Config \subseteq [answer : [Token -> User \cup {Refused}], remote : BOOLEAN]
ASSUME DocumentAssumption == Document \subseteq SUBSET [provider : Provider, user : User]

VARIABLES providers,    \* oidc_providers: a configuration, or None without a row
          mappings,     \* catalog_auth_mappings; {} without a row
          puts,         \* what an administrator's PUT has checked and not yet written
          expired,      \* tokens past their exp
          attempts      \* the resolutions

vars == <<providers, mappings, puts, expired, attempts>>

Put == [catalog : Catalog, document : Document]
Success == [provider : Provider, user : User]
Grant == [catalog : Catalog, provider : Provider, user : User]

ASSUME SentinelsAssumption == None \notin Config /\ None \notin Put /\ Refused \notin User

Idle == [phase |-> "idle"]
Refusal == [phase |-> "refused"]

Init ==
    /\ providers = [p \in Provider |-> None]
    /\ mappings = [c \in Catalog |-> {}]
    /\ puts = [m \in Admin |-> None]
    /\ expired = {}
    /\ attempts = [a \in Attempt |-> Idle]

-----------------------------------------------------------------------------
(* Administration                                                          *)

Exists(p) == providers[p] # None

CreateOidcProvider(p, config) ==
    /\ ~Exists(p)
    /\ providers' = [providers EXCEPT ![p] = config]
    /\ UNCHANGED <<mappings, puts, expired, attempts>>

UpdateOidcProvider(p, config) ==
    /\ Exists(p)
    /\ providers' = [providers EXCEPT ![p] = config]
    /\ UNCHANGED <<mappings, puts, expired, attempts>>

ReferencingProvider(p) == {c \in Catalog : \E entry \in mappings[c] : entry.provider = p}

\* Refused with 409 while a mapping names the provider.
DeleteOidcProvider(p) ==
    /\ Exists(p) /\ ReferencingProvider(p) = {}
    /\ providers' = [providers EXCEPT ![p] = None]
    /\ UNCHANGED <<mappings, puts, expired, attempts>>

AllExist(document) == \A entry \in document : Exists(entry.provider)

\* The Worker's part of PUT auth-mapping; 404 when a provider is missing.
CheckMapping(m, c, document) ==
    /\ puts[m] = None /\ AllExist(document)
    /\ puts' = [puts EXCEPT ![m] = [catalog |-> c, document |-> document]]
    /\ UNCHANGED <<providers, mappings, expired, attempts>>

\* Mistaken: what the Worker checked is written as it is.
ReplaceUnchecked(m) ==
    /\ puts[m] # None
    /\ mappings' = [mappings EXCEPT ![puts[m].catalog] = puts[m].document]
    /\ puts' = [puts EXCEPT ![m] = None]
    /\ UNCHANGED <<providers, expired, attempts>>

\* The registry's part looks again, and throws when a provider is gone by now.
ReplaceCatalogAuthMapping(m) ==
    /\ puts[m] # None
    /\ mappings' = IF AllExist(puts[m].document)
                   THEN [mappings EXCEPT ![puts[m].catalog] = puts[m].document]
                   ELSE mappings
    /\ puts' = [puts EXCEPT ![m] = None]
    /\ UNCHANGED <<providers, expired, attempts>>

DeleteCatalogAuthMapping(c) ==
    /\ mappings' = [mappings EXCEPT ![c] = {}]
    /\ UNCHANGED <<providers, puts, expired, attempts>>

Expire(t) ==
    /\ expired' = expired \cup {t}
    /\ UNCHANGED <<providers, mappings, puts, attempts>>

-----------------------------------------------------------------------------
(* Resolution                                                              *)

\* Mistaken: a resolution without providers waits for the first of them.
StartAnyway(a, t) ==
    /\ attempts[a].phase # "verifying"
    /\ attempts' = [attempts EXCEPT ![a] =
          [phase |-> "verifying", token |-> t, providers |-> providers,
           left |-> {p \in Provider : Exists(p)}, successes |-> {}]]
    /\ UNCHANGED <<providers, mappings, puts, expired>>

\* listOidcProviders; without a provider there is nothing to await.
Start(a, t) ==
    /\ attempts[a].phase # "verifying"
    /\ LET listed == {p \in Provider : Exists(p)}
       IN  attempts' = [attempts EXCEPT ![a] =
              IF listed = {} THEN Refusal
              ELSE [phase |-> "verifying", token |-> t, providers |-> providers,
                    left |-> listed, successes |-> {}]]
    /\ UNCHANGED <<providers, mappings, puts, expired>>

\* The provider whose turn it is, and whether its keys can be had.
Current(a) == Min(attempts[a].left)
Reachable(a) == IF attempts[a].providers[Current(a)].remote THEN BOOLEAN ELSE {TRUE}

\* verifyOidcProvider, with the configuration as it was listed.
Successes(a, reachable) ==
    LET user == attempts[a].providers[Current(a)].answer[attempts[a].token]
    IN  attempts[a].successes \cup
           {[provider |-> Current(a), user |-> u] :
               u \in {u \in {user} \ {Refused} : reachable /\ attempts[a].token \notin expired}}

\* Mistaken: a mapping is looked up by what the token says, whoever verified it.
MatchAnyProvider(success) ==
    {c \in Catalog : \E entry \in mappings[c] : entry.user = success.user}

MatchCatalogMappings(success) == {c \in Catalog : success \in mappings[c]}

\* Mistaken: every provider that accepted the token will do.
GrantsOfAnySuccess(successes) ==
    {g \in Grant : \E success \in successes :
        /\ success = [provider |-> g.provider, user |-> g.user]
        /\ MatchCatalogMappings(success) = {g.catalog}}

\* At most one: the token was accepted once and its user is mapped to one catalog.
Grants(successes) ==
    {g \in Grant : \E success \in successes :
        /\ successes = {success}
        /\ success = [provider |-> g.provider, user |-> g.user]
        /\ MatchCatalogMappings(success) = {g.catalog}}

Verify(a, reachable) ==
    /\ attempts[a].phase = "verifying" /\ attempts[a].left # {Current(a)}
    /\ attempts' = [attempts EXCEPT ![a].left = @ \ {Current(a)},
                                    ![a].successes = Successes(a, reachable)]
    /\ UNCHANGED <<providers, mappings, puts, expired>>

\* The last verification and what follows it in the same step.
Resolve(a, reachable) ==
    /\ attempts[a].phase = "verifying" /\ attempts[a].left = {Current(a)}
    /\ \E g \in Grants(Successes(a, reachable)) :
          attempts' = [attempts EXCEPT ![a] =
             [phase |-> "granted", token |-> @.token, providers |-> @.providers, grant |-> g]]
    /\ UNCHANGED <<providers, mappings, puts, expired>>

\* Mistaken: only a token that no provider accepted is answered with a refusal.
RefuseUnaccepted(a, reachable) ==
    /\ attempts[a].phase = "verifying" /\ attempts[a].left = {Current(a)}
    /\ Successes(a, reachable) = {}
    /\ attempts' = [attempts EXCEPT ![a] = Refusal]
    /\ UNCHANGED <<providers, mappings, puts, expired>>

Refuse(a, reachable) ==
    /\ attempts[a].phase = "verifying" /\ attempts[a].left = {Current(a)}
    /\ Grants(Successes(a, reachable)) = {}
    /\ attempts' = [attempts EXCEPT ![a] = Refusal]
    /\ UNCHANGED <<providers, mappings, puts, expired>>

Continue(a) ==
    \E reachable \in BOOLEAN :
        /\ attempts[a].phase = "verifying" /\ reachable \in Reachable(a)
        /\ Verify(a, reachable) \/ Resolve(a, reachable) \/ Refuse(a, reachable)

Administer ==
    \/ \E p \in Provider, config \in Config :
          CreateOidcProvider(p, config) \/ UpdateOidcProvider(p, config)
    \/ \E p \in Provider : DeleteOidcProvider(p)
    \/ \E m \in Admin, c \in Catalog, document \in Document : CheckMapping(m, c, document)
    \/ \E m \in Admin : ReplaceCatalogAuthMapping(m)
    \/ \E c \in Catalog : DeleteCatalogAuthMapping(c)

Next ==
    \/ Administer
    \/ \E t \in Token : Expire(t)
    \/ \E a \in Attempt, t \in Token : Start(a, t)
    \/ \E a \in Attempt : Continue(a)

Spec == Init /\ [][Next]_vars

\* A verification ends: the fetch of keys times out, and everything else is computation.
FairSpec == Spec /\ \A a \in Attempt : WF_vars(Continue(a))

-----------------------------------------------------------------------------
(* Correctness                                                             *)

Configured == [Provider -> Config \cup {None}]
VerifyingState == [phase : {"verifying"}, token : Token, providers : Configured,
                   left : SUBSET Provider, successes : SUBSET Success]
GrantedState == [phase : {"granted"}, token : Token, providers : Configured, grant : Grant]

\* The tables and the state that a resolution keeps across its awaits.
TypeOK ==
    /\ providers \in Configured
    /\ mappings \in [Catalog -> Document \cup {{}}]
    /\ puts \in [Admin -> Put \cup {None}]
    /\ expired \subseteq Token
    /\ attempts \in [Attempt -> {Idle, Refusal} \cup VerifyingState \cup GrantedState]
    /\ \A a \in Attempt : attempts[a].phase = "verifying" => attempts[a].left # {}

\* guides/authn-authz.md:435: a provider is not deleted while a mapping names it.  A
\* mapping never names a provider that does not exist, not even when its PUT was checked
\* by the Worker before the provider was deleted and written by the registry after.
ReferencedProvidersExist ==
    \A c \in Catalog : AllExist(mappings[c])

\* What a configuration that was listed says of a token.
Accepts(listed, p, token) == listed[p] # None /\ listed[p].answer[token] # Refused

\* openapi.ts:1366: a token is granted only when one provider accepts it.  No other
\* provider of the list that was read could have accepted it for certain, and the user is
\* the one that provider's configuration of that time reads out of the token.
GrantsAreUnambiguous ==
    \A a \in Attempt : attempts[a].phase = "granted" =>
        LET listed == attempts[a].providers
            token == attempts[a].token
            g == attempts[a].grant
        IN  /\ Accepts(listed, g.provider, token) /\ listed[g.provider].answer[token] = g.user
            /\ \A p \in Provider \ {g.provider} :
                  Accepts(listed, p, token) => listed[p].remote \/ token \in expired

\* guides/authn-authz.md:807: at the moment of the grant the provider exists, although the
\* list of providers is old by then, and the user is mapped to that catalog and no other.
GrantsAreMapped ==
    [][\A a \in Attempt :
          attempts[a].phase = "verifying" /\ attempts'[a].phase = "granted" =>
              LET g == attempts'[a].grant
              IN  /\ Exists(g.provider)
                  /\ {c \in Catalog : \E entry \in mappings[c] :
                         entry.provider = g.provider /\ entry.user = g.user} = {g.catalog}]_vars

\* A token is answered, whatever becomes of providers and mappings meanwhile.
AttemptsAreAnswered ==
    \A a \in Attempt : attempts[a].phase = "verifying" ~> attempts[a].phase # "verifying"
=============================================================================
