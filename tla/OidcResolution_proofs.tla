------------------------ MODULE OidcResolution_proofs ------------------------
(***************************************************************************)
(* What holds of providers, mappings and resolutions for every set of      *)
(* providers, configurations, tokens, catalogs and documents.              *)
(***************************************************************************)
EXTENDS OidcResolution, WellFoundedInduction, TLAPS

\* A set of naturals that is not empty has a least element, which Min is.
LEMMA MinIsMember ==
    ASSUME NEW S \in SUBSET Nat, S # {}
    PROVE  Min(S) \in S
  <1>1. PICK x \in S : \A y \in S : <<y, x>> \notin OpToRel(<, Nat)
    BY WFMin, NatLessThanWellFounded, Zenon
  <1>2. ASSUME NEW y \in S
        PROVE  x =< y
    <2>1. x \in Nat /\ y \in Nat
      OBVIOUS
    <2>2. y < x => <<y, x>> \in OpToRel(<, Nat)
      BY <2>1 DEF OpToRel
    <2>3. ~(y < x)
      BY <1>1, <2>2, Zenon
    <2>4. QED
      BY <2>1, <2>3
  <1>3. QED
    BY <1>2 DEF Min

\* What a resolution under way has found out: the providers before the current one have
\* answered, and what they answered is what their listed configurations say.
Verifying(r) ==
    /\ \A p \in r.left : r.providers[p] # None
    /\ \A s \in r.successes :
          /\ Accepts(r.providers, s.provider, r.token)
          /\ r.providers[s.provider].answer[r.token] = s.user
    /\ \A p \in Provider \ r.left :
          /\ Accepts(r.providers, p, r.token)
          /\ ~r.providers[p].remote
          /\ r.token \notin expired
          => \E s \in r.successes : s.provider = p

ResolutionsAreExact == \A a \in Attempt : attempts[a].phase = "verifying" => Verifying(attempts[a])

-----------------------------------------------------------------------------
(* One turn of the loop over the providers                                 *)

\* The provider whose turn it is is one of those that are left, with its configuration.
LEMMA CurrentIsLeft ==
    ASSUME TypeOK, ResolutionsAreExact, NEW a \in Attempt, attempts[a].phase = "verifying"
    PROVE  /\ attempts[a] \in VerifyingState
           /\ Current(a) \in attempts[a].left
           /\ Current(a) \in Provider
           /\ attempts[a].providers[Current(a)] \in Config
  <1>1. attempts[a] \in VerifyingState /\ attempts[a].left # {}
    BY DEF TypeOK, GrantedState, Idle, Refusal
  <1>2. attempts[a].left \in SUBSET Nat
    BY <1>1, ProvidersAreOrdered DEF VerifyingState
  <1>3. Current(a) \in attempts[a].left
    BY <1>1, <1>2, MinIsMember DEF Current
  <1>4. Current(a) \in Provider
    BY <1>1, <1>3 DEF VerifyingState
  <1>5. attempts[a].providers[Current(a)] # None
    BY <1>3 DEF ResolutionsAreExact, Verifying
  <1>6. attempts[a].providers[Current(a)] \in Config \cup {None}
    BY <1>1, <1>4 DEF VerifyingState, Configured
  <1>7. QED
    BY <1>1, <1>3, <1>4, <1>5, <1>6

\* After its turn, the provider is no longer left, and the others are as they were.
LEMMA TurnIsExact ==
    ASSUME TypeOK, ResolutionsAreExact, NEW a \in Attempt, attempts[a].phase = "verifying",
           NEW reachable \in Reachable(a)
    PROVE  LET r == attempts[a]
               new == Successes(a, reachable)
           IN  /\ new \in SUBSET Success
               /\ \A s \in new : /\ Accepts(r.providers, s.provider, r.token)
                                 /\ r.providers[s.provider].answer[r.token] = s.user
               /\ \A p \in Provider \ (r.left \ {Current(a)}) :
                     /\ Accepts(r.providers, p, r.token)
                     /\ ~r.providers[p].remote
                     /\ r.token \notin expired
                     => \E s \in new : s.provider = p
  <1> DEFINE r == attempts[a]
             p0 == Current(a)
             user == r.providers[p0].answer[r.token]
             new == Successes(a, reachable)
  <1>1. /\ r \in VerifyingState /\ p0 \in r.left /\ p0 \in Provider
        /\ r.providers[p0] \in Config
    BY CurrentIsLeft
  <1>2. user \in User \cup {Refused}
    <2>1. r.providers[p0].answer \in [Token -> User \cup {Refused}]
      BY <1>1, ConfigAssumption
    <2>2. r.token \in Token
      BY <1>1 DEF VerifyingState
    <2>3. QED
      BY <2>1, <2>2
  <1>3. \A s : s \in new <=> \/ s \in r.successes
                             \/ /\ s = [provider |-> p0, user |-> user]
                                /\ user # Refused /\ reachable /\ r.token \notin expired
    BY DEF Successes
  <1>4. new \in SUBSET Success
    <2>1. r.successes \in SUBSET Success
      BY <1>1 DEF VerifyingState
    <2>2. user # Refused => [provider |-> p0, user |-> user] \in Success
      BY <1>1, <1>2 DEF Success
    <2>3. QED
      BY <1>3, <2>1, <2>2
  <1>5. ASSUME NEW s \in new
        PROVE  /\ Accepts(r.providers, s.provider, r.token)
               /\ r.providers[s.provider].answer[r.token] = s.user
    <2>1. CASE s \in r.successes
      BY <2>1 DEF ResolutionsAreExact, Verifying
    <2>2. CASE s = [provider |-> p0, user |-> user] /\ user # Refused
      <3>1. r.providers[p0] # None
        BY <1>1, SentinelsAssumption
      <3>2. QED
        BY <2>2, <3>1 DEF Accepts
    <2>3. QED
      BY <1>3, <2>1, <2>2
  <1>6. ASSUME NEW p \in Provider \ (r.left \ {p0}),
               Accepts(r.providers, p, r.token), ~r.providers[p].remote, r.token \notin expired
        PROVE  \E s \in new : s.provider = p
    <2>1. CASE p = p0
      <3>1. reachable
        BY <1>6, <2>1 DEF Reachable
      <3>2. user # Refused
        BY <1>6, <2>1 DEF Accepts
      <3>3. [provider |-> p0, user |-> user] \in new
        BY <1>3, <1>6, <3>1, <3>2
      <3>4. QED
        BY <2>1, <3>3
    <2>2. CASE p # p0
      <3>1. \E s \in r.successes : s.provider = p
        BY <1>6, <2>2 DEF ResolutionsAreExact, Verifying
      <3>2. QED
        BY <1>3, <3>1
    <2>3. QED
      BY <2>1, <2>2
  <1>7. QED
    BY <1>4, <1>5, <1>6

\* A grant of the last turn is the only success, and its user is mapped to its catalog.
LEMMA GrantIsOfOnlySuccess ==
    ASSUME NEW successes, NEW g \in Grants(successes)
    PROVE  /\ g \in Grant
           /\ successes = {[provider |-> g.provider, user |-> g.user]}
           /\ {c \in Catalog : [provider |-> g.provider, user |-> g.user] \in mappings[c]} = {g.catalog}
  BY DEF Grants, MatchCatalogMappings

-----------------------------------------------------------------------------
(* The tables                                                              *)

\* Types and references depend on each other through nothing but the tables.
LEMMA AdministrationKeepsReferences ==
    ASSUME TypeOK, ReferencedProvidersExist, Administer
    PROVE  ReferencedProvidersExist' /\ attempts' = attempts /\ expired' = expired
  <1>1. ASSUME NEW p \in Provider, NEW config \in Config,
               CreateOidcProvider(p, config) \/ UpdateOidcProvider(p, config)
        PROVE  ReferencedProvidersExist' /\ attempts' = attempts /\ expired' = expired
    <2>1. providers' = [providers EXCEPT ![p] = config] /\ UNCHANGED <<mappings, attempts, expired>>
      BY <1>1 DEF CreateOidcProvider, UpdateOidcProvider
    <2>2. \A q \in Provider : Exists(q) => Exists(q)'
      BY <2>1, SentinelsAssumption DEF Exists, TypeOK, Configured
    <2>3. \A c \in Catalog : \A entry \in mappings[c] : entry.provider \in Provider
      BY DocumentAssumption DEF TypeOK
    <2>4. QED
      BY <2>1, <2>2, <2>3 DEF ReferencedProvidersExist, AllExist
  <1>2. ASSUME NEW p \in Provider, DeleteOidcProvider(p)
        PROVE  ReferencedProvidersExist' /\ attempts' = attempts /\ expired' = expired
    <2>1. /\ providers' = [providers EXCEPT ![p] = None] /\ UNCHANGED <<mappings, attempts, expired>>
          /\ \A c \in Catalog : \A entry \in mappings[c] : entry.provider # p
      BY <1>2 DEF DeleteOidcProvider, ReferencingProvider
    <2>2. \A q : q # p /\ Exists(q) => Exists(q)'
      BY <2>1 DEF Exists, TypeOK, Configured
    <2>3. QED
      BY <2>1, <2>2 DEF ReferencedProvidersExist, AllExist
  <1>3. ASSUME NEW m \in Admin, NEW c \in Catalog, NEW document \in Document,
               CheckMapping(m, c, document)
        PROVE  ReferencedProvidersExist' /\ attempts' = attempts /\ expired' = expired
    BY <1>3 DEF CheckMapping, ReferencedProvidersExist, AllExist, Exists
  <1>4. ASSUME NEW m \in Admin, ReplaceCatalogAuthMapping(m)
        PROVE  ReferencedProvidersExist' /\ attempts' = attempts /\ expired' = expired
    <2>1. UNCHANGED <<providers, attempts, expired>>
      BY <1>4 DEF ReplaceCatalogAuthMapping
    <2>2. CASE AllExist(puts[m].document)
      <3>1. mappings' = [mappings EXCEPT ![puts[m].catalog] = puts[m].document]
        BY <1>4, <2>2 DEF ReplaceCatalogAuthMapping
      <3>2. ASSUME NEW c \in Catalog
            PROVE  mappings'[c] \in {mappings[c], puts[m].document}
        BY <3>1 DEF TypeOK
      <3>3. QED
        BY <2>1, <2>2, <3>2 DEF ReferencedProvidersExist, AllExist, Exists
    <2>3. CASE ~AllExist(puts[m].document)
      BY <1>4, <2>1, <2>3 DEF ReplaceCatalogAuthMapping, ReferencedProvidersExist, AllExist, Exists
    <2>4. QED
      BY <2>1, <2>2, <2>3
  <1>5. ASSUME NEW c \in Catalog, DeleteCatalogAuthMapping(c)
        PROVE  ReferencedProvidersExist' /\ attempts' = attempts /\ expired' = expired
    BY <1>5 DEF DeleteCatalogAuthMapping, ReferencedProvidersExist, AllExist, Exists, TypeOK
  <1>6. QED
    BY <1>1, <1>2, <1>3, <1>4, <1>5 DEF Administer

LEMMA AdministrationKeepsTypes ==
    ASSUME TypeOK, Administer
    PROVE  TypeOK'
  <1>1. ASSUME NEW p \in Provider, NEW config \in Config,
               CreateOidcProvider(p, config) \/ UpdateOidcProvider(p, config)
        PROVE  TypeOK'
    <2>1. /\ providers' = [providers EXCEPT ![p] = config]
          /\ UNCHANGED <<mappings, puts, expired, attempts>>
      BY <1>1 DEF CreateOidcProvider, UpdateOidcProvider
    <2>2. providers' \in Configured
      BY <2>1 DEF TypeOK, Configured
    <2>3. QED
      BY <2>1, <2>2 DEF TypeOK
  <1>2. ASSUME NEW p \in Provider, DeleteOidcProvider(p)
        PROVE  TypeOK'
    <2>1. providers' \in Configured
      BY <1>2 DEF DeleteOidcProvider, TypeOK, Configured
    <2>2. QED
      BY <1>2, <2>1 DEF DeleteOidcProvider, TypeOK
  <1>3. ASSUME NEW m \in Admin, NEW c \in Catalog, NEW document \in Document,
               CheckMapping(m, c, document)
        PROVE  TypeOK'
    <2>1. puts' \in [Admin -> Put \cup {None}]
      BY <1>3 DEF CheckMapping, TypeOK, Put
    <2>2. QED
      BY <1>3, <2>1 DEF CheckMapping, TypeOK
  <1>4. ASSUME NEW m \in Admin, ReplaceCatalogAuthMapping(m)
        PROVE  TypeOK'
    <2>1. puts[m] \in Put
      BY <1>4 DEF ReplaceCatalogAuthMapping, TypeOK
    <2>2. mappings' \in [Catalog -> Document \cup {{}}] /\ puts' \in [Admin -> Put \cup {None}]
      BY <1>4, <2>1 DEF ReplaceCatalogAuthMapping, TypeOK, Put
    <2>3. QED
      BY <1>4, <2>2 DEF ReplaceCatalogAuthMapping, TypeOK
  <1>5. ASSUME NEW c \in Catalog, DeleteCatalogAuthMapping(c)
        PROVE  TypeOK'
    BY <1>5 DEF DeleteCatalogAuthMapping, TypeOK
  <1>6. QED
    BY <1>1, <1>2, <1>3, <1>4, <1>5 DEF Administer

-----------------------------------------------------------------------------
(* The invariant                                                           *)

ResolutionInvariant ==
    TypeOK /\ ReferencedProvidersExist /\ ResolutionsAreExact /\ GrantsAreUnambiguous

\* What a resolution may become in a step that leaves the tables alone.
LEMMA OneAttemptChanges ==
    ASSUME ResolutionInvariant, UNCHANGED <<providers, mappings, puts, expired>>,
           NEW a \in Attempt, NEW r, attempts' = [attempts EXCEPT ![a] = r],
           \/ r \in {Idle, Refusal}
           \/ r \in VerifyingState /\ r.left # {} /\ Verifying(r)
           \/ /\ r \in GrantedState
              /\ Accepts(r.providers, r.grant.provider, r.token)
              /\ r.providers[r.grant.provider].answer[r.token] = r.grant.user
              /\ \A p \in Provider \ {r.grant.provider} :
                    Accepts(r.providers, p, r.token) => r.providers[p].remote \/ r.token \in expired
    PROVE  ResolutionInvariant'
  <1>1. \A b \in Attempt : attempts'[b] = IF b = a THEN r ELSE attempts[b]
    BY DEF ResolutionInvariant, TypeOK
  <1>2. /\ Idle.phase = "idle" /\ Refusal.phase = "refused"
        /\ r \in VerifyingState => r.phase = "verifying"
        /\ r \in GrantedState => r.phase = "granted"
    BY DEF Idle, Refusal, VerifyingState, GrantedState
  <1>3. TypeOK'
    <2>1. attempts' \in [Attempt -> {Idle, Refusal} \cup VerifyingState \cup GrantedState]
      BY DEF ResolutionInvariant, TypeOK
    <2>2. \A b \in Attempt : attempts'[b].phase = "verifying" => attempts'[b].left # {}
      BY <1>1, <1>2 DEF ResolutionInvariant, TypeOK
    <2>3. QED
      BY <2>1, <2>2 DEF ResolutionInvariant, TypeOK
  <1>4. ReferencedProvidersExist'
    BY DEF ResolutionInvariant, ReferencedProvidersExist, AllExist, Exists
  <1>5. ResolutionsAreExact'
    <2>1. ASSUME NEW b \in Attempt, attempts'[b].phase = "verifying"
          PROVE  Verifying(attempts'[b])
      <3>1. CASE b # a
        BY <1>1, <2>1, <3>1 DEF ResolutionInvariant, ResolutionsAreExact
      <3>2. CASE b = a
        BY <1>1, <1>2, <2>1, <3>2
      <3>3. QED
        BY <3>1, <3>2
    <2>2. ASSUME NEW b \in Attempt, Verifying(attempts'[b])
          PROVE  Verifying(attempts[b])'
      BY <2>2 DEF Verifying, Accepts
    <2>3. QED
      BY <2>1, <2>2 DEF ResolutionsAreExact
  <1>6. GrantsAreUnambiguous'
    <2>1. ASSUME NEW b \in Attempt, attempts'[b].phase = "granted"
          PROVE  LET s == attempts'[b]
                 IN  /\ Accepts(s.providers, s.grant.provider, s.token)
                     /\ s.providers[s.grant.provider].answer[s.token] = s.grant.user
                     /\ \A p \in Provider \ {s.grant.provider} :
                           Accepts(s.providers, p, s.token) =>
                              s.providers[p].remote \/ s.token \in expired
      <3>1. CASE b # a
        BY <1>1, <2>1, <3>1 DEF ResolutionInvariant, GrantsAreUnambiguous
      <3>2. CASE b = a
        BY <1>1, <1>2, <2>1, <3>2
      <3>3. QED
        BY <3>1, <3>2
    <2>2. QED
      BY <2>1 DEF GrantsAreUnambiguous, Accepts
  <1>7. QED
    BY <1>3, <1>4, <1>5, <1>6 DEF ResolutionInvariant

LEMMA StartKeepsInvariant ==
    ASSUME ResolutionInvariant, NEW a \in Attempt, NEW t \in Token, Start(a, t)
    PROVE  ResolutionInvariant'
  <1> DEFINE listed == {p \in Provider : Exists(p)}
             r == IF listed = {} THEN Refusal
                  ELSE [phase |-> "verifying", token |-> t, providers |-> providers,
                        left |-> listed, successes |-> {}]
  <1>1. attempts' = [attempts EXCEPT ![a] = r] /\ UNCHANGED <<providers, mappings, puts, expired>>
    BY DEF Start
  <1>2. CASE listed = {}
    BY <1>1, <1>2, OneAttemptChanges
  <1>3. CASE listed # {}
    <2>1. r \in VerifyingState /\ r.left # {}
      BY <1>3 DEF VerifyingState, ResolutionInvariant, TypeOK
    <2>2. Verifying(r)
      BY <1>3 DEF Verifying, Exists, Accepts
    <2>3. QED
      BY <1>1, <2>1, <2>2, OneAttemptChanges
  <1>4. QED
    BY <1>2, <1>3

LEMMA VerifyKeepsInvariant ==
    ASSUME ResolutionInvariant, NEW a \in Attempt, NEW reachable \in Reachable(a),
           Verify(a, reachable)
    PROVE  ResolutionInvariant'
  <1> DEFINE new == Successes(a, reachable)
             r == [attempts[a] EXCEPT !.left = @ \ {Current(a)}, !.successes = new]
  <1>1. attempts[a].phase = "verifying" /\ attempts[a].left # {Current(a)}
    BY DEF Verify
  <1>2. attempts[a] \in VerifyingState /\ Current(a) \in attempts[a].left
    BY <1>1, CurrentIsLeft DEF ResolutionInvariant
  <1>3. /\ new \in SUBSET Success
        /\ \A s \in new : /\ Accepts(attempts[a].providers, s.provider, attempts[a].token)
                          /\ attempts[a].providers[s.provider].answer[attempts[a].token] = s.user
        /\ \A p \in Provider \ (attempts[a].left \ {Current(a)}) :
              /\ Accepts(attempts[a].providers, p, attempts[a].token)
              /\ ~attempts[a].providers[p].remote
              /\ attempts[a].token \notin expired
              => \E s \in new : s.provider = p
    BY <1>1, TurnIsExact DEF ResolutionInvariant
  <1>4. /\ r \in VerifyingState /\ r.left = attempts[a].left \ {Current(a)} /\ r.left # {}
        /\ r.successes = new /\ r.token = attempts[a].token /\ r.providers = attempts[a].providers
    BY <1>1, <1>2, <1>3 DEF VerifyingState
  <1>5. Verifying(r)
    <2>1. \A p \in r.left : r.providers[p] # None
      BY <1>1, <1>4 DEF ResolutionInvariant, ResolutionsAreExact, Verifying
    <2>2. QED
      BY <1>3, <1>4, <2>1 DEF Verifying
  <1>6. attempts' = [attempts EXCEPT ![a] = r] /\ UNCHANGED <<providers, mappings, puts, expired>>
    BY <1>2 DEF Verify, ResolutionInvariant, TypeOK, VerifyingState
  <1>7. QED
    BY <1>4, <1>5, <1>6, OneAttemptChanges

LEMMA ResolveKeepsInvariant ==
    ASSUME ResolutionInvariant, NEW a \in Attempt, NEW reachable \in Reachable(a),
           Resolve(a, reachable)
    PROVE  ResolutionInvariant'
  <1> DEFINE new == Successes(a, reachable)
  <1>1. PICK g \in Grants(new) :
            attempts' = [attempts EXCEPT ![a] =
               [phase |-> "granted", token |-> @.token, providers |-> @.providers, grant |-> g]]
    BY DEF Resolve
  <1> DEFINE r == [phase |-> "granted", token |-> attempts[a].token,
                   providers |-> attempts[a].providers, grant |-> g]
  <1>2. /\ attempts[a].phase = "verifying" /\ attempts[a].left = {Current(a)}
        /\ UNCHANGED <<providers, mappings, puts, expired>>
        /\ attempts' = [attempts EXCEPT ![a] = r]
    BY <1>1 DEF Resolve, ResolutionInvariant, TypeOK
  <1>3. attempts[a] \in VerifyingState
    BY <1>2, CurrentIsLeft DEF ResolutionInvariant
  <1>4. g \in Grant /\ new = {[provider |-> g.provider, user |-> g.user]}
    BY GrantIsOfOnlySuccess
  <1>5. r \in GrantedState
    BY <1>3, <1>4 DEF GrantedState, VerifyingState
  <1>6. /\ Accepts(r.providers, g.provider, r.token)
        /\ r.providers[g.provider].answer[r.token] = g.user
    <2>1. [provider |-> g.provider, user |-> g.user] \in new
      BY <1>4
    <2>2. QED
      BY <1>2, <2>1, TurnIsExact DEF ResolutionInvariant
  <1>7. ASSUME NEW p \in Provider \ {g.provider}, Accepts(r.providers, p, r.token)
        PROVE  r.providers[p].remote \/ r.token \in expired
    <2>1. p \in Provider \ (attempts[a].left \ {Current(a)})
      BY <1>2
    <2>2. \A s \in new : s.provider # p
      BY <1>4, <1>7
    <2>3. QED
      BY <1>2, <1>7, <2>1, <2>2, TurnIsExact DEF ResolutionInvariant
  <1>8. QED
    BY <1>2, <1>5, <1>6, <1>7, OneAttemptChanges

LEMMA RefuseKeepsInvariant ==
    ASSUME ResolutionInvariant, NEW a \in Attempt, NEW reachable, Refuse(a, reachable)
    PROVE  ResolutionInvariant'
  BY OneAttemptChanges DEF Refuse

LEMMA ResolutionInvariantKept ==
    ASSUME ResolutionInvariant, [Next]_vars
    PROVE  ResolutionInvariant'
  <1>1. CASE Administer
    <2>1. TypeOK' /\ ReferencedProvidersExist' /\ attempts' = attempts /\ expired' = expired
      BY <1>1, AdministrationKeepsReferences, AdministrationKeepsTypes DEF ResolutionInvariant
    <2>2. QED
      BY <2>1 DEF ResolutionInvariant, ResolutionsAreExact, Verifying, GrantsAreUnambiguous, Accepts
  <1>2. ASSUME NEW t \in Token, Expire(t)
        PROVE  ResolutionInvariant'
    <2>1. expired \subseteq expired' /\ UNCHANGED <<providers, mappings, puts, attempts>>
      BY <1>2 DEF Expire
    <2>2. TypeOK'
      BY <1>2 DEF Expire, ResolutionInvariant, TypeOK
    <2>3. ReferencedProvidersExist'
      BY <2>1 DEF ResolutionInvariant, ReferencedProvidersExist, AllExist, Exists
    <2>4. ResolutionsAreExact'
      BY <2>1 DEF ResolutionInvariant, ResolutionsAreExact, Verifying, Accepts
    <2>5. GrantsAreUnambiguous'
      BY <2>1 DEF ResolutionInvariant, GrantsAreUnambiguous, Accepts
    <2>6. QED
      BY <2>2, <2>3, <2>4, <2>5 DEF ResolutionInvariant
  <1>3. ASSUME NEW a \in Attempt, NEW t \in Token, Start(a, t)
        PROVE  ResolutionInvariant'
    BY <1>3, StartKeepsInvariant
  <1>4. ASSUME NEW a \in Attempt, Continue(a)
        PROVE  ResolutionInvariant'
    <2>1. PICK reachable \in Reachable(a) :
              Verify(a, reachable) \/ Resolve(a, reachable) \/ Refuse(a, reachable)
      BY <1>4 DEF Continue
    <2>2. QED
      BY <2>1, VerifyKeepsInvariant, ResolveKeepsInvariant, RefuseKeepsInvariant
  <1>5. CASE UNCHANGED vars
    BY <1>5 DEF vars, ResolutionInvariant, TypeOK, ReferencedProvidersExist, AllExist, Exists,
                ResolutionsAreExact, Verifying, GrantsAreUnambiguous, Accepts
  <1>6. QED
    BY <1>1, <1>2, <1>3, <1>4, <1>5 DEF Next

-----------------------------------------------------------------------------
(* The theorems                                                            *)

\* Tables and resolutions keep their types, and every resolution under way has found out
\* exactly what the configurations it listed say.
THEOREM ResolutionIsExact == Spec => []ResolutionInvariant
  <1>1. Init => ResolutionInvariant
    BY DEF Init, ResolutionInvariant, TypeOK, Configured, ReferencedProvidersExist, AllExist,
           ResolutionsAreExact, GrantsAreUnambiguous, Idle
  <1>2. ResolutionInvariant /\ [Next]_vars => ResolutionInvariant'
    BY ResolutionInvariantKept
  <1>3. QED
    BY <1>1, <1>2, PTL DEF Spec

THEOREM ResolutionTypeCorrect == Spec => []TypeOK
  <1>1. ResolutionInvariant => TypeOK
    BY DEF ResolutionInvariant
  <1>2. QED
    BY <1>1, ResolutionIsExact, PTL

\* No mapping names a provider that does not exist, whatever the order of PUT and DELETE.
THEOREM ReferencedProvidersAlwaysExist == Spec => []ReferencedProvidersExist
  <1>1. ResolutionInvariant => ReferencedProvidersExist
    BY DEF ResolutionInvariant
  <1>2. QED
    BY <1>1, ResolutionIsExact, PTL

\* A token that a second provider with keys of its own accepts is never granted.
THEOREM GrantsAlwaysUnambiguous == Spec => []GrantsAreUnambiguous
  <1>1. ResolutionInvariant => GrantsAreUnambiguous
    BY DEF ResolutionInvariant
  <1>2. QED
    BY <1>1, ResolutionIsExact, PTL

\* The provider of a grant exists, and the user is mapped to one catalog, when it is made.
THEOREM GrantsAlwaysMapped == Spec => GrantsAreMapped
  <1> DEFINE Mapped == \A a \in Attempt :
          attempts[a].phase = "verifying" /\ attempts'[a].phase = "granted" =>
              LET g == attempts'[a].grant
              IN  /\ Exists(g.provider)
                  /\ {c \in Catalog : \E entry \in mappings[c] :
                         entry.provider = g.provider /\ entry.user = g.user} = {g.catalog}
  <1>1. ResolutionInvariant /\ [Next]_vars => [Mapped]_vars
    <2> SUFFICES ASSUME ResolutionInvariant, [Next]_vars, NEW a \in Attempt,
                        attempts[a].phase = "verifying", attempts'[a].phase = "granted"
                 PROVE  LET g == attempts'[a].grant
                        IN  /\ Exists(g.provider)
                            /\ {c \in Catalog : \E entry \in mappings[c] :
                                   entry.provider = g.provider /\ entry.user = g.user} = {g.catalog}
      OBVIOUS
    <2>1. \E reachable \in BOOLEAN : Resolve(a, reachable)
      <3>1. ~ Administer
        BY AdministrationKeepsReferences DEF ResolutionInvariant
      <3>2. ASSUME NEW t \in Token
            PROVE  ~Expire(t) /\ ~ \E b \in Attempt : Start(b, t)
        BY DEF Expire, Start, Refusal, ResolutionInvariant, TypeOK
      <3>3. ASSUME NEW b \in Attempt, NEW reachable, Verify(b, reachable) \/ Refuse(b, reachable)
            PROVE  FALSE
        <4>1. ASSUME Verify(b, reachable)
              PROVE  attempts'[b].phase = "verifying" /\ \A c \in Attempt \ {b} : attempts'[c] = attempts[c]
          <5>1. attempts[b] \in VerifyingState
            BY <4>1, CurrentIsLeft DEF Verify, ResolutionInvariant
          <5>2. attempts' = [attempts EXCEPT ![b] =
                    [attempts[b] EXCEPT !.left = @ \ {Current(b)}, !.successes = Successes(b, reachable)]]
            BY <4>1, <5>1 DEF Verify, ResolutionInvariant, TypeOK, VerifyingState
          <5>3. QED
            BY <5>1, <5>2 DEF ResolutionInvariant, TypeOK, VerifyingState
        <4>2. ASSUME Refuse(b, reachable)
              PROVE  attempts'[b].phase = "refused" /\ \A c \in Attempt \ {b} : attempts'[c] = attempts[c]
          BY <4>2 DEF Refuse, Refusal, ResolutionInvariant, TypeOK
        <4>3. QED
          BY <3>3, <4>1, <4>2
      <3>4. PICK b \in Attempt, reachable \in BOOLEAN : Resolve(b, reachable)
        BY <3>1, <3>2, <3>3 DEF Next, Continue, vars
      <3>5. b = a
        BY <3>4 DEF Resolve, ResolutionInvariant, TypeOK
      <3>6. QED
        BY <3>4, <3>5
    <2>2. PICK reachable \in BOOLEAN : Resolve(a, reachable)
      BY <2>1
    <2>3. PICK g \in Grants(Successes(a, reachable)) : attempts'[a].grant = g
      BY <2>2 DEF Resolve, ResolutionInvariant, TypeOK
    <2>4. /\ g \in Grant
          /\ {c \in Catalog : [provider |-> g.provider, user |-> g.user] \in mappings[c]} = {g.catalog}
      BY <2>3, GrantIsOfOnlySuccess
    <2>5. \A c \in Catalog : \A entry \in mappings[c] : entry \in [provider : Provider, user : User]
      BY DocumentAssumption DEF ResolutionInvariant, TypeOK
    <2>6. \A c \in Catalog :
              (\E entry \in mappings[c] : entry.provider = g.provider /\ entry.user = g.user)
              <=> [provider |-> g.provider, user |-> g.user] \in mappings[c]
      BY <2>5
    <2>7. Exists(g.provider)
      <3>1. g.catalog \in Catalog /\ [provider |-> g.provider, user |-> g.user] \in mappings[g.catalog]
        BY <2>4
      <3>2. QED
        BY <3>1 DEF ResolutionInvariant, ReferencedProvidersExist, AllExist
    <2>8. QED
      BY <2>3, <2>4, <2>6, <2>7
  <1>2. QED
    BY <1>1, ResolutionIsExact, PTL DEF Spec, GrantsAreMapped
=============================================================================
