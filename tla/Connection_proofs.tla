-------------------------- MODULE Connection_proofs --------------------------
(***************************************************************************)
(* What holds of connections for every set of attempts, credentials,       *)
(* catalogs and policies.                                                  *)
(***************************************************************************)
EXTENDS Connection, TLAPS

USE DEF registry

-----------------------------------------------------------------------------
(* Who touches what                                                        *)

\* The admin API touches no attempt and no session.
LEMMA AdministrationFrame ==
    Administration => UNCHANGED <<attempts, sessions, doomed>>
  BY DEF Administration, SignCredential, InsertCredential, RevokeCredential, Expire,
         PutCatalogAuthPolicy, DeleteCatalogAuthPolicy

\* What an attempt does leaves the registry alone.
LEMMA AttemptFrame ==
    Next => Administration \/ UNCHANGED registry
  BY DEF Next, Start, Resolve, Deny, Open, Sign, Fail, Disconnect

-----------------------------------------------------------------------------
(* Type correctness                                                        *)

\* The type of the registry's variables, which only the admin API changes.
RegistryOK ==
    /\ credentials \in [Credential -> {"none", "active", "revoked"}]
    /\ expired \subseteq Credential
    /\ signed \subseteq Credential
    /\ held \subseteq Credential
    /\ policies \in [Catalog -> Policy]
    /\ deleted \subseteq Catalog

LEMMA PolicyUpdate ==
    ASSUME RegistryOK, NEW k \in Catalog, NEW p \in Policy
    PROVE  [policies EXCEPT ![k] = p] \in [Catalog -> Policy]
  BY DEF RegistryOK

LEMMA RegistryStep ==
    RegistryOK /\ Administration => RegistryOK'
  <1> SUFFICES ASSUME RegistryOK, Administration PROVE RegistryOK'
    OBVIOUS
  <1>1. ASSUME NEW c \in Credential,
               \/ SignCredential(c)
               \/ \E delivered \in BOOLEAN : InsertCredential(c, delivered)
               \/ RevokeCredential(c)
               \/ Expire(c)
        PROVE  RegistryOK'
    BY <1>1 DEF SignCredential, InsertCredential, RevokeCredential, Expire, RegistryOK
  <1>2. ASSUME NEW k \in Catalog, NEW d \in Document, PutCatalogAuthPolicy(k, d)
        PROVE  RegistryOK'
    <2> DEFINE p == [document |-> d, version |-> policies[k].version + 1]
    <2>1. p \in Policy
      BY <1>2, VersionsAreNaturals DEF PutCatalogAuthPolicy, RegistryOK, Policy
    <2>2. policies' = [policies EXCEPT ![k] = p]
      BY <1>2 DEF PutCatalogAuthPolicy, RegistryOK
    <2>3. policies' \in [Catalog -> Policy]
      BY <2>1, <2>2, PolicyUpdate
    <2>4. QED
      BY <1>2, <2>3 DEF PutCatalogAuthPolicy, RegistryOK
  <1>3. ASSUME NEW k \in Catalog, DeleteCatalogAuthPolicy(k)
        PROVE  RegistryOK'
    <2>1. NoPolicy \in Policy
      BY VersionsAreNaturals DEF NoPolicy, Policy
    <2>2. policies' \in [Catalog -> Policy]
      BY <1>3, <2>1, PolicyUpdate DEF DeleteCatalogAuthPolicy
    <2>3. QED
      BY <1>3, <2>2 DEF DeleteCatalogAuthPolicy, RegistryOK
  <1>4. QED
    BY <1>1, <1>2, <1>3 DEF Administration

\* The type of an attempt's record, whose grant comes with its phase.
Attempted ==
    [phase : Phase, credential : Credential \cup {None}, grant : Grant \cup {None}]

Proper(r) ==
    /\ r \in Attempted
    /\ r.phase # "idle" => r.credential \in Credential
    /\ r.grant # None => r.grant.credential = r.credential
    /\ r.phase \in {"idle", "verifying"} => r.grant = None
    /\ r.phase \in {"opening", "signing", "connected", "closed"} => r.grant # None

AttemptsOK ==
    /\ attempts \in [Attempt -> Attempted]
    /\ \A a \in Attempt : Proper(attempts[a])

Typed ==
    /\ RegistryOK
    /\ AttemptsOK
    /\ sessions \subseteq Session
    /\ doomed \subseteq Attempt

LEMMA TypedIsTypeOK == Typed => TypeOK
  <1> SUFFICES ASSUME Typed PROVE TypeOK
    OBVIOUS
  <1>1. ASSUME NEW a \in Attempt
        PROVE  /\ attempts[a].phase # "idle" => attempts[a].credential \in Credential
               /\ attempts[a].grant \in {None} \cup
                    [credential : {attempts[a].credential}, policy : Policy]
    <2>1. Proper(attempts[a])
      BY DEF Typed, AttemptsOK
    <2>2. QED
      BY <2>1 DEF Proper, Attempted, Grant
  <1>2. QED
    BY <1>1 DEF Typed, RegistryOK, AttemptsOK, Attempted, TypeOK

\* A record whose phase changes.
LEMMA PhaseUpdate ==
    ASSUME NEW r \in Attempted, NEW p \in Phase
    PROVE  [r EXCEPT !.phase = p] = [phase |-> p, credential |-> r.credential, grant |-> r.grant]
  BY DEF Attempted

\* A step that gives one attempt a proper record keeps all of them proper.
LEMMA AdvanceType ==
    ASSUME AttemptsOK, NEW a \in Attempt, NEW r, Proper(r), Advance(a, r)
    PROVE  AttemptsOK'
  <1>1. r \in Attempted
    BY DEF Proper
  <1>2. attempts' = [attempts EXCEPT ![a] = r]
    BY DEF Advance
  <1>3. \A b \in Attempt : attempts'[b] = r \/ attempts'[b] = attempts[b]
    BY <1>2 DEF AttemptsOK
  <1>4. \A b \in Attempt : Proper(attempts'[b])
    BY <1>3 DEF AttemptsOK
  <1>5. QED
    BY <1>1, <1>2, <1>4 DEF AttemptsOK

\* The record an attempt moves to.
LEMMA RecordsAreProper ==
    ASSUME Typed, NEW a \in Attempt
    PROVE  /\ Resolve(a) => Proper([phase |-> "opening", credential |-> attempts[a].credential,
                                    grant |-> [credential |-> attempts[a].credential,
                                               policy |-> policies[CatalogOf[attempts[a].credential]]]])
           /\ \A p \in {"signing", "connected", "closed"} :
                 attempts[a].phase \in {"opening", "signing", "connected"}
                     => Proper([attempts[a] EXCEPT !.phase = p])
           /\ attempts[a].phase # "idle" => Proper([attempts[a] EXCEPT !.phase = "failed"])
  <1>1. Proper(attempts[a])
    BY DEF Typed, AttemptsOK
  <1>2. ASSUME Resolve(a)
        PROVE  Proper([phase |-> "opening", credential |-> attempts[a].credential,
                       grant |-> [credential |-> attempts[a].credential,
                                  policy |-> policies[CatalogOf[attempts[a].credential]]]])
    <2>1. attempts[a].credential \in Credential
      BY <1>1, <1>2 DEF Resolve, Proper
    <2>2. policies[CatalogOf[attempts[a].credential]] \in Policy
      BY <2>1, CatalogOfAssumption DEF Typed, RegistryOK
    <2> DEFINE g == [credential |-> attempts[a].credential,
                     policy |-> policies[CatalogOf[attempts[a].credential]]]
    <2>3. g \in Grant /\ g # None /\ g.credential = attempts[a].credential
      BY <2>1, <2>2, NoneAssumption DEF Grant
    <2> HIDE DEF g
    <2>4. Proper([phase |-> "opening", credential |-> attempts[a].credential, grant |-> g])
      BY <2>1, <2>3 DEF Proper, Attempted, Phase
    <2>5. QED
      BY <2>4 DEF g
  <1>3. \A p \in Phase : /\ attempts[a] \in Attempted
                         /\ [attempts[a] EXCEPT !.phase = p] =
                               [phase |-> p, credential |-> attempts[a].credential,
                                grant |-> attempts[a].grant]
    BY <1>1, PhaseUpdate DEF Proper
  <1>4. QED
    BY <1>1, <1>2, <1>3 DEF Proper, Attempted, Phase

LEMMA TypedStep == Typed /\ [Next]_vars => Typed'
  <1> SUFFICES ASSUME Typed, [Next]_vars PROVE Typed'
    OBVIOUS
  <1> USE DEF Typed
  <1>1. CASE Administration
    BY <1>1, RegistryStep, AdministrationFrame DEF AttemptsOK, Proper
  <1>2. ASSUME UNCHANGED registry
        PROVE  RegistryOK'
    BY <1>2 DEF RegistryOK
  <1>3. ASSUME NEW a \in Attempt, NEW c \in Credential, Start(a, c)
        PROVE  Typed'
    <2>1. Proper([phase |-> "verifying", credential |-> c, grant |-> None])
      BY DEF Proper, Attempted, Phase
    <2>2. AttemptsOK'
      BY <1>3, <2>1, AdvanceType DEF Start
    <2>3. QED
      BY <1>2, <1>3, <2>2 DEF Start
  <1>4. ASSUME NEW a \in Attempt, Resolve(a) \/ Deny(a) \/ Sign(a) \/ Fail(a)
        PROVE  Typed'
    <2>1. AttemptsOK'
      BY <1>4, RecordsAreProper, AdvanceType DEF Resolve, Deny, Sign, Fail
    <2>2. QED
      BY <1>2, <1>4, <2>1 DEF Resolve, Deny, Sign, Fail
  <1>5. ASSUME NEW a \in Attempt, Open(a)
        PROVE  Typed'
    <2>1. AttemptsOK'
      BY <1>5, RecordsAreProper, AdvanceType DEF Open
    <2>2. attempts[a].grant \in Grant
      BY <1>5 DEF Open, AttemptsOK, Proper, Attempted
    <2>3. QED
      BY <1>2, <1>5, <2>1, <2>2 DEF Open, Session
  <1>6. ASSUME NEW a \in Attempt, Disconnect(a)
        PROVE  Typed'
    <2>1. AttemptsOK'
      BY <1>6, RecordsAreProper, AdvanceType DEF Disconnect
    <2>2. QED
      BY <1>2, <1>6, <2>1 DEF Disconnect
  <1>7. CASE UNCHANGED vars
    BY <1>7 DEF vars, RegistryOK, AttemptsOK, Proper
  <1>8. QED
    BY <1>1, <1>3, <1>4, <1>5, <1>6, <1>7 DEF Next

LEMMA TypedAlways == Spec => []Typed
  <1>1. Init => Typed
    BY VersionsAreNaturals
    DEF Init, Typed, RegistryOK, AttemptsOK, Proper, Attempted, Idle, Phase, NoPolicy, Policy
  <1>2. QED
    BY <1>1, TypedStep, PTL DEF Spec

\* Registry rows, attempts and sessions keep their types, and a grant is for the
\* credential that the client sent.
THEOREM ConnectionTypeCorrect == Spec => []TypeOK
  BY TypedAlways, TypedIsTypeOK, PTL

-----------------------------------------------------------------------------
(* Credentials                                                             *)

\* A JWT that is signed and not inserted has no row, and no administrator has it.
Rows ==
    /\ \A c \in signed : credentials[c] = "none"
    /\ \A c \in held : credentials[c] # "none"

LEMMA RowsStep == Typed /\ Rows /\ [Next]_vars => Rows'
  <1> SUFFICES ASSUME Typed, Rows, [Next]_vars PROVE Rows'
    OBVIOUS
  <1> USE DEF Typed, RegistryOK, Rows
  <1>1. ASSUME NEW c \in Credential,
               \/ SignCredential(c)
               \/ \E delivered \in BOOLEAN : InsertCredential(c, delivered)
               \/ RevokeCredential(c)
               \/ Expire(c)
        PROVE  Rows'
    BY <1>1 DEF SignCredential, InsertCredential, RevokeCredential, Expire
  <1>2. ASSUME NEW k \in Catalog,
               (\E d \in Document : PutCatalogAuthPolicy(k, d)) \/ DeleteCatalogAuthPolicy(k)
        PROVE  Rows'
    BY <1>2 DEF PutCatalogAuthPolicy, DeleteCatalogAuthPolicy
  <1>3. CASE UNCHANGED registry
    BY <1>3
  <1>4. QED
    BY <1>1, <1>2, <1>3, AttemptFrame DEF Administration, vars

LEMMA RowsAlways == Spec => []Rows
  <1>1. Init => Rows
    BY DEF Init, Rows
  <1>2. QED
    BY <1>1, RowsStep, TypedAlways, PTL DEF Spec

\* Every JWT the admin API handed out has a row, which a revocation can reach.
THEOREM HeldAlwaysRevocable == Spec => []HeldCredentialsCanBeRevoked
  <1>1. Rows => HeldCredentialsCanBeRevoked
    BY DEF Rows, HeldCredentialsCanBeRevoked
  <1>2. QED
    BY <1>1, RowsAlways, PTL

\* The credentials that have a row and are not usable.
Spent == {c \in Credential : credentials[c] # "none"} \ Usable

LEMMA SpentStep ==
    ASSUME Typed, Rows, [Next]_vars, NEW e \in Spent
    PROVE  e \in Spent'
  <1> USE DEF Typed, RegistryOK, Rows, Spent, Usable
  <1>1. ASSUME NEW c \in Credential,
               \/ SignCredential(c)
               \/ \E delivered \in BOOLEAN : InsertCredential(c, delivered)
               \/ RevokeCredential(c)
               \/ Expire(c)
        PROVE  e \in Spent'
    BY <1>1 DEF SignCredential, InsertCredential, RevokeCredential, Expire
  <1>2. ASSUME NEW k \in Catalog,
               (\E d \in Document : PutCatalogAuthPolicy(k, d)) \/ DeleteCatalogAuthPolicy(k)
        PROVE  e \in Spent'
    BY <1>2 DEF PutCatalogAuthPolicy, DeleteCatalogAuthPolicy
  <1>3. CASE UNCHANGED registry
    BY <1>3
  <1>4. QED
    BY <1>1, <1>2, <1>3, AttemptFrame DEF Administration, vars

\* A doomed attempt waits for a denial or has failed, and its credential stays spent.
DoomedStayDoomed ==
    \A a \in doomed : /\ attempts[a].phase \in {"verifying", "failed"}
                      /\ attempts[a].grant = None
                      /\ attempts[a].credential \in Spent

LEMMA DoomedStep == Typed /\ Rows /\ DoomedStayDoomed /\ [Next]_vars => DoomedStayDoomed'
  <1> SUFFICES ASSUME Typed, Rows, DoomedStayDoomed, [Next]_vars,
                      NEW b \in doomed'
               PROVE  /\ attempts'[b].phase \in {"verifying", "failed"}
                      /\ attempts'[b].grant = None
                      /\ attempts'[b].credential \in Spent'
    BY DEF DoomedStayDoomed
  <1>1. ASSUME b \in doomed
        PROVE  attempts[b].credential \in Spent'
    <2>1. attempts[b].credential \in Credential /\ attempts[b].credential \in Spent
      BY <1>1 DEF Typed, AttemptsOK, Proper, DoomedStayDoomed
    <2>2. QED
      BY <2>1, SpentStep
  <1>2. ASSUME b \in doomed, attempts'[b] = attempts[b]
        PROVE  /\ attempts'[b].phase \in {"verifying", "failed"}
               /\ attempts'[b].grant = None
               /\ attempts'[b].credential \in Spent'
    BY <1>1, <1>2 DEF DoomedStayDoomed, Spent, Usable
  <1>3. ASSUME NEW a \in Attempt, NEW c \in Credential, Start(a, c)
        PROVE  /\ attempts'[b].phase \in {"verifying", "failed"}
               /\ attempts'[b].grant = None
               /\ attempts'[b].credential \in Spent'
    <2>1. CASE b = a
      <3>1. a \notin doomed
        BY <1>3 DEF Start, DoomedStayDoomed
      <3>2. c \in Spent
        BY <1>3, <2>1, <3>1 DEF Start, Rows, Spent
      <3>3. c \in Spent'
        BY <3>2, SpentStep
      <3>4. attempts'[b] = [phase |-> "verifying", credential |-> c, grant |-> None]
        BY <1>3, <2>1 DEF Start, Advance, Typed, AttemptsOK
      <3>5. QED
        BY <3>3, <3>4 DEF Spent, Usable
    <2>2. CASE b # a
      BY <1>2, <1>3, <2>2 DEF Start, Advance, Typed, AttemptsOK
    <2>3. QED
      BY <2>1, <2>2
  <1>4. ASSUME NEW a \in Attempt, Deny(a) \/ Fail(a)
        PROVE  /\ attempts'[b].phase \in {"verifying", "failed"}
               /\ attempts'[b].grant = None
               /\ attempts'[b].credential \in Spent'
    <2>1. b \in doomed
      BY <1>4 DEF Deny, Fail
    <2>2. CASE b = a
      <3>1. attempts[a] \in Attempted
        BY <1>4 DEF Typed, AttemptsOK
      <3>2. attempts'[b] = [phase |-> "failed", credential |-> attempts[a].credential,
                            grant |-> attempts[a].grant]
        BY <1>4, <2>2, <3>1, PhaseUpdate DEF Deny, Fail, Advance, Typed, AttemptsOK, Phase
      <3>3. QED
        BY <1>1, <2>1, <2>2, <3>2 DEF DoomedStayDoomed, Spent, Usable
    <2>3. CASE b # a
      BY <1>2, <1>4, <2>1, <2>3 DEF Deny, Fail, Advance, Typed, AttemptsOK
    <2>4. QED
      BY <2>2, <2>3
  <1>5. ASSUME NEW a \in Attempt, Resolve(a) \/ Open(a) \/ Sign(a) \/ Disconnect(a)
        PROVE  b \in doomed /\ attempts'[b] = attempts[b]
    <2>1. b \in doomed
      BY <1>5 DEF Resolve, Open, Sign, Disconnect
    <2>2. a # b
      BY <1>5, <2>1 DEF Resolve, Open, Sign, Disconnect, DoomedStayDoomed, Spent
    <2>3. QED
      BY <1>5, <2>1, <2>2 DEF Resolve, Open, Sign, Disconnect, Advance, Typed, AttemptsOK
  <1>6. CASE Administration
    BY <1>2, <1>6, AdministrationFrame
  <1>7. CASE UNCHANGED vars
    BY <1>2, <1>7 DEF vars
  <1>8. QED
    BY <1>2, <1>3, <1>4, <1>5, <1>6, <1>7 DEF Next

LEMMA DoomedAlways == Spec => []DoomedStayDoomed
  <1>1. Init => DoomedStayDoomed
    BY DEF Init, DoomedStayDoomed
  <1>2. QED
    BY <1>1, DoomedStep, TypedAlways, RowsAlways, PTL DEF Spec

-----------------------------------------------------------------------------
(* Sessions                                                                *)

SessionFor(a) == [attempt |-> a, grant |-> attempts[a].grant]

\* A session holds the grant of its attempt, which has got as far as to open it;
\* the attempt of an open connection has its session.
SessionsOK ==
    /\ \A s \in sessions : /\ s = SessionFor(s.attempt)
                           /\ attempts[s.attempt].phase \in {"signing", "connected", "failed"}
    /\ \A a \in Attempt :
          attempts[a].phase \in {"signing", "connected"} => SessionFor(a) \in sessions

\* What an attempt's step does to the records.
LEMMA AttemptSteps ==
    ASSUME Typed, NEW a \in Attempt
    PROVE  /\ \A c \in Credential : Start(a, c) =>
                 /\ attempts' = [attempts EXCEPT ![a] =
                      [phase |-> "verifying", credential |-> c, grant |-> None]]
                 /\ attempts[a].grant = None
           /\ Deny(a) \/ Fail(a) =>
                 attempts' = [attempts EXCEPT ![a] =
                   [phase |-> "failed", credential |-> @.credential, grant |-> @.grant]]
           /\ Open(a) =>
                 attempts' = [attempts EXCEPT ![a] =
                   [phase |-> "signing", credential |-> @.credential, grant |-> @.grant]]
           /\ Sign(a) =>
                 attempts' = [attempts EXCEPT ![a] =
                   [phase |-> "connected", credential |-> @.credential, grant |-> @.grant]]
           /\ Disconnect(a) =>
                 attempts' = [attempts EXCEPT ![a] =
                   [phase |-> "closed", credential |-> @.credential, grant |-> @.grant]]
  <1>1. Proper(attempts[a]) /\ attempts[a] \in Attempted
    BY DEF Typed, AttemptsOK
  <1>2. \A p \in Phase : [attempts[a] EXCEPT !.phase = p] =
           [phase |-> p, credential |-> attempts[a].credential, grant |-> attempts[a].grant]
    BY <1>1, PhaseUpdate
  <1>3. \A c \in Credential : Start(a, c) => attempts[a].grant = None
    BY <1>1 DEF Start, Proper
  <1>4. QED
    BY <1>2, <1>3 DEF Start, Deny, Fail, Open, Sign, Disconnect, Advance, Phase, Typed, AttemptsOK

LEMMA SessionsStep == Typed /\ SessionsOK /\ [Next]_vars => SessionsOK'
  <1> SUFFICES ASSUME Typed, SessionsOK, [Next]_vars PROVE SessionsOK'
    OBVIOUS
  <1> USE DEF SessionsOK, SessionFor
  <1>1. attempts \in [Attempt -> Attempted] /\ sessions \subseteq Session
    BY DEF Typed, AttemptsOK
  <1>2. \A s \in sessions : s.attempt \in Attempt
    BY <1>1 DEF Session
  <1>3. CASE UNCHANGED <<attempts, sessions>>
    BY <1>3
  <1>4. ASSUME NEW a \in Attempt, NEW c \in Credential, Start(a, c)
        PROVE  SessionsOK'
    <2>1. /\ attempts[a].phase = "idle"
          /\ UNCHANGED sessions
          /\ attempts' = [attempts EXCEPT ![a] =
                [phase |-> "verifying", credential |-> c, grant |-> None]]
      BY <1>4, AttemptSteps DEF Start
    <2>2. QED
      BY <1>1, <1>2, <2>1
  <1>5. ASSUME NEW a \in Attempt, Resolve(a)
        PROVE  SessionsOK'
    <2> DEFINE g == [credential |-> attempts[a].credential,
                     policy |-> policies[CatalogOf[attempts[a].credential]]]
    <2>1. /\ attempts[a].phase = "verifying"
          /\ UNCHANGED sessions
          /\ attempts' = [attempts EXCEPT ![a] =
                [phase |-> "opening", credential |-> @.credential, grant |-> g]]
      BY <1>1, <1>5 DEF Resolve, Advance
    <2> HIDE DEF g
    <2>2. QED
      BY <1>1, <1>2, <2>1
  <1>6. ASSUME NEW a \in Attempt, Deny(a) \/ Fail(a)
        PROVE  SessionsOK'
    <2>1. /\ attempts[a].phase \in {"verifying", "opening", "signing"}
          /\ UNCHANGED sessions
          /\ attempts' = [attempts EXCEPT ![a] =
                [phase |-> "failed", credential |-> @.credential, grant |-> @.grant]]
      BY <1>6, AttemptSteps DEF Deny, Fail
    <2>2. QED
      BY <1>1, <1>2, <2>1
  <1>7. ASSUME NEW a \in Attempt, Open(a)
        PROVE  SessionsOK'
    <2>1. /\ sessions' = sessions \cup {SessionFor(a)}
          /\ attempts' = [attempts EXCEPT ![a] =
                [phase |-> "signing", credential |-> @.credential, grant |-> @.grant]]
      BY <1>7, AttemptSteps DEF Open
    <2>2. \A b \in Attempt : attempts'[b].grant = attempts[b].grant
      BY <1>1, <2>1
    <2>3. QED
      BY <1>1, <1>2, <2>1, <2>2
  <1>8. ASSUME NEW a \in Attempt, Sign(a)
        PROVE  SessionsOK'
    BY <1>1, <1>2, <1>8, AttemptSteps DEF Sign
  <1>9. ASSUME NEW a \in Attempt, Disconnect(a)
        PROVE  SessionsOK'
    BY <1>1, <1>2, <1>9, AttemptSteps DEF Disconnect
  <1>10. QED
    BY <1>3, <1>4, <1>5, <1>6, <1>7, <1>8, <1>9, AdministrationFrame DEF Next, vars

LEMMA SessionsAlways == Spec => []SessionsOK
  <1>1. Init => SessionsOK
    BY DEF Init, SessionsOK, Idle
  <1>2. QED
    BY <1>1, SessionsStep, TypedAlways, PTL DEF Spec

\* An attempt that began with a revoked or expired credential never opens a session.
THEOREM DoomedNeverConnect == Spec => []DoomedAttemptsOpenNothing
  <1>1. Typed /\ DoomedStayDoomed /\ SessionsOK => DoomedAttemptsOpenNothing
    <2> SUFFICES ASSUME Typed, DoomedStayDoomed, SessionsOK,
                        NEW s \in sessions, s.attempt \in doomed
                 PROVE  FALSE
      BY DEF DoomedAttemptsOpenNothing
    <2>1. s.grant = None
      BY DEF DoomedStayDoomed, SessionsOK, SessionFor
    <2>2. s.grant \in Grant
      BY DEF Typed, Session
    <2>3. QED
      BY <2>1, <2>2, NoneAssumption
  <1>2. QED
    BY <1>1, TypedAlways, DoomedAlways, SessionsAlways, PTL

\* A client that was answered has exactly the session its id names, and no attempt
\* ever has two.
THEOREM OneSessionAlways == Spec => []AnsweredClientsHaveOneSession
  <1>1. SessionsOK => AnsweredClientsHaveOneSession
    BY DEF SessionsOK, SessionFor, SessionsOf, AnsweredClientsHaveOneSession
  <1>2. QED
    BY <1>1, SessionsAlways, PTL

-----------------------------------------------------------------------------
(* Policies and their versions                                             *)

\* What was granted is no newer than the registry's policy, and equal versions of a
\* catalog whose policy was never deleted are equal policies.
Granted == {a \in Attempt : attempts[a].grant # None}
PolicyOf(a) == attempts[a].grant.policy
CatalogOfAttempt(a) == CatalogOf[attempts[a].grant.credential]

GrantsAgree ==
    \A a \in Granted : CatalogOfAttempt(a) \notin deleted =>
        /\ PolicyOf(a).version <= policies[CatalogOfAttempt(a)].version
        /\ PolicyOf(a).version = policies[CatalogOfAttempt(a)].version
              => PolicyOf(a) = policies[CatalogOfAttempt(a)]
        /\ \A b \in Granted :
              /\ CatalogOfAttempt(b) = CatalogOfAttempt(a)
              /\ PolicyOf(b).version = PolicyOf(a).version
              => PolicyOf(b) = PolicyOf(a)

LEMMA GrantedType ==
    ASSUME Typed, NEW a \in Granted
    PROVE  /\ attempts[a].grant \in Grant
           /\ PolicyOf(a) \in Policy
           /\ CatalogOfAttempt(a) \in Catalog
           /\ PolicyOf(a).version \in Nat
           /\ \A k \in Catalog : policies[k] \in Policy /\ policies[k].version \in Nat
  <1>1. attempts[a].grant \in Grant
    BY DEF Typed, AttemptsOK, Attempted, Granted
  <1>2. \A p \in Policy : p.version \in Nat
    BY VersionsAreNaturals DEF Policy
  <1>3. QED
    BY <1>1, <1>2, CatalogOfAssumption DEF Grant, PolicyOf, CatalogOfAttempt, Typed, RegistryOK

\* A new version is above every version that was granted.
LEMMA PutAgrees ==
    ASSUME Typed, GrantsAgree, NEW k \in Catalog, NEW d \in Document,
           PutCatalogAuthPolicy(k, d)
    PROVE  GrantsAgree'
  <1>1. UNCHANGED <<attempts, deleted>>
    BY DEF PutCatalogAuthPolicy
  <1>2. /\ policies'[k].version = policies[k].version + 1
        /\ \A j \in Catalog \ {k} : policies'[j] = policies[j]
    BY DEF PutCatalogAuthPolicy, Typed, RegistryOK
  <1>3. Granted' = Granted /\ \A a \in Granted : /\ PolicyOf(a)' = PolicyOf(a)
                                                 /\ CatalogOfAttempt(a)' = CatalogOfAttempt(a)
    BY <1>1 DEF Granted, PolicyOf, CatalogOfAttempt
  <1>4. ASSUME NEW a \in Granted, CatalogOfAttempt(a) \notin deleted
        PROVE  /\ PolicyOf(a).version <= policies'[CatalogOfAttempt(a)].version
               /\ PolicyOf(a).version = policies'[CatalogOfAttempt(a)].version
                    => PolicyOf(a) = policies'[CatalogOfAttempt(a)]
    BY <1>2, <1>4, GrantedType DEF GrantsAgree
  <1>5. QED
    BY <1>1, <1>3, <1>4 DEF GrantsAgree

\* A grant made now has the registry's policy.
LEMMA ResolveAgrees ==
    ASSUME Typed, GrantsAgree, NEW a \in Attempt, Resolve(a)
    PROVE  GrantsAgree'
  <1> DEFINE c == attempts[a].credential
             g == [credential |-> c, policy |-> policies[CatalogOf[c]]]
  <1>1. /\ attempts' = [attempts EXCEPT ![a] = [phase |-> "opening", credential |-> c, grant |-> g]]
        /\ UNCHANGED <<policies, deleted>>
    BY DEF Resolve, Advance
  <1>2. attempts \in [Attempt -> Attempted]
    BY DEF Typed, AttemptsOK
  <1>3. attempts'[a].grant = g
    BY <1>1, <1>2
  <1>4. \A b \in Attempt \ {a} : attempts'[b].grant = attempts[b].grant
    BY <1>1, <1>2
  <1>5. /\ attempts'[a].grant.policy = policies[CatalogOf[c]]
        /\ attempts'[a].grant.credential = c
    BY <1>3
  <1>6. \A b \in Granted' \ {a} : b \in Granted
    BY <1>4 DEF Granted
  <1>7. policies[CatalogOf[c]].version <= policies[CatalogOf[c]].version
    <2>1. c \in Credential
      BY DEF Resolve, Usable
    <2>2. policies[CatalogOf[c]] \in Policy
      BY <2>1, CatalogOfAssumption DEF Typed, RegistryOK
    <2>3. QED
      BY <2>2, VersionsAreNaturals DEF Policy
  <1> HIDE DEF c, g
  <1>8. QED
    BY <1>1, <1>4, <1>5, <1>6, <1>7 DEF GrantsAgree, PolicyOf, CatalogOfAttempt

LEMMA GrantsAgreeStep == Typed /\ GrantsAgree /\ [Next]_vars => GrantsAgree'
  <1> SUFFICES ASSUME Typed, GrantsAgree, [Next]_vars PROVE GrantsAgree'
    OBVIOUS
  <1>1. ASSUME UNCHANGED <<policies, deleted>>,
               \A a \in Attempt : attempts'[a].grant = attempts[a].grant
        PROVE  GrantsAgree'
    BY <1>1 DEF GrantsAgree, Granted, PolicyOf, CatalogOfAttempt
  <1>2. ASSUME NEW k \in Catalog, DeleteCatalogAuthPolicy(k)
        PROVE  GrantsAgree'
    <2>1. /\ UNCHANGED attempts
          /\ deleted' = deleted \cup {k}
          /\ \A j \in Catalog \ {k} : policies'[j] = policies[j]
      BY <1>2 DEF DeleteCatalogAuthPolicy, Typed, RegistryOK
    <2>2. \A a \in Granted : CatalogOfAttempt(a) \in Catalog
      BY GrantedType
    <2>3. QED
      BY <2>1, <2>2 DEF GrantsAgree, Granted, PolicyOf, CatalogOfAttempt
  <1>3. ASSUME NEW c \in Credential,
               \/ SignCredential(c)
               \/ \E delivered \in BOOLEAN : InsertCredential(c, delivered)
               \/ RevokeCredential(c)
               \/ Expire(c)
        PROVE  GrantsAgree'
    BY <1>1, <1>3 DEF SignCredential, InsertCredential, RevokeCredential, Expire
  <1>4. ASSUME NEW a \in Attempt,
               \/ \E c \in Credential : Start(a, c)
               \/ Deny(a) \/ Open(a) \/ Sign(a) \/ Fail(a) \/ Disconnect(a)
        PROVE  GrantsAgree'
    <2>1. UNCHANGED <<policies, deleted>>
      BY <1>4 DEF Start, Deny, Open, Sign, Fail, Disconnect
    <2>2. \A b \in Attempt : attempts'[b].grant = attempts[b].grant
      BY <1>4, AttemptSteps DEF Typed, AttemptsOK
    <2>3. QED
      BY <1>1, <2>1, <2>2
  <1>5. CASE UNCHANGED vars
    BY <1>1, <1>5 DEF vars
  <1>6. QED
    BY <1>2, <1>3, <1>4, <1>5, PutAgrees, ResolveAgrees DEF Next, Administration

\* While the policy of a catalog is never deleted, sessions with equal policy versions
\* were given equal policies, and no session is ahead of the registry.
THEOREM VersionsNamePolicies == Spec => []VersionNamesPolicy
  <1>1. Init => GrantsAgree
    BY DEF Init, GrantsAgree, Granted, Idle
  <1>2. Typed /\ SessionsOK /\ GrantsAgree => VersionNamesPolicy
    <2> SUFFICES ASSUME Typed, SessionsOK, GrantsAgree PROVE VersionNamesPolicy
      OBVIOUS
    <2>1. ASSUME NEW s \in sessions
          PROVE  /\ s.attempt \in Granted
                 /\ s.grant = attempts[s.attempt].grant
      BY NoneAssumption DEF Typed, Session, SessionsOK, SessionFor, Granted
    <2>2. QED
      BY <2>1 DEF GrantsAgree, VersionNamesPolicy, PolicyOf, CatalogOfAttempt
  <1>3. QED
    BY <1>1, <1>2, GrantsAgreeStep, TypedAlways, SessionsAlways, PTL DEF Spec

-----------------------------------------------------------------------------
(* The promise                                                             *)

\* A step of an attempt moves only its own grant and session.
LEMMA GrantStep ==
    Typed /\ Typed' /\ SessionsOK /\ SessionsOK' /\ [Next]_vars
        => [Promise!Next]_(Promise!vars)
  <1> SUFFICES ASSUME Typed, Typed', SessionsOK, SessionsOK', [Next]_vars
               PROVE  [Promise!Next]_(Promise!vars)
    OBVIOUS
  <1> DEFINE grant == [a \in Attempt |-> attempts[a].grant]
  <1>1. attempts \in [Attempt -> Attempted] /\ sessions \subseteq Session
    BY DEF Typed, AttemptsOK
  <1>2. \A s \in sessions : s.attempt \in Attempt
    BY <1>1 DEF Session
  <1>3. CASE Administration
    <2>1. Usable' \subseteq Credential /\ policies' \in [Catalog -> Policy]
      BY DEF Usable, Typed, RegistryOK
    <2>2. UNCHANGED <<grant, Opened, sessions>>
      BY <1>3, AdministrationFrame DEF Opened, SessionsOf
    <2>3. Promise!Administer
      BY <2>1, <2>2 DEF Promise!Administer
    <2>4. QED
      BY <2>3 DEF Promise!Next
  <1>4. ASSUME UNCHANGED registry
        PROVE  UNCHANGED <<Usable, policies>>
    BY <1>4 DEF Usable
  <1>5. ASSUME NEW a \in Attempt, NEW c \in Credential, Start(a, c)
        PROVE  UNCHANGED Promise!vars
    <2>1. UNCHANGED grant
      BY <1>1, <1>5, AttemptSteps
    <2>2. UNCHANGED Opened
      BY <1>1, <1>5, AttemptSteps DEF Opened, SessionsOf, Start
    <2>3. QED
      BY <1>4, <1>5, <2>1, <2>2 DEF Start, Promise!vars
  <1>6. ASSUME NEW a \in Attempt, Resolve(a)
        PROVE  \E c \in Credential : Promise!Grant(a, c)
    <2> DEFINE c == attempts[a].credential
               g == [credential |-> c, policy |-> policies[CatalogOf[c]]]
    <2>1. /\ attempts' = [attempts EXCEPT ![a] =
                [phase |-> "opening", credential |-> c, grant |-> g]]
          /\ attempts[a].phase = "verifying"
          /\ c \in Usable
          /\ UNCHANGED <<registry, sessions>>
      BY <1>6 DEF Resolve, Advance
    <2>2. attempts[a].grant = None
      BY <2>1 DEF Typed, AttemptsOK, Proper
    <2>3. grant' = [grant EXCEPT ![a] = g]
      BY <1>1, <2>1
    <2>4. UNCHANGED Opened
      BY <1>1, <2>1 DEF Opened, SessionsOf
    <2>5. QED
      BY <1>4, <2>1, <2>2, <2>3, <2>4 DEF Promise!Grant, Usable
  <1>7. ASSUME NEW a \in Attempt, Deny(a) \/ Fail(a) \/ Sign(a)
        PROVE  UNCHANGED Promise!vars
    <2> DEFINE after == IF Sign(a) THEN "connected" ELSE "failed"
    <2>1. /\ attempts' = [attempts EXCEPT ![a] =
                [phase |-> after, credential |-> @.credential, grant |-> @.grant]]
          /\ attempts[a].phase \in {"verifying", "opening", "signing"}
          /\ after = "connected" => attempts[a].phase = "signing"
          /\ after \in {"connected", "failed"}
          /\ UNCHANGED <<registry, sessions>>
      BY <1>7, AttemptSteps DEF Deny, Fail, Sign
    <2> HIDE DEF after
    <2>2. UNCHANGED grant
      BY <1>1, <2>1
    <2>3. attempts[a].phase = "signing" => SessionsOf(a) # {}
      BY DEF SessionsOK, SessionFor, SessionsOf
    <2>4. UNCHANGED Opened
      BY <1>1, <2>1, <2>3 DEF Opened, SessionsOf
    <2>5. QED
      BY <1>4, <2>1, <2>2, <2>4 DEF Promise!vars
  <1>8. ASSUME NEW a \in Attempt, Open(a)
        PROVE  Promise!Open(a)
    <2>1. /\ attempts' = [attempts EXCEPT ![a] =
                [phase |-> "signing", credential |-> @.credential, grant |-> @.grant]]
          /\ attempts[a].phase = "opening"
          /\ sessions' = sessions \cup {SessionFor(a)}
          /\ UNCHANGED registry
      BY <1>8, AttemptSteps DEF Open, SessionFor
    <2>2. attempts[a].grant # None
      BY <2>1 DEF Typed, AttemptsOK, Proper
    <2>3. UNCHANGED grant
      BY <1>1, <2>1
    <2>4. a \notin Opened
      BY <2>1 DEF Opened, SessionsOf, SessionsOK
    <2>5. Opened' = Opened \cup {a}
      BY <1>1, <1>2, <2>1 DEF Opened, SessionsOf, SessionFor
    <2>6. QED
      BY <1>4, <2>1, <2>2, <2>3, <2>4, <2>5 DEF Promise!Open, SessionFor
  <1>9. ASSUME NEW a \in Attempt, Disconnect(a)
        PROVE  Promise!Close(a)
    <2>1. /\ attempts' = [attempts EXCEPT ![a] =
                [phase |-> "closed", credential |-> @.credential, grant |-> @.grant]]
          /\ attempts[a].phase = "connected"
          /\ sessions' = {s \in sessions : s.attempt # a}
          /\ UNCHANGED registry
      BY <1>9, AttemptSteps DEF Disconnect
    <2>2. UNCHANGED grant
      BY <1>1, <2>1
    <2>3. UNCHANGED Opened
      BY <1>1, <2>1 DEF Opened, SessionsOf
    <2>4. QED
      BY <1>4, <2>1, <2>2, <2>3 DEF Promise!Close
  <1>10. CASE UNCHANGED vars
    BY <1>10 DEF vars, Promise!vars, Usable, Opened, SessionsOf
  <1>11. ASSUME NEW a \in Attempt,
                \/ \E c \in Credential : Start(a, c)
                \/ Resolve(a) \/ Deny(a) \/ Open(a) \/ Sign(a) \/ Fail(a) \/ Disconnect(a)
         PROVE  [Promise!Next]_(Promise!vars)
    BY <1>5, <1>6, <1>7, <1>8, <1>9, <1>11 DEF Promise!Next
  <1>12. QED
    BY <1>3, <1>10, <1>11 DEF Next

\* The connection implements its promise: the principal and the policy of a session
\* were valid together at one instant, and an attempt opens at most one session.
THEOREM ConnectionImplementsAtomicGrant == Spec => ImplementsAtomicGrant
  <1>1. Init => Promise!Init
    <2> SUFFICES ASSUME Init PROVE Promise!Init
      OBVIOUS
    <2>1. NoPolicy \in Policy
      BY VersionsAreNaturals DEF NoPolicy, Policy
    <2>2. policies \in [Catalog -> Policy]
      BY <2>1 DEF Init
    <2>3. Usable = {} /\ Opened = {} /\ sessions = {}
      BY DEF Init, Usable, Opened, SessionsOf, Idle
    <2>4. [a \in Attempt |-> attempts[a].grant] = [a \in Attempt |-> None]
      BY DEF Init, Idle
    <2>5. QED
      BY <2>2, <2>3, <2>4 DEF Promise!Init
  <1>2. QED
    BY <1>1, GrantStep, TypedAlways, SessionsAlways, PTL
    DEF Spec, ImplementsAtomicGrant, Promise!Spec
=============================================================================
