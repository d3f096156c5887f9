---------------------------- MODULE Authorization ----------------------------
(***************************************************************************)
(* Authorization of a session's requests (authz.ts): the policy that was   *)
(* stored with the session is evaluated for the permissions that the       *)
(* statements of a PREPARE_REQUEST, or an APPEND_REQUEST, require.         *)
(*                                                                         *)
(* A statement is what the classifier makes of it: whether it understood   *)
(* it, and the permissions in the order it found them.                     *)
(***************************************************************************)
EXTENDS Naturals, Sequences, FiniteSetsExt

CONSTANTS Principal,    \* the principals sessions are opened for
          Rule,         \* the rules policies are written with
          Statement,    \* classified statements
          Table,        \* targets of APPEND_REQUESTs, as [schema, table]
          Undefined,    \* a property that is not there
          MaxRules,     \* bound: rules of a policy
          MaxBatch      \* bound: statements of a request

ASSUME BoundsAreNaturals == {MaxRules, MaxBatch} \subseteq Nat
ASSUME EffectsAssumption == \A r \in Rule : r.effect \in {"allow", "deny"}

VARIABLES principal,    \* principal_json of the session, or Undefined before it is opened
          policy,       \* policy_json of the session; Undefined without a policy
          batch,        \* the statements of its last request
          decision      \* and what was decided

vars == <<principal, policy, batch, decision>>

SequencesUpTo(S, n) == UNION {[1..k -> S] : k \in 0..n}

Policy == [defaultEffect : {"allow", "deny"}, rules : SequencesUpTo(Rule, MaxRules)]

ASSUME UndefinedIsNoPolicy == Undefined \notin Policy
ASSUME UndefinedIsNoWildcard == Undefined # "*"

-----------------------------------------------------------------------------
(* Matching.  A principal has a set of words for every attribute, one word *)
(* for its subject and its issuer, and a value for every claim it has.     *)

\* subjectsAny, issuersAny, scopesAny, ...; scopesAll, groupsAll, rolesAll; claims.
PrincipalMatches(p, match) ==
    /\ \A a \in DOMAIN match.any : match.any[a] \cap p.attributes[a] # {}
    /\ \A a \in DOMAIN match.all : match.all[a] \subseteq p.attributes[a]
    /\ \A c \in DOMAIN match.claims :
          c \in DOMAIN p.claims /\ p.claims[c] = match.claims[c]

WildcardMatch(pattern, value) == value = Undefined \/ pattern \in {Undefined, "*", value}

ResourceMatches(resource, required) ==
    /\ WildcardMatch(resource.schema, required.schema)
    /\ WildcardMatch(resource.table, required.table)
    /\ \/ required.column = Undefined
       \/ resource.column # Undefined /\ WildcardMatch(resource.column, required.column)
       \/ resource.column = Undefined /\ resource.columns = Undefined
       \/ resource.column = Undefined /\ {"*", required.column} \cap resource.columns # {}

\* A row predicate is not evaluated: its rule only needs the claims it refers to.
RuleMatchesPermission(rule, required, p) ==
    /\ {"*", required.action} \cap rule.actions # {}
    /\ ResourceMatches(rule.resource, required.resource)
    /\ rule.predicateClaims \subseteq DOMAIN p.claims

Applies(rule, required, p) ==
    PrincipalMatches(p, rule.principal) /\ RuleMatchesPermission(rule, required, p)

-----------------------------------------------------------------------------
(* Evaluation                                                              *)

\* The permissions of a batch by statement and position, in the order of flatMap.
Required(statements) ==
    UNION {{<<i, j>> : j \in DOMAIN statements[i].required} : i \in DOMAIN statements}
Permission(statements, at) == statements[at[1]].required[at[2]]
Before(at, other) == at[1] < other[1] \/ (at[1] = other[1] /\ at[2] < other[2])

\* Mistaken: rules are numbered from 0, as findIndex would number them.
DenyingFromZero(p, pol, statements) ==
    {n - 1 : n \in {n \in DOMAIN pol.rules :
        /\ pol.rules[n].effect = "deny"
        /\ \E at \in Required(statements) : Applies(pol.rules[n], Permission(statements, at), p)}}

Denying(p, pol, statements) ==
    {n \in DOMAIN pol.rules :
        /\ pol.rules[n].effect = "deny"
        /\ \E at \in Required(statements) : Applies(pol.rules[n], Permission(statements, at), p)}

Allowing(p, pol, required) ==
    {n \in DOMAIN pol.rules : pol.rules[n].effect = "allow" /\ Applies(pol.rules[n], required, p)}

Missing(p, pol, statements) ==
    {at \in Required(statements) : Allowing(p, pol, Permission(statements, at)) = {}}

\* Mistaken: only the rule of the first permission is told.
AllowMatchesOfOne(p, pol, statements) ==
    {Min(Allowing(p, pol, Permission(statements, at))) :
        at \in (Required(statements) \ Missing(p, pol, statements)) \cap {<<1, 1>>}}

\* The rule that find() meets first for every permission up to the first that has none.
AllowMatches(p, pol, statements) ==
    {Min(Allowing(p, pol, Permission(statements, at))) :
        at \in {at \in Required(statements) \ Missing(p, pol, statements) :
                  \A other \in Missing(p, pol, statements) : Before(at, other)}}

Decide(allowed, reason, matched) == [allowed |-> allowed, reason |-> reason, matched |-> matched]

\* Mistaken: a rule that allows is looked for first.
EvaluateAllowFirst(p, pol, statements) ==
    IF \E i \in DOMAIN statements : ~statements[i].confident
    THEN Decide(FALSE, "not classified", {})
    ELSE IF pol = Undefined
    THEN Decide(FALSE, "missing policy", {})
    ELSE IF Missing(p, pol, statements) = {}
    THEN Decide(TRUE, "allowed", AllowMatches(p, pol, statements))
    ELSE IF Denying(p, pol, statements) # {}
    THEN Decide(FALSE, "deny rule", {Min(Denying(p, pol, statements))})
    ELSE Decide(pol.defaultEffect = "allow", "default", {})

\* Mistaken: the statements after one that was classified are taken to be.
EvaluateFirstClassified(p, pol, statements) ==
    IF statements # <<>> /\ ~statements[1].confident
    THEN Decide(FALSE, "not classified", {})
    ELSE IF pol = Undefined
    THEN Decide(FALSE, "missing policy", {})
    ELSE IF Denying(p, pol, statements) # {}
    THEN Decide(FALSE, "deny rule", {Min(Denying(p, pol, statements))})
    ELSE IF pol.defaultEffect = "allow"
    THEN Decide(TRUE, "default allow", {})
    ELSE IF Missing(p, pol, statements) # {}
    THEN Decide(FALSE, "no allow rule", AllowMatches(p, pol, statements))
    ELSE Decide(TRUE, "allowed", AllowMatches(p, pol, statements))

EvaluatePolicy(p, pol, statements) ==
    IF \E i \in DOMAIN statements : ~statements[i].confident
    THEN Decide(FALSE, "not classified", {})
    ELSE IF pol = Undefined
    THEN Decide(FALSE, "missing policy", {})
    ELSE IF Denying(p, pol, statements) # {}
    THEN Decide(FALSE, "deny rule", {Min(Denying(p, pol, statements))})
    ELSE IF pol.defaultEffect = "allow"
    THEN Decide(TRUE, "default allow", {})
    ELSE IF Missing(p, pol, statements) # {}
    THEN Decide(FALSE, "no allow rule", AllowMatches(p, pol, statements))
    ELSE Decide(TRUE, "allowed", AllowMatches(p, pol, statements))

-----------------------------------------------------------------------------
(* A session                                                               *)

NoDecision == Decide(FALSE, "none", {})

Init ==
    /\ principal = Undefined
    /\ policy = Undefined
    /\ batch = <<>>
    /\ decision = NoDecision

\* storeSessionAuth
OpenConnection(p, pol) ==
    /\ principal = Undefined
    /\ principal' = p
    /\ policy' = pol
    /\ UNCHANGED <<batch, decision>>

AuthorizeSql(statements) ==
    /\ principal # Undefined
    /\ batch' = statements
    /\ decision' = EvaluatePolicy(principal, policy, statements)
    /\ UNCHANGED <<principal, policy>>

\* classifyAppend
ClassifyAppend(target) ==
    [confident |-> TRUE,
     required  |-> <<[action   |-> "table.insert",
                      resource |-> [schema |-> target.schema, table |-> target.table,
                                    column |-> Undefined]]>>]

AuthorizeAppend(target) == AuthorizeSql(<<ClassifyAppend(target)>>)

Next ==
    \/ \E p \in Principal, pol \in Policy \cup {Undefined} : OpenConnection(p, pol)
    \/ \E statements \in SequencesUpTo(Statement, MaxBatch) : AuthorizeSql(statements)
    \/ \E target \in Table : AuthorizeAppend(target)

Spec == Init /\ [][Next]_vars

-----------------------------------------------------------------------------
(* Correctness                                                             *)

Reasons == {"none", "not classified", "missing policy", "deny rule", "default allow",
            "no allow rule", "allowed"}

\* The stored context and the last decision are what their columns and the answer of
\* /admin/authz/explain say; a decision names rules of its policy.
TypeOK ==
    /\ principal \in Principal \cup {Undefined}
    /\ policy \in Policy \cup {Undefined}
    /\ decision.allowed \in BOOLEAN
    /\ decision.reason \in Reasons
    /\ policy = Undefined => decision.matched = {}
    /\ policy # Undefined => decision.matched \subseteq DOMAIN policy.rules

\* What a rule names of schemas, tables and columns; "*" is all of them.
Names(resource) ==
    LET named(name) == {IF name = Undefined THEN "*" ELSE name}
    IN  [schema |-> named(resource.schema),
         table  |-> named(resource.table),
         column |-> IF resource.column # Undefined \/ resource.columns = Undefined
                    THEN named(resource.column) ELSE resource.columns]

\* What a permission asks for, part by part, all of it or something of it is named.
AllNamed(resource, required) ==
    \A part \in {"schema", "table", "column"} :
        required[part] = Undefined \/ Names(resource)[part] \cap {"*", required[part]} # {}
SomeNamed(resource, required) ==
    \A part \in {"schema", "table", "column"} :
        \/ required[part] \in {Undefined, "*"}
        \/ Names(resource)[part] \cap {"*", required[part]} # {}

Concerns(rule, required, p) ==
    /\ PrincipalMatches(p, rule.principal)
    /\ \E action \in rule.actions : action \in {"*", required.action}
    /\ \A claim \in rule.predicateClaims : claim \in DOMAIN p.claims

\* The permission is for every schema, table or column, as SELECT * needs it, and the rule
\* names single ones: evaluatePolicy passes over it, a deny rule too.
Overlooked(rule, required) ==
    \E part \in {"schema", "table", "column"} :
        required.resource[part] = "*" /\ "*" \notin Names(rule.resource)[part]

\* What guides/authn-authz.md says of a permission (lines 997-1001, 1089, 1154): it takes a
\* rule that allows all it asks for, or the default effect, and a rule that denies something
\* of it overrides them; but for the rules that are overlooked.
Permitted(p, pol, required) ==
    /\ \A n \in DOMAIN pol.rules :
          /\ pol.rules[n].effect = "deny"
          /\ Concerns(pol.rules[n], required, p)
          /\ SomeNamed(pol.rules[n].resource, required.resource)
          => Overlooked(pol.rules[n], required)
    /\ \/ pol.defaultEffect = "allow"
       \/ \E n \in DOMAIN pol.rules :
             /\ pol.rules[n].effect = "allow"
             /\ Concerns(pol.rules[n], required, p)
             /\ AllNamed(pol.rules[n].resource, required.resource)

\* Whether the document allows a request of these statements.
AllowedBy(p, pol, statements) ==
    /\ pol # Undefined
    /\ \A i \in DOMAIN statements :
          /\ statements[i].confident
          /\ \A j \in DOMAIN statements[i].required :
                Permitted(p, pol, statements[i].required[j])

\* A request is allowed if and only if the session has a policy, every statement was
\* classified, and every permission of every statement is permitted: the searches, early
\* returns and wildcards of evaluatePolicy amount to that.  Against the document, which says
\* that a deny rule for the column salary blocks it (line 1154), a deny rule that names
\* single columns does not keep SELECT *, which requires the column "*", from showing them;
\* Overlooked excepts this case, and no other.
DecisionsFollowTheRules ==
    decision # NoDecision => (decision.allowed <=> AllowedBy(principal, policy, batch))

\* Statements sent together are allowed exactly when each would be alone: evaluatePolicy
\* holds the permissions of all of them against the rules in one search.
StatementsAreIndependent ==
    decision # NoDecision /\ batch # <<>> =>
        (decision.allowed <=>
            \A i \in DOMAIN batch : EvaluatePolicy(principal, policy, <<batch[i]>>).allowed)

\* The rules that a decision names explain it, which /admin/authz/explain answers: a policy
\* of these rules alone decides the same.
MatchedRulesSuffice ==
    policy # Undefined /\ decision # NoDecision =>
        LET matched == {policy.rules[n] : n \in decision.matched}
            rest == CHOOSE rules \in SequencesUpTo(matched, Cardinality(matched)) :
                       {rules[n] : n \in DOMAIN rules} = matched
        IN  EvaluatePolicy(principal, [policy EXCEPT !.rules = rest], batch).allowed
                = decision.allowed
=============================================================================
