------------------------ MODULE Authorization_proofs -------------------------
(***************************************************************************)
(* The evaluator decides by the documented rules for every set of          *)
(* principals, rules, statements and tables.                               *)
(***************************************************************************)
EXTENDS Authorization, FiniteSetTheorems, WellFoundedInduction, TLAPS

-----------------------------------------------------------------------------
(* The evaluator                                                           *)

\* A set of naturals that is not empty has a least element, which Min is.
LEMMA MinIsMember ==
    ASSUME NEW S \in SUBSET Nat, S # {}
    PROVE  Min(S) \in S
  <1>1. PICK x \in S : \A y \in S : <<y, x>> \notin OpToRel(<, Nat)
    BY WFMin, NatLessThanWellFounded, Zenon
  <1>2. ASSUME NEW y \in S
        PROVE  x =< y
    <2>1. x \in Nat /\ y \in Nat
      OBVIOUS
    <2>2. y < x => <<y, x>> \in OpToRel(<, Nat)
      BY <2>1 DEF OpToRel
    <2>3. ~(y < x)
      BY <1>1, <2>2, Zenon
    <2>4. QED
      BY <2>1, <2>3
  <1>3. QED
    BY <1>2 DEF Min

\* The searches of evaluatePolicy: a deny rule is found exactly when some permission
\* meets one, and an allow rule is missing exactly when some permission has none.
LEMMA SearchesFind ==
    ASSUME NEW p, NEW pol, NEW statements
    PROVE  /\ Denying(p, pol, statements) = {} <=>
                  \A i \in DOMAIN statements : \A j \in DOMAIN statements[i].required :
                     ~ \E n \in DOMAIN pol.rules :
                          /\ pol.rules[n].effect = "deny"
                          /\ Applies(pol.rules[n], statements[i].required[j], p)
           /\ Missing(p, pol, statements) = {} <=>
                  \A i \in DOMAIN statements : \A j \in DOMAIN statements[i].required :
                     \E n \in DOMAIN pol.rules :
                        /\ pol.rules[n].effect = "allow"
                        /\ Applies(pol.rules[n], statements[i].required[j], p)
  <1>1. \A at : at \in Required(statements) <=>
            \E i \in DOMAIN statements : \E j \in DOMAIN statements[i].required : at = <<i, j>>
    BY DEF Required
  <1>2. \A i, j : Permission(statements, <<i, j>>) = statements[i].required[j]
    BY DEF Permission
  <1>3. ASSUME NEW r
        PROVE  (\E at \in Required(statements) : Applies(r, Permission(statements, at), p)) <=>
                  \E i \in DOMAIN statements : \E j \in DOMAIN statements[i].required :
                     Applies(r, statements[i].required[j], p)
    <2>1. ASSUME NEW at \in Required(statements), Applies(r, Permission(statements, at), p)
          PROVE  \E i \in DOMAIN statements : \E j \in DOMAIN statements[i].required :
                    Applies(r, statements[i].required[j], p)
      <3>1. PICK i \in DOMAIN statements : \E j \in DOMAIN statements[i].required : at = <<i, j>>
        BY <1>1, <2>1
      <3>2. PICK j \in DOMAIN statements[i].required : at = <<i, j>>
        BY <3>1
      <3>3. Permission(statements, at) = statements[i].required[j]
        BY <1>2, <3>2
      <3>4. QED
        BY <2>1, <3>3
    <2>2. ASSUME NEW i \in DOMAIN statements, NEW j \in DOMAIN statements[i].required,
                 Applies(r, statements[i].required[j], p)
          PROVE  \E at \in Required(statements) : Applies(r, Permission(statements, at), p)
      <3>1. <<i, j>> \in Required(statements)
        BY <1>1
      <3>2. Permission(statements, <<i, j>>) = statements[i].required[j]
        BY <1>2
      <3>3. Applies(r, Permission(statements, <<i, j>>), p)
        BY <2>2, <3>2
      <3>4. QED
        BY <3>1, <3>3
    <2>3. QED
      BY <2>1, <2>2
  <1>4. Denying(p, pol, statements) = {} <=>
            ~ \E n \in DOMAIN pol.rules :
                 /\ pol.rules[n].effect = "deny"
                 /\ \E i \in DOMAIN statements : \E j \in DOMAIN statements[i].required :
                       Applies(pol.rules[n], statements[i].required[j], p)
    BY <1>3 DEF Denying
  <1>5. \A i \in DOMAIN statements : \A j \in DOMAIN statements[i].required :
            Allowing(p, pol, Permission(statements, <<i, j>>)) = {} <=>
                ~ \E n \in DOMAIN pol.rules :
                     /\ pol.rules[n].effect = "allow"
                     /\ Applies(pol.rules[n], statements[i].required[j], p)
    BY <1>2 DEF Allowing
  <1>6. Missing(p, pol, statements) = {} <=>
            \A i \in DOMAIN statements : \A j \in DOMAIN statements[i].required :
                Allowing(p, pol, Permission(statements, <<i, j>>)) # {}
    BY <1>1 DEF Missing
  <1>7. QED
    BY <1>4, <1>5, <1>6

\* Matching a pattern is naming all that is asked for.
LEMMA MatchingNamesAll ==
    ASSUME NEW resource, NEW required
    PROVE  ResourceMatches(resource, required) <=> AllNamed(resource, required)
  <1>1. \A pattern, value :
            WildcardMatch(pattern, value) <=>
                \/ value = Undefined
                \/ {IF pattern = Undefined THEN "*" ELSE pattern} \cap {"*", value} # {}
    BY UndefinedIsNoWildcard DEF WildcardMatch
  <1>2. AllNamed(resource, required) <=>
            \A part \in {"schema", "table", "column"} :
               required[part] = Undefined \/ Names(resource)[part] \cap {"*", required[part]} # {}
    BY DEF AllNamed
  <1>3. AllNamed(resource, required) <=>
            /\ required.schema = Undefined \/ Names(resource).schema \cap {"*", required.schema} # {}
            /\ required.table = Undefined \/ Names(resource).table \cap {"*", required.table} # {}
            /\ required.column = Undefined \/ Names(resource).column \cap {"*", required.column} # {}
    BY <1>2
  <1>4. WildcardMatch(resource.schema, required.schema) <=>
            required.schema = Undefined \/ Names(resource).schema \cap {"*", required.schema} # {}
    BY <1>1 DEF Names
  <1>5. WildcardMatch(resource.table, required.table) <=>
            required.table = Undefined \/ Names(resource).table \cap {"*", required.table} # {}
    BY <1>1 DEF Names
  <1>6. (\/ required.column = Undefined
         \/ resource.column # Undefined /\ WildcardMatch(resource.column, required.column)
         \/ resource.column = Undefined /\ resource.columns = Undefined
         \/ resource.column = Undefined /\ {"*", required.column} \cap resource.columns # {}) <=>
            required.column = Undefined \/ Names(resource).column \cap {"*", required.column} # {}
    <2>1. CASE resource.column # Undefined
      BY <1>1, <2>1 DEF Names
    <2>2. CASE resource.column = Undefined /\ resource.columns = Undefined
      BY <2>2 DEF Names
    <2>3. CASE resource.column = Undefined /\ resource.columns # Undefined
      BY <2>3 DEF Names
    <2>4. QED
      BY <2>1, <2>2, <2>3
  <1>7. QED
    BY <1>3, <1>4, <1>5, <1>6 DEF ResourceMatches

\* A rule applies exactly when it concerns the permission and names all it asks for; that
\* it names something of it, and is not overlooked, is the same.
LEMMA RulesApply ==
    ASSUME NEW rule, NEW required, NEW p
    PROVE  /\ Applies(rule, required, p) <=>
                  /\ Concerns(rule, required, p)
                  /\ AllNamed(rule.resource, required.resource)
           /\ AllNamed(rule.resource, required.resource) <=>
                  /\ SomeNamed(rule.resource, required.resource)
                  /\ ~Overlooked(rule, required)
  <1>1. ({"*", required.action} \cap rule.actions # {}) <=>
            \E action \in rule.actions : action \in {"*", required.action}
    OBVIOUS
  <1>2. Applies(rule, required, p) <=>
            /\ Concerns(rule, required, p)
            /\ ResourceMatches(rule.resource, required.resource)
    BY <1>1 DEF Applies, RuleMatchesPermission, Concerns
  <1>3. AllNamed(rule.resource, required.resource) <=>
            /\ SomeNamed(rule.resource, required.resource)
            /\ ~Overlooked(rule, required)
    <2>1. ASSUME NEW part \in {"schema", "table", "column"}
          PROVE  (\/ required.resource[part] = Undefined
                  \/ Names(rule.resource)[part] \cap {"*", required.resource[part]} # {}) <=>
                     /\ \/ required.resource[part] \in {Undefined, "*"}
                        \/ Names(rule.resource)[part] \cap {"*", required.resource[part]} # {}
                     /\ ~(/\ required.resource[part] = "*"
                          /\ "*" \notin Names(rule.resource)[part])
      BY UndefinedIsNoWildcard
    <2>2. QED
      BY <2>1 DEF AllNamed, SomeNamed, Overlooked
  <1>4. QED
    BY <1>2, <1>3, MatchingNamesAll

\* What the document permits, in terms of the rules that apply.
LEMMA PermittedByRulesThatApply ==
    ASSUME NEW p, NEW pol, NEW required
    PROVE  Permitted(p, pol, required) <=>
               /\ ~ \E n \in DOMAIN pol.rules :
                     pol.rules[n].effect = "deny" /\ Applies(pol.rules[n], required, p)
               /\ \/ pol.defaultEffect = "allow"
                  \/ \E n \in DOMAIN pol.rules :
                        pol.rules[n].effect = "allow" /\ Applies(pol.rules[n], required, p)
  BY RulesApply DEF Permitted

\* evaluatePolicy allows what the document allows.
LEMMA EvaluationFollowsTheRules ==
    ASSUME NEW p, NEW pol, NEW statements
    PROVE  EvaluatePolicy(p, pol, statements).allowed <=> AllowedBy(p, pol, statements)
  <1>1. CASE \E i \in DOMAIN statements : ~statements[i].confident
    BY <1>1 DEF EvaluatePolicy, Decide, AllowedBy
  <1>2. CASE pol = Undefined
    BY <1>2 DEF EvaluatePolicy, Decide, AllowedBy
  <1>3. CASE /\ \A i \in DOMAIN statements : statements[i].confident
             /\ pol # Undefined
    <2>1. CASE Denying(p, pol, statements) # {}
      BY <1>3, <2>1, SearchesFind, PermittedByRulesThatApply DEF EvaluatePolicy, Decide, AllowedBy
    <2>2. CASE Denying(p, pol, statements) = {} /\ pol.defaultEffect = "allow"
      BY <1>3, <2>2, SearchesFind, PermittedByRulesThatApply DEF EvaluatePolicy, Decide, AllowedBy
    <2>3. CASE Denying(p, pol, statements) = {} /\ pol.defaultEffect # "allow"
      BY <1>3, <2>3, SearchesFind, PermittedByRulesThatApply DEF EvaluatePolicy, Decide, AllowedBy
    <2>4. QED
      BY <2>1, <2>2, <2>3
  <1>4. QED
    BY <1>1, <1>2, <1>3

\* A policy numbers its rules with naturals.
LEMMA RulesAreNumbered ==
    ASSUME NEW pol \in Policy
    PROVE  DOMAIN pol.rules \in SUBSET Nat
  <1>1. PICK k \in 0..MaxRules : pol.rules \in [1..k -> Rule]
    BY DEF Policy, SequencesUpTo
  <1>2. DOMAIN pol.rules = 1..k
    BY <1>1
  <1>3. k \in Nat
    BY BoundsAreNaturals
  <1>4. QED
    BY <1>2, <1>3

\* A decision is well-formed and names rules of the policy it was made by.
LEMMA EvaluationType ==
    ASSUME NEW p, NEW pol \in Policy \cup {Undefined}, NEW statements
    PROVE  LET d == EvaluatePolicy(p, pol, statements)
           IN  /\ d.allowed \in BOOLEAN
               /\ d.reason \in Reasons
               /\ pol = Undefined => d.matched = {}
               /\ pol # Undefined => d.matched \subseteq DOMAIN pol.rules
  <1>1. CASE (\E i \in DOMAIN statements : ~statements[i].confident) \/ pol = Undefined
    BY <1>1 DEF EvaluatePolicy, Decide, Reasons
  <1>2. CASE /\ \A i \in DOMAIN statements : statements[i].confident
             /\ pol # Undefined
    <2>1. DOMAIN pol.rules \in SUBSET Nat
      BY <1>2, RulesAreNumbered
    <2>2. Denying(p, pol, statements) # {} =>
              Min(Denying(p, pol, statements)) \in DOMAIN pol.rules
      <3>1. Denying(p, pol, statements) \subseteq DOMAIN pol.rules
        BY DEF Denying
      <3>2. QED
        BY <2>1, <3>1, MinIsMember
    <2>3. AllowMatches(p, pol, statements) \subseteq DOMAIN pol.rules
      <3>1. ASSUME NEW at \in Required(statements) \ Missing(p, pol, statements)
            PROVE  Min(Allowing(p, pol, Permission(statements, at))) \in DOMAIN pol.rules
        <4>1. Allowing(p, pol, Permission(statements, at)) # {}
          BY <3>1 DEF Missing
        <4>2. Allowing(p, pol, Permission(statements, at)) \subseteq DOMAIN pol.rules
          BY DEF Allowing
        <4>3. QED
          BY <2>1, <4>1, <4>2, MinIsMember
      <3>2. QED
        BY <3>1 DEF AllowMatches
    <2>4. QED
      BY <1>2, <2>2, <2>3 DEF EvaluatePolicy, Decide, Reasons
  <1>3. QED
    BY <1>1, <1>2

-----------------------------------------------------------------------------
(* The rules a decision names                                              *)

\* There is a policy of the named rules alone: they can be listed, each once.
LEMMA NamedRulesCanBeListed ==
    ASSUME NEW pol \in Policy, NEW named \in SUBSET DOMAIN pol.rules
    PROVE  LET matched == {pol.rules[n] : n \in named}
           IN  /\ \E rules \in SequencesUpTo(matched, Cardinality(matched)) :
                     {rules[n] : n \in DOMAIN rules} = matched
               /\ SequencesUpTo(matched, Cardinality(matched)) \subseteq SequencesUpTo(Rule, MaxRules)
  <1> DEFINE matched == {pol.rules[n] : n \in named}
             rule == [n \in named |-> pol.rules[n]]
             c == Cardinality(matched)
  <1>1. PICK k \in 0..MaxRules : pol.rules \in [1..k -> Rule]
    BY DEF Policy, SequencesUpTo
  <1>2. k \in Nat /\ DOMAIN pol.rules = 1..k
    BY <1>1, BoundsAreNaturals
  <1>3. IsFiniteSet(1..k) /\ Cardinality(1..k) = k
    BY <1>2, FS_Interval
  <1>4. IsFiniteSet(named) /\ Cardinality(named) =< k
    BY <1>2, <1>3, FS_Subset
  <1>5. rule \in Surjection(named, matched)
    BY DEF Surjection
  <1>6. IsFiniteSet(matched) /\ Cardinality(matched) =< Cardinality(named)
    BY <1>4, <1>5, FS_Surjection, Zenon
  <1>7. matched \subseteq Rule
    BY <1>1
  <1> HIDE DEF matched
  <1>8. c \in Nat /\ ExistsBijection(1..c, matched)
    BY <1>6, FS_CardinalityType
  <1>9. PICK rules : rules \in Bijection(1..c, matched)
    BY <1>8 DEF ExistsBijection
  <1>10. /\ rules \in [1..c -> matched]
         /\ \A r \in matched : \E n \in 1..c : rules[n] = r
    BY <1>9 DEF Bijection, Injection, Surjection
  <1>11. {rules[n] : n \in DOMAIN rules} = matched
    BY <1>10
  <1>12. rules \in SequencesUpTo(matched, c)
    BY <1>8, <1>10 DEF SequencesUpTo
  <1>13. c =< MaxRules /\ MaxRules \in Nat
    <2>1. Cardinality(named) \in Nat
      BY <1>4, FS_CardinalityType
    <2>2. QED
      BY <1>1, <1>2, <1>4, <1>6, <1>8, <2>1, BoundsAreNaturals
  <1>14. SequencesUpTo(matched, c) \subseteq SequencesUpTo(Rule, MaxRules)
    <2> SUFFICES ASSUME NEW l \in 0..c, NEW f \in [1..l -> matched]
                 PROVE  f \in SequencesUpTo(Rule, MaxRules)
      BY DEF SequencesUpTo
    <2>1. l \in 0..MaxRules
      BY <1>8, <1>13
    <2>2. f \in [1..l -> Rule]
      BY <1>7
    <2>3. QED
      BY <2>1, <2>2 DEF SequencesUpTo
  <1>15. QED
    BY <1>11, <1>12, <1>14 DEF matched

\* A policy with only the rules its decision named decides the same: a deny rule that was
\* found is among them and so is, when no permission is missing one, an allow rule for each.
LEMMA NamedRulesSuffice ==
    ASSUME NEW p, NEW pol \in Policy, NEW statements, NEW rest \in SequencesUpTo(Rule, MaxRules),
           {rest[n] : n \in DOMAIN rest} =
               {pol.rules[n] : n \in EvaluatePolicy(p, pol, statements).matched}
    PROVE  EvaluatePolicy(p, [pol EXCEPT !.rules = rest], statements).allowed
               = EvaluatePolicy(p, pol, statements).allowed
  <1> DEFINE few == [pol EXCEPT !.rules = rest]
             d == EvaluatePolicy(p, pol, statements)
  <1>1. few \in Policy /\ few.rules = rest /\ few.defaultEffect = pol.defaultEffect
    BY DEF Policy
  <1>2. pol # Undefined /\ few # Undefined
    BY <1>1, UndefinedIsNoPolicy
  <1>3. /\ \A n \in DOMAIN few.rules : \E m \in d.matched : few.rules[n] = pol.rules[m]
        /\ \A m \in d.matched : \E n \in DOMAIN few.rules : few.rules[n] = pol.rules[m]
    BY <1>1
  <1>4. /\ d.matched \subseteq DOMAIN pol.rules
        /\ d.allowed \in BOOLEAN
        /\ EvaluatePolicy(p, few, statements).allowed \in BOOLEAN
    BY <1>1, <1>2, EvaluationType
  <1>5. \A n \in DOMAIN few.rules : \E m \in DOMAIN pol.rules : few.rules[n] = pol.rules[m]
    BY <1>3, <1>4
  <1> HIDE DEF few
  <1>6. CASE \E i \in DOMAIN statements : ~statements[i].confident
    BY <1>6 DEF EvaluatePolicy, Decide, few
  <1>7. CASE \A i \in DOMAIN statements : statements[i].confident
    <2>1. CASE Denying(p, pol, statements) # {}
      <3>1. DOMAIN pol.rules \in SUBSET Nat /\ Denying(p, pol, statements) \subseteq DOMAIN pol.rules
        BY RulesAreNumbered DEF Denying
      <3>2. Min(Denying(p, pol, statements)) \in Denying(p, pol, statements)
        BY <2>1, <3>1, MinIsMember
      <3>3. ~d.allowed /\ d.matched = {Min(Denying(p, pol, statements))}
        BY <1>2, <1>7, <2>1 DEF EvaluatePolicy, Decide
      <3>4. PICK n \in DOMAIN few.rules :
                few.rules[n] = pol.rules[Min(Denying(p, pol, statements))]
        BY <1>3, <3>3
      <3>5. n \in Denying(p, few, statements)
        BY <3>2, <3>4 DEF Denying
      <3>6. ~EvaluatePolicy(p, few, statements).allowed
        BY <1>2, <1>7, <3>5 DEF EvaluatePolicy, Decide
      <3>7. QED
        BY <1>4, <3>3, <3>6 DEF few
    <2>2. CASE Denying(p, pol, statements) = {}
      <3>1. Denying(p, few, statements) = {}
        BY <1>5, <2>2 DEF Denying
      <3>2. CASE pol.defaultEffect = "allow"
        BY <1>1, <1>2, <1>7, <2>2, <3>1, <3>2 DEF EvaluatePolicy, Decide, few
      <3>3. CASE pol.defaultEffect # "allow" /\ Missing(p, pol, statements) # {}
        <4>1. PICK at \in Missing(p, pol, statements) : TRUE
          BY <3>3
        <4>2. Allowing(p, few, Permission(statements, at)) = {}
          BY <1>5, <4>1 DEF Missing, Allowing
        <4>3. Missing(p, few, statements) # {}
          BY <4>1, <4>2 DEF Missing
        <4>4. QED
          BY <1>1, <1>2, <1>7, <2>2, <3>1, <3>3, <4>3 DEF EvaluatePolicy, Decide, few
      <3>4. CASE pol.defaultEffect # "allow" /\ Missing(p, pol, statements) = {}
        <4>1. d.matched = AllowMatches(p, pol, statements) /\ d.allowed
          BY <1>2, <1>7, <2>2, <3>4 DEF EvaluatePolicy, Decide
        <4>2. ASSUME NEW at \in Required(statements)
              PROVE  Allowing(p, few, Permission(statements, at)) # {}
          <5> DEFINE found == Allowing(p, pol, Permission(statements, at))
          <5>1. found # {}
            BY <3>4 DEF Missing
          <5>2. DOMAIN pol.rules \in SUBSET Nat /\ found \subseteq DOMAIN pol.rules
            BY RulesAreNumbered DEF Allowing
          <5>3. Min(found) \in found
            BY <5>1, <5>2, MinIsMember
          <5>4. Min(found) \in d.matched
            BY <3>4, <4>1 DEF AllowMatches
          <5>5. PICK n \in DOMAIN few.rules : few.rules[n] = pol.rules[Min(found)]
            BY <1>3, <5>4
          <5>6. n \in Allowing(p, few, Permission(statements, at))
            BY <5>3, <5>5 DEF Allowing
          <5>7. QED
            BY <5>6
        <4>3. Missing(p, few, statements) = {}
          BY <4>2 DEF Missing
        <4>4. QED
          BY <1>1, <1>2, <1>7, <2>2, <3>1, <3>4, <4>3 DEF EvaluatePolicy, Decide, few
      <3>5. QED
        BY <3>2, <3>3, <3>4
    <2>3. QED
      BY <2>1, <2>2
  <1>8. QED
    BY <1>6, <1>7

-----------------------------------------------------------------------------
(* The session                                                             *)

\* What a step needs to know: nothing is decided before there is a principal, a decision
\* is of the last request, and a request that is not empty has a first statement.
SessionInvariant ==
    /\ principal = Undefined => decision = NoDecision
    /\ decision # NoDecision => decision = EvaluatePolicy(principal, policy, batch)
    /\ batch # <<>> => 1 \in DOMAIN batch

LEMMA RequestsStartAtOne ==
    ASSUME NEW statements \in SequencesUpTo(Statement, MaxBatch), statements # <<>>
    PROVE  1 \in DOMAIN statements
  <1>1. PICK k \in 0..MaxBatch : statements \in [1..k -> Statement]
    BY DEF SequencesUpTo
  <1>2. k \in Nat
    BY BoundsAreNaturals
  <1>3. k # 0
    <2>1. SUFFICES ASSUME k = 0
                   PROVE  statements = <<>>
      OBVIOUS
    <2>2. 1..k = {}
      BY <2>1
    <2>3. QED
      BY <1>1, <2>2
  <1>4. QED
    BY <1>1, <1>2, <1>3

\* Every decision is evaluatePolicy's, of the stored policy and the request it answers.
THEOREM DecisionsAreEvaluated == Spec => []SessionInvariant
  <1>1. Init => SessionInvariant
    BY DEF Init, SessionInvariant
  <1>2. SessionInvariant /\ [Next]_vars => SessionInvariant'
    <2> SUFFICES ASSUME SessionInvariant, [Next]_vars
                 PROVE  SessionInvariant'
      OBVIOUS
    <2>1. ASSUME NEW p \in Principal, NEW pol \in Policy \cup {Undefined}, OpenConnection(p, pol)
          PROVE  SessionInvariant'
      BY <2>1 DEF OpenConnection, SessionInvariant
    <2>2. ASSUME NEW statements, statements # <<>> => 1 \in DOMAIN statements,
                 AuthorizeSql(statements)
          PROVE  SessionInvariant'
      BY <2>2 DEF AuthorizeSql, SessionInvariant
    <2>3. ASSUME NEW statements \in SequencesUpTo(Statement, MaxBatch), AuthorizeSql(statements)
          PROVE  SessionInvariant'
      BY <2>2, <2>3, RequestsStartAtOne
    <2>4. ASSUME NEW target \in Table, AuthorizeAppend(target)
          PROVE  SessionInvariant'
      <3>1. 1 \in DOMAIN <<ClassifyAppend(target)>>
        OBVIOUS
      <3>2. QED
        BY <2>2, <2>4, <3>1 DEF AuthorizeAppend
    <2>5. CASE UNCHANGED vars
      BY <2>5 DEF vars, SessionInvariant
    <2>6. QED
      BY <2>1, <2>3, <2>4, <2>5 DEF Next
  <1>3. QED
    BY <1>1, <1>2, PTL DEF Spec

\* The stored context and the decisions keep their types.
THEOREM AuthorizationTypeCorrect == Spec => []TypeOK
  <1>1. Init => TypeOK
    BY DEF Init, TypeOK, NoDecision, Decide, Reasons
  <1>2. TypeOK /\ SessionInvariant /\ [Next]_vars => TypeOK'
    <2> SUFFICES ASSUME TypeOK, SessionInvariant, [Next]_vars
                 PROVE  TypeOK'
      OBVIOUS
    <2>1. ASSUME NEW p \in Principal, NEW pol \in Policy \cup {Undefined}, OpenConnection(p, pol)
          PROVE  TypeOK'
      <3>1. decision' = NoDecision /\ principal' \in Principal /\ policy' \in Policy \cup {Undefined}
        BY <2>1 DEF OpenConnection, SessionInvariant
      <3>2. QED
        BY <3>1 DEF TypeOK, NoDecision, Decide, Reasons
    <2>2. ASSUME NEW statements, AuthorizeSql(statements)
          PROVE  TypeOK'
      <3>1. /\ decision' = EvaluatePolicy(principal, policy, statements)
            /\ UNCHANGED <<principal, policy>>
        BY <2>2 DEF AuthorizeSql
      <3>2. QED
        BY <3>1, EvaluationType DEF TypeOK
    <2>3. ASSUME NEW target \in Table, AuthorizeAppend(target)
          PROVE  TypeOK'
      BY <2>2, <2>3 DEF AuthorizeAppend
    <2>4. CASE UNCHANGED vars
      BY <2>4 DEF vars, TypeOK
    <2>5. QED
      BY <2>1, <2>2, <2>3, <2>4 DEF Next
  <1>3. QED
    BY <1>1, <1>2, DecisionsAreEvaluated, PTL DEF Spec

\* A request is allowed exactly when there is a policy, all of it was classified, and
\* every permission it requires is permitted.
THEOREM DecisionsAlwaysFollowTheRules == Spec => []DecisionsFollowTheRules
  <1>1. SessionInvariant => DecisionsFollowTheRules
    BY EvaluationFollowsTheRules DEF SessionInvariant, DecisionsFollowTheRules
  <1>2. QED
    BY <1>1, DecisionsAreEvaluated, PTL

\* Statements sent in one request are allowed exactly when each is allowed alone.
THEOREM StatementsAlwaysIndependent == Spec => []StatementsAreIndependent
  <1>1. SessionInvariant => StatementsAreIndependent
    <2> SUFFICES ASSUME SessionInvariant, decision # NoDecision, batch # <<>>
                 PROVE  decision.allowed <=>
                            \A i \in DOMAIN batch :
                               EvaluatePolicy(principal, policy, <<batch[i]>>).allowed
      BY DEF StatementsAreIndependent
    <2>1. decision.allowed <=> AllowedBy(principal, policy, batch)
      BY EvaluationFollowsTheRules DEF SessionInvariant
    <2>2. ASSUME NEW i \in DOMAIN batch
          PROVE  EvaluatePolicy(principal, policy, <<batch[i]>>).allowed <=>
                    /\ policy # Undefined
                    /\ batch[i].confident
                    /\ \A j \in DOMAIN batch[i].required :
                          Permitted(principal, policy, batch[i].required[j])
      <3>1. DOMAIN <<batch[i]>> = {1} /\ <<batch[i]>>[1] = batch[i]
        OBVIOUS
      <3>2. QED
        BY <3>1, EvaluationFollowsTheRules DEF AllowedBy
    <2>3. 1 \in DOMAIN batch
      BY DEF SessionInvariant
    <2>4. QED
      BY <2>1, <2>2, <2>3 DEF AllowedBy
  <1>2. QED
    BY <1>1, DecisionsAreEvaluated, PTL

\* A policy of the rules a decision names decides the same, so that they explain it.
THEOREM NamedRulesAlwaysSuffice == Spec => []MatchedRulesSuffice
  <1>1. TypeOK /\ SessionInvariant => MatchedRulesSuffice
    <2> DEFINE matched == {policy.rules[n] : n \in decision.matched}
               rest == CHOOSE rules \in SequencesUpTo(matched, Cardinality(matched)) :
                          {rules[n] : n \in DOMAIN rules} = matched
    <2> SUFFICES ASSUME TypeOK, SessionInvariant, policy # Undefined, decision # NoDecision
                 PROVE  EvaluatePolicy(principal, [policy EXCEPT !.rules = rest], batch).allowed
                            = decision.allowed
      BY DEF MatchedRulesSuffice
    <2>1. policy \in Policy /\ decision.matched \subseteq DOMAIN policy.rules
      BY DEF TypeOK
    <2>2. decision = EvaluatePolicy(principal, policy, batch)
      BY DEF SessionInvariant
    <2>3. /\ rest \in SequencesUpTo(matched, Cardinality(matched))
          /\ {rest[n] : n \in DOMAIN rest} = matched
          /\ SequencesUpTo(matched, Cardinality(matched)) \subseteq SequencesUpTo(Rule, MaxRules)
      BY <2>1, NamedRulesCanBeListed, Zenon
    <2>4. rest \in SequencesUpTo(Rule, MaxRules)
      BY <2>3, Zenon
    <2> HIDE DEF rest
    <2>5. QED
      BY <2>1, <2>2, <2>3, <2>4, NamedRulesSuffice, Zenon
  <1>2. QED
    BY <1>1, DecisionsAreEvaluated, AuthorizationTypeCorrect, PTL
=============================================================================
