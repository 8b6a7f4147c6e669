------------------------ MODULE AccessControl_proofs ------------------------
(***************************************************************************)
(* Machine-checked proofs about AccessControl, for every configuration and *)
(* every request: the loops of authenticate, of authorize_jwt and of       *)
(* build_tuple_user compute what their declarative references say.         *)
(***************************************************************************)
EXTENDS AccessControl, SequenceTheorems, TLAPS

\* The first of a set of indices is its least member.
LEMMA FirstIs ==
    ASSUME NEW S, S \subseteq Int, NEW i \in S, \A j \in S : i <= j
    PROVE  First(S) = i
  <1>1. \E k \in S : \A j \in S : k <= j
    OBVIOUS
  <1>2. First(S) \in S /\ \A j \in S : First(S) <= j
    BY <1>1 DEF First
  <1>3. First(S) \in Int /\ i \in Int
    BY <1>2
  <1>4. First(S) <= i /\ i <= First(S)
    BY <1>2, Zenon
  <1>. QED
    BY <1>3, <1>4

\* The rule at i and the claim it looks at.
RuleDecision(i) ==
    Decision(config.rules[i], request.token.claims[config.rules[i].path])

\* What the loops of authorize_jwt answer: the decision of the first rule that
\* decides, and Deny if no rule does.
IsVerdict(o, rules, claims) ==
    LET D(i) == Decision(rules[i], claims[rules[i].path]) IN
    \/ o = "Deny" /\ \A i \in DOMAIN rules : D(i) = "Undecided"
    \/ \E i \in DOMAIN rules :
         /\ o = D(i) /\ o # "Undecided"
         /\ \A j \in DOMAIN rules : j < i => D(j) = "Undecided"

LoopVerdict ==
    RulesDecided => IsVerdict(outcome, config.rules, request.token.claims)

\* The first rule that decides gives the verdict.
LEMMA VerdictAt ==
    ASSUME NEW i \in DOMAIN config.rules, RuleDecision(i) # "Undecided",
           \A j \in DOMAIN config.rules : j < i => RuleDecision(j) = "Undecided"
    PROVE  IsVerdict(RuleDecision(i), config.rules, request.token.claims)
  BY DEF IsVerdict, RuleDecision

\* If no rule decides the verdict is Deny.
LEMMA VerdictNone ==
    ASSUME \A j \in DOMAIN config.rules : RuleDecision(j) = "Undecided"
    PROVE  IsVerdict("Deny", config.rules, request.token.claims)
  BY DEF IsVerdict, RuleDecision

\* The first listed value of a claim of the right type decides for its rule.
LEMMA DecisionAt ==
    ASSUME NEW rule, NEW claim, claim.type = rule.type, rule.type # "absent",
           DOMAIN claim.vals \subseteq Int,
           NEW j \in DOMAIN claim.vals,
           claim.vals[j] \in rule.blacklist \cup rule.whitelist,
           \A i \in DOMAIN claim.vals :
               i < j => claim.vals[i] \notin rule.blacklist \cup rule.whitelist
    PROVE  Decision(rule, claim) =
               IF claim.vals[j] \in rule.blacklist THEN "Deny" ELSE "Allow"
  <1>. DEFINE listed == {i \in DOMAIN claim.vals :
                           claim.vals[i] \in rule.blacklist \cup rule.whitelist}
  <1>1. First(listed) = j
    <2>1. listed \subseteq Int /\ j \in listed
      OBVIOUS
    <2>2. \A i \in listed : j <= i
      OBVIOUS
    <2>. HIDE DEF listed
    <2>. QED
      BY <2>1, <2>2, FirstIs
  <1>. QED
    BY <1>1 DEF Decision

-----------------------------------------------------------------------------
(***************************************************************************)
(* The rules.  The invariant says that the loops have passed only rules    *)
(* and values that decide nothing.                                         *)
(***************************************************************************)
RuleInv ==
    /\ config \in Configs /\ request \in Requests
    /\ n \in Nat \ {0} /\ m \in Nat \ {0}
    /\ at \in {"header", "keys", "authorize"} => n = 1
    /\ at \in {"rules", "values"} =>
         /\ config.authz = "static" /\ request.purpose = "enter"
         /\ principal = "Jwt"
         /\ \A i \in DOMAIN config.rules : i < n => RuleDecision(i) = "Undecided"
    /\ at = "values" =>
         /\ n \in DOMAIN config.rules
         /\ Claim(Rule.path).type = Rule.type
         /\ \A j \in DOMAIN Claim(Rule.path).vals :
              j < m => Claim(Rule.path).vals[j] \notin Rule.whitelist \cup Rule.blacklist
    /\ at \in {"user", "fields", "check"} => config.authz = "openfga"
    /\ at \in {"apikey", "header", "keys"} => principal # "Jwt"
    /\ LoopVerdict

\* Every step keeps RuleInv.
LEMMA RuleStep == RuleInv /\ [Next]_vars => RuleInv'
  <1>a. SUFFICES ASSUME RuleInv, [Next]_vars PROVE RuleInv'
    OBVIOUS
  <1>. USE DEF RuleInv, Finish, Go, LoopVerdict, RulesDecided
  <1>0. /\ \A i \in DOMAIN config.rules :
             /\ i \in Nat \ {0}
             /\ i <= Len(config.rules)
             /\ config.rules[i].type \in PointerTypes
             /\ config.rules[i].required \in BOOLEAN
             /\ DOMAIN request.token.claims[config.rules[i].path].vals
                  = 1..Len(request.token.claims[config.rules[i].path].vals)
             /\ Len(request.token.claims[config.rules[i].path].vals) \in Nat
        /\ Len(config.rules) \in Nat
        /\ DOMAIN config.rules = 1..Len(config.rules)
    <2>1. /\ IsConfig(config) /\ IsRequest(request)
          /\ Paths(config) \subseteq DOMAIN request.token.claims
      BY <1>a, AccessAssumption
    <2>2. \A i \in DOMAIN config.rules :
             config.rules[i].path \in DOMAIN request.token.claims
      BY <2>1 DEF Paths
    <2>3. Len(config.rules) \in Nat /\ DOMAIN config.rules = 1..Len(config.rules)
      BY <2>1 DEF IsConfig
    <2>4. \A p \in DOMAIN request.token.claims :
             /\ DOMAIN request.token.claims[p].vals
                  = 1..Len(request.token.claims[p].vals)
             /\ Len(request.token.claims[p].vals) \in Nat
      BY <2>1 DEF IsRequest, IsClaims
    <2>5. \A i \in DOMAIN config.rules :
             /\ config.rules[i].type \in PointerTypes
             /\ config.rules[i].required \in BOOLEAN
      BY <2>1 DEF IsConfig
    <2>. QED
      BY <2>2, <2>3, <2>4, <2>5
  <1>b. /\ Len(config.rules) \in Nat /\ DOMAIN config.rules = 1..Len(config.rules)
        /\ n \in Nat \ {0} /\ m \in Nat \ {0}
    BY <1>a, <1>0
  <1>1. CASE ApikeyFrom
    BY <1>a, <1>1 DEF ApikeyFrom
  <1>2. CASE NoApikey
    BY <1>a, <1>2 DEF NoApikey
  <1>3. CASE Header
    BY <1>a, <1>3 DEF Header
  <1>4. CASE TryKey
    BY <1>a, <1>4 DEF TryKey
  <1>5. CASE NoKeyLeft
    BY <1>a, <1>5 DEF NoKeyLeft
  <1>6. CASE StaticAuthorize
    BY <1>a, <1>6, <1>b DEF StaticAuthorize
  <1>7. CASE RuleAbsent
    <2>1. n \in DOMAIN config.rules /\ at = "rules"
      BY <1>b, <1>7 DEF RuleAbsent
    <2>2. RuleDecision(n) = IF config.rules[n].required THEN "Deny" ELSE "Undecided"
      BY <1>7, Zenon DEF RuleAbsent, RuleDecision, Decision, Claim, Rule
    <2>3. CASE config.rules[n].required
      BY <1>a, <1>7, <2>1, <2>2, <2>3, VerdictAt DEF RuleAbsent, Rule, NextRule
    <2>4. CASE ~config.rules[n].required
      <3>1. /\ n' = n + 1 /\ m' = 1 /\ at' = "rules"
            /\ UNCHANGED <<config, request, principal, outcome>>
        BY <1>7, <2>4 DEF RuleAbsent, Rule, NextRule
      <3>2. \A i \in DOMAIN config.rules : i < n + 1 => RuleDecision(i) = "Undecided"
        BY <1>a, <1>b, <2>1, <2>2, <2>4
      <3>. QED
        BY <1>a, <3>1, <3>2, <2>1 DEF RuleDecision
    <2>. QED
      BY <2>3, <2>4
  <1>8. CASE RuleTypeError
    <2>1. n \in DOMAIN config.rules /\ at = "rules"
      BY <1>b, <1>8 DEF RuleTypeError
    <2>2. RuleDecision(n) = "ClaimError"
      BY <1>8, Zenon DEF RuleTypeError, RuleDecision, Decision, Claim, Rule
    <2>. QED
      BY <1>a, <1>8, <2>1, <2>2, VerdictAt DEF RuleTypeError
  <1>9. CASE RuleValues
    <2>1. /\ n \in DOMAIN config.rules /\ at = "rules"
          /\ at' = "values" /\ m' = 1
          /\ UNCHANGED <<config, request, n, principal, outcome>>
          /\ Claim(Rule.path).type = Rule.type
      BY <1>b, <1>9 DEF RuleValues
    <2>2. \A j \in DOMAIN Claim(Rule.path).vals : ~(j < 1)
      <3>. DEFINE vals == Claim(Rule.path).vals
      <3>1. DOMAIN vals = 1..Len(vals) /\ Len(vals) \in Nat
        BY <2>1, <1>0 DEF Claim, Rule
      <3>. HIDE DEF vals
      <3>2. \A j \in DOMAIN vals : ~(j < 1)
        BY <3>1
      <3>. QED
        BY <3>2 DEF vals
    <2>3. (\A i \in DOMAIN config.rules : i < n => RuleDecision(i) = "Undecided")'
      BY <1>a, <2>1 DEF RuleDecision
    <2>4. /\ (Claim(Rule.path).type = Rule.type)'
          /\ (\A j \in DOMAIN Claim(Rule.path).vals : ~(j < 1))'
      BY <2>1, <2>2 DEF Claim, Rule
    <2>. QED
      BY <1>a, <2>1, <2>3, <2>4
  <1>10. CASE RuleValue
    <2>. DEFINE rule == config.rules[n]
                claim == request.token.claims[rule.path]
    <2>1. /\ n \in DOMAIN config.rules /\ at = "values"
          /\ m \in DOMAIN claim.vals /\ DOMAIN claim.vals \subseteq Int
          /\ claim.type = rule.type /\ rule.type # "absent"
          /\ \A j \in DOMAIN claim.vals :
               j < m => claim.vals[j] \notin rule.blacklist \cup rule.whitelist
          /\ UNCHANGED <<config, request, n, principal>>
      <3>1. /\ n \in DOMAIN config.rules /\ at = "values"
            /\ m <= Len(claim.vals) /\ claim.type = rule.type
            /\ \A j \in DOMAIN claim.vals :
                 j < m => claim.vals[j] \notin rule.whitelist \cup rule.blacklist
            /\ UNCHANGED <<config, request, n, principal>>
        BY <1>a, <1>10, Zenon DEF RuleValue, Claim, Rule
      <3>2. /\ rule.type \in PointerTypes /\ Len(claim.vals) \in Nat
            /\ DOMAIN claim.vals = 1..Len(claim.vals)
        BY <3>1, <1>0, Zenon
      <3>3. m \in Nat \ {0}
        BY <1>a
      <3>. HIDE DEF rule, claim
      <3>. QED
        BY <3>1, <3>2, <3>3 DEF PointerTypes
    <2>2. CASE claim.vals[m] \in rule.blacklist \cup rule.whitelist
      <3>1. RuleDecision(n) =
              IF claim.vals[m] \in rule.blacklist THEN "Deny" ELSE "Allow"
        BY <2>1, <2>2, DecisionAt, Zenon DEF RuleDecision
      <3>2. IsVerdict(RuleDecision(n), config.rules, request.token.claims)
        BY <1>a, <2>1, <3>1, VerdictAt
      <3>3. /\ outcome' = IF claim.vals[m] \in rule.blacklist THEN "Deny" ELSE "Allow"
            /\ at' = "done" /\ m' = m
        BY <1>10, <2>2 DEF RuleValue, Claim, Rule
      <3>. QED
        BY <1>a, <2>1, <3>1, <3>2, <3>3, Zenon
    <2>3. CASE claim.vals[m] \notin rule.blacklist \cup rule.whitelist
      <3>1. at' = "values" /\ m' = m + 1 /\ UNCHANGED outcome
        BY <1>10, <2>3 DEF RuleValue, Claim, Rule
      <3>2. \A j \in DOMAIN claim.vals :
               j < m + 1 => claim.vals[j] \notin rule.blacklist \cup rule.whitelist
        <4>1. m \in Nat
          BY <1>a
        <4>. HIDE DEF rule, claim
        <4>. QED
          BY <2>1, <2>3, <4>1
      <3>3. (\A i \in DOMAIN config.rules : i < n => RuleDecision(i) = "Undecided")'
        BY <1>a, <2>1, Zenon DEF RuleDecision
      <3>4. /\ (Claim(Rule.path).type = Rule.type)'
            /\ (\A j \in DOMAIN Claim(Rule.path).vals :
                  j < m => Claim(Rule.path).vals[j]
                             \notin Rule.whitelist \cup Rule.blacklist)'
        BY <2>1, <3>1, <3>2, Zenon DEF Claim, Rule
      <3>5. m' \in Nat \ {0}
        BY <1>a, <3>1
      <3>. HIDE DEF rule, claim
      <3>. QED
        BY <1>a, <2>1, <3>1, <3>3, <3>4, <3>5
    <2>. QED
      BY <2>2, <2>3
  <1>11. CASE RuleUndecided
    <2>. DEFINE rule == config.rules[n]
                claim == request.token.claims[rule.path]
    <2>1. /\ n \in DOMAIN config.rules /\ at = "values"
          /\ claim.type = rule.type /\ rule.type \in PointerTypes
          /\ \A j \in DOMAIN claim.vals :
               claim.vals[j] \notin rule.blacklist \cup rule.whitelist
          /\ n' = n + 1 /\ m' = 1 /\ at' = "rules"
          /\ UNCHANGED <<config, request, principal, outcome>>
      <3>1. /\ n \in DOMAIN config.rules /\ at = "values"
            /\ m > Len(claim.vals) /\ claim.type = rule.type
            /\ \A j \in DOMAIN claim.vals :
                 j < m => claim.vals[j] \notin rule.whitelist \cup rule.blacklist
            /\ n' = n + 1 /\ m' = 1 /\ at' = "rules"
            /\ UNCHANGED <<config, request, principal, outcome>>
        BY <1>a, <1>11, Zenon DEF RuleUndecided, Claim, Rule, NextRule
      <3>2. /\ rule.type \in PointerTypes /\ Len(claim.vals) \in Nat
            /\ DOMAIN claim.vals = 1..Len(claim.vals)
        BY <3>1, <1>0, Zenon
      <3>3. m \in Nat \ {0}
        BY <1>a
      <3>. HIDE DEF rule, claim
      <3>. QED
        BY <3>1, <3>2, <3>3
    <2>2. RuleDecision(n) = "Undecided"
      BY <2>1, Zenon DEF RuleDecision, Decision, PointerTypes
    <2>3. \A i \in DOMAIN config.rules : i < n + 1 => RuleDecision(i) = "Undecided"
      <3>. HIDE DEF rule, claim
      <3>. QED
        BY <1>a, <1>b, <2>1, <2>2
    <2>4. (\A i \in DOMAIN config.rules : i < n => RuleDecision(i) = "Undecided")'
      BY <2>1, <2>3 DEF RuleDecision
    <2>. HIDE DEF rule, claim
    <2>. QED
      BY <1>a, <2>1, <2>4
  <1>12. CASE NoRuleLeft
    <2>1. /\ \A j \in DOMAIN config.rules : RuleDecision(j) = "Undecided"
          /\ at = "rules" /\ at' = "done" /\ outcome' = "Deny"
          /\ UNCHANGED <<config, request, n, m, principal>>
      BY <1>a, <1>b, <1>12 DEF NoRuleLeft
    <2>2. IsVerdict("Deny", config.rules, request.token.claims)
      BY <2>1, VerdictNone, Zenon
    <2>. QED
      BY <1>a, <1>b, <2>1, <2>2
  <1>13. CASE FgaAuthorize
    BY <1>a, <1>13 DEF FgaAuthorize
  <1>14. CASE TupleUser
    BY <1>a, <1>14 DEF TupleUser
  <1>15. CASE TupleField
    BY <1>a, <1>15 DEF TupleField
  <1>16. CASE NoFieldLeft
    BY <1>a, <1>16 DEF NoFieldLeft
  <1>17. CASE Check
    BY <1>a, <1>17 DEF Check
  <1>18. CASE UNCHANGED vars
    BY <1>a, <1>18 DEF vars, Claim, Rule, RuleDecision
  <1>. QED
    BY <1>a, <1>1, <1>2, <1>3, <1>4, <1>5, <1>6, <1>7, <1>8, <1>9, <1>10,
       <1>11, <1>12, <1>13, <1>14, <1>15, <1>16, <1>17, <1>18 DEF Next

\* The exact verdict gives what the property asks of it: the first deciding
\* rule is the one it names, and if no rule decides none says Allow.
LEMMA VerdictExplains == RuleInv => VerdictWithinRules
  <1>. SUFFICES ASSUME RuleInv, RulesDecided PROVE VerdictWithinRules
    BY DEF VerdictWithinRules
  <1>. DEFINE rules == DOMAIN config.rules
  <1>1. \A i \in rules : RuleSays(i) = RuleDecision(i)
    BY Zenon DEF RuleSays, RuleDecision, Claim
  <1>2. IsVerdict(outcome, config.rules, request.token.claims)
    BY DEF RuleInv, LoopVerdict
  <1>3. \A i \in rules : RuleDecision(i) \in {"Undecided", "Deny", "Allow", "ClaimError"}
    BY DEF RuleDecision, Decision
  <1>4. CASE outcome = "Deny" /\ \A i \in rules : RuleDecision(i) = "Undecided"
    BY <1>1, <1>4 DEF VerdictWithinRules
  <1>5. ASSUME NEW i \in rules, outcome = RuleDecision(i), outcome # "Undecided",
               \A j \in rules : j < i => RuleDecision(j) = "Undecided"
        PROVE  VerdictWithinRules
    BY <1>1, <1>3, <1>5 DEF VerdictWithinRules
  <1>. QED
    BY <1>2, <1>4, <1>5, Zenon DEF IsVerdict, RuleDecision

\* No early return or continue of the loops of authorize_jwt passes over a rule
\* that denies a token or fails on it, or lets in one that no rule whitelists,
\* whatever the rules and the claims.
THEOREM VerdictJustified == Spec => []VerdictWithinRules
  <1>1. Init => RuleInv
    BY DEF Init, RuleInv, LoopVerdict, RulesDecided
  <1>. QED
    BY <1>1, VerdictExplains, RuleStep, PTL DEF Spec

-----------------------------------------------------------------------------
(***************************************************************************)
(* The keys.  The invariant says that every key already tried has failed,  *)
(* and that a token was accepted by a key it could be tried with.          *)
(***************************************************************************)
KeyInv ==
    /\ at \in {"apikey", "header", "keys"} => principal # "Jwt"
    /\ \A key \in tried : ~Decodes(config, request.token, key)
    /\ principal = "Jwt" =>
         \E key \in PickJwtkey(config, request.token) :
             Decodes(config, request.token, key)
    /\ outcome = "Unauthenticated" /\ request.authorization = "bearer" =>
         \A key \in PickJwtkey(config, request.token) :
             ~Decodes(config, request.token, key)
    /\ outcome # "none" <=> at = "done"

\* The keys the code picks, and what decode makes of them, give TokenChecked.
LEMMA KeyInvChecks == KeyInv => TokenChecked
  <1>. SUFFICES ASSUME KeyInv PROVE TokenChecked
    OBVIOUS
  <1>1. CASE ~config.verify
    BY <1>1 DEF KeyInv, TokenChecked, PickJwtkey, Decodes
  <1>2. CASE config.verify
    BY <1>2 DEF KeyInv, TokenChecked, PickJwtkey, Decodes, KidMap, NoKidKeys
  <1>. QED
    BY <1>1, <1>2

\* Every step keeps KeyInv.
LEMMA KeyStep == KeyInv /\ [Next]_vars => KeyInv'
  <1>. SUFFICES ASSUME KeyInv, [Next]_vars PROVE KeyInv'
    OBVIOUS
  <1>. USE DEF KeyInv, Finish, Go
  <1>1. UNCHANGED <<config, request>>
    BY DEF Next, vars, ApikeyFrom, NoApikey, Header, TryKey, NoKeyLeft,
           StaticAuthorize, RuleAbsent, RuleTypeError, RuleValues, RuleValue,
           RuleUndecided, NoRuleLeft, FgaAuthorize, TupleUser, TupleField,
           NoFieldLeft, Check
  <1>2. CASE ApikeyFrom
    BY <1>1, <1>2 DEF ApikeyFrom
  <1>3. CASE NoApikey
    BY <1>1, <1>3 DEF NoApikey
  <1>4. CASE Header
    BY <1>1, <1>4 DEF Header
  <1>5. CASE TryKey
    BY <1>1, <1>5 DEF TryKey
  <1>6. CASE NoKeyLeft
    BY <1>1, <1>6 DEF NoKeyLeft
  <1>7. CASE StaticAuthorize \/ FgaAuthorize
    BY <1>1, <1>7 DEF StaticAuthorize, FgaAuthorize, AuthorizeApikey
  <1>8. CASE RuleAbsent \/ RuleTypeError \/ RuleValues \/ RuleValue
               \/ RuleUndecided \/ NoRuleLeft
    BY <1>1, <1>8 DEF RuleAbsent, RuleTypeError, RuleValues, RuleValue,
                      RuleUndecided, NoRuleLeft, NextRule
  <1>9. CASE TupleUser \/ TupleField \/ NoFieldLeft \/ Check
    BY <1>1, <1>9 DEF TupleUser, TupleField, NoFieldLeft, Check
  <1>10. CASE UNCHANGED vars
    BY <1>10 DEF vars
  <1>. QED
    BY <1>2, <1>3, <1>4, <1>5, <1>6, <1>7, <1>8, <1>9, <1>10 DEF Next

\* A token is accepted exactly when its reference says so, in whatever order
\* the loop of authenticate tries the keys of whatever JWK set.
THEOREM TokenCheck == Spec => []TokenChecked
  <1>1. Init => KeyInv
    BY DEF Init, KeyInv
  <1>. QED
    BY <1>1, KeyInvChecks, KeyStep, PTL DEF Spec

-----------------------------------------------------------------------------
(***************************************************************************)
(* Types.                                                                  *)
(***************************************************************************)

\* Every step keeps the types of the loops' state.
LEMMA TypeStep == TypeOK /\ [Next]_vars => TypeOK'
  <1>. SUFFICES ASSUME TypeOK, [Next]_vars PROVE TypeOK'
    OBVIOUS
  <1>. USE DEF TypeOK, Results, Failures, Finish, Go
  <1>1. CASE ApikeyFrom \/ NoApikey
    BY <1>1 DEF ApikeyFrom, NoApikey
  <1>2. CASE Header \/ TryKey \/ NoKeyLeft
    BY <1>2 DEF Header, TryKey, NoKeyLeft
  <1>3. CASE StaticAuthorize \/ FgaAuthorize
    BY <1>3 DEF StaticAuthorize, FgaAuthorize, AuthorizeApikey
  <1>4. CASE RuleAbsent \/ RuleTypeError \/ RuleValues
    BY <1>4 DEF RuleAbsent, RuleTypeError, RuleValues, NextRule
  <1>5. CASE RuleValue \/ RuleUndecided \/ NoRuleLeft
    BY <1>5 DEF RuleValue, RuleUndecided, NoRuleLeft, NextRule
  <1>6. CASE TupleUser \/ TupleField \/ NoFieldLeft \/ Check
    BY <1>6 DEF TupleUser, TupleField, NoFieldLeft, Check
  <1>7. CASE UNCHANGED vars
    BY <1>7 DEF vars
  <1>. QED
    BY <1>1, <1>2, <1>3, <1>4, <1>5, <1>6, <1>7 DEF Next

\* Type correctness: there is an outcome exactly when the code has returned, and
\* no authorizer runs before authenticate has named a principal.
THEOREM AccessTypeCorrect == Spec => []TypeOK
  <1>1. Init => TypeOK
    BY DEF Init, TypeOK
  <1>. QED
    BY <1>1, TypeStep, PTL DEF Spec

-----------------------------------------------------------------------------
(***************************************************************************)
(* The contextual tuples.  The invariant says that the loop of             *)
(* build_tuple_user has passed only fields whose values all have a tuple,  *)
(* and that there are no tuples but of a configured relation and a value   *)
(* of the token.                                                           *)
(***************************************************************************)
Tuples ==
    {config.context_fields[i].relation : i \in DOMAIN config.context_fields} \X
    UNION {{request.token.claims[p].vals[j] : j \in DOMAIN request.token.claims[p].vals} :
             p \in DOMAIN request.token.claims}

\* Every value of field i has its tuple.
Covered(i) ==
    LET f == config.context_fields[i] IN
    /\ Claim(f.path).type = f.type
    /\ \A j \in DOMAIN Claim(f.path).vals :
         \E k \in DOMAIN context :
           context[k] = <<f.relation, Claim(f.path).vals[j]>>

UserIsString == Claim(config.claim_path).type = "string"

FieldInv ==
    /\ TypeOK
    /\ context \in Seq(Tuples)
    /\ at \in {"header", "keys", "authorize", "user"} => n = 1
    /\ at = "fields" =>
         /\ principal = "Jwt" /\ UserIsString
         /\ \A i \in DOMAIN config.context_fields : i < n => Covered(i)
    /\ at = "check" /\ principal = "Jwt" =>
         /\ UserIsString
         /\ \A i \in DOMAIN config.context_fields : Covered(i)

\* What is covered stays covered when tuples are only added.
LEMMA CoveredStays ==
    ASSUME UNCHANGED <<config, request>>,
           \A k \in DOMAIN context :
               k \in DOMAIN context' /\ context'[k] = context[k]
    PROVE  /\ Tuples' = Tuples
           /\ UserIsString' <=> UserIsString
           /\ \A i \in DOMAIN config.context_fields : Covered(i) => Covered(i)'
  <1>1. Tuples' = Tuples
    BY DEF Tuples
  <1>2. UserIsString' <=> UserIsString
    BY DEF UserIsString, Claim
  <1>3. ASSUME NEW i \in DOMAIN config.context_fields, Covered(i)
        PROVE  Covered(i)'
    <2>. DEFINE f == config.context_fields[i]
                c == request.token.claims[f.path]
    <2>1. /\ c.type = f.type
          /\ \A j \in DOMAIN c.vals :
                \E k \in DOMAIN context : context[k] = <<f.relation, c.vals[j]>>
      BY <1>3, Zenon DEF Covered, Claim
    <2>2. \A j \in DOMAIN c.vals :
              \E k \in DOMAIN context' : context'[k] = <<f.relation, c.vals[j]>>
      <3>. HIDE DEF f, c
      <3>. QED
        BY <2>1
    <2>. QED
      BY <2>1, <2>2, Zenon DEF Covered, Claim
  <1>. QED
    BY <1>1, <1>2, <1>3

\* A step that leaves the tuples alone and passes no field.
LEMMA FieldFrame ==
    ASSUME FieldInv, TypeOK', UNCHANGED <<config, request, context>>,
           at' \in {"header", "keys", "authorize", "user"} => n' = 1,
           at' = "fields" => at = "fields" /\ UNCHANGED <<n, principal>>,
           at' = "check" /\ principal' = "Jwt" => at = "check" /\ UNCHANGED principal
    PROVE  FieldInv'
  BY CoveredStays DEF FieldInv

\* A sequence goes on behind another one.
LEMMA ConcatKeeps ==
    ASSUME NEW S, NEW q \in Seq(S), NEW r \in Seq(S)
    PROVE  /\ q \o r \in Seq(S)
           /\ \A k \in DOMAIN q : k \in DOMAIN (q \o r) /\ (q \o r)[k] = q[k]
           /\ \A j \in DOMAIN r : \E k \in DOMAIN (q \o r) : (q \o r)[k] = r[j]
  <1>1. /\ DOMAIN q = 1..Len(q) /\ DOMAIN r = 1..Len(r)
        /\ Len(q) \in Nat /\ Len(r) \in Nat
    OBVIOUS
  <1>2. /\ q \o r \in Seq(S) /\ DOMAIN (q \o r) = 1..Len(q) + Len(r)
        /\ \A i \in 1..Len(q) + Len(r) :
              (q \o r)[i] = IF i <= Len(q) THEN q[i] ELSE r[i - Len(q)]
    BY ConcatProperties
  <1>3. ASSUME NEW j \in DOMAIN r
        PROVE  \E k \in DOMAIN (q \o r) : (q \o r)[k] = r[j]
    <2>1. /\ Len(q) + j \in 1..Len(q) + Len(r) /\ ~(Len(q) + j <= Len(q))
          /\ (Len(q) + j) - Len(q) = j
      BY <1>1
    <2>2. (q \o r)[Len(q) + j] = r[j]
      BY <1>2, <2>1
    <2>. QED
      BY <1>2, <2>1, <2>2
  <1>4. ASSUME NEW k \in DOMAIN q
        PROVE  k \in DOMAIN (q \o r) /\ (q \o r)[k] = q[k]
    <2>1. k \in 1..Len(q) + Len(r) /\ k <= Len(q)
      BY <1>1
    <2>. QED
      BY <1>2, <2>1
  <1>. QED
    BY <1>2, <1>3, <1>4

\* What the configuration says of context field i and its claim.
LEMMA FieldTypes ==
    ASSUME TypeOK
    PROVE  /\ Len(config.context_fields) \in Nat
           /\ DOMAIN config.context_fields = 1..Len(config.context_fields)
           /\ \A i \in DOMAIN config.context_fields :
                LET c == Claim(config.context_fields[i].path) IN
                /\ config.context_fields[i].path \in DOMAIN request.token.claims
                /\ DOMAIN c.vals = 1..Len(c.vals) /\ Len(c.vals) \in Nat
  <1>1. /\ IsConfig(config) /\ IsRequest(request)
        /\ Paths(config) \subseteq DOMAIN request.token.claims
    BY AccessAssumption DEF TypeOK
  <1>2. \A i \in DOMAIN config.context_fields :
           config.context_fields[i].path \in DOMAIN request.token.claims
    BY <1>1 DEF Paths
  <1>3. /\ Len(config.context_fields) \in Nat
        /\ DOMAIN config.context_fields = 1..Len(config.context_fields)
    BY <1>1 DEF IsConfig
  <1>4. \A p \in DOMAIN request.token.claims :
           LET c == Claim(p) IN
           DOMAIN c.vals = 1..Len(c.vals) /\ Len(c.vals) \in Nat
    BY <1>1 DEF IsRequest, IsClaims, Claim
  <1>. QED
    BY <1>2, <1>3, <1>4

\* One field: its tuples follow those of the fields before it.
LEMMA FieldAppends ==
    ASSUME FieldInv, TypeOK', TupleField
    PROVE  FieldInv'
  <1>. DEFINE vals == Claim(Field.path).vals
              new == [i \in DOMAIN vals |-> <<Field.relation, vals[i]>>]
  <1>0. n \in Nat \ {0} /\ TypeOK
    BY DEF FieldInv, TypeOK
  <1>1. /\ n \in DOMAIN config.context_fields
        /\ UNCHANGED <<config, request, principal>>
    BY <1>0, FieldTypes DEF TupleField
  <1>2. CASE Claim(Field.path).type # Field.type
    <2>1. at' = "done" /\ context' = context
      BY <1>2 DEF TupleField, Finish
    <2>. QED
      BY <1>1, <2>1, FieldFrame
  <1>3. CASE Claim(Field.path).type = Field.type
    <2>1. /\ at = "fields" /\ at' = "fields" /\ n' = n + 1
          /\ context' = context \o new
      BY <1>3 DEF TupleField, Go
    <2>2. context \in Seq(Tuples) /\ new \in Seq(Tuples)
      <3>1. DOMAIN vals = 1..Len(vals) /\ Len(vals) \in Nat
        BY <1>0, <1>1, FieldTypes DEF Field
      <3>2. Field.path \in DOMAIN request.token.claims
        BY <1>0, <1>1, FieldTypes DEF Field
      <3>3. ASSUME NEW i \in DOMAIN vals PROVE <<Field.relation, vals[i]>> \in Tuples
        <4>1. Field.relation \in {config.context_fields[j].relation :
                                   j \in DOMAIN config.context_fields}
          BY <1>1 DEF Field
        <4>2. vals[i] \in UNION {{request.token.claims[p].vals[j] :
                                     j \in DOMAIN request.token.claims[p].vals} :
                                   p \in DOMAIN request.token.claims}
          <5>1. vals[i] \in {vals[j] : j \in DOMAIN vals}
            BY <3>3
          <5>. QED
            BY <3>2, <5>1 DEF Claim
        <4>. QED
          BY <4>1, <4>2, Zenon DEF Tuples
      <3>. HIDE DEF vals
      <3>. QED
        BY <3>1, <3>3 DEF FieldInv
    <2>3. /\ context' \in Seq(Tuples)
          /\ \A k \in DOMAIN context :
               k \in DOMAIN context' /\ context'[k] = context[k]
          /\ \A j \in DOMAIN new : \E k \in DOMAIN context' : context'[k] = new[j]
      <3>. HIDE DEF new
      <3>1. /\ context \o new \in Seq(Tuples)
            /\ \A k \in DOMAIN context :
                 /\ k \in DOMAIN (context \o new)
                 /\ (context \o new)[k] = context[k]
            /\ \A j \in DOMAIN new :
                 \E k \in DOMAIN (context \o new) : (context \o new)[k] = new[j]
        BY <2>2, ConcatKeeps
      <3>. QED
        BY <2>1, <3>1
    <2>4. ASSUME NEW i \in DOMAIN config.context_fields, i = n PROVE Covered(i)'
      <3>. DEFINE f == config.context_fields[i]
                  c == request.token.claims[f.path]
      <3>1. DOMAIN new = DOMAIN c.vals
            /\ \A j \in DOMAIN c.vals : new[j] = <<f.relation, c.vals[j]>>
        BY <2>4 DEF Field, Claim
      <3>2. \A j \in DOMAIN c.vals :
              \E k \in DOMAIN context' : context'[k] = <<f.relation, c.vals[j]>>
        <4>. HIDE DEF f, c, new
        <4>. QED
          BY <2>3, <3>1
      <3>3. c.type = f.type
        BY <1>3, <2>4 DEF Field, Claim
      <3>4. config' = config /\ request' = request
        BY <1>1
      <3>. QED
        BY <3>2, <3>3, <3>4, Zenon DEF Covered, Claim
    <2>5. ASSUME NEW i \in DOMAIN config.context_fields, i < n + 1, i # n
          PROVE  Covered(i)'
      <3>1. i < n
        BY <1>0, <2>5, FieldTypes
      <3>. QED
        BY <1>1, <2>1, <2>3, <3>1, CoveredStays DEF FieldInv
    <2>6. Tuples' = Tuples /\ UserIsString'
      BY <1>1, <2>1, <2>3, CoveredStays DEF FieldInv
    <2>7. \A i \in DOMAIN config.context_fields : i < n + 1 => Covered(i)'
      BY <2>4, <2>5
    <2>. QED
      BY <1>1, <2>1, <2>3, <2>6, <2>7 DEF FieldInv
  <1>. QED
    BY <1>2, <1>3

\* Every step keeps FieldInv.
LEMMA FieldStep == FieldInv /\ [Next]_vars => FieldInv'
  <1>. SUFFICES ASSUME FieldInv, [Next]_vars PROVE FieldInv'
    OBVIOUS
  <1>. USE DEF Finish, Go
  <1>0. TypeOK /\ TypeOK'
    BY TypeStep DEF FieldInv
  <1>1. CASE ApikeyFrom \/ NoApikey \/ Header \/ TryKey \/ NoKeyLeft
    <2>1. at \in {"header", "keys"} => n = 1
      BY DEF FieldInv
    <2>. QED
      BY <1>0, <1>1, <2>1, FieldFrame
      DEF ApikeyFrom, NoApikey, Header, TryKey, NoKeyLeft
  <1>2. CASE StaticAuthorize \/ FgaAuthorize
    <2>1. at = "authorize" => n = 1
      BY DEF FieldInv
    <2>. QED
      BY <1>0, <1>2, <2>1, FieldFrame DEF StaticAuthorize, FgaAuthorize
  <1>3. CASE \/ RuleAbsent \/ RuleTypeError \/ RuleValues \/ RuleValue
             \/ RuleUndecided \/ NoRuleLeft \/ Check
    BY <1>0, <1>3, FieldFrame
    DEF RuleAbsent, RuleTypeError, RuleValues, RuleValue, RuleUndecided,
        NoRuleLeft, NextRule, Check
  <1>4. CASE TupleUser
    <2>1. n = 1 /\ at = "user" /\ UNCHANGED <<config, request, n, principal, context>>
      BY <1>4 DEF TupleUser, FieldInv
    <2>2. CASE at' = "done" \/ (at' = "check" /\ principal # "Jwt")
      BY <1>0, <2>1, <2>2, FieldFrame
    <2>3. CASE at' = "fields" /\ principal = "Jwt" /\ UserIsString
      <3>1. \A i \in DOMAIN config.context_fields : ~(i < 1)
        BY <1>0, FieldTypes
      <3>. QED
        BY <1>0, <2>1, <2>3, <3>1, CoveredStays DEF FieldInv
    <2>. QED
      BY <1>4, <2>2, <2>3 DEF TupleUser, UserIsString
  <1>5. CASE TupleField
    BY <1>0, <1>5, FieldAppends
  <1>6. CASE NoFieldLeft
    <2>1. \A i \in DOMAIN config.context_fields : i < n
      BY <1>0, <1>6, FieldTypes DEF NoFieldLeft, TypeOK
    <2>2. /\ at = "fields" /\ at' = "check"
          /\ UNCHANGED <<config, request, principal, context>>
      BY <1>6 DEF NoFieldLeft
    <2>. QED
      BY <1>0, <2>1, <2>2, CoveredStays DEF FieldInv
  <1>7. CASE UNCHANGED vars
    BY <1>0, <1>7, FieldFrame DEF vars, FieldInv
  <1>. QED
    BY <1>1, <1>2, <1>3, <1>4, <1>5, <1>6, <1>7 DEF Next

\* OpenFGA is asked about a token's user only with the tuples of every configured
\* field, however many fields there are and however many values their claims have.
THEOREM ContextIsComplete == Spec => []ContextComplete
  <1>1. Init => FieldInv
    BY DEF Init, FieldInv, TypeOK
  <1>2. FieldInv => ContextComplete
    BY DEF FieldInv, ContextComplete, UserIsString, Covered
  <1>. QED
    BY <1>1, <1>2, FieldStep, PTL DEF Spec
=============================================================================
