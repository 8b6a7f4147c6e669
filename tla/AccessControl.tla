--------------------------- MODULE AccessControl ----------------------------
(***************************************************************************)
(* What happens to a request before its handler uses a session: the        *)
(* authenticator (authn_basic.rs) and one of the two authorizers           *)
(* (authz_static.rs, authz_fga.rs).  ProxyHandlers keeps only the outcome. *)
(*                                                                         *)
(* Configuration and request are chosen once; a step is one iteration of a *)
(* loop of the code.  Claims are abstracted to what the code asks of them: *)
(* whether the path resolves, the JSON type, the strings found there.      *)
(***************************************************************************)
EXTENDS Integers, Sequences, FiniteSets

CONSTANTS
    Configs,   \* configurations, records as in IsConfig
    Requests,  \* requests, records as in IsRequest
    NoKid,     \* a JWK or a token header without a kid
    NoValue,   \* a header or a query parameter that is not there
    EmptyKey   \* the key used when tokens are not verified

\* JwtContextPointerType, and the JSON types of a claim: "other" is any type
\* but these two, an array with an element that is no string among them.
PointerTypes == {"string", "string[]"}
ClaimTypes == PointerTypes \cup {"other", "absent"}

IsClaims(c) ==
    \A p \in DOMAIN c :
        /\ c[p].type \in ClaimTypes
        /\ DOMAIN c[p].vals = 1..Len(c[p].vals) /\ Len(c[p].vals) \in Nat

\* A configuration: where API keys are looked for, the JWK set, whether there
\* is a validator (no-check has none), and the authorizer's part.
IsConfig(c) ==
    /\ c.authz \in {"static", "openfga"} /\ c.verify \in BOOLEAN
    /\ \A q \in {c.key_from, c.jwks, c.rules, c.context_fields} :
         Len(q) \in Nat /\ DOMAIN q = 1..Len(q)
    /\ \A i \in DOMAIN c.rules :
         /\ c.rules[i].type \in PointerTypes
         /\ c.rules[i].required \in BOOLEAN
    /\ \A i \in DOMAIN c.context_fields :
         c.context_fields[i].type \in PointerTypes

\* The paths a configuration asks for.
Paths(c) ==
    {c.claim_path} \cup {c.rules[i].path : i \in DOMAIN c.rules}
        \cup {c.context_fields[i].path : i \in DOMAIN c.context_fields}

\* A request: GET /sse ("enter"), or POST /message with a tools/call ("tool") or
\* another message ("other").
IsRequest(r) ==
    /\ r.purpose \in {"enter", "tool", "other"}
    /\ r.authorization \in {"none", "unusable", "bearer"}
    /\ r.token.valid \in BOOLEAN
    /\ IsClaims(r.token.claims)

ASSUME AccessAssumption ==
    /\ \A c \in Configs : IsConfig(c)
    /\ \A r \in Requests : IsRequest(r)
    /\ \A c \in Configs, r \in Requests :
         /\ Paths(c) \subseteq DOMAIN r.token.claims
         /\ \A i \in DOMAIN c.key_from : c.key_from[i] \in DOMAIN r.values

VARIABLES
    config, request,
    at,         \* the loop or the call the code is in
    n, m,       \* index of its outer and of its inner iteration
    tried,      \* keys the token was decoded with in vain
    principal,  \* the Authentication: ApiKey, Jwt or NoAuth
    apikey,     \* the API key
    context,    \* contextual tuples of the check, as <<relation, value>>, the
                \* field's group being part of the relation
    outcome     \* of authenticate or of the authorizer

vars == <<config, request, at, n, m, tried, principal, apikey, context, outcome>>

Results == {"Allow", "Deny", "Unauthorized"}
Failures == {"Unauthenticated", "AuthenticationFailed", "ClaimError", "CheckFailed"}

TypeOK ==
    /\ config \in Configs /\ request \in Requests
    /\ at \in {"apikey", "header", "keys", "authorize", "rules", "values",
               "user", "fields", "check", "done"}
    /\ n \in Nat \ {0} /\ m \in Nat \ {0}
    /\ principal \in {"none", "ApiKey", "Jwt", "NoAuth"}
    /\ outcome \in {"none"} \cup Results \cup Failures
    /\ at = "done" <=> outcome # "none"
    /\ at \in {"authorize", "rules", "values", "user", "fields", "check"}
         => principal # "none"

\* The configuration as AuthnBasic::new has loaded it: the JWK set is embedded,
\* fetched or discovered once, at startup, and with no-check there is none.
Init ==
    /\ config \in Configs /\ request \in Requests
    /\ at = "apikey" /\ n = 1 /\ m = 1
    /\ tried = {}
    /\ principal = "none" /\ apikey = NoValue
    /\ context = <<>>
    /\ outcome = "none"

Finish(o) ==
    /\ at' = "done"
    /\ outcome' = o

Go(p) ==
    /\ at' = p
    /\ UNCHANGED outcome

-----------------------------------------------------------------------------
(***************************************************************************)
(* authenticate.                                                           *)
(***************************************************************************)

\* The first place that has a value has the API key; a token is not looked at.
ApikeyFrom ==
    /\ at = "apikey"
    /\ n <= Len(config.key_from)
    /\ LET v == request.values[config.key_from[n]] IN
         IF v = NoValue
         THEN /\ n' = n + 1
              /\ Go("apikey")
              /\ UNCHANGED <<principal, apikey>>
         ELSE /\ principal' = "ApiKey"
              /\ apikey' = v
              /\ n' = 1
              /\ Go("authorize")
    /\ UNCHANGED <<config, request, m, tried, context>>

NoApikey ==
    /\ at = "apikey"
    /\ n > Len(config.key_from)
    /\ n' = 1
    /\ Go("header")
    /\ UNCHANGED <<config, request, m, tried, principal, apikey, context>>

\* Mutant: an unusable header is passed over.
Header_Lenient ==
    /\ at = "header"
    /\ \/ /\ request.authorization = "none"
          /\ principal' = "NoAuth"
          /\ Go("authorize")
       \/ /\ request.authorization = "unusable"
          /\ Go("authorize")
          /\ UNCHANGED principal
       \/ /\ request.authorization = "bearer"
          /\ Go("keys")
          /\ UNCHANGED principal
    /\ UNCHANGED <<config, request, n, m, tried, apikey, context>>

\* The Authorization header: none, one that is not a bearer token with a header
\* and a payload that decode, or such a token.
Header ==
    /\ at = "header"
    /\ \/ /\ request.authorization = "none"
          /\ principal' = "NoAuth"
          /\ Go("authorize")
       \/ /\ request.authorization = "unusable"
          /\ Finish("Unauthenticated")
          /\ UNCHANGED principal
       \/ /\ request.authorization = "bearer"
          /\ Go("keys")
          /\ UNCHANGED principal
    /\ UNCHANGED <<config, request, n, m, tried, apikey, context>>

\* AuthnBasic::new: of two keys with one kid the later stays in kid_map.
KidMap(jwks) ==
    {i \in DOMAIN jwks :
        /\ jwks[i].kid # NoKid
        /\ \A j \in DOMAIN jwks : j > i => jwks[j].kid # jwks[i].kid}

NoKidKeys(jwks) == {i \in DOMAIN jwks : jwks[i].kid = NoKid}

\* Mutant: only keys with the header's kid are tried.
PickJwtkey_KidOnly(c, tok) ==
    IF ~c.verify THEN {EmptyKey}
    ELSE {c.jwks[i].key : i \in {k \in DOMAIN c.jwks : c.jwks[k].kid = tok.kid}}

\* pick_jwtkey_by_jwtheader.
PickJwtkey(c, tok) ==
    LET named == {i \in KidMap(c.jwks) : c.jwks[i].kid = tok.kid} IN
    IF ~c.verify THEN {EmptyKey}
    ELSE {c.jwks[i].key : i \in IF named # {} THEN named
                               ELSE NoKidKeys(c.jwks) \cup KidMap(c.jwks)}

\* jsonwebtoken::decode under prepare_validator: without a validator nothing is
\* checked, with one the signature and the registered claims are.
Decodes(c, tok, key) == c.verify => tok.signer = key /\ tok.valid

\* One key is tried.  kid_map.values() has no order.
TryKey ==
    /\ at = "keys"
    /\ \E key \in PickJwtkey(config, request.token) \ tried :
         IF Decodes(config, request.token, key)
         THEN /\ principal' = "Jwt"
              /\ Go("authorize")
              /\ UNCHANGED tried
         ELSE /\ tried' = tried \cup {key}
              /\ Go("keys")
              /\ UNCHANGED principal
    /\ UNCHANGED <<config, request, n, m, apikey, context>>

NoKeyLeft ==
    /\ at = "keys"
    /\ PickJwtkey(config, request.token) \subseteq tried
    /\ Finish("Unauthenticated")
    /\ UNCHANGED <<config, request, n, m, tried, principal, apikey, context>>

-----------------------------------------------------------------------------
(***************************************************************************)
(* StaticAuthz.                                                            *)
(***************************************************************************)
AuthorizeApikey(lists, key) ==
    IF key \in lists.whitelist \ lists.blacklist THEN "Allow" ELSE "Deny"

\* authorize_enter, but for the loop of authorize_jwt; messages are all allowed.
StaticAuthorize ==
    /\ at = "authorize" /\ config.authz = "static"
    /\ \/ /\ request.purpose # "enter"
          /\ Finish("Allow")
       \/ /\ request.purpose = "enter"
          /\ \/ /\ principal = "ApiKey"
                /\ Finish(AuthorizeApikey(config.apikey, apikey))
             \/ /\ principal = "NoAuth"
                /\ Finish("Unauthorized")
             \/ /\ principal = "Jwt"
                /\ Go("rules")
    /\ UNCHANGED <<config, request, n, m, tried, principal, apikey, context>>

Rule == config.rules[n]
Claim(path) == request.token.claims[path]

NextRule ==
    /\ n' = n + 1
    /\ m' = 1
    /\ Go("rules")

\* The path does not resolve.
RuleAbsent ==
    /\ at = "rules" /\ n <= Len(config.rules)
    /\ Claim(Rule.path).type = "absent"
    /\ \/ /\ Rule.required
          /\ Finish("Deny")
          /\ UNCHANGED <<n, m>>
       \/ /\ ~Rule.required
          /\ NextRule
    /\ UNCHANGED <<config, request, tried, principal, apikey, context>>

RuleTypeError ==
    /\ at = "rules" /\ n <= Len(config.rules)
    /\ Claim(Rule.path).type \notin {"absent", Rule.type}
    /\ Finish("ClaimError")
    /\ UNCHANGED <<config, request, n, m, tried, principal, apikey, context>>

RuleValues ==
    /\ at = "rules" /\ n <= Len(config.rules)
    /\ Claim(Rule.path).type = Rule.type
    /\ Go("values")
    /\ m' = 1
    /\ UNCHANGED <<config, request, n, tried, principal, apikey, context>>

\* Mutant: a value in neither list is denied at once.
RuleValue_Strict ==
    LET vals == Claim(Rule.path).vals IN
    /\ at = "values" /\ m <= Len(vals)
    /\ Finish(IF vals[m] \in Rule.whitelist \ Rule.blacklist THEN "Allow" ELSE "Deny")
    /\ UNCHANGED <<config, request, n, m, tried, principal, apikey, context>>

\* One value of the claim: blacklist before whitelist.
RuleValue ==
    LET vals == Claim(Rule.path).vals IN
    /\ at = "values" /\ m <= Len(vals)
    /\ \/ /\ vals[m] \in Rule.blacklist
          /\ Finish("Deny")
          /\ UNCHANGED m
       \/ /\ vals[m] \in Rule.whitelist \ Rule.blacklist
          /\ Finish("Allow")
          /\ UNCHANGED m
       \/ /\ vals[m] \notin Rule.whitelist \cup Rule.blacklist
          /\ m' = m + 1
          /\ Go("values")
    /\ UNCHANGED <<config, request, n, tried, principal, apikey, context>>

RuleUndecided ==
    /\ at = "values" /\ m > Len(Claim(Rule.path).vals)
    /\ NextRule
    /\ UNCHANGED <<config, request, tried, principal, apikey, context>>

NoRuleLeft ==
    /\ at = "rules" /\ n > Len(config.rules)
    /\ Finish("Deny")
    /\ UNCHANGED <<config, request, n, m, tried, principal, apikey, context>>

-----------------------------------------------------------------------------
(***************************************************************************)
(* OpenfgaAuthz.                                                           *)
(***************************************************************************)

\* Entering and tools/call are checked, other messages allowed.
FgaAuthorize ==
    /\ at = "authorize" /\ config.authz = "openfga"
    /\ \/ /\ request.purpose = "other"
          /\ Finish("Allow")
       \/ /\ request.purpose # "other"
          /\ Go("user")
    /\ UNCHANGED <<config, request, n, m, tried, principal, apikey, context>>

\* build_tuple_user, the user of the tuple.
TupleUser ==
    /\ at = "user"
    /\ \/ /\ principal = "NoAuth"
          /\ Finish("AuthenticationFailed")
       \/ /\ principal = "ApiKey"
          /\ Go("check")
       \/ /\ principal = "Jwt"
          /\ IF Claim(config.claim_path).type = "string"
             THEN Go("fields") ELSE Finish("ClaimError")
    /\ UNCHANGED <<config, request, n, m, tried, principal, apikey, context>>

Field == config.context_fields[n]

\* Mutant: a field whose claim is absent is skipped, as a rule is.
TupleField_Optional ==
    LET c == Claim(Field.path) IN
    /\ at = "fields" /\ n <= Len(config.context_fields)
    /\ \/ /\ c.type = "absent"
          /\ n' = n + 1
          /\ Go("fields")
          /\ UNCHANGED context
       \/ /\ c.type = Field.type
          /\ context' = context \o [i \in DOMAIN c.vals |-> <<Field.relation, c.vals[i]>>]
          /\ n' = n + 1
          /\ Go("fields")
    /\ UNCHANGED <<config, request, m, tried, principal, apikey>>

\* build_tuple_user, one context field: a tuple for each string of its claim.
TupleField ==
    LET c == Claim(Field.path) IN
    /\ at = "fields" /\ n <= Len(config.context_fields)
    /\ \/ /\ c.type # Field.type
          /\ Finish("ClaimError")
          /\ UNCHANGED <<n, context>>
       \/ /\ c.type = Field.type
          /\ context' = context \o [i \in DOMAIN c.vals |-> <<Field.relation, c.vals[i]>>]
          /\ n' = n + 1
          /\ Go("fields")
    /\ UNCHANGED <<config, request, m, tried, principal, apikey>>

NoFieldLeft ==
    /\ at = "fields" /\ n > Len(config.context_fields)
    /\ Go("check")
    /\ UNCHANGED <<config, request, n, m, tried, principal, apikey, context>>

\* Openfga::check: the service allows, denies, or the call fails.
Check ==
    /\ at = "check"
    /\ \E o \in {"Allow", "Deny", "CheckFailed"} : Finish(o)
    /\ UNCHANGED <<config, request, n, m, tried, principal, apikey, context>>

Next ==
    \/ ApikeyFrom \/ NoApikey \/ Header \/ TryKey \/ NoKeyLeft
    \/ StaticAuthorize \/ RuleAbsent \/ RuleTypeError \/ RuleValues
    \/ RuleValue \/ RuleUndecided \/ NoRuleLeft
    \/ FgaAuthorize \/ TupleUser \/ TupleField \/ NoFieldLeft \/ Check

Spec == Init /\ [][Next]_vars

-----------------------------------------------------------------------------
(***************************************************************************)
(* Properties.                                                             *)
(***************************************************************************)

\* Whether a bearer token is accepted does not depend on the order in which the
\* keys are tried: with a validator it is accepted exactly if it is valid and
\* signed by the key its kid names or, if its kid names none, by any key that
\* the load of the JWK set has kept.
TokenChecked ==
    LET tok == request.token
        kept == {i \in DOMAIN config.jwks :
                   config.jwks[i].kid # NoKid =>
                     \A j \in DOMAIN config.jwks :
                       j > i => config.jwks[j].kid # config.jwks[i].kid}
        trusted == {i \in kept :
                      \/ config.jwks[i].kid = tok.kid
                      \/ \A j \in kept : config.jwks[j].kid # tok.kid \/ tok.kid = NoKid}
        acceptable == config.verify =>
                        tok.valid /\ \E i \in trusted : config.jwks[i].key = tok.signer
    IN /\ principal = "Jwt" => acceptable
       /\ outcome = "Unauthenticated" /\ request.authorization = "bearer"
            => ~acceptable

First(S) == CHOOSE i \in S : \A j \in S : i <= j

\* What one rule says of a token: the first listed value of its claim decides.
Decision(rule, claim) ==
    LET listed == {j \in DOMAIN claim.vals :
                     claim.vals[j] \in rule.blacklist \cup rule.whitelist}
    IN CASE claim.type = "absent" -> IF rule.required THEN "Deny" ELSE "Undecided"
         [] claim.type \notin {"absent", rule.type} -> "ClaimError"
         [] OTHER -> IF listed = {} THEN "Undecided"
                     ELSE IF claim.vals[First(listed)] \in rule.blacklist
                          THEN "Deny" ELSE "Allow"

RuleSays(i) == Decision(config.rules[i], Claim(config.rules[i].path))

\* authorize_enter of StaticAuthz has decided about a token.
RulesDecided ==
    at = "done" /\ config.authz = "static" /\ request.purpose = "enter"
        /\ principal = "Jwt"

\* What the nested loops of authorize_jwt, with their continue and early returns,
\* and a conjunction of the rules both promise.  A token is let in by a rule that
\* whitelists it, and past no rule before that denies it or fails on it; a token
\* that every rule whitelists is let in; only a claim of the wrong type is an
\* error.
VerdictWithinRules ==
    LET rules == DOMAIN config.rules IN
    RulesDecided =>
        /\ outcome \in {"Allow", "Deny", "ClaimError"}
        /\ outcome = "Allow" =>
             \E i \in rules : /\ RuleSays(i) = "Allow"
                              /\ \A j \in rules : j < i => RuleSays(j) = "Undecided"
        /\ outcome = "Deny" => rules = {} \/ \E i \in rules : RuleSays(i) # "Allow"
        /\ outcome = "ClaimError" => \E i \in rules : RuleSays(i) = "ClaimError"

\* docs/configuration.md:104: the rules on JWT claims are combined with AND.  So
\* a token that is let in satisfies every rule: its claim has a whitelisted
\* value, or is absent where the rule does not require it.
AllRulesHold ==
    RulesDecided /\ outcome = "Allow" =>
        \A i \in DOMAIN config.rules :
            \/ RuleSays(i) = "Allow"
            \/ /\ ~config.rules[i].required
               /\ Claim(config.rules[i].path).type = "absent"

\* OpenFGA is asked about a token's user only with a contextual tuple for every
\* value of every configured field: a claim that is missing or of the wrong
\* type fails the request instead of weakening the check.
ContextComplete ==
    at = "check" /\ principal = "Jwt" =>
        /\ Claim(config.claim_path).type = "string"
        /\ \A i \in DOMAIN config.context_fields :
             LET f == config.context_fields[i] IN
             /\ Claim(f.path).type = f.type
             /\ \A j \in DOMAIN Claim(f.path).vals :
                  \E k \in DOMAIN context :
                    context[k] = <<f.relation, Claim(f.path).vals[j]>>
=============================================================================
