------------------------------ MODULE MCAccess ------------------------------
(* TLC instance of AccessControl.  Each family of configurations varies     *)
(* what one part of the code looks at and keeps the rest fixed.             *)
EXTENDS AccessControl

CONSTANTS x, y, z, k1, k2, k3, kidA, kidB

MCRule(p, req, ty, wl, bl) ==
    [path |-> p, required |-> req, type |-> ty, whitelist |-> wl, blacklist |-> bl]

MCRules ==
    {MCRule("p", FALSE, "string", {x}, {y}),
     MCRule("p", TRUE, "string[]", {x}, {y}),
     MCRule("p", FALSE, "string[]", {x, y}, {x}),
     MCRule("q", TRUE, "string", {z}, {}),
     MCRule("q", FALSE, "string", {y}, {x})}

MCBase ==
    [key_from |-> <<>>, verify |-> FALSE, jwks |-> <<>>, authz |-> "static",
     apikey |-> [whitelist |-> {x, y}, blacklist |-> {y}], rules |-> <<>>,
     claim_path |-> "p", context_fields |-> <<>>]

\* API keys looked for in two places.
MCApikeyConfigs ==
    {[MCBase EXCEPT !.key_from = f, !.authz = a] :
        f \in {<<"header">>, <<"query", "header">>}, a \in {"static", "openfga"}}

\* JWK sets with and without kids, one with a kid twice.
MCJwkConfigs ==
    LET jwk(kid, key) == [kid |-> kid, key |-> key] IN
    {[MCBase EXCEPT !.verify = TRUE, !.jwks = q] :
        q \in {<<>>, <<jwk(NoKid, k1)>>, <<jwk(kidA, k1), jwk(kidB, k2)>>,
               <<jwk(kidA, k1), jwk(NoKid, k2)>>, <<jwk(kidA, k1), jwk(kidA, k2)>>}}

\* Up to three rules on two claims.
MCRuleConfigs ==
    {[MCBase EXCEPT !.rules = q] : q \in UNION {[1..i -> MCRules] : i \in 0..3}}

\* Up to two context fields.
MCFgaConfigs ==
    LET field(p, ty, r) == [path |-> p, type |-> ty, relation |-> r]
        Fields == {field("p", "string", "member"), field("q", "string", "member"),
                   field("q", "string[]", "owner")}
    IN {[MCBase EXCEPT !.authz = "openfga", !.context_fields = q] :
          q \in UNION {[1..i -> Fields] : i \in 0..2}}

MCClaims ==
    LET claim(ty, v) == [type |-> ty, vals |-> v] IN
    {claim("absent", <<>>), claim("other", <<>>), claim("string", <<x>>),
     claim("string", <<y>>), claim("string", <<z>>), claim("string[]", <<>>),
     claim("string[]", <<z, x>>), claim("string[]", <<x, y>>),
     claim("string[]", <<y, x>>)}

MCToken(kid, signer, valid, p, q) ==
    [kid |-> kid, signer |-> signer, valid |-> valid,
     claims |-> [c \in {"p", "q"} |-> IF c = "p" THEN p ELSE q]]

MCRequest(purpose, authorization, header, query, token) ==
    [purpose |-> purpose, authorization |-> authorization,
     values |-> [c \in {"header", "query"} |-> IF c = "header" THEN header ELSE query],
     token |-> token]

MCPlain == [type |-> "string", vals |-> <<x>>]

MCApikeyRequests ==
    {MCRequest(u, a, h, q, MCToken(NoKid, k1, TRUE, MCPlain, MCPlain)) :
        u \in {"enter", "tool", "other"}, a \in {"none", "unusable"},
        h \in {NoValue, x, y, z}, q \in {NoValue, x}}

MCTokenRequests ==
    {MCRequest("enter", "bearer", NoValue, NoValue,
               MCToken(kid, signer, valid, MCPlain, MCPlain)) :
        kid \in {NoKid, kidA, kidB}, signer \in {k1, k2, k3}, valid \in BOOLEAN}

MCClaimRequests ==
    {MCRequest(u, "bearer", NoValue, NoValue, MCToken(NoKid, k1, TRUE, p, q)) :
        u \in {"enter", "tool"}, p \in MCClaims, q \in MCClaims}

MCConfigs == MCApikeyConfigs \cup MCJwkConfigs \cup MCRuleConfigs \cup MCFgaConfigs
MCRequests == MCApikeyRequests \cup MCTokenRequests \cup MCClaimRequests
=============================================================================
