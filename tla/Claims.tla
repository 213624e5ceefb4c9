-------------------------------- MODULE Claims --------------------------------
(***************************************************************************)
(* From what an identity provider says about an account to the login and   *)
(* groups portreach knows it by (internal/auth: presets.go, oidc.go,       *)
(* github.go, apitoken.go).  A browser login and a bearer token go through *)
(* code of their own each, which is kept apart here too.                   *)
(*                                                                         *)
(* The claims of an account are the string claims (text) and the claims    *)
(* that are lists of groups (lists); for github, "login" is its name and   *)
(* "orgs" its organisations.  A string that stands where a list of groups  *)
(* is expected has one path segment.                                       *)
(***************************************************************************)
EXTENDS AuthConfig

(* Claims of the presets; "" where a preset has none. *)
NoPreset == [username |-> "", groups |-> "", fallback |-> ""]

Preset(type) ==
    CASE type = "gitlab" -> [username |-> "preferred_username", groups |-> "groups",
                             fallback |-> "groups_direct"]
      [] type \in {"okta", "keycloak", "entra"} ->
             [NoPreset EXCEPT !.username = "preferred_username", !.groups = "groups"]
      [] type = "google" -> [NoPreset EXCEPT !.username = "email"]
      [] OTHER -> NoPreset

(* applyPreset, then the defaults of newOIDCProvider: which claims a
   provider reads.  A groups claim of its own has no fallback. *)
BrowserMapping(p) ==
    [username |-> OrElse(OrElse(p.usernameClaim, Preset(p.type).username), "preferred_username"),
     groups   |-> OrElse(OrElse(p.groupsClaim, Preset(p.type).groups), "groups"),
     fallback |-> IF p.groupsClaim = "" THEN Preset(p.type).fallback ELSE ""]

(* Mutant of BearerMapping: the fallback outlives a groups claim of one's own. *)
BearerMappingFallsBack(e) ==
    [username |-> OrElse(OrElse(e.usernameClaim, Preset(e.type).username), "preferred_username"),
     groups   |-> OrElse(OrElse(e.groupsClaim, Preset(e.type).groups), "groups"),
     fallback |-> Preset(e.type).fallback]

(* resolveAPIClaims: the same for an API entry. *)
BearerMapping(e) ==
    [username |-> OrElse(OrElse(e.usernameClaim, Preset(e.type).username), "preferred_username"),
     groups   |-> OrElse(OrElse(e.groupsClaim, Preset(e.type).groups), "groups"),
     fallback |-> IF e.groupsClaim = "" THEN Preset(e.type).fallback ELSE ""]

-----------------------------------------------------------------------------
ClaimString(claims, key) == IF key \in DOMAIN claims.text THEN claims.text[key] ELSE ""

ClaimStrings(claims, key) ==
    IF key \in DOMAIN claims.lists THEN claims.lists[key]
    ELSE {<<s>> : s \in {ClaimString(claims, key)} \ {""}}

(* claimBool: only a claim that says so makes an address unverified. *)
Unverified(claims) == ClaimString(claims, "email_verified") = "false"

Identity(login, groups) == [result |-> "ok", login |-> login, groups |-> groups]
Failed  == [result |-> "failed"]
Outside == [result |-> "denied"]

(* Exchange of an OIDC provider, from the verified ID token on. *)
ExchangeOIDC(p, claims) ==
    LET m      == BrowserMapping(p)
        named  == ClaimString(claims, m.username)
        login  == OrElse(named, ClaimString(claims, "sub"))
        listed == ClaimStrings(claims, m.groups)
    IN  IF p.hostedDomain \notin {"", ClaimString(claims, "hd")} THEN Outside
        ELSE IF m.username = "email" /\ named # "" /\ Unverified(claims) THEN Failed
        ELSE IF login = "" THEN Failed
        ELSE Identity(login, IF listed = {} THEN ClaimStrings(claims, m.fallback) ELSE listed)

(* Exchange of github: the user and the organisations that have a name. *)
ExchangeGitHub(claims) ==
    LET login == ClaimString(claims, "login")
    IN  IF login = "" THEN Failed
        ELSE Identity(login, ClaimStrings(claims, "orgs") \ {<<"">>})

Exchange(p, claims) ==
    IF p.type = "github" THEN ExchangeGitHub(claims) ELSE ExchangeOIDC(p, claims)

(* The body of authenticateBearer's loop, for a token the entry verified. *)
BearerIdentity(e, claims) ==
    LET m      == BearerMapping(e)
        named  == ClaimString(claims, m.username)
        login  == OrElse(named, ClaimString(claims, "sub"))
        listed == ClaimStrings(claims, m.groups)
    IN  IF login = "" \/ (m.username = "email" /\ named # "" /\ Unverified(claims))
        THEN Failed
        ELSE Identity(login, IF listed = {} THEN ClaimStrings(claims, m.fallback) ELSE listed)

-----------------------------------------------------------------------------
(* A token is good for an entry while its issuer, audience and expiry are;
   its signature is taken to be the issuer's. *)
Verifies(e, token, now) ==
    /\ token.issuer = e.issuer
    /\ e.audience \in token.audiences
    /\ now <= token.expiry

(* authenticateBearer: the entry a token is taken for, if there is one: the
   first that verifies it and finds a login in it. *)
Matching(c, token, claims, now) ==
    {i \in DOMAIN c.api : /\ Verifies(c.api[i], token, now)
                          /\ BearerIdentity(c.api[i], claims).result = "ok"}

BearerEntry(c, token, claims, now) ==
    LET m == Matching(c, token, claims, now)
    IN  {c.api[i] : i \in {j \in m : \A k \in m : j <= k}}
=============================================================================
