------------------------------ MODULE AuthConfig ------------------------------
(***************************************************************************)
(* The auth block of the UI: what LoadConfig makes of it, which blocks     *)
(* Validate lets the process start with, and the registry of allowlists    *)
(* New builds from it (internal/auth: config.go, auth.go).                 *)
(*                                                                         *)
(* A block is a record as it stands after expandEnv: every field is a      *)
(* string, "" when it is absent or names an unset variable.  Lists of      *)
(* users and groups are sets, for nothing depends on their order.  A group *)
(* is the sequence of its path segments: "a/b" is <<"a", "b">> and the     *)
(* empty string is <<"">>.                                                 *)
(***************************************************************************)
EXTENDS Naturals, Sequences, SequencesExt

(* The types of a block, which yaml.Unmarshal enforces. *)
ProviderConfig ==
    [id : STRING, type : STRING, baseURL : STRING, issuer : STRING, clientID : STRING,
     clientSecret : STRING, usernameClaim : STRING, groupsClaim : STRING, hostedDomain : STRING,
     allowedOrgs : SUBSET Seq(STRING), allowedGroups : SUBSET Seq(STRING), groupMatch : STRING]

APIEntry ==
    [id : STRING, type : STRING, issuer : STRING, audience : STRING, usernameClaim : STRING,
     groupsClaim : STRING, allowedUsers : SUBSET STRING, allowedGroups : SUBSET Seq(STRING),
     groupMatch : STRING]

Config ==
    [key : STRING, cookieSecure : STRING, users : SUBSET STRING,
     providers : Seq(ProviderConfig), api : Seq(APIEntry)]

(* A cookie key that does not decode to 32 bytes. *)
Undecodable == "undecodable"

OrElse(value, default) == IF value = "" THEN default ELSE value

(* Only github has a base URL of its own here; the presets have issuers. *)
DefaultBaseURL(type) == IF type = "github" THEN "https://github.com" ELSE ""

LoadFails(raw) == raw.key = Undecodable

(* The defaults of a provider and of an API entry. *)
LoadProvider(p) ==
    [p EXCEPT !.baseURL = OrElse(@, DefaultBaseURL(p.type)),
              !.groupMatch = OrElse(@, "exact")]

LoadEntry(e) == [e EXCEPT !.groupMatch = OrElse(@, "exact")]

LoadConfig(raw) ==
    [raw EXCEPT !.providers = [i \in DOMAIN @ |-> LoadProvider(@[i])],
                !.api = [i \in DOMAIN @ |-> LoadEntry(@[i])]]

-----------------------------------------------------------------------------
BrowserEnabled(c) == c.providers # <<>>
ApiEnabled(c)     == c.api # <<>>
Enabled(c)        == BrowserEnabled(c) \/ ApiEnabled(c)

GroupMatches == {"", "exact", "subtree"}

Ids(entries) == {e.id : e \in ToSet(entries)}

(* Ids are not empty, occur once, and none of them is taken already. *)
FreshIds(entries, taken) ==
    /\ "" \notin Ids(entries)
    /\ Ids(entries) \cap taken = {}
    /\ \A i, j \in DOMAIN entries : entries[i].id = entries[j].id => i = j

(* The issuer of okta, keycloak and entra is derived from the base URL. *)
TypeComplete(p) ==
    \/ p.type \in {"github", "gitlab", "google"}
    \/ p.type \in {"okta", "keycloak", "entra"} /\ p.baseURL # ""
    \/ p.type = "oidc" /\ p.issuer # ""

ValidBrowser(c) ==
    /\ c.key # ""
    /\ c.cookieSecure \in {"", "auto", "always", "never"}
    /\ FreshIds(c.providers, {})
    /\ \A p \in ToSet(c.providers) :
          /\ TypeComplete(p)
          /\ p.clientID # "" /\ p.clientSecret # ""
          /\ p.groupMatch \in GroupMatches

(* Mutant of ValidAPI: the entries' ids have a namespace of their own. *)
ValidAPIAlone(c) ==
    /\ FreshIds(c.api, {})
    /\ \A e \in ToSet(c.api) : "" \notin {e.issuer, e.audience} /\ e.groupMatch \in GroupMatches

(* A token is matched to an entry by its issuer and audience. *)
ValidAPI(c) ==
    /\ FreshIds(c.api, Ids(c.providers))
    /\ \A e \in ToSet(c.api) : "" \notin {e.issuer, e.audience} /\ e.groupMatch \in GroupMatches
    /\ \A i, j \in DOMAIN c.api :
          c.api[i].issuer = c.api[j].issuer /\ c.api[i].audience = c.api[j].audience => i = j

Validate(c) ==
    /\ BrowserEnabled(c) => ValidBrowser(c)
    /\ ApiEnabled(c) => ValidAPI(c)

(* All but github are discovered over the network when New builds them. *)
NeedsDiscovery(c) == ApiEnabled(c) \/ \E p \in ToSet(c.providers) : p.type # "github"

(* What runUI and New answer to a block; whether discovery succeeds is up
   to the issuers. *)
Refused(raw)  == LoadFails(raw) \/ ~Validate(LoadConfig(raw))
MayFail(raw)  == Refused(raw) \/ NeedsDiscovery(LoadConfig(raw))

-----------------------------------------------------------------------------
(* The entry an id was registered for last: the API entries come after the
   providers, whose orgs and groups are one list and who have no users. *)
Allowlist(c, id) ==
    IF id \in Ids(c.api)
    THEN LET e == CHOOSE e \in ToSet(c.api) : e.id = id
         IN  [groups |-> e.allowedGroups, users |-> e.allowedUsers, match |-> e.groupMatch]
    ELSE LET p == CHOOSE p \in ToSet(c.providers) : p.id = id
         IN  [groups |-> p.allowedOrgs \cup p.allowedGroups, users |-> {}, match |-> p.groupMatch]

GroupAllowed(match, want, have) ==
    want = have \/ (match = "subtree" /\ IsStrictPrefix(want, have))

(* allowed: open when there is no list at all, else by login or group. *)
Allowed(c, id, who) ==
    /\ id \in Ids(c.providers) \cup Ids(c.api)
    /\ LET al == Allowlist(c, id)
       IN  \/ c.users = {} /\ al.users = {} /\ al.groups = {}
           \/ who.login \in c.users \cup al.users
           \/ \E want \in al.groups, have \in who.groups : GroupAllowed(al.match, want, have)
=============================================================================
