----------------------------- MODULE MCAuthFlow -----------------------------
(***************************************************************************)
(* An instance of AuthFlow: two tabs, two accounts, two tokens, and blocks *)
(* with a browser and an API side, with the lists narrowed, with another   *)
(* key, for the API only, for nobody, and one whose ids collide.           *)
(***************************************************************************)
EXTENDS AuthFlow, TLC

CONSTANTS t1, t2, ann, bob

Said == ann :> [text  |-> [login |-> "ann", sub |-> "1", preferred_username |-> "ann", hd |-> "org",
                           email |-> "ann@org"],
                lists |-> [orgs |-> {<<"dev">>}, groups |-> {},
                           groups_direct |-> {<<"dev", "core">>}]]
     @@ bob :> [text  |-> [login |-> "bob", sub |-> "2", email |-> "bob@net",
                           email_verified |-> "false", roles |-> "ops"],
                lists |-> [orgs |-> {}]]

Hub  == [id |-> "hub", type |-> "github", baseURL |-> "", issuer |-> "", clientID |-> "c",
         clientSecret |-> "s", usernameClaim |-> "", groupsClaim |-> "", hostedDomain |-> "",
         allowedOrgs |-> {<<"dev">>}, allowedGroups |-> {}, groupMatch |-> ""]
Corp == [Hub EXCEPT !.id = "corp", !.type = "google", !.hostedDomain = "org", !.allowedOrgs = {}]
Ci   == [id |-> "ci", type |-> "gitlab", issuer |-> "gl", audience |-> "reach",
         usernameClaim |-> "", groupsClaim |-> "", allowedGroups |-> {<<"dev">>},
         allowedUsers |-> {}, groupMatch |-> "subtree"]

Block(key, users, providers, api) ==
    [key |-> key, cookieSecure |-> "", users |-> users, providers |-> providers, api |-> api]

AuthBlocks ==
    [both      |-> Block("k1", {}, <<Hub, Corp>>, <<Ci>>),
     narrow    |-> Block("k1", {"bob"}, <<[Hub EXCEPT !.allowedOrgs = {}]>>, <<>>),
     rotated   |-> Block("k2", {}, <<Hub>>, <<>>),
     headless  |-> Block("", {}, <<>>, <<[Ci EXCEPT !.id = "hub", !.allowedUsers = {"2"}]>>),
     collision |-> Block("k1", {}, <<Hub>>,
                         <<[Ci EXCEPT !.id = "hub", !.allowedGroups = {}]>>)]

Bearers == {[issuer |-> "gl", audiences |-> {"reach", "other"}, who |-> bob, expiry |-> 0]}

Tabs == Permutations({t1, t2})
=============================================================================
