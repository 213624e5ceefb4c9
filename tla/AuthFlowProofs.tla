--------------------------- MODULE AuthFlowProofs ---------------------------
(***************************************************************************)
(* Theorems of AuthFlow, for all blocks the process may be started with,   *)
(* all accounts, tokens, tabs and durations: what the allowlists mean, the *)
(* type invariant, which provider gets a code, how many sessions a login   *)
(* gives, and who is let through.                                          *)
(***************************************************************************)
EXTENDS AuthFlow, TLAPS

-----------------------------------------------------------------------------
(* What LoadConfig keeps of a block. *)

LEMMA LoadConfigFields ==
  ASSUME NEW raw \in Config
  PROVE  LET c == LoadConfig(raw)
         IN  /\ c.key = raw.key /\ c.users = raw.users
             /\ c.providers = [i \in DOMAIN raw.providers |-> LoadProvider(raw.providers[i])]
             /\ c.api = [i \in DOMAIN raw.api |-> LoadEntry(raw.api[i])]
<1>1. DOMAIN raw = {"key", "cookieSecure", "users", "providers", "api"}
  BY DEF Config
<1> QED
  BY <1>1 DEF LoadConfig

(* A list of entries is empty when it has no positions. *)
LEMMA NoEntries ==
  ASSUME NEW S, NEW entries \in Seq(S), NEW loaded, loaded = [i \in DOMAIN entries |-> loaded[i]]
  PROVE  loaded = <<>> <=> entries = <<>>
<1>1. CASE entries = <<>>
  BY <1>1
<1>2. CASE entries # <<>>
  BY <1>2
<1> QED
  BY <1>1, <1>2

LEMMA LoadKeepsBlock ==
  ASSUME NEW raw \in Config
  PROVE  LET c == LoadConfig(raw)
         IN  /\ c.key = raw.key /\ c.users = raw.users
             /\ DOMAIN c.providers = DOMAIN raw.providers /\ DOMAIN c.api = DOMAIN raw.api
             /\ c.providers = <<>> <=> raw.providers = <<>>
             /\ c.api = <<>> <=> raw.api = <<>>
<1> DEFINE c == LoadConfig(raw)
<1>1. raw.providers \in Seq(ProviderConfig) /\ raw.api \in Seq(APIEntry)
  BY DEF Config
<1>2. c.key = raw.key /\ c.users = raw.users
  BY LoadConfigFields
<1>3. /\ DOMAIN c.providers = DOMAIN raw.providers
      /\ c.providers = [i \in DOMAIN raw.providers |-> c.providers[i]]
  BY LoadConfigFields
<1>4. /\ DOMAIN c.api = DOMAIN raw.api
      /\ c.api = [i \in DOMAIN raw.api |-> c.api[i]]
  BY LoadConfigFields
<1> HIDE DEF c
<1> QED
  BY <1>1, <1>2, <1>3, <1>4, NoEntries DEF c

LEMMA LoadKeepsProvider ==
  ASSUME NEW raw \in Config, NEW i \in DOMAIN raw.providers
  PROVE  LET p == raw.providers[i]
             q == LoadConfig(raw).providers[i]
         IN  /\ q.id = p.id /\ q.allowedOrgs = p.allowedOrgs /\ q.allowedGroups = p.allowedGroups
             /\ q.groupMatch = "subtree" => p.groupMatch = "subtree"
<1> DEFINE p == raw.providers[i]
<1>1. p \in ProviderConfig
  BY DEF Config
<1>2. LoadConfig(raw).providers[i] = LoadProvider(p)
  BY LoadConfigFields
<1> HIDE DEF p
<1>3. DOMAIN p = {"id", "type", "baseURL", "issuer", "clientID", "clientSecret", "usernameClaim",
                  "groupsClaim", "hostedDomain", "allowedOrgs", "allowedGroups", "groupMatch"}
  BY <1>1 DEF ProviderConfig
<1>4. LoadProvider(p).groupMatch = OrElse(p.groupMatch, "exact")
  BY <1>3 DEF LoadProvider
<1>5. /\ LoadProvider(p).id = p.id /\ LoadProvider(p).allowedOrgs = p.allowedOrgs
      /\ LoadProvider(p).allowedGroups = p.allowedGroups
  BY <1>3 DEF LoadProvider
<1> QED
  BY <1>2, <1>4, <1>5 DEF OrElse, p

LEMMA LoadKeepsEntry ==
  ASSUME NEW raw \in Config, NEW i \in DOMAIN raw.api
  PROVE  LET e == raw.api[i]
             q == LoadConfig(raw).api[i]
         IN  /\ q.id = e.id /\ q.type = e.type /\ q.issuer = e.issuer /\ q.audience = e.audience
             /\ q.usernameClaim = e.usernameClaim /\ q.groupsClaim = e.groupsClaim
             /\ q.allowedUsers = e.allowedUsers /\ q.allowedGroups = e.allowedGroups
             /\ q.groupMatch = "subtree" => e.groupMatch = "subtree"
<1> DEFINE e == raw.api[i]
<1>1. e \in APIEntry
  BY DEF Config
<1>2. LoadConfig(raw).api[i] = LoadEntry(e)
  BY LoadConfigFields
<1> HIDE DEF e
<1>3. DOMAIN e = {"id", "type", "issuer", "audience", "usernameClaim", "groupsClaim",
                  "allowedUsers", "allowedGroups", "groupMatch"}
  BY <1>1 DEF APIEntry
<1>4. LoadEntry(e).groupMatch = OrElse(e.groupMatch, "exact")
  BY <1>3 DEF LoadEntry
<1>5. LET q == LoadEntry(e)
      IN  /\ q.id = e.id /\ q.type = e.type /\ q.issuer = e.issuer /\ q.audience = e.audience
          /\ q.usernameClaim = e.usernameClaim /\ q.groupsClaim = e.groupsClaim
          /\ q.allowedUsers = e.allowedUsers /\ q.allowedGroups = e.allowedGroups
  BY <1>3 DEF LoadEntry
<1> QED
  BY <1>2, <1>4, <1>5 DEF OrElse, e

LEMMA LoadKeepsIds ==
  ASSUME NEW raw \in Config
  PROVE  /\ Ids(LoadConfig(raw).providers) = Ids(raw.providers)
         /\ Ids(LoadConfig(raw).api) = Ids(raw.api)
BY LoadKeepsBlock, LoadKeepsProvider, LoadKeepsEntry DEF Ids, ToSet

-----------------------------------------------------------------------------
(* What the registry's allowlists mean, of a block that Validate accepts. *)

(* A fresh id names one entry. *)
LEMMA OneEntryPerId ==
  ASSUME NEW entries, NEW taken, FreshIds(entries, taken), NEW i \in DOMAIN entries
  PROVE  (CHOOSE e \in ToSet(entries) : e.id = entries[i].id) = entries[i]
<1>1. entries[i] \in ToSet(entries)
  BY DEF ToSet
<1>2. \A e \in ToSet(entries) : e.id = entries[i].id => e = entries[i]
  BY DEF ToSet, FreshIds
<1> QED
  BY <1>1, <1>2

(* The allowlist of an id taken once is that of its entry. *)
LEMMA EntitledByLists ==
  ASSUME NEW raw \in Config, NEW id, NEW who, NEW users, NEW groups, NEW match,
         Allowed(LoadConfig(raw), id, who),
         Allowlist(LoadConfig(raw), id).users = users,
         Allowlist(LoadConfig(raw), id).groups = groups,
         Allowlist(LoadConfig(raw), id).match = "subtree" => match = "subtree"
  PROVE  Entitled(raw, users, groups, match, who)
BY LoadKeepsBlock DEF Allowed, Entitled, GroupAllowed, IsStrictPrefix

LEMMA ProviderListEntitles ==
  ASSUME NEW raw \in Config, ~Refused(raw), NEW i \in DOMAIN raw.providers, NEW who,
         Allowed(LoadConfig(raw), raw.providers[i].id, who)
  PROVE  Entitled(raw, {}, raw.providers[i].allowedOrgs \cup raw.providers[i].allowedGroups,
                  raw.providers[i].groupMatch, who)
<1> DEFINE c == LoadConfig(raw)
           p == raw.providers[i]
<1>1. i \in DOMAIN c.providers /\ c.providers[i].id = p.id /\ c.providers # <<>>
  BY LoadKeepsBlock, LoadKeepsProvider DEF Config
<1>2. FreshIds(c.providers, {}) /\ (c.api # <<>> => FreshIds(c.api, Ids(c.providers)))
  BY <1>1 DEF Refused, Validate, ValidBrowser, ValidAPI, BrowserEnabled, ApiEnabled
<1>3. p.id \in Ids(c.providers)
  BY <1>1 DEF Ids, ToSet
<1>4. p.id \notin Ids(c.api)
  <2>1. CASE c.api = <<>>
    BY <2>1 DEF Ids, ToSet
  <2>2. CASE c.api # <<>>
    BY <1>2, <1>3, <2>2 DEF FreshIds
  <2> QED
    BY <2>1, <2>2
<1>5. (CHOOSE q \in ToSet(c.providers) : q.id = p.id) = c.providers[i]
  BY <1>1, <1>2, OneEntryPerId
<1>6. /\ Allowlist(c, p.id).users = {}
      /\ Allowlist(c, p.id).groups = c.providers[i].allowedOrgs \cup c.providers[i].allowedGroups
      /\ Allowlist(c, p.id).match = c.providers[i].groupMatch
  BY <1>4, <1>5 DEF Allowlist
<1>7. /\ Allowlist(c, p.id).groups = p.allowedOrgs \cup p.allowedGroups
      /\ Allowlist(c, p.id).match = "subtree" => p.groupMatch = "subtree"
  BY <1>6, LoadKeepsProvider
<1> HIDE DEF c, p
<1> QED
  BY <1>6, <1>7, EntitledByLists DEF c, p

LEMMA EntryListEntitles ==
  ASSUME NEW raw \in Config, ~Refused(raw), NEW i \in DOMAIN raw.api, NEW who,
         Allowed(LoadConfig(raw), raw.api[i].id, who)
  PROVE  Entitled(raw, raw.api[i].allowedUsers, raw.api[i].allowedGroups, raw.api[i].groupMatch, who)
<1> DEFINE c == LoadConfig(raw)
           e == raw.api[i]
<1>1. i \in DOMAIN c.api /\ c.api[i].id = e.id /\ c.api # <<>>
  BY LoadKeepsBlock, LoadKeepsEntry DEF Config
<1>2. FreshIds(c.api, Ids(c.providers))
  BY <1>1 DEF Refused, Validate, ValidAPI, ApiEnabled
<1>3. e.id \in Ids(c.api)
  BY <1>1 DEF Ids, ToSet
<1>4. (CHOOSE q \in ToSet(c.api) : q.id = e.id) = c.api[i]
  BY <1>1, <1>2, OneEntryPerId
<1>5. /\ Allowlist(c, e.id).users = c.api[i].allowedUsers
      /\ Allowlist(c, e.id).groups = c.api[i].allowedGroups
      /\ Allowlist(c, e.id).match = c.api[i].groupMatch
  BY <1>3, <1>4 DEF Allowlist
<1>6. /\ Allowlist(c, e.id).users = e.allowedUsers
      /\ Allowlist(c, e.id).groups = e.allowedGroups
      /\ Allowlist(c, e.id).match = "subtree" => e.groupMatch = "subtree"
  BY <1>5, LoadKeepsEntry
<1> HIDE DEF c, e
<1> QED
  BY <1>6, EntitledByLists DEF c, e

(* The loop of authenticateBearer reads nothing of an entry that LoadConfig
   changes. *)
LEMMA SameBearer ==
  ASSUME NEW raw \in Config, NEW i \in DOMAIN raw.api, NEW claims, NEW token, NEW now
  PROVE  /\ BearerIdentity(LoadConfig(raw).api[i], claims) = BearerIdentity(raw.api[i], claims)
         /\ Verifies(LoadConfig(raw).api[i], token, now) <=> Verifies(raw.api[i], token, now)
<1> DEFINE e == raw.api[i]
           q == LoadConfig(raw).api[i]
<1>1. /\ q.type = e.type /\ q.issuer = e.issuer /\ q.audience = e.audience
      /\ q.usernameClaim = e.usernameClaim /\ q.groupsClaim = e.groupsClaim
  BY LoadKeepsEntry
<1> HIDE DEF e, q
<1>2. BearerMapping(q) = BearerMapping(e)
  BY <1>1 DEF BearerMapping
<1>3. BearerIdentity(q, claims) = BearerIdentity(e, claims)
  BY <1>2 DEF BearerIdentity
<1>4. Verifies(q, token, now) <=> Verifies(e, token, now)
  BY <1>1 DEF Verifies
<1> QED
  BY <1>3, <1>4 DEF e, q

-----------------------------------------------------------------------------
(* Cookie and token make the same user of an account, for every preset and
   every pair of configured claims, whatever the account's claims are. *)
LEMMA OneIdentity ==
  ASSUME NEW type \in OIDCTypes, NEW user, NEW list, NEW claims
  PROVE  LET entry == [type |-> type, usernameClaim |-> user, groupsClaim |-> list,
                       hostedDomain |-> ""]
         IN  Exchange(entry, claims) = BearerIdentity(entry, claims)
<1> DEFINE entry == [type |-> type, usernameClaim |-> user, groupsClaim |-> list,
                     hostedDomain |-> ""]
           m == BearerMapping(entry)
<1>1. entry.type # "github" /\ entry.hostedDomain = ""
  BY DEF OIDCTypes
<1>2. BrowserMapping(entry) = m
  BY DEF BrowserMapping, BearerMapping
<1> HIDE DEF entry, m
<1>3. ExchangeOIDC(entry, claims) = BearerIdentity(entry, claims)
  BY <1>1, <1>2 DEF ExchangeOIDC, BearerIdentity, m
<1> QED
  BY <1>1, <1>3 DEF Exchange, entry
-----------------------------------------------------------------------------
(* What a cookie, a request or a response can carry. *)

(* A state cookie names the provider its login was started with. *)
Started      == DOMAIN logins
SoundStates  == {None} \cup {s \in States : s.login \in Started /\ logins[s.login] = s.provider}

(* A session cookie was granted. *)
SoundSessions == {None} \cup {g.session : g \in grants}

AtProvider == {AtIdp(n) : n \in Started}

Callbacks ==
    {c \in [at : {"callback"}, login : Logins, hasCode : BOOLEAN, state : SoundStates] :
        c.hasCode => code[c.login] # None}

Exchanges ==
    {x \in [at : {"exchange"}, login : Started, provider : Ids(Running.providers), since : Nat] :
        logins[x.login] = x.provider /\ code[x.login] # None}

Pages == [at : {"page"}, session : SoundSessions, token : Tokens \cup {None}]

Updates(cookies) == {Keep} \cup {Set(c) : c \in cookies}

Replies ==
    [at : {"reply"}, state : Updates(SoundStates), session : Updates(SoundSessions),
     next : {Idle} \cup AtProvider]

SoundTabs == {Idle} \cup AtProvider \cup Callbacks \cup Exchanges \cup Pages \cup Replies

Carried ==
    /\ state \in SoundStates /\ session \in SoundSessions
    /\ tab \in [Tab -> SoundTabs]

(* A grant was earned, with a code that is spent. *)
Earned ==
    \A g \in grants :
        /\ g.entitled
        /\ g.login \in redeemed /\ g.login \in Started
        /\ logins[g.login] = g.session.provider
        /\ g.session.expiry = g.at + SessionMaxAge

(* Nothing is in flight when no process runs. *)
Quiet == srv \in Exited => active = {}

Inv == TypeOK /\ Carried /\ Earned /\ Quiet /\ OneSessionPerLogin

LEMMA InitInv == Init => Inv
<1> SUFFICES ASSUME Init PROVE Inv
  OBVIOUS
<1>1. TypeOK
  BY GraceAssumption, AuthAssumption
  DEF Init, Fresh, TypeOK, ProcessType, Exited, Idle, Places, Startable
<1>2. Carried
  BY DEF Init, Carried, SoundStates, SoundSessions, SoundTabs
<1>3. Earned /\ Quiet /\ OneSessionPerLogin
  BY DEF Init, Fresh, Earned, Quiet, OneSessionPerLogin
<1> QED
  BY <1>1, <1>2, <1>3 DEF Inv

(* What a tab waits for, by its place. *)
LEMMA TabFacts ==
  ASSUME Carried, NEW t \in Tab
  PROVE  /\ tab[t] \in SoundTabs
         /\ tab[t].at = "idp" => tab[t] \in AtProvider
         /\ tab[t].at = "callback" => tab[t] \in Callbacks
         /\ tab[t].at = "exchange" => tab[t] \in Exchanges
         /\ tab[t].at = "page" => tab[t] \in Pages
         /\ tab[t].at = "reply" => tab[t] \in Replies
<1>1. tab[t] \in SoundTabs
  BY DEF Carried
<1>2. Idle.at = "idle" /\ \A r \in AtProvider : r.at = "idp"
  BY DEF Idle, AtProvider, AtIdp
<1>3. /\ \A r \in Callbacks : r.at = "callback"
      /\ \A r \in Exchanges : r.at = "exchange"
      /\ \A r \in Pages : r.at = "page"
      /\ \A r \in Replies : r.at = "reply"
  BY DEF Callbacks, Exchanges, Pages, Replies
<1> QED
  BY <1>1, <1>2, <1>3 DEF SoundTabs

-----------------------------------------------------------------------------
(* What one step leaves behind for the next. *)

Handling(t, next) ==
    /\ Become(t, next)
    /\ UNCHANGED <<clock, config>>
    /\ \/ UNCHANGED process /\ (next.at \in {"callback", "exchange", "page"}
                                  <=> tab[t].at \in {"callback", "exchange", "page"})
       \/ Accept(t) /\ next.at \in {"callback", "exchange", "page"}
       \/ Finish(t) /\ next.at \notin {"callback", "exchange", "page"}

(* No login, code or grant is forgotten. *)
Forward ==
    /\ Started \subseteq Started' /\ \A n \in Started : logins'[n] = logins[n]
    /\ \A n \in Logins : code[n] # None => code'[n] # None
    /\ grants \subseteq grants'

LEMMA StillSound ==
  ASSUME Inv, Forward
  PROVE  /\ SoundStates \subseteq SoundStates'
         /\ SoundSessions \subseteq SoundSessions'
         /\ AtProvider \subseteq AtProvider'
         /\ Callbacks \subseteq Callbacks'
         /\ Pages \subseteq Pages'
         /\ Replies \subseteq Replies'
         /\ config' = config => Exchanges \subseteq Exchanges'
<1>1. SoundStates \subseteq SoundStates'
  BY DEF SoundStates, Forward
<1>2. SoundSessions \subseteq SoundSessions'
  BY DEF SoundSessions, Forward
<1>3. AtProvider \subseteq AtProvider'
  BY DEF AtProvider, Forward
<1>4. Callbacks \subseteq Callbacks'
  BY <1>1 DEF Callbacks, Forward
<1>5. Pages \subseteq Pages'
  BY <1>2 DEF Pages
<1>6. Replies \subseteq Replies'
  <2>1. Updates(SoundStates) \subseteq Updates(SoundStates)'
    BY <1>1 DEF Updates
  <2>2. Updates(SoundSessions) \subseteq Updates(SoundSessions)'
    BY <1>2 DEF Updates
  <2> QED
    BY <1>3, <2>1, <2>2 DEF Replies
<1>7. ASSUME config' = config
      PROVE  Exchanges \subseteq Exchanges'
  <2>1. Running' = Running
    BY <1>7 DEF Running
  <2>2. Started \subseteq Logins
    BY AuthAssumption DEF Inv, TypeOK, Started, Logins
  <2> QED
    BY <2>1, <2>2 DEF Exchanges, Forward
<1> QED
  BY <1>1, <1>2, <1>3, <1>4, <1>5, <1>6, <1>7

(* A step of one tab. *)
LEMMA TabStep ==
  ASSUME Inv, Forward, NEW t \in Tab, NEW next \in SoundTabs', Handling(t, next)
  PROVE  /\ tab' \in [Tab -> SoundTabs']
         /\ ProcessType' /\ Quiet'
         /\ active' = {u \in Tab : tab'[u].at \in {"callback", "exchange", "page"}}
         /\ \A u \in Tab : tab'[u].at \in Places
         /\ (config' = None) = (srv' \in Exited)
<1>1. SoundTabs \subseteq SoundTabs'
  BY StillSound DEF SoundTabs, Handling
<1>2. tab \in [Tab -> SoundTabs] /\ tab' = [tab EXCEPT ![t] = next]
  BY DEF Inv, Carried, Handling, Become
<1>3. tab' \in [Tab -> SoundTabs']
  BY <1>1, <1>2
<1>4. \A u \in Tab : tab'[u].at \in Places
  BY <1>3 DEF SoundTabs, Idle, AtProvider, AtIdp, Callbacks, Exchanges, Pages, Replies, Places
<1>5. ProcessType' /\ Quiet' /\ srv' = srv
  BY DEF Inv, TypeOK, ProcessType, Quiet, Handling, Accept, Finish, Exited, process, Tab
<1>6. active' = {u \in Tab : tab'[u].at \in {"callback", "exchange", "page"}}
  BY <1>2 DEF Inv, TypeOK, Handling, Accept, Finish, process
<1> QED
  BY <1>3, <1>4, <1>5, <1>6 DEF Handling, Inv, TypeOK

(* A step of one tab that changes nothing but what the tab waits for. *)
LEMMA TabOnly ==
  ASSUME Inv, NEW t \in Tab, NEW next \in SoundTabs, Handling(t, next),
         UNCHANGED <<browser, idp, grants>>
  PROVE  Inv'
<1>1. Forward
  BY DEF Forward, idp, Started
<1>2. next \in SoundTabs'
  BY <1>1, StillSound DEF SoundTabs, Handling
<1>3. TypeOK'
  BY <1>1, <1>2, TabStep DEF Inv, TypeOK, Handling, browser, idp
<1>4. Carried'
  BY <1>1, <1>2, TabStep, StillSound DEF Inv, Carried, browser
<1>5. Earned' /\ OneSessionPerLogin'
  BY DEF Inv, Earned, OneSessionPerLogin, idp, Started
<1> QED
  BY <1>1, <1>2, <1>3, <1>4, <1>5, TabStep DEF Inv

LEMMA LoginIds == Inv => Started \subseteq Logins
BY AuthAssumption DEF Inv, TypeOK, Started, Logins

(* The browser's steps that keep to the tab. *)
LEMMA StepBrowser ==
  ASSUME Inv, NEW t \in Tab,
         \/ Decline(t) \/ TurnBack(t) \/ Logout(t) \/ Lose(t)
         \/ \E n \in Logins : OpenCallback(t, n)
         \/ \E token \in Tokens \cup {None} : OpenPage(t, token)
  PROVE  Inv'
<1>0. Carried
  BY DEF Inv
<1>1. CASE Decline(t)
  <2>1. tab[t].login \in Logins
    BY <1>0, <1>1, TabFacts, LoginIds DEF Decline, AtProvider, AtIdp
  <2>2. Callback(tab[t].login, FALSE) \in Callbacks
    BY <1>0, <2>1 DEF Callback, Callbacks, Carried
  <2>3. Handling(t, Callback(tab[t].login, FALSE))
    BY <1>1 DEF Decline, Handling, Callback
  <2> QED
    BY <1>1, <2>2, <2>3, TabOnly DEF Decline, SoundTabs
<1>2. CASE TurnBack(t) \/ Lose(t)
  <2>1. Handling(t, Idle)
    BY <1>2 DEF TurnBack, Lose, Handling, Idle
  <2> QED
    BY <1>2, <2>1, TabOnly DEF TurnBack, Lose, SoundTabs
<1>3. CASE Logout(t)
  <2>1. Reply(Keep, Clear, Idle) \in Replies
    BY DEF Reply, Replies, Updates, Clear, SoundSessions
  <2>2. Handling(t, Reply(Keep, Clear, Idle))
    BY <1>3 DEF Logout, Handling, Reply, Idle
  <2> QED
    BY <1>3, <2>1, <2>2, TabOnly DEF Logout, SoundTabs
<1>4. ASSUME NEW n \in Logins, OpenCallback(t, n)
      PROVE  Inv'
  <2>1. Callback(n, TRUE) \in Callbacks
    BY <1>0, <1>4 DEF OpenCallback, Callback, Callbacks, Carried
  <2>2. Handling(t, Callback(n, TRUE))
    BY <1>4 DEF OpenCallback, Handling, Callback
  <2> QED
    BY <1>4, <2>1, <2>2, TabOnly DEF OpenCallback, SoundTabs
<1>5. ASSUME NEW token \in Tokens \cup {None}, OpenPage(t, token)
      PROVE  Inv'
  <2> DEFINE page == [at |-> "page", session |-> session, token |-> token]
  <2>1. page \in Pages
    BY <1>0 DEF Pages, Carried
  <2>2. Handling(t, page)
    BY <1>5 DEF OpenPage, Handling
  <2> HIDE DEF page
  <2> QED
    BY <1>5, <2>1, <2>2, TabOnly DEF OpenPage, SoundTabs
<1> QED
  BY <1>1, <1>2, <1>3, <1>4, <1>5

(* The handlers' steps that note nothing. *)
LEMMA StepHandler ==
  ASSUME Inv, NEW t \in Tab,
         StateInvalid(t) \/ StateRejected(t) \/ StartExchange(t) \/ ServePage(t)
  PROVE  Inv'
<1>0. Carried
  BY DEF Inv
<1>1. CASE StateInvalid(t) \/ ServePage(t)
  <2>1. Handling(t, Idle)
    BY <1>1 DEF StateInvalid, ServePage, Handling, Idle
  <2> QED
    BY <1>1, <2>1, TabOnly DEF StateInvalid, ServePage, SoundTabs
<1>2. CASE StateRejected(t)
  <2>1. Reply(Clear, Keep, Idle) \in Replies
    BY DEF Reply, Replies, Updates, Clear, SoundStates
  <2>2. Handling(t, Reply(Clear, Keep, Idle))
    BY <1>2 DEF StateRejected, Handling, Reply
  <2> QED
    BY <1>2, <2>1, <2>2, TabOnly DEF StateRejected, SoundTabs
<1>3. CASE StartExchange(t)
  <2> DEFINE x == [at |-> "exchange", login |-> tab[t].login,
                   provider |-> tab[t].state.provider, since |-> clock]
  <2>1. tab[t] \in Callbacks /\ tab[t].hasCode
    BY <1>0, <1>3, TabFacts DEF StartExchange
  <2>2. /\ tab[t].login \in Logins /\ tab[t].state \in SoundStates
        /\ code[tab[t].login] # None
    BY <2>1 DEF Callbacks
  <2>3. tab[t].state # None /\ Matches(t)
    BY <1>3 DEF StartExchange, StateOpens, Opens
  <2>4. /\ tab[t].login \in Started /\ logins[tab[t].login] = tab[t].state.provider
        /\ tab[t].state.provider \in Ids(Running.providers)
    BY <2>2, <2>3 DEF Matches, SoundStates
  <2>5. clock \in Nat
    BY DEF Inv, TypeOK
  <2>6. x \in Exchanges
    BY <2>2, <2>4, <2>5 DEF Exchanges
  <2>7. Handling(t, x)
    BY <1>3 DEF StartExchange, Handling
  <2> HIDE DEF x
  <2> QED
    BY <1>3, <2>6, <2>7, TabOnly DEF StartExchange, SoundTabs
<1> QED
  BY <1>1, <1>2, <1>3

-----------------------------------------------------------------------------
(* The steps that start logins, issue and redeem codes, and grant. *)

LEMMA StepLogin ==
  ASSUME Inv, NEW t \in Tab, NEW p \in Provider, Login(t, p)
  PROVE  Inv'
<1> DEFINE n == Len(logins) + 1
           s == [login |-> n, provider |-> p, expiry |-> clock + StateMaxAge, key |-> Running.key]
           r == Reply(Set(s), Keep, AtIdp(n))
<1>1. /\ logins \in Seq(Provider) /\ n \in Logins /\ clock \in 0..MaxTime
      /\ config \in Startable
  BY DEF Inv, TypeOK, Login, Exited
<1>2. logins' = Append(logins, p) /\ UNCHANGED <<process, clock, config, browser, code, redeemed, grants>>
  BY DEF Login
<1>3. /\ logins' \in Seq(Provider) /\ Len(logins') = n /\ logins'[n] = p
      /\ \A m \in 1..Len(logins) : logins'[m] = logins[m]
      /\ Started = 1..Len(logins) /\ Started' = 1..n
  BY <1>1, <1>2 DEF Started
<1>4. Forward
  BY <1>1, <1>2, <1>3 DEF Forward
<1>5. s \in States
  <2>1. Running.key \in Keys
    BY <1>1, AuthAssumption, LoadKeepsBlock DEF Running, Loaded, Startable, Keys
  <2>2. clock + StateMaxAge \in Times
    BY <1>1, AuthAssumption DEF Times
  <2> QED
    BY <1>1, <2>1, <2>2 DEF States
<1>6. s \in SoundStates' /\ AtIdp(n) \in AtProvider'
  BY <1>1, <1>3, <1>5 DEF SoundStates, AtProvider
<1>7. r \in Replies'
  BY <1>6 DEF Reply, Replies, Updates
<1>8. Handling(t, r)
  <2>1. Become(t, r) /\ tab[t].at = "idle"
    BY DEF Login, Idle
  <2>2. r.at = "reply"
    BY DEF Reply
  <2> HIDE DEF r
  <2> QED
    BY <1>2, <2>1, <2>2 DEF Handling
<1> HIDE DEF r, s
<1>9. r \in SoundTabs'
  BY <1>7 DEF SoundTabs
<1>10. TypeOK'
  BY <1>1, <1>2, <1>3, <1>4, <1>8, <1>9, TabStep DEF Inv, TypeOK, Logins, browser
<1>11. Carried'
  BY <1>2, <1>4, <1>8, <1>9, TabStep, StillSound DEF Inv, Carried, browser
<1>12. Earned' /\ OneSessionPerLogin'
  BY <1>2, <1>3 DEF Inv, Earned, OneSessionPerLogin
<1> QED
  BY <1>4, <1>8, <1>9, <1>10, <1>11, <1>12, TabStep DEF Inv

LEMMA StepSignIn ==
  ASSUME Inv, NEW t \in Tab, NEW w \in Who, SignIn(t, w)
  PROVE  Inv'
<1>1. /\ code' = [code EXCEPT ![tab[t].login] = w]
      /\ code[tab[t].login] = None /\ Become(t, Idle)
      /\ UNCHANGED <<process, clock, config, browser, logins, redeemed, grants>>
  BY DEF SignIn
<1>2. tab[t].login \in Logins
  BY TabFacts, LoginIds DEF Inv, SignIn, AtProvider, AtIdp
<1>3. code' \in [Logins -> Who \cup {None}] /\ Forward
  BY <1>1, <1>2, AuthAssumption DEF Inv, TypeOK, Forward, Started
<1>4. Handling(t, Idle)
  BY <1>1 DEF Handling, SignIn, Idle
<1>5. Idle \in SoundTabs'
  BY DEF SoundTabs
<1>6. TypeOK'
  BY <1>1, <1>3, <1>4, <1>5, TabStep DEF Inv, TypeOK, browser
<1>7. Carried'
  BY <1>1, <1>3, <1>4, <1>5, TabStep, StillSound DEF Inv, Carried, browser
<1>8. Earned' /\ OneSessionPerLogin'
  BY <1>1 DEF Inv, Earned, OneSessionPerLogin, Started
<1> QED
  BY <1>3, <1>4, <1>5, <1>6, <1>7, <1>8, TabStep DEF Inv

(* The process runs, under a block that Validate accepted, while a request is
   being handled; the provider of an exchange is one of that block. *)
LEMMA Serving ==
  ASSUME Inv, NEW t \in Tab, tab[t].at \in {"callback", "exchange", "page"}
  PROVE  /\ config \in DOMAIN Blocks /\ ~Refused(Blocks[config]) /\ Blocks[config] \in Config
         /\ Running = LoadConfig(Blocks[config])
<1>1. srv \notin Exited
  BY DEF Inv, TypeOK, Quiet
<1>2. config \in Startable
  BY <1>1 DEF Inv, TypeOK
<1> QED
  BY <1>2, AuthAssumption DEF Startable, Running, Loaded

LEMMA ExchangeFacts ==
  ASSUME Inv, NEW t \in Tab, tab[t].at = "exchange"
  PROVE  /\ tab[t].login \in Started /\ tab[t].login \in Logins
         /\ logins[tab[t].login] = tab[t].provider /\ code[tab[t].login] \in Who
         /\ \E i \in DOMAIN Blocks[config].providers :
               /\ Blocks[config].providers[i].id = tab[t].provider
               /\ Named(Blocks[config].providers, tab[t].provider) = Blocks[config].providers[i]
<1> DEFINE raw == Blocks[config]
<1>1. tab[t] \in Exchanges
  BY TabFacts DEF Inv
<1>2. /\ tab[t].login \in Started /\ tab[t].provider \in Ids(Running.providers)
      /\ logins[tab[t].login] = tab[t].provider /\ code[tab[t].login] # None
  BY <1>1 DEF Exchanges
<1>3. tab[t].login \in Logins /\ code[tab[t].login] \in Who
  BY <1>2, LoginIds DEF Inv, TypeOK
<1>4. raw \in Config /\ ~Refused(raw) /\ Running = LoadConfig(raw)
  BY Serving
<1> HIDE DEF raw
<1>5. PICK i \in DOMAIN raw.providers : raw.providers[i].id = tab[t].provider
  BY <1>2, <1>4, LoadKeepsIds DEF Ids, ToSet
<1>6. raw.providers # <<>>
  BY <1>5
<1>7. FreshIds(LoadConfig(raw).providers, {})
  BY <1>4, <1>6, LoadKeepsBlock DEF Refused, Validate, ValidBrowser, BrowserEnabled
<1>8. \A k, j \in DOMAIN raw.providers : raw.providers[k].id = raw.providers[j].id => k = j
  BY <1>4, <1>7, LoadKeepsBlock, LoadKeepsProvider DEF FreshIds
<1>9. (CHOOSE e \in ToSet(raw.providers) : e.id = tab[t].provider) = raw.providers[i]
  <2>1. raw.providers[i] \in ToSet(raw.providers)
    BY <1>5 DEF ToSet
  <2>2. \A e \in ToSet(raw.providers) : e.id = tab[t].provider => e = raw.providers[i]
    BY <1>5, <1>8 DEF ToSet
  <2> QED
    BY <1>5, <2>1, <2>2
<1> QED
  BY <1>2, <1>3, <1>5, <1>9 DEF Named, raw

(* The answer to an exchange that grants nothing. *)
LEMMA StepRefused ==
  ASSUME Inv, NEW t \in Tab, Deny(t) \/ ExchangeFails(t)
  PROVE  Inv'
<1> DEFINE r == Reply(Clear, Keep, Idle)
<1>1. tab[t].login \in Logins
  BY ExchangeFacts DEF Deny, ExchangeFails, Redeem
<1>2. /\ redeemed \subseteq redeemed' /\ redeemed' \subseteq Logins
      /\ UNCHANGED <<clock, config, browser, logins, code, grants>>
  BY <1>1 DEF Inv, TypeOK, Deny, ExchangeFails, Redeem
<1>3. Forward
  BY <1>2 DEF Forward, Started
<1>4. r \in SoundTabs'
  BY DEF Reply, Replies, Updates, Clear, SoundStates, SoundTabs
<1>5. Handling(t, r)
  BY DEF Deny, ExchangeFails, Handling, Reply
<1> HIDE DEF r
<1>6. TypeOK'
  BY <1>2, <1>3, <1>4, <1>5, TabStep DEF Inv, TypeOK, browser
<1>7. Carried'
  BY <1>2, <1>3, <1>4, <1>5, TabStep, StillSound DEF Inv, Carried, browser
<1>8. Earned' /\ OneSessionPerLogin'
  BY <1>2 DEF Inv, Earned, OneSessionPerLogin, Started
<1> QED
  BY <1>3, <1>4, <1>5, <1>6, <1>7, <1>8, TabStep DEF Inv

(* A grant is the first of its login, and the provider's own lists earn it. *)
LEMMA StepGrant ==
  ASSUME Inv, NEW t \in Tab, Grant(t)
  PROVE  Inv'
<1> DEFINE n    == tab[t].login
           raw  == Blocks[config]
           p    == Named(raw.providers, tab[t].provider)
           sess == [provider |-> p.id, id |-> Account(t), expiry |-> clock + SessionMaxAge,
                    key |-> Running.key]
           fit  == Entitled(raw, {}, p.allowedOrgs \cup p.allowedGroups, p.groupMatch, Account(t))
           g    == [login |-> n, at |-> clock, session |-> sess, entitled |-> fit]
           r    == Reply(Clear, Set(sess), Idle)
<1>1. /\ tab[t].at = "exchange" /\ n \notin redeemed /\ redeemed' = redeemed \cup {n}
      /\ Allowed(Running, tab[t].provider, Account(t))
      /\ Become(t, r) /\ grants' = grants \cup {g}
      /\ Finish(t) /\ UNCHANGED <<clock, config, browser, logins, code>>
  BY DEF Grant, Redeem, Enter
<1>2. /\ config \in DOMAIN Blocks /\ ~Refused(raw) /\ raw \in Config
      /\ Running = LoadConfig(raw)
  BY <1>1, Serving
<1>3. /\ n \in Started /\ n \in Logins /\ logins[n] = tab[t].provider
      /\ \E i \in DOMAIN raw.providers :
            raw.providers[i].id = tab[t].provider /\ p = raw.providers[i]
  BY <1>1, ExchangeFacts
<1>4. p.id = tab[t].provider
  BY <1>3
<1>5. fit
  <2>1. PICK i \in DOMAIN raw.providers :
           raw.providers[i].id = tab[t].provider /\ p = raw.providers[i]
    BY <1>3
  <2> HIDE DEF raw, p
  <2>2. Allowed(LoadConfig(raw), raw.providers[i].id, Account(t))
    BY <1>1, <1>2, <2>1
  <2> QED
    BY <1>2, <2>1, <2>2, ProviderListEntitles
<1>6. IsSession(sess)
  <2>1. p.id \in Provider
    BY <1>2, <1>3 DEF Provider, Ids, ToSet
  <2>2. Running.key \in Keys
    BY <1>2, LoadKeepsBlock DEF Keys
  <2>3. clock + SessionMaxAge \in Times
    BY AuthAssumption DEF Times, Inv, TypeOK
  <2> HIDE DEF p
  <2> QED
    BY <2>1, <2>2, <2>3 DEF IsSession
<1>7. /\ g.login = n /\ g.at = clock /\ g.session = sess /\ g.entitled = fit
      /\ sess.provider = p.id /\ sess.expiry = clock + SessionMaxAge
  BY Zenon
<1>8. Forward
  BY <1>1 DEF Forward, Started
<1> HIDE DEF p, fit, sess, g
<1>9. r \in SoundTabs' /\ Handling(t, r)
  <2>1. sess \in SoundSessions'
    BY <1>1, <1>7 DEF SoundSessions
  <2>2. r \in Replies'
    BY <2>1 DEF Reply, Replies, Updates, Clear, SoundStates
  <2>3. r.at = "reply"
    BY DEF Reply
  <2> HIDE DEF r
  <2> QED
    BY <1>1, <2>2, <2>3 DEF SoundTabs, Handling
<1> HIDE DEF r, n
<1>10. TypeOK'
  BY <1>1, <1>3, <1>6, <1>7, <1>8, <1>9, TabStep DEF Inv, TypeOK, browser
<1>11. Carried'
  BY <1>1, <1>8, <1>9, TabStep, StillSound DEF Inv, Carried, browser
<1>12. Earned'
  <2>1. g.entitled
    BY <1>5, <1>7
  <2> QED
    BY <1>1, <1>3, <1>4, <1>7, <2>1 DEF Inv, Earned, Started
<1>13. OneSessionPerLogin'
  BY <1>1, <1>7 DEF Inv, Earned, OneSessionPerLogin
<1> QED
  BY <1>8, <1>9, <1>10, <1>11, <1>12, <1>13, TabStep DEF Inv

LEMMA StepArrive ==
  ASSUME Inv, NEW t \in Tab, Arrive(t)
  PROVE  Inv'
<1>1. /\ tab[t].at = "reply" /\ Become(t, tab[t].next)
      /\ state' = Applied(tab[t].state, state) /\ session' = Applied(tab[t].session, session)
      /\ UNCHANGED <<process, clock, config, idp, grants>>
  BY DEF Arrive
<1>2. /\ tab[t].state \in Updates(SoundStates) /\ tab[t].session \in Updates(SoundSessions)
      /\ tab[t].next \in {Idle} \cup AtProvider
  BY <1>1, TabFacts DEF Inv, Replies
<1>3. state' \in SoundStates /\ session' \in SoundSessions
  BY <1>1, <1>2 DEF Inv, Carried, Applied, Updates, Keep, Set
<1>4. Forward
  BY <1>1 DEF Forward, Started, idp
<1>5. tab[t].next \in SoundTabs'
  BY <1>2, <1>4, StillSound DEF SoundTabs
<1>6. Handling(t, tab[t].next)
  BY <1>1, <1>2 DEF Handling, AtProvider, AtIdp, Idle
<1>7. TypeOK'
  <2>1. SoundStates \subseteq States \cup {None}
    BY DEF SoundStates
  <2>2. \A s \in SoundSessions : s = None \/ IsSession(s)
    BY DEF SoundSessions, Inv, TypeOK
  <2> QED
    BY <1>1, <1>3, <1>4, <1>5, <1>6, <2>1, <2>2, TabStep DEF Inv, TypeOK, idp
<1>8. Carried'
  BY <1>3, <1>4, <1>5, <1>6, TabStep, StillSound DEF Carried
<1>9. Earned' /\ OneSessionPerLogin'
  BY <1>1 DEF Inv, Earned, OneSessionPerLogin, Started, idp
<1> QED
  BY <1>4, <1>5, <1>6, <1>7, <1>8, <1>9, TabStep DEF Inv

-----------------------------------------------------------------------------
(* The life of the process. *)

LEMMA StepProcess ==
  ASSUME Inv, ProcessStep \/ Tick \/ UNCHANGED vars
  PROVE  Inv'
<1>1. /\ UNCHANGED <<config, browser, idp, tab, grants, active>>
      /\ clock' \in 0..MaxTime /\ clock <= clock'
      /\ srv' \in Exited <=> srv \in Exited
      /\ grace' \in 0..Grace /\ srv' \in {"up", "failed", "draining"} \cup Exited
  <2>1. /\ clock \in 0..MaxTime /\ grace \in 0..Grace
        /\ srv \in {"up", "failed", "draining"} \cup Exited
    BY DEF Inv, TypeOK, ProcessType
  <2>2. CASE ProcessStep
    BY <2>1, <2>2 DEF ProcessStep, ListenFails, Drain, Exited
  <2>3. CASE Tick
    BY <2>1, <2>3, GraceAssumption, AuthAssumption DEF Tick, GraceTick
  <2>4. CASE UNCHANGED vars
    BY <2>1, <2>4 DEF vars, process
  <2> QED
    BY <2>2, <2>3, <2>4
<1>2. Forward
  BY <1>1 DEF Forward, Started, idp
<1>3. TypeOK'
  BY <1>1 DEF Inv, TypeOK, ProcessType, browser, idp
<1>4. Carried'
  BY <1>1, <1>2, StillSound DEF Inv, Carried, SoundTabs, browser
<1>5. Earned' /\ Quiet' /\ OneSessionPerLogin'
  BY <1>1 DEF Inv, Earned, Quiet, OneSessionPerLogin, Started, idp
<1> QED
  BY <1>3, <1>4, <1>5 DEF Inv

(* What an exit cuts off fails in its tab; the cookies stay. *)
LEMMA StepExit ==
  ASSUME Inv, Exit
  PROVE  Inv'
<1>1. /\ srv' \in Exited /\ grace' = Grace /\ active' = {} /\ config' = None
      /\ tab' = [t \in Tab |-> IF t \in active THEN Idle ELSE tab[t]]
      /\ UNCHANGED <<clock, browser, idp, grants>>
  BY DEF Exit, Exits, ReportError, Drained, GraceEnds, Leave, Exited
<1>2. Forward
  BY <1>1 DEF Forward, Started, idp
<1>3. \A t \in Tab : tab'[t] \in {Idle} \cup AtProvider \cup Replies
  <2> SUFFICES ASSUME NEW t \in Tab, t \notin active
               PROVE  tab[t] \in {Idle} \cup AtProvider \cup Replies
    BY <1>1
  <2>1. tab[t].at \notin {"callback", "exchange", "page"}
    BY DEF Inv, TypeOK
  <2>2. /\ \A r \in Callbacks : r.at = "callback"
        /\ \A r \in Exchanges : r.at = "exchange"
        /\ \A r \in Pages : r.at = "page"
    BY DEF Callbacks, Exchanges, Pages
  <2> QED
    BY <2>1, <2>2 DEF Inv, Carried, SoundTabs
<1>4. Carried'
  BY <1>1, <1>2, <1>3, StillSound DEF Inv, Carried, SoundTabs, browser
<1>5. \A t \in Tab : tab'[t].at \in {"idle", "idp", "reply"}
  BY <1>3 DEF Idle, AtProvider, AtIdp, Replies
<1>6. TypeOK'
  BY <1>1, <1>5, GraceAssumption DEF Inv, TypeOK, ProcessType, Places, browser, idp
<1>7. Earned' /\ Quiet' /\ OneSessionPerLogin'
  BY <1>1 DEF Inv, Earned, Quiet, OneSessionPerLogin, Started, idp
<1> QED
  BY <1>4, <1>6, <1>7 DEF Inv

LEMMA StepStart ==
  ASSUME Inv, NEW n \in DOMAIN Blocks, Start(n) \/ StartFails(n)
  PROVE  Inv'
<1>1. /\ srv \in Exited /\ active = {} /\ active' = {}
      /\ \/ config' = config /\ srv' = "error"
         \/ config' = n /\ n \in Startable /\ srv' = "up"
      /\ UNCHANGED <<grace, clock, browser, idp, tab, grants>>
  BY DEF Start, StartFails, Restart, FailsToStart, Inv, Quiet
<1>2. Forward
  BY <1>1 DEF Forward, Started, idp
<1>3. \A t \in Tab : tab[t] \in {Idle} \cup AtProvider \cup Replies
  <2> SUFFICES ASSUME NEW t \in Tab
               PROVE  tab[t] \in {Idle} \cup AtProvider \cup Replies
    OBVIOUS
  <2>1. tab[t].at \notin {"callback", "exchange", "page"}
    BY <1>1 DEF Inv, TypeOK
  <2>2. /\ \A r \in Callbacks : r.at = "callback"
        /\ \A r \in Exchanges : r.at = "exchange"
        /\ \A r \in Pages : r.at = "page"
    BY DEF Callbacks, Exchanges, Pages
  <2> QED
    BY <2>1, <2>2 DEF Inv, Carried, SoundTabs
<1>4. Carried'
  BY <1>1, <1>2, <1>3, StillSound DEF Inv, Carried, SoundTabs, browser
<1>5. TypeOK'
  BY <1>1, AuthAssumption DEF Inv, TypeOK, ProcessType, Exited, Startable, browser, idp
<1>6. Earned' /\ Quiet' /\ OneSessionPerLogin'
  BY <1>1 DEF Inv, Earned, Quiet, OneSessionPerLogin, Started, idp
<1> QED
  BY <1>4, <1>5, <1>6 DEF Inv

LEMMA SpecInv == Spec => []Inv
<1>1. Inv /\ [Next]_vars => Inv'
  <2>1. ASSUME Inv, NEW t \in Tab, Handler(t)
        PROVE  Inv'
    BY <2>1, StepHandler, StepGrant, StepRefused DEF Handler
  <2>2. ASSUME Inv, NEW t \in Tab, User(t) \/ Lose(t)
        PROVE  Inv'
    BY <2>2, StepBrowser, StepLogin, StepSignIn DEF User
  <2> QED
    BY <2>1, <2>2, StepArrive, StepProcess, StepExit, StepStart DEF Next
<1> QED
  BY <1>1, InitInv, PTL DEF Spec

-----------------------------------------------------------------------------
(* The state of process, browser and provider is well typed, for all blocks,
   accounts, tokens and tabs. *)
THEOREM TypeCorrect == Spec => []TypeOK
<1>1. Inv => TypeOK
  BY DEF Inv
<1> QED
  BY <1>1, SpecInv, PTL

(* A code is redeemed with the provider that issued it, whatever logins the
   tabs have open: the state cookie and the state parameter are compared
   before anything is sent. *)
THEOREM CodesStayHome == Spec => []CodesGoHome
<1>1. Inv => CodesGoHome
  BY ExchangeFacts DEF CodesGoHome
<1> QED
  BY <1>1, SpecInv, PTL

(* However often a callback is opened, its login gives one session. *)
THEOREM OneSession == Spec => []OneSessionPerLogin
<1>1. Inv => OneSessionPerLogin
  BY DEF Inv
<1> QED
  BY <1>1, SpecInv, PTL

(* Cookie and bearer token make one user of an account. *)
THEOREM OneIdentityBothWays == Spec => []SameIdentityBothWays
<1>1. ASSUME NEW w \in Who
      PROVE  Agree[w]
  <2>1. Agree[w] <=> \A type \in OIDCTypes : \A user, list \in Pins :
                        LET entry == [type |-> type, usernameClaim |-> user,
                                      groupsClaim |-> list, hostedDomain |-> ""]
                        IN  Exchange(entry, Profile[w]) = BearerIdentity(entry, Profile[w])
    BY DEF Agree
  <2> QED
    BY <2>1, OneIdentity
<1>2. Inv => SameIdentityBothWays
  BY <1>1, ExchangeFacts DEF SameIdentityBothWays
<1> QED
  BY <1>2, SpecInv, PTL

(* Whoever is let through is entitled to it: with a token by the entry of the
   running block that names its issuer and audience, with a cookie by a login
   of this browser that the provider's own lists let in, whatever restarts,
   logouts and late responses lie between. *)
THEOREM OnlyTheEntitled == Spec => []AdmittedIsEntitled
<1>1. ASSUME Inv, NEW t \in Tab, tab[t].at = "page", NEW s \in Admits(t)
      PROVE  IF s = Anonymous THEN Blocks[config].providers = <<>> /\ Blocks[config].api = <<>>
             ELSE IF tab[t].token # None /\ Blocks[config].api # <<>>
             THEN EarnedByToken(s, tab[t].token)
             ELSE EarnedByLogin(s)
  <2> DEFINE raw == Blocks[config]
             tok == tab[t].token
  <2>1. ~Refused(raw) /\ raw \in Config /\ Running = LoadConfig(raw)
    BY <1>1, Serving
  <2>2. /\ BrowserEnabled(Running) <=> raw.providers # <<>>
        /\ ApiEnabled(Running) <=> raw.api # <<>>
    BY <2>1, LoadKeepsBlock DEF BrowserEnabled, ApiEnabled
  <2>3. CASE ~Enabled(Running)
    BY <1>1, <2>2, <2>3 DEF Admits, Enabled
  <2>4. CASE Enabled(Running) /\ raw.api # <<>> /\ tok # None
    <3>1. s \in BearerSessions(tok) /\ Allowed(Running, s.provider, s.id)
      BY <1>1, <2>2, <2>4 DEF Admits
    <3>2. PICK i \in DOMAIN Running.api :
             /\ s = [by |-> "bearer", provider |-> Running.api[i].id,
                     id |-> BearerIdentity(Running.api[i], Profile[tok.who])]
             /\ Verifies(Running.api[i], tok, clock)
      BY <3>1 DEF BearerSessions, BearerEntry, Matching
    <3> HIDE DEF raw, tok
    <3>3. i \in DOMAIN raw.api /\ Running.api[i].id = raw.api[i].id
      BY <2>1, <3>2, LoadKeepsBlock, LoadKeepsEntry
    <3>4. /\ s.by = "bearer" /\ s.provider = raw.api[i].id
          /\ s.id = BearerIdentity(raw.api[i], Profile[tok.who])
          /\ Verifies(raw.api[i], tok, clock)
      BY <2>1, <3>2, <3>3, SameBearer
    <3>5. Entitled(raw, raw.api[i].allowedUsers, raw.api[i].allowedGroups,
                   raw.api[i].groupMatch, s.id)
      BY <2>1, <3>1, <3>3, <3>4, EntryListEntitles
    <3>6. EarnedByToken(s, tok)
      BY <3>3, <3>4, <3>5 DEF EarnedByToken, ToSet, raw
    <3>7. s # Anonymous
      BY <3>4 DEF Anonymous
    <3> QED
      BY <2>4, <3>6, <3>7 DEF raw, tok
  <2>5. CASE Enabled(Running) /\ ~(raw.api # <<>> /\ tok # None)
    <3> DEFINE c == tab[t].session
    <3>1. s \in CookieSessions(c)
      BY <1>1, <2>2, <2>5 DEF Admits
    <3>2. Opens(c) /\ s = [by |-> "cookie", provider |-> c.provider, id |-> c.id]
      BY <3>1 DEF CookieSessions
    <3>3. c \in SoundSessions
      BY <1>1, TabFacts DEF Inv, Pages
    <3>4. PICK g \in grants : c = g.session
      BY <3>2, <3>3 DEF Opens, SoundSessions
    <3>5. s.by = "cookie" /\ s.provider = c.provider /\ s.id = c.id
      BY <3>2
    <3>6. g.session.key = raw.key
      BY <2>1, <3>2, <3>4, LoadKeepsBlock DEF Opens
    <3>7. EarnedByLogin(s)
      BY <1>1, <3>2, <3>4, <3>5, <3>6 DEF EarnedByLogin, Inv, TypeOK, Earned, Opens
    <3>8. s # Anonymous
      BY <3>5 DEF Anonymous
    <3> QED
      BY <2>5, <3>7, <3>8
  <2> QED
    BY <2>3, <2>4, <2>5
<1>2. Inv => AdmittedIsEntitled
  BY <1>1 DEF AdmittedIsEntitled
<1> QED
  BY <1>2, SpecInv, PTL

(* The exit status tells what happened to the clients: the process does not
   exit with 0 while a request it accepted is unanswered. *)
THEOREM ExitIsTruthful == Spec => ExitTellsTheCut
<1>1. ASSUME [Next]_vars, srv' = "ok", srv # "ok"
      PROVE  active = {}
  <2>1. ASSUME NEW t \in Tab, Handler(t) \/ User(t) \/ Arrive(t) \/ Lose(t)
        PROVE  srv' = srv
    BY <2>1 DEF Handler, StateInvalid, StateRejected, StartExchange, Grant, Deny, ExchangeFails,
                ServePage, User, Login, SignIn, OpenCallback, Decline, TurnBack, Logout, OpenPage,
                Arrive, Lose, Accept, Finish, process
  <2>2. CASE Exit
    BY <1>1, <2>2 DEF Exit, Exits, ReportError, Drained, GraceEnds, Leave
  <2>3. CASE ProcessStep \/ Tick \/ UNCHANGED vars \/ \E n \in DOMAIN Blocks : Start(n) \/ StartFails(n)
    BY <1>1, <2>3 DEF ProcessStep, ListenFails, Drain, Tick, GraceTick, Start, Restart, StartFails,
                      FailsToStart, vars, process
  <2> QED
    BY <1>1, <2>1, <2>2, <2>3 DEF Next
<1>2. [Next]_vars => [srv' = "ok" /\ srv # "ok" => active = {}]_process
  BY <1>1
<1> QED
  BY <1>2, PTL DEF Spec, ExitTellsTheCut
=============================================================================
