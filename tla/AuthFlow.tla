------------------------------ MODULE AuthFlow ------------------------------
(***************************************************************************)
(* The UI's authentication: login, provider, callback, session, logout, and*)
(* the middleware in front of every page, which takes a session cookie or a*)
(* bearer token.  The server keeps nothing: the login in progress and the  *)
(* session are cookies sealed under the configured key, in a jar that the  *)
(* tabs of the browser share.  A request carries the jar as it was when it *)
(* was sent, a response changes it when it arrives, if it does; the process*)
(* may drain, exit and come back with another auth block in between        *)
(* (Serve).                                                                *)
(*                                                                         *)
(* A login is known by its number, which stands for the random state and   *)
(* nonce minted for it.  Providers are external: a code is issued for one  *)
(* login and redeemed once.  The jar holds what the server put into it; a  *)
(* cookie opens under the key it was sealed with and no other.             *)
(***************************************************************************)
EXTENDS Serve, Claims

CONSTANTS
    Blocks,            \* the auth blocks the process may be started with, by name
    Who,               \* accounts at the providers
    Profile,           \* Profile[w]: what the providers say about account w
    Tokens,            \* bearer tokens: issuer, audiences, who, expiry
    None,              \* no cookie, no code, no token, no configuration
    StateMaxAge,       \* oauthStateMaxAge
    SessionMaxAge,
    ExchangeTimeout,   \* callbackExchangeTimeout
    MaxLogins,         \* bound on logins started
    MaxTime            \* bound on the clock

Tab    == Request
Logins == 1..MaxLogins

ASSUME AuthAssumption ==
    /\ {StateMaxAge, SessionMaxAge, ExchangeTimeout, MaxLogins, MaxTime} \subseteq Nat \ {0}
    /\ None \notin Who /\ None \notin DOMAIN Blocks /\ None \notin Tokens
    /\ \A tok \in Tokens : tok.who \in Who
    /\ \A n \in DOMAIN Blocks : Blocks[n] \in Config

VARIABLES
    clock,
    config,      \* the name of the running process's block, if there is one
    state,       \* the jar's state cookie: login, provider, expiry, key
    session,     \* the jar's session cookie: provider, identity, expiry, key
    logins,      \* the provider of each login started
    code,        \* code[n]: the account the provider issued a code for
    redeemed,    \* logins whose code was redeemed
    tab,         \* what each tab is waiting for
    grants       \* history: the sessions granted, and whether the lists allowed it

browser == <<state, session>>
idp     == <<logins, code, redeemed>>
vars    == <<process, clock, config, browser, idp, tab, grants>>

Loaded    == [n \in DOMAIN Blocks |-> LoadConfig(Blocks[n])]
Startable == {n \in DOMAIN Blocks : ~Refused(Blocks[n])}
Running   == Loaded[config]
Provider  == UNION {Ids(Blocks[n].providers) : n \in DOMAIN Blocks}

Named(entries, id) == CHOOSE e \in ToSet(entries) : e.id = id

Idle      == [at |-> "idle"]
AtIdp(n)  == [at |-> "idp", login |-> n]
Keep      == [keep |-> TRUE]
Set(c)    == [keep |-> FALSE, cookie |-> c]
Clear     == Set(None)

(* A response on its way: what it does to the two cookies, what follows. *)
Reply(st, sess, next) == [at |-> "reply", state |-> st, session |-> sess, next |-> next]

Init ==
    /\ Fresh
    /\ clock = 0
    /\ config \in Startable
    /\ state = None /\ session = None
    /\ logins = <<>>
    /\ code = [n \in Logins |-> None]
    /\ redeemed = {}
    /\ tab = [t \in Tab |-> Idle]
    /\ grants = {}

-----------------------------------------------------------------------------
Become(t, next) == tab' = [tab EXCEPT ![t] = next]

(* handleLogin with a known provider: the handler does not wait, so request
   and handler are one step. *)
Login(t, p) ==
    LET n == Len(logins) + 1
    IN  /\ srv = "up" /\ tab[t] = Idle /\ n \in Logins
        /\ p \in Ids(Running.providers)
        /\ logins' = Append(logins, p)
        /\ Become(t, Reply(Set([login |-> n, provider |-> p, expiry |-> clock + StateMaxAge,
                                key |-> Running.key]),
                           Keep, AtIdp(n)))
        /\ UNCHANGED <<process, clock, config, browser, code, redeemed, grants>>

(* At the provider the user signs in with an account, declines (and is sent
   back without a code), or leaves. *)
SignIn(t, w) ==
    /\ tab[t].at = "idp" /\ code[tab[t].login] = None
    /\ code' = [code EXCEPT ![tab[t].login] = w]
    /\ Become(t, Idle)
    /\ UNCHANGED <<process, clock, config, browser, logins, redeemed, grants>>

Callback(n, hasCode) == [at |-> "callback", login |-> n, hasCode |-> hasCode, state |-> state]

Decline(t) ==
    /\ tab[t].at = "idp"
    /\ Accept(t)
    /\ Become(t, Callback(tab[t].login, FALSE))
    /\ UNCHANGED <<clock, config, browser, idp, grants>>

TurnBack(t) ==
    /\ tab[t].at = "idp"
    /\ Become(t, Idle)
    /\ UNCHANGED <<process, clock, config, browser, idp, grants>>

(* The redirect to /auth/callback, its reload, or its URL in another tab. *)
OpenCallback(t, n) ==
    /\ tab[t] = Idle /\ code[n] # None
    /\ Accept(t)
    /\ Become(t, Callback(n, TRUE))
    /\ UNCHANGED <<clock, config, browser, idp, grants>>

-----------------------------------------------------------------------------
(* open: sealed under this key and not expired. *)
Opens(c) == c # None /\ c.key = Running.key /\ clock < c.expiry

(* Without auth nothing is mounted under /auth/. *)
StateOpens(t) == Enabled(Running) /\ Opens(tab[t].state)

(* Mutant of Matches: the state parameter is not compared. *)
MatchesAny(t) == tab[t].state.provider \in Ids(Running.providers)

Matches(t) ==
    /\ tab[t].state.login = tab[t].login
    /\ tab[t].state.provider \in Ids(Running.providers)

(* readStateCookie fails: the response changes no cookie. *)
StateInvalid(t) ==
    /\ tab[t].at = "callback" /\ ~StateOpens(t)
    /\ Become(t, Idle)
    /\ Finish(t)
    /\ UNCHANGED <<clock, config, browser, idp, grants>>

(* Another login's state, a provider that is gone or no code: the cookie is
   cleared, whichever login it belonged to. *)
StateRejected(t) ==
    /\ tab[t].at = "callback" /\ StateOpens(t)
    /\ ~Matches(t) \/ ~tab[t].hasCode
    /\ Become(t, Reply(Clear, Keep, Idle))
    /\ Finish(t)
    /\ UNCHANGED <<clock, config, browser, idp, grants>>

(* The code goes to the provider of the cookie; the handler waits. *)
StartExchange(t) ==
    /\ tab[t].at = "callback" /\ StateOpens(t)
    /\ Matches(t) /\ tab[t].hasCode
    /\ Become(t, [at |-> "exchange", login |-> tab[t].login,
                  provider |-> tab[t].state.provider, since |-> clock])
    /\ UNCHANGED <<process, clock, config, browser, idp, grants>>

(* The provider redeems a code of its own, once. *)
Redeem(t) ==
    LET n == tab[t].login
    IN  /\ tab[t].at = "exchange"
        /\ logins[n] = tab[t].provider /\ n \notin redeemed
        /\ redeemed' = redeemed \cup {n}

(* What Exchange makes of the account that signed in. *)
Account(t) == Exchange(Named(Running.providers, tab[t].provider), Profile[code[tab[t].login]])

Entitled(c, users, groups, match, who) ==
    \/ c.users = {} /\ users = {} /\ groups = {}
    \/ who.login \in c.users \cup users
    \/ \E want \in groups, have \in who.groups :
          have = want \/ (match = "subtree" /\ IsPrefix(want, have))

(* The session is sealed; the grant notes whether the block, read provider
   by provider, lets the account in. *)
Enter(t) ==
    LET p    == Named(Blocks[config].providers, tab[t].provider)
        sess == [provider |-> p.id, id |-> Account(t), expiry |-> clock + SessionMaxAge,
                 key |-> Running.key]
    IN  /\ Become(t, Reply(Clear, Set(sess), Idle))
        /\ grants' = grants \cup
              {[login |-> tab[t].login, at |-> clock, session |-> sess,
                entitled |-> Entitled(Blocks[config], {}, p.allowedOrgs \cup p.allowedGroups,
                                      p.groupMatch, Account(t))]}

Grant(t) ==
    /\ Redeem(t) /\ Account(t).result = "ok" /\ Allowed(Running, tab[t].provider, Account(t))
    /\ Enter(t)
    /\ Finish(t)
    /\ UNCHANGED <<clock, config, browser, logins, code>>

(* Not on the lists, or outside the hosted domain. *)
Deny(t) ==
    /\ Redeem(t)
    /\ \/ Account(t).result = "denied"
       \/ Account(t).result = "ok" /\ ~Allowed(Running, tab[t].provider, Account(t))
    /\ Become(t, Reply(Clear, Keep, Idle))
    /\ Finish(t)
    /\ UNCHANGED <<clock, config, browser, logins, code, grants>>

(* Mutant of ExchangeFails: the error does not end the handler. *)
ExchangeFailsOpen(t) ==
    /\ tab[t].at = "exchange" /\ Account(t).result = "ok"
    /\ Enter(t)
    /\ Finish(t)
    /\ UNCHANGED <<clock, config, browser, idp>>

(* The provider refuses the code or is late, or what it says has no login in
   it; it may have redeemed the code all the same. *)
ExchangeFails(t) ==
    /\ tab[t].at = "exchange"
    /\ redeemed' \in {redeemed, redeemed \cup {tab[t].login}}
    /\ Become(t, Reply(Clear, Keep, Idle))
    /\ Finish(t)
    /\ UNCHANGED <<clock, config, browser, logins, code, grants>>

-----------------------------------------------------------------------------
Logout(t) ==
    /\ srv = "up" /\ tab[t] = Idle /\ Enabled(Running)
    /\ Become(t, Reply(Keep, Clear, Idle))
    /\ UNCHANGED <<process, clock, config, browser, idp, grants>>

(* A page or an API call, by the browser or with a token. *)
OpenPage(t, token) ==
    /\ tab[t] = Idle
    /\ Accept(t)
    /\ Become(t, [at |-> "page", session |-> session, token |-> token])
    /\ UNCHANGED <<clock, config, browser, idp, grants>>

Anonymous == [by |-> "nobody"]

BearerSessions(token) ==
    LET claims == Profile[token.who]
    IN  {[by |-> "bearer", provider |-> e.id, id |-> BearerIdentity(e, claims)] :
            e \in BearerEntry(Running, token, claims, clock)}

CookieSessions(c) ==
    IF BrowserEnabled(Running) /\ Opens(c)
    THEN {[by |-> "cookie", provider |-> c.provider, id |-> c.id]} ELSE {}

(* Middleware: whom the request is let through as, if at all.  A token is
   checked against the lists on every request and never falls back to the
   cookie; an open session is trusted as it is. *)
Admits(t) ==
    IF ~Enabled(Running) THEN {Anonymous}
    ELSE IF ApiEnabled(Running) /\ tab[t].token # None
    THEN {s \in BearerSessions(tab[t].token) : Allowed(Running, s.provider, s.id)}
    ELSE CookieSessions(tab[t].session)

(* The page, 401, 403 or the way to the login page; no cookie changes. *)
ServePage(t) ==
    /\ tab[t].at = "page"
    /\ Become(t, Idle)
    /\ Finish(t)
    /\ UNCHANGED <<clock, config, browser, idp, grants>>

-----------------------------------------------------------------------------
(* A response arrives at the browser, or never does. *)
Applied(update, cookie) == IF update.keep THEN cookie ELSE update.cookie

Arrive(t) ==
    /\ tab[t].at = "reply"
    /\ state' = Applied(tab[t].state, state)
    /\ session' = Applied(tab[t].session, session)
    /\ Become(t, tab[t].next)
    /\ UNCHANGED <<process, clock, config, idp, grants>>

Lose(t) ==
    /\ tab[t].at = "reply"
    /\ Become(t, Idle)
    /\ UNCHANGED <<process, clock, config, browser, idp, grants>>

(* The process goes through its life; what it leaves behind fails. *)
ProcessStep ==
    /\ ListenFails \/ Drain
    /\ UNCHANGED <<clock, config, browser, idp, tab, grants>>

Exit ==
    /\ Exits
    /\ config' = None
    /\ tab' = [t \in Tab |-> IF t \in active THEN Idle ELSE tab[t]]
    /\ UNCHANGED <<clock, browser, idp, grants>>

(* runUI: a block that LoadConfig, Validate or New refuses, or whose
   discovery fails, ends the process before it serves anything. *)
Start(n) ==
    /\ Restart
    /\ n \in Startable
    /\ config' = n
    /\ UNCHANGED <<clock, browser, idp, tab, grants>>

StartFails(n) ==
    /\ FailsToStart
    /\ MayFail(Blocks[n])
    /\ UNCHANGED <<clock, config, browser, idp, tab, grants>>

Tick ==
    /\ clock < MaxTime
    /\ \A t \in Tab : tab[t].at = "exchange" => clock < tab[t].since + ExchangeTimeout
    /\ GraceTick
    /\ clock' = clock + 1
    /\ UNCHANGED <<config, browser, idp, tab, grants>>

Handler(t) ==
    \/ StateInvalid(t) \/ StateRejected(t) \/ StartExchange(t)
    \/ Grant(t) \/ Deny(t) \/ ExchangeFails(t)
    \/ ServePage(t)

User(t) ==
    \/ \E p \in Provider : Login(t, p)
    \/ \E w \in Who : SignIn(t, w)
    \/ \E n \in Logins : OpenCallback(t, n)
    \/ Decline(t) \/ TurnBack(t) \/ Logout(t)
    \/ \E token \in Tokens \cup {None} : OpenPage(t, token)

Next ==
    \/ \E t \in Tab : Handler(t) \/ User(t) \/ Arrive(t) \/ Lose(t)
    \/ ProcessStep \/ Exit
    \/ \E n \in DOMAIN Blocks : Start(n) \/ StartFails(n)
    \/ Tick

Spec == Init /\ [][Next]_vars

-----------------------------------------------------------------------------
Times    == 0..(MaxTime + StateMaxAge + SessionMaxAge)
Keys     == {Blocks[n].key : n \in DOMAIN Blocks}
States   == [login : Logins, provider : Provider, expiry : Times, key : Keys]
Places   == {"idle", "idp", "callback", "exchange", "page", "reply"}

IsSession(s) ==
    /\ DOMAIN s = {"provider", "id", "expiry", "key"}
    /\ s.provider \in Provider /\ s.expiry \in Times /\ s.key \in Keys

TypeOK ==
    /\ ProcessType
    /\ active = {t \in Tab : tab[t].at \in {"callback", "exchange", "page"}}
    /\ clock \in 0..MaxTime
    /\ config \in Startable \cup {None} /\ (config = None) = (srv \in Exited)
    /\ state \in States \cup {None} /\ (session = None \/ IsSession(session))
    /\ logins \in Seq(Provider) /\ Len(logins) <= MaxLogins
    /\ code \in [Logins -> Who \cup {None}]
    /\ redeemed \subseteq Logins
    /\ \A t \in Tab : tab[t].at \in Places
    /\ \A g \in grants : g.login \in Logins /\ g.at \in 0..clock /\ IsSession(g.session)

(* A code is only ever sent to the provider that issued it, whatever logins
   the tabs have started and answered in whatever order (state mismatch). *)
CodesGoHome ==
    \A t \in Tab : tab[t].at = "exchange" => logins[tab[t].login] = tab[t].provider

(* Nobody is let through who is not entitled to it.  A bearer token needs an
   entry of the running block that names its issuer and audience and whose
   own lists let its account in now; presented, it is never passed over for
   the cookie.  A cookie needs a login of this browser at that provider,
   less than SessionMaxAge ago and under the running key, by an account that
   the provider's own lists let in at the time -- restarts with another
   block, logouts and late responses notwithstanding.  Without either there
   is no auth block. *)
EarnedByToken(s, token) ==
    \E e \in ToSet(Blocks[config].api) :
        /\ e.id = s.provider /\ Verifies(e, token, clock)
        /\ Entitled(Blocks[config], e.allowedUsers, e.allowedGroups, e.groupMatch,
                    BearerIdentity(e, Profile[token.who]))

EarnedByLogin(s) ==
    \E g \in grants :
        /\ g.entitled
        /\ g.session.provider = s.provider /\ logins[g.login] = s.provider
        /\ g.session.id = s.id /\ g.session.key = Blocks[config].key
        /\ g.at <= clock /\ clock < g.at + SessionMaxAge

AdmittedIsEntitled ==
    \A t \in Tab : tab[t].at = "page" => \A s \in Admits(t) :
        IF s = Anonymous THEN Blocks[config].providers = <<>> /\ Blocks[config].api = <<>>
        ELSE IF tab[t].token # None /\ Blocks[config].api # <<>>
        THEN EarnedByToken(s, tab[t].token)
        ELSE EarnedByLogin(s)

(* A login ends in one session at most, however often its callback is
   opened: reloaded, repeated in another tab or retried after a restart. *)
OneSessionPerLogin == \A g, h \in grants : g.login = h.login => g = h

(* Whoever signs in through an OIDC provider is the same user, of the same
   groups, with a bearer token: the claims are read by two pieces of code
   (newOIDCProvider and Exchange, resolveAPIClaims and authenticateBearer),
   and for every preset and every claim configured for both they agree,
   save that only the browser is held to a hosted domain. *)
OIDCTypes == {"oidc", "gitlab", "okta", "keycloak", "entra", "google"}
Pins      == {"", "email", "preferred_username", "groups", "groups_direct", "roles"}

Agree == [w \in Who |-> \A type \in OIDCTypes : \A user, list \in Pins :
             LET entry == [type |-> type, usernameClaim |-> user, groupsClaim |-> list,
                           hostedDomain |-> ""]
             IN  Exchange(entry, Profile[w]) = BearerIdentity(entry, Profile[w])]

SameIdentityBothWays == \A t \in Tab : tab[t].at = "exchange" => Agree[code[tab[t].login]]
=============================================================================
