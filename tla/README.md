# portreach: specifications, model checking and proofs

portreach answers one question from many places: can this host:port be reached
(and, for PostgreSQL, does this login work) from every node of a cluster?
Agents run next to the workloads and dial; the UI discovers the agents, fans a
check out to them and shows one result per node. This directory holds TLA+
modules of the parts of the program in which several things happen at once or
can go half way, the TLC instances that check them, and proofs checked by TLAPS.

## 1. The system

| part | state it keeps | operations | interacts with | what is hard |
|---|---|---|---|---|
| `internal/probe` (dial race) | per probe: worker pool, two channels, guard flag, winner, open connections | `connect`, `dialConn`, `Run`, `DenyGuard.control` | called by the agent; `net.Dialer` | goroutines, cancellation, who closes which connection, one deadline for all |
| `internal/ratelimit` | buckets per user, target and one global; call counter | `Reserve`, `evictIdle` | called by UI and agent handlers concurrently | two-phase reserve/rollback across locks, lazy clock, eviction |
| `internal/ui` (check path) | per request: what was read of it, budget, agents, results, audit | routing, parsing, gates, `runCheck`, `CheckAll`, `checkOne`, form handlers | audit middleware, limiter, discovery, agents over HTTP | one budget shared by discovery and two waves of agents, partial failure; a request read twice, by different code |
| `internal/agent` | counters; per request: vetted addresses, verdict | the two check handlers, `resolveTarget`, `/metrics` | limiter, probe, DNS | answers of DNS that change between lookups; order of audit, count and response |
| `probe.Postgres`, `pgauth` | one connection | `Run`, `Probe` | pgconn | a second dial after the verdict; closing beyond the deadline |
| `internal/checkapi` | none | validation, `NormalizeTimeout` | UI and agent | UI and agent must agree on timeouts |
| `internal/discovery` | none | `Agents` | DNS | order and duplicates |
| `internal/auth` | sealed state and session cookies (in the browser), allowlists | the auth block, login, callback, logout, middleware, bearer tokens, `AuditCheck` | identity providers | tabs, in-flight callbacks, expiry, restarts with another block, one registry for two kinds of entry, claims read in two places |
| `internal/cmd` | process lifecycle | `serveWithShutdown` | HTTP servers | drain within a grace period |
| i18n, branding, version, charts, docs | none | lookup, templates | | nothing concurrent |

What makes each part correct, and what a unit test hardly reaches, is listed
as `hazards` in `PROJECT.json`, each at its line with the properties that cover it.

## 2. Modules

| module | models | kind |
|---|---|---|
| `DialRace` | feeder, workers, channel, collector, `connect`, `Run`, the guard's hook | detailed specification |
| `ProbeVerdict` | what a runner promises its caller | abstract specification of `DialRace` |
| `DialRaceProofs` | | proofs about `DialRace` |
| `Positions` | | lemmas about positions in a list |
| `RateLimiter` | `Reserve` in its steps, by concurrent callers, through one or two limiters | detailed specification |
| `TokenBucket` | one bucket of `golang.org/x/time/rate`: `ReserveN`, `CancelAt` (external) | pure operators |
| `AtomicLimiter` | all tokens of a check or none | abstract specification of `RateLimiter` |
| `RateLimiterProofs` | | proofs about `RateLimiter` and `TokenBucket` |
| `Timeouts`, `TimeoutsProofs` | `clampTimeout`, `NormalizeTimeout` | pure operators, lemmas about them |
| `CheckRequest` | what `AuditCheck` and what the handlers make of a request | pure operators |
| `ClientKey` | `identityKey`, `ClientIP`, and the proxies before them | pure operators |
| `UICheck` | one request from arrival to response, API and form | specification, uses the three above |
| `UICheckProofs` | | proofs about `UICheck`, `CheckRequest` and `ClientKey` |
| `AgentCheck` | concurrent requests to one agent | specification |
| `AgentCheckProofs` | | proofs about `AgentCheck` |
| `Serve` | `serveWithShutdown` | specification of a process, without `Next` |
| `AuthConfig` | `LoadConfig`, `Validate`, the registry of allowlists, `allowed` | pure operators |
| `Claims` | presets, claim mapping, the two ways from claims to an identity, tokens | pure operators, extends `AuthConfig` |
| `AuthFlow` | browser, login, callback, logout, middleware, on top of `Serve` | composition, extends `Serve` and `Claims` |
| `AuthFlowProofs` | | proofs about `AuthFlow`, `Serve`, `AuthConfig` and `Claims` |
| `PgCheck` | one postgres check in time, UI to server and back | specification, uses `Timeouts` |
| `PgCheckProofs` | | proofs about `PgCheck` |
| `MC*` | instances | |

### DialRace

Hosts are positions in the list `Hosts` (after `dedup`: `Uniq`). `fed` is how far
the feeder's loop is, `job[w]` what worker `w` is dialing, `todo` and `syn` the
candidate addresses of that host not tried yet and being connected, `outcome`
what `DialContext` returned, `ch` the buffered channel, `winner`, `lastErr`, `reads`
the collector's variables. `open` is the set of connections that are open in
the process, whoever holds them. `ctx` is the derived context with the first
cause of its end, `guardHit` the atomic flag. One action per step a goroutine
takes between two points where another can interfere.

`net.Dialer` is external: for a name, any subset of the candidates may be in
flight together. That over-approximates Happy Eyeballs (which runs two families
and walks each in order) and includes a candidate that reaches the guard's hook
after its sibling has been returned (`Straggler`).

`ProbeVerdict` is what is left when pool, channel and collector are hidden: open
and drop while pending, answer with one connection open or none, release.
`ImplementsVerdict` is the refinement: `live <- open` and `verdict` from
`phase` and `res`.

### RateLimiter

A bucket's credit is an integer in units of ticks (a token costs `1/Rate` ticks),
so no fraction is needed. A call is `Check` (clock read, call counted), the
two registries' sweeps when the counter says so, one `Take` per bucket, then
`Admit`, `NextGate`, or `Reject`, one `Cancel` per reservation, `Deny`. `registry.get`
and `ReserveN` are one step: between them no other call can do anything to a bucket
just seen except a sweep whose `now` is an `IdleTTL` later. The branch `!r.OK()`
of `Reserve` needs a burst below one, which `Validate` refuses, and is left out.

`admitted[b][t]` is history: how many checks that took from `b` were admitted with a clock of
at most `t`. `Left(b, s, t)` is what rate and burst leave of the window from `s` to `t` when
only those count; a bucket that is never refilled above its cap holds the least of them. The
properties compare the bucket with every window, from both sides. As the history is cumulative
no sum is taken over it, so that what the runs check can be proved as it stands.

### UICheck, CheckRequest, ClientKey and Timeouts

One request. `Receive` is `AuditCheck`, the mux and the handler up to the gates. A request
is read by two pieces of code: `CheckFields` is how the audit middleware looks for its
target, `Handle` how the handler of its route does. Each has its own idea of methods,
content types, body sizes and field names, and `CheckRequest` keeps them apart. Texts are
as they are after trimming; a port is good if it is in `Ports`, a timeout if `Durations` has it.

The gates charge `origin.key`. `Travel` carries a request through proxies, which append to
what the client wrote into the forwarded header, and `ClientIP` walks back.
`LastUntrusted` is the reference definition: it looks at the way, not at the header.

After the gates: discovery under the budget, `clampTimeout` on what is left, selection, the
loop of `CheckAll` with its semaphore, the goroutines, the answer, the audit event. Agents are
numbers in the order of their addresses. Ticks are half seconds, computing takes none; a
healthy agent answers within the timeout it was sent (as it normalises it). When discovery
returns in the last tick, `\div` cannot halve the rest any more; that point is left to the
error paths. What no later step reads (`origin` after the gates) is forgotten.

### AgentCheck

Several requests, each with a program counter, one zone whose records change at
any time. `Lookup` is what a lookup made now returns. A dial is one step with the outcomes
`DialRace` allows: some candidates tried, all of them if nobody was reached
and no context ended it; `denied` when the guard was hit and nobody reached.
`dialed` and `shaken` are history: the addresses that a connect of the
reachability dial, and of the handshake, went out to. The answer is settled and audited,
then counted, then written: three steps, as in the handlers. The policy is its two lists of
networks, a network the set of its addresses: deny wins, an empty allow list allows all, and
two empty lists are no policy, which is another path through the code. A scrape of
`/metrics` loads each counter on its own and changes nothing; `MetricsCoverAnswers` bounds
every counter in every state and so whatever a scrape may show.

### PgCheck

One check with a clock: discovery, `clampTimeout`, the agent's contexts (`limit`), the
reachability dial, pgconn's connect (TLS, startup, login), `SELECT 1`, the close under its own
context (`closing`), the answer, and the UI that waits until `Budget`. What a stage
of the server does is chosen in the initial state, when it does it is not. An error is
reduced to the three things `classifyConnectError` looks at. Text that imitates a TLS
error (`"tls:"` in a server's message) is left out. A step that takes no time (`Urgent`)
comes before the clock moves; at the same instant an answer and the end of the budget race.

### Serve and AuthFlow

`Serve` has one variable for where the `select` of `serveWithShutdown` is, the grace
period, and the requests in flight, which `AuthFlow` accepts and finishes. `Shutdown`
polls, so it may give up although the last request has just ended. What is in flight
at the exit is cut off. After it the process is started again, with any of `Blocks`:
`Start` if `LoadConfig` and `Validate` take the block, `StartFails` if they do not or if a
provider cannot be discovered.

A block is the record the YAML gives after the expansion of variables, so an unset variable
is an empty string. `AuthConfig` follows it through `LoadConfig` (defaults), `Validate`
(`ValidBrowser`, `ValidAPI`) to `Allowlist`, the entry the registry of `New` ends up with
for an id. Groups are sequences of path segments, so that `subtree` is a prefix.

`Claims` has the path from what a provider says of an account to a login and groups:
`Exchange` for a browser login, `BearerIdentity` for a token, each with its own mapping from
presets (`BrowserMapping`, `BearerMapping`) as in the code. The operators they share
(`ClaimString`, `ClaimStrings`) are shared there too.

The server keeps no state between requests, so `AuthFlow` is mostly about the browser:
`state` and `session` are its two cookies, `tab[t]` what a tab is waiting for. A
request carries the cookies as they were when it was sent. A response (`Reply`) says what it
does to each and is applied when it arrives, or lost; between the two anything may
happen. Handlers that never wait (login, logout) are one step, callbacks and pages are
requests in flight. A login's number stands for the random state and nonce minted for it.
A cookie opens only under the key it was sealed with. The provider issues a code for one
login and redeems it once (external). Callbacks that name no login of this browser, and
cookies that were not sealed by this server, fail in `readStateCookie` or at the
comparison and are left out. `OpenPage` may carry a bearer token beside the cookie;
`Admits` is the middleware's answer. `grants` is history: each session given, and whether
the block as written, read provider by provider, let the account in. So
`AdmittedIsEntitled` compares what the registry and the sealed cookies lead to with the
block itself.

## 3. Runs

| run | instance | shows |
|---|---|---|
| `pinned` | 4 literals (a repetition, one guarded), pool of 2, fair | type, ownership of connections, settled flag, exact failure, waiting only behind a full pool, refinement; every race ends with nothing left behind; a silent sibling is harmless |
| `named` | one name, 3 candidates, one guarded | guard, stragglers, causes of failure |
| `sequential` | 2 users, one target, global; one call at a time | all-or-nothing, exact `Retry-After`, refinement |
| `concurrent` | two postgres checks inside `Reserve` together, two limiters | never too many admitted, nothing for free |
| `overlap` | two calls, user and global | **violated**: a denied call burns no token |
| `evicted` | `IdleTTL` shorter than the refill | **violated**: the rate holds in the long run |
| `fanout` | requests of 36 shapes from 16 senders, up to 4 discovered agents, cap of 3, semaphore of 2, fair | what the audit log says of a check, whose bucket it is charged to, own result of each first-wave node, exact coverage, an answer |
| `second_wave` | 2 agents, semaphore of 1 | **violated**: every node's own result reaches the user |
| `pgcheck` | one postgres check, every server behaviour, fair clock | which results the end of the budget can replace, honest codes, no downgrade, when the agent is done, that everybody is |
| `auth` | 2 tabs, 2 providers, 2 accounts, a token, 5 blocks, restarts | where codes go, who is let in and on what grounds, one session per login, cookie and token agree, the exit status |
| `agent` | a tcp and a postgres request for one name, guard, nine pairs of lists | authorized addresses of tcp, report, guard, denial, counters, audit |
| `handshake` | as `agent`, one policy, a third address | **violated**: authorized addresses, with the handshake included |

The four violated runs each state what a comment or a document of the
repository says; `findings` in `PROJECT.json` quotes it. Each has a passing
neighbour that shows where the statement does hold: `sequential` for `overlap`,
`concurrent` for `evicted` (an `IdleTTL` that covers the refill), `FirstWaveReports` for
`second_wave`, `TcpDialsWhatWasAuthorized` for `handshake`.

Further disagreements were met while modelling and have no run:

- `auditPostgres` is "called for every postgres request that got past body validation"
  (`ui/checkhandlers.go:168-171`); `handleIndexPostgres` returns without an audit event
  when discovery fails or uses up the budget (`web.go:267`), so "every postgres request is
  audited" (`docs/configuration.md:369`) is not true of the form. `ChecksAreAudited` states
  what holds of both paths.
- `event=check` is "emitted for every `/api/check` and for `/` when a target is submitted"
  (`docs/configuration.md:694-695`). The middleware and the handlers read a request each in
  their own way, and `ChecksAreAudited` holds of requests as the documents show them
  (`AsDocumented`). A check that runs has no event if it is a `POST /` with the target in the
  query, a `PUT` or `PATCH` of the form, or a `POST /` whose body is over 64 KiB or not a form
  (the handler then takes the query). It has an event without host and port if it is
  an API call without the content type `application/json`, or one whose JSON object is followed
  by anything else. It has an event of another kind if `check=postgres` comes in the query with
  the rest in the body (audited as tcp), or while postgres is not enabled (audited as postgres,
  run as tcp). The handlers' own limit is "larger" (`audit.go:30-31`) than the peek: both are 64 KiB.
- "A disabled check's endpoint is not registered (404) and the web form hides it"
  (`docs/configuration.md:194`): with `postgres` alone enabled, `/api/check/tcp` is gone, but a
  form that does not select postgres is still a tcp check. `handleIndex` asks only whether
  postgres is enabled (`web.go:129-131`, `web.go:147-151`), and `HandleIndex` is the same.
- `ClientIP` takes "the rightmost address in the header that is not itself a trusted proxy"
  (`identity.go:40-42`), and skips what is no address on the way, as an obfuscated
  or unknown hop is; then the key is an entry further left. It reads one header line only.
  `identityKey` asks the general limiter for the address, so with that limiter off the
  postgres limiter keys on the proxy. The key of a user has the login without its provider.
- `validateAPI` compares pairs of issuer and audience as written (`config.go:376-381`), while
  `newAPIEntry` trims the issuer (`apitoken.go:66`): two entries that differ in a blank
  are one issuer, and the first wins. A group that names an unset variable is the empty path, which
  `subtree` takes for the parent of every group whose name begins with a slash.
- A hosted domain is asked of a browser login and not of a token of the same account:
  `SameIdentityBothWays` is stated of providers without one.
- The close after a login is not part of the timeout that `clampTimeout` keeps under the
  budget (`pgauth.go:98`, `server.go:223-225`). Should it take longer than the margin of a
  second, the user has a transport error for a check the agent audits as "ok":
  `LostOnlyToClose` says that this is the only way to lose a node's result to the budget.
- `isUnsupportedAuth` (`pgauth.go:206-209`) looks for "GSS", "kerberos" or "SSPI" in the whole
  text of the error, which names user and database (as in `pgauth_test.go:30`). With a user
  called `kerberos_sync` every failed connect, a refused one too, is `unsupported_auth`;
  hence the exemption in `CodeNamesTheCause`.
- `Result.Denied` is set "when the connect-time guard refused every address the dial
  attempted" (`probe.go:69-70`). `connect` sets it when *some* address is guarded and none
  connected (`dial.go:54`), also if the others were tried and merely refused:
  `FailureIsExact` states what the code does.
- "The state cookie is single-use regardless of the outcome below" (`auth.go:370`) is
  up to the browser: two callbacks in flight carry the same cookie, and a lost response
  leaves it in the jar. What makes a login single-use is the provider's code
  (`OneSessionPerLogin`). And as the cookie is cleared before the states are
  compared, the late callback of one tab's login also ends the login of another.
- State cookie and session cookie are sealed with one key and carry nothing that tells
  them apart (`auth.go:529-537`, `session.go:86-91`); the model keeps them in two places
  as the browser does.
- A postgres check that `allow` grants and `allowPostgres` denies keeps the tokens
  it took from the first limiter; the comments say "tripping one never spends
  tokens the other is tracking" (`ui/checkhandlers.go:76-77`, `ui/ratelimit.go:109-110`,
  `agent/ratelimit.go:53-54`). They are true of a denial by the *first* limiter only.
- `Reserve` reads `now` before it takes a bucket's lock (`ratelimit.go:197`). A call
  overtaken in between sets the bucket's `last` back, and the ticks between the two
  clocks are credited twice. The constant `TicksInCall` (the clock may advance
  while calls are in flight) is `FALSE` in every run for that reason: with `TRUE`
  even `LongRunRate` fails, by the duration for which the overtaken call was descheduled.

**Bounds.** `DialRace` needs a list longer than the pool, a repetition, a guarded
address and two that can both connect: four positions and two workers have all of
it, and the network's answers are chosen in the initial state. `RateLimiter` needs
two calls that share one bucket and differ in another, enough ticks for a refill
of one and not of the other, and a sweep: `MaxTime` 4 to 6, `MaxChecks` 5 to 12,
`MaxInFlight` 1 or 2 are the bounds in its guards. `UICheck` is bounded by
its budget of six ticks; three agents make two waves through a semaphore of two, and
the lists include one that is unsorted, longer than the cap and repeats an agent.
`AgentCheck` needs two requests for the counters and to tell the two kinds of check
apart in one state. In `agent` two addresses, one guarded, meet nine pairs of lists, so
each is allowed, denied, both or unlisted; `handshake` has a third one that its
policy does not list. `PgCheck` is in half seconds: a budget of 4s, a default longer than it and
two shorter timeouts, a close of up to 2s; no bound is needed, for the check ends (`TypeOK`
says when).

The requests of `fanout` are the documented ones, with three timeouts each, and 21 odd ones,
each of which the two readers take differently or the handler refuses; the senders write
nothing, an address, or an address, a text that is none and a trusted proxy into the header,
and come through no proxy, one or two, trusted or not. `second_wave` needs one sender and
three requests.

`AuthFlow` needs two logins for two providers (`MaxLogins` 2), two tabs to have two callbacks in
flight, and one step of the clock (`MaxTime` 1): every age is one tick, so what was set
before the step has expired after it. The five blocks are one with both sides (a github
provider with an organisation, an open google one with a hosted domain, a gitlab API entry with a
subtree), one with a user and without a provider of the first, one with another key, one for the
API only whose entry takes over the id of a provider, and one that `Validate` must refuse
because its ids collide. The token belongs to the account that has no verified address. The
tabs are symmetric.

**Fairness.** `DialRace`: weak fairness of each worker and of the collector
(goroutines that can run do). Nothing is assumed of the network: a silent address is
never over by itself. The timer of the deadline is a hypothesis of `Terminates`
(`TimerFires`) and not of `SlowSiblingHarmless`, which is about winning without it.
`UICheck`: weak fairness of the handler and of time; of discovery and of unhealthy
agents it is assumed only that their calls return once their context is done, which is
what `net.Resolver` and `http.Client` guarantee, and of a healthy agent that it answers
when due. `PgCheck`: weak fairness of the clock and of the timers; nothing of server and network,
so that `Ends` rests on the deadlines alone.

**Deadlock** is checked for `DialRace` (`Done` marks the one state where everything may
stop), `PgCheck` (likewise), for `AgentCheck` (where the zone can always change) and for `AuthFlow`
(where the process can always be started again). The clock-bounded
`RateLimiter` stops at `MaxTime`, and `UICheck` stops when its one request is answered.

## 4. Proofs

The modules named `*Proofs` hold theorems for every value of the constants that the
assumptions of the specification admit; TLC checks each of the properties on the instances
above, and each of them is stated here by the name the run knows it by. `theorems` in
`PROJECT.json` lists them. Every safety property that a passing run checks is also a theorem,
five of them for a limiter that is called one at a time (see below).

| module | theorems | rests on |
|---|---|---|
| `DialRaceProofs` | types, ownership, settled flag, guard, pool, exact failure, causes, refinement | `Accounting`, `Conclusions`; `Explored`, `Causal` |
| `RateLimiterProofs` | types; one call at a time: rate, free denials, nothing for free, exact `Retry-After`, refinement | `Shapes`, `Counted`; `Serial`, `Solvent`, `Ledger`, `Delays` |
| `UICheckProofs` | types, first wave, coverage, audit, whose bucket | `Asking`, `Timely` |
| `AgentCheckProofs` | types, guard, authorized addresses, report, denial, audit, counters | `Stages`; `Tally`, `Countable` |
| `PgCheckProofs` | types and deadlines, what is lost to the budget, codes | `InTime`, `Known` |
| `AuthFlowProofs` | types, codes go home, one session, entitlement, one identity, exit status | `Carried`, `Earned`, `Quiet` |

**DialRace.** From `HostsAssumption` (a non-empty finite list), `AddrsAssumption`
(every host has a set of candidates) and `CapAssumption` (the cap is positive). The
invariant of the proof is `Inv == TypeOK /\ Accounting /\ Conclusions /\ OneOwner`.
`OneOwner` is not inductive: that the collector closes a connection nobody else owns
follows only from where its outcome was. `Accounting` says it: a position that has
been handed to the pool is with exactly one worker, or exactly once in the channel, or
read, and the loop's counter `reads` is the number of positions read. Hence, when the
loop ends, all positions have been read, no worker has a job and the channel is empty
(`AllDialsSettled`, `OneConnectionEscapes`). `Conclusions` relates the winner and the
result to what was read. There is one lemma per action. `GuardHolds` adds `GuardInv`
(a candidate that is connecting has passed the hook, so no guarded address is among them).
`NobodyQueuesBelowCap` adds `PoolInv`: a worker leaves only when the list
is exhausted, and as two workers never hold the same position, fewer than the cap busy
workers means that one is free (an injection between finite sets).

`FailureTellsTheNetwork` needs to know what a race that ends without a winner has seen. `Explored`
says it of every candidate of every position handed out: it is still to be tried, or being
connected, or ruled out for the reason that applies to it (`Ruled`: the guard's flag is set, or
the network does not accept it), as long as no context has ended. That
no candidate of a *listed* host is missing is `UniqCovers`: `dedup` keeps the first position of each host
(`FirstPosition`). `Causal` follows an error from the dial through the channel to
`lastErr` (`ErrorsHaveCauses`).

`RaceImplementsVerdict` maps `Init` to the initial states of `ProbeVerdict` and every step to a step
or a stutter under the mapping `live <- open`; the steps in which a connection is dropped or released
use `Inv`.

**RateLimiter.** First, of `TokenBucket` for every integer: what `Level`, `ReserveToken` and
`CancelToken` return and bound (`LevelFacts`, `ReserveFacts`, `CancelFacts`). `TypeCorrect` holds without any
restriction: any number of callers in flight, through any number of limiters, ticks inside a
call or not. `Shapes` has the types with what each place of a call needs; `Counted` says that
the counter of a limiter and the callers that are at the one before it are together at most that one's counter,
so that the bound on the first holds of all.

The other five are theorems of the limiter under the hypothesis `OneAtATime`, which is what the run
`sequential` has: one call in flight, no tick inside it, one limiter per caller, and an `IdleTTL` that covers the
refill of a bucket that can be evicted. None of it can be dropped: two calls violate
`DeniedBurnsNothing` (`overlap`), a shorter `IdleTTL` the rate (`evicted`). `Serial` says what the call at
work has taken so far. `Solvent`: each of its reservations can be given back in full (the
bucket has not moved since, its event is the last, restoring it stays within the cap), and with what is held a
bucket is never in debt. So a cancel puts back exactly what `Take` took, lazily, at the same instant, and
`Real(b) + Pending(b)` is left alone by every step except `Admit` (one token per bucket) and `Tick` (one tick,
up to the cap): `StepIsAtomic`, hence `AdmissionIsAtomic`. `Ledger` is the balance of that level against the history:
it is at most what any window leaves, and for some window no less (`Balanced`). `Tick` moves
the end of every window and opens one, `Admit` charges all of them. `RateHolds`, `DenialsAreFree` and
`NothingIsFree` follow, and with `Delays` (the longest wait of the buckets taken so far, and which of them it is)
so does `RetryAfterIsExact`.

**UICheck.** `TimeoutsProofs` has the arithmetic: for every timeout a user may ask for and every rest of a budget of which more
than a tick is left, what `clampTimeout` sends and `NormalizeTimeout` makes of it ends before the
budget does (`ClampUnderBudget`, `NormalizeShortens`). `FirstWaveIsHeard` follows with `Timely`:
the first agents start in the instant of the clamp, and the clock does not pass an answer that is due.
`CoverageHolds` rests on `SelectFacts`: the places entries take in the order of addresses are a bijection
(`PlaceIsBijective`), so sorting neither loses nor doubles an agent and the cap cuts at the end.
`ClientIsCharged` rests on `ClientIsFound`, for any header and any number of proxies: the last address in
the header that is no trusted proxy's is the last party on the way that is none (`LastPosition`). `NothingUnseen` rests on
`BothReadTheSame`, by cases over path, method and content type: audit and handler agree on every request that is
`AsDocumented`, which is a hypothesis of the property and not of the theorem. `Asking` ties the phase of a request to
what is known of it. `ConfigAssumption` says that a client is no trusted proxy of its own request.

**AgentCheck.** From `RequestAssumption` and `ConfigAssumption`, for any number of
concurrent requests. `GuardHolds` is inductive with the types. Four of the others rest on
`Stages`, which says what holds of one request by the place its handler has reached:
nothing is dialed before the policy was asked and nothing shaken before the dial is over
(`Contacts`), at the dial the pinned addresses are the vetted and reported ones (`Authorized`),
nothing is audited before the answer is settled and afterwards the audit is the answer
(`Answers`). A handler changes its own request only (`OthersKeep`), so each part has one
step lemma over the actions of one request. That the policy is read once, at startup,
is `PolicyKeeps`; nothing else about the lists is needed, so the proofs hold of any
meaning they may have. `MetricsAreCurrent` counts: each counter is the size of the set of requests
that were counted for it (`Tally`, one element more at each count), and an answer about to be counted has
a status that a counter stands for (`Countable`).

**PgCheck.** From `PgAssumption`, for every budget, set of timeouts and `CloseTimeout`. `InTime` bounds the clock by the
stage: up to the end of the query by the agent's own deadline, which lies before the end of the budget, then by the
close's. So a result can be late only after a session was opened (`OnlyTheCloseIsLate`). `Known` says what a stage implies of the
server (a query only after a login it accepted, under TLS if that was asked for); `CodesAreTrue` follows with
`ClassifyFacts`.

**AuthFlow.** From `AuthAssumption` (the blocks are well-formed, durations positive) for all blocks, accounts,
tokens and tabs. `Carried` says of everything on its way, in a jar or a request or a response, where it comes from: a
state cookie names the provider its login was started with, a session cookie is one that was
granted, an exchange has a code of its own login. `Earned` says of every grant that the account was entitled to it and
that its login is redeemed, so that a second one for it cannot be (`OneSession`). Entitlement joins the two ways to read a block:
`OneEntryPerId`, `ProviderListEntitles` and their like show, of each block `Validate` accepts, that the allowlist the
registry ends up with for an id is that of the one entry that has the id as written. `OneIdentity` goes through the
presets. `Quiet` (no process, nothing in flight) gives `ExitIsTruthful`, an action property.

Data are not proved about by induction. Where a definition searches a list, the proof takes the first or the last position
with a property, which a non-empty set of positions has (`Positions`); sums are counters of the history.

**Only model-checked.** Liveness (`Terminates`, `SlowSiblingHarmless`, `Responds`, `Ends`; the prover has no rules for
fairness and `ENABLED`). The rate limiter with several calls in flight, with two limiters in a row, or with ticks inside a call:
`WithinRate` and `NothingForFree` of `concurrent`. There a rollback meets reservations made after its
own, gives back only part of its token, or more than a token when `lastEvent` was set back by a later call. What a bucket has lost to earlier rollbacks must
cover that excess, a sum over all reservations in flight of `act - lastEvent` where it is positive; a sum over
a set is an inductive definition, which cannot be proved about here. And the four properties that the code violates, which need no more than their counterexample.

## 5. Not modelled

- HTML, i18n, branding, version, charts: functions of their input, reached by unit tests.
- The characters of a request: JSON, form and duration syntax, trimming. `CheckRequest`
  begins where a body has been found to be JSON, a form or neither.
- The server's version, latencies, the text of reasons, the events `audit` has for drops.
- Callback URLs and redirects derived from the request's host (`redirectHostAllowed`), the
  `Secure` attribute of cookies, their sealing, the pages of login and denial.
- The protocol clients of the identity providers: token endpoints, key sets and their
  15 seconds, the nonce. A token's signature is taken to be its issuer's.
- Flags of the commands other than the auth block, the parsing of CIDRs, proxies, agent
  lists and `--enabled-checks`: read once, before anything runs.
- Which identity a check event names: it is put into the request's context and read from it.

## 6. Plan

1. Done: `DialRace`, `AgentCheck`, `RateLimiter`, `UICheck` with `CheckRequest` and `ClientKey`, `PgCheck`,
   `Serve` and `AuthFlow` with `AuthConfig` and `Claims`, each with its proofs.
2. Proofs: `NothingForFree` and `WithinRate` with two calls in flight, as in `concurrent`, where the excess
   above has two terms and needs no sum, and with it the second limiter.
3. Callbacks derived from the request's host, for several hosts in one browser.
