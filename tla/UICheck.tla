------------------------------ MODULE UICheck -------------------------------
(***************************************************************************)
(* One request to the UI: how it is audited, routed and read, and then the *)
(* check it asks for: the rate-limit gates and the key they charge,        *)
(* discovery under the shared budget, the cap on agents, the clamp of the  *)
(* per-agent timeout, the fan-out through the semaphore, the outcome's     *)
(* audit event.  It covers the JSON API and the web form, tcp and postgres.*)
(*                                                                         *)
(* Time is in ticks from the start of the budget.  Computing takes no      *)
(* time; only discovery and the agents do.                                 *)
(***************************************************************************)
EXTENDS Timeouts, CheckRequest, ClientKey

CONSTANTS
    Agents,              \* agent addresses, as integers in the order of Addr
    Lists,               \* what discovery can return: sequences of Agents
    Requests,            \* requests that may arrive: see CheckRequest
    Senders,             \* who sends them: user ("" if not signed in), client, what it
                         \* wrote into the forwarded header, hops
    Budget,              \* s.timeout
    MaxAgentsPerCheck,   \* 0: unlimited
    MaxConcurrentFanout, \* 0: unlimited
    EnabledChecks        \* a subset of {"tcp", "postgres"}

(* An empty answer of the resolver is an error, not a list. *)
Discoverable == Seq(Agents) \ {<<>>}

(* Validate refuses negative limits; 0 means unlimited. *)
ValidFanout == {MaxAgentsPerCheck, MaxConcurrentFanout} \subseteq Nat

ASSUME AgentsAssumption == Agents \subseteq Nat /\ Lists \subseteq Discoverable
ASSUME ConfigAssumption ==
    /\ Budget \in Nat \ {0} /\ Range(Durations) \subseteq Nat /\ ValidFanout
    /\ EnabledChecks \subseteq {"tcp", "postgres"}
    /\ \A s \in Senders : /\ s.client \in Addresses \ Proxies
                         /\ s.hops \in Seq(Addresses) /\ s.written \in Seq(STRING)

VARIABLES
    req,        \* the request: as it arrived, then the check it asks for
    origin,     \* until the gates are passed: who sent it, what the audit log says
                \* of it, the key the gates charge
    healthy,    \* the agents that are up
    phase,      \* "receive", "gate", "pgGate", "discover", "fanout" or "done"
    clock,      \* ticks since runCheck started
    ctx,        \* "live", "expired" (the budget) or "gone" (the client)
    found,      \* the agents discovery returned
    selected,   \* the agents to query
    timeout,    \* the per-agent timeout sent with the check
    spawned,    \* iterations of CheckAll's loop
    started,    \* started[i]: when agent i's goroutine began
    results,    \* results[i]: "none", then "ok", "fail" (reported by the node) or "error"
    audit,      \* outcomes of the postgres_check audit events
    status      \* HTTP status of the response (0: none yet)

vars == <<req, origin, healthy, phase, clock, ctx, found, selected, timeout, spawned, started,
          results, audit, status>>
fanoutVars == <<found, selected, timeout, spawned, started, results>>

Init ==
    /\ req \in Requests
    /\ origin \in Senders
    /\ healthy \in SUBSET Agents
    /\ phase = "receive"
    /\ clock = 0
    /\ ctx = "live"
    /\ found = <<>>
    /\ selected = <<>>
    /\ timeout = 0
    /\ spawned = 0
    /\ started = <<>>
    /\ results = <<>>
    /\ audit = <<>>
    /\ status = 0

-----------------------------------------------------------------------------
Gone == [gone |-> TRUE]

Asked == phase # "receive" /\ req.status = 0

(* Requests as the documentation shows them: a link, a submitted form (which
   offers the postgres check only where it is enabled), a JSON call, and no
   larger than the limit. *)
AsDocumented(r) ==
    \/ r.method = "GET" /\ r.path = IndexPath
    \/ r.method = "POST" /\ r.path = IndexPath /\ r.contentType = "form" /\ DOMAIN r.query = {}
          /\ r.body.size = "small"
          /\ (Get(r.body.fields, "check") = "postgres" => "postgres" \in EnabledChecks)
    \/ r.method = "POST" /\ r.path # IndexPath /\ r.contentType = "json"
          /\ r.body.size = "small"

(* AuditCheck, then the mux and the handler up to the gates: nothing in it
   waits.  identityKey is evaluated by every gate, with the same result. *)
Receive ==
    /\ phase = "receive"
    /\ LET check   == Handle(req, EnabledChecks)
           arrived == Travel(origin.client, origin.written, origin.hops)
       IN  /\ req' = check
           /\ IF check.status = 0
              THEN /\ phase' = "gate"
                   /\ status' = 0
                   /\ origin' = [sender  |-> [user |-> origin.user,
                                             party |-> LastUntrusted(origin.client, origin.hops)],
                                 key     |-> IdentityKey(origin.user, arrived),
                                 plain   |-> AsDocumented(req),
                                 targets |-> AuditTargets(req)]
              ELSE /\ phase' = "done"
                   /\ status' = check.status
                   /\ origin' = Gone
    /\ UNCHANGED <<healthy, clock, ctx, fanoutVars, audit>>

Respond(code, outcome) ==
    /\ phase' = "done"
    /\ status' = code
    /\ origin' = Gone
    /\ audit' = IF req.kind = "postgres" /\ outcome # "none" THEN Append(audit, outcome) ELSE audit
    /\ UNCHANGED <<req, healthy, clock, ctx>>

Proceed(to) ==
    /\ phase' = to
    /\ origin' = IF to = "discover" THEN Gone ELSE origin
    /\ UNCHANGED <<req, healthy, clock, ctx, fanoutVars, audit, status>>

(* allow: the general limiter; allowPostgres: the one for postgres only. *)
Allow ==
    /\ phase = "gate"
    /\ Proceed(IF req.kind = "postgres" THEN "pgGate" ELSE "discover")

AllowPostgres == phase = "pgGate" /\ Proceed("discover")

Throttle ==
    /\ phase \in {"gate", "pgGate"}
    /\ Respond(429, "throttled")
    /\ UNCHANGED fanoutVars

(* Discovery failed, or the budget was gone when it returned.  The form
   renders the error itself and its caller stops there. *)
NoFanout(code) ==
    /\ IF req.via = "form" THEN Respond(400, "none") ELSE Respond(code, "error")
    /\ UNCHANGED fanoutVars

DiscoveryFails ==
    /\ phase = "discover"
    /\ NoFanout(IF ctx = "live" THEN 502 ELSE 504)

DiscoveryLate ==
    /\ phase = "discover" /\ ctx # "live"
    /\ NoFanout(504)

-----------------------------------------------------------------------------
(* Mutant of SelectAgents: the first agents in discovery's order. *)
SelectUnsorted(list, max) ==
    IF max <= 0 \/ Len(list) <= max THEN list ELSE SubSeq(list, 1, max)

(* The list sorted by Addr: the place of an entry is the number of those
   that do not come after it. *)
Place(list, i) ==
    Cardinality({j \in DOMAIN list : list[j] < list[i] \/ (list[j] = list[i] /\ j <= i)})

ByAddr(list) == [k \in DOMAIN list |-> list[CHOOSE i \in DOMAIN list : Place(list, i) = k]]

(* selectAgents: beyond the cap, the first ones by Addr. *)
SelectAgents(list, max) ==
    IF max <= 0 \/ Len(list) <= max THEN list ELSE SubSeq(ByAddr(list), 1, max)

(* Mutant of Discovered: the clamp looks at the original budget. *)
DiscoveredFullBudget(list) ==
    /\ phase = "discover" /\ ctx = "live"
    /\ Budget - clock > 1
    /\ phase' = "fanout"
    /\ found' = list
    /\ selected' = SelectAgents(list, MaxAgentsPerCheck)
    /\ timeout' = ClampTimeout(req.timeout, Budget)
    /\ started' = [i \in DOMAIN selected' |-> 0]
    /\ results' = [i \in DOMAIN selected' |-> "none"]
    /\ UNCHANGED <<req, origin, healthy, clock, ctx, spawned, audit, status>>

(* Granularity: discovery that returns in the last tick of the budget,
   whose rest \div cannot halve, is left to the error paths. *)
Discovered(list) ==
    /\ phase = "discover" /\ ctx = "live"
    /\ Budget - clock > 1
    /\ phase' = "fanout"
    /\ found' = list
    /\ selected' = SelectAgents(list, MaxAgentsPerCheck)
    /\ timeout' = ClampTimeout(req.timeout, Budget - clock)
    /\ started' = [i \in DOMAIN selected' |-> 0]
    /\ results' = [i \in DOMAIN selected' |-> "none"]
    /\ UNCHANGED <<req, origin, healthy, clock, ctx, spawned, audit, status>>

Slots   == DOMAIN selected
(* Mutant of Running: a goroutine whose check failed never leaves. *)
RunningStuck == {i \in 1..spawned : results[i] \in {"none", "error"}}

Running == {i \in 1..spawned : results[i] = "none"}

(* sem is built only when it would bound anything. *)
SlotFree ==
    \/ MaxConcurrentFanout = 0 \/ MaxConcurrentFanout >= Len(selected)
    \/ Cardinality(Running) < MaxConcurrentFanout

(* Mutant of CanSpawn: one iteration too many. *)
CanSpawnExtra == phase = "fanout" /\ spawned <= Len(selected) /\ SlotFree

CanSpawn == phase = "fanout" /\ spawned < Len(selected) /\ SlotFree

(* One iteration of the loop: it waits for a slot, not for ctx. *)
Spawn ==
    /\ CanSpawn
    /\ spawned' = spawned + 1
    /\ started' = [started EXCEPT ![spawned'] = clock]
    /\ UNCHANGED <<req, origin, healthy, phase, clock, ctx, found, selected, timeout, results, audit,
                   status>>

CheckOneReturns(i, r) ==
    /\ phase = "fanout" /\ i \in Running
    /\ results' = [results EXCEPT ![i] = r]
    /\ UNCHANGED <<req, origin, healthy, phase, clock, ctx, found, selected, timeout, spawned, started,
                   audit, status>>

(* A healthy agent reports on the target within the timeout it was sent. *)
Due(i) == started[i] + NormalizeTimeout(timeout)

AgentAnswers(i, r) ==
    /\ ctx = "live" /\ selected[i] \in healthy
    /\ CheckOneReturns(i, r)

(* Anything else ends in the Error field: an agent that is down, or the
   end of the context under the request. *)
TransportError(i) ==
    /\ ctx # "live" \/ selected[i] \notin healthy
    /\ CheckOneReturns(i, "error")

FanoutDone == phase = "fanout" /\ spawned = Len(selected) /\ Running = {}

Answer ==
    /\ FanoutDone
    /\ Respond(200, "completed")
    /\ UNCHANGED fanoutVars

-----------------------------------------------------------------------------
CtxEnds(cause) ==
    /\ phase \in {"discover", "fanout"} /\ ctx = "live"
    /\ ctx' = cause
    /\ UNCHANGED <<req, origin, healthy, phase, clock, fanoutVars, audit, status>>

BudgetExpires == clock = Budget /\ CtxEnds("expired")
ClientGone    == CtxEnds("gone")

Tick ==
    /\ phase \in {"discover", "fanout"} /\ ctx = "live" /\ clock < Budget
    /\ ~CanSpawn /\ ~FanoutDone
    /\ \A i \in Running : selected[i] \in healthy => clock < Due(i)
    /\ clock' = clock + 1
    /\ UNCHANGED <<req, origin, healthy, phase, ctx, fanoutVars, audit, status>>

Next ==
    \/ Receive \/ Allow \/ AllowPostgres \/ Throttle
    \/ DiscoveryFails \/ DiscoveryLate
    \/ \E list \in Lists : Discovered(list)
    \/ Spawn
    \/ \E i \in Slots : \/ \E r \in {"ok", "fail"} : AgentAnswers(i, r)
                        \/ TransportError(i)
    \/ Answer
    \/ BudgetExpires \/ ClientGone
    \/ Tick

Spec == Init /\ [][Next]_vars

(* The handler's goroutines run, time passes and the budget's timer fires;
   of discovery and the agents it is only assumed that a context that is
   done ends their calls and that a healthy agent answers when it is due. *)
Handler ==
    \/ Receive \/ Allow \/ AllowPostgres \/ Throttle
    \/ ctx # "live" /\ (DiscoveryFails \/ DiscoveryLate)
    \/ Spawn \/ Answer \/ BudgetExpires
    \/ \E i \in Slots : \/ ctx # "live" /\ TransportError(i)
                        \/ clock = Due(i) /\ AgentAnswers(i, "fail")

FairSpec == Spec /\ WF_vars(Handler) /\ WF_vars(Tick)

-----------------------------------------------------------------------------
TypeOK ==
    /\ IF phase = "receive" THEN req \in Requests
       ELSE req.status = 0 => req.kind \in {"tcp", "postgres"} /\ req.timeout \in Nat
    /\ healthy \subseteq Agents
    /\ phase \in {"receive", "gate", "pgGate", "discover", "fanout", "done"}
    /\ clock \in 0..Budget
    /\ ctx \in {"live", "expired", "gone"}
    /\ found \in Seq(Agents) /\ selected \in Seq(Agents)
    /\ timeout \in Nat
    /\ spawned \in 0..Len(selected)
    /\ started \in [Slots -> 0..Budget]
    /\ results \in [Slots -> {"none", "ok", "fail", "error"}]
    /\ audit \in Seq({"throttled", "error", "completed"})
    /\ status \in {0, 200, 400, 404, 405, 429, 502, 504}

(* Every healthy agent's own result reaches the user: the per-agent timeout
   is so far under the budget that no per-node result is replaced by a
   transport error (clampTimeout, runCheck). *)
Reports(i) == ctx # "gone" /\ selected[i] \in healthy => results[i] # "error"

NodeReportsItself == \A i \in Slots : Reports(i)

(* The same for the agents that did not have to wait for a slot. *)
FirstWaveReports == \A i \in 1..spawned : started[i] = started[1] => Reports(i)

(* A 200 carries one result per queried agent, and the agents queried are
   the first ones by address however discovery ordered them: nothing is
   dropped in favour of a later one. *)
CoverageIsExact ==
    Asked /\ status = 200 =>
        LET kept    == IF MaxAgentsPerCheck = 0 THEN Len(found)
                       ELSE IF Len(found) < MaxAgentsPerCheck THEN Len(found) ELSE MaxAgentsPerCheck
            In(s, a) == Cardinality({i \in DOMAIN s : s[i] = a})
        IN  /\ Len(selected) = kept
            /\ \A i \in Slots : results[i] # "none"
            /\ \A a, b \in Agents : a < b /\ In(selected, b) > 0 => In(selected, a) = In(found, a)

(* No check goes unseen.  Whatever comes to the gates in a form that the
   documentation shows has had exactly one check event, which names the
   target and the kind of check the handler has read (AuditCheck, which
   reads the request on its own).  Every postgres request of the JSON API
   past validation has exactly one postgres_check event with the outcome the
   client was told (auditPostgres); no request has two. *)
ChecksAreAudited ==
    /\ phase \in {"gate", "pgGate"} /\ origin.plain =>
          origin.targets = {[host |-> req.host, port |-> req.port, proto |-> req.kind]}
    /\ Asked /\ phase = "done" /\ req.kind = "postgres" =>
          /\ Len(audit) <= 1
          /\ req.via = "api" =>
                audit = <<CASE status = 429 -> "throttled" [] status = 200 -> "completed"
                            [] OTHER -> "error">>

(* The gates charge who asked: the user who is signed in, or else the last
   party on the way that no trusted proxy vouches for -- the client itself
   behind trusted proxies only -- whatever was written into the forwarded
   header before (identityKey, ClientIP). *)
KeyIsTheClient ==
    phase \in {"gate", "pgGate"} =>
        origin.key = IF origin.sender.user # "" THEN <<"user", origin.sender.user>>
                     ELSE <<"ip", origin.sender.party>>

(* Every request is answered, whatever discovery and the agents do. *)
Responds == <>(phase = "done")
=============================================================================
