----------------------------- MODULE AgentCheck -----------------------------
(***************************************************************************)
(* The agent's check endpoints, from the HTTP request to the response:     *)
(* admission, the two rate-limit gates, the connection policy              *)
(* (resolveTarget), the runners of internal/probe, the metrics and the     *)
(* audit event.  Requests are served concurrently.                         *)
(*                                                                         *)
(* The DNS answers for a name may change between any two lookups: a        *)
(* round-robin or a record update.  A dial is one step, with the outcomes  *)
(* DialRace allows; the limiters are RateLimiter, so a gate may refuse any *)
(* request here.  The pgconn handshake is external: it resolves the name   *)
(* it is given and dials through the DialFunc of guardedDial.              *)
(***************************************************************************)
EXTENDS Naturals, FiniteSets, Sequences

CONSTANTS
    Request,     \* requests
    Ip,          \* addresses
    Name,        \* host names
    NoIp,        \* "no address"
    Kind,        \* Kind[r]: "tcp" or "postgres"
    Host,        \* Host[r]: the requested host, a Name or a literal Ip
    EnabledChecks,
    Policies,    \* the configurations of the allow and deny lists
    Guarded      \* the addresses of the DenyGuard ({}: AllowMetadata)

ASSUME RequestAssumption ==
    /\ Kind \in [Request -> {"tcp", "postgres"}]
    /\ Host \in [Request -> Name \cup Ip]
    /\ Name \cap Ip = {} /\ NoIp \notin Name \cup Ip
ASSUME ConfigAssumption ==
    /\ EnabledChecks \subseteq {"tcp", "postgres"} /\ EnabledChecks # {}
    /\ Policies \subseteq [allow : SUBSET SUBSET Ip, deny : SUBSET SUBSET Ip]
    /\ Guarded \subseteq Ip

VARIABLES
    policy,     \* the networks of the allow list and of the deny list
    form,       \* what is wrong with a request: "token", "method", "body" or "fine"
    records,    \* records[n]: the addresses n resolves to ({}: the lookup fails)
    cut,        \* requests whose context is done
    pc,         \* where the handler of a request is
    dialHosts,  \* the vetted addresses ({}: nil, the name itself is dialed)
    dns,        \* the addresses reported in Result.DNS
    dialed,     \* history: addresses of the reachability dial a connect reached
    shaken,     \* history: addresses the handshake connected to
    result,     \* what the runner found: "none", "ok", "fail" or "denied"
    metrics,    \* the counters of /metrics
    audit,      \* audit[r]: outcomes of its postgres_check events
    status      \* the HTTP status decided for the response (0: none yet)

vars == <<policy, form, records, cut, pc, dialHosts, dns, dialed, shaken, result, metrics, audit,
          status>>
world == <<policy, form, records, cut>>

Counters == {"ok", "fail", "denied", "bad_request", "throttled"}

Init ==
    /\ policy \in Policies
    /\ form \in [Request -> {"token", "method", "body", "fine"}]
    /\ records \in [Name -> SUBSET Ip]
    /\ cut = {}
    /\ pc = [r \in Request |-> "admit"]
    /\ dialHosts = [r \in Request |-> {}]
    /\ dns = [r \in Request |-> {}]
    /\ dialed = [r \in Request |-> {}]
    /\ shaken = [r \in Request |-> {}]
    /\ result = [r \in Request |-> "none"]
    /\ metrics = [c \in Counters |-> 0]
    /\ audit = [r \in Request |-> <<>>]
    /\ status = [r \in Request |-> 0]

-----------------------------------------------------------------------------
(* What a lookup of the host of r yields now: a literal is itself, and a
   lookup whose context is done yields nothing. *)
Lookup(r) ==
    IF Host[r] \in Ip THEN {Host[r]} ELSE IF r \in cut THEN {} ELSE records[Host[r]]

Goto(r, to) ==
    /\ pc' = [pc EXCEPT ![r] = to]
    /\ UNCHANGED <<metrics, audit, status>>

(* The handler settles the answer and audits it (a postgres outcome other
   than "none"); it then counts it and writes it to the client. *)
Respond(r, code, outcome) ==
    /\ audit' = IF Kind[r] = "postgres" /\ outcome # "none"
                THEN [audit EXCEPT ![r] = Append(@, outcome)] ELSE audit
    /\ status' = [status EXCEPT ![r] = code]
    /\ pc' = [pc EXCEPT ![r] = "count"]
    /\ UNCHANGED metrics

(* The mux, requireToken and requireMethod: nothing is counted. *)
TurnedAway(r) ==
    IF Kind[r] \notin EnabledChecks THEN 404
    ELSE IF form[r] = "token" THEN 401 ELSE IF form[r] = "method" THEN 405 ELSE 0

TurnAway(r) ==
    /\ pc[r] = "admit" /\ TurnedAway(r) # 0
    /\ status' = [status EXCEPT ![r] = TurnedAway(r)]
    /\ pc' = [pc EXCEPT ![r] = "write"]
    /\ UNCHANGED <<world, dialHosts, dns, dialed, shaken, result, metrics, audit>>

(* Mutant of BadRequest: a body that does not validate is audited. *)
BadRequestAudited(r) ==
    /\ pc[r] = "admit" /\ TurnedAway(r) = 0 /\ form[r] = "body"
    /\ Respond(r, 400, "bad_request")
    /\ UNCHANGED <<world, dialHosts, dns, dialed, shaken, result>>

BadRequest(r) ==
    /\ pc[r] = "admit" /\ TurnedAway(r) = 0 /\ form[r] = "body"
    /\ Respond(r, 400, "none")
    /\ UNCHANGED <<world, dialHosts, dns, dialed, shaken, result>>

Admit(r) ==
    /\ pc[r] = "admit" /\ TurnedAway(r) = 0 /\ form[r] = "fine"
    /\ Goto(r, "gate")
    /\ UNCHANGED <<world, dialHosts, dns, dialed, shaken, result>>

(* allow gates every check, allowPostgres a postgres check once more. *)
Allow(r) ==
    /\ pc[r] \in {"gate", "pgGate"}
    /\ Goto(r, IF pc[r] = "gate" /\ Kind[r] = "postgres" THEN "pgGate" ELSE "resolve")
    /\ UNCHANGED <<world, dialHosts, dns, dialed, shaken, result>>

Throttle(r) ==
    /\ pc[r] \in {"gate", "pgGate"}
    /\ Respond(r, 429, "throttled")
    /\ UNCHANGED <<world, dialHosts, dns, dialed, shaken, result>>

-----------------------------------------------------------------------------
(* Policy.Allowed: deny wins, and no allow list allows all. *)
Restricted == policy.allow # {} \/ policy.deny # {}
Denied     == UNION policy.deny
Permitted  == (IF policy.allow = {} THEN Ip ELSE UNION policy.allow) \ Denied

(* Mutant of Vetted: one permitted address is enough. *)
VettedAny(r) == Lookup(r) \cap Permitted # {}

(* resolveTarget with a policy: every resolved address is permitted, and a
   name that does not resolve is not. *)
Vetted(r) == Lookup(r) # {} /\ Lookup(r) \subseteq Permitted

Refuse(r) ==
    /\ pc[r] = "resolve"
    /\ Restricted /\ ~Vetted(r)
    /\ Respond(r, 403, "denied")
    /\ UNCHANGED <<world, dialHosts, dns, dialed, shaken, result>>

(* Mutant of Pin: the vetted addresses are forgotten, the name is dialed. *)
PinNothing(r) ==
    /\ pc[r] = "resolve"
    /\ Restricted /\ Vetted(r)
    /\ dns' = [dns EXCEPT ![r] = Lookup(r)]
    /\ Goto(r, "dial")
    /\ UNCHANGED <<world, dialHosts, dialed, shaken, result>>

Pin(r) ==
    /\ pc[r] = "resolve"
    /\ Restricted /\ Vetted(r)
    /\ dialHosts' = [dialHosts EXCEPT ![r] = Lookup(r)]
    /\ dns' = [dns EXCEPT ![r] = Lookup(r)]
    /\ Goto(r, "dial")
    /\ UNCHANGED <<world, dialed, shaken, result>>

(* Without a policy connect reports a lookup of its own. *)
Report(r) ==
    /\ pc[r] = "resolve" /\ ~Restricted
    /\ dns' = [dns EXCEPT ![r] = Lookup(r)]
    /\ Goto(r, "dial")
    /\ UNCHANGED <<world, dialHosts, dialed, shaken, result>>

Candidates(r) == IF dialHosts[r] = {} THEN Lookup(r) ELSE dialHosts[r]

(* connect: some candidates are tried, all of them unless one is reached or
   the context ends the race; a guarded one is never reached.  The winner is
   closed at once. *)
Dial(r) ==
    \E tried \in SUBSET Candidates(r) : \E ip \in (tried \ Guarded) \cup {NoIp} :
        /\ pc[r] = "dial"
        /\ ip = NoIp /\ r \notin cut => tried = Candidates(r)
        /\ dialed' = [dialed EXCEPT ![r] = tried \ Guarded]
        /\ result' = [result EXCEPT ![r] =
               IF ip # NoIp THEN "ok" ELSE IF tried \cap Guarded # {} THEN "denied" ELSE "fail"]
        /\ Goto(r, IF Kind[r] = "postgres" /\ ip # NoIp THEN "handshake" ELSE "report")
        /\ UNCHANGED <<world, dialHosts, dns, shaken>>

(* Mutant of Handshake: a candidate the guard refuses makes a failed login
   a denial (the hit flag of guardedDial is used instead of discarded). *)
HandshakeDenies(r) ==
    \E ips \in SUBSET (Lookup(r) \ Guarded) : \E auth \in {"ok", "fail"} :
        /\ pc[r] = "handshake"
        /\ auth = "ok" => ips # {}
        /\ shaken' = [shaken EXCEPT ![r] = ips]
        /\ result' = [result EXCEPT ![r] =
               IF auth = "fail" /\ Lookup(r) \cap Guarded # {} THEN "denied" ELSE auth]
        /\ Goto(r, "report")
        /\ UNCHANGED <<world, dialHosts, dns, dialed>>

(* Mutant of Handshake: a plain dialer, without the Control hook. *)
HandshakeUnguarded(r) ==
    \E ips \in SUBSET Lookup(r) : \E auth \in {"ok", "fail"} :
        /\ pc[r] = "handshake"
        /\ auth = "ok" => ips # {}
        /\ shaken' = [shaken EXCEPT ![r] = ips]
        /\ result' = [result EXCEPT ![r] = auth]
        /\ Goto(r, "report")
        /\ UNCHANGED <<world, dialHosts, dns, dialed>>

(* pgauth's Probe: pgconn looks host up again and dials the addresses it
   finds through the guard; whatever fails on the way is a result, never a
   denial. *)
Handshake(r) ==
    \E ips \in SUBSET (Lookup(r) \ Guarded) : \E auth \in {"ok", "fail"} :
        /\ pc[r] = "handshake"
        /\ auth = "ok" => ips # {}
        /\ shaken' = [shaken EXCEPT ![r] = ips]
        /\ result' = [result EXCEPT ![r] = auth]
        /\ Goto(r, "report")
        /\ UNCHANGED <<world, dialHosts, dns, dialed>>

(* Mutant of Deny: the denial of the guard is not audited. *)
DenySilent(r) ==
    /\ pc[r] = "report" /\ result[r] = "denied"
    /\ Respond(r, 403, "none")
    /\ UNCHANGED <<world, dialHosts, dns, dialed, shaken, result>>

Deny(r) ==
    /\ pc[r] = "report" /\ result[r] = "denied"
    /\ Respond(r, 403, "denied")
    /\ UNCHANGED <<world, dialHosts, dns, dialed, shaken, result>>

Complete(r) ==
    /\ pc[r] = "report" /\ result[r] # "denied"
    /\ Respond(r, 200, result[r])
    /\ UNCHANGED <<world, dialHosts, dns, dialed, shaken, result>>

CounterOf(r) ==
    CASE status[r] = 400 -> "bad_request"
      [] status[r] = 403 -> "denied"
      [] status[r] = 429 -> "throttled"
      [] status[r] = 200 -> result[r]

(* Mutant of Count: the answer goes out before it is counted. *)
CountLate(r) ==
    /\ pc[r] \in {"count", "done"} /\ status[r] \in {200, 400, 403, 429}
    /\ metrics' = IF pc[r] = "done" THEN [metrics EXCEPT ![CounterOf(r)] = @ + 1] ELSE metrics
    /\ pc' = [pc EXCEPT ![r] = IF pc[r] = "done" THEN "counted" ELSE "write"]
    /\ UNCHANGED <<world, dialHosts, dns, dialed, shaken, result, audit, status>>

Count(r) ==
    /\ pc[r] = "count"
    /\ metrics' = [metrics EXCEPT ![CounterOf(r)] = @ + 1]
    /\ pc' = [pc EXCEPT ![r] = "write"]
    /\ UNCHANGED <<world, dialHosts, dns, dialed, shaken, result, audit, status>>

Write(r) ==
    /\ pc[r] = "write"
    /\ Goto(r, "done")
    /\ UNCHANGED <<world, dialHosts, dns, dialed, shaken, result>>

-----------------------------------------------------------------------------
(* The zone changes; the client goes away or the timeout passes. *)
RecordsChange(n) ==
    /\ \E ips \in SUBSET Ip : ips # records[n] /\ records' = [records EXCEPT ![n] = ips]
    /\ UNCHANGED <<policy, form, cut, pc, dialHosts, dns, dialed, shaken, result, metrics, audit,
                   status>>

ContextEnds(r) ==
    /\ r \notin cut /\ pc[r] \in {"resolve", "dial", "handshake"}
    /\ cut' = cut \cup {r}
    /\ UNCHANGED <<policy, form, records, pc, dialHosts, dns, dialed, shaken, result, metrics, audit,
                   status>>

Handler(r) ==
    \/ TurnAway(r) \/ BadRequest(r) \/ Admit(r)
    \/ Allow(r) \/ Throttle(r)
    \/ Refuse(r) \/ Pin(r) \/ Report(r)
    \/ Dial(r) \/ Handshake(r)
    \/ Deny(r) \/ Complete(r)
    \/ Count(r) \/ Write(r)

Next ==
    \/ \E r \in Request : Handler(r) \/ ContextEnds(r)
    \/ \E n \in Name : RecordsChange(n)

Spec == Init /\ [][Next]_vars

-----------------------------------------------------------------------------
Results == {"none", "ok", "fail", "denied"}

TypeOK ==
    /\ policy \in Policies
    /\ form \in [Request -> {"token", "method", "body", "fine"}]
    /\ records \in [Name -> SUBSET Ip]
    /\ cut \subseteq Request
    /\ pc \in [Request -> {"admit", "gate", "pgGate", "resolve", "dial", "handshake", "report",
                           "count", "write", "done"}]
    /\ dialHosts \in [Request -> SUBSET Ip] /\ dns \in [Request -> SUBSET Ip]
    /\ dialed \in [Request -> SUBSET Ip] /\ shaken \in [Request -> SUBSET Ip]
    /\ result \in [Request -> Results]
    /\ metrics \in [Counters -> Nat]
    /\ audit \in [Request -> Seq({"throttled", "denied", "ok", "fail"})]
    /\ status \in [Request -> {0, 200, 400, 401, 403, 404, 405, 429}]

Contacted(r) == dialed[r] \cup shaken[r]

(* With a policy the agent connects to the addresses it authorized and to
   no other, however the name resolves afterwards (resolveTarget). *)
DialsWhatWasAuthorized ==
    Restricted => \A r \in Request : Contacted(r) \subseteq dialHosts[r] \cap Permitted

(* A tcp request keeps that promise: the only dial it makes is the one over
   the addresses resolveTarget vetted. *)
TcpDialsWhatWasAuthorized ==
    Restricted => \A r \in Request : Kind[r] = "tcp" =>
        Contacted(r) \subseteq dialHosts[r] \cap Permitted

(* With a policy the addresses reported are the ones that were dialed from:
   nothing outside the DNS report was contacted by the reachability dial. *)
ReportCoversDial == Restricted => \A r \in Request : dialed[r] \subseteq dns[r]

(* No connection reaches a guarded address, on either of the two dials of a
   request and whatever the name resolves to in between (DenyGuard). *)
GuardAlwaysHolds == \A r \in Request : Contacted(r) \cap Guarded = {}

(* A denial precedes any handshake: a request refused with 403, by either
   layer, has shown its credentials to nobody, and one refused by the policy
   has not even been dialed (the runner's comment). *)
DenialPrecedesContact ==
    \A r \in Request : status[r] = 403 =>
        shaken[r] = {} /\ (dialHosts[r] = {} /\ Restricted => dialed[r] = {})

(* An answer a client holds is in /metrics already: a scrape, which loads
   the counters one after the other while checks go on, never shows fewer
   outcomes of a kind than have been given, and no more than the answers
   given and the ones being written. *)
Told(r) == CASE status[r] = 200 -> result[r]     [] status[r] = 403 -> "denied"
             [] status[r] = 400 -> "bad_request" [] status[r] = 429 -> "throttled"
             [] OTHER -> "none"

In(where, c) == Cardinality({r \in Request : pc[r] \in where /\ Told(r) = c})

MetricsCoverAnswers ==
    \A c \in Counters : In({"done"}, c) <= metrics[c] /\ metrics[c] <= In({"write", "done"}, c)

(* A postgres request is audited once when it got past validation and not
   at all otherwise, and the audit tells what the client was told. *)
AuditTellsTheAnswer ==
    \A r \in Request : pc[r] \in {"count", "write", "done"} =>
        audit[r] = IF Kind[r] = "tcp" \/ status[r] \in {400, 401, 404, 405} THEN <<>>
                   ELSE IF status[r] = 429 THEN <<"throttled">>
                   ELSE IF status[r] = 403 THEN <<"denied">>
                   ELSE <<result[r]>>
=============================================================================
