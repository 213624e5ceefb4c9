-------------------------- MODULE AgentCheckProofs --------------------------
(***************************************************************************)
(* Proofs about AgentCheck for every set of requests, names and addresses, *)
(* every policy and every guard, and any sequence of DNS answers.          *)
(*                                                                         *)
(* The promises are about contacts and answers; what makes them inductive  *)
(* is where a handler stands (Stages): nothing is dialed before the policy *)
(* was asked, nothing is shaken before the dial is over, nothing is audited*)
(* before the answer is settled.                                           *)
(***************************************************************************)
EXTENDS AgentCheck, FiniteSetTheorems, TLAPS

AuditSeqs == Seq({"throttled", "denied", "ok", "fail"})
Codes     == {0, 200, 400, 401, 403, 404, 405, 429}
Places    == {"admit", "gate", "pgGate", "resolve", "dial", "handshake", "report", "count",
              "write", "done"}
Undialed  == {"admit", "gate", "pgGate", "resolve"}
Answered  == {"count", "write", "done"}

-----------------------------------------------------------------------------
(* The state is well typed. *)

LEMMA LookupType ==
    ASSUME TypeOK, NEW r \in Request
    PROVE  Lookup(r) \in SUBSET Ip
<1>1. Host[r] \in Name \cup Ip
  BY RequestAssumption
<1> QED
  BY <1>1 DEF TypeOK, Lookup

LEMMA InitType == Init => TypeOK
BY DEF Init, TypeOK, Results, Counters

(* An answer, audited or not, keeps the types of what it changes. *)
LEMMA RespondType ==
    ASSUME TypeOK, NEW r \in Request, NEW code \in Codes,
           NEW outcome \in {"none", "throttled", "denied", "ok", "fail"},
           Respond(r, code, outcome)
    PROVE  /\ audit' \in [Request -> AuditSeqs]
           /\ status' \in [Request -> Codes]
           /\ pc' \in [Request -> Places]
           /\ UNCHANGED metrics
<1>1. audit' \in [Request -> AuditSeqs]
  <2>1. audit[r] \in AuditSeqs
    BY DEF TypeOK, AuditSeqs
  <2>2. outcome # "none" => Append(audit[r], outcome) \in AuditSeqs
    BY <2>1 DEF AuditSeqs
  <2> QED
    BY <2>2 DEF TypeOK, Respond, AuditSeqs
<1> QED
  BY <1>1 DEF TypeOK, Respond, Codes, Places

(* So does moving on. *)
LEMMA GotoType ==
    ASSUME TypeOK, NEW r \in Request, NEW to \in Places, Goto(r, to)
    PROVE  /\ pc' \in [Request -> Places]
           /\ UNCHANGED <<metrics, audit, status>>
BY DEF TypeOK, Goto, Places

LEMMA HandlerType ==
    ASSUME TypeOK, NEW r \in Request, Handler(r)
    PROVE  TypeOK'
<1>1. CASE TurnAway(r)
  BY <1>1 DEF TypeOK, TurnAway, TurnedAway, world
<1>2. CASE BadRequest(r) \/ Throttle(r) \/ Refuse(r) \/ Deny(r) \/ Complete(r)
  <2>1. PICK code \in Codes, outcome \in {"none", "throttled", "denied", "ok", "fail"} :
            Respond(r, code, outcome)
    <3>1. result[r] \in {"none", "throttled", "denied", "ok", "fail"}
      BY DEF TypeOK, Results
    <3> QED
      BY <1>2, <3>1 DEF BadRequest, Throttle, Refuse, Deny, Complete, Codes
  <2>2. UNCHANGED <<world, dialHosts, dns, dialed, shaken, result>>
    BY <1>2 DEF BadRequest, Throttle, Refuse, Deny, Complete
  <2> QED
    BY <2>1, <2>2, RespondType DEF TypeOK, world, AuditSeqs, Codes, Places
<1>3. CASE Admit(r) \/ Allow(r) \/ Write(r)
  <2>1. PICK to \in Places : Goto(r, to)
    BY <1>3 DEF Admit, Allow, Write, Places
  <2>2. UNCHANGED <<world, dialHosts, dns, dialed, shaken, result>>
    BY <1>3 DEF Admit, Allow, Write
  <2> QED
    BY <2>1, <2>2, GotoType DEF TypeOK, world, Places
<1>4. CASE Pin(r) \/ Report(r)
  <2>1. Goto(r, "dial") /\ UNCHANGED <<world, dialed, shaken, result>>
    BY <1>4 DEF Pin, Report
  <2>2. dialHosts' \in [Request -> SUBSET Ip] /\ dns' \in [Request -> SUBSET Ip]
    <3>1. Lookup(r) \in SUBSET Ip
      BY LookupType
    <3>2. CASE Pin(r)
      BY <3>1, <3>2 DEF Pin, TypeOK
    <3>3. CASE Report(r)
      BY <3>1, <3>3 DEF Report, TypeOK
    <3> QED
      BY <1>4, <3>2, <3>3
  <2> QED
    BY <2>1, <2>2, GotoType DEF TypeOK, world, Places
<1>5. CASE Dial(r) \/ Handshake(r)
  <2>1. PICK to \in Places : Goto(r, to)
    <3>1. CASE Dial(r)
      BY <3>1 DEF Dial, Places
    <3>2. CASE Handshake(r)
      BY <3>2 DEF Handshake, Places
    <3> QED
      BY <1>5, <3>1, <3>2
  <2>2. dialed' \in [Request -> SUBSET Ip] /\ shaken' \in [Request -> SUBSET Ip]
    <3>1. Lookup(r) \in SUBSET Ip /\ Candidates(r) \in SUBSET Ip
      BY LookupType DEF Candidates, TypeOK
    <3>2. CASE Dial(r)
      BY <3>1, <3>2 DEF Dial, TypeOK
    <3>3. CASE Handshake(r)
      BY <3>1, <3>3 DEF Handshake, TypeOK
    <3> QED
      BY <1>5, <3>2, <3>3
  <2>3. result' \in [Request -> Results]
    <3>1. \E v \in {"ok", "fail", "denied"} : result' = [result EXCEPT ![r] = v]
      <4>1. CASE Dial(r)
        BY <4>1 DEF Dial
      <4>2. CASE Handshake(r)
        BY <4>2 DEF Handshake
      <4> QED
        BY <1>5, <4>1, <4>2
    <3> QED
      BY <3>1 DEF TypeOK, Results
  <2>4. UNCHANGED <<world, dialHosts, dns>>
    BY <1>5 DEF Dial, Handshake
  <2> QED
    BY <2>1, <2>2, <2>3, <2>4, GotoType DEF TypeOK, world, Places
<1>6. CASE Count(r)
  <2>1. metrics' \in [Counters -> Nat]
    <3>1. metrics \in [Counters -> Nat]
      BY DEF TypeOK
    <3>2. PICK c : metrics' = [metrics EXCEPT ![c] = metrics[c] + 1]
      BY <1>6 DEF Count
    <3>3. \A d \in Counters : metrics[d] + 1 \in Nat
      BY <3>1
    <3>4. metrics' = [d \in Counters |-> IF d = c THEN metrics[d] + 1 ELSE metrics[d]]
      BY <3>1, <3>2
    <3> QED
      BY <3>1, <3>3, <3>4
  <2>2. pc' \in [Request -> Places]
    BY <1>6 DEF TypeOK, Count, Places
  <2> QED
    BY <1>6, <2>1, <2>2 DEF TypeOK, Count, world, Places
<1> QED
  BY <1>1, <1>2, <1>3, <1>4, <1>5, <1>6 DEF Handler

LEMMA TypeStep ==
    ASSUME TypeOK, [Next]_vars
    PROVE  TypeOK'
<1>1. ASSUME NEW r \in Request, ContextEnds(r)
      PROVE  TypeOK'
  BY <1>1 DEF TypeOK, ContextEnds
<1>2. ASSUME NEW n \in Name, RecordsChange(n)
      PROVE  TypeOK'
  BY <1>2 DEF TypeOK, RecordsChange
<1>3. CASE UNCHANGED vars
  BY <1>3 DEF TypeOK, vars
<1> QED
  BY <1>1, <1>2, <1>3, HandlerType DEF Next

(* The state of every request is well typed, for every configuration
   (TypeOK of AgentCheck). *)
THEOREM TypeCorrect == Spec => []TypeOK
BY InitType, TypeStep, PTL DEF Spec

-----------------------------------------------------------------------------
(* The guard: its addresses are never among the ones contacted. *)

LEMMA GuardStep ==
    ASSUME TypeOK, GuardAlwaysHolds, [Next]_vars
    PROVE  GuardAlwaysHolds'
<1>1. ASSUME NEW r \in Request, Dial(r)
      PROVE  GuardAlwaysHolds'
  BY <1>1 DEF TypeOK, GuardAlwaysHolds, Contacted, Dial
<1>2. ASSUME NEW r \in Request, Handshake(r)
      PROVE  GuardAlwaysHolds'
  BY <1>2 DEF TypeOK, GuardAlwaysHolds, Contacted, Handshake
<1>3. CASE UNCHANGED <<dialed, shaken>>
  BY <1>3 DEF GuardAlwaysHolds, Contacted
<1>4. \/ \E r \in Request : Dial(r) \/ Handshake(r)
      \/ UNCHANGED <<dialed, shaken>>
  BY DEF Next, vars, Handler, ContextEnds, RecordsChange, TurnAway, BadRequest, Admit, Allow,
         Throttle, Refuse, Pin, Report, Deny, Complete, Count, Write
<1> QED
  BY <1>1, <1>2, <1>3, <1>4

(* No connection of any request, dial or handshake, reaches a guarded
   address, however often the name changes its addresses (DenyGuard). *)
THEOREM GuardHolds == Spec => []GuardAlwaysHolds
<1>1. Init => GuardAlwaysHolds
  BY DEF Init, GuardAlwaysHolds, Contacted
<1> QED
  BY <1>1, GuardStep, TypeCorrect, PTL DEF Spec

-----------------------------------------------------------------------------
(* What holds of one request, by the place its handler has reached. *)
Authorized(r) ==
    Restricted =>
        /\ dialed[r] \subseteq dialHosts[r] \cap Permitted \cap dns[r]
        /\ pc[r] = "dial" => /\ dialHosts[r] # {} /\ dialHosts[r] = dns[r]
                             /\ dialHosts[r] \subseteq Permitted

Contacts(r) ==
    /\ pc[r] \in Undialed => dialed[r] = {}
    /\ pc[r] \in Undialed \cup {"dial", "handshake"} => shaken[r] = {}
    /\ Kind[r] = "tcp" => pc[r] # "handshake" /\ shaken[r] = {}
    /\ status[r] = 403 \/ (pc[r] = "report" /\ result[r] = "denied") => shaken[r] = {}

Answers(r) ==
    /\ pc[r] \in Answered <=> status[r] # 0
    /\ pc[r] = "report" => result[r] # "none"
    /\ pc[r] \notin Answered => audit[r] = <<>>
    /\ pc[r] \in Answered =>
        audit[r] = IF Kind[r] = "tcp" \/ status[r] \in {400, 401, 404, 405} THEN <<>>
                   ELSE IF status[r] = 429 THEN <<"throttled">>
                   ELSE IF status[r] = 403 THEN <<"denied">>
                   ELSE <<result[r]>>

Stages == \A r \in Request : Authorized(r) /\ Contacts(r) /\ Answers(r)

(* The state of a request and of the policy, all that Stages looks at. *)
Local(q) == <<Restricted, Permitted, pc[q], dialHosts[q], dns[q], dialed[q], shaken[q], result[q],
              audit[q], status[q]>>

LEMMA InitStages == Init => Stages
BY DEF Init, Stages, Authorized, Contacts, Answers, Undialed, Answered

(* The lists of the policy are read at startup. *)
LEMMA PolicyKeeps ==
    ASSUME NEW r \in Request, Handler(r)
    PROVE  UNCHANGED <<Restricted, Permitted>>
<1>1. UNCHANGED policy
  BY DEF Handler, world, TurnAway, BadRequest, Admit, Allow, Throttle, Refuse, Pin, Report, Dial,
         Handshake, Deny, Complete, Count, Write
<1> QED
  BY <1>1 DEF Restricted, Permitted, Denied

(* A handler touches its own request only. *)
LEMMA OthersKeep ==
    ASSUME TypeOK, NEW r \in Request, NEW q \in Request \ {r}, Handler(r)
    PROVE  UNCHANGED Local(q)
<1>0. UNCHANGED <<Restricted, Permitted>>
  BY PolicyKeeps
<1> USE <1>0
<1>1. CASE TurnAway(r) \/ Count(r)
  BY <1>1 DEF TypeOK, TurnAway, Count, world, Local
<1>2. CASE BadRequest(r) \/ Throttle(r) \/ Refuse(r) \/ Deny(r) \/ Complete(r)
  BY <1>2 DEF TypeOK, BadRequest, Throttle, Refuse, Deny, Complete, Respond, world, Local
<1>3. CASE Admit(r) \/ Allow(r) \/ Write(r) \/ Pin(r) \/ Report(r)
  BY <1>3 DEF TypeOK, Admit, Allow, Write, Pin, Report, Goto, world, Local
<1>4. CASE Dial(r) \/ Handshake(r)
  BY <1>4 DEF TypeOK, Dial, Handshake, Goto, world, Local
<1> QED
  BY <1>1, <1>2, <1>3, <1>4 DEF Handler

(* What the policy vetted is what is dialed. *)
LEMMA AuthorizedStep ==
    ASSUME TypeOK, Stages, NEW r \in Request, Handler(r)
    PROVE  Authorized(r)'
<1>0. UNCHANGED <<Restricted, Permitted>>
  BY PolicyKeeps
<1> USE <1>0 DEF Authorized, Undialed
<1>1. Authorized(r) /\ (pc[r] \in Undialed => dialed[r] = {})
  BY DEF Stages, Contacts
<1>2. CASE Pin(r)
  BY <1>1, <1>2 DEF TypeOK, Pin, Vetted, Goto, world
<1>3. CASE Dial(r)
  BY <1>1, <1>3 DEF TypeOK, Dial, Candidates, Goto, world
<1>4. CASE Report(r)
  BY <1>1, <1>4 DEF TypeOK, Report, Goto, world
<1>5. CASE BadRequest(r) \/ Throttle(r) \/ Refuse(r) \/ Deny(r) \/ Complete(r)
  BY <1>1, <1>5 DEF TypeOK, BadRequest, Throttle, Refuse, Deny, Complete, Respond, world
<1>6. CASE Admit(r) \/ Write(r)
  BY <1>1, <1>6 DEF TypeOK, Admit, Write, Goto, world
<1>7. CASE Allow(r)
  BY <1>1, <1>7 DEF TypeOK, Allow, Goto, world
<1>8. CASE Handshake(r)
  BY <1>1, <1>8 DEF TypeOK, Handshake, Goto, world
<1>9. CASE TurnAway(r) \/ Count(r)
  BY <1>1, <1>9 DEF TypeOK, TurnAway, Count, world
<1> QED
  BY <1>2, <1>3, <1>4, <1>5, <1>6, <1>7, <1>8, <1>9 DEF Handler

(* Nothing is contacted early, and nothing of a denied request is shaken. *)
LEMMA ContactsStep ==
    ASSUME TypeOK, Stages, NEW r \in Request, Handler(r)
    PROVE  Contacts(r)'
<1> USE DEF Contacts, Undialed
<1>1. Contacts(r) /\ Answers(r)
  BY DEF Stages
<1>2. CASE Dial(r)
  BY <1>1, <1>2 DEF TypeOK, Dial, Goto, world, Answers, Answered
<1>3. CASE Handshake(r)
  BY <1>1, <1>3 DEF TypeOK, Handshake, Goto, world, Answers, Answered
<1>4. CASE Pin(r) \/ Report(r)
  BY <1>1, <1>4 DEF TypeOK, Pin, Report, Goto, world
<1>5. CASE BadRequest(r) \/ Throttle(r) \/ Refuse(r) \/ Deny(r) \/ Complete(r)
  BY <1>1, <1>5 DEF TypeOK, BadRequest, Throttle, Refuse, Deny, Complete, Respond, world
<1>6. CASE Admit(r) \/ Allow(r) \/ Write(r)
  BY <1>1, <1>6 DEF TypeOK, Admit, Allow, Write, Goto, world
<1>7. CASE TurnAway(r) \/ Count(r)
  BY <1>1, <1>7 DEF TypeOK, TurnAway, TurnedAway, Count, world
<1> QED
  BY <1>2, <1>3, <1>4, <1>5, <1>6, <1>7 DEF Handler

(* The audit tells the answer. *)
LEMMA AnswersStep ==
    ASSUME TypeOK, Stages, NEW r \in Request, Handler(r)
    PROVE  Answers(r)'
<1> USE DEF Answers, Answered
<1>1. Answers(r)
  BY DEF Stages
<1>2. CASE BadRequest(r) \/ Throttle(r) \/ Refuse(r) \/ Deny(r) \/ Complete(r)
  <2>1. PICK code \in {200, 400, 403, 429},
             outcome \in {"none", "throttled", "denied", "ok", "fail"} :
           /\ Respond(r, code, outcome)
           /\ code = 400 <=> outcome = "none"
           /\ code = 429 <=> outcome = "throttled"
           /\ code = 403 <=> outcome = "denied"
           /\ code = 200 => outcome = result[r]
    BY <1>1, <1>2 DEF TypeOK, Results, BadRequest, Throttle, Refuse, Deny, Complete
  <2>2. audit[r] = <<>> /\ result' = result
    BY <1>1, <1>2 DEF BadRequest, Throttle, Refuse, Deny, Complete
  <2>3. pc'[r] = "count" /\ status'[r] = code
    BY <2>1 DEF Respond, TypeOK
  <2>4. audit'[r] = IF Kind[r] = "postgres" /\ outcome # "none" THEN <<outcome>> ELSE <<>>
    BY <2>1, <2>2 DEF Respond, TypeOK
  <2>5. Kind[r] \in {"tcp", "postgres"}
    BY RequestAssumption
  <2> QED
    BY <2>1, <2>2, <2>3, <2>4, <2>5
<1>3. CASE TurnAway(r)
  BY <1>1, <1>3 DEF TypeOK, TurnAway, TurnedAway, world
<1>4. CASE Count(r)
  BY <1>1, <1>4 DEF TypeOK, Count, world
<1>5. CASE Admit(r) \/ Allow(r) \/ Write(r) \/ Pin(r) \/ Report(r)
  BY <1>1, <1>5 DEF TypeOK, Admit, Allow, Write, Pin, Report, Goto, world
<1>6. CASE Dial(r) \/ Handshake(r)
  BY <1>1, <1>6 DEF TypeOK, Dial, Handshake, Goto, world
<1> QED
  BY <1>2, <1>3, <1>4, <1>5, <1>6 DEF Handler

LEMMA StagesStep ==
    ASSUME TypeOK, Stages, [Next]_vars
    PROVE  Stages'
<1>1. ASSUME NEW r \in Request, Handler(r)
      PROVE  Stages'
  <2>1. Authorized(r)' /\ Contacts(r)' /\ Answers(r)'
    BY <1>1, AuthorizedStep, ContactsStep, AnswersStep
  <2>2. ASSUME NEW q \in Request \ {r}
        PROVE  Authorized(q)' /\ Contacts(q)' /\ Answers(q)'
    <3>1. UNCHANGED Local(q)
      BY <1>1, OthersKeep
    <3> QED
      BY <3>1 DEF Stages, Authorized, Contacts, Answers, Local
  <2> QED
    BY <2>1, <2>2 DEF Stages
<1>2. CASE UNCHANGED <<policy, pc, dialHosts, dns, dialed, shaken, result, audit, status>>
  <2>1. UNCHANGED <<Restricted, Permitted>>
    BY <1>2 DEF Restricted, Permitted, Denied
  <2> QED
    BY <1>2, <2>1 DEF Stages, Authorized, Contacts, Answers
<1> QED
  BY <1>1, <1>2 DEF Next, vars, ContextEnds, RecordsChange

LEMMA StagesAlways == Spec => []Stages
BY InitStages, StagesStep, TypeCorrect, PTL DEF Spec

-----------------------------------------------------------------------------
(* With a policy the reachability dial contacts addresses of its own DNS
   report only (connect and resolveTarget share one lookup). *)
THEOREM ReportCovers == Spec => []ReportCoversDial
<1>1. Stages => ReportCoversDial
  BY DEF Stages, Authorized, ReportCoversDial
<1> QED
  BY <1>1, StagesAlways, PTL

(* A tcp request connects to vetted addresses only, whatever the name
   resolves to after resolveTarget looked. *)
THEOREM TcpDialsAuthorized == Spec => []TcpDialsWhatWasAuthorized
<1>1. Stages => TcpDialsWhatWasAuthorized
  BY DEF Stages, Authorized, Contacts, Contacted, TcpDialsWhatWasAuthorized
<1> QED
  BY <1>1, StagesAlways, PTL

(* A request answered with 403 has not shown its credentials to anyone, and
   one refused by the policy has dialed nobody. *)
THEOREM DenialComesFirst == Spec => []DenialPrecedesContact
<1>1. Stages => DenialPrecedesContact
  BY DEF Stages, Authorized, Contacts, DenialPrecedesContact
<1> QED
  BY <1>1, StagesAlways, PTL

(* A postgres request past validation has exactly one audit event, and it
   tells what the client was told (auditPostgres). *)
THEOREM AuditIsTruthful == Spec => []AuditTellsTheAnswer
<1>1. Stages => AuditTellsTheAnswer
  BY DEF Stages, Answers, Answered, AuditTellsTheAnswer
<1> QED
  BY <1>1, StagesAlways, PTL

-----------------------------------------------------------------------------
(* The metrics: a counter is the number of the answers it counts, from the
   moment they may be written. *)

Written(c) == {r \in Request : pc[r] \in {"write", "done"} /\ Told(r) = c}

Tally == \A c \in Counters : IsFiniteSet(Written(c)) /\ metrics[c] = Cardinality(Written(c))

Countable == \A r \in Request : pc[r] = "count" => status[r] \in {200, 400, 403, 429}

LEMMA CountableStep ==
    ASSUME TypeOK, Countable, [Next]_vars
    PROVE  Countable'
<1>1. ASSUME NEW r \in Request, Handler(r)
      PROVE  Countable'
  <2>1. ASSUME NEW q \in Request \ {r}
        PROVE  pc'[q] = pc[q] /\ status'[q] = status[q]
    BY <1>1, OthersKeep DEF Local
  <2>2. pc'[r] = "count" => status'[r] \in {200, 400, 403, 429}
    <3>1. CASE BadRequest(r) \/ Throttle(r) \/ Refuse(r) \/ Deny(r) \/ Complete(r)
      BY <3>1 DEF TypeOK, BadRequest, Throttle, Refuse, Deny, Complete, Respond
    <3>2. CASE TurnAway(r) \/ Count(r)
      BY <3>2 DEF TypeOK, TurnAway, Count
    <3>3. CASE Admit(r) \/ Allow(r) \/ Write(r) \/ Pin(r) \/ Report(r)
      BY <3>3 DEF TypeOK, Admit, Allow, Write, Pin, Report, Goto
    <3>4. CASE Dial(r) \/ Handshake(r)
      BY <3>4 DEF TypeOK, Dial, Handshake, Goto
    <3> QED
      BY <1>1, <3>1, <3>2, <3>3, <3>4 DEF Handler
  <2> QED
    BY <2>1, <2>2 DEF Countable
<1>2. CASE UNCHANGED <<pc, status>>
  BY <1>2 DEF Countable
<1> QED
  BY <1>1, <1>2 DEF Next, vars, ContextEnds, RecordsChange

(* What counts an answer before it is written is what tells it. *)
LEMMA CounterTells ==
    ASSUME NEW r \in Request, status[r] \in {200, 400, 403, 429}
    PROVE  CounterOf(r) = Told(r)
<1>1. CASE status[r] = 200
  BY <1>1 DEF CounterOf, Told
<1>2. CASE status[r] = 400
  BY <1>2 DEF CounterOf, Told
<1>3. CASE status[r] = 403
  BY <1>3 DEF CounterOf, Told
<1>4. CASE status[r] = 429
  BY <1>4 DEF CounterOf, Told
<1> QED
  BY <1>1, <1>2, <1>3, <1>4

(* The handler of r changes nothing for the other requests. *)
LEMMA OthersWritten ==
    ASSUME TypeOK, NEW r \in Request, Handler(r), NEW c
    PROVE  \A q \in Request \ {r} : q \in Written(c)' <=> q \in Written(c)
<1> SUFFICES ASSUME NEW q \in Request \ {r}
             PROVE  q \in Written(c)' <=> q \in Written(c)
  OBVIOUS
<1>1. pc'[q] = pc[q] /\ status'[q] = status[q] /\ result'[q] = result[q]
  BY OthersKeep DEF Local
<1>2. Told(q)' = Told(q)
  BY <1>1 DEF Told
<1> QED
  BY <1>1, <1>2 DEF Written

LEMMA TallyStep ==
    ASSUME TypeOK, Countable, Tally, [Next]_vars
    PROVE  Tally'
<1>1. ASSUME NEW r \in Request, Handler(r)
      PROVE  Tally'
  <2>1. CASE Count(r)
    <3>1. status[r] \in {200, 400, 403, 429}
      BY <2>1 DEF Count, Countable
    <3>2. UNCHANGED <<status, result>> /\ pc[r] = "count" /\ pc'[r] = "write"
      BY <2>1 DEF TypeOK, Count
    <3>3. Told(r)' = Told(r) /\ CounterOf(r) = Told(r)
      BY <3>1, <3>2, CounterTells DEF Told
    <3>4. metrics' = [metrics EXCEPT ![Told(r)] = @ + 1]
      BY <2>1, <3>3 DEF Count
    <3>5. ASSUME NEW c \in Counters
          PROVE  IsFiniteSet(Written(c)') /\ metrics'[c] = Cardinality(Written(c)')
      <4>1. IsFiniteSet(Written(c)) /\ metrics[c] = Cardinality(Written(c)) /\ r \notin Written(c)
        BY <3>2 DEF Tally, Written
      <4>2. CASE Told(r) = c
        <5>1. Written(c)' = Written(c) \cup {r}
          <6>1. r \in Written(c)'
            BY <3>2, <3>3, <4>2 DEF Written
          <6>2. Written(c)' \subseteq Request /\ Written(c) \subseteq Request
            BY DEF Written
          <6> QED
            BY <1>1, <6>1, <6>2, OthersWritten
        <5>2. metrics'[c] = metrics[c] + 1
          BY <3>4, <4>2 DEF TypeOK
        <5> QED
          BY <4>1, <5>1, <5>2, FS_AddElement
      <4>3. CASE Told(r) # c
        <5>1. Written(c)' = Written(c)
          <6>1. r \notin Written(c)'
            BY <3>3, <4>3 DEF Written
          <6>2. Written(c)' \subseteq Request /\ Written(c) \subseteq Request
            BY DEF Written
          <6> QED
            BY <1>1, <4>1, <6>1, <6>2, OthersWritten
        <5>2. metrics'[c] = metrics[c]
          BY <3>4, <4>3 DEF TypeOK
        <5> QED
          BY <4>1, <5>1, <5>2
      <4> QED
        BY <4>2, <4>3
    <3> QED
      BY <3>5 DEF Tally
  <2>2. CASE ~Count(r)
    <3>1. ASSUME NEW c \in Counters
          PROVE  r \in Written(c)' <=> r \in Written(c)
      <4>1. CASE TurnAway(r)
        <5>1. pc[r] = "admit" /\ status'[r] \in {401, 404, 405}
          BY <4>1 DEF TypeOK, TurnAway, TurnedAway
        <5>2. Told(r)' = "none"
          BY <5>1 DEF Told
        <5>3. r \notin Written(c) /\ r \notin Written(c)'
          BY <5>1, <5>2 DEF Written, Counters
        <5> QED
          BY <5>3
      <4>2. CASE Write(r)
        <5>1. pc[r] = "write" /\ pc'[r] = "done" /\ UNCHANGED <<status, result>>
          BY <4>2 DEF TypeOK, Write, Goto
        <5>2. Told(r)' = Told(r)
          BY <5>1 DEF Told
        <5> QED
          BY <5>1, <5>2 DEF Written
      <4>3. CASE ~TurnAway(r) /\ ~Write(r)
        <5>1. pc[r] \notin {"write", "done"} /\ pc'[r] \notin {"write", "done"}
          <6>1. CASE BadRequest(r) \/ Throttle(r) \/ Refuse(r) \/ Deny(r) \/ Complete(r)
            BY <6>1 DEF TypeOK, BadRequest, Throttle, Refuse, Deny, Complete, Respond
          <6>2. CASE Admit(r) \/ Allow(r) \/ Pin(r) \/ Report(r)
            BY <6>2 DEF TypeOK, Admit, Allow, Pin, Report, Goto
          <6>3. CASE Dial(r) \/ Handshake(r)
            BY <6>3 DEF TypeOK, Dial, Handshake, Goto
          <6> QED
            BY <1>1, <2>2, <4>3, <6>1, <6>2, <6>3 DEF Handler
        <5> QED
          BY <5>1 DEF Written
      <4> QED
        BY <4>1, <4>2, <4>3
    <3>2. metrics' = metrics
      BY <1>1, <2>2 DEF Handler, TurnAway, BadRequest, Admit, Allow, Throttle, Refuse, Pin, Report,
            Dial, Handshake, Deny, Complete, Write, Respond, Goto
    <3>3. ASSUME NEW c \in Counters
          PROVE  Written(c)' = Written(c)
      <4>1. Written(c)' \subseteq Request /\ Written(c) \subseteq Request
        BY DEF Written
      <4> QED
        BY <1>1, <3>1, <4>1, OthersWritten
    <3> QED
      BY <3>2, <3>3 DEF Tally
  <2> QED
    BY <2>1, <2>2
<1>2. CASE UNCHANGED <<pc, status, result, metrics>>
  <2>1. \A c : Written(c)' = Written(c)
    BY <1>2 DEF Written, Told
  <2> QED
    BY <1>2, <2>1 DEF Tally
<1> QED
  BY <1>1, <1>2 DEF Next, vars, ContextEnds, RecordsChange

(* An answer a client holds is in /metrics already, and nothing is counted
   that is not being answered, for any number of requests at once. *)
THEOREM MetricsAreCurrent == Spec => []MetricsCoverAnswers
<1>1. Init => Countable /\ Tally
  <2> SUFFICES ASSUME Init
               PROVE  Countable /\ Tally
    OBVIOUS
  <2>1. \A c \in Counters : Written(c) = {} /\ metrics[c] = 0
    BY DEF Init, Written
  <2>2. Tally
    BY <2>1, FS_EmptySet DEF Tally
  <2>3. Countable
    BY DEF Init, Countable
  <2> QED
    BY <2>2, <2>3
<1>2. TypeOK /\ Countable /\ Tally /\ [Next]_vars => (Countable /\ Tally)'
  BY CountableStep, TallyStep
<1>3. Tally => MetricsCoverAnswers
  <2> SUFFICES ASSUME Tally, NEW c \in Counters
               PROVE  In({"done"}, c) <= metrics[c] /\ metrics[c] <= In({"write", "done"}, c)
    BY DEF MetricsCoverAnswers
  <2>1. IsFiniteSet(Written(c)) /\ metrics[c] = Cardinality(Written(c)) /\ metrics[c] \in Nat
    BY FS_CardinalityType DEF Tally
  <2>2. In({"write", "done"}, c) = Cardinality(Written(c))
    BY DEF In, Written
  <2>3. {r \in Request : pc[r] \in {"done"} /\ Told(r) = c} \subseteq Written(c)
    BY DEF Written
  <2>4. In({"done"}, c) <= Cardinality(Written(c))
    BY <2>1, <2>3, FS_Subset DEF In
  <2> QED
    BY <2>1, <2>2, <2>4
<1> QED
  BY <1>1, <1>2, <1>3, TypeCorrect, PTL DEF Spec
=============================================================================
