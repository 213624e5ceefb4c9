------------------------------ MODULE DialRace ------------------------------
(***************************************************************************)
(* The concurrent dial of internal/probe: connect and dialConn, with the   *)
(* caller (Run) that closes the winning connection.                        *)
(*                                                                         *)
(* A feeder goroutine hands the distinct hosts, in order, to a bounded     *)
(* pool of workers over an unbuffered channel; each worker dials and sends *)
(* one outcome per host on the buffered channel ch; the collector reads    *)
(* one outcome per host, keeps the first connection, cancels the rest of   *)
(* the race and closes every later connection.                             *)
(*                                                                         *)
(* A host is named by its position in Hosts.  net.Dialer is external: it   *)
(* tries the candidate addresses of a host, consulting the guard before    *)
(* each connect, and gives up when its context is done.                    *)
(***************************************************************************)
EXTENDS Naturals, Sequences, FiniteSets

CONSTANTS
    Host,               \* host strings: names and IP literals
    Ip,                 \* the addresses they stand for
    NoIp,               \* "no address"
    Hosts,              \* dialHosts: a sequence of Host, repetitions allowed
    Addrs,              \* Addrs[h]: candidate addresses of h ({}: h does not resolve)
    Denied,             \* addresses the DenyGuard refuses ({}: a nil guard)
    MaxConcurrentDials  \* cap on the worker pool

ASSUME HostsAssumption == Hosts \in Seq(Host) /\ Hosts # <<>>
ASSUME AddrsAssumption == Addrs \in [Host -> SUBSET Ip] /\ Denied \subseteq Ip /\ NoIp \notin Ip
ASSUME CapAssumption   == MaxConcurrentDials \in Nat \ {0}

VARIABLES
    net,        \* how each address answers a connect: "accept", "refuse" or "drop"
    ctx,        \* dctx: "live", or the first cause of its end: "deadline", "parent", "won"
    fed,        \* positions the feeder has handed over
    job,        \* the position each worker is dialing (Idle: waiting on addrCh)
    exited,     \* workers that saw addrCh closed
    todo,       \* candidate addresses a worker has not tried yet
    syn,        \* candidate addresses that passed the guard and are connecting
    outcome,    \* what DialContext returned for each position
    peer,       \* the address the connection of a position leads to
    open,       \* positions whose connection is open
    guardHit,   \* the atomic flag of the guard
    ch,         \* the buffered channel, as the positions whose outcomes it holds
    reads,      \* iterations of the collector's loop
    collected,  \* history: the positions whose outcome has been read
    winner,     \* position of the winning connection (Idle: nil)
    lastErr,    \* last error read
    phase,      \* "collect", then "returned" (from connect), then "closed" (by Run)
    res         \* the Result fields connect fills

vars == <<net, ctx, fed, job, exited, todo, syn, outcome, peer, open, guardHit, ch,
          reads, collected, winner, lastErr, phase, res>>

dialer    == <<todo, syn, outcome, peer>>
collector == <<reads, collected, winner, lastErr, phase, res>>

-----------------------------------------------------------------------------
Pos  == DOMAIN Hosts
Idle == 0

(* Mutant of Uniq: the list is cut at the cap before it is raced. *)
UniqCut == {p \in Pos : p <= MaxConcurrentDials}

(* dedup: the first occurrence of every host, in the original order. *)
Uniq == {p \in Pos : \A q \in Pos : q < p => Hosts[q] # Hosts[p]}
N    == Cardinality(Uniq)

(* Mutant of Workers: the pool is one worker short. *)
WorkersOneShort == 1..(IF N >= MaxConcurrentDials THEN MaxConcurrentDials - 1 ELSE N)

Workers == 1..(IF N > MaxConcurrentDials THEN MaxConcurrentDials ELSE N)

Answers == {"accept", "refuse", "drop"}
Causes  == {"live", "deadline", "parent", "won"}
Errors  == {"failed", "timeout", "canceled"}
NoRes   == [ok |-> FALSE, error |-> "none", denied |-> FALSE]

Init ==
    /\ net \in [Ip -> Answers]
    /\ ctx = "live"
    /\ fed = {}
    /\ job = [w \in Workers |-> Idle]
    /\ exited = {}
    /\ todo = [w \in Workers |-> {}]
    /\ syn = [w \in Workers |-> {}]
    /\ outcome = [p \in Pos |-> "pending"]
    /\ peer = [p \in Pos |-> NoIp]
    /\ open = {}
    /\ guardHit = FALSE
    /\ ch = <<>>
    /\ reads = 0
    /\ collected = {}
    /\ winner = Idle
    /\ lastErr = "none"
    /\ phase = "collect"
    /\ res = NoRes

-----------------------------------------------------------------------------
(* The feeder and the workers. *)

(* The feeder's send of the next host meets an idle worker's receive. *)
Take(w, p) ==
    /\ job[w] = Idle /\ w \notin exited
    /\ p \in Uniq \ fed
    /\ \A q \in Uniq \ fed : p <= q
    /\ fed' = fed \cup {p}
    /\ job' = [job EXCEPT ![w] = p]
    /\ todo' = [todo EXCEPT ![w] = Addrs[Hosts[p]]]
    /\ UNCHANGED <<net, ctx, exited, syn, outcome, peer, open, guardHit, ch, collector>>

Dialing(w) == job[w] # Idle /\ outcome[job[w]] = "pending"

(* DialContext returns o to worker w, which dials no further candidate. *)
DialReturns(w, o) ==
    /\ outcome' = [outcome EXCEPT ![job[w]] = o]
    /\ todo' = [todo EXCEPT ![w] = {}]
    /\ syn' = [syn EXCEPT ![w] = {}]
    /\ UNCHANGED <<net, ctx, fed, job, exited, guardHit, ch, collector>>

(* Mutant of Attempt: the hook notes the denied address and lets it pass. *)
AttemptNotes(w, ip) ==
    /\ Dialing(w) /\ ctx = "live"
    /\ ip \in todo[w]
    /\ todo' = [todo EXCEPT ![w] = @ \ {ip}]
    /\ guardHit' = (guardHit \/ ip \in Denied)
    /\ syn' = [syn EXCEPT ![w] = @ \cup {ip}]
    /\ UNCHANGED <<net, ctx, fed, job, exited, outcome, peer, open, ch, collector>>

(* One connect attempt: the Control hook runs first and may refuse it. *)
Attempt(w, ip) ==
    /\ Dialing(w) /\ ctx = "live"
    /\ ip \in todo[w]
    /\ todo' = [todo EXCEPT ![w] = @ \ {ip}]
    /\ IF ip \in Denied
       THEN guardHit' = TRUE /\ UNCHANGED syn
       ELSE syn' = [syn EXCEPT ![w] = @ \cup {ip}] /\ UNCHANGED guardHit
    /\ UNCHANGED <<net, ctx, fed, job, exited, outcome, peer, open, ch, collector>>

(* A refusal, or the share of the time that the dialer gives a silent
   candidate while the host has others left. *)
CandidateFails(w, ip) ==
    /\ Dialing(w)
    /\ ip \in syn[w]
    /\ \/ net[ip] = "refuse"
       \/ net[ip] = "drop" /\ todo[w] \cup syn[w] # {ip}
    /\ syn' = [syn EXCEPT ![w] = @ \ {ip}]
    /\ UNCHANGED <<net, ctx, fed, job, exited, todo, outcome, peer, open, guardHit, ch,
                   collector>>

(* A connect in flight may still succeed after its context is done. *)
Connected(w, ip) ==
    /\ Dialing(w)
    /\ ip \in syn[w] /\ net[ip] = "accept"
    /\ peer' = [peer EXCEPT ![job[w]] = ip]
    /\ open' = open \cup {job[w]}
    /\ DialReturns(w, "conn")

GiveUp(w) ==
    /\ Dialing(w)
    /\ todo[w] = {} /\ syn[w] = {}
    /\ \/ DialReturns(w, "failed")
       \/ /\ \E ip \in Addrs[Hosts[job[w]]] : net[ip] = "drop"
          /\ DialReturns(w, "timeout")
    /\ UNCHANGED <<peer, open>>

(* Mutant of Abort: every end of the context reads as a cancellation. *)
AbortCanceled(w) ==
    /\ Dialing(w) /\ ctx # "live"
    /\ DialReturns(w, "canceled")
    /\ UNCHANGED <<peer, open>>

Abort(w) ==
    /\ Dialing(w) /\ ctx # "live"
    /\ DialReturns(w, IF ctx = "deadline" THEN "timeout" ELSE "canceled")
    /\ UNCHANGED <<peer, open>>

(* A Happy-Eyeballs attempt that lost inside DialContext may still reach
   the guard after DialContext has returned the other connection. *)
Straggler(p) ==
    /\ outcome[p] = "conn"
    /\ Addrs[Hosts[p]] \cap Denied # {}
    /\ guardHit' = TRUE
    /\ UNCHANGED <<net, ctx, fed, job, exited, dialer, open, ch, collector>>

SendOutcome(w) ==
    /\ job[w] # Idle /\ ~Dialing(w)
    /\ Len(ch) < N
    /\ ch' = Append(ch, job[w])
    /\ job' = [job EXCEPT ![w] = Idle]
    /\ UNCHANGED <<net, ctx, fed, exited, dialer, open, guardHit, collector>>

(* Mutant of Exit: the feeder does not close addrCh. *)
ExitNever(w) == FALSE

Exit(w) ==
    /\ job[w] = Idle /\ w \notin exited
    /\ fed = Uniq
    /\ exited' = exited \cup {w}
    /\ UNCHANGED <<net, ctx, fed, job, dialer, open, guardHit, ch, collector>>

-----------------------------------------------------------------------------
(* The collector, connect and Run. *)

(* One iteration of the loop, up to the use it makes of the outcome. *)
Receive ==
    /\ phase = "collect" /\ reads < N
    /\ ch # <<>>
    /\ ch' = Tail(ch)
    /\ reads' = reads + 1
    /\ collected' = collected \cup {Head(ch)}
    /\ UNCHANGED <<net, fed, job, exited, dialer, guardHit, phase, res>>

(* Mutant of CollectError: the error is noted without looking at the conn. *)
CollectErrorAlways ==
    /\ Receive
    /\ lastErr' = outcome[Head(ch)]
    /\ UNCHANGED <<ctx, open, winner>>

CollectError ==
    /\ Receive
    /\ outcome[Head(ch)] # "conn"
    /\ lastErr' = outcome[Head(ch)]
    /\ UNCHANGED <<ctx, open, winner>>

(* Mutant of CollectWinner: the last connection wins. *)
CollectWinnerLast ==
    /\ Receive
    /\ outcome[Head(ch)] = "conn"
    /\ winner' = Head(ch)
    /\ ctx' = IF ctx = "live" THEN "won" ELSE ctx
    /\ UNCHANGED <<open, lastErr>>

CollectWinner ==
    /\ Receive
    /\ outcome[Head(ch)] = "conn" /\ winner = Idle
    /\ winner' = Head(ch)
    /\ ctx' = IF ctx = "live" THEN "won" ELSE ctx
    /\ UNCHANGED <<open, lastErr>>

(* Mutant of CollectLoser: a later connection is dropped without closing. *)
CollectLoserLeaks ==
    /\ Receive
    /\ outcome[Head(ch)] = "conn" /\ winner # Idle
    /\ UNCHANGED <<ctx, open, winner, lastErr>>

CollectLoser ==
    /\ Receive
    /\ outcome[Head(ch)] = "conn" /\ winner # Idle
    /\ open' = open \ {Head(ch)}
    /\ UNCHANGED <<ctx, winner, lastErr>>

(* Mutant of Return: the first connection ends the collection. *)
ReturnOnWin ==
    /\ phase = "collect" /\ (winner # Idle \/ reads = N)
    /\ phase' = "returned"
    /\ res' = [ok     |-> winner # Idle,
               error  |-> IF winner # Idle THEN "none" ELSE lastErr,
               denied |-> guardHit /\ winner = Idle]
    /\ UNCHANGED <<net, ctx, fed, job, exited, dialer, open, guardHit, ch, reads, collected,
                   winner, lastErr>>

(* dialConn returns and connect promotes a guard hit to a denial. *)
Return ==
    /\ phase = "collect" /\ reads = N
    /\ phase' = "returned"
    /\ res' = [ok     |-> winner # Idle,
               error  |-> IF winner # Idle THEN "none" ELSE lastErr,
               denied |-> guardHit /\ winner = Idle]
    /\ UNCHANGED <<net, ctx, fed, job, exited, dialer, open, guardHit, ch, reads, collected,
                   winner, lastErr>>

(* Mutant of Close: Run keeps the connection it was given. *)
CloseForgets ==
    /\ phase = "returned"
    /\ phase' = "closed"
    /\ UNCHANGED <<net, ctx, fed, job, exited, dialer, open, guardHit, ch, reads, collected,
                   winner, lastErr, res>>

Close ==
    /\ phase = "returned"
    /\ phase' = "closed"
    /\ open' = open \ {winner}
    /\ UNCHANGED <<net, ctx, fed, job, exited, dialer, guardHit, ch, reads, collected, winner,
                   lastErr, res>>

-----------------------------------------------------------------------------
(* The timeout of connect, and the end of the caller's own context. *)

CtxEnds(cause) ==
    /\ phase = "collect" /\ ctx = "live"
    /\ ctx' = cause
    /\ UNCHANGED <<net, fed, job, exited, dialer, open, guardHit, ch, collector>>

Deadline     == CtxEnds("deadline")
ParentCancel == CtxEnds("parent")

-----------------------------------------------------------------------------
WorkerStep(w) ==
    \/ \E p \in Uniq : Take(w, p)
    \/ \E ip \in Ip : Attempt(w, ip) \/ CandidateFails(w, ip) \/ Connected(w, ip)
    \/ GiveUp(w)
    \/ Abort(w)
    \/ SendOutcome(w)
    \/ Exit(w)

CollectorStep == CollectError \/ CollectWinner \/ CollectLoser \/ Return \/ Close

(* Everything is over: the caller has closed the winner, the pool is gone. *)
Done == phase = "closed" /\ exited = Workers /\ UNCHANGED vars

Next ==
    \/ \E w \in Workers : WorkerStep(w)
    \/ \E p \in Pos : Straggler(p)
    \/ CollectorStep
    \/ Deadline
    \/ ParentCancel
    \/ Done

Spec == Init /\ [][Next]_vars

(* Every goroutine that can run does.  Nothing is assumed of the network: a
   silent address is simply never over. *)
PoolFairness == WF_vars(CollectorStep) /\ \A w \in Workers : WF_vars(WorkerStep(w))

FairSpec == Spec /\ PoolFairness

(* The runtime fires the timer of the deadline. *)
TimerFires == WF_vars(Deadline)

-----------------------------------------------------------------------------
TypeOK ==
    /\ net \in [Ip -> Answers]
    /\ ctx \in Causes
    /\ fed \subseteq Uniq
    /\ job \in [Workers -> Uniq \cup {Idle}]
    /\ exited \subseteq Workers
    /\ todo \in [Workers -> SUBSET Ip]
    /\ syn \in [Workers -> SUBSET Ip]
    /\ outcome \in [Pos -> Errors \cup {"pending", "conn"}]
    /\ peer \in [Pos -> Ip \cup {NoIp}]
    /\ open \subseteq Uniq
    /\ guardHit \in BOOLEAN
    /\ ch \in Seq(Uniq)
    /\ reads \in Nat
    /\ collected \subseteq Uniq
    /\ winner \in Uniq \cup {Idle}
    /\ lastErr \in Errors \cup {"none"}
    /\ phase \in {"collect", "returned", "closed"}
    /\ res \in [ok : BOOLEAN, error : Errors \cup {"none"}, denied : BOOLEAN]

(* A connection is open as long as somebody is bound to close it: nothing
   is open but the winner, until Run closes it, and the connections whose
   outcome the collector has still to read. *)
Unread == {p \in Uniq : outcome[p] = "conn" /\ p \notin collected}

OneOwner ==
    /\ winner \notin Unread
    /\ open = Unread \cup (IF winner # Idle /\ phase # "closed" THEN {winner} ELSE {})

(* Exactly one connection or none leaves the dial layer: when connect has
   returned, the winner alone is open if the dial succeeded and nothing is
   open if it failed; when Run has returned nothing is open. *)
OneConnEscapes ==
    /\ phase = "returned" => open = IF res.ok THEN {winner} ELSE {}
    /\ phase = "closed" => open = {}

(* connect reads guardHit once no dial is in flight and no outcome is
   unread, so a failed race has settled the flag (connect's comment). *)
DialsSettled ==
    phase # "collect" =>
        /\ fed = Uniq
        /\ \A w \in Workers : job[w] = Idle
        /\ ch = <<>>

(* A connection to a guarded address is never opened, whichever name led
   there, and a reachable result is never reported as denied. *)
NeverConnectedToDenied ==
    /\ \A p \in open : peer[p] \in Ip \ Denied
    /\ res.ok => ~res.denied

(* A failed race that no context cut short is denied exactly when some
   listed address is guarded, and then no listed address outside the guard
   accepts: dedup, the cap and the early cancel lose no address. *)
FailureIsExact ==
    phase # "collect" /\ ctx = "live" /\ ~res.ok =>
        /\ res.denied = (\E p \in Pos : Addrs[Hosts[p]] \cap Denied # {})
        /\ \A p \in Pos : \A ip \in Addrs[Hosts[p]] \ Denied : net[ip] # "accept"

(* The error reported for a failure names its cause: a timeout only when
   the deadline passed or an address is silent, a cancellation only when the
   caller cancelled -- the race's own cancel never shows in a result. *)
ErrorHasCause ==
    phase # "collect" /\ ~res.ok =>
        /\ res.error # "none"
        /\ res.error = "timeout" => ctx = "deadline" \/ \E ip \in Ip : net[ip] = "drop"
        /\ res.error = "canceled" => ctx = "parent"

(* An address waits for a worker only behind a full pool: concurrency is
   capped at maxConcurrentDials, and up to the cap every address has a worker
   of its own (dialConn's comment). *)
WaitsOnlyBehindFullPool ==
    fed # Uniq =>
        \/ \E w \in Workers : job[w] = Idle /\ w \notin exited
        \/ Cardinality({w \in Workers : job[w] # Idle}) = MaxConcurrentDials

(* Every run of the probe ends: the caller gets its result, the winning
   connection is closed and no goroutine of the pool is left behind. *)
Terminates == TimerFires => <>(phase = "closed" /\ exited = Workers /\ open = {})

(* Reachable as long as ANY address is: siblings that refuse, or are silent
   in smaller number than the workers, never keep an accepting address from
   ending the race, even though no deadline comes to the rescue. *)
Reachable == \E p \in Pos : \E ip \in Addrs[Hosts[p]] \ Denied : net[ip] = "accept"
Silent    == {p \in Uniq : \E ip \in Addrs[Hosts[p]] \ Denied : net[ip] = "drop"}

SlowSiblingHarmless ==
    Reachable /\ Cardinality(Silent) < N /\ Cardinality(Silent) < MaxConcurrentDials =>
        <>(ctx # "live")

-----------------------------------------------------------------------------
(* Seen from outside, the race is one verdict over a set of connections. *)
verdict == IF phase = "collect" THEN "pending"
           ELSE IF res.ok THEN "ok"
           ELSE IF res.denied THEN "denied" ELSE "failed"

Verdict == INSTANCE ProbeVerdict WITH Conns <- Uniq, live <- open, verdict <- verdict

ImplementsVerdict == Verdict!Spec
=============================================================================
