---------------------------- MODULE RateLimiter -----------------------------
(***************************************************************************)
(* internal/ratelimit: Limiter.Reserve, called by concurrent handlers.     *)
(*                                                                         *)
(* A check passes one limiter or, for postgres, two in a row (allow, then  *)
(* allowPostgres).  At each one Reserve reads the clock, counts the call,  *)
(* sweeps idle buckets every EvictEvery calls, takes a token from every    *)
(* bucket of the request, and if any of them would have to be waited for   *)
(* cancels every one of them.  Each bucket and each registry has its own   *)
(* lock, so calls interleave between those steps.                          *)
(***************************************************************************)
EXTENDS TokenBucket, Sequences, FiniteSets

CONSTANTS
    Call,         \* the callers: one check each at a time
    Bucket,       \* bucket identities: (limiter, scope, key)
    Kind,         \* Kind[b]: the scope, "user", "target" or "global"
    Gates,        \* Gates[p]: per limiter p passes, the buckets it reserves, in order
    Burst,        \* Burst[b]: bucket capacity in tokens
    Interval,     \* Interval[b]: ticks in which one token accrues (1/Rate)
    MaxWait,      \* cap on RetryAfter
    IdleTTL,      \* idle buckets older than this are evicted
    EvictEvery,   \* calls between two sweeps
    MaxInFlight,  \* bound: checks in progress at once
    MaxChecks,    \* bound: checks started
    TicksInCall,  \* whether the clock may advance during a call
    MaxTime       \* bound on the clock

(* Validate: a scope that is on has a positive rate and a burst of at least 1. *)
ValidScopes ==
    /\ Burst \in [Bucket -> Nat \ {0}]
    /\ Interval \in [Bucket -> Nat \ {0}]

ASSUME BucketAssumption == Kind \in [Bucket -> {"user", "target", "global"}] /\ ValidScopes
(* A caller asks each limiter for one bucket of each scope that is on. *)
ASSUME GatesAssumption ==
    \A p \in Call :
        /\ Gates[p] \in Seq(Seq(Bucket) \ {<<>>}) \ {<<>>}
        /\ \A g \in DOMAIN Gates[p] : \A i, j \in DOMAIN Gates[p][g] :
               Gates[p][g][i] = Gates[p][g][j] => i = j
ASSUME NumbersAssumption ==
    /\ {MaxWait, EvictEvery, MaxInFlight, MaxChecks} \subseteq Nat \ {0}
    /\ {IdleTTL, MaxTime} \subseteq Nat
    /\ TicksInCall \in BOOLEAN

VARIABLES
    clock,    \* the time source
    calls,    \* calls[g]: the call counter of limiter g
    present,  \* buckets in their registry (a global bucket always exists)
    lim,      \* lim[b]: the bucket's state
    seen,     \* seen[b]: when get last returned b
    pc,       \* "idle", "sweepUser", "sweepTarget", "take" or "cancel"
    gate,     \* the limiter the caller is at
    now,      \* the clock as the call read it
    taken,    \* reservations of the call: bucket, time to act, bucket not replaced since
    delay,    \* maxDelay of the call
    reply,    \* RetryAfter of the caller's last check (0: none denied)
    admitted  \* history: admitted[b][t] checks using b were admitted with now <= t

vars == <<clock, calls, present, lim, seen, pc, gate, now, taken, delay, reply, admitted>>
callVars == <<gate, now, delay, reply>>

-----------------------------------------------------------------------------
Cap(b)      == Burst[b] * Interval[b]
Times       == 0..(MaxTime + MaxWait)
Limiters    == UNION {DOMAIN Gates[p] : p \in Call}
Path(p)     == Gates[p][gate[p]]
Passed(p)   == UNION {{Gates[p][g][i] : i \in DOMAIN Gates[p][g]} : g \in DOMAIN Gates[p]}
OwnedBy(g)  == UNION {{Gates[p][g][i] : i \in DOMAIN Gates[p][g]} :
                         p \in {q \in Call : g \in DOMAIN Gates[q]}}

Init ==
    /\ clock = 0
    /\ calls = [g \in Limiters |-> 0]
    /\ present = {b \in Bucket : Kind[b] = "global"}
    /\ lim = [b \in Bucket |-> NewBucket(Cap(b))]
    /\ seen = [b \in Bucket |-> 0]
    /\ pc = [p \in Call |-> "idle"]
    /\ gate = [p \in Call |-> 1]
    /\ now = [p \in Call |-> 0]
    /\ taken = [p \in Call |-> <<>>]
    /\ delay = [p \in Call |-> 0]
    /\ reply = [p \in Call |-> 0]
    /\ admitted = [b \in Bucket |-> [t \in Times |-> 0]]

-----------------------------------------------------------------------------
(* Reserve reads the clock and maybeEvict counts the call. *)
Enter(p, g) ==
    /\ calls' = [calls EXCEPT ![g] = @ + 1]
    /\ pc' = [pc EXCEPT ![p] = IF calls'[g] % EvictEvery = 0 THEN "sweepUser" ELSE "take"]
    /\ gate' = [gate EXCEPT ![p] = g]
    /\ now' = [now EXCEPT ![p] = clock]
    /\ taken' = [taken EXCEPT ![p] = <<>>]
    /\ delay' = [delay EXCEPT ![p] = 0]
    /\ UNCHANGED <<clock, present, lim, seen>>

Check(p) ==
    /\ pc[p] = "idle"
    /\ Cardinality({q \in Call : pc[q] # "idle"}) < MaxInFlight
    /\ calls[1] < MaxChecks
    /\ Enter(p, 1)
    /\ reply' = [reply EXCEPT ![p] = 0]
    /\ UNCHANGED admitted

(* Mutant of Sweep: every bucket not used in this instant is idle. *)
SweepEager(p, from, kind, to) ==
    LET idle == {b \in OwnedBy(gate[p]) \cap present : Kind[b] = kind /\ now[p] > seen[b]}
    IN  /\ pc[p] = from
        /\ pc' = [pc EXCEPT ![p] = to]
        /\ present' = present \ idle
        /\ UNCHANGED <<clock, calls, lim, seen, taken, callVars, admitted>>

(* evictIdle of one registry.  A reservation held on an evicted bucket
   keeps pointing at the old limiter. *)
Sweep(p, from, kind, to) ==
    LET idle == {b \in OwnedBy(gate[p]) \cap present :
                    Kind[b] = kind /\ now[p] - seen[b] > IdleTTL}
    IN  /\ pc[p] = from
        /\ pc' = [pc EXCEPT ![p] = to]
        /\ present' = present \ idle
        /\ taken' = [q \in Call |-> [i \in DOMAIN taken[q] |->
                        IF taken[q][i].bucket \in idle
                        THEN [taken[q][i] EXCEPT !.held = FALSE] ELSE taken[q][i]]]
        /\ UNCHANGED <<clock, calls, lim, seen, callVars, admitted>>

SweepUsers(p)   == Sweep(p, "sweepUser", "user", "sweepTarget")
SweepTargets(p) == Sweep(p, "sweepTarget", "target", "take")

(* Mutant of Take: the last delay stands for the longest. *)
TakeLastDelay(p) ==
    /\ pc[p] = "take" /\ Len(taken[p]) < Len(Path(p))
    /\ LET b == Path(p)[Len(taken[p]) + 1]
           L == IF b \in present THEN lim[b] ELSE NewBucket(Cap(b))
           R == ReserveToken(L, Cap(b), Interval[b], now[p])
       IN  /\ present' = present \cup {b}
           /\ seen' = [seen EXCEPT ![b] = now[p]]
           /\ lim' = [lim EXCEPT ![b] = R]
           /\ taken' = [taken EXCEPT ![p] =
                           Append(@, [bucket |-> b, act |-> R.lastEvent, held |-> TRUE])]
           /\ delay' = [delay EXCEPT ![p] = R.lastEvent - now[p]]
    /\ UNCHANGED <<clock, calls, pc, gate, now, reply, admitted>>

(* registry.get and ReserveN on the next bucket of the request. *)
Take(p) ==
    /\ pc[p] = "take" /\ Len(taken[p]) < Len(Path(p))
    /\ LET b == Path(p)[Len(taken[p]) + 1]
           L == IF b \in present THEN lim[b] ELSE NewBucket(Cap(b))
           R == ReserveToken(L, Cap(b), Interval[b], now[p])
       IN  /\ present' = present \cup {b}
           /\ seen' = [seen EXCEPT ![b] = now[p]]
           /\ lim' = [lim EXCEPT ![b] = R]
           /\ taken' = [taken EXCEPT ![p] =
                           Append(@, [bucket |-> b, act |-> R.lastEvent, held |-> TRUE])]
           /\ delay' = [delay EXCEPT ![p] = Most(@, R.lastEvent - now[p])]
    /\ UNCHANGED <<clock, calls, pc, gate, now, reply, admitted>>

TookAll(p) == pc[p] = "take" /\ Len(taken[p]) = Len(Path(p))

(* The last limiter grants: the check is admitted. *)
Admit(p) ==
    /\ TookAll(p) /\ delay[p] = 0
    /\ gate[p] = Len(Gates[p])
    /\ pc' = [pc EXCEPT ![p] = "idle"]
    /\ taken' = [taken EXCEPT ![p] = <<>>]
    /\ admitted' = [b \in Bucket |-> [t \in Times |->
                       admitted[b][t] + (IF b \in Passed(p) /\ now[p] <= t THEN 1 ELSE 0)]]
    /\ UNCHANGED <<clock, calls, present, lim, seen, callVars>>

(* The first limiter grants and the next one is consulted. *)
NextGate(p) ==
    /\ TookAll(p) /\ delay[p] = 0
    /\ gate[p] < Len(Gates[p])
    /\ Enter(p, gate[p] + 1)
    /\ UNCHANGED <<reply, admitted>>

(* Mutant of Reject: the reservation that granted first is kept. *)
RejectKeepsFirst(p) ==
    /\ TookAll(p) /\ delay[p] > 0
    /\ pc' = [pc EXCEPT ![p] = "cancel"]
    /\ taken' = [taken EXCEPT ![p] = Tail(@)]
    /\ UNCHANGED <<clock, calls, present, lim, seen, callVars, admitted>>

(* The call is rejected: the rollback begins. *)
Reject(p) ==
    /\ TookAll(p) /\ delay[p] > 0
    /\ pc' = [pc EXCEPT ![p] = "cancel"]
    /\ UNCHANGED <<clock, calls, present, lim, seen, taken, callVars, admitted>>

(* Mutant of Cancel: the reservation is cancelled as of the time it would
   have acted. *)
CancelLater(p) ==
    /\ pc[p] = "cancel" /\ taken[p] # <<>>
    /\ LET r == Head(taken[p])
           b == r.bucket
       IN  lim' = IF r.held
                  THEN [lim EXCEPT ![b] = CancelToken(@, Cap(b), Interval[b], r.act, r.act)]
                  ELSE lim
    /\ taken' = [taken EXCEPT ![p] = Tail(@)]
    /\ UNCHANGED <<clock, calls, present, seen, pc, callVars, admitted>>

Cancel(p) ==
    /\ pc[p] = "cancel" /\ taken[p] # <<>>
    /\ LET r == Head(taken[p])
           b == r.bucket
       IN  lim' = IF r.held
                  THEN [lim EXCEPT ![b] = CancelToken(@, Cap(b), Interval[b], r.act, now[p])]
                  ELSE lim
    /\ taken' = [taken EXCEPT ![p] = Tail(@)]
    /\ UNCHANGED <<clock, calls, present, seen, pc, callVars, admitted>>

(* Mutant of Deny: MaxWait is not applied. *)
DenyUncapped(p) ==
    /\ pc[p] = "cancel" /\ taken[p] = <<>>
    /\ pc' = [pc EXCEPT ![p] = "idle"]
    /\ reply' = [reply EXCEPT ![p] = delay[p]]
    /\ UNCHANGED <<clock, calls, present, lim, seen, gate, now, taken, delay, admitted>>

Deny(p) ==
    /\ pc[p] = "cancel" /\ taken[p] = <<>>
    /\ pc' = [pc EXCEPT ![p] = "idle"]
    /\ reply' = [reply EXCEPT ![p] = Least(delay[p], MaxWait)]
    /\ UNCHANGED <<clock, calls, present, lim, seen, gate, now, taken, delay, admitted>>

Tick ==
    /\ clock < MaxTime
    /\ TicksInCall \/ \A p \in Call : pc[p] = "idle"
    /\ clock' = clock + 1
    /\ UNCHANGED <<calls, present, lim, seen, pc, taken, callVars, admitted>>

Step(p) == \/ Check(p) \/ SweepUsers(p) \/ SweepTargets(p) \/ Take(p) \/ Admit(p)
           \/ NextGate(p) \/ Reject(p) \/ Cancel(p) \/ Deny(p)

Next == Tick \/ \E p \in Call : Step(p)

Spec == Init /\ [][Next]_vars

-----------------------------------------------------------------------------
TypeOK ==
    /\ clock \in 0..MaxTime
    /\ calls \in [Limiters -> 0..MaxChecks]
    /\ present \subseteq Bucket
    /\ DOMAIN lim = Bucket
    /\ \A b \in Bucket : lim[b].credit \in Int /\ lim[b].credit <= Cap(b)
                         /\ {lim[b].last, lim[b].lastEvent} \subseteq Nat
    /\ seen \in [Bucket -> 0..MaxTime]
    /\ pc \in [Call -> {"idle", "sweepUser", "sweepTarget", "take", "cancel"}]
    /\ gate \in [Call -> Limiters]
    /\ now \in [Call -> 0..MaxTime]
    /\ delay \in [Call -> Nat]
    /\ reply \in [Call -> 0..MaxWait]
    /\ admitted \in [Bucket -> [Times -> Nat]]

(* What bucket b holds now, and, for each window of time that ends at t,
   what Rate and Burst leave in it at t when only the checks admitted so far
   have taken from it: the bucket is due the least of them. *)
Real(b)      == IF b \in present THEN Level(lim[b], Cap(b), clock) ELSE Cap(b)
Before(b, s) == IF s = 0 THEN 0 ELSE admitted[b][s - 1]
Left(b, s, t) == Cap(b) + (t - s) - Interval[b] * (admitted[b][t] - Before(b, s))
Quiet        == \A p \in Call : pc[p] = "idle"

(* Rate and burst hold for the checks that are admitted: in no window of
   time, judged by the clock each call read, were there more than Burst and
   what accrued meanwhile, however calls interleave and whatever is rolled
   back or evicted. *)
WithinRate == \A b \in Bucket : \A t \in 0..clock : \A s \in 0..t : Left(b, s, t) >= 0

(* The weakest form of the same: all in all, a bucket admits no more than
   Burst checks and one more per Interval since it was created. *)
LongRunRate ==
    \A b \in Bucket : Interval[b] * admitted[b][clock] <= Cap(b) + clock

(* A denied check burns no token: between calls every bucket holds what
   the admitted checks have left of it. *)
DeniedBurnsNothing == Quiet => \A b \in Bucket : \E s \in 0..clock : Real(b) >= Left(b, s, clock)

(* The other side of the same balance: cancelling, eviction and lazily
   created buckets never give back more than was taken. *)
NothingForFree == Quiet => \A b \in Bucket : \A s \in 0..clock : Real(b) <= Left(b, s, clock)

(* Every bucket of the caller's request is due a token at t. *)
HasTokens(p, t) ==
    \A i \in DOMAIN Path(p) : \A s \in 0..t : Left(Path(p)[i], s, t) >= Interval[Path(p)[i]]

(* RetryAfter is honest: unless capped, a denied caller that waits as long
   as it is told, alone, finds a token in every bucket, and a tick earlier
   it would not have. *)
HintIsExact ==
    [][\A p \in Call : reply'[p] > 0 /\ reply[p] = 0 /\ delay[p] <= MaxWait =>
          /\ HasTokens(p, now[p] + reply'[p])
          /\ ~HasTokens(p, now[p] + (reply'[p] - 1))]_vars

-----------------------------------------------------------------------------
(* A token taken by a call that has not been decided yet still counts. *)
Pending(b) == IF \E p \in Call : \E i \in DOMAIN taken[p] : taken[p][i].bucket = b
              THEN Interval[b] ELSE 0

Atomic == INSTANCE AtomicLimiter
            WITH Request <- {Passed(p) : p \in Call},
                 Full    <- [b \in Bucket |-> Cap(b)],
                 Cost    <- Interval,
                 level   <- [b \in Bucket |-> Real(b) + Pending(b)]

(* One call at a time, Reserve is all or nothing: its steps, rollback and
   eviction included, are one atomic admission or nothing at all. *)
ImplementsAtomic == Atomic!Spec
=============================================================================
