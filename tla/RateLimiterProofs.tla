-------------------------- MODULE RateLimiterProofs --------------------------
(***************************************************************************)
(* Theorems of RateLimiter, for every set of callers, buckets and gates:   *)
(* what reserving and cancelling do to a bucket, the type invariant, and   *)
(* that Reserve, called one at a time, implements AtomicLimiter.           *)
(***************************************************************************)
EXTENDS RateLimiter, SequenceTheorems, Positions

-----------------------------------------------------------------------------
(* One bucket. *)

Buckets == [credit : Int, last : Nat, lastEvent : Nat]

(* A bucket within its capacity. *)
Sound(L, cap) == L \in Buckets /\ L.credit <= cap

LEMMA NewBucketFacts ==
  ASSUME NEW cap \in Nat
  PROVE  Sound(NewBucket(cap), cap) /\ \A t \in Nat : Level(NewBucket(cap), cap, t) = cap
BY DEF Sound, Buckets, NewBucket, Level, Least, Most

LEMMA LevelFacts ==
  ASSUME NEW cap \in Nat, NEW L, Sound(L, cap), NEW t \in Nat
  PROVE  /\ Level(L, cap, t) \in Int /\ L.credit <= Level(L, cap, t) /\ Level(L, cap, t) <= cap
         /\ L.last <= t => Level(L, cap, t + 1) = Least(cap, Level(L, cap, t) + 1)
         /\ L.credit >= 0 /\ L.last + cap <= t => Level(L, cap, t) = cap
         /\ L.last = t => Level(L, cap, t) = L.credit
BY DEF Sound, Buckets, Level, Least, Most

(* ReserveN takes the token at once, and tells how long to wait for it. *)
LEMMA ReserveFacts ==
  ASSUME NEW cap \in Nat, NEW cost \in Nat \ {0}, NEW L, Sound(L, cap), NEW t \in Nat
  PROVE  LET R == ReserveToken(L, cap, cost, t)
         IN  /\ Sound(R, cap) /\ R.last = t
             /\ R.credit = Level(L, cap, t) - cost
             /\ Level(R, cap, t) = Level(L, cap, t) - cost
             /\ R.lastEvent = t + Most(0, 0 - R.credit)
<1> DEFINE c == Level(L, cap, t) - cost
           R == ReserveToken(L, cap, cost, t)
<1>1. Level(L, cap, t) \in Int /\ Level(L, cap, t) <= cap
  BY LevelFacts
<1>2. c \in Int /\ c <= cap /\ Most(0, -c) \in Nat /\ -c = 0 - c
  BY <1>1 DEF Most
<1> HIDE DEF c
<1>3. R = [credit |-> c, last |-> t, lastEvent |-> t + Most(0, -c)]
  BY DEF ReserveToken, c
<1> HIDE DEF R
<1>4. Sound(R, cap) /\ R.last = t /\ R.credit = c /\ R.lastEvent = t + Most(0, 0 - R.credit)
  BY <1>2, <1>3 DEF Sound, Buckets
<1>5. Level(R, cap, t) = c
  BY <1>4, LevelFacts
<1> QED
  BY <1>4, <1>5 DEF c, R

(* CancelAt of the last reservation gives back all of its token; a bucket
   never exceeds its capacity, whatever is cancelled and when. *)
LEMMA CancelFacts ==
  ASSUME NEW cap \in Nat, NEW cost \in Nat \ {0}, NEW L, Sound(L, cap), NEW act \in Nat,
         NEW t \in Nat
  PROVE  LET C == CancelToken(L, cap, cost, act, t)
         IN  /\ Sound(C, cap)
             /\ act >= t /\ act = L.lastEvent /\ Level(L, cap, t) + cost <= cap =>
                   C.last = t /\ C.credit = Level(L, cap, t) + cost
<1> DEFINE restore == cost - (L.lastEvent - act)
           C       == CancelToken(L, cap, cost, act, t)
           event   == IF act = L.lastEvent /\ act - cost >= t THEN act - cost ELSE L.lastEvent
<1>1. Level(L, cap, t) \in Int /\ L.lastEvent \in Nat
  BY LevelFacts DEF Sound, Buckets
<1>2. restore \in Int /\ event \in Nat
  BY <1>1
<1> HIDE DEF event
<1>3. Least(cap, Level(L, cap, t) + restore) \in Int
      /\ Least(cap, Level(L, cap, t) + restore) <= cap
  BY <1>1, <1>2 DEF Least
<1>4. CASE act < t \/ restore <= 0
  <2>1. C = L
    BY <1>4 DEF CancelToken
  <2>2. ~(act >= t /\ act = L.lastEvent)
    BY <1>1, <1>4
  <2> QED
    BY <2>1, <2>2
<1>5. CASE ~(act < t \/ restore <= 0)
  <2>1. C = [credit |-> Least(cap, Level(L, cap, t) + restore), last |-> t, lastEvent |-> event]
    BY <1>5 DEF CancelToken, event
  <2> HIDE DEF C
  <2>2. Sound(C, cap) /\ C.last = t /\ C.credit = Least(cap, Level(L, cap, t) + restore)
    BY <1>2, <1>3, <2>1 DEF Sound, Buckets
  <2>3. act = L.lastEvent /\ Level(L, cap, t) + cost <= cap =>
           Least(cap, Level(L, cap, t) + restore) = Level(L, cap, t) + cost
    BY <1>1 DEF Least
  <2> QED
    BY <2>2, <2>3 DEF C
<1> QED
  BY <1>4, <1>5

-----------------------------------------------------------------------------
(* The constants. *)

LEMMA BucketFacts ==
  ASSUME NEW b \in Bucket
  PROVE  Cap(b) \in Nat \ {0} /\ Burst[b] \in Nat \ {0} /\ Interval[b] \in Nat \ {0}
<1>1. Burst[b] \in Nat \ {0} /\ Interval[b] \in Nat \ {0}
  BY BucketAssumption DEF ValidScopes
<1>2. \A m, n \in Nat \ {0} : m * n \in Nat \ {0}
  OBVIOUS
<1> QED
  BY <1>1, <1>2 DEF Cap

LEMMA GateFacts ==
  ASSUME NEW p \in Call
  PROVE  /\ Len(Gates[p]) \in Nat \ {0} /\ DOMAIN Gates[p] = 1..Len(Gates[p])
         /\ \A g \in DOMAIN Gates[p] :
               /\ g \in Limiters /\ Gates[p][g] \in Seq(Bucket)
               /\ Len(Gates[p][g]) \in Nat \ {0}
<1>1. Gates[p] \in Seq(Seq(Bucket) \ {<<>>}) /\ Gates[p] # <<>>
  BY GatesAssumption
<1>2. Len(Gates[p]) \in Nat \ {0} /\ DOMAIN Gates[p] = 1..Len(Gates[p])
  BY <1>1, EmptySeq, LenProperties
<1>3. ASSUME NEW g \in DOMAIN Gates[p]
      PROVE  g \in Limiters /\ Gates[p][g] \in Seq(Bucket) /\ Len(Gates[p][g]) \in Nat \ {0}
  <2>1. Gates[p][g] \in Seq(Bucket) \ {<<>>}
    BY <1>1, <1>2, ElementOfSeq
  <2>2. Len(Gates[p][g]) \in Nat \ {0}
    BY <2>1, EmptySeq
  <2> QED
    BY <2>1, <2>2 DEF Limiters
<1> QED
  BY <1>2, <1>3

(* The limiters are numbered from 1, and one comes after another. *)
LEMMA LimiterFacts ==
  /\ Limiters \subseteq Nat \ {0}
  /\ \A p \in Call : 1 \in Limiters
  /\ \A g \in Limiters : g # 1 => g - 1 \in Limiters
<1>1. \A g \in Limiters : \E p \in Call : g \in 1..Len(Gates[p]) /\ Len(Gates[p]) \in Nat
  BY GateFacts DEF Limiters
<1>2. \A p \in Call : \A g \in 1..Len(Gates[p]) : g \in Limiters
  BY GateFacts
<1>3. \A p \in Call : 1 \in 1..Len(Gates[p])
  BY GateFacts
<1> QED
  BY <1>1, <1>2, <1>3

-----------------------------------------------------------------------------
(* The inductive invariant of the type theorem.  What bounds the counter of
   the second limiter is that nobody reaches it but from the first. *)

Entries == [bucket : Bucket, act : Nat, held : BOOLEAN]

Shapes ==
    /\ clock \in 0..MaxTime
    /\ calls \in [Limiters -> Nat]
    /\ present \subseteq Bucket
    /\ lim \in [Bucket -> Buckets] /\ \A b \in Bucket : Sound(lim[b], Cap(b))
    /\ seen \in [Bucket -> 0..MaxTime]
    /\ pc \in [Call -> {"idle", "sweepUser", "sweepTarget", "take", "cancel"}]
    /\ gate \in [Call -> Limiters] /\ \A p \in Call : gate[p] \in DOMAIN Gates[p]
    /\ now \in [Call -> 0..MaxTime]
    /\ taken \in [Call -> Seq(Entries)]
    /\ delay \in [Call -> Nat]
    /\ reply \in [Call -> 0..MaxWait]
    /\ admitted \in [Bucket -> [Times -> Nat]]

At(g) == {p \in Call : pc[p] # "idle" /\ gate[p] = g}

Counted ==
    /\ \A g \in Limiters : IsFiniteSet(At(g))
    /\ \A g \in Limiters : g + 1 \in Limiters => calls[g + 1] + Cardinality(At(g)) <= calls[g]
    /\ 1 \in Limiters => calls[1] <= MaxChecks

LEMMA CallsAreBounded ==
  ASSUME Shapes, Counted
  PROVE  \A g \in Limiters : calls[g] <= MaxChecks
<1> DEFINE Over == {g \in Limiters : ~(calls[g] <= MaxChecks)}
<1>1. SUFFICES ASSUME Over # {}
               PROVE  FALSE
  OBVIOUS
<1>2. Over \in SUBSET Nat
  BY LimiterFacts
<1>3. PICK g \in Over : \A k \in Over : g <= k
  BY <1>1, <1>2, FirstPosition
<1>4. g \in Limiters /\ g \in Nat \ {0} /\ g # 1 /\ g - 1 \in Limiters /\ (g - 1) + 1 = g
  BY LimiterFacts DEF Counted
<1>5. calls[g] + Cardinality(At(g - 1)) <= calls[g - 1] /\ Cardinality(At(g - 1)) \in Nat
  BY <1>4, FS_CardinalityType DEF Counted
<1>6. calls[g - 1] <= MaxChecks
  BY <1>3, <1>4
<1> QED
  BY <1>4, <1>5, <1>6, NumbersAssumption DEF Shapes

LEMMA ShapesGiveTypes ==
  Shapes /\ Counted => TypeOK
<1> SUFFICES ASSUME Shapes, Counted
             PROVE  TypeOK
  OBVIOUS
<1>1. calls \in [Limiters -> 0..MaxChecks]
  BY CallsAreBounded, NumbersAssumption DEF Shapes
<1>2. DOMAIN lim = Bucket
      /\ \A b \in Bucket : lim[b].credit \in Int /\ lim[b].credit <= Cap(b)
                           /\ {lim[b].last, lim[b].lastEvent} \subseteq Nat
  BY DEF Shapes, Sound, Buckets
<1> QED
  BY <1>1, <1>2 DEF Shapes, TypeOK

LEMMA InitShapes ==
  Init => Shapes /\ Counted
<1> SUFFICES ASSUME Init
             PROVE  Shapes /\ Counted
  OBVIOUS
<1>1. lim \in [Bucket -> Buckets] /\ \A b \in Bucket : Sound(lim[b], Cap(b))
  <2>1. \A b \in Bucket : Sound(NewBucket(Cap(b)), Cap(b))
    BY BucketFacts, NewBucketFacts
  <2> QED
    BY <2>1 DEF Init, Sound
<1>2. gate \in [Call -> Limiters] /\ \A p \in Call : gate[p] \in DOMAIN Gates[p]
  BY GateFacts DEF Init
<1>3. taken \in [Call -> Seq(Entries)]
  BY EmptySeq DEF Init
<1>4. Shapes
  BY <1>1, <1>2, <1>3, NumbersAssumption DEF Init, Shapes, Times
<1>5. \A g \in Limiters : At(g) = {}
  BY DEF Init, At
<1>6. Counted
  <2>1. \A g \in Limiters : IsFiniteSet(At(g)) /\ Cardinality(At(g)) = 0
    BY <1>5, FS_EmptySet
  <2>2. \A g \in Limiters : calls[g] = 0
    BY DEF Init
  <2> QED
    BY <2>1, <2>2, NumbersAssumption DEF Counted
<1> QED
  BY <1>4, <1>6

-----------------------------------------------------------------------------
(* Every step keeps the shapes. *)

LEMMA EnterShapes ==
  ASSUME Shapes, NEW p \in Call, NEW g \in DOMAIN Gates[p], Enter(p, g),
         reply' \in [Call -> 0..MaxWait], admitted' = admitted
  PROVE  Shapes'
<1>1. g \in Limiters
  BY GateFacts
<1>2. calls' \in [Limiters -> Nat]
  BY <1>1 DEF Shapes, Enter
<1>3. pc' \in [Call -> {"idle", "sweepUser", "sweepTarget", "take", "cancel"}]
  BY DEF Shapes, Enter
<1>4. gate' \in [Call -> Limiters] /\ \A q \in Call : gate'[q] \in DOMAIN Gates[q]
  BY <1>1 DEF Shapes, Enter
<1>5. now' \in [Call -> 0..MaxTime] /\ delay' \in [Call -> Nat]
  BY DEF Shapes, Enter
<1>6. taken' \in [Call -> Seq(Entries)]
  BY EmptySeq DEF Shapes, Enter
<1> QED
  BY <1>2, <1>3, <1>4, <1>5, <1>6 DEF Shapes, Enter

LEMMA SweepShapes ==
  ASSUME Shapes, NEW p \in Call, NEW from, NEW kind, NEW to \in {"sweepTarget", "take"},
         Sweep(p, from, kind, to)
  PROVE  Shapes'
<1> DEFINE idle == {b \in OwnedBy(gate[p]) \cap present : Kind[b] = kind /\ now[p] - seen[b] > IdleTTL}
           Drop(e) == IF e.bucket \in idle THEN [e EXCEPT !.held = FALSE] ELSE e
<1>1. taken' = [q \in Call |-> [i \in DOMAIN taken[q] |-> Drop(taken[q][i])]]
      /\ present' = present \ idle
  BY DEF Sweep
<1>2. \A e \in Entries : Drop(e) \in Entries
  <2> HIDE DEF idle
  <2> QED
    BY DEF Entries
<1> HIDE DEF Drop, idle
<1>3. ASSUME NEW q \in Call
      PROVE  taken'[q] \in Seq(Entries)
  <2>1. taken[q] \in Seq(Entries) /\ taken'[q] = [i \in DOMAIN taken[q] |-> Drop(taken[q][i])]
    BY <1>1 DEF Shapes
  <2>2. Len(taken[q]) \in Nat /\ DOMAIN taken[q] = 1..Len(taken[q])
        /\ \A i \in 1..Len(taken[q]) : taken[q][i] \in Entries
    BY <2>1, LenProperties, ElementOfSeq
  <2>3. taken'[q] \in [1..Len(taken[q]) -> Entries]
    BY <1>2, <2>1, <2>2
  <2> QED
    BY <2>2, <2>3, SeqDef
<1>4. taken' \in [Call -> Seq(Entries)]
  BY <1>1, <1>3
<1>5. pc' \in [Call -> {"idle", "sweepUser", "sweepTarget", "take", "cancel"}]
  BY DEF Shapes, Sweep
<1>6. present' \subseteq Bucket
  BY <1>1 DEF Shapes
<1> QED
  BY <1>4, <1>5, <1>6 DEF Shapes, Sweep, callVars

(* The bucket a caller takes from next. *)
Following(p) == Path(p)[Len(taken[p]) + 1]

LEMMA FollowingFacts ==
  ASSUME Shapes, NEW p \in Call, Len(taken[p]) < Len(Path(p))
  PROVE  /\ Following(p) \in Bucket /\ Len(taken[p]) \in Nat
         /\ Len(taken[p]) + 1 \in 1..Len(Path(p)) /\ DOMAIN Path(p) = 1..Len(Path(p))
<1>1. Path(p) \in Seq(Bucket)
  BY GateFacts DEF Shapes, Path
<1>2. Len(Path(p)) \in Nat /\ DOMAIN Path(p) = 1..Len(Path(p))
  BY <1>1, LenProperties
<1>3. Len(taken[p]) \in Nat
  BY LenProperties DEF Shapes
<1>4. Len(taken[p]) + 1 \in 1..Len(Path(p))
  BY <1>2, <1>3
<1>5. Following(p) \in Bucket
  BY <1>1, <1>4, ElementOfSeq DEF Following
<1> QED
  BY <1>2, <1>3, <1>4, <1>5

LEMMA TakeShapes ==
  ASSUME Shapes, NEW p \in Call, Take(p)
  PROVE  Shapes'
<1> DEFINE b == Following(p)
           L == IF b \in present THEN lim[b] ELSE NewBucket(Cap(b))
           R == ReserveToken(L, Cap(b), Interval[b], now[p])
           e == [bucket |-> b, act |-> R.lastEvent, held |-> TRUE]
<1>1. /\ present' = present \cup {b} /\ seen' = [seen EXCEPT ![b] = now[p]]
      /\ lim' = [lim EXCEPT ![b] = R] /\ taken' = [taken EXCEPT ![p] = Append(@, e)]
      /\ delay' = [delay EXCEPT ![p] = Most(@, R.lastEvent - now[p])]
      /\ UNCHANGED <<clock, calls, pc, gate, now, reply, admitted>>
  BY DEF Take, Following
<1>2. b \in Bucket
  BY FollowingFacts DEF Take
<1>3. Cap(b) \in Nat /\ Interval[b] \in Nat \ {0} /\ now[p] \in Nat
  BY <1>2, BucketFacts, NumbersAssumption DEF Shapes
<1>4. Sound(L, Cap(b))
  BY <1>2, <1>3, NewBucketFacts DEF Shapes
<1> HIDE DEF b, L
<1>5. Sound(R, Cap(b)) /\ R.last = now[p] /\ R.lastEvent = now[p] + Most(0, 0 - R.credit)
  <2>1. ASSUME NEW cap \in Nat, NEW cost \in Nat \ {0}, NEW M, Sound(M, cap), NEW t \in Nat,
               NEW Q, Q = ReserveToken(M, cap, cost, t)
        PROVE  Sound(Q, cap) /\ Q.last = t /\ Q.lastEvent = t + Most(0, 0 - Q.credit)
    BY <2>1, ReserveFacts
  <2>2. R = ReserveToken(L, Cap(b), Interval[b], now[p])
    OBVIOUS
  <2> HIDE DEF R
  <2> QED
    BY <1>3, <1>4, <2>1, <2>2
<1> HIDE DEF R
<1>6. R \in Buckets /\ R.lastEvent \in Nat /\ R.lastEvent - now[p] \in Nat
  BY <1>3, <1>5 DEF Sound, Buckets, Most
<1>7. lim' \in [Bucket -> Buckets] /\ \A c \in Bucket : Sound(lim'[c], Cap(c))
  BY <1>1, <1>5, <1>6 DEF Shapes
<1>8. e \in Entries
  BY <1>2, <1>6 DEF Entries
<1> HIDE DEF e
<1>9. taken' \in [Call -> Seq(Entries)]
  <2>1. Append(taken[p], e) \in Seq(Entries)
    BY <1>8, AppendProperties DEF Shapes
  <2> QED
    BY <1>1, <2>1 DEF Shapes
<1>10. delay' \in [Call -> Nat]
  BY <1>1, <1>6 DEF Shapes, Most
<1>11. seen' \in [Bucket -> 0..MaxTime] /\ present' \subseteq Bucket
  BY <1>1, <1>2 DEF Shapes
<1> QED
  BY <1>1, <1>7, <1>9, <1>10, <1>11 DEF Shapes

LEMMA AdmitShapes ==
  ASSUME Shapes, NEW p \in Call, Admit(p)
  PROVE  Shapes'
<1>1. ASSUME NEW b \in Bucket, NEW t \in Times, NEW n \in {0, 1}
      PROVE  admitted[b][t] + n \in Nat
  BY DEF Shapes
<1>2. ASSUME NEW b \in Bucket
      PROVE  admitted'[b] \in [Times -> Nat]
  BY <1>1 DEF Admit
<1>3. admitted' \in [Bucket -> [Times -> Nat]]
  BY <1>2 DEF Admit
<1>4. taken' \in [Call -> Seq(Entries)]
  BY EmptySeq DEF Shapes, Admit
<1>5. pc' \in [Call -> {"idle", "sweepUser", "sweepTarget", "take", "cancel"}]
  BY DEF Shapes, Admit
<1> QED
  BY <1>3, <1>4, <1>5 DEF Shapes, Admit, callVars

LEMMA CancelShapes ==
  ASSUME Shapes, NEW p \in Call, Cancel(p)
  PROVE  Shapes'
<1> DEFINE r == Head(taken[p])
           C == CancelToken(lim[r.bucket], Cap(r.bucket), Interval[r.bucket], r.act, now[p])
<1>1. r \in Entries /\ Tail(taken[p]) \in Seq(Entries)
  BY HeadTailProperties DEF Shapes, Cancel
<1>2. r.bucket \in Bucket /\ r.act \in Nat
  BY <1>1 DEF Entries
<1>3. lim' = IF r.held THEN [lim EXCEPT ![r.bucket] = C] ELSE lim
  BY DEF Cancel
<1> HIDE DEF r
<1>4. Cap(r.bucket) \in Nat /\ Interval[r.bucket] \in Nat \ {0} /\ now[p] \in Nat
  BY <1>2, BucketFacts, NumbersAssumption DEF Shapes
<1>5. Sound(lim[r.bucket], Cap(r.bucket))
  BY <1>2 DEF Shapes
<1>6. Sound(C, Cap(r.bucket))
  BY <1>2, <1>4, <1>5, CancelFacts
<1> HIDE DEF C
<1>7. lim' \in [Bucket -> Buckets] /\ \A c \in Bucket : Sound(lim'[c], Cap(c))
  BY <1>3, <1>6 DEF Shapes, Sound
<1>8. taken' \in [Call -> Seq(Entries)]
  BY <1>1 DEF Shapes, Cancel
<1> QED
  BY <1>7, <1>8 DEF Shapes, Cancel, callVars

LEMMA NextShapes ==
  Shapes /\ [Next]_vars => Shapes'
<1> SUFFICES ASSUME Shapes, [Next]_vars
             PROVE  Shapes'
  OBVIOUS
<1>1. CASE Tick
  BY <1>1, NumbersAssumption DEF Shapes, Tick, callVars
<1>2. ASSUME NEW p \in Call, Step(p)
      PROVE  Shapes'
  <2>1. CASE Check(p)
    <3>1. 1 \in DOMAIN Gates[p]
      BY GateFacts
    <3>2. reply' \in [Call -> 0..MaxWait]
      BY <2>1, NumbersAssumption DEF Shapes, Check
    <3> QED
      BY <2>1, <3>1, <3>2, EnterShapes DEF Check
  <2>2. CASE SweepUsers(p)
    BY <2>2, SweepShapes DEF SweepUsers
  <2>3. CASE SweepTargets(p)
    BY <2>3, SweepShapes DEF SweepTargets
  <2>4. CASE Take(p)
    BY <2>4, TakeShapes
  <2>5. CASE Admit(p)
    BY <2>5, AdmitShapes
  <2>6. CASE NextGate(p)
    <3>1. gate[p] + 1 \in DOMAIN Gates[p]
      BY <2>6, GateFacts DEF Shapes, NextGate
    <3>2. reply' \in [Call -> 0..MaxWait]
      BY <2>6 DEF Shapes, NextGate
    <3> QED
      BY <2>6, <3>1, <3>2, EnterShapes DEF NextGate
  <2>7. CASE Reject(p)
    BY <2>7 DEF Shapes, Reject, callVars
  <2>8. CASE Cancel(p)
    BY <2>8, CancelShapes
  <2>9. CASE Deny(p)
    <3>1. Least(delay[p], MaxWait) \in 0..MaxWait
      BY NumbersAssumption DEF Shapes, Least
    <3> QED
      BY <2>9, <3>1 DEF Shapes, Deny
  <2> QED
    BY <1>2, <2>1, <2>2, <2>3, <2>4, <2>5, <2>6, <2>7, <2>8, <2>9 DEF Step
<1>3. CASE UNCHANGED vars
  BY <1>3 DEF Shapes, vars
<1> QED
  BY <1>1, <1>2, <1>3 DEF Next

-----------------------------------------------------------------------------
(* Every step keeps the count: who is counted at a limiter and not at the
   next one is still at it. *)

LEMMA StayCounts ==
  ASSUME Shapes, Counted, calls' = calls, \A g \in Limiters : At(g)' = At(g)
  PROVE  Counted'
BY DEF Counted

LEMMA LeaveCounts ==
  ASSUME Shapes, Counted, NEW p \in Call, pc[p] # "idle", calls' = calls, gate' = gate,
         pc' = [pc EXCEPT ![p] = "idle"]
  PROVE  Counted'
<1>1. \A g \in Limiters : At(g)' = IF g = gate[p] THEN At(g) \ {p} ELSE At(g)
  BY DEF Shapes, At
<1>2. \A g \in Limiters : IsFiniteSet(At(g)') /\ Cardinality(At(g)') <= Cardinality(At(g))
                         /\ {Cardinality(At(g)), Cardinality(At(g)')} \subseteq Nat
  BY <1>1, FS_RemoveElement, FS_CardinalityType DEF Counted
<1>3. \A g \in Limiters : g + 1 \in Limiters => calls[g + 1] + Cardinality(At(g)') <= calls[g]
  <2> SUFFICES ASSUME NEW g \in Limiters, g + 1 \in Limiters
               PROVE  calls[g + 1] + Cardinality(At(g)') <= calls[g]
    OBVIOUS
  <2>1. calls[g + 1] + Cardinality(At(g)) <= calls[g] /\ calls[g] \in Nat /\ calls[g + 1] \in Nat
    BY DEF Shapes, Counted
  <2> QED
    BY <1>2, <2>1
<1> QED
  BY <1>2, <1>3 DEF Counted

LEMMA EnterMoves ==
  ASSUME Shapes, NEW p \in Call, NEW k \in Limiters, Enter(p, k)
  PROVE  /\ \A g \in Limiters : At(g)' = IF g = k THEN At(g) \cup {p} ELSE At(g) \ {p}
         /\ calls'[k] = calls[k] + 1 /\ \A g \in Limiters : g # k => calls'[g] = calls[g]
<1>1. pc'[p] # "idle" /\ gate'[p] = k
      /\ \A q \in Call : q # p => pc'[q] = pc[q] /\ gate'[q] = gate[q]
  BY DEF Shapes, Enter
<1> QED
  BY <1>1 DEF Shapes, Enter, At

LEMMA CheckCounts ==
  ASSUME Shapes, Counted, NEW p \in Call, Check(p)
  PROVE  Counted'
<1>1. 1 \in Limiters /\ Enter(p, 1) /\ calls[1] < MaxChecks
  BY LimiterFacts DEF Check
<1>2. \A g \in Limiters : At(g)' = (IF g = 1 THEN At(g) \cup {p} ELSE At(g)) /\ p \notin At(g)
  BY <1>1, EnterMoves DEF Check, At
<1>3. calls'[1] = calls[1] + 1 /\ \A g \in Limiters : g # 1 => calls'[g] = calls[g]
  BY <1>1, EnterMoves
<1>4. \A g \in Limiters : IsFiniteSet(At(g)')
  BY <1>2, FS_AddElement DEF Counted
<1>5. Cardinality(At(1)') = Cardinality(At(1)) + 1 /\ Cardinality(At(1)) \in Nat
  BY <1>1, <1>2, FS_AddElement, FS_CardinalityType DEF Counted
<1>6. ASSUME NEW g \in Limiters, g + 1 \in Limiters
      PROVE  calls'[g + 1] + Cardinality(At(g)') <= calls'[g]
  <2>1. calls[g + 1] + Cardinality(At(g)) <= calls[g] /\ calls[g] \in Nat /\ calls[g + 1] \in Nat
    BY <1>6 DEF Shapes, Counted
  <2>2. g + 1 # 1 /\ calls'[g + 1] = calls[g + 1]
    BY <1>3, <1>6, LimiterFacts
  <2>3. CASE g = 1
    BY <1>3, <1>5, <2>1, <2>2, <2>3
  <2>4. CASE g # 1
    BY <1>2, <1>3, <2>1, <2>2, <2>4
  <2> QED
    BY <2>3, <2>4
<1>7. calls'[1] <= MaxChecks
  BY <1>1, <1>3, NumbersAssumption DEF Shapes
<1> QED
  BY <1>4, <1>6, <1>7 DEF Counted

LEMMA NextGateCounts ==
  ASSUME Shapes, Counted, NEW p \in Call, NextGate(p)
  PROVE  Counted'
<1>0. PICK k \in Limiters : k = gate[p]
  BY DEF Shapes
<1>1. k + 1 \in Limiters /\ k \in Nat \ {0} /\ Enter(p, k + 1)
  <2>1. k \in Nat \ {0} /\ k < Len(Gates[p]) /\ Enter(p, k + 1)
    BY <1>0, LimiterFacts DEF NextGate
  <2>2. k + 1 \in 1..Len(Gates[p])
    BY <2>1, GateFacts
  <2> QED
    BY <2>1, <2>2, GateFacts
<1>2. p \in At(k) /\ \A g \in Limiters : g # k => p \notin At(g)
  BY <1>0 DEF NextGate, TookAll, At
<1>3. /\ \A g \in Limiters : At(g)' = IF g = k + 1 THEN At(g) \cup {p} ELSE At(g) \ {p}
      /\ calls'[k + 1] = calls[k + 1] + 1
      /\ \A g \in Limiters : g # k + 1 => calls'[g] = calls[g]
  BY <1>1, EnterMoves
<1>4. \A g \in Limiters : IsFiniteSet(At(g)') /\ Cardinality(At(g)) \in Nat
  <2>1. \A g \in Limiters : /\ IsFiniteSet(At(g) \ {p}) /\ IsFiniteSet(At(g) \cup {p})
                            /\ Cardinality(At(g)) \in Nat
    BY FS_AddElement, FS_RemoveElement, FS_CardinalityType DEF Counted
  <2> QED
    BY <1>3, <2>1
<1>5. Cardinality(At(k)') = Cardinality(At(k)) - 1
  <2>1. At(k)' = At(k) \ {p} /\ IsFiniteSet(At(k))
    BY <1>1, <1>3 DEF Counted
  <2> QED
    BY <1>2, <2>1, FS_RemoveElement
<1>6. Cardinality(At(k + 1)') = Cardinality(At(k + 1)) + 1
  <2>1. At(k + 1)' = At(k + 1) \cup {p} /\ IsFiniteSet(At(k + 1)) /\ p \notin At(k + 1)
    BY <1>1, <1>2, <1>3 DEF Counted
  <2> QED
    BY <2>1, FS_AddElement
<1>7. \A g \in Limiters : g # k /\ g # k + 1 => At(g)' = At(g)
  BY <1>2, <1>3
<1>8. ASSUME NEW g \in Limiters, g + 1 \in Limiters
      PROVE  calls'[g + 1] + Cardinality(At(g)') <= calls'[g]
  <2>1. calls[g + 1] + Cardinality(At(g)) <= calls[g] /\ calls[g] \in Nat /\ calls[g + 1] \in Nat
        /\ Cardinality(At(g)) \in Nat /\ g \in Nat
    BY <1>4, <1>8, LimiterFacts DEF Shapes, Counted
  <2>2. CASE g = k
    BY <1>1, <1>3, <1>5, <2>1, <2>2
  <2>3. CASE g = k + 1
    <3>1. g + 1 # k + 1
      BY <1>1, <2>3
    <3> QED
      BY <1>3, <1>6, <1>8, <2>1, <2>3, <3>1
  <2>4. CASE g # k /\ g # k + 1
    <3>1. g + 1 # k + 1
      BY <1>1, <2>1, <2>4
    <3> QED
      BY <1>3, <1>7, <1>8, <2>1, <2>4, <3>1
  <2> QED
    BY <2>2, <2>3, <2>4
<1>9. 1 \in Limiters => calls'[1] <= MaxChecks
  <2>1. 1 # k + 1
    BY <1>1
  <2> QED
    BY <1>3, <2>1 DEF Counted
<1> QED
  BY <1>4, <1>8, <1>9 DEF Counted

LEMMA NextCounts ==
  Shapes /\ Counted /\ [Next]_vars => Counted'
<1> SUFFICES ASSUME Shapes, Counted, [Next]_vars
             PROVE  Counted'
  OBVIOUS
<1>1. CASE Tick \/ UNCHANGED vars
  <2>1. calls' = calls /\ pc' = pc /\ gate' = gate
    BY <1>1 DEF Tick, callVars, vars
  <2> QED
    BY <2>1, StayCounts DEF At
<1>2. ASSUME NEW p \in Call, Step(p)
      PROVE  Counted'
  <2>1. CASE Check(p)
    BY <2>1, CheckCounts
  <2>2. CASE NextGate(p)
    BY <2>2, NextGateCounts
  <2>3. CASE Admit(p)
    BY <2>3, LeaveCounts DEF Admit, TookAll, callVars
  <2>4. CASE Deny(p)
    BY <2>4, LeaveCounts DEF Deny
  <2>5. CASE SweepUsers(p) \/ SweepTargets(p) \/ Take(p) \/ Reject(p) \/ Cancel(p)
    <3>1. calls' = calls /\ gate' = gate
      BY <2>5 DEF SweepUsers, SweepTargets, Sweep, Take, Reject, Cancel, callVars
    <3>2. \A q \in Call : pc'[q] = "idle" <=> pc[q] = "idle"
      BY <2>5 DEF Shapes, SweepUsers, SweepTargets, Sweep, Take, TookAll, Reject, Cancel
    <3> QED
      BY <3>1, <3>2, StayCounts DEF At
  <2> QED
    BY <1>2, <2>1, <2>2, <2>3, <2>4, <2>5 DEF Step
<1> QED
  BY <1>1, <1>2 DEF Next

(* Every variable of the limiter keeps its type.  No bucket ever holds more
   than its burst, whatever is cancelled and however calls interleave, and a
   limiter is consulted at most once per check. *)
THEOREM TypeCorrect == Spec => []TypeOK
<1>1. Init => Shapes /\ Counted
  BY InitShapes
<1>2. Shapes /\ Counted /\ [Next]_vars => (Shapes /\ Counted)'
  BY NextShapes, NextCounts
<1>3. Shapes /\ Counted => TypeOK
  BY ShapesGiveTypes
<1> QED
  BY <1>1, <1>2, <1>3, PTL DEF Spec

-----------------------------------------------------------------------------
(* Reserve called one at a time: no two checks overlap, no time passes
   inside one, each passes one limiter that names no bucket twice, and no
   bucket is evicted before it is full again. *)
OneAtATime ==
    /\ MaxInFlight = 1 /\ ~TicksInCall
    /\ \A p \in Call : Len(Gates[p]) = 1
    /\ \A b \in Bucket : Kind[b] # "global" => Cap(b) <= IdleTTL + 1

(* One caller is at work, and what it holds is what it took on its way. *)
Serial ==
    /\ \A p, q \in Call : pc[p] # "idle" /\ pc[q] # "idle" => p = q
    /\ \A p \in Call : pc[p] # "idle" => now[p] = clock
    /\ \A p \in Call : pc[p] \in {"idle", "sweepUser", "sweepTarget"} => taken[p] = <<>>
    /\ \A p \in Call : pc[p] = "take" =>
          /\ Len(taken[p]) <= Len(Path(p))
          /\ \A i \in 1..Len(taken[p]) : /\ taken[p][i].bucket = Path(p)[i]
                                        /\ taken[p][i].act - clock <= delay[p]

(* What it holds can be given back, and without it nobody is in debt. *)
Refundable(p, i) ==
    LET r == taken[p][i]
    IN  /\ r.held /\ r.bucket \in present
        /\ lim[r.bucket].last = clock /\ lim[r.bucket].lastEvent = r.act
        /\ r.act = clock + Most(0, 0 - lim[r.bucket].credit)
        /\ lim[r.bucket].credit + Interval[r.bucket] <= Cap(r.bucket)
        /\ \A j \in 1..Len(taken[p]) : j # i => taken[p][j].bucket # r.bucket

Solvent ==
    /\ \A p \in Call : \A i \in 1..Len(taken[p]) : Refundable(p, i)
    /\ \A b \in present : /\ lim[b].last = seen[b] /\ seen[b] <= clock
                          /\ lim[b].credit + Pending(b) >= 0

SameLevels == \A b \in Bucket : Real(b)' + Pending(b)' = Real(b) + Pending(b)

LEMMA OneGate ==
  ASSUME OneAtATime, Shapes, NEW p \in Call
  PROVE  /\ Len(Gates[p]) = 1 /\ gate[p] = 1 /\ Path(p) = Gates[p][1]
         /\ Passed(p) = {Path(p)[i] : i \in DOMAIN Path(p)}
         /\ \A i, j \in DOMAIN Path(p) : Path(p)[i] = Path(p)[j] => i = j
<1>1. Len(Gates[p]) = 1 /\ DOMAIN Gates[p] = {1}
  BY GateFacts DEF OneAtATime
<1>2. gate[p] = 1 /\ Path(p) = Gates[p][1]
  BY <1>1 DEF Shapes, Path
<1>3. Passed(p) = {Path(p)[i] : i \in DOMAIN Path(p)}
  BY <1>1, <1>2 DEF Passed
<1> QED
  BY <1>1, <1>2, <1>3, GatesAssumption

LEMMA NobodyElse ==
  ASSUME Shapes, Serial, NEW p \in Call, pc[p] # "idle"
  PROVE  /\ now[p] = clock
         /\ \A q \in Call : q # p => pc[q] = "idle" /\ taken[q] = <<>> /\ Len(taken[q]) = 0
BY EmptySeq DEF Serial

LEMMA CheckIsAlone ==
  ASSUME OneAtATime, Serial, NEW p \in Call, Check(p)
  PROVE  \A q \in Call : pc[q] = "idle"
<1> DEFINE Active == {q \in Call : pc[q] # "idle"}
<1>1. SUFFICES ASSUME NEW q \in Call, pc[q] # "idle"
               PROVE  FALSE
  OBVIOUS
<1>2. Active = {q}
  BY <1>1 DEF Serial
<1>3. Cardinality(Active) = 1 /\ Cardinality(Active) < 1
  BY <1>2, FS_Singleton DEF Check, OneAtATime
<1> QED
  BY <1>3

LEMMA SweepHoldsNothing ==
  ASSUME Shapes, Serial, Shapes', NEW p \in Call, NEW from \in {"sweepUser", "sweepTarget"},
         NEW kind, NEW to, Sweep(p, from, kind, to)
  PROVE  taken' = taken /\ \A q \in Call : taken[q] = <<>>
<1>1. \A q \in Call : taken[q] = <<>>
  BY NobodyElse DEF Serial, Sweep
<1>2. \A q \in Call : DOMAIN taken'[q] = DOMAIN taken[q]
  BY DEF Sweep
<1>3. ASSUME NEW q \in Call
      PROVE  taken'[q] = <<>>
  <2>1. taken'[q] \in Seq(Entries) /\ taken[q] \in Seq(Entries)
    BY DEF Shapes
  <2>2. DOMAIN taken'[q] = 1..Len(taken'[q]) /\ DOMAIN taken[q] = 1..Len(taken[q])
        /\ Len(taken'[q]) \in Nat
    BY <2>1, LenProperties
  <2>3. Len(taken[q]) = 0
    BY <1>1, EmptySeq
  <2>4. Len(taken'[q]) = 0
    BY <1>2, <2>2, <2>3
  <2> QED
    BY <2>1, <2>4, EmptySeq
<1> QED
  BY <1>1, <1>3 DEF Shapes

LEMMA InitSerial ==
  Init => Serial /\ Solvent
<1> SUFFICES ASSUME Init
             PROVE  Serial /\ Solvent
  OBVIOUS
<1>1. \A p \in Call : pc[p] = "idle" /\ taken[p] = <<>> /\ Len(taken[p]) = 0
  BY EmptySeq DEF Init
<1>2. \A b \in Bucket : lim[b].last = seen[b] /\ seen[b] <= clock
                       /\ lim[b].credit + Pending(b) >= 0
  <2> SUFFICES ASSUME NEW b \in Bucket
               PROVE  lim[b].last = seen[b] /\ seen[b] <= clock /\ lim[b].credit + Pending(b) >= 0
    OBVIOUS
  <2>1. lim[b].last = 0 /\ seen[b] = 0 /\ clock = 0 /\ lim[b].credit = Cap(b)
    BY DEF Init, NewBucket
  <2>2. Pending(b) \in Nat /\ Cap(b) \in Nat
    BY BucketFacts DEF Pending
  <2> QED
    BY <2>1, <2>2
<1>3. present \subseteq Bucket
  BY DEF Init
<1>4. Serial
  BY <1>1 DEF Serial
<1> QED
  BY <1>1, <1>2, <1>3, <1>4 DEF Solvent

-----------------------------------------------------------------------------
(* One step at a time, serial. *)

LEMMA NextSerial ==
  ASSUME OneAtATime, Shapes, Serial, Solvent, [Next]_vars, Shapes'
  PROVE  Serial'
<1>1. CASE Tick
  <2>1. \A p \in Call : pc[p] = "idle"
    BY <1>1 DEF Tick, OneAtATime
  <2> QED
    BY <1>1, <2>1 DEF Tick, callVars, Serial
<1>2. ASSUME NEW p \in Call, Step(p)
      PROVE  Serial'
  <2>1. CASE Check(p)
    <3>1. \A q \in Call : pc[q] = "idle" /\ taken[q] = <<>>
      BY <2>1, CheckIsAlone DEF Serial
    <3>2. /\ pc'[p] \in {"sweepUser", "take"} /\ \A q \in Call : q # p => pc'[q] = pc[q]
          /\ now'[p] = clock /\ clock' = clock
          /\ \A q \in Call : taken'[q] = <<>>
      BY <2>1, <3>1 DEF Check, Enter, Shapes
    <3>3. \A q \in Call : Len(taken'[q]) = 0
      BY <3>2, EmptySeq
    <3>4. \A q \in Call : Len(Path(q)') \in Nat
      BY GateFacts DEF Shapes, Path
    <3> QED
      BY <3>1, <3>2, <3>3, <3>4 DEF Serial
  <2>2. CASE SweepUsers(p) \/ SweepTargets(p)
    <3>1. /\ pc[p] \in {"sweepUser", "sweepTarget"} /\ pc'[p] \in {"sweepTarget", "take"}
          /\ \A q \in Call : q # p => pc'[q] = pc[q]
          /\ UNCHANGED <<clock, now, delay, gate>>
      BY <2>2 DEF SweepUsers, SweepTargets, Sweep, Shapes, callVars
    <3>4. \A q \in Call : taken'[q] = <<>> /\ Len(taken'[q]) = 0
      BY <2>2, SweepHoldsNothing, EmptySeq DEF SweepUsers, SweepTargets
    <3>5. \A q \in Call : Len(Path(q)') \in Nat
      BY GateFacts DEF Shapes, Path
    <3> QED
      BY <3>1, <3>4, <3>5 DEF Serial
  <2>3. CASE Take(p)
    <3> DEFINE b == Following(p)
               n == Len(taken[p])
               R == ReserveToken(IF b \in present THEN lim[b] ELSE NewBucket(Cap(b)),
                                 Cap(b), Interval[b], now[p])
               e == [bucket |-> b, act |-> R.lastEvent, held |-> TRUE]
    <3>1. /\ taken' = [taken EXCEPT ![p] = Append(@, e)]
          /\ delay' = [delay EXCEPT ![p] = Most(@, R.lastEvent - now[p])]
          /\ UNCHANGED <<clock, pc, gate, now>> /\ pc[p] = "take" /\ n < Len(Path(p))
      BY <2>3 DEF Take, Following
    <3>2. n \in Nat /\ n + 1 \in 1..Len(Path(p)) /\ Len(Path(p)) \in Nat
      BY <3>1, FollowingFacts, GateFacts DEF Shapes, Path
    <3>3. taken'[p] = Append(taken[p], e) /\ e.bucket = Path(p)[n + 1] /\ e.act = R.lastEvent
      BY <3>1 DEF Shapes, Following
    <3> HIDE DEF e, R
    <3>4. taken'[p] \in Seq(Entries)
      BY DEF Shapes
    <3>5. Len(taken'[p]) = n + 1 /\ taken'[p][n + 1] = e
          /\ \A i \in 1..n : taken'[p][i] = taken[p][i]
      <4>1. taken[p] \in Seq(Entries) /\ taken[p] \in Seq(Entries \cup {e}) /\ e \in Entries \cup {e}
        BY SeqMonotonic DEF Shapes
      <4> QED
        BY <3>3, <4>1, AppendProperties
    <3>6. R.lastEvent - now[p] \in Int /\ now[p] = clock /\ R.lastEvent - clock <= delay'[p]
          /\ delay[p] <= delay'[p] /\ delay[p] \in Nat /\ clock \in Nat /\ R.lastEvent \in Int
      <4>1. taken'[p][n + 1] \in Entries
        BY <3>2, <3>4, <3>5, ElementOfSeq
      <4>2. R.lastEvent \in Nat
        BY <3>3, <3>5, <4>1 DEF Entries
      <4>3. now[p] = clock /\ clock \in Nat
        BY <3>1, NumbersAssumption DEF Shapes, Serial
      <4> QED
        BY <3>1, <4>2, <4>3 DEF Shapes, Most
    <3>7. Path(p)' = Path(p)
      BY <3>1 DEF Path
    <3>8. \A i \in 1..Len(taken'[p]) : taken'[p][i].bucket = Path(p)[i]
                                     /\ taken'[p][i].act - clock <= delay'[p]
      <4> SUFFICES ASSUME NEW i \in 1..(n + 1)
                   PROVE  taken'[p][i].bucket = Path(p)[i] /\ taken'[p][i].act - clock <= delay'[p]
        BY <3>5
      <4>1. CASE i = n + 1
        BY <3>3, <3>5, <3>6, <4>1
      <4>2. CASE i \in 1..n
        <5>1. taken'[p][i].bucket = Path(p)[i] /\ taken'[p][i].act - clock <= delay[p]
          BY <3>1, <3>5, <4>2 DEF Serial
        <5>2. taken'[p][i] \in Entries
          BY <3>4, <3>5, ElementOfSeq
        <5>3. taken'[p][i].act \in Nat /\ delay'[p] \in Nat
          BY <5>2 DEF Entries, Shapes
        <5>4. taken'[p][i].act - clock <= delay'[p]
          BY <3>6, <5>1, <5>3
        <5> QED
          BY <5>1, <5>4
      <4> QED
        BY <3>2, <4>1, <4>2
    <3>9. \A q \in Call : q # p => pc[q] = "idle" /\ taken'[q] = taken[q]
      BY <3>1, NobodyElse
    <3> QED
      BY <3>1, <3>2, <3>5, <3>7, <3>8, <3>9 DEF Serial
  <2>4. CASE Admit(p)
    <3>1. /\ pc'[p] = "idle" /\ taken'[p] = <<>> /\ UNCHANGED <<clock, now, gate, delay>>
          /\ \A q \in Call : q # p => pc[q] = "idle" /\ pc'[q] = pc[q] /\ taken'[q] = taken[q]
      BY <2>4, NobodyElse DEF Admit, TookAll, Shapes, callVars
    <3> QED
      BY <3>1 DEF Serial
  <2>5. CASE NextGate(p)
    <3>1. gate[p] = 1 /\ gate[p] < Len(Gates[p]) /\ Len(Gates[p]) = 1
      BY <2>5, OneGate DEF NextGate
    <3> QED
      BY <3>1
  <2>6. CASE Reject(p)
    <3>1. /\ pc[p] # "idle" /\ pc'[p] = "cancel" /\ UNCHANGED <<clock, now, gate, delay, taken>>
          /\ \A q \in Call : q # p => pc'[q] = pc[q]
      BY <2>6 DEF Reject, TookAll, Shapes, callVars
    <3>2. \A q \in Call : q # p => pc[q] = "idle"
      BY <3>1, NobodyElse
    <3> QED
      BY <3>1, <3>2 DEF Serial
  <2>7. CASE Cancel(p)
    <3>1. /\ pc[p] = "cancel" /\ UNCHANGED <<clock, now, gate, delay, pc>>
          /\ \A q \in Call : q # p => taken'[q] = taken[q]
      BY <2>7 DEF Cancel, Shapes, callVars
    <3> QED
      BY <3>1, NobodyElse DEF Serial
  <2>8. CASE Deny(p)
    <3>1. /\ pc[p] # "idle" /\ pc'[p] = "idle" /\ taken[p] = <<>>
          /\ UNCHANGED <<clock, now, gate, delay, taken>>
          /\ \A q \in Call : q # p => pc'[q] = pc[q]
      BY <2>8 DEF Deny, Shapes
    <3>2. \A q \in Call : q # p => pc[q] = "idle"
      BY <3>1, NobodyElse
    <3> QED
      BY <3>1, <3>2 DEF Serial
  <2> QED
    BY <1>2, <2>1, <2>2, <2>3, <2>4, <2>5, <2>6, <2>7, <2>8 DEF Step
<1>3. CASE UNCHANGED vars
  <2>1. \A q \in Call : Path(q)' = Path(q)
    BY <1>3 DEF vars, Path
  <2> QED
    BY <1>3, <2>1 DEF vars, Serial
<1> QED
  BY <1>1, <1>2, <1>3 DEF Next

-----------------------------------------------------------------------------
(* Taking, giving back and evicting leave the level of every bucket as it
   was: the level counts what a call has taken and not used yet. *)

LEMMA StillSolvent ==
  ASSUME Solvent, UNCHANGED <<clock, present, lim, seen, taken>>
  PROVE  Solvent' /\ SameLevels
<1>1. \A b : Pending(b)' = Pending(b)
  BY DEF Pending
<1>2. \A b : Real(b)' = Real(b)
  BY DEF Real
<1>3. \A p \in Call : \A i \in 1..Len(taken[p]) : Refundable(p, i)'
  BY DEF Solvent, Refundable
<1> QED
  BY <1>1, <1>2, <1>3 DEF Solvent, SameLevels

LEMMA SweepSolvent ==
  ASSUME OneAtATime, Shapes, Serial, Solvent, Shapes', NEW p \in Call,
         NEW from \in {"sweepUser", "sweepTarget"}, NEW kind \in {"user", "target"}, NEW to,
         Sweep(p, from, kind, to)
  PROVE  Solvent' /\ SameLevels
<1>1. taken' = taken /\ \A q \in Call : taken[q] = <<>> /\ Len(taken[q]) = 0 /\ DOMAIN taken[q] = {}
  <2>1. taken' = taken /\ \A q \in Call : taken[q] = <<>>
    BY SweepHoldsNothing
  <2> QED
    BY <2>1, EmptySeq
<1>2. \A b : Pending(b) = 0 /\ Pending(b)' = 0
  BY <1>1 DEF Pending
<1>3. clock' = clock /\ lim' = lim /\ seen' = seen /\ present' \subseteq present
      /\ \A b \in present \ present' : Kind[b] = kind /\ now[p] - seen[b] > IdleTTL
  BY DEF Sweep
<1>4. now[p] = clock
  BY NobodyElse DEF Sweep
<1>5. ASSUME NEW b \in Bucket
      PROVE  Real(b)' = Real(b)
  <2>1. CASE b \in present \ present'
    <3>1. clock - seen[b] > IdleTTL /\ Cap(b) <= IdleTTL + 1
      BY <1>3, <1>4, <2>1 DEF OneAtATime
    <3>2. {clock, seen[b], IdleTTL, Cap(b)} \subseteq Nat
      BY BucketFacts, NumbersAssumption DEF Shapes
    <3>3. lim[b].last = seen[b] /\ lim[b].credit >= 0
      <4>1. lim[b].last = seen[b] /\ lim[b].credit + 0 >= 0
        BY <1>2, <2>1 DEF Solvent
      <4>2. lim[b].credit \in Int
        BY DEF Shapes, Buckets
      <4> QED
        BY <4>1, <4>2
    <3>4. lim[b].last + Cap(b) <= clock
      BY <3>1, <3>2, <3>3
    <3>5. Level(lim[b], Cap(b), clock) = Cap(b)
      BY <3>2, <3>3, <3>4, LevelFacts DEF Shapes
    <3> QED
      BY <2>1, <3>5 DEF Real
  <2>2. CASE b \notin present \ present'
    BY <1>3, <2>2 DEF Real, Cap
  <2> QED
    BY <2>1, <2>2
<1>6. SameLevels
  BY <1>2, <1>5 DEF SameLevels
<1>7. Solvent'
  BY <1>1, <1>2, <1>3 DEF Solvent
<1> QED
  BY <1>6, <1>7

(* What is pending, when only p is at work. *)
LEMMA PendingIsHeld ==
  ASSUME Shapes, Serial, NEW p \in Call, pc[p] # "idle", NEW b
  PROVE  /\ (\E i \in 1..Len(taken[p]) : taken[p][i].bucket = b) => Pending(b) = Interval[b]
         /\ (\A i \in 1..Len(taken[p]) : taken[p][i].bucket # b) => Pending(b) = 0
<1>1. \A q \in Call : DOMAIN taken[q] = 1..Len(taken[q])
  BY LenProperties DEF Shapes
<1>2. \A q \in Call : q # p => Len(taken[q]) = 0
  BY NobodyElse
<1> QED
  BY <1>1, <1>2 DEF Pending

LEMMA PendingIsHeldAfter ==
  ASSUME Shapes', Serial, Shapes, NEW p \in Call, pc[p] # "idle",
         \A q \in Call : q # p => taken'[q] = taken[q], NEW b
  PROVE  /\ (\E i \in 1..Len(taken'[p]) : taken'[p][i].bucket = b) => Pending(b)' = Interval[b]
         /\ (\A i \in 1..Len(taken'[p]) : taken'[p][i].bucket # b) => Pending(b)' = 0
<1>1. \A q \in Call : DOMAIN taken'[q] = 1..Len(taken'[q])
  BY LenProperties DEF Shapes
<1>2. \A q \in Call : q # p => Len(taken'[q]) = 0
  BY NobodyElse
<1> QED
  BY <1>1, <1>2 DEF Pending

(* What a bucket is reserved from, whether or not it is in its registry. *)
LEMMA RealIsLevel ==
  ASSUME Shapes, NEW b \in Bucket,
         NEW L, L = IF b \in present THEN lim[b] ELSE NewBucket(Cap(b))
  PROVE  Sound(L, Cap(b)) /\ Level(L, Cap(b), clock) = Real(b)
<1>1. Cap(b) \in Nat /\ clock \in Nat
  BY BucketFacts, NumbersAssumption DEF Shapes
<1>2. CASE b \in present
  BY <1>2 DEF Shapes, Real
<1>3. CASE b \notin present
  BY <1>1, <1>3, NewBucketFacts DEF Real
<1> QED
  BY <1>2, <1>3

LEMMA TakeSolvent ==
  ASSUME OneAtATime, Shapes, Serial, Solvent, Shapes', NEW p \in Call, Take(p)
  PROVE  Solvent' /\ SameLevels
<1>1. PICK b, n, L, R, e :
         /\ b = Following(p) /\ n = Len(taken[p])
         /\ L = IF b \in present THEN lim[b] ELSE NewBucket(Cap(b))
         /\ R = ReserveToken(L, Cap(b), Interval[b], now[p])
         /\ e = [bucket |-> b, act |-> R.lastEvent, held |-> TRUE]
  OBVIOUS
<1>2. /\ present' = present \cup {b} /\ seen' = [seen EXCEPT ![b] = now[p]]
      /\ lim' = [lim EXCEPT ![b] = R] /\ taken' = [taken EXCEPT ![p] = Append(@, e)]
      /\ clock' = clock /\ pc[p] = "take" /\ n < Len(Path(p))
  BY <1>1 DEF Take, Following
<1>3. b \in Bucket /\ n \in Nat /\ n + 1 \in 1..Len(Path(p)) /\ Len(Path(p)) \in Nat
      /\ DOMAIN Path(p) = 1..Len(Path(p)) /\ b = Path(p)[n + 1]
  BY <1>1, <1>2, FollowingFacts, GateFacts DEF Shapes, Path, Following
<1>4. now[p] = clock /\ clock \in Nat /\ Cap(b) \in Nat /\ Interval[b] \in Nat \ {0}
  <2>1. now[p] = clock
    BY <1>2 DEF Serial
  <2>2. clock \in Nat
    BY NumbersAssumption DEF Shapes
  <2> QED
    BY <1>3, <2>1, <2>2, BucketFacts
<1>5. Sound(L, Cap(b)) /\ Level(L, Cap(b), clock) = Real(b) /\ Real(b) \in Int /\ Real(b) <= Cap(b)
  <2>1. Sound(L, Cap(b)) /\ Level(L, Cap(b), clock) = Real(b)
    BY <1>1, <1>3, RealIsLevel
  <2> QED
    BY <1>4, <2>1, LevelFacts
<1>6. /\ R.last = clock /\ R.credit = Real(b) - Interval[b]
      /\ R.lastEvent = clock + Most(0, 0 - R.credit)
      /\ Level(R, Cap(b), clock) = Real(b) - Interval[b]
  <2>1. ASSUME NEW cap \in Nat, NEW cost \in Nat \ {0}, NEW M, Sound(M, cap), NEW t \in Nat,
               NEW Q, Q = ReserveToken(M, cap, cost, t)
        PROVE  /\ Q.last = t /\ Q.credit = Level(M, cap, t) - cost
               /\ Q.lastEvent = t + Most(0, 0 - Q.credit)
               /\ Level(Q, cap, t) = Level(M, cap, t) - cost
    BY <2>1, ReserveFacts
  <2>2. /\ R.last = clock /\ R.credit = Level(L, Cap(b), clock) - Interval[b]
        /\ R.lastEvent = clock + Most(0, 0 - R.credit)
        /\ Level(R, Cap(b), clock) = Level(L, Cap(b), clock) - Interval[b]
    BY <1>1, <1>4, <1>5, <2>1
  <2> QED
    BY <1>5, <2>2
<1>7. lim'[b] = R /\ seen'[b] = clock /\ b \in present'
      /\ \A c \in Bucket : c # b => lim'[c] = lim[c] /\ seen'[c] = seen[c]
                                  /\ (c \in present' <=> c \in present)
  BY <1>2, <1>3, <1>4 DEF Shapes
<1>8. /\ Len(taken'[p]) = n + 1 /\ taken'[p][n + 1] = e
      /\ \A i \in 1..n : taken'[p][i] = taken[p][i]
      /\ \A q \in Call : q # p => taken'[q] = taken[q]
  <2>1. taken[p] \in Seq(Entries) /\ taken[p] \in Seq(Entries \cup {e}) /\ e \in Entries \cup {e}
    BY SeqMonotonic DEF Shapes
  <2>2. taken'[p] = Append(taken[p], e) /\ \A q \in Call : q # p => taken'[q] = taken[q]
    BY <1>2 DEF Shapes
  <2> QED
    BY <1>1, <2>1, <2>2, AppendProperties
<1>9. \A i \in 1..n : taken[p][i].bucket # b
  <2> SUFFICES ASSUME NEW i \in 1..n
               PROVE  taken[p][i].bucket # b
    OBVIOUS
  <2>1. i \in DOMAIN Path(p) /\ n + 1 \in DOMAIN Path(p) /\ i # n + 1
    BY <1>2, <1>3
  <2>2. taken[p][i].bucket = Path(p)[i]
    BY <1>1, <1>2 DEF Serial
  <2> QED
    BY <1>3, <2>1, <2>2, OneGate
<1>10. Pending(b) = 0 /\ Pending(b)' = Interval[b]
  <2>1. Pending(b) = 0
    BY <1>1, <1>2, <1>9, PendingIsHeld
  <2>2. n + 1 \in 1..Len(taken'[p]) /\ taken'[p][n + 1].bucket = b
    <3>1. e.bucket = b
      BY <1>1
    <3> QED
      BY <1>3, <1>8, <3>1
  <2> QED
    BY <1>2, <1>8, <2>1, <2>2, PendingIsHeldAfter
<1>11. ASSUME NEW c \in Bucket, c # b
       PROVE  Pending(c)' = Pending(c)
  <2>1. \A i \in 1..(n + 1) : taken'[p][i].bucket = c <=> i \in 1..n /\ taken[p][i].bucket = c
    <3> SUFFICES ASSUME NEW i \in 1..(n + 1)
                 PROVE  taken'[p][i].bucket = c <=> i \in 1..n /\ taken[p][i].bucket = c
      OBVIOUS
    <3>1. CASE i = n + 1
      <4>1. taken'[p][i].bucket = b /\ i \notin 1..n
        BY <1>1, <1>3, <1>8, <3>1
      <4> QED
        BY <1>11, <4>1
    <3>2. CASE i \in 1..n
      BY <1>8, <3>2
    <3> QED
      BY <1>3, <3>1, <3>2
  <2>2. \A i \in 1..n : i \in 1..(n + 1)
    BY <1>3
  <2>3. CASE \E i \in 1..n : taken[p][i].bucket = c
    <3>1. Pending(c) = Interval[c]
      BY <1>1, <1>2, <2>3, PendingIsHeld
    <3>2. \E i \in 1..Len(taken'[p]) : taken'[p][i].bucket = c
      BY <1>8, <2>1, <2>2, <2>3
    <3>3. Pending(c)' = Interval[c]
      BY <1>2, <1>8, <3>2, PendingIsHeldAfter
    <3> QED
      BY <3>1, <3>3
  <2>4. CASE \A i \in 1..n : taken[p][i].bucket # c
    <3>1. Pending(c) = 0
      BY <1>1, <1>2, <2>4, PendingIsHeld
    <3>2. \A i \in 1..Len(taken'[p]) : taken'[p][i].bucket # c
      BY <1>8, <2>1, <2>4
    <3>3. Pending(c)' = 0
      BY <1>2, <1>8, <3>2, PendingIsHeldAfter
    <3> QED
      BY <3>1, <3>3
  <2> QED
    BY <2>3, <2>4
<1>12. SameLevels
  <2>1. Real(b)' = Real(b) - Interval[b]
    <3>1. Real(b)' = Level(R, Cap(b), clock)
      BY <1>2, <1>7 DEF Real, Cap
    <3> QED
      BY <1>6, <3>1
  <2>2. Real(b)' + Pending(b)' = Real(b) + Pending(b)
    BY <1>4, <1>5, <1>10, <2>1
  <2>3. \A c \in Bucket : c # b => Real(c)' = Real(c)
    BY <1>2, <1>7 DEF Real, Cap
  <2> QED
    BY <1>11, <2>2, <2>3 DEF SameLevels
<1>13. \A i \in 1..(n + 1) : Refundable(p, i)'
  <2>1. \A i \in 1..n : Refundable(p, i)'
    <3> SUFFICES ASSUME NEW i \in 1..n
                 PROVE  Refundable(p, i)'
      OBVIOUS
    <3>1. Refundable(p, i) /\ taken'[p][i] = taken[p][i] /\ taken[p][i].bucket # b
      BY <1>1, <1>8, <1>9 DEF Solvent
    <3>2. taken[p][i].bucket \in Bucket
      BY <3>1 DEF Refundable, Shapes
    <3>3. lim'[taken[p][i].bucket] = lim[taken[p][i].bucket] /\ taken[p][i].bucket \in present'
      BY <1>7, <3>1, <3>2 DEF Refundable
    <3>4. \A j \in 1..(n + 1) : j # i => taken'[p][j].bucket # taken[p][i].bucket
      <4> SUFFICES ASSUME NEW j \in 1..(n + 1), j # i
                   PROVE  taken'[p][j].bucket # taken[p][i].bucket
        OBVIOUS
      <4>1. CASE j = n + 1
        BY <1>1, <1>8, <3>1, <4>1
      <4>2. CASE j \in 1..n
        BY <1>1, <1>8, <3>1, <4>2 DEF Refundable
      <4> QED
        BY <1>3, <4>1, <4>2
    <3> QED
      BY <1>2, <1>8, <3>1, <3>3, <3>4 DEF Refundable, Cap
  <2>2. Refundable(p, n + 1)'
    <3>1. \A j \in 1..(n + 1) : j # n + 1 => taken'[p][j].bucket # b
      <4>1. \A j \in 1..(n + 1) : j # n + 1 => j \in 1..n
        BY <1>3
      <4> QED
        BY <1>8, <1>9, <4>1
    <3>2. e.held /\ e.bucket = b /\ e.act = R.lastEvent
      BY <1>1
    <3>3. lim'[b].credit + Interval[b] <= Cap(b)
      BY <1>4, <1>5, <1>6, <1>7
    <3>4. lim'[b].last = clock' /\ R.lastEvent = lim'[b].lastEvent
          /\ R.lastEvent = clock' + Most(0, 0 - lim'[b].credit)
      BY <1>2, <1>6, <1>7
    <3> QED
      BY <1>7, <1>8, <3>1, <3>2, <3>3, <3>4 DEF Refundable, Cap
  <2> QED
    BY <1>3, <2>1, <2>2
<1>14. ASSUME NEW c \in present'
       PROVE  lim'[c].last = seen'[c] /\ seen'[c] <= clock' /\ lim'[c].credit + Pending(c)' >= 0
  <2>1. CASE c = b
    <3>1. Real(b) >= 0
      <4>1. CASE b \in present
        <5>1. lim[b].credit + 0 >= 0 /\ lim[b].credit \in Int
          BY <1>3, <1>10, <4>1 DEF Solvent, Shapes, Buckets
        <5>2. L = lim[b] /\ L.credit <= Level(L, Cap(b), clock)
          BY <1>1, <1>4, <1>5, <4>1, LevelFacts
        <5> QED
          BY <1>5, <5>1, <5>2
      <4>2. CASE b \notin present
        BY <1>4, <4>2 DEF Real
      <4> QED
        BY <4>1, <4>2
    <3>2. lim'[b].credit + Pending(b)' >= 0
      BY <1>4, <1>5, <1>6, <1>7, <1>10, <3>1
    <3> QED
      BY <1>2, <1>4, <1>6, <1>7, <2>1, <3>2
  <2>2. CASE c # b
    <3>1. c \in Bucket
      BY DEF Shapes
    <3> QED
      BY <1>2, <1>7, <1>11, <2>2, <3>1 DEF Solvent
  <2> QED
    BY <2>1, <2>2
<1>15. \A q \in Call : q # p => Len(taken'[q]) = 0
  BY <1>2, <1>8, NobodyElse
<1>16. Solvent'
  <2>1. \A q \in Call : \A i \in 1..Len(taken'[q]) : Refundable(q, i)'
    BY <1>8, <1>13, <1>15
  <2> QED
    BY <1>14, <2>1 DEF Solvent
<1> QED
  BY <1>12, <1>16

LEMMA CancelSolvent ==
  ASSUME OneAtATime, Shapes, Serial, Solvent, Shapes', NEW p \in Call, Cancel(p)
  PROVE  Solvent' /\ SameLevels
<1>1. PICK r, b, n, C :
         /\ r = Head(taken[p]) /\ b = r.bucket /\ n = Len(taken[p])
         /\ C = CancelToken(lim[b], Cap(b), Interval[b], r.act, now[p])
  OBVIOUS
<1>2. n \in Nat \ {0} /\ taken[p] \in Seq(Entries) /\ r = taken[p][1] /\ r \in Entries
  <2>1. taken[p] \in Seq(Entries) /\ taken[p] # <<>>
    BY DEF Shapes, Cancel
  <2>2. n \in Nat \ {0}
    BY <1>1, <2>1, EmptySeq
  <2> QED
    BY <1>1, <2>1, <2>2, HeadTailProperties
<1>3. Refundable(p, 1) /\ r.held
  <2>1. Refundable(p, 1)
    BY <1>1, <1>2 DEF Solvent
  <2> QED
    BY <1>2, <2>1 DEF Refundable
<1>4. /\ pc[p] = "cancel" /\ lim' = [lim EXCEPT ![b] = C] /\ clock' = clock
      /\ present' = present /\ seen' = seen
  BY <1>1, <1>3 DEF Cancel
<1>5. /\ Len(taken'[p]) = n - 1 /\ \A i \in 1..(n - 1) : taken'[p][i] = taken[p][i + 1]
      /\ \A q \in Call : q # p => taken'[q] = taken[q]
  <2>1. taken'[p] = Tail(taken[p]) /\ \A q \in Call : q # p => taken'[q] = taken[q]
    BY DEF Cancel, Shapes
  <2>2. taken[p] # <<>>
    BY DEF Cancel
  <2> QED
    BY <1>1, <1>2, <2>1, <2>2, HeadTailProperties
<1>6. /\ b \in Bucket /\ b \in present /\ lim[b].last = clock /\ lim[b].lastEvent = r.act
      /\ r.act = clock + Most(0, 0 - lim[b].credit)
      /\ lim[b].credit + Interval[b] <= Cap(b)
      /\ \A j \in 1..n : j # 1 => taken[p][j].bucket # b
  BY <1>1, <1>2, <1>3 DEF Refundable, Entries
<1>7. /\ now[p] = clock /\ clock \in Nat /\ Cap(b) \in Nat /\ Interval[b] \in Nat \ {0}
      /\ r.act \in Nat /\ Sound(lim[b], Cap(b)) /\ lim[b].credit \in Int
  <2>1. now[p] = clock
    BY <1>4 DEF Serial
  <2>2. clock \in Nat
    BY NumbersAssumption DEF Shapes
  <2>3. r.act \in Nat
    BY <1>2 DEF Entries
  <2>4. Sound(lim[b], Cap(b)) /\ lim[b].credit \in Int
    BY <1>6 DEF Shapes, Buckets
  <2> QED
    BY <1>6, <2>1, <2>2, <2>3, <2>4, BucketFacts
<1>8. C.last = clock /\ C.credit = lim[b].credit + Interval[b] /\ Sound(C, Cap(b))
  <2>1. ASSUME NEW cap \in Nat, NEW cost \in Nat \ {0}, NEW M, Sound(M, cap), NEW act \in Nat,
               NEW t \in Nat, NEW Q, Q = CancelToken(M, cap, cost, act, t),
               act >= t, act = M.lastEvent, Level(M, cap, t) + cost <= cap
        PROVE  Sound(Q, cap) /\ Q.last = t /\ Q.credit = Level(M, cap, t) + cost
    BY <2>1, CancelFacts
  <2>2. Level(lim[b], Cap(b), clock) = lim[b].credit
    BY <1>6, <1>7, LevelFacts
  <2>3. r.act >= clock
    BY <1>6, <1>7 DEF Most
  <2> QED
    BY <1>1, <1>6, <1>7, <2>1, <2>2, <2>3
<1>9. lim'[b] = C /\ \A c \in Bucket : c # b => lim'[c] = lim[c]
  BY <1>4, <1>6 DEF Shapes
<1>10. \A i \in 1..(n - 1) : i \in Nat /\ i + 1 \in 1..n /\ i + 1 # 1 /\ taken'[p][i].bucket # b
  <2>1. \A i \in 1..(n - 1) : i \in Nat /\ i + 1 \in 1..n /\ i + 1 # 1
    BY <1>2
  <2> QED
    BY <1>5, <1>6, <2>1
<1>11. Pending(b) = Interval[b] /\ Pending(b)' = 0
  <2>1. \E i \in 1..Len(taken[p]) : taken[p][i].bucket = b
    BY <1>1, <1>2
  <2>2. \A i \in 1..Len(taken'[p]) : taken'[p][i].bucket # b
    BY <1>5, <1>10
  <2>3. Pending(b) = Interval[b]
    BY <1>4, <2>1, PendingIsHeld
  <2>4. Pending(b)' = 0
    BY <1>4, <1>5, <2>2, PendingIsHeldAfter
  <2> QED
    BY <2>3, <2>4
<1>12. ASSUME NEW c \in Bucket, c # b
       PROVE  Pending(c)' = Pending(c)
  <2>1. CASE \E i \in 1..n : taken[p][i].bucket = c
    <3>1. PICK i \in 1..n : taken[p][i].bucket = c
      BY <2>1
    <3>2. i # 1
      BY <1>1, <1>2, <1>12, <3>1
    <3>3. i - 1 \in 1..(n - 1) /\ (i - 1) + 1 = i
      BY <1>2, <3>2
    <3>4. taken'[p][i - 1].bucket = c
      BY <1>5, <3>1, <3>3
    <3>5. \E k \in 1..Len(taken'[p]) : taken'[p][k].bucket = c
      BY <1>5, <3>3, <3>4
    <3>6. Pending(c) = Interval[c]
      BY <1>1, <1>4, <2>1, PendingIsHeld
    <3>7. Pending(c)' = Interval[c]
      BY <1>4, <1>5, <3>5, PendingIsHeldAfter
    <3> QED
      BY <3>6, <3>7
  <2>2. CASE \A i \in 1..n : taken[p][i].bucket # c
    <3>1. Pending(c) = 0
      BY <1>1, <1>4, <2>2, PendingIsHeld
    <3>2. \A i \in 1..Len(taken'[p]) : taken'[p][i].bucket # c
      BY <1>5, <1>10, <2>2
    <3>3. Pending(c)' = 0
      BY <1>4, <1>5, <3>2, PendingIsHeldAfter
    <3> QED
      BY <3>1, <3>3
  <2> QED
    BY <2>1, <2>2
<1>13. SameLevels
  <2>1. Real(b) = lim[b].credit
    BY <1>6, <1>7, LevelFacts DEF Real
  <2>2. Real(b)' = C.credit
    <3>1. Real(b)' = Level(C, Cap(b), clock)
      BY <1>4, <1>6, <1>9 DEF Real, Cap
    <3> QED
      BY <1>7, <1>8, <3>1, LevelFacts
  <2>3. Real(b)' + Pending(b)' = Real(b) + Pending(b)
    BY <1>7, <1>8, <1>11, <2>1, <2>2
  <2>4. \A c \in Bucket : c # b => Real(c)' = Real(c)
    BY <1>4, <1>9 DEF Real, Cap
  <2> QED
    BY <1>12, <2>3, <2>4 DEF SameLevels
<1>14. ASSUME NEW i \in 1..(n - 1)
       PROVE  Refundable(p, i)'
  <2>1. Refundable(p, i + 1) /\ taken'[p][i] = taken[p][i + 1] /\ taken[p][i + 1].bucket # b
    BY <1>1, <1>5, <1>6, <1>10 DEF Solvent
  <2>2. taken[p][i + 1].bucket \in Bucket
    BY <2>1 DEF Refundable, Shapes
  <2>3. lim'[taken[p][i + 1].bucket] = lim[taken[p][i + 1].bucket]
    BY <1>9, <2>1, <2>2
  <2>4. \A j \in 1..(n - 1) : j # i => taken'[p][j].bucket # taken[p][i + 1].bucket
    <3> SUFFICES ASSUME NEW j \in 1..(n - 1), j # i
                 PROVE  taken'[p][j].bucket # taken[p][i + 1].bucket
      OBVIOUS
    <3>1. taken'[p][j] = taken[p][j + 1] /\ j + 1 \in 1..Len(taken[p]) /\ j + 1 # i + 1
      BY <1>1, <1>5, <1>10
    <3> QED
      BY <2>1, <3>1 DEF Refundable
  <2> QED
    BY <1>4, <1>5, <2>1, <2>3, <2>4 DEF Refundable, Cap
<1>15. ASSUME NEW c \in present'
       PROVE  lim'[c].last = seen'[c] /\ seen'[c] <= clock' /\ lim'[c].credit + Pending(c)' >= 0
  <2>1. c \in present /\ c \in Bucket
    BY <1>4 DEF Shapes
  <2>2. lim[c].last = seen[c] /\ seen[c] <= clock /\ lim[c].credit + Pending(c) >= 0
    BY <2>1 DEF Solvent
  <2>3. CASE c = b
    <3>1. lim'[c].last = lim[c].last
      BY <1>6, <1>8, <1>9, <2>3
    <3>2. lim'[c].credit + Pending(c)' = lim[c].credit + Pending(c)
      BY <1>7, <1>8, <1>9, <1>11, <2>3
    <3> QED
      BY <1>4, <2>2, <3>1, <3>2
  <2>4. CASE c # b
    BY <1>4, <1>9, <1>12, <2>1, <2>2, <2>4
  <2> QED
    BY <2>3, <2>4
<1>16. \A q \in Call : q # p => Len(taken'[q]) = 0
  BY <1>4, <1>5, NobodyElse
<1>17. Solvent'
  <2>1. \A q \in Call : \A i \in 1..Len(taken'[q]) : Refundable(q, i)'
    BY <1>5, <1>14, <1>16
  <2> QED
    BY <1>15, <2>1 DEF Solvent
<1> QED
  BY <1>13, <1>17

(* The check that is admitted has used what it took. *)
LEMMA AdmitSpends ==
  ASSUME OneAtATime, Shapes, Serial, Solvent, Shapes', NEW p \in Call, Admit(p)
  PROVE  /\ Solvent'
         /\ \A b \in Bucket :
               IF b \in Passed(p)
               THEN Real(b) + Pending(b) >= Interval[b]
                    /\ Real(b)' + Pending(b)' = (Real(b) + Pending(b)) - Interval[b]
               ELSE Real(b)' + Pending(b)' = Real(b) + Pending(b)
<1>1. PICK n : n = Len(taken[p])
  OBVIOUS
<1>2. /\ pc[p] = "take" /\ n = Len(Path(p)) /\ delay[p] = 0
      /\ UNCHANGED <<clock, present, lim, seen>>
  BY <1>1 DEF Admit, TookAll
<1>3. \A q \in Call : taken'[q] = <<>> /\ Len(taken'[q]) = 0 /\ DOMAIN taken'[q] = {}
  <2>1. \A q \in Call : taken'[q] = <<>>
    BY <1>2, NobodyElse DEF Admit, Shapes
  <2> QED
    BY <2>1, EmptySeq
<1>4. \A b : Pending(b)' = 0 /\ Real(b)' = Real(b)
  BY <1>2, <1>3 DEF Pending, Real
<1>5. clock \in Nat /\ n \in Nat /\ DOMAIN Path(p) = 1..n
  BY <1>1, <1>2, NumbersAssumption, GateFacts, LenProperties DEF Shapes, Path
<1>6. ASSUME NEW i \in 1..n
      PROVE  lim[taken[p][i].bucket].credit >= 0
  <2>1. Refundable(p, i) /\ taken[p][i].act - clock <= 0
    BY <1>1, <1>2 DEF Solvent, Serial
  <2>2. taken[p][i].act = clock + Most(0, 0 - lim[taken[p][i].bucket].credit)
        /\ lim[taken[p][i].bucket].credit \in Int
    BY <2>1 DEF Refundable, Shapes, Buckets
  <2> QED
    BY <1>5, <2>1, <2>2 DEF Most
<1>7. ASSUME NEW b \in Passed(p)
      PROVE  /\ b \in present /\ b \in Bucket /\ Pending(b) = Interval[b] /\ Real(b) = lim[b].credit
             /\ lim[b].credit >= 0
  <2>1. PICK i \in 1..n : b = Path(p)[i]
    BY <1>5, OneGate
  <2>2. taken[p][i].bucket = b /\ Refundable(p, i)
    BY <1>1, <1>2, <2>1 DEF Solvent, Serial
  <2>3. b \in present /\ lim[b].last = clock /\ b \in Bucket
    BY <2>2 DEF Refundable, Shapes
  <2>4. Pending(b) = Interval[b]
    BY <1>1, <1>2, <2>2, PendingIsHeld
  <2>5. Cap(b) \in Nat /\ Sound(lim[b], Cap(b))
    BY <2>3, BucketFacts DEF Shapes
  <2>6. Real(b) = lim[b].credit
    BY <1>5, <2>3, <2>5, LevelFacts DEF Real
  <2> QED
    BY <1>6, <2>2, <2>3, <2>4, <2>6
<1>8. ASSUME NEW b \in Bucket, b \notin Passed(p)
      PROVE  Pending(b) = 0
  <2>1. ASSUME NEW i \in 1..n
        PROVE  taken[p][i].bucket # b
    <3>1. taken[p][i].bucket = Path(p)[i] /\ Path(p)[i] \in Passed(p)
      BY <1>1, <1>2, <1>5, OneGate DEF Serial
    <3> QED
      BY <1>8, <3>1
  <2> QED
    BY <1>1, <1>2, <2>1, PendingIsHeld
<1>9. ASSUME NEW b \in Bucket
      PROVE  IF b \in Passed(p)
             THEN Real(b) + Pending(b) >= Interval[b]
                  /\ Real(b)' + Pending(b)' = (Real(b) + Pending(b)) - Interval[b]
             ELSE Real(b)' + Pending(b)' = Real(b) + Pending(b)
  <2>1. CASE b \in Passed(p)
    <3>1. Interval[b] \in Nat /\ lim[b].credit \in Int
      BY BucketFacts DEF Shapes, Buckets
    <3> QED
      BY <1>4, <1>7, <2>1, <3>1
  <2>2. CASE b \notin Passed(p)
    BY <1>4, <1>8, <2>2
  <2> QED
    BY <2>1, <2>2
<1>10. ASSUME NEW c \in present'
       PROVE  lim'[c].last = seen'[c] /\ seen'[c] <= clock' /\ lim'[c].credit + Pending(c)' >= 0
  <2>1. c \in Bucket /\ c \in present
    BY <1>2 DEF Shapes
  <2>2. lim[c].last = seen[c] /\ seen[c] <= clock /\ lim[c].credit + Pending(c) >= 0
    BY <2>1 DEF Solvent
  <2>3. lim[c].credit \in Int
    BY <2>1 DEF Shapes, Buckets
  <2>4. lim[c].credit >= 0
    <3>1. CASE c \in Passed(p)
      BY <1>7, <3>1
    <3>2. CASE c \notin Passed(p)
      BY <1>8, <2>1, <2>2, <2>3, <3>2
    <3> QED
      BY <3>1, <3>2
  <2> QED
    BY <1>2, <1>4, <2>2, <2>3, <2>4
<1>11. Solvent'
  BY <1>3, <1>10 DEF Solvent
<1> QED
  BY <1>9, <1>11

(* A tick earns one unit for every bucket that is not full. *)
LEMMA TickEarns ==
  ASSUME OneAtATime, Shapes, Serial, Solvent, Tick
  PROVE  /\ Solvent'
         /\ \A b \in Bucket : Real(b)' + Pending(b)' =
               IF Real(b) + Pending(b) < Cap(b) THEN Real(b) + Pending(b) + 1
                                                ELSE Real(b) + Pending(b)
<1>1. /\ clock' = clock + 1 /\ UNCHANGED <<present, lim, seen, taken>>
      /\ \A p \in Call : taken[p] = <<>>
  BY DEF Tick, OneAtATime, Serial, callVars
<1>2. \A p \in Call : Len(taken[p]) = 0 /\ DOMAIN taken[p] = {}
  BY <1>1, EmptySeq
<1>3. \A b : Pending(b) = 0 /\ Pending(b)' = 0
  BY <1>1, <1>2 DEF Pending
<1>4. clock \in Nat
  BY NumbersAssumption DEF Shapes
<1>5. ASSUME NEW b \in Bucket
      PROVE  Real(b)' + Pending(b)' = IF Real(b) + Pending(b) < Cap(b) THEN Real(b) + Pending(b) + 1
                                                                 ELSE Real(b) + Pending(b)
  <2>1. Cap(b) \in Nat /\ Sound(lim[b], Cap(b))
    BY BucketFacts DEF Shapes
  <2>2. CASE b \in present
    <3>1. lim[b].last <= clock
      BY <2>2 DEF Solvent
    <3>2. Level(lim[b], Cap(b), clock + 1) = Least(Cap(b), Level(lim[b], Cap(b), clock) + 1)
          /\ Level(lim[b], Cap(b), clock) \in Int /\ Level(lim[b], Cap(b), clock) <= Cap(b)
      BY <1>4, <2>1, <3>1, LevelFacts
    <3>3. Real(b)' = Level(lim[b], Cap(b), clock + 1) /\ Real(b) = Level(lim[b], Cap(b), clock)
      BY <1>1, <2>2 DEF Real, Cap
    <3> QED
      BY <1>3, <2>1, <3>2, <3>3 DEF Least
  <2>3. CASE b \notin present
    <3>1. Real(b)' = Cap(b) /\ Real(b) = Cap(b)
      BY <1>1, <2>3 DEF Real, Cap
    <3> QED
      BY <1>3, <2>1, <3>1
  <2> QED
    BY <2>2, <2>3
<1>6. \A b \in present : lim'[b].last = seen'[b] /\ seen'[b] <= clock' /\ lim'[b].credit + Pending(b)' >= 0
  <2> SUFFICES ASSUME NEW b \in present
               PROVE  lim'[b].last = seen'[b] /\ seen'[b] <= clock' /\ lim'[b].credit + Pending(b)' >= 0
    OBVIOUS
  <2>1. lim[b].last = seen[b] /\ seen[b] <= clock /\ lim[b].credit + 0 >= 0
    BY <1>3 DEF Solvent
  <2>2. seen[b] \in Nat
    BY NumbersAssumption DEF Shapes
  <2> QED
    BY <1>1, <1>3, <1>4, <2>1, <2>2
<1>7. Solvent'
  BY <1>1, <1>2, <1>6 DEF Solvent
<1> QED
  BY <1>5, <1>7

-----------------------------------------------------------------------------
(* The refinement. *)

LEMMA NextSolvent ==
  ASSUME OneAtATime, Shapes, Serial, Solvent, Shapes', NEW p \in Call, Step(p), ~Admit(p)
  PROVE  Solvent' /\ SameLevels
<1>1. CASE Check(p)
  <2>1. taken[p] = <<>>
    BY <1>1 DEF Check, Serial
  <2>2. UNCHANGED <<clock, present, lim, seen, taken>>
    BY <1>1, <2>1 DEF Check, Enter, Shapes
  <2> QED
    BY <2>2, StillSolvent
<1>2. CASE SweepUsers(p)
  BY <1>2, SweepSolvent DEF SweepUsers
<1>3. CASE SweepTargets(p)
  BY <1>3, SweepSolvent DEF SweepTargets
<1>4. CASE Take(p)
  BY <1>4, TakeSolvent
<1>5. CASE NextGate(p)
  <2>1. gate[p] = 1 /\ gate[p] < Len(Gates[p]) /\ Len(Gates[p]) = 1
    BY <1>5, OneGate DEF NextGate
  <2> QED
    BY <2>1
<1>6. CASE Reject(p)
  BY <1>6, StillSolvent DEF Reject
<1>7. CASE Cancel(p)
  BY <1>7, CancelSolvent
<1>8. CASE Deny(p)
  BY <1>8, StillSolvent DEF Deny
<1> QED
  BY <1>1, <1>2, <1>3, <1>4, <1>5, <1>6, <1>7, <1>8 DEF Step

AtomicLevel == [b \in Bucket |-> Real(b) + Pending(b)]

LEMMA InitIsAtomic ==
  Init => Atomic!Init
<1> SUFFICES ASSUME Init
             PROVE  Atomic!Init
  OBVIOUS
<1>1. \A b \in Bucket : Pending(b) = 0
  BY DEF Init, Pending
<1>2. \A b \in Bucket : Real(b) = Cap(b) /\ Cap(b) \in Nat
  BY BucketFacts, NewBucketFacts DEF Init, Real
<1> QED
  BY <1>1, <1>2 DEF Atomic!Init

LEMMA StepIsAtomic ==
  ASSUME OneAtATime, Shapes, Serial, Solvent, Shapes', [Next]_vars
  PROVE  Solvent' /\ [Atomic!Next]_AtomicLevel
<1>1. CASE Tick
  <2>1. Solvent'
    BY <1>1, TickEarns
  <2>2. AtomicLevel' = [b \in Bucket |-> IF AtomicLevel[b] < Cap(b) THEN AtomicLevel[b] + 1 ELSE AtomicLevel[b]]
    BY <1>1, TickEarns DEF AtomicLevel
  <2>3. Atomic!Refill
    BY <2>2 DEF Atomic!Refill, AtomicLevel
  <2> QED
    BY <2>1, <2>3 DEF Atomic!Next
<1>2. ASSUME NEW p \in Call, Step(p)
      PROVE  Solvent' /\ [Atomic!Next]_AtomicLevel
  <2>1. CASE Admit(p)
    <3>1. Passed(p) \in {Passed(q) : q \in Call} /\ Passed(p) \subseteq Bucket
      <4>1. Path(p) \in Seq(Bucket) /\ DOMAIN Path(p) = 1..Len(Path(p))
        BY GateFacts, LenProperties DEF Shapes, Path
      <4> QED
        BY <4>1, OneGate, ElementOfSeq
    <3>2. \A b \in Passed(p) : AtomicLevel[b] >= Interval[b]
      BY <2>1, <3>1, AdmitSpends DEF AtomicLevel
    <3>3. AtomicLevel' = [b \in Bucket |-> IF b \in Passed(p) THEN AtomicLevel[b] - Interval[b]
                                                            ELSE AtomicLevel[b]]
      <4>1. AtomicLevel' = [b \in Bucket |-> Real(b)' + Pending(b)']
        BY DEF AtomicLevel
      <4>2. ASSUME NEW b \in Bucket, b \in Passed(p)
            PROVE  Real(b)' + Pending(b)' = AtomicLevel[b] - Interval[b]
        <5>1. Real(b)' + Pending(b)' = (Real(b) + Pending(b)) - Interval[b]
          BY <2>1, <4>2, AdmitSpends
        <5> QED
          BY <5>1 DEF AtomicLevel
      <4>3. ASSUME NEW b \in Bucket, b \notin Passed(p)
            PROVE  Real(b)' + Pending(b)' = AtomicLevel[b]
        <5>1. Real(b)' + Pending(b)' = Real(b) + Pending(b)
          BY <2>1, <4>3, AdmitSpends
        <5> QED
          BY <5>1 DEF AtomicLevel
      <4>4. ASSUME NEW b \in Bucket
            PROVE  Real(b)' + Pending(b)' = IF b \in Passed(p) THEN AtomicLevel[b] - Interval[b]
                                                              ELSE AtomicLevel[b]
        BY <4>2, <4>3
      <4> QED
        BY <4>1, <4>4
    <3>4. Atomic!Admit(Passed(p))
      BY <3>2, <3>3 DEF Atomic!Admit, AtomicLevel
    <3>5. Solvent'
      BY <2>1, AdmitSpends
    <3> QED
      BY <3>1, <3>4, <3>5 DEF Atomic!Next
  <2>2. CASE ~Admit(p)
    <3>1. Solvent' /\ SameLevels
      BY <1>2, <2>2, NextSolvent
    <3>2. AtomicLevel' = AtomicLevel
      BY <3>1 DEF SameLevels, AtomicLevel
    <3> QED
      BY <3>1, <3>2
  <2> QED
    BY <2>1, <2>2
<1>3. CASE UNCHANGED vars
  <2>1. Solvent' /\ SameLevels
    BY <1>3, StillSolvent DEF vars
  <2>2. AtomicLevel' = AtomicLevel
    BY <2>1 DEF SameLevels, AtomicLevel
  <2> QED
    BY <2>1, <2>2
<1> QED
  BY <1>1, <1>2, <1>3 DEF Next

(* Called one at a time, Reserve is all or nothing: with eviction, with
   buckets made on demand, with its rollback, each call is one admission
   that takes a token from every bucket of the check, or nothing at all. *)
THEOREM AdmissionIsAtomic ==
  ASSUME OneAtATime
  PROVE  Spec => ImplementsAtomic
<1>1. Init => Shapes /\ Serial /\ Solvent /\ Atomic!Init
  BY InitShapes, InitSerial, InitIsAtomic
<1>2. Shapes /\ Serial /\ Solvent /\ [Next]_vars =>
         /\ (Shapes /\ Serial /\ Solvent)'
         /\ [Atomic!Next]_AtomicLevel
  <2> SUFFICES ASSUME Shapes, Serial, Solvent, [Next]_vars
               PROVE  (Shapes /\ Serial /\ Solvent)' /\ [Atomic!Next]_AtomicLevel
    OBVIOUS
  <2>1. Shapes'
    BY NextShapes
  <2> QED
    BY <2>1, NextSerial, StepIsAtomic
<1> QED
  BY <1>1, <1>2, PTL DEF Spec, ImplementsAtomic, Atomic!Spec, AtomicLevel

-----------------------------------------------------------------------------
(* The books, called one at a time: the level of a bucket is what the
   tightest window of admissions leaves in it, never less and never more. *)

LevelOf(b) == Real(b) + Pending(b)

Settled  == \A b \in Bucket : \A t \in Times : clock <= t => admitted[b][t] = admitted[b][clock]
Balanced == \A b \in Bucket : /\ \A s \in 0..clock : LevelOf(b) <= Left(b, s, clock)
                             /\ \E s \in 0..clock : Left(b, s, clock) <= LevelOf(b)
Ledger   == Settled /\ Balanced /\ WithinRate

LEMMA ClockFacts ==
  ASSUME Shapes
  PROVE  /\ clock \in Nat /\ clock \in Times /\ 0..clock \subseteq Times
         /\ \A t \in Times : t \in Nat
BY NumbersAssumption DEF Shapes, Times

LEMMA LeftType ==
  ASSUME Shapes, NEW b \in Bucket, NEW t \in Times, NEW s \in 0..t
  PROVE  /\ admitted[b][t] \in Nat /\ Before(b, s) \in Nat
         /\ Left(b, s, t) \in Int
         /\ Left(b, s, t) = Cap(b) + (t - s) - (Interval[b] * (admitted[b][t] - Before(b, s)))
<1>1. admitted[b] \in [Times -> Nat] /\ t \in Nat /\ s \in Nat
  BY ClockFacts DEF Shapes
<1>2. s # 0 => s - 1 \in Times
  BY NumbersAssumption, <1>1 DEF Times
<1>3. Before(b, s) \in Nat
  BY <1>1, <1>2 DEF Before
<1>4. \A i \in Nat, d \in Int : i * d \in Int
  OBVIOUS
<1>5. Interval[b] * (admitted[b][t] - Before(b, s)) \in Int
  BY <1>1, <1>3, <1>4, BucketFacts
<1>6. Cap(b) \in Nat
  BY BucketFacts
<1> QED
  BY <1>1, <1>3, <1>5, <1>6 DEF Left

LEMMA LevelBounds ==
  ASSUME Shapes, Serial, Solvent, NEW b \in Bucket
  PROVE  LevelOf(b) \in Int /\ LevelOf(b) >= 0
<1>1. clock \in Nat /\ Cap(b) \in Nat /\ Pending(b) \in Nat
  BY ClockFacts, BucketFacts DEF Pending
<1>2. CASE b \in present
  <2>1. lim[b].credit \in Int /\ lim[b].credit + Pending(b) >= 0
    BY <1>2 DEF Shapes, Buckets, Solvent
  <2>2. Real(b) \in Int /\ lim[b].credit <= Real(b)
    BY <1>1, <1>2, LevelFacts DEF Shapes, Real
  <2> QED
    BY <1>1, <2>1, <2>2 DEF LevelOf
<1>3. CASE b \notin present
  BY <1>1, <1>3 DEF Real, LevelOf
<1> QED
  BY <1>2, <1>3

LEMMA InitLedger ==
  ASSUME Init, Shapes
  PROVE  Ledger
<1>1. clock = 0 /\ \A b \in Bucket, t \in Times : admitted[b][t] = 0
  BY DEF Init
<1>2. 0 \in Times
  BY <1>1, ClockFacts
<1>3. ASSUME NEW b \in Bucket
      PROVE  LevelOf(b) = Cap(b) /\ Left(b, 0, 0) = Cap(b) /\ Cap(b) \in Nat
  <2>1. Pending(b) = 0
    BY DEF Init, Pending
  <2>2. Real(b) = Cap(b) /\ Cap(b) \in Nat
    BY BucketFacts, NewBucketFacts DEF Init, Real
  <2>3. Before(b, 0) = 0 /\ admitted[b][0] = 0 /\ Interval[b] \in Nat
    BY <1>1, <1>2, BucketFacts DEF Before
  <2>4. Interval[b] * (0 - 0) = 0
    BY <2>3
  <2>5. Left(b, 0, 0) = Cap(b)
    BY <2>2, <2>3, <2>4 DEF Left
  <2> QED
    BY <2>1, <2>2, <2>5 DEF LevelOf
<1>4. Settled
  BY <1>1, <1>2 DEF Settled
<1>5. 0..clock = {0} /\ \A t \in 0..clock : t = 0 /\ 0..t = {0}
  BY <1>1
<1>6. Balanced
  BY <1>1, <1>3, <1>5 DEF Balanced
<1>7. WithinRate
  BY <1>3, <1>5 DEF WithinRate
<1> QED
  BY <1>4, <1>6, <1>7 DEF Ledger

LEMMA StillBalanced ==
  ASSUME Ledger, SameLevels, UNCHANGED <<clock, admitted>>
  PROVE  Ledger'
<1>1. \A b, s, t : Left(b, s, t)' = Left(b, s, t)
  BY DEF Left, Before, Cap
<1>2. \A b \in Bucket : LevelOf(b)' = LevelOf(b)
  BY DEF SameLevels, LevelOf
<1>3. Settled'
  BY DEF Ledger, Settled, Times
<1>4. Balanced'
  BY <1>1, <1>2 DEF Ledger, Balanced
<1>5. WithinRate'
  BY <1>1 DEF Ledger, WithinRate
<1> QED
  BY <1>3, <1>4, <1>5 DEF Ledger

(* Windows that reach beyond the last admission. *)
LEMMA LeftLater ==
  ASSUME Shapes, Settled, NEW b \in Bucket, NEW t \in Times, clock <= t
  PROVE  /\ \A s \in 0..clock : s \in 0..t /\ Left(b, s, t) = Left(b, s, clock) + (t - clock)
         /\ \A s \in 0..t : clock < s => Left(b, s, t) = Cap(b) + (t - s)
<1>1. clock \in Nat /\ clock \in Times /\ t \in Nat /\ admitted[b][t] = admitted[b][clock]
      /\ Cap(b) \in Nat
  BY ClockFacts, BucketFacts DEF Settled
<1>2. ASSUME NEW s \in 0..clock
      PROVE  s \in 0..t /\ Left(b, s, t) = Left(b, s, clock) + (t - clock)
  <2> DEFINE spent == Interval[b] * (admitted[b][clock] - Before(b, s))
  <2>1. s \in 0..t /\ s \in Nat
    BY <1>1
  <2>2. spent \in Int
    <3>1. admitted[b][clock] - Before(b, s) \in Int /\ Interval[b] \in Nat
      BY <1>1, LeftType, BucketFacts
    <3>2. \A i \in Nat, d \in Int : i * d \in Int
      OBVIOUS
    <3> QED
      BY <3>1, <3>2
  <2>3. Left(b, s, t) = Cap(b) + (t - s) - spent /\ Left(b, s, clock) = Cap(b) + (clock - s) - spent
    BY <1>1, <2>1, LeftType
  <2> HIDE DEF spent
  <2> QED
    BY <1>1, <2>1, <2>2, <2>3
<1>3. ASSUME NEW s \in 0..t, clock < s
      PROVE  Left(b, s, t) = Cap(b) + (t - s)
  <2>1. s - 1 \in Times /\ clock <= s - 1 /\ s # 0 /\ s \in Nat
    BY <1>1, <1>3, NumbersAssumption DEF Times
  <2>2. Before(b, s) = admitted[b][clock] /\ admitted[b][clock] \in Nat /\ Interval[b] \in Nat
    BY <1>1, <2>1, BucketFacts DEF Settled, Before, Shapes
  <2>3. admitted[b][t] - Before(b, s) = 0
    BY <1>1, <2>2
  <2>4. Interval[b] * 0 = 0
    BY <2>2
  <2>5. Left(b, s, t) = Cap(b) + (t - s) - 0
    BY <2>3, <2>4, LeftType
  <2> QED
    BY <1>1, <2>1, <2>5
<1> QED
  BY <1>2, <1>3

LEMMA TickLedger ==
  ASSUME OneAtATime, Shapes, Serial, Solvent, Ledger, Tick
  PROVE  Ledger'
<1>1. clock' = clock + 1 /\ admitted' = admitted /\ clock \in Nat /\ clock + 1 \in Times
  BY ClockFacts, NumbersAssumption DEF Tick, callVars, Times
<1>2. \A b, s, t : Left(b, s, t)' = Left(b, s, t)
  BY <1>1 DEF Left, Before, Cap
<1>3. Settled'
  BY <1>1, ClockFacts DEF Ledger, Settled, Times
<1>4. ASSUME NEW b \in Bucket
      PROVE  /\ \A s \in 0..clock : /\ s \in 0..(clock + 1) /\ Left(b, s, clock) \in Int
                                   /\ Left(b, s, clock + 1) = Left(b, s, clock) + 1
             /\ Left(b, clock + 1, clock + 1) = Cap(b) /\ Cap(b) \in Nat
  <2>1. Settled /\ clock <= clock + 1 /\ (clock + 1) - clock = 1 /\ clock \in Times
    BY <1>1, ClockFacts DEF Ledger
  <2>2. \A s \in 0..clock : s \in 0..(clock + 1) /\ Left(b, s, clock + 1) = Left(b, s, clock) + 1
    BY <1>1, <2>1, LeftLater
  <2>3. Left(b, clock + 1, clock + 1) = Cap(b) + ((clock + 1) - (clock + 1))
    BY <1>1, <2>1, LeftLater
  <2>4. Cap(b) \in Nat
    BY BucketFacts
  <2>5. \A s \in 0..clock : Left(b, s, clock) \in Int
    BY <2>1, LeftType
  <2> QED
    BY <1>1, <2>2, <2>3, <2>4, <2>5
<1>5. ASSUME NEW b \in Bucket
      PROVE  /\ LevelOf(b) \in Int /\ LevelOf(b) <= Cap(b)
             /\ LevelOf(b)' = IF LevelOf(b) < Cap(b) THEN LevelOf(b) + 1 ELSE LevelOf(b)
  <2>1. LevelOf(b)' = IF LevelOf(b) < Cap(b) THEN LevelOf(b) + 1 ELSE LevelOf(b)
    BY TickEarns DEF LevelOf
  <2>2. Pending(b) = 0
    <3>1. \A p \in Call : taken[p] = <<>>
      BY DEF Tick, OneAtATime, Serial
    <3> QED
      BY <3>1 DEF Pending
  <2>3. Real(b) \in Int /\ Real(b) <= Cap(b)
    BY <1>1, BucketFacts, LevelFacts DEF Shapes, Real
  <2> QED
    BY <2>1, <2>2, <2>3 DEF LevelOf
<1>6. ASSUME NEW b \in Bucket
      PROVE  /\ \A s \in 0..(clock + 1) : LevelOf(b)' <= Left(b, s, clock + 1)
             /\ \E s \in 0..(clock + 1) : Left(b, s, clock + 1) <= LevelOf(b)'
  <2>1. ASSUME NEW s \in 0..(clock + 1)
        PROVE  LevelOf(b)' <= Left(b, s, clock + 1)
    <3>1. CASE s = clock + 1
      BY <1>4, <1>5, <3>1
    <3>2. CASE s \in 0..clock
      <4>1. LevelOf(b) <= Left(b, s, clock)
        BY <3>2 DEF Ledger, Balanced
      <4> QED
        BY <1>4, <1>5, <3>2, <4>1
    <3> QED
      BY <1>1, <3>1, <3>2
  <2>2. CASE LevelOf(b) < Cap(b)
    <3>1. PICK s \in 0..clock : Left(b, s, clock) <= LevelOf(b)
      BY DEF Ledger, Balanced
    <3>2. Left(b, s, clock + 1) <= LevelOf(b)' /\ s \in 0..(clock + 1)
      BY <1>4, <1>5, <2>2, <3>1
    <3> QED
      BY <2>1, <3>2
  <2>3. CASE ~(LevelOf(b) < Cap(b))
    <3>1. Left(b, clock + 1, clock + 1) <= LevelOf(b)' /\ clock + 1 \in 0..(clock + 1)
      BY <1>1, <1>4, <1>5, <2>3
    <3> QED
      BY <2>1, <3>1
  <2> QED
    BY <2>2, <2>3
<1>7. Balanced'
  BY <1>1, <1>2, <1>6 DEF Balanced
<1>8. WithinRate'
  <2> SUFFICES ASSUME NEW b \in Bucket, NEW t \in 0..(clock + 1), NEW s \in 0..t
               PROVE  Left(b, s, t) >= 0
    BY <1>1, <1>2 DEF WithinRate
  <2>1. CASE t \in 0..clock
    BY <2>1 DEF Ledger, WithinRate
  <2>2. CASE t = clock + 1
    <3>1. CASE s = clock + 1
      BY <1>4, <2>2, <3>1
    <3>2. CASE s \in 0..clock
      <4>1. Left(b, s, clock) >= 0 /\ clock \in 0..clock
        BY <1>1, <3>2 DEF Ledger, WithinRate
      <4> QED
        BY <1>4, <2>2, <3>2, <4>1
    <3> QED
      BY <1>1, <2>2, <3>1, <3>2
  <2> QED
    BY <1>1, <2>1, <2>2
<1> QED
  BY <1>3, <1>7, <1>8 DEF Ledger

LEMMA AdmitLedger ==
  ASSUME OneAtATime, Shapes, Serial, Solvent, Shapes', Ledger, NEW p \in Call, Admit(p)
  PROVE  Ledger'
<1>1. clock' = clock /\ now[p] = clock /\ clock \in Nat /\ clock \in Times /\ 0..clock \subseteq Times
  <2>1. clock' = clock /\ pc[p] # "idle"
    BY DEF Admit, TookAll
  <2> QED
    BY <2>1, NobodyElse, ClockFacts
<1>2. ASSUME NEW b \in Bucket, NEW t \in Times
      PROVE  /\ t < clock \/ b \notin Passed(p) => admitted'[b][t] = admitted[b][t]
             /\ clock <= t /\ b \in Passed(p) => admitted'[b][t] = admitted[b][t] + 1
  <2>1. admitted'[b][t] = admitted[b][t] + (IF b \in Passed(p) /\ clock <= t THEN 1 ELSE 0)
    BY <1>1 DEF Admit
  <2>2. admitted[b][t] \in Nat /\ t \in Nat
    <3>1. t \in Nat
      BY ClockFacts
    <3>2. admitted[b][t] \in Nat
      BY DEF Shapes
    <3> QED
      BY <3>1, <3>2
  <2> QED
    BY <1>1, <2>1, <2>2
<1>3. Settled'
  <2> SUFFICES ASSUME NEW b \in Bucket, NEW t \in Times, clock <= t
               PROVE  admitted'[b][t] = admitted'[b][clock]
    BY <1>1 DEF Settled, Times
  <2>1. admitted[b][t] = admitted[b][clock]
    BY DEF Ledger, Settled
  <2>2. CASE b \in Passed(p)
    BY <1>1, <1>2, <2>1, <2>2
  <2>3. CASE b \notin Passed(p)
    BY <1>1, <1>2, <2>1, <2>3
  <2> QED
    BY <2>2, <2>3
<1>4. ASSUME NEW b \in Bucket, NEW s \in 0..clock
      PROVE  Before(b, s)' = Before(b, s)
  <2>1. CASE s = 0
    BY <2>1 DEF Before
  <2>2. CASE s # 0
    <3>1. s - 1 \in Times /\ s - 1 < clock
      BY <1>1, <2>2, NumbersAssumption DEF Times, Shapes
    <3> QED
      BY <1>2, <2>2, <3>1 DEF Before
  <2> QED
    BY <2>1, <2>2
<1>5. ASSUME NEW b \in Bucket, NEW t \in 0..clock, NEW s \in 0..t, t < clock \/ b \notin Passed(p)
      PROVE  Left(b, s, t)' = Left(b, s, t)
  <2>1. s \in 0..clock /\ t \in Times
    BY <1>1
  <2>2. Before(b, s)' = Before(b, s) /\ admitted'[b][t] = admitted[b][t]
    BY <1>2, <1>4, <1>5, <2>1
  <2> QED
    BY <2>2 DEF Left, Cap
<1>6. ASSUME NEW b \in Passed(p), b \in Bucket, NEW s \in 0..clock
      PROVE  Left(b, s, clock)' = Left(b, s, clock) - Interval[b]
  <2> DEFINE n == admitted[b][clock] - Before(b, s)
  <2>1. n \in Int /\ Interval[b] \in Nat /\ Cap(b) \in Nat /\ admitted[b][clock] \in Nat
        /\ Before(b, s) \in Nat
    BY <1>1, <1>6, LeftType, BucketFacts
  <2>2. admitted'[b][clock] - Before(b, s)' = n + 1
    <3>1. admitted'[b][clock] = admitted[b][clock] + 1
      BY <1>1, <1>2, <1>6
    <3>2. Before(b, s)' = Before(b, s)
      BY <1>4, <1>6
    <3> QED
      BY <2>1, <3>1, <3>2
  <2>3. Left(b, s, clock) = Cap(b) + (clock - s) - (Interval[b] * n)
    BY <1>1, <1>6, LeftType
  <2>4. Left(b, s, clock)' = Cap(b) + (clock - s) - (Interval[b] * (n + 1))
    BY <1>1, <2>2 DEF Left, Cap
  <2> HIDE DEF n
  <2>5. \A i \in Nat, d \in Int : i * (d + 1) = i * d + i /\ i * d \in Int
    OBVIOUS
  <2>6. Interval[b] * (n + 1) = Interval[b] * n + Interval[b] /\ Interval[b] * n \in Int
    BY <2>1, <2>5
  <2> DEFINE m == Interval[b] * n
  <2>7. m \in Int /\ Left(b, s, clock) = Cap(b) + (clock - s) - m
        /\ Left(b, s, clock)' = Cap(b) + (clock - s) - (m + Interval[b])
    BY <2>3, <2>4, <2>6
  <2> HIDE DEF m
  <2> QED
    BY <1>1, <2>1, <2>7
<1>7. ASSUME NEW b \in Bucket
      PROVE  /\ LevelOf(b) \in Int /\ Interval[b] \in Nat /\ \A s \in 0..clock : Left(b, s, clock) \in Int
             /\ b \in Passed(p) => LevelOf(b) >= Interval[b] /\ LevelOf(b)' = LevelOf(b) - Interval[b]
             /\ b \notin Passed(p) => LevelOf(b)' = LevelOf(b)
  <2>1. LevelOf(b) \in Int /\ Interval[b] \in Nat
    BY LevelBounds, BucketFacts
  <2>2. \A s \in 0..clock : Left(b, s, clock) \in Int
    BY <1>1, LeftType
  <2>3. CASE b \in Passed(p)
    <3>1. Real(b) + Pending(b) >= Interval[b]
          /\ Real(b)' + Pending(b)' = (Real(b) + Pending(b)) - Interval[b]
      BY <2>3, AdmitSpends
    <3> QED
      BY <2>1, <2>2, <2>3, <3>1 DEF LevelOf
  <2>4. CASE b \notin Passed(p)
    <3>1. Real(b)' + Pending(b)' = Real(b) + Pending(b)
      BY <2>4, AdmitSpends
    <3> QED
      BY <2>1, <2>2, <2>4, <3>1 DEF LevelOf
  <2> QED
    BY <2>3, <2>4
<1>8. Balanced'
  <2> SUFFICES ASSUME NEW b \in Bucket
               PROVE  /\ \A s \in 0..clock : LevelOf(b)' <= Left(b, s, clock)'
                      /\ \E s \in 0..clock : Left(b, s, clock)' <= LevelOf(b)'
    BY <1>1 DEF Balanced
  <2>1. /\ \A s \in 0..clock : LevelOf(b) <= Left(b, s, clock)
        /\ \E s \in 0..clock : Left(b, s, clock) <= LevelOf(b)
    BY DEF Ledger, Balanced
  <2>2. CASE b \in Passed(p)
    <3>1. \A s \in 0..clock : LevelOf(b) - Interval[b] <= Left(b, s, clock) - Interval[b]
      BY <1>7, <2>1
    <3>2. \E s \in 0..clock : Left(b, s, clock) - Interval[b] <= LevelOf(b) - Interval[b]
      BY <1>7, <2>1
    <3> QED
      BY <1>6, <1>7, <2>2, <3>1, <3>2
  <2>3. CASE b \notin Passed(p)
    <3>1. clock \in 0..clock
      BY <1>1
    <3> QED
      BY <1>1, <1>5, <1>7, <2>1, <2>3, <3>1
  <2> QED
    BY <2>2, <2>3
<1>9. WithinRate'
  <2> SUFFICES ASSUME NEW b \in Bucket, NEW t \in 0..clock, NEW s \in 0..t
               PROVE  Left(b, s, t)' >= 0
    BY <1>1 DEF WithinRate
  <2>1. CASE t < clock \/ b \notin Passed(p)
    BY <1>5, <2>1 DEF Ledger, WithinRate
  <2>2. CASE t = clock /\ b \in Passed(p)
    <3>1. LevelOf(b) <= Left(b, s, clock) /\ LevelOf(b) >= Interval[b]
          /\ Left(b, s, clock)' = Left(b, s, clock) - Interval[b]
      BY <1>6, <1>7, <2>2 DEF Ledger, Balanced
    <3> QED
      BY <1>1, <1>7, <2>2, <3>1
  <2> QED
    BY <1>1, <2>1, <2>2
<1> QED
  BY <1>3, <1>8, <1>9 DEF Ledger

LEMMA NextLedger ==
  ASSUME OneAtATime, Shapes, Serial, Solvent, Shapes', Ledger, [Next]_vars
  PROVE  Ledger'
<1>1. CASE Tick
  BY <1>1, TickLedger
<1>2. ASSUME NEW p \in Call, Step(p)
      PROVE  Ledger'
  <2>1. CASE Admit(p)
    BY <2>1, AdmitLedger
  <2>2. CASE ~Admit(p)
    <3>1. UNCHANGED <<clock, admitted>>
      BY <1>2, <2>2 DEF Step, Check, Enter, SweepUsers, SweepTargets, Sweep, Take, NextGate, Reject,
            Cancel, Deny
    <3> QED
      BY <1>2, <2>2, <3>1, NextSolvent, StillBalanced
  <2> QED
    BY <2>1, <2>2
<1>3. CASE UNCHANGED vars
  BY <1>3, StillSolvent, StillBalanced DEF vars
<1> QED
  BY <1>1, <1>2, <1>3 DEF Next

SerialInv == Shapes /\ Serial /\ Solvent /\ Ledger

LEMMA SerialAlways ==
  ASSUME OneAtATime
  PROVE  Spec => []SerialInv
<1>1. Init => SerialInv
  BY InitShapes, InitSerial, InitLedger DEF SerialInv
<1>2. SerialInv /\ [Next]_vars => SerialInv'
  <2> SUFFICES ASSUME SerialInv, [Next]_vars
               PROVE  SerialInv'
    OBVIOUS
  <2>1. Shapes /\ Serial /\ Solvent /\ Ledger /\ Shapes'
    BY NextShapes DEF SerialInv
  <2> QED
    BY <2>1, NextSerial, StepIsAtomic, NextLedger DEF SerialInv
<1> QED
  BY <1>1, <1>2, PTL DEF Spec

LEMMA QuietLevel ==
  ASSUME SerialInv, Quiet, NEW b \in Bucket
  PROVE  LevelOf(b) = Real(b)
<1>1. Pending(b) = 0
  <2>1. \A p \in Call : taken[p] = <<>>
    BY DEF SerialInv, Serial, Quiet
  <2> QED
    BY <2>1 DEF Pending
<1>2. Real(b) \in Int
  BY ClockFacts, BucketFacts, LevelFacts DEF SerialInv, Shapes, Real
<1> QED
  BY <1>1, <1>2 DEF LevelOf

(* Called one at a time, the limiter keeps its rate in every window of time:
   no bucket admits more than its burst and what accrued meanwhile. *)
THEOREM RateHolds ==
  ASSUME OneAtATime
  PROVE  Spec => []WithinRate
<1>1. SerialInv => WithinRate
  BY DEF SerialInv, Ledger
<1> QED
  BY <1>1, SerialAlways, PTL

(* Called one at a time, a denied check burns no token: the rollback leaves
   every bucket with what the admitted checks have left of it. *)
THEOREM DenialsAreFree ==
  ASSUME OneAtATime
  PROVE  Spec => []DeniedBurnsNothing
<1>1. SerialInv => DeniedBurnsNothing
  <2> SUFFICES ASSUME SerialInv, Quiet, NEW b \in Bucket
               PROVE  \E s \in 0..clock : Real(b) >= Left(b, s, clock)
    BY DEF DeniedBurnsNothing
  <2>1. PICK s \in 0..clock : Left(b, s, clock) <= LevelOf(b)
    BY DEF SerialInv, Ledger, Balanced
  <2>2. LevelOf(b) = Real(b)
    BY QuietLevel
  <2> QED
    BY <2>1, <2>2
<1> QED
  BY <1>1, SerialAlways, PTL

(* Called one at a time, cancelling, eviction and buckets made on demand
   never give back more than was taken. *)
THEOREM NothingIsFree ==
  ASSUME OneAtATime
  PROVE  Spec => []NothingForFree
<1>1. SerialInv => NothingForFree
  <2> SUFFICES ASSUME SerialInv, Quiet, NEW b \in Bucket, NEW s \in 0..clock
               PROVE  Real(b) <= Left(b, s, clock)
    BY DEF NothingForFree
  <2>1. LevelOf(b) <= Left(b, s, clock)
    BY DEF SerialInv, Ledger, Balanced
  <2> QED
    BY <2>1, QuietLevel
<1> QED
  BY <1>1, SerialAlways, PTL

-----------------------------------------------------------------------------
(* The hint: the delay of a call is what its emptiest bucket is short of. *)

Short(p, i) == Interval[Path(p)[i]] - LevelOf(Path(p)[i])

Delays ==
    \A p \in Call :
        /\ pc[p] \in {"sweepUser", "sweepTarget"} => delay[p] = 0
        /\ pc[p] = "take" /\ delay[p] > 0 =>
              \E i \in 1..Len(taken[p]) : delay[p] = taken[p][i].act - clock
        /\ pc[p] = "cancel" => /\ delay[p] > 0
                               /\ \A i \in DOMAIN Path(p) : Short(p, i) <= delay[p]
                               /\ \E i \in DOMAIN Path(p) : Short(p, i) = delay[p]

LEMMA PathFacts ==
  ASSUME Shapes, NEW p \in Call
  PROVE  \A i \in DOMAIN Path(p) : Path(p)[i] \in Bucket
BY GateFacts, LenProperties, ElementOfSeq DEF Shapes, Path

(* What a reservation waits for is what its bucket was short of. *)
LEMMA TakenShort ==
  ASSUME Shapes, Serial, Solvent, NEW p \in Call, pc[p] = "take", NEW i \in 1..Len(taken[p])
  PROVE  /\ taken[p][i].act - clock = Most(0, Short(p, i)) /\ Short(p, i) \in Int
         /\ taken[p][i].act - clock <= delay[p]
<1>1. PICK b : b = taken[p][i].bucket
  OBVIOUS
<1>2. b = Path(p)[i] /\ taken[p][i].act - clock <= delay[p] /\ Refundable(p, i)
  BY <1>1 DEF Serial, Solvent
<1>3. /\ b \in present /\ b \in Bucket /\ lim[b].last = clock
      /\ taken[p][i].act = clock + Most(0, 0 - lim[b].credit)
  BY <1>1, <1>2 DEF Refundable, Shapes
<1>4. clock \in Nat /\ Cap(b) \in Nat /\ Interval[b] \in Nat /\ lim[b].credit \in Int
      /\ Sound(lim[b], Cap(b))
  BY <1>3, ClockFacts, BucketFacts DEF Shapes, Buckets
<1>5. Real(b) = lim[b].credit
  BY <1>3, <1>4, LevelFacts DEF Real
<1>6. Pending(b) = Interval[b]
  BY <1>1, PendingIsHeld
<1>7. Short(p, i) = 0 - lim[b].credit
  BY <1>2, <1>4, <1>5, <1>6 DEF Short, LevelOf
<1> QED
  BY <1>2, <1>3, <1>4, <1>7 DEF Most

LEMMA NextDelays ==
  ASSUME OneAtATime, Shapes, Serial, Solvent, Shapes', Delays, [Next]_vars
  PROVE  Delays'
<1>1. CASE Tick
  <2>1. \A p \in Call : pc'[p] = "idle"
    BY <1>1 DEF Tick, OneAtATime
  <2> QED
    BY <2>1 DEF Delays
<1>2. ASSUME NEW p \in Call, Step(p)
      PROVE  Delays'
  <2>1. \A q \in Call : q # p => pc'[q] = "idle"
    <3>1. \A q \in Call : q # p => pc'[q] = pc[q]
      BY <1>2 DEF Shapes, Step, Check, Enter, SweepUsers, SweepTargets, Sweep, Take, Admit, NextGate,
            Reject, Cancel, Deny
    <3>2. CASE Check(p)
      BY <3>1, <3>2, CheckIsAlone
    <3>3. CASE pc[p] # "idle"
      BY <3>1, <3>3, NobodyElse
    <3> QED
      BY <1>2, <3>2, <3>3 DEF Step, SweepUsers, SweepTargets, Sweep, Take, Admit, TookAll, NextGate,
            Reject, Cancel, Deny
  <2>2. CASE Check(p)
    <3>1. delay'[p] = 0 /\ pc'[p] \in {"sweepUser", "take"}
      BY <2>2 DEF Check, Enter, Shapes
    <3> QED
      BY <2>1, <3>1 DEF Delays
  <2>3. CASE SweepUsers(p) \/ SweepTargets(p)
    <3>1. delay'[p] = 0 /\ pc'[p] \in {"sweepTarget", "take"}
      BY <2>3 DEF SweepUsers, SweepTargets, Sweep, Shapes, Delays, callVars
    <3> QED
      BY <2>1, <3>1 DEF Delays
  <2>4. CASE Take(p)
    <3>1. PICK n, e : /\ n = Len(taken[p])
                     /\ taken'[p] = Append(taken[p], e)
                     /\ delay'[p] = Most(delay[p], e.act - now[p])
      <4> DEFINE b == Following(p)
                 R == ReserveToken(IF b \in present THEN lim[b] ELSE NewBucket(Cap(b)),
                                   Cap(b), Interval[b], now[p])
                 f == [bucket |-> b, act |-> R.lastEvent, held |-> TRUE]
      <4>1. taken'[p] = Append(taken[p], f) /\ delay'[p] = Most(delay[p], R.lastEvent - now[p])
        BY <2>4 DEF Take, Following, Shapes
      <4>2. f.act = R.lastEvent
        OBVIOUS
      <4> HIDE DEF f, R
      <4> QED
        BY <4>1, <4>2
    <3>2. /\ Len(taken'[p]) = n + 1 /\ taken'[p][n + 1] = e /\ n \in Nat
          /\ \A i \in 1..n : taken'[p][i] = taken[p][i]
      <4>1. taken[p] \in Seq(Entries) /\ taken[p] \in Seq(Entries \cup {e}) /\ e \in Entries \cup {e}
        BY SeqMonotonic DEF Shapes
      <4>2. n \in Nat
        BY <3>1, <4>1, LenProperties
      <4> QED
        BY <3>1, <4>1, <4>2, AppendProperties
    <3>3. pc'[p] = "take" /\ pc[p] = "take" /\ clock' = clock /\ now[p] = clock
      BY <2>4 DEF Take, Serial
    <3>4. delay'[p] > 0 => \E i \in 1..Len(taken'[p]) : delay'[p] = taken'[p][i].act - clock'
      <4> SUFFICES ASSUME delay'[p] > 0
                   PROVE  \E i \in 1..(n + 1) : delay'[p] = taken'[p][i].act - clock
        BY <3>2, <3>3
      <4>1. CASE delay'[p] = delay[p]
        <5>1. PICK i \in 1..n : delay[p] = taken[p][i].act - clock
          BY <3>1, <3>3, <4>1 DEF Delays
        <5>2. i \in 1..(n + 1) /\ taken'[p][i] = taken[p][i]
          BY <3>2
        <5> QED
          BY <4>1, <5>1, <5>2
      <4>2. CASE delay'[p] = e.act - now[p]
        <5>1. n + 1 \in 1..(n + 1)
          BY <3>2
        <5> QED
          BY <3>2, <3>3, <4>2, <5>1
      <4> QED
        BY <3>1, <4>1, <4>2 DEF Most
    <3> QED
      BY <2>1, <3>3, <3>4 DEF Delays
  <2>5. CASE Admit(p) \/ Deny(p)
    <3>1. pc'[p] = "idle"
      BY <2>5 DEF Admit, Deny, Shapes
    <3> QED
      BY <2>1, <3>1 DEF Delays
  <2>6. CASE NextGate(p)
    <3>1. gate[p] = 1 /\ gate[p] < Len(Gates[p]) /\ Len(Gates[p]) = 1
      BY <2>6, OneGate DEF NextGate
    <3> QED
      BY <3>1
  <2>7. CASE Reject(p) \/ Cancel(p)
    <3>1. /\ pc'[p] = "cancel" /\ delay'[p] = delay[p] /\ Path(p)' = Path(p)
      BY <2>7 DEF Reject, Cancel, Shapes, Path, callVars
    <3>2. SameLevels
      <4>1. ~Admit(p)
        BY <2>7 DEF Reject, Cancel, Admit, TookAll
      <4> QED
        BY <1>2, <4>1, NextSolvent
    <3>3. \A i \in DOMAIN Path(p) : Path(p)[i] \in Bucket
      BY PathFacts
    <3>4. \A i \in DOMAIN Path(p) : Short(p, i)' = Short(p, i)
      BY <3>1, <3>2, <3>3 DEF Short, SameLevels, LevelOf
    <3>5. /\ delay[p] > 0 /\ \A i \in DOMAIN Path(p) : Short(p, i) <= delay[p]
          /\ \E i \in DOMAIN Path(p) : Short(p, i) = delay[p]
      <4>1. CASE Cancel(p)
        BY <4>1 DEF Cancel, Delays
      <4>2. CASE Reject(p)
        <5>1. pc[p] = "take" /\ delay[p] > 0 /\ Len(taken[p]) = Len(Path(p)) /\ delay[p] \in Nat
              /\ DOMAIN Path(p) = 1..Len(taken[p])
          BY <4>2, GateFacts, LenProperties DEF Reject, TookAll, Shapes, Path
        <5>2. \A i \in DOMAIN Path(p) : /\ taken[p][i].act - clock = Most(0, Short(p, i))
                                      /\ taken[p][i].act - clock <= delay[p] /\ Short(p, i) \in Int
          BY <5>1, TakenShort
        <5>3. \A i \in DOMAIN Path(p) : Short(p, i) <= delay[p]
          BY <5>1, <5>2 DEF Most
        <5>4. PICK i \in DOMAIN Path(p) : delay[p] = taken[p][i].act - clock
          BY <5>1 DEF Delays
        <5>5. Short(p, i) = delay[p]
          BY <5>1, <5>2, <5>4 DEF Most
        <5> QED
          BY <5>1, <5>3, <5>5
      <4> QED
        BY <2>7, <4>1, <4>2
    <3> QED
      BY <2>1, <3>1, <3>4, <3>5 DEF Delays
  <2> QED
    BY <1>2, <2>2, <2>3, <2>4, <2>5, <2>6, <2>7 DEF Step
<1>3. CASE UNCHANGED vars
  <2>1. \A b : LevelOf(b)' = LevelOf(b)
    BY <1>3 DEF vars, LevelOf, Real, Pending
  <2>2. \A p \in Call : Path(p)' = Path(p)
    BY <1>3 DEF vars, Path
  <2>3. \A p \in Call : \A i : Short(p, i)' = Short(p, i)
    BY <2>1, <2>2 DEF Short
  <2> QED
    BY <1>3, <2>2, <2>3 DEF vars, Delays
<1> QED
  BY <1>1, <1>2, <1>3 DEF Next

(* A bucket holds at least one token when it is full. *)
LEMMA BurstIsAToken ==
  ASSUME NEW b \in Bucket
  PROVE  Interval[b] <= Cap(b)
<1>1. \A m, n \in Nat \ {0} : n <= m * n
  OBVIOUS
<1> QED
  BY <1>1, BucketFacts DEF Cap

(* How long to wait: exactly as long as the emptiest bucket is short. *)
LEMMA WaitFacts ==
  ASSUME Shapes, Ledger, Serial, Solvent, NEW p \in Call, NEW d \in Nat \ {0}, d <= MaxWait,
         \A i \in DOMAIN Path(p) : Short(p, i) <= d, \E i \in DOMAIN Path(p) : Short(p, i) = d
  PROVE  HasTokens(p, clock + d) /\ ~HasTokens(p, clock + (d - 1))
<1>1. clock \in Nat /\ clock + d \in Times /\ clock + (d - 1) \in Times
      /\ clock <= clock + d /\ clock <= clock + (d - 1) /\ Settled
  <2>1. {clock, MaxTime, MaxWait} \subseteq Nat /\ clock <= MaxTime
    BY NumbersAssumption DEF Shapes
  <2>2. {clock + d, clock + (d - 1)} \subseteq 0..(MaxTime + MaxWait)
    BY <2>1
  <2> QED
    BY <2>1, <2>2 DEF Times, Ledger
<1>2. \A i \in DOMAIN Path(p) : Path(p)[i] \in Bucket
  BY PathFacts
<1>3. ASSUME NEW i \in DOMAIN Path(p), NEW s \in 0..(clock + d)
      PROVE  Left(Path(p)[i], s, clock + d) >= Interval[Path(p)[i]]
  <2>1. PICK b \in Bucket : b = Path(p)[i]
    BY <1>2
  <2>2. LevelOf(b) \in Int /\ Interval[b] \in Nat /\ Interval[b] <= Cap(b) /\ Cap(b) \in Nat
        /\ Interval[b] - LevelOf(b) <= d
    BY <2>1, LevelBounds, BucketFacts, BurstIsAToken DEF Short
  <2>3. CASE clock < s
    <3>1. Left(b, s, clock + d) = Cap(b) + ((clock + d) - s)
      BY <1>1, <2>3, LeftLater
    <3>2. (clock + d) - s \in Nat
      BY <1>1, <2>3
    <3> QED
      BY <2>1, <2>2, <3>1, <3>2
  <2>4. CASE s \in 0..clock
    <3>1. Left(b, s, clock + d) = Left(b, s, clock) + ((clock + d) - clock)
      BY <1>1, <2>4, LeftLater
    <3>2. LevelOf(b) <= Left(b, s, clock)
      BY <2>4 DEF Ledger, Balanced
    <3>3. Left(b, s, clock) \in Int
      BY <2>4, ClockFacts, LeftType
    <3>4. (clock + d) - clock = d
      BY <1>1
    <3>5. Left(b, s, clock + d) >= Interval[b]
      BY <2>2, <3>1, <3>2, <3>3, <3>4
    <3> QED
      BY <2>1, <3>5
  <2> QED
    BY <1>1, <2>3, <2>4
<1>4. ~HasTokens(p, clock + (d - 1))
  <2>1. PICK i \in DOMAIN Path(p) : Short(p, i) = d
    OBVIOUS
  <2>2. PICK b \in Bucket : b = Path(p)[i]
    BY <1>2
  <2>3. PICK s \in 0..clock : Left(b, s, clock) <= LevelOf(b)
    BY DEF Ledger, Balanced
  <2>4. Left(b, s, clock + (d - 1)) = Left(b, s, clock) + ((clock + (d - 1)) - clock)
        /\ s \in 0..(clock + (d - 1))
    BY <1>1, LeftLater
  <2>5. LevelOf(b) \in Int /\ Interval[b] \in Nat /\ Left(b, s, clock) \in Int
        /\ Interval[b] - LevelOf(b) = d
    BY <2>1, <2>2, LevelBounds, BucketFacts, ClockFacts, LeftType DEF Short
  <2>6. (clock + (d - 1)) - clock = d - 1
    BY <1>1
  <2>7. Left(b, s, clock + (d - 1)) < Interval[b]
    BY <2>3, <2>4, <2>5, <2>6
  <2>8. ~(Left(b, s, clock + (d - 1)) >= Interval[b])
    BY <2>4, <2>5, <2>6, <2>7
  <2> QED
    BY <2>2, <2>4, <2>8 DEF HasTokens
<1> QED
  BY <1>3, <1>4 DEF HasTokens

(* Called one at a time, RetryAfter is exact: unless it is capped, whoever
   waits that long alone finds a token in every bucket, and a tick earlier
   one of them has none. *)
THEOREM RetryAfterIsExact ==
  ASSUME OneAtATime
  PROVE  Spec => HintIsExact
<1> DEFINE Hint == \A p \in Call : reply'[p] > 0 /\ reply[p] = 0 /\ delay[p] <= MaxWait =>
                     /\ HasTokens(p, now[p] + reply'[p])
                     /\ ~HasTokens(p, now[p] + (reply'[p] - 1))
<1>1. Init => Delays
  BY DEF Init, Delays
<1>2. SerialInv /\ SerialInv' /\ Delays /\ [Next]_vars => Delays'
  BY NextDelays DEF SerialInv
<1>3. SerialInv /\ Delays /\ [Next]_vars => [Hint]_vars
  <2> SUFFICES ASSUME SerialInv, Delays, [Next]_vars, NEW p \in Call,
                      reply'[p] > 0, reply[p] = 0, delay[p] <= MaxWait
               PROVE  /\ HasTokens(p, now[p] + reply'[p])
                      /\ ~HasTokens(p, now[p] + (reply'[p] - 1))
    OBVIOUS
  <2>1. Shapes /\ Serial /\ Solvent /\ Ledger
    BY DEF SerialInv
  <2>2. Deny(p)
    <3>1. reply'[p] # reply[p]
      OBVIOUS
    <3>2. PICK q \in Call : Step(q)
      BY <3>1 DEF Next, Tick, callVars, vars
    <3>3. Check(q) \/ Deny(q)
      BY <3>1, <3>2 DEF Step, SweepUsers, SweepTargets, Sweep, Take, Admit, NextGate, Reject, Cancel,
            callVars
    <3>4. q = p /\ ~Check(q)
      BY <2>1, <3>1, <3>3 DEF Shapes, Check, Deny
    <3> QED
      BY <3>3, <3>4
  <2>3. pc[p] = "cancel" /\ now[p] = clock /\ delay[p] \in Nat
    BY <2>1, <2>2 DEF Deny, Serial, Shapes
  <2>4. delay[p] > 0 /\ (\A i \in DOMAIN Path(p) : Short(p, i) <= delay[p])
        /\ \E i \in DOMAIN Path(p) : Short(p, i) = delay[p]
    BY <2>3 DEF Delays
  <2>5. reply'[p] = delay[p]
    BY <2>1, <2>2 DEF Deny, Shapes, Least
  <2>6. HasTokens(p, clock + delay[p]) /\ ~HasTokens(p, clock + (delay[p] - 1))
    BY <2>1, <2>3, <2>4, WaitFacts
  <2> QED
    BY <2>3, <2>5, <2>6
<1>4. Spec => []SerialInv
  BY SerialAlways
<1> HIDE DEF Hint
<1>5. Spec => [][Hint]_vars
  BY <1>1, <1>2, <1>3, <1>4, PTL DEF Spec
<1> QED
  BY <1>5 DEF HintIsExact, Hint
=============================================================================
