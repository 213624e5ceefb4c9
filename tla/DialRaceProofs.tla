--------------------------- MODULE DialRaceProofs ---------------------------
(***************************************************************************)
(* Proofs about DialRace for every list of hosts, every network, every     *)
(* guard and every cap: the state is well typed, exactly one connection    *)
(* or none leaves the dial layer, the pool is settled when connect reads   *)
(* the guard's flag, and the race implements ProbeVerdict.                 *)
(***************************************************************************)
EXTENDS DialRace, FiniteSetTheorems, SequenceTheorems, Positions

-----------------------------------------------------------------------------
(* Facts about the constants. *)

(* Positions are the numbers 1..Len(Hosts), so the distinct ones are finite
   in number and none of them is Idle. *)
LEMMA ConstantFacts ==
    /\ Pos \subseteq Nat \ {0}
    /\ Uniq \subseteq Pos
    /\ IsFiniteSet(Uniq)
    /\ N \in Nat
    /\ Idle \notin Uniq
    /\ \A p \in Pos : Addrs[Hosts[p]] \in SUBSET Ip
<1>1. Pos = 1..Len(Hosts) /\ Len(Hosts) \in Nat
  BY HostsAssumption DEF Pos
<1>2. Uniq \subseteq Pos
  BY DEF Uniq
<1>3. IsFiniteSet(Uniq)
  <2>1. IsFiniteSet(Pos)
    BY <1>1, FS_Interval
  <2> QED
    BY <2>1, <1>2, FS_Subset
<1>4. N \in Nat
  BY <1>3, FS_CardinalityType DEF N
<1>5. \A p \in Pos : Hosts[p] \in Host
  BY HostsAssumption DEF Pos
<1>6. \A p \in Pos : Addrs[Hosts[p]] \in SUBSET Ip
  BY <1>5, AddrsAssumption
<1>7. Pos \subseteq Nat \ {0} /\ Idle \notin Uniq
  BY <1>1, <1>2 DEF Idle
<1> QED
  BY <1>2, <1>3, <1>4, <1>6, <1>7

-----------------------------------------------------------------------------
(* The inductive invariant. *)

(* Where the outcome of a host is: a position that has been handed over is
   with one worker, or once in the channel, or read -- never in two of these
   places -- and the loop's counter counts the positions read. *)
Accounting ==
    /\ collected \subseteq fed
    /\ reads = Cardinality(collected)
    /\ \A w \in Workers : job[w] # Idle => job[w] \in fed \ collected
    /\ \A v, w \in Workers : job[w] # Idle /\ job[v] = job[w] => v = w
    /\ \A i \in 1..Len(ch) : ch[i] \in fed \ collected /\ outcome[ch[i]] # "pending"
    /\ \A i \in 1..Len(ch), w \in Workers : ch[i] # job[w]
    /\ \A i, j \in 1..Len(ch) : ch[i] = ch[j] => i = j

(* What the collector has concluded from what it has read. *)
Conclusions ==
    /\ \A p \in collected : outcome[p] # "pending"
    /\ winner # Idle => winner \in collected
    /\ phase # "collect" => collected = Uniq /\ res.ok = (winner # Idle)

Inv == TypeOK /\ Accounting /\ Conclusions /\ OneOwner

(* The initial states satisfy it. *)
LEMMA InitInv == Init => Inv
<1> SUFFICES ASSUME Init PROVE Inv
  OBVIOUS
<1>1. TypeOK
  <2>1. ch \in Seq(Uniq)
    BY EmptySeq DEF Init
  <2> QED
    BY <2>1, ConstantFacts DEF Init, TypeOK, Answers, Causes, Errors, NoRes
<1>2. Accounting
  BY FS_EmptySet DEF Init, Accounting
<1>3. Conclusions
  BY DEF Init, Conclusions
<1>4. OneOwner
  BY ConstantFacts DEF Init, OneOwner, Unread
<1> QED
  BY <1>1, <1>2, <1>3, <1>4 DEF Inv

-----------------------------------------------------------------------------
(* Every step preserves it. *)

(* The outcome at the head of the channel belongs to a position that has
   been dialed and not read yet; the rest of the channel keeps its order. *)
LEMMA HeadFacts ==
  ASSUME Inv, ch # <<>>
  PROVE  /\ Len(ch) \in Nat \ {0}
         /\ Head(ch) = ch[1]
         /\ Head(ch) \in Uniq
         /\ Head(ch) \in fed \ collected
         /\ outcome[Head(ch)] \in Errors \cup {"conn"}
         /\ Tail(ch) \in Seq(Uniq)
         /\ Len(Tail(ch)) = Len(ch) - 1
         /\ \A i \in 1..Len(Tail(ch)) : Tail(ch)[i] = ch[i+1]
<1>1. ch \in Seq(Uniq)
  BY DEF Inv, TypeOK
<1>2. Len(ch) \in Nat \ {0} /\ Head(ch) = ch[1]
  BY <1>1, EmptySeq
<1>3. /\ Head(ch) \in Uniq
      /\ Tail(ch) \in Seq(Uniq)
      /\ Len(Tail(ch)) = Len(ch) - 1
      /\ \A i \in 1..Len(Tail(ch)) : Tail(ch)[i] = ch[i+1]
  BY <1>1, HeadTailProperties
<1>4. Head(ch) \in fed \ collected /\ outcome[Head(ch)] # "pending"
  BY <1>2 DEF Inv, Accounting
<1>5. outcome[Head(ch)] \in Errors \cup {"conn"}
  BY <1>3, <1>4, ConstantFacts DEF Inv, TypeOK
<1> QED
  BY <1>2, <1>3, <1>4, <1>5

(* Taking the next host. *)
LEMMA TakeStep ==
  ASSUME Inv, NEW w \in Workers, NEW p \in Uniq, Take(w, p)
  PROVE  Inv'
<1>1. TypeOK'
  BY ConstantFacts DEF Inv, TypeOK, Take, collector
<1>2. Accounting'
  BY ConstantFacts DEF Inv, TypeOK, Accounting, Take, collector
<1>3. Conclusions'
  BY DEF Inv, Conclusions, Take, collector
<1>4. OneOwner'
  BY DEF Inv, OneOwner, Unread, Take, collector
<1> QED
  BY <1>1, <1>2, <1>3, <1>4 DEF Inv

(* What DialContext does before it returns: no outcome, no connection. *)
LEMMA AttemptStep ==
  ASSUME Inv, NEW w \in Workers, NEW ip \in Ip, Attempt(w, ip) \/ CandidateFails(w, ip)
  PROVE  Inv'
<1>1. TypeOK'
  <2>0. todo \in [Workers -> SUBSET Ip] /\ syn \in [Workers -> SUBSET Ip]
    BY DEF Inv, TypeOK
  <2>1. todo' \in [Workers -> SUBSET Ip] /\ syn' \in [Workers -> SUBSET Ip]
    BY <2>0 DEF Attempt, CandidateFails
  <2>2. guardHit' \in BOOLEAN
    BY DEF Inv, TypeOK, Attempt, CandidateFails
  <2> QED
    BY <2>1, <2>2 DEF Inv, TypeOK, Attempt, CandidateFails, collector
<1>2. Accounting'
  BY DEF Inv, Accounting, Attempt, CandidateFails, collector
<1>3. Conclusions'
  BY DEF Inv, Conclusions, Attempt, CandidateFails, collector
<1>4. OneOwner'
  BY DEF Inv, OneOwner, Unread, Attempt, CandidateFails, collector
<1> QED
  BY <1>1, <1>2, <1>3, <1>4 DEF Inv

(* DialContext returns a connection. *)
LEMMA ConnectedStep ==
  ASSUME Inv, NEW w \in Workers, NEW ip \in Ip, Connected(w, ip)
  PROVE  Inv'
<1>1. job[w] \in Uniq /\ job[w] \in fed \ collected /\ outcome[job[w]] = "pending"
  BY DEF Inv, TypeOK, Accounting, Connected, Dialing
<1>2. TypeOK'
  BY <1>1, ConstantFacts DEF Inv, TypeOK, Connected, DialReturns, collector
<1>3. Accounting'
  BY <1>1 DEF Inv, TypeOK, Accounting, Connected, DialReturns, collector
<1>4. Conclusions'
  BY <1>1 DEF Inv, TypeOK, Conclusions, Connected, DialReturns, collector
<1>5. OneOwner'
  <2>1. Unread' = Unread \cup {job[w]}
    BY <1>1, ConstantFacts DEF Inv, TypeOK, Unread, Connected, DialReturns, collector
  <2>2. winner # job[w]
    BY <1>1, ConstantFacts DEF Inv, Conclusions
  <2> QED
    BY <2>1, <2>2 DEF Inv, OneOwner, Connected, DialReturns, collector
<1> QED
  BY <1>2, <1>3, <1>4, <1>5 DEF Inv

(* DialContext returns an error, on its own account or on the context's. *)
LEMMA DialFailsStep ==
  ASSUME Inv, NEW w \in Workers, Dialing(w), NEW o \in Errors, DialReturns(w, o),
         UNCHANGED <<peer, open>>
  PROVE  Inv'
<1>1. job[w] \in Uniq /\ job[w] \in fed \ collected /\ outcome[job[w]] = "pending"
  BY DEF Inv, TypeOK, Accounting, Dialing
<1>2. TypeOK'
  BY <1>1, ConstantFacts DEF Inv, TypeOK, DialReturns, collector
<1>3. Accounting'
  BY <1>1 DEF Inv, TypeOK, Accounting, DialReturns, collector, Errors
<1>4. Conclusions'
  BY <1>1 DEF Inv, TypeOK, Conclusions, DialReturns, collector
<1>5. OneOwner'
  <2>1. Unread' = Unread
    BY <1>1, ConstantFacts DEF Inv, TypeOK, Unread, DialReturns, collector, Errors
  <2> QED
    BY <2>1 DEF Inv, OneOwner, DialReturns, collector
<1> QED
  BY <1>2, <1>3, <1>4, <1>5 DEF Inv

(* A worker sends its outcome. *)
LEMMA SendStep ==
  ASSUME Inv, NEW w \in Workers, SendOutcome(w)
  PROVE  Inv'
<1>1. job[w] \in Uniq /\ job[w] \in fed \ collected /\ outcome[job[w]] # "pending"
  BY DEF Inv, TypeOK, Accounting, SendOutcome, Dialing
<1>2. /\ Len(ch) \in Nat
      /\ ch' \in Seq(Uniq)
      /\ Len(ch') = Len(ch) + 1
      /\ \A i \in 1..Len(ch) : ch'[i] = ch[i]
      /\ ch'[Len(ch) + 1] = job[w]
  BY <1>1, AppendProperties, LenProperties DEF Inv, TypeOK, SendOutcome
<1>3. TypeOK'
  BY <1>2 DEF Inv, TypeOK, SendOutcome, dialer, collector
<1>4. Accounting'
  <2>1. \A v \in Workers : job'[v] # Idle => v # w /\ job'[v] = job[v]
    BY DEF Inv, TypeOK, SendOutcome
  <2>2. \A i \in 1..Len(ch') : ch'[i] \in fed \ collected /\ outcome[ch'[i]] # "pending"
    BY <1>1, <1>2 DEF Inv, Accounting
  <2>3. \A i \in 1..Len(ch'), v \in Workers : ch'[i] # job'[v]
    <3> SUFFICES ASSUME NEW i \in 1..Len(ch'), NEW v \in Workers, job'[v] # Idle
                 PROVE  ch'[i] # job'[v]
      BY <1>1, <1>2, <2>2, ConstantFacts DEF Inv, TypeOK
    <3>1. v # w /\ job'[v] = job[v]
      BY <2>1
    <3>2. CASE i = Len(ch) + 1
      BY <1>1, <1>2, <3>1, <3>2 DEF Inv, Accounting
    <3>3. CASE i \in 1..Len(ch)
      BY <1>2, <3>1, <3>3 DEF Inv, Accounting
    <3> QED
      BY <1>2, <3>2, <3>3
  <2>4. \A i, j \in 1..Len(ch') : ch'[i] = ch'[j] => i = j
    BY <1>1, <1>2 DEF Inv, Accounting
  <2>5. /\ \A v \in Workers : job'[v] # Idle => job'[v] \in fed \ collected
        /\ \A u, v \in Workers : job'[v] # Idle /\ job'[u] = job'[v] => u = v
    BY <2>1 DEF Inv, Accounting
  <2> QED
    BY <2>2, <2>3, <2>4, <2>5 DEF Inv, Accounting, SendOutcome, dialer, collector
<1>5. Conclusions'
  BY DEF Inv, Conclusions, SendOutcome, dialer, collector
<1>6. OneOwner'
  BY DEF Inv, OneOwner, Unread, SendOutcome, dialer, collector
<1> QED
  BY <1>3, <1>4, <1>5, <1>6 DEF Inv

(* What every iteration of the collector's loop does to the accounting. *)
LEMMA ReceiveStep ==
  ASSUME Inv, Receive, outcome' = outcome
  PROVE  /\ Accounting'
         /\ ch' \in Seq(Uniq) /\ reads' \in Nat /\ collected' \subseteq Uniq
<1>1. ch # <<>> /\ ch' = Tail(ch) /\ collected' = collected \cup {Head(ch)}
      /\ reads' = reads + 1 /\ fed' = fed /\ job' = job
  BY DEF Receive
<1>2. ch' \in Seq(Uniq) /\ reads' \in Nat /\ collected' \subseteq Uniq
  BY <1>1, HeadFacts DEF Inv, TypeOK
<1>3. Len(ch) \in Nat \ {0} /\ Len(ch') = Len(ch) - 1
      /\ \A i \in 1..Len(ch') : i + 1 \in 1..Len(ch) /\ ch'[i] = ch[i+1]
  BY <1>1, HeadFacts
<1>4. Head(ch) = ch[1] /\ 1 \in 1..Len(ch) /\ Head(ch) \in fed \ collected
  BY <1>1, <1>3, HeadFacts
<1>5. reads' = Cardinality(collected')
  <2>1. IsFiniteSet(collected)
    BY ConstantFacts, FS_Subset DEF Inv, TypeOK
  <2> QED
    BY <1>1, <1>4, <2>1, FS_AddElement DEF Inv, Accounting
<1>6. \A i \in 1..Len(ch') : ch'[i] \in fed' \ collected' /\ outcome'[ch'[i]] # "pending"
  <2> SUFFICES ASSUME NEW i \in 1..Len(ch')
               PROVE  ch'[i] \in fed \ collected /\ ch'[i] # ch[1] /\ outcome[ch'[i]] # "pending"
    BY <1>1, <1>4
  <2>1. i + 1 # 1
    BY <1>3
  <2> QED
    BY <1>3, <1>4, <2>1 DEF Inv, Accounting
<1>7. \A i \in 1..Len(ch'), w \in Workers : ch'[i] # job'[w]
  BY <1>1, <1>3 DEF Inv, Accounting
<1>8. \A i, j \in 1..Len(ch') : ch'[i] = ch'[j] => i = j
  BY <1>3 DEF Inv, Accounting
<1>9. \A w \in Workers : job'[w] # Idle => job'[w] \in fed' \ collected'
  BY <1>1, <1>4 DEF Inv, Accounting
<1>10. collected' \subseteq fed'
       /\ \A v, w \in Workers : job'[w] # Idle /\ job'[v] = job'[w] => v = w
  BY <1>1, <1>4 DEF Inv, Accounting
<1>11. Accounting'
  BY <1>5, <1>6, <1>7, <1>8, <1>9, <1>10 DEF Accounting
<1> QED
  BY <1>2, <1>11

(* The collector reads an error. *)
LEMMA CollectErrorStep ==
  ASSUME Inv, CollectError
  PROVE  Inv'
<1>1. Receive /\ outcome' = outcome /\ ch # <<>>
  BY DEF CollectError, Receive, dialer
<1>2. Accounting' /\ ch' \in Seq(Uniq) /\ reads' \in Nat /\ collected' \subseteq Uniq
  BY <1>1, ReceiveStep
<1>3. Head(ch) \in Uniq /\ outcome[Head(ch)] \in Errors
  BY <1>1, HeadFacts DEF CollectError
<1>4. TypeOK'
  BY <1>2, <1>3 DEF Inv, TypeOK, CollectError, Receive, dialer
<1>5. Conclusions'
  BY <1>3, ConstantFacts DEF Inv, Conclusions, CollectError, Receive, dialer, Errors
<1>6. OneOwner'
  BY <1>3 DEF Inv, OneOwner, Unread, CollectError, Receive, dialer, Errors
<1> QED
  BY <1>2, <1>4, <1>5, <1>6 DEF Inv

(* The collector reads the first connection. *)
LEMMA CollectWinnerStep ==
  ASSUME Inv, CollectWinner
  PROVE  Inv'
<1>1. Receive /\ outcome' = outcome /\ ch # <<>> /\ phase = "collect" /\ phase' = phase
  BY DEF CollectWinner, Receive, dialer
<1>2. Accounting' /\ ch' \in Seq(Uniq) /\ reads' \in Nat /\ collected' \subseteq Uniq
  BY <1>1, ReceiveStep
<1>3. Head(ch) \in Uniq \ collected /\ outcome[Head(ch)] = "conn" /\ Head(ch) # Idle
  BY <1>1, HeadFacts, ConstantFacts DEF CollectWinner
<1>4. TypeOK'
  BY <1>2, <1>3 DEF Inv, TypeOK, CollectWinner, Receive, dialer, Causes
<1>5. Conclusions'
  BY <1>1, <1>3 DEF Inv, Conclusions, CollectWinner, Receive, dialer
<1>6. OneOwner'
  <2>1. Unread' = Unread \ {Head(ch)} /\ Head(ch) \in Unread
    BY <1>1, <1>3 DEF Unread, CollectWinner, Receive
  <2> QED
    BY <1>1, <1>3, <2>1 DEF Inv, OneOwner, CollectWinner
<1> QED
  BY <1>2, <1>4, <1>5, <1>6 DEF Inv

(* The collector reads a further connection and closes it. *)
LEMMA CollectLoserStep ==
  ASSUME Inv, CollectLoser
  PROVE  Inv' /\ Head(ch) \in open
<1>1. Receive /\ outcome' = outcome /\ ch # <<>> /\ phase = "collect" /\ phase' = phase
  BY DEF CollectLoser, Receive, dialer
<1>2. Accounting' /\ ch' \in Seq(Uniq) /\ reads' \in Nat /\ collected' \subseteq Uniq
  BY <1>1, ReceiveStep
<1>3. Head(ch) \in Uniq \ collected /\ outcome[Head(ch)] = "conn"
  BY <1>1, HeadFacts DEF CollectLoser
<1>4. TypeOK'
  BY <1>2 DEF Inv, TypeOK, CollectLoser, Receive, dialer
<1>5. Conclusions'
  BY <1>1, <1>3 DEF Inv, Conclusions, CollectLoser, Receive, dialer
<1>6. Unread' = Unread \ {Head(ch)} /\ Head(ch) \in Unread
  BY <1>1, <1>3 DEF Unread, CollectLoser, Receive
<1>7. OneOwner'
  BY <1>1, <1>6 DEF Inv, OneOwner, CollectLoser
<1>8. Head(ch) \in open
  BY <1>6 DEF Inv, OneOwner
<1> QED
  BY <1>2, <1>4, <1>5, <1>7, <1>8 DEF Inv

(* Every position has been read by the time connect returns, and one that
   has been read is neither with a worker nor in the channel. *)
LEMMA AllRead ==
  ASSUME Inv, reads = N
  PROVE  collected = Uniq
BY ConstantFacts, FS_Subset DEF Inv, TypeOK, Accounting, N

(* connect returns; Run closes the winner. *)
LEMMA ReturnStep ==
  ASSUME Inv, Return \/ Close
  PROVE  Inv'
<1>1. TypeOK'
  <2>1. res' \in [ok : BOOLEAN, error : Errors \cup {"none"}, denied : BOOLEAN]
    <3>1. CASE Return
      <4>1. (winner # Idle) \in BOOLEAN /\ (guardHit /\ winner = Idle) \in BOOLEAN
        OBVIOUS
      <4>2. (IF winner # Idle THEN "none" ELSE lastErr) \in Errors \cup {"none"}
        BY DEF Inv, TypeOK
      <4> QED
        BY <3>1, <4>1, <4>2 DEF Return
    <3>2. CASE Close
      BY <3>2 DEF Inv, TypeOK, Close
    <3> QED
      BY <3>1, <3>2
  <2>2. open' \subseteq Uniq /\ phase' \in {"collect", "returned", "closed"}
    BY DEF Inv, TypeOK, Return, Close
  <2> QED
    BY <2>1, <2>2 DEF Inv, TypeOK, Return, Close, dialer
<1>2. Accounting'
  BY DEF Inv, Accounting, Return, Close, dialer
<1>3. Conclusions'
  BY AllRead DEF Inv, Conclusions, Return, Close, dialer
<1>4. OneOwner'
  BY DEF Inv, OneOwner, Unread, Return, Close, dialer
<1> QED
  BY <1>1, <1>2, <1>3, <1>4 DEF Inv

(* The steps that change neither an outcome nor a place. *)
LEMMA OtherSteps ==
  ASSUME Inv,
         \/ \E w \in Workers : Exit(w)
         \/ \E p \in Pos : Straggler(p)
         \/ \E cause \in {"deadline", "parent"} : CtxEnds(cause)
         \/ UNCHANGED vars
  PROVE  Inv' /\ UNCHANGED <<open, phase, res>>
<1>1. UNCHANGED <<net, fed, job, dialer, open, ch, collector>>
  BY DEF Exit, Straggler, CtxEnds, vars, dialer, collector
<1>2. exited' \subseteq Workers /\ guardHit' \in BOOLEAN /\ ctx' \in Causes
  BY DEF Inv, TypeOK, Exit, Straggler, CtxEnds, vars, Causes
<1>3. TypeOK'
  BY <1>1, <1>2 DEF Inv, TypeOK, dialer, collector
<1>4. Accounting' /\ Conclusions' /\ OneOwner'
  BY <1>1 DEF Inv, Accounting, Conclusions, OneOwner, Unread, dialer, collector
<1> QED
  BY <1>1, <1>3, <1>4 DEF Inv, collector

(* Together: one step of the race. *)
LEMMA InvStep == Inv /\ [Next]_vars => Inv'
<1> SUFFICES ASSUME Inv, [Next]_vars PROVE Inv'
  OBVIOUS
<1>1. ASSUME NEW w \in Workers, WorkerStep(w) PROVE Inv'
  <2>1. ASSUME NEW p \in Uniq, Take(w, p) PROVE Inv'
    BY <2>1, TakeStep
  <2>2. ASSUME NEW ip \in Ip, Attempt(w, ip) \/ CandidateFails(w, ip) PROVE Inv'
    BY <2>2, AttemptStep
  <2>3. ASSUME NEW ip \in Ip, Connected(w, ip) PROVE Inv'
    BY <2>3, ConnectedStep
  <2>4. CASE GiveUp(w)
    <3>1. Dialing(w) /\ UNCHANGED <<peer, open>>
          /\ (DialReturns(w, "failed") \/ DialReturns(w, "timeout"))
      BY <2>4 DEF GiveUp
    <3> QED
      BY <3>1, DialFailsStep DEF Errors
  <2>5. CASE Abort(w)
    <3>1. Dialing(w) /\ UNCHANGED <<peer, open>>
          /\ (DialReturns(w, "timeout") \/ DialReturns(w, "canceled"))
      BY <2>5 DEF Abort
    <3> QED
      BY <3>1, DialFailsStep DEF Errors
  <2>6. CASE SendOutcome(w)
    BY <2>6, SendStep
  <2>7. CASE Exit(w)
    BY <2>7, OtherSteps
  <2> QED
    BY <1>1, <2>1, <2>2, <2>3, <2>4, <2>5, <2>6, <2>7 DEF WorkerStep
<1>2. CASE CollectorStep
  BY <1>2, CollectErrorStep, CollectWinnerStep, CollectLoserStep, ReturnStep
  DEF CollectorStep
<1>3. CASE (\E p \in Pos : Straggler(p)) \/ Deadline \/ ParentCancel \/ Done \/ UNCHANGED vars
  BY <1>3, OtherSteps DEF Deadline, ParentCancel, Done
<1> QED
  BY <1>1, <1>2, <1>3 DEF Next

LEMMA SpecInv == Spec => []Inv
BY InitInv, InvStep, PTL DEF Spec

-----------------------------------------------------------------------------
(* The theorems. *)

(* Every state of the race is well typed. *)
THEOREM TypeCorrect == Spec => []TypeOK
<1>1. Inv => TypeOK
  BY DEF Inv
<1> QED
  BY <1>1, SpecInv, PTL

(* An open connection is the winner's, or its outcome is still to be read:
   no connection is ever left without somebody bound to close it. *)
THEOREM ConnectionsOwned == Spec => []OneOwner
<1>1. Inv => OneOwner
  BY DEF Inv
<1> QED
  BY <1>1, SpecInv, PTL

(* Once connect has returned, exactly one connection or none is open; once
   Run has returned, none is. *)
LEMMA InvEscapes == Inv => OneConnEscapes
BY ConstantFacts DEF Inv, Conclusions, OneOwner, Unread, OneConnEscapes

THEOREM OneConnectionEscapes == Spec => []OneConnEscapes
BY InvEscapes, SpecInv, PTL

(* connect reads the guard's flag only after every host has been dialed and
   every outcome read. *)
LEMMA InvSettled == Inv => DialsSettled
<1> SUFFICES ASSUME Inv, phase # "collect" PROVE DialsSettled
  BY DEF DialsSettled
<1>1. collected = Uniq
  BY DEF Inv, Conclusions
<1>2. fed = Uniq /\ \A w \in Workers : job[w] = Idle
  BY <1>1 DEF Inv, TypeOK, Accounting
<1>3. ch = <<>>
  BY <1>1, HeadFacts DEF Inv, TypeOK
<1> QED
  BY <1>2, <1>3 DEF DialsSettled

THEOREM AllDialsSettled == Spec => []DialsSettled
BY InvSettled, SpecInv, PTL

-----------------------------------------------------------------------------
(* The guard. *)

(* The Control hook runs before a candidate starts to connect, so whatever
   is connecting, and whatever has connected, passed the guard. *)
GuardInv ==
    /\ \A w \in Workers : syn[w] \cap Denied = {}
    /\ NeverConnectedToDenied

LEMMA InitGuard == Init => GuardInv
BY DEF Init, GuardInv, NeverConnectedToDenied, NoRes

LEMMA StepGuard == Inv /\ GuardInv /\ [Next]_vars => GuardInv'
<1> SUFFICES ASSUME TypeOK, GuardInv, [Next]_vars PROVE GuardInv'
  BY DEF Inv
<1>1. ASSUME NEW w \in Workers, NEW ip \in Ip, Attempt(w, ip) \/ CandidateFails(w, ip)
      PROVE  GuardInv'
  <2>1. \A v \in Workers : syn'[v] \cap Denied = {}
    BY <1>1 DEF TypeOK, GuardInv, Attempt, CandidateFails
  <2> QED
    BY <1>1, <2>1 DEF GuardInv, NeverConnectedToDenied, Attempt, CandidateFails, collector
<1>2. ASSUME NEW w \in Workers, NEW ip \in Ip, Connected(w, ip) PROVE GuardInv'
  <2>1. job[w] \in Pos /\ ip \in Ip \ Denied
    BY <1>2, ConstantFacts DEF TypeOK, GuardInv, Connected, Dialing
  <2>2. \A p \in open' : peer'[p] \in Ip \ Denied
    <3>1. peer'[job[w]] = ip /\ \A p \in Pos \ {job[w]} : peer'[p] = peer[p]
      BY <1>2, <2>1 DEF TypeOK, Connected
    <3>2. open' = open \cup {job[w]} /\ open \subseteq Pos
      BY <1>2, ConstantFacts DEF TypeOK, Connected
    <3> QED
      BY <2>1, <3>1, <3>2 DEF GuardInv, NeverConnectedToDenied
  <2>3. \A v \in Workers : syn'[v] \cap Denied = {}
    BY <1>2 DEF TypeOK, GuardInv, Connected, DialReturns
  <2> QED
    BY <1>2, <2>2, <2>3 DEF GuardInv, NeverConnectedToDenied, Connected, DialReturns, collector
<1>3. ASSUME NEW w \in Workers, GiveUp(w) \/ Abort(w) PROVE GuardInv'
  <2>1. \A v \in Workers : syn'[v] \cap Denied = {}
    BY <1>3 DEF TypeOK, GuardInv, GiveUp, Abort, DialReturns
  <2> QED
    BY <1>3, <2>1
    DEF GuardInv, NeverConnectedToDenied, GiveUp, Abort, DialReturns, collector
<1>4. CASE Return
  BY <1>4 DEF GuardInv, NeverConnectedToDenied, Return, dialer
<1>5. CASE CollectError \/ CollectWinner \/ CollectLoser \/ Close
  BY <1>5 DEF GuardInv, NeverConnectedToDenied, CollectError, CollectWinner, CollectLoser,
              Receive, Close, dialer
<1>6. ASSUME UNCHANGED <<dialer, open, res>> PROVE GuardInv'
  BY <1>6 DEF GuardInv, NeverConnectedToDenied, dialer
<1>7. ASSUME NEW w \in Workers, NEW p \in Uniq, Take(w, p) PROVE GuardInv'
  BY <1>7 DEF GuardInv, NeverConnectedToDenied, Take, collector
<1>8. ASSUME NEW w \in Workers, SendOutcome(w) \/ Exit(w) PROVE GuardInv'
  BY <1>6, <1>8 DEF SendOutcome, Exit, collector
<1>9. CASE (\E p \in Pos : Straggler(p)) \/ Deadline \/ ParentCancel \/ Done \/ UNCHANGED vars
  BY <1>6, <1>9 DEF Straggler, Deadline, ParentCancel, CtxEnds, Done, vars, dialer, collector
<1> QED
  BY <1>1, <1>2, <1>3, <1>4, <1>5, <1>7, <1>8, <1>9 DEF Next, WorkerStep, CollectorStep

(* No connection to a guarded address is ever open, through whichever name
   or list entry it was reached, and no reachable result says denied. *)
THEOREM GuardHolds == Spec => []NeverConnectedToDenied
<1>1. GuardInv => NeverConnectedToDenied
  BY DEF GuardInv
<1> QED
  BY <1>1, InitGuard, StepGuard, SpecInv, PTL DEF Spec

-----------------------------------------------------------------------------
(* The pool. *)

(* A worker leaves only when every host has been handed over. *)
PoolInv == exited # {} => fed = Uniq

LEMMA StepPool == Inv /\ PoolInv /\ [Next]_vars => PoolInv'
<1> SUFFICES ASSUME TypeOK, PoolInv, [Next]_vars PROVE PoolInv'
  BY DEF Inv
<1>1. ASSUME NEW w \in Workers, NEW p \in Uniq, Take(w, p) PROVE PoolInv'
  BY <1>1 DEF PoolInv, TypeOK, Take
<1>2. ASSUME NEW w \in Workers, Exit(w) PROVE PoolInv'
  BY <1>2 DEF PoolInv, Exit
<1>3. ASSUME UNCHANGED <<exited, fed>> PROVE PoolInv'
  BY <1>3 DEF PoolInv
<1>4. ASSUME NEW w \in Workers, WorkerStep(w) PROVE PoolInv'
  BY <1>1, <1>2, <1>3, <1>4
  DEF WorkerStep, Attempt, CandidateFails, Connected, GiveUp, Abort, DialReturns, SendOutcome
<1>5. CASE CollectorStep
  BY <1>3, <1>5
  DEF CollectorStep, CollectError, CollectWinner, CollectLoser, Receive, Return, Close
<1>6. CASE (\E p \in Pos : Straggler(p)) \/ Deadline \/ ParentCancel \/ Done \/ UNCHANGED vars
  BY <1>3, <1>6 DEF Straggler, Deadline, ParentCancel, CtxEnds, Done, vars
<1> QED
  BY <1>4, <1>5, <1>6 DEF Next

(* A worker that is not waiting is busy.  If all are, there are as many dials
   as workers: the cap, or else one per host -- but busy workers hold different
   hosts, all handed over, so every host would have been. *)
LEMMA PoolSuffices == Inv /\ PoolInv => WaitsOnlyBehindFullPool
<1> SUFFICES ASSUME Inv, PoolInv, fed # Uniq,
                    \A w \in Workers : job[w] # Idle
             PROVE  Cardinality({w \in Workers : job[w] # Idle}) = MaxConcurrentDials
  BY DEF WaitsOnlyBehindFullPool, PoolInv
<1>1. {w \in Workers : job[w] # Idle} = Workers
  OBVIOUS
<1>2. N \in Nat /\ MaxConcurrentDials \in Nat
  BY ConstantFacts, CapAssumption
<1>3. CASE N > MaxConcurrentDials
  <2>1. Workers = 1..MaxConcurrentDials
    BY <1>3 DEF Workers
  <2>2. Cardinality(1..MaxConcurrentDials) = MaxConcurrentDials
    BY <1>2, FS_Interval
  <2> QED
    BY <1>1, <2>1, <2>2
<1>4. CASE ~(N > MaxConcurrentDials)
  <2>1. Workers = 1..N
    BY <1>4 DEF Workers
  <2>2. IsFiniteSet(fed) /\ Cardinality(fed) \in Nat /\ Cardinality(fed) < N
    BY <1>2, ConstantFacts, FS_Subset, FS_CardinalityType DEF Inv, TypeOK, N
  <2>3. job \in Injection(Workers, fed)
    BY DEF Inv, TypeOK, Accounting, Injection, IsInjective
  <2>4. Cardinality(Workers) = N
    BY <1>2, <2>1, FS_Interval
  <2>5. Cardinality(Workers) <= Cardinality(fed)
    BY <2>2, <2>3, FS_Injection
  <2> QED
    BY <1>2, <2>2, <2>4, <2>5
<1> QED
  BY <1>3, <1>4

(* Concurrency is capped, and up to the cap every host has a worker from the
   start: none waits behind a slow sibling. *)
THEOREM NobodyQueuesBelowCap == Spec => []WaitsOnlyBehindFullPool
<1>1. Init => PoolInv
  BY DEF Init, PoolInv
<1> QED
  BY <1>1, StepPool, PoolSuffices, SpecInv, PTL DEF Spec

-----------------------------------------------------------------------------
(* The answer of a failed dial. *)

(* dedup drops no host: each is raced at its first position. *)
LEMMA UniqCovers ==
  /\ \A p \in Pos : \E q \in Uniq : Hosts[q] = Hosts[p]
  /\ Uniq # {}
<1>1. ASSUME NEW p \in Pos
      PROVE  \E q \in Uniq : Hosts[q] = Hosts[p]
  <2> DEFINE Same == {q \in Pos : Hosts[q] = Hosts[p]}
  <2>1. Same \in SUBSET Nat /\ Same # {}
    BY ConstantFacts
  <2>2. PICK m \in Same : \A k \in Same : m <= k
    BY <2>1, FirstPosition
  <2>3. \A q \in Pos : q < m => Hosts[q] # Hosts[m]
    BY <2>2, ConstantFacts
  <2> QED
    BY <2>2, <2>3 DEF Uniq
<1>2. 1 \in Pos
  BY HostsAssumption, EmptySeq DEF Pos
<1> QED
  BY <1>1, <1>2

(* What is known of the candidates of a host while its dial is under way and
   when it has failed, as long as no context has cut the race short: whatever
   is not left to try was refused by the guard, which noted it, or did not
   accept. *)
Ruled(ip) == IF ip \in Denied THEN guardHit ELSE net[ip] # "accept"

Explored ==
    /\ \A w \in Workers : Dialing(w) =>
          /\ todo[w] \subseteq Addrs[Hosts[job[w]]]
          /\ ctx = "live" =>
                \A ip \in Addrs[Hosts[job[w]]] : ip \in todo[w] \cup syn[w] \/ Ruled(ip)
    /\ ctx = "live" => \A p \in Uniq : outcome[p] \in Errors =>
          \A ip \in Addrs[Hosts[p]] : Ruled(ip)
    /\ guardHit => \E p \in Pos : Addrs[Hosts[p]] \cap Denied # {}

(* Why a dial failed, and what the collector remembers of it. *)
Excused ==
    {"none", "pending", "conn", "failed"}
        \cup {e \in {"timeout"} : ctx = "deadline" \/ \E ip \in Ip : net[ip] = "drop"}
        \cup {e \in {"canceled"} : ctx \in {"parent", "won"}}

Causal ==
    /\ \A p \in Uniq : outcome[p] \in Excused
    /\ lastErr \in Excused
    /\ ctx = "won" => winner # Idle
    /\ winner = Idle /\ collected # {} => lastErr # "none"
    /\ winner = Idle => \A p \in collected : outcome[p] # "conn"

(* What connect has settled stays so. *)
Settled == FailureIsExact /\ ErrorHasCause

AnswerInv == Explored /\ Causal /\ Settled

LEMMA InitAnswer == Init => AnswerInv
<1> SUFFICES ASSUME Init PROVE AnswerInv
  OBVIOUS
<1>1. Explored
  BY ConstantFacts DEF Init, Explored, Dialing, Errors
<1>2. Causal
  BY ConstantFacts DEF Init, Causal, Excused
<1>3. Settled
  BY DEF Init, Settled, FailureIsExact, ErrorHasCause
<1> QED
  BY <1>1, <1>2, <1>3 DEF AnswerInv

(* The network and the end of a context are final, and so is a guard hit. *)
LEMMA Onward ==
  ASSUME TypeOK, [Next]_vars
  PROVE  /\ net' = net
         /\ guardHit => guardHit'
         /\ ctx' = "live" => ctx = "live"
         /\ ctx # "live" => ctx' = ctx
         /\ phase # "collect" =>
               /\ phase' # "collect" /\ ctx' = ctx
               /\ UNCHANGED <<winner, lastErr, res>>
<1>1. ASSUME NEW w \in Workers, WorkerStep(w)
      PROVE  net' = net /\ ctx' = ctx /\ (guardHit => guardHit') /\ UNCHANGED collector
  BY <1>1 DEF WorkerStep, Take, Attempt, CandidateFails, Connected, GiveUp, Abort, DialReturns,
              SendOutcome, Exit
<1>2. CASE CollectorStep
  BY <1>2 DEF CollectorStep, CollectError, CollectWinner, CollectLoser, Receive, Return, Close
<1>3. CASE (\E p \in Pos : Straggler(p)) \/ Deadline \/ ParentCancel \/ Done \/ UNCHANGED vars
  BY <1>3 DEF Straggler, Deadline, ParentCancel, CtxEnds, Done, vars, collector, TypeOK
<1> QED
  BY <1>1, <1>2, <1>3 DEF Next, collector

(* Every candidate of a host has been ruled out when its dial fails. *)
LEMMA ExploredStep ==
  ASSUME Inv, GuardInv, Explored, [Next]_vars
  PROVE  Explored'
<1>0. TypeOK
  BY DEF Inv
<1>1. \A ip \in Ip : Ruled(ip) => Ruled(ip)'
  BY <1>0, Onward DEF Ruled
<1>2. ctx' = "live" => ctx = "live"
  BY <1>0, Onward
<1>3. ASSUME NEW w \in Workers, NEW p \in Uniq, Take(w, p)
      PROVE  Explored'
  <2>1. UNCHANGED <<net, ctx, outcome, guardHit, syn>>
    BY <1>3 DEF Take
  <2>2. Addrs[Hosts[p]] \in SUBSET Ip
    BY ConstantFacts
  <2>3. job' = [job EXCEPT ![w] = p] /\ todo' = [todo EXCEPT ![w] = Addrs[Hosts[p]]]
    BY <1>3 DEF Take
  <2> QED
    BY <1>0, <2>1, <2>2, <2>3 DEF TypeOK, Explored, Dialing, Ruled
<1>4. ASSUME NEW w \in Workers, NEW ip \in Ip, Attempt(w, ip)
      PROVE  Explored'
  <2>1. /\ Dialing(w) /\ ip \in todo[w] /\ ip \in Addrs[Hosts[job[w]]]
        /\ job[w] \in Pos
    BY <1>0, <1>4, ConstantFacts DEF Attempt, Explored, Dialing, TypeOK
  <2>2. UNCHANGED <<net, ctx, job, outcome>> /\ todo' = [todo EXCEPT ![w] = @ \ {ip}]
    BY <1>4 DEF Attempt
  <2>3. guardHit' => \E p \in Pos : Addrs[Hosts[p]] \cap Denied # {}
    BY <1>4, <2>1 DEF Attempt, Explored
  <2>4. \A v \in Workers : Dialing(v)' => Dialing(v)
    BY <2>2 DEF Dialing
  <2>5. \A v \in Workers : Dialing(v) => todo'[v] \subseteq Addrs[Hosts[job[v]]]
    BY <1>0, <2>2 DEF TypeOK, Explored
  <2>6. ASSUME NEW v \in Workers, Dialing(v), ctx = "live", NEW a \in Addrs[Hosts[job[v]]]
        PROVE  a \in todo'[v] \cup syn'[v] \/ Ruled(a)'
    <3>1. a \in Ip /\ (a \in todo[v] \cup syn[v] \/ Ruled(a))
      BY <1>0, <2>6, ConstantFacts DEF TypeOK, Explored, Dialing
    <3>2. CASE v = w /\ a = ip
      BY <1>0, <1>4, <3>2 DEF TypeOK, Attempt, Ruled
    <3>3. CASE ~(v = w /\ a = ip)
      BY <1>0, <1>1, <1>4, <3>1, <3>3 DEF TypeOK, Attempt
    <3> QED
      BY <3>2, <3>3
  <2>7. ctx' = "live" => \A p \in Uniq : outcome'[p] \in Errors =>
           \A a \in Addrs[Hosts[p]] : Ruled(a)'
    BY <1>1, <1>2, <2>2, ConstantFacts DEF Explored
  <2> QED
    BY <2>2, <2>3, <2>4, <2>5, <2>6, <2>7 DEF Explored
<1>5. ASSUME NEW w \in Workers, NEW ip \in Ip, CandidateFails(w, ip)
      PROVE  Explored'
  <2>1. UNCHANGED <<net, ctx, job, outcome, todo, guardHit>> /\ syn' = [syn EXCEPT ![w] = @ \ {ip}]
    BY <1>5 DEF CandidateFails
  <2>2. net[ip] # "accept" /\ ip \notin Denied
    BY <1>5 DEF CandidateFails, GuardInv
  <2> QED
    BY <1>0, <2>1, <2>2 DEF TypeOK, Explored, Dialing, Ruled
<1>6. ASSUME NEW w \in Workers, NEW o \in Errors \cup {"conn"}, Dialing(w), DialReturns(w, o),
             o \in Errors /\ ctx = "live" => todo[w] = {} /\ syn[w] = {}
      PROVE  Explored'
  <2>1. job[w] \in Uniq /\ UNCHANGED <<net, ctx, job, guardHit>>
    BY <1>0, <1>6 DEF TypeOK, Dialing, DialReturns
  <2>2. /\ outcome' = [outcome EXCEPT ![job[w]] = o]
        /\ todo' = [todo EXCEPT ![w] = {}] /\ syn' = [syn EXCEPT ![w] = {}]
    BY <1>6 DEF DialReturns
  <2>3. o # "pending" /\ job[w] \in Pos /\ outcome[job[w]] = "pending"
    BY <1>6, <2>1, ConstantFacts DEF Errors, Dialing
  <2>4. \A v \in Workers : Dialing(v)' => v # w /\ Dialing(v)
    BY <1>0, <2>1, <2>2, <2>3 DEF TypeOK, Dialing
  <2>5. \A v \in Workers : Dialing(v)' =>
           /\ todo'[v] \subseteq Addrs[Hosts[job'[v]]]
           /\ ctx' = "live" => \A ip \in Addrs[Hosts[job'[v]]] :
                 ip \in todo'[v] \cup syn'[v] \/ Ruled(ip)'
    BY <1>0, <2>1, <2>2, <2>4 DEF TypeOK, Explored, Ruled
  <2>6. ASSUME ctx = "live", NEW p \in Uniq, outcome'[p] \in Errors, NEW ip \in Addrs[Hosts[p]]
        PROVE  Ruled(ip)
    <3>1. CASE p = job[w]
      <4>1. o \in Errors
        BY <1>0, <2>2, <2>3, <2>6, <3>1 DEF TypeOK
      <4> QED
        BY <1>6, <2>6, <3>1, <4>1 DEF Explored
    <3>2. CASE p # job[w]
      BY <1>0, <2>2, <2>6, <3>2, ConstantFacts DEF TypeOK, Explored
    <3> QED
      BY <3>1, <3>2
  <2> QED
    BY <2>1, <2>5, <2>6 DEF Explored, Ruled
<1>7. ASSUME NEW w \in Workers, SendOutcome(w) \/ Exit(w)
      PROVE  Explored'
  <2>1. UNCHANGED <<net, ctx, outcome, guardHit, todo, syn>>
    BY <1>7 DEF SendOutcome, Exit, dialer
  <2>2. \A v \in Workers : Dialing(v)' => Dialing(v) /\ job'[v] = job[v]
    BY <1>0, <1>7, <2>1 DEF TypeOK, Dialing, SendOutcome, Exit
  <2> QED
    BY <2>1, <2>2 DEF Explored, Ruled
<1>8. ASSUME UNCHANGED <<net, job, todo, syn, outcome>>, guardHit' = guardHit
      PROVE  Explored'
  BY <1>2, <1>8 DEF Explored, Dialing, Ruled
<1>9. ASSUME NEW p \in Pos, Straggler(p)
      PROVE  Explored'
  BY <1>9 DEF Explored, Straggler, Dialing, Ruled, dialer
<1>10. ASSUME NEW w \in Workers, GiveUp(w) \/ Abort(w) \/ \E ip \in Ip : Connected(w, ip)
       PROVE  Explored'
  <2>1. PICK o \in Errors \cup {"conn"} : Dialing(w) /\ DialReturns(w, o)
    BY <1>10 DEF GiveUp, Abort, Connected, Errors
  <2>2. o \in Errors /\ ctx = "live" => todo[w] = {} /\ syn[w] = {}
    <3>1. CASE \E ip \in Ip : Connected(w, ip)
      <4>1. outcome' = [outcome EXCEPT ![job[w]] = "conn"] /\ job[w] \in Pos
        BY <1>0, <2>1, <3>1, ConstantFacts DEF Connected, DialReturns, TypeOK, Dialing
      <4>2. o = "conn"
        BY <1>0, <2>1, <4>1 DEF DialReturns, TypeOK
      <4> QED
        BY <4>2 DEF Errors
    <3> QED
      BY <1>10, <3>1 DEF GiveUp, Abort
  <2> QED
    BY <1>6, <2>1, <2>2
<1>11. CASE CollectorStep \/ Deadline \/ ParentCancel \/ Done \/ UNCHANGED vars
  BY <1>8, <1>11 DEF CollectorStep, CollectError, CollectWinner, CollectLoser, Receive, Return,
                     Close, Deadline, ParentCancel, CtxEnds, Done, vars, dialer
<1> QED
  BY <1>3, <1>4, <1>5, <1>7, <1>9, <1>10, <1>11 DEF Next, WorkerStep

(* An error has its cause when DialContext returns it, and keeps it. *)
LEMMA CausalStep ==
  ASSUME Inv, Causal, [Next]_vars
  PROVE  Causal'
<1>0. TypeOK
  BY DEF Inv
<1>2. ctx' = ctx \/ ctx = "live"
  BY <1>0, Onward
<1>1. Excused \subseteq Excused'
  BY <1>0, <1>2, Onward DEF Excused
<1>3. ASSUME UNCHANGED <<outcome, lastErr, winner, collected>>, ctx' # "won" \/ ctx = "won"
      PROVE  Causal'
  BY <1>1, <1>2, <1>3 DEF Causal
<1>4. ASSUME NEW w \in Workers, NEW o \in Errors \cup {"conn"}, Dialing(w), DialReturns(w, o),
             o \in Excused
      PROVE  Causal'
  <2>1. job[w] \in Uniq /\ job[w] \in Pos /\ outcome[job[w]] = "pending"
    BY <1>0, <1>4, ConstantFacts DEF TypeOK, Dialing
  <2>2. job[w] \notin collected
    BY <2>1 DEF Inv, Conclusions
  <2>3. outcome' = [outcome EXCEPT ![job[w]] = o] /\ UNCHANGED <<ctx, collector>>
    BY <1>4 DEF DialReturns
  <2>4. \A p \in Uniq : outcome'[p] \in Excused
    BY <1>0, <1>4, <2>1, <2>3 DEF TypeOK, Causal
  <2>5. \A p \in collected : outcome'[p] = outcome[p]
    BY <1>0, <2>1, <2>2, <2>3, ConstantFacts DEF TypeOK
  <2>6. \A p \in Uniq : outcome'[p] \in Excused'
    BY <1>1, <2>4
  <2> QED
    BY <1>1, <1>2, <2>3, <2>5, <2>6 DEF Causal, collector
<1>5. ASSUME NEW w \in Workers, GiveUp(w) \/ Abort(w) \/ \E ip \in Ip : Connected(w, ip)
      PROVE  Causal'
  <2>1. Dialing(w) /\ Addrs[Hosts[job[w]]] \subseteq Ip
    BY <1>0, <1>5, ConstantFacts DEF GiveUp, Abort, Connected, Dialing, TypeOK
  <2>2. \E o \in Errors \cup {"conn"} : DialReturns(w, o) /\ o \in Excused
    <3>1. CASE GiveUp(w)
      BY <2>1, <3>1 DEF GiveUp, Excused, Errors
    <3>2. CASE Abort(w)
      BY <1>0, <3>2 DEF Abort, Excused, Errors, TypeOK, Causes
    <3>3. CASE \E ip \in Ip : Connected(w, ip)
      BY <3>3 DEF Connected, Excused
    <3> QED
      BY <1>5, <3>1, <3>2, <3>3
  <2> QED
    BY <1>4, <2>1, <2>2
<1>6. CASE CollectError
  <2>1. /\ Head(ch) \in Uniq /\ outcome[Head(ch)] \in Errors
        /\ lastErr' = outcome[Head(ch)]
        /\ collected' = collected \cup {Head(ch)}
        /\ UNCHANGED <<outcome, ctx, winner>>
    BY <1>6, HeadFacts DEF CollectError, Receive, dialer
  <2> QED
    BY <1>1, <2>1 DEF Causal, Errors
<1>7. CASE CollectWinner \/ CollectLoser
  <2>1. /\ Head(ch) \in Uniq /\ Head(ch) # Idle
        /\ winner' # Idle /\ UNCHANGED <<outcome, lastErr>>
    BY <1>7, HeadFacts, ConstantFacts DEF CollectWinner, CollectLoser, Receive, dialer
  <2> QED
    BY <1>1, <1>2, <2>1 DEF Causal
<1>8. ASSUME NEW w \in Workers, SendOutcome(w) \/ Exit(w) \/ (\E p \in Uniq : Take(w, p))
                \/ \E ip \in Ip : Attempt(w, ip) \/ CandidateFails(w, ip)
      PROVE  Causal'
  BY <1>3, <1>8 DEF SendOutcome, Exit, Take, Attempt, CandidateFails, dialer, collector
<1>9. CASE \/ Return \/ Close \/ \E p \in Pos : Straggler(p)
           \/ Deadline \/ ParentCancel \/ Done \/ UNCHANGED vars
  BY <1>3, <1>9 DEF Return, Close, Straggler, Deadline, ParentCancel, CtxEnds, Done, vars, dialer,
                    collector
<1> QED
  BY <1>5, <1>6, <1>7, <1>8, <1>9 DEF Next, WorkerStep, CollectorStep

(* Return draws the conclusion; nothing it rests on changes afterwards. *)
LEMMA SettledStep ==
  ASSUME Inv, AnswerInv, [Next]_vars
  PROVE  Settled'
<1>0. TypeOK
  BY DEF Inv
<1>1. CASE phase # "collect"
  <2>1. UNCHANGED <<net, ctx, res>>
    BY <1>0, <1>1, Onward
  <2> QED
    BY <1>1, <2>1 DEF AnswerInv, Settled, FailureIsExact, ErrorHasCause
<1>2. CASE phase = "collect" /\ Return
  <2>1. /\ UNCHANGED <<net, ctx>>
        /\ res'.ok = (winner # Idle) /\ res'.denied = (guardHit /\ winner = Idle)
        /\ winner = Idle => res'.error = lastErr
    BY <1>2 DEF Return
  <2>2. collected = Uniq
    BY <1>2, AllRead DEF Return
  <2>3. SUFFICES ASSUME winner = Idle
                 PROVE  Settled'
    BY <2>1 DEF Settled, FailureIsExact, ErrorHasCause
  <2>4. \A p \in Uniq : outcome[p] \in Errors
    BY <1>0, <2>2, <2>3, ConstantFacts DEF Inv, Conclusions, TypeOK, AnswerInv, Causal
  <2>5. FailureIsExact'
    <3> SUFFICES ASSUME ctx = "live"
                 PROVE  /\ guardHit <=> \E p \in Pos : Addrs[Hosts[p]] \cap Denied # {}
                        /\ \A p \in Pos : \A ip \in Addrs[Hosts[p]] \ Denied : net[ip] # "accept"
      BY <1>0, <2>1, <2>3 DEF FailureIsExact, TypeOK
    <3>1. \A p \in Uniq : \A ip \in Addrs[Hosts[p]] : Ruled(ip)
      BY <2>4 DEF AnswerInv, Explored
    <3>2. \A p \in Pos : \A ip \in Addrs[Hosts[p]] : Ruled(ip)
      BY <3>1, UniqCovers
    <3> QED
      BY <1>0, <3>2 DEF AnswerInv, Explored, Ruled, TypeOK
  <2>6. ErrorHasCause'
    BY <2>1, <2>2, <2>3, UniqCovers DEF ErrorHasCause, AnswerInv, Causal, Excused
  <2> QED
    BY <2>5, <2>6 DEF Settled
<1>3. CASE phase = "collect" /\ ~Return
  <2>1. phase' = "collect"
    <3>1. ASSUME NEW w \in Workers, WorkerStep(w)
          PROVE  phase' = phase
      BY <3>1 DEF WorkerStep, Take, Attempt, CandidateFails, Connected, GiveUp, Abort, DialReturns,
                  SendOutcome, Exit, collector
    <3>2. CASE CollectorStep
      BY <1>3, <3>2 DEF CollectorStep, CollectError, CollectWinner, CollectLoser, Receive, Close
    <3>3. CASE (\E p \in Pos : Straggler(p)) \/ Deadline \/ ParentCancel \/ Done \/ UNCHANGED vars
      BY <1>3, <3>3 DEF Straggler, Deadline, ParentCancel, CtxEnds, Done, vars, collector
    <3> QED
      BY <1>3, <3>1, <3>2, <3>3 DEF Next
  <2> QED
    BY <2>1 DEF Settled, FailureIsExact, ErrorHasCause
<1> QED
  BY <1>0, <1>1, <1>2, <1>3

LEMMA AnswerAlways == Spec => []AnswerInv
<1>1. Inv /\ GuardInv /\ AnswerInv /\ [Next]_vars => AnswerInv'
  BY ExploredStep, CausalStep, SettledStep DEF AnswerInv
<1> QED
  BY <1>1, InitAnswer, InitGuard, StepGuard, SpecInv, PTL DEF Spec

(* A failed race that no context cut short says exactly what the network is
   like: denied if and only if a listed address is guarded, and unreachable
   only if no other listed address accepts (dedup, the pool and the cancel of
   dialConn lose no address). *)
THEOREM FailureTellsTheNetwork == Spec => []FailureIsExact
<1>1. AnswerInv => FailureIsExact
  BY DEF AnswerInv, Settled
<1> QED
  BY <1>1, AnswerAlways, PTL

(* The error of a failed race names its cause, and the race's own cancel is
   never one. *)
THEOREM ErrorsHaveCauses == Spec => []ErrorHasCause
<1>1. AnswerInv => ErrorHasCause
  BY DEF AnswerInv, Settled
<1> QED
  BY <1>1, AnswerAlways, PTL

-----------------------------------------------------------------------------
(* The refinement. *)

LEMMA InitVerdict == Init => Verdict!Init
BY DEF Init, Verdict!Init, verdict

(* A dial that connects opens a connection; a further connection that the
   collector reads is dropped; Return gives the verdict; Close releases the
   winner; every other step changes nothing an observer sees. *)
LEMMA NextVerdict == Inv /\ Inv' /\ [Next]_vars => [Verdict!Next]_(Verdict!vars)
<1> SUFFICES ASSUME Inv, Inv', [Next]_vars PROVE [Verdict!Next]_(Verdict!vars)
  OBVIOUS
<1> DEFINE Quiet == UNCHANGED <<open, phase, res>>
<1>1. Quiet => UNCHANGED Verdict!vars
  BY DEF Verdict!vars, verdict
<1>2. ASSUME NEW w \in Workers, NEW ip \in Ip, Connected(w, ip)
      PROVE  Verdict!Open(job[w]) /\ job[w] \in Uniq
  <2>1. job[w] \in Uniq /\ outcome[job[w]] = "pending" /\ job[w] \notin collected
    BY <1>2 DEF Inv, TypeOK, Accounting, Connected, Dialing
  <2>2. job[w] \notin open
    BY <2>1, ConstantFacts DEF Inv, OneOwner, Unread, Conclusions
  <2>3. phase = "collect" /\ phase' = phase /\ res' = res
    BY <1>2, <2>1 DEF Inv, Conclusions, Connected, DialReturns, collector
  <2> QED
    BY <1>2, <2>1, <2>2, <2>3 DEF Verdict!Open, verdict, Connected
<1>3. ASSUME NEW w \in Workers, WorkerStep(w),
             ~ \E ip \in Ip : Connected(w, ip)
      PROVE  Quiet
  BY <1>3 DEF WorkerStep, Take, Attempt, CandidateFails, GiveUp, Abort, DialReturns,
              SendOutcome, Exit, collector
<1>4. ASSUME CollectError \/ CollectWinner PROVE Quiet
  BY <1>4 DEF CollectError, CollectWinner, Receive
<1>5. CASE CollectLoser
  <2>1. Head(ch) \in open /\ Head(ch) \in Uniq
    BY <1>5, CollectLoserStep DEF Inv, TypeOK
  <2>2. Verdict!Drop(Head(ch))
    BY <1>5, <2>1 DEF Verdict!Drop, verdict, CollectLoser, Receive
  <2> QED
    BY <2>1, <2>2 DEF Verdict!Next
<1>6. CASE Return
  <2>1. phase = "collect" /\ phase' = "returned" /\ open' = open
    BY <1>6 DEF Return
  <2>2. open' = IF res'.ok THEN {winner'} ELSE {}
    BY <2>1, InvEscapes, <1>6 DEF Inv, Conclusions, OneOwner, Unread, Return
  <2>3. res'.ok => winner' \in Uniq
    BY <2>1, ConstantFacts DEF Inv, TypeOK, Conclusions
  <2>4. verdict = "pending" /\ verdict' \in Verdict!Verdicts /\ (verdict' = "ok" <=> res'.ok)
    BY <2>1 DEF verdict, Verdict!Verdicts
  <2>5. Verdict!Answer(verdict')
    BY <2>1, <2>2, <2>3, <2>4 DEF Verdict!Answer
  <2> QED
    BY <2>4, <2>5 DEF Verdict!Next
<1>7. CASE Close
  <2>1. phase = "returned" /\ phase' = "closed" /\ res' = res /\ verdict' = verdict
    BY <1>7 DEF Close, verdict
  <2>2. open = (IF res.ok THEN {winner} ELSE {}) /\ open' = {}
    BY <2>1, <1>7, InvEscapes DEF OneConnEscapes, Close
  <2>3. CASE res.ok
    BY <2>1, <2>2, <2>3 DEF Verdict!Next, Verdict!Release, verdict
  <2>4. CASE ~res.ok
    BY <2>1, <2>2, <2>4 DEF Verdict!vars
  <2> QED
    BY <2>3, <2>4
<1>8. ASSUME (\E p \in Pos : Straggler(p)) \/ Deadline \/ ParentCancel \/ Done \/ UNCHANGED vars
      PROVE  Quiet
  BY <1>8, OtherSteps DEF Deadline, ParentCancel, Done
<1>9. ASSUME NEW w \in Workers, WorkerStep(w)
      PROVE  [Verdict!Next]_(Verdict!vars)
  <2>1. ASSUME NEW ip \in Ip, Connected(w, ip) PROVE Verdict!Next
    BY <1>2, <2>1 DEF Verdict!Next
  <2> QED
    BY <1>1, <1>3, <1>9, <2>1
<1>10. CASE CollectorStep
  BY <1>1, <1>4, <1>5, <1>6, <1>7, <1>10 DEF CollectorStep
<1> QED
  BY <1>1, <1>8, <1>9, <1>10 DEF Next

(* The race implements the abstract verdict. *)
THEOREM RaceImplementsVerdict == Spec => ImplementsVerdict
BY InitVerdict, NextVerdict, InitInv, InvStep, PTL DEF Spec, ImplementsVerdict, Verdict!Spec
=============================================================================
