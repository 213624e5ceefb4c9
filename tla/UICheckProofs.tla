---------------------------- MODULE UICheckProofs ----------------------------
(***************************************************************************)
(* Theorems of UICheck, for every request, every list of agents, every     *)
(* budget and every cap: the state is well typed, an agent that did not    *)
(* wait for a slot reports for itself, a 200 covers the agents it claims   *)
(* to cover, every check is audited, and the gates charge the client.      *)
(***************************************************************************)
EXTENDS UICheck, TimeoutsProofs, SequenceTheorems, Positions

-----------------------------------------------------------------------------
(* Sorting by address. *)

LEMMA ListFacts ==
  ASSUME NEW list \in Seq(Agents)
  PROVE  /\ Len(list) \in Nat /\ DOMAIN list = 1..Len(list)
         /\ \A k \in DOMAIN list : k \in Nat /\ list[k] \in Agents /\ list[k] \in Nat
         /\ IsFiniteSet(DOMAIN list) /\ Cardinality(DOMAIN list) = Len(list)
<1>1. Len(list) \in Nat /\ DOMAIN list = 1..Len(list)
  BY LenProperties
<1>2. \A k \in DOMAIN list : list[k] \in Agents
  BY <1>1, ElementOfSeq
<1>3. IsFiniteSet(1..Len(list)) /\ Cardinality(1..Len(list)) = Len(list)
  BY <1>1, FS_Interval
<1>4. \A k \in DOMAIN list : k \in Nat
  BY <1>1
<1>5. Agents \subseteq Nat
  BY AgentsAssumption
<1> QED
  BY <1>1, <1>2, <1>3, <1>4, <1>5

(* The place of an entry among n of them lies between 1 and n, and differs
   from that of any other; entries with a smaller address come before. *)
LEMMA PlaceOrders ==
  ASSUME NEW list \in Seq(Agents), NEW i \in DOMAIN list
  PROVE  /\ Place(list, i) \in DOMAIN list
         /\ \A j \in DOMAIN list :
               list[j] < list[i] \/ (list[j] = list[i] /\ j < i) => Place(list, j) < Place(list, i)
<1> DEFINE D    == DOMAIN list
           B(k) == {j \in D : list[j] < list[k] \/ (list[j] = list[k] /\ j <= k)}
<1>1. /\ Len(list) \in Nat /\ D = 1..Len(list)
      /\ \A k \in D : list[k] \in Nat /\ k \in Nat
  BY ListFacts
<1>2. IsFiniteSet(D) /\ Cardinality(D) = Len(list)
  BY ListFacts
<1>3. \A k \in D : Place(list, k) = Cardinality(B(k))
  BY DEF Place
<1> HIDE DEF D
<1>4. \A k \in D : IsFiniteSet(B(k)) /\ Cardinality(B(k)) \in Nat /\ Cardinality(B(k)) <= Len(list)
  <2> SUFFICES ASSUME NEW k \in D
               PROVE  IsFiniteSet(B(k)) /\ Cardinality(B(k)) \in Nat
                      /\ Cardinality(B(k)) <= Len(list)
    OBVIOUS
  <2>1. B(k) \in SUBSET D
    OBVIOUS
  <2> HIDE DEF B
  <2> QED
    BY <1>2, <2>1, FS_Subset, FS_CardinalityType
<1>5. i \in D
  BY DEF D
<1>6. Cardinality(B(i)) # 0
  <2>1. i \in B(i)
    BY <1>1, <1>5
  <2> HIDE DEF B
  <2> QED
    BY <1>4, <1>5, <2>1, FS_EmptySet
<1>7. ASSUME NEW j \in D, list[j] < list[i] \/ (list[j] = list[i] /\ j < i)
      PROVE  Cardinality(B(j)) < Cardinality(B(i))
  <2>1. B(j) \in SUBSET B(i)
    BY <1>1, <1>5, <1>7
  <2>2. i \in B(i) /\ i \notin B(j)
    BY <1>1, <1>5, <1>7
  <2> HIDE DEF B
  <2>3. Cardinality(B(j)) <= Cardinality(B(i)) /\ Cardinality(B(j)) # Cardinality(B(i))
    BY <1>4, <1>5, <2>1, <2>2, FS_Subset
  <2> QED
    BY <1>4, <1>5, <2>3
<1> HIDE DEF B
<1>8. Place(list, i) \in D
  BY <1>1, <1>3, <1>4, <1>5, <1>6
<1>9. \A j \in D : list[j] < list[i] \/ (list[j] = list[i] /\ j < i) =>
         Place(list, j) < Place(list, i)
  BY <1>3, <1>5, <1>7
<1> QED
  BY <1>8, <1>9 DEF D

(* Every place is taken by exactly one entry. *)
LEMMA PlaceIsBijective ==
  ASSUME NEW list \in Seq(Agents)
  PROVE  /\ \A i, j \in DOMAIN list : Place(list, i) = Place(list, j) => i = j
         /\ \A k \in DOMAIN list : \E i \in DOMAIN list : Place(list, i) = k
<1> DEFINE D == DOMAIN list
           f == [i \in D |-> Place(list, i)]
<1>1. /\ Len(list) \in Nat /\ D = 1..Len(list)
      /\ \A k \in D : list[k] \in Nat /\ k \in Nat
  BY ListFacts
<1>2. \A i \in D : Place(list, i) \in D
  BY PlaceOrders
<1>3. ASSUME NEW i \in D, NEW j \in D, i # j
      PROVE  Place(list, i) # Place(list, j)
  <2>1. \/ list[j] < list[i] \/ (list[j] = list[i] /\ j < i)
        \/ list[i] < list[j] \/ (list[i] = list[j] /\ i < j)
    BY <1>1, <1>3
  <2>2. Place(list, j) < Place(list, i) \/ Place(list, i) < Place(list, j)
    BY <2>1, PlaceOrders
  <2> QED
    BY <1>1, <1>2, <2>2
<1>4. f \in Injection(D, D)
  BY <1>2, <1>3 DEF Injection, IsInjective
<1>5. IsFiniteSet(D)
  BY ListFacts
<1>6. f \in Surjection(D, D)
  <2> HIDE DEF D, f
  <2> QED
    BY <1>4, <1>5, FS_Injection
<1>7. \A k \in D : \E i \in D : f[i] = k
  <2> HIDE DEF D, f
  <2> QED
    BY <1>6 DEF Surjection
<1> QED
  BY <1>3, <1>7

(* The entry at place k. *)
At(list, k) == CHOOSE i \in DOMAIN list : Place(list, i) = k

LEMMA AtFacts ==
  ASSUME NEW list \in Seq(Agents)
  PROVE  /\ \A k \in DOMAIN list : At(list, k) \in DOMAIN list /\ Place(list, At(list, k)) = k
         /\ \A i \in DOMAIN list : At(list, Place(list, i)) = i
         /\ \A k \in DOMAIN list : ByAddr(list)[k] = list[At(list, k)]
         /\ DOMAIN ByAddr(list) = DOMAIN list
<1>1. \A k \in DOMAIN list : At(list, k) \in DOMAIN list /\ Place(list, At(list, k)) = k
  BY PlaceIsBijective DEF At
<1>2. \A i \in DOMAIN list : At(list, Place(list, i)) = i
  BY <1>1, PlaceIsBijective, PlaceOrders
<1> QED
  BY <1>1, <1>2 DEF ByAddr, At

(* How many entries of s are a. *)
Occurs(s, a) == Cardinality({i \in DOMAIN s : s[i] = a})

(* What SelectAgents keeps: no more than the cap allows, and of each address
   either no entry after it or all of its own. *)
LEMMA SelectFacts ==
  ASSUME NEW list \in Seq(Agents), NEW max \in Nat, NEW s, s = SelectAgents(list, max)
  PROVE  /\ s \in Seq(Agents)
         /\ max = 0 \/ Len(list) <= max => Len(s) = Len(list)
         /\ max > 0 /\ Len(list) > max => Len(s) = max
         /\ \A a, b \in Agents : a < b /\ Occurs(s, b) > 0 => Occurs(s, a) = Occurs(list, a)
<1> DEFINE D == DOMAIN list
<1>1. /\ Len(list) \in Nat /\ D = 1..Len(list)
      /\ \A k \in D : list[k] \in Agents /\ list[k] \in Nat
  BY ListFacts
<1>2. CASE max = 0 \/ Len(list) <= max
  <2>1. s = list
    BY <1>2 DEF SelectAgents
  <2>2. ~(max > 0 /\ Len(list) > max)
    BY <1>1, <1>2
  <2> QED
    BY <2>1, <2>2
<1>3. CASE max > 0 /\ Len(list) > max
  <2>1. s = SubSeq(ByAddr(list), 1, max)
    BY <1>1, <1>3 DEF SelectAgents
  <2>2. \A k \in D : ByAddr(list)[k] = list[At(list, k)] /\ At(list, k) \in D
    BY AtFacts
  <2>3. \A k \in 1..max : ByAddr(list)[k] \in Agents
    BY <1>1, <1>3, <2>2
  <2>4. s \in Seq(Agents) /\ Len(s) = max /\ \A k \in 1..max : s[k] = ByAddr(list)[k]
    <3>1. \A k \in 1..(max - 1 + 1) : SubSeq(ByAddr(list), 1, max)[k] = ByAddr(list)[1 + k - 1]
      BY <2>3, SubSeqProperties
    <3>2. SubSeq(ByAddr(list), 1, max) \in Seq(Agents) /\ Len(SubSeq(ByAddr(list), 1, max)) = max
      BY <1>3, <2>3, SubSeqProperties
    <3> QED
      BY <2>1, <3>1, <3>2
  <2>5. DOMAIN s = 1..max
    BY <2>4, LenProperties
  <2>6. \A k \in 1..max : k \in D /\ s[k] = list[At(list, k)]
    <3>1. \A k \in 1..max : k \in D
      BY <1>1, <1>3
    <3> QED
      BY <2>2, <2>4, <3>1
  <2>7. ASSUME NEW a \in Agents, NEW b \in Agents, a < b, Occurs(s, b) > 0
        PROVE  Occurs(s, a) = Occurs(list, a)
    <3> DEFINE X == {i \in 1..max : s[i] = a}
               Y == {i \in D : list[i] = a}
               f == [k \in X |-> At(list, k)]
    <3>1. PICK p \in 1..max : s[p] = b
      <4>1. {i \in 1..max : s[i] = b} # {}
        <5>1. Occurs(s, b) = Cardinality({i \in 1..max : s[i] = b})
          BY <2>5 DEF Occurs
        <5> QED
          BY <2>7, <5>1, FS_EmptySet
      <4> QED
        BY <4>1
    <3>2. f \in [X -> Y]
      BY <2>2, <2>6
    <3>3. \A k, l \in X : f[k] = f[l] => k = l
      BY <2>6, AtFacts
    <3>4. ASSUME NEW i \in Y
          PROVE  \E k \in X : f[k] = i
      <4>1. At(list, p) \in D /\ list[At(list, p)] = b /\ Place(list, At(list, p)) = p
        BY <2>6, <3>1, AtFacts
      <4>2. Place(list, i) < p
        BY <2>7, <4>1, PlaceOrders
      <4>3. Place(list, i) \in 1..max
        BY <1>1, <4>2, PlaceOrders
      <4>4. At(list, Place(list, i)) = i
        BY AtFacts
      <4>5. Place(list, i) \in X
        BY <2>6, <4>3, <4>4
      <4> QED
        BY <4>4, <4>5
    <3>5. IsFiniteSet(X)
      <4>1. X \in SUBSET (1..max) /\ IsFiniteSet(1..max)
        BY FS_Interval
      <4> QED
        BY <4>1, FS_Subset
    <3> HIDE DEF X, Y, f
    <3>6. f \in Bijection(X, Y)
      BY <3>2, <3>3, <3>4 DEF Bijection, Injection, IsInjective, Surjection
    <3>7. Cardinality(X) = Cardinality(Y)
      BY <3>5, <3>6, FS_Bijection DEF ExistsBijection
    <3> QED
      BY <2>5, <3>7 DEF Occurs, X, Y
  <2>8. Len(s) = max
    BY <2>4
  <2>9. ~(max = 0 \/ Len(list) <= max)
    BY <1>1, <1>3
  <2> HIDE DEF D
  <2>10. \A a, b \in Agents : a < b /\ Occurs(s, b) > 0 => Occurs(s, a) = Occurs(list, a)
    BY <2>7
  <2> QED
    BY <2>4, <2>8, <2>9, <2>10
<1> QED
  BY <1>1, <1>2, <1>3

-----------------------------------------------------------------------------
(* The client a request is charged to. *)

LEMMA MaxIs ==
  ASSUME NEW S \in SUBSET Nat, NEW m \in S, \A k \in S : k <= m
  PROVE  Max(S) = m
<1>1. \A k \in S : m >= k
  OBVIOUS
<1>2. Max(S) \in S /\ \A k \in S : Max(S) >= k
  BY <1>1 DEF Max
<1>3. Max(S) >= m /\ Max(S) <= m /\ Max(S) \in Nat /\ m \in Nat
  BY <1>2
<1> QED
  BY <1>3

(* Where a request has been. *)
LEMMA WayFacts ==
  ASSUME NEW s \in Senders
  PROVE  LET n    == Len(s.hops)
             w    == Len(s.written)
             way  == Way(s.client, s.hops)
             head == Travel(s.client, s.written, s.hops).header
         IN  /\ n \in Nat /\ w \in Nat
             /\ way \in Seq(Addresses) /\ Len(way) = n + 1 /\ DOMAIN way = 1..(n + 1)
             /\ way[1] \notin Proxies
             /\ Travel(s.client, s.written, s.hops).peer = way[n + 1]
             /\ DOMAIN head = 1..(w + n)
             /\ \A i \in 1..n : head[w + i] = way[i]
<1> DEFINE n    == Len(s.hops)
           w    == Len(s.written)
           way  == Way(s.client, s.hops)
           part == SubSeq(way, 1, n)
           head == Travel(s.client, s.written, s.hops).header
           Text == STRING \cup Addresses
<1>1. s.client \in Addresses \ Proxies /\ s.hops \in Seq(Addresses) /\ s.written \in Seq(STRING)
  BY ConfigAssumption
<1>2. n \in Nat /\ w \in Nat
  BY <1>1, LenProperties
<1>3. <<s.client>> \in Seq(Addresses) /\ Len(<<s.client>>) = 1 /\ <<s.client>>[1] = s.client
  BY <1>1
<1>4. /\ way \in Seq(Addresses) /\ Len(way) = n + 1
      /\ way[1] = s.client
  BY <1>1, <1>2, <1>3, ConcatProperties DEF Way
<1>5. DOMAIN way = 1..(n + 1) /\ \A i \in 1..(n + 1) : way[i] \in Addresses
  BY <1>4, LenProperties, ElementOfSeq
<1> HIDE DEF way, n, w
<1>6. /\ part \in Seq(Addresses) /\ Len(part) = n
      /\ \A i \in 1..n : part[i] = way[i]
  <2>1. \A i \in 1..n : way[i] \in Addresses
    BY <1>2, <1>5
  <2>2. part \in Seq(Addresses) /\ Len(part) = (IF 1 <= n THEN n - 1 + 1 ELSE 0)
    BY <1>2, <2>1, SubSeqProperties
  <2>3. \A i \in 1..(n - 1 + 1) : part[i] = way[1 + i - 1]
    BY <1>2, <2>1, SubSeqProperties
  <2> QED
    BY <1>2, <2>2, <2>3
<1>7. Len(way) = n + 1 /\ Travel(s.client, s.written, s.hops).peer = way[n + 1]
  BY <1>4 DEF Travel, way
<1>8. head = s.written \o part
  BY DEF Travel, way, n
<1>9. s.written \in Seq(Text) /\ part \in Seq(Text)
  BY <1>1, <1>6, SeqMonotonic
<1> HIDE DEF head, part, Text
<1>10. /\ head \in Seq(Text) /\ Len(head) = w + n
       /\ \A i \in 1..(w + n) : head[i] = IF i <= w THEN s.written[i] ELSE part[i - w]
  BY <1>6, <1>8, <1>9, ConcatProperties DEF w
<1>11. DOMAIN head = 1..(w + n)
  BY <1>10, LenProperties
<1>12. ASSUME NEW i \in 1..n
       PROVE  head[w + i] = way[i]
  <2>1. w + i \in 1..(w + n) /\ ~(w + i <= w) /\ (w + i) - w = i
    BY <1>2
  <2> QED
    BY <1>6, <1>10, <2>1
<1> QED
  BY <1>1, <1>2, <1>4, <1>5, <1>7, <1>11, <1>12 DEF way, n, w, head

(* Whatever was written into the header first, and however many hops there
   are: ClientIP finds the party next to the UI's own proxies. *)
LEMMA ClientIsFound ==
  ASSUME NEW s \in Senders
  PROVE  ClientIP(Travel(s.client, s.written, s.hops)) = LastUntrusted(s.client, s.hops)
<1> DEFINE n     == Len(s.hops)
           w     == Len(s.written)
           way   == Way(s.client, s.hops)
           m     == Travel(s.client, s.written, s.hops)
           known == {i \in DOMAIN m.header : m.header[i] \in Addresses \ Proxies}
           Open  == {1} \cup {i \in DOMAIN way : way[i] \notin Proxies}
<1>1. /\ n \in Nat /\ w \in Nat
      /\ way \in Seq(Addresses) /\ Len(way) = n + 1 /\ DOMAIN way = 1..(n + 1)
      /\ way[1] \notin Proxies /\ m.peer = way[n + 1]
      /\ DOMAIN m.header = 1..(w + n)
      /\ \A i \in 1..n : m.header[w + i] = way[i]
  BY WayFacts
<1>2. \A i \in 1..(n + 1) : way[i] \in Addresses
  BY <1>1, ElementOfSeq
<1>3. LastUntrusted(s.client, s.hops) = way[Max(Open)]
  BY DEF LastUntrusted
<1>4. ClientIP(m) = IF m.peer \notin Proxies \/ known = {} THEN m.peer ELSE m.header[Max(known)]
  BY DEF ClientIP
<1> HIDE DEF n, w, way, m
<1>5. n + 1 \in Nat /\ Open \in SUBSET (0..(n + 1)) /\ Open # {}
  BY <1>1
<1>6. PICK last \in Open : \A k \in Open : k <= last
  <2> HIDE DEF Open
  <2> QED
    BY <1>5, LastPosition
<1>7. /\ last \in 1..(n + 1) /\ Max(Open) = last /\ way[last] \notin Proxies
      /\ \A k \in 1..(n + 1) : way[k] \notin Proxies => k <= last
  <2>1. Open \in SUBSET Nat
    BY <1>1, <1>5
  <2>2. Max(Open) = last
    BY <1>6, <2>1, MaxIs
  <2> QED
    BY <1>1, <1>6, <2>2
<1> HIDE DEF Open
<1>8. CASE m.peer \notin Proxies
  <2>1. n + 1 \in 1..(n + 1)
    BY <1>1
  <2>2. n + 1 <= last
    BY <1>1, <1>7, <1>8, <2>1
  <2>3. last = n + 1
    BY <1>1, <1>7, <2>2
  <2> QED
    BY <1>1, <1>3, <1>4, <1>7, <1>8, <2>3 DEF m
<1>9. CASE m.peer \in Proxies
  <2>1. last # n + 1
    BY <1>1, <1>7, <1>9
  <2>2. last \in 1..n
    BY <1>1, <1>7, <2>1
  <2>3. w + last \in known /\ m.header[w + last] = way[last]
    <3>1. w + last \in 1..(w + n)
      BY <1>1, <2>2
    <3> QED
      BY <1>1, <1>2, <1>7, <2>2, <3>1
  <2>4. ASSUME NEW k \in known
        PROVE  k <= w + last
    <3>1. k \in 1..(w + n) /\ m.header[k] \notin Proxies
      BY <1>1
    <3>2. CASE k <= w
      BY <1>1, <2>2, <3>1, <3>2
    <3>3. CASE k > w
      <4>1. k - w \in 1..n /\ k - w \in 1..(n + 1) /\ w + (k - w) = k
        BY <1>1, <3>1, <3>3
      <4>2. k - w <= last
        BY <1>1, <1>7, <3>1, <4>1
      <4> QED
        BY <1>1, <1>7, <3>1, <4>2
    <3> QED
      BY <1>1, <3>1, <3>2, <3>3
  <2>5. known \in SUBSET Nat
    BY <1>1
  <2> HIDE DEF known
  <2>6. Max(known) = w + last
    BY <2>3, <2>4, <2>5, MaxIs
  <2> QED
    BY <1>3, <1>4, <1>7, <1>9, <2>3, <2>6 DEF m
<1> QED
  BY <1>8, <1>9 DEF m

-----------------------------------------------------------------------------
(* What is read of a request. *)

LEMMA CheckFacts ==
  ASSUME NEW kind \in {"tcp", "postgres"}, NEW via \in {"api", "form"}, NEW f, NEW text,
         GoodTimeout(text)
  PROVE  LET c == Check(kind, via, f, text)
         IN  /\ c.status = 0 /\ c.kind = kind /\ c.via = via /\ c.timeout \in Nat
             /\ c.host = Get(f, "host") /\ c.port = Get(f, "port")
<1>1. text # "" => Durations[text] \in Nat
  BY ConfigAssumption DEF GoodTimeout, Range
<1> QED
  BY <1>1 DEF Check

(* The form's handlers refuse or run the check of the form. *)
LEMMA FormHandlers ==
  ASSUME NEW r
  PROVE  /\ \/ HandleIndexTCP(r) = Refuse(400)
            \/ /\ HostAndPort(Form(r)) /\ GoodTimeout(Get(Form(r), "timeout"))
               /\ Get(Form(r), "proto") \in {"", "tcp"}
               /\ HandleIndexTCP(r) = Check("tcp", "form", Form(r), Get(Form(r), "timeout"))
         /\ \/ HandleIndexPostgres(r) = Refuse(400)
            \/ /\ HostAndPort(Form(r)) /\ GoodTimeout(Get(Form(r), "timeout"))
               /\ HasCredentials(PostForm(r))
               /\ HandleIndexPostgres(r) =
                     Check("postgres", "form", Form(r), Get(Form(r), "timeout"))
BY Zenon DEF HandleIndexTCP, HandleIndexPostgres

LEMMA SetProto ==
  ASSUME NEW f, NEW old
  PROVE  /\ \A new : [Fields(f, old) EXCEPT !.proto = new] = Fields(f, new)
         /\ Fields(f, old).host = Get(f, "host") /\ Fields(f, old).port = Get(f, "port")
         /\ Fields(f, old).proto = old
BY DEF Fields

(* Every handler refuses with a status of its own or has a check to run. *)
LEMMA HandleFacts ==
  ASSUME NEW r
  PROVE  LET c == Handle(r, EnabledChecks)
         IN  \/ c.status \in {200, 400, 404, 405}
             \/ /\ c.status = 0 /\ c.kind \in {"tcp", "postgres"} /\ c.via \in {"api", "form"}
                /\ c.timeout \in Nat
<1> DEFINE Good(c) == \/ c.status \in {200, 400, 404, 405}
                      \/ /\ c.status = 0 /\ c.kind \in {"tcp", "postgres"}
                         /\ c.via \in {"api", "form"} /\ c.timeout \in Nat
<1>1. \A code \in {200, 400, 404, 405} : Good(Refuse(code))
  BY DEF Refuse
<1>2. \A kind \in {"tcp", "postgres"} : Good(HandleAPI(r, kind))
  BY <1>1, CheckFacts DEF HandleAPI, Decodes
<1>3. ASSUME NEW kind \in {"tcp", "postgres"}, GoodTimeout(Get(Form(r), "timeout"))
      PROVE  Good(Check(kind, "form", Form(r), Get(Form(r), "timeout")))
  BY <1>3, CheckFacts
<1> HIDE DEF Good
<1>4. Good(HandleIndexTCP(r)) /\ Good(HandleIndexPostgres(r))
  <2>1. Good(Refuse(400))
    BY <1>1
  <2>2. GoodTimeout(Get(Form(r), "timeout")) =>
           /\ Good(Check("tcp", "form", Form(r), Get(Form(r), "timeout")))
           /\ Good(Check("postgres", "form", Form(r), Get(Form(r), "timeout")))
    BY <1>3
  <2> QED
    BY <2>1, <2>2, FormHandlers, Zenon
<1>5. Good(HandleIndex(r, EnabledChecks))
  BY <1>1, <1>4 DEF HandleIndex
<1>6. Good(Handle(r, EnabledChecks))
  BY <1>1, <1>2, <1>5 DEF Handle
<1> QED
  BY <1>6 DEF Good

(* The audit middleware and the handler read the same target and the same
   kind of check out of a request that is as documented. *)
LEMMA BothReadTheSame ==
  ASSUME NEW r, AsDocumented(r), Handle(r, EnabledChecks).status = 0
  PROVE  LET c == Handle(r, EnabledChecks)
         IN  AuditTargets(r) = {[host |-> c.host, port |-> c.port, proto |-> c.kind]}
<1> DEFINE c    == Handle(r, EnabledChecks)
           Same == AuditTargets(r) = {[host |-> c.host, port |-> c.port, proto |-> c.kind]}
<1>1. c.status = 0 /\ \A code \in {200, 400, 404, 405} : Refuse(code).status # 0
  BY DEF Refuse
<1>3. \/ r.path = IndexPath /\ c = HandleIndex(r, EnabledChecks)
      \/ r.path = TCPPath /\ c = HandleAPI(r, "tcp")
      \/ r.path = PostgresPath /\ c = HandleAPI(r, "postgres")
  BY <1>1 DEF Handle
<1> HIDE DEF c
<1>4. ASSUME NEW kind \in {"tcp", "postgres"}, c = HandleAPI(r, kind),
             r.path = IF kind = "tcp" THEN TCPPath ELSE PostgresPath
      PROVE  Same
  <2> DEFINE b    == r.body.fields
             none == ""
  <2>1. r.method = "POST" /\ r.contentType = "json" /\ r.body.size = "small"
    BY <1>4 DEF AsDocumented, IndexPath, TCPPath, PostgresPath
  <2>2. Decodes(r) /\ c = Check(kind, "api", b, Get(b, "timeout"))
    BY <1>1, <1>4, <2>1 DEF HandleAPI
  <2>3. c.kind = kind /\ c.host = Get(b, "host") /\ c.port = Get(b, "port")
    BY <2>2, CheckFacts DEF Decodes
  <2>4. CheckFields(r) = Fields(b, none)
    BY <2>1, <2>2 DEF CheckFields, PeeksJSON, PeeksForm, Decodes
  <2>5. AuditTargets(r) = {[CheckFields(r) EXCEPT !.proto = kind]}
    BY <1>4 DEF AuditTargets, TCPPath, PostgresPath, IndexPath
  <2> HIDE DEF none
  <2>6. AuditTargets(r) = {Fields(b, kind)}
    BY <2>4, <2>5, SetProto
  <2> QED
    BY <2>3, <2>6 DEF Fields
<1>5. ASSUME r.path = IndexPath, c = HandleIndex(r, EnabledChecks)
      PROVE  Same
  <2> DEFINE form == Form(r)
             pg   == Get(form, "check") = "postgres" /\ "postgres" \in EnabledChecks
             kind == IF pg THEN "postgres" ELSE "tcp"
  <2>1. /\ Submitted(r)
        /\ pg => c = HandleIndexPostgres(r)
        /\ ~pg => c = HandleIndexTCP(r)
    <3>1. c # Refuse(400) /\ c # Refuse(200)
      BY <1>1
    <3>2. \/ HandleIndex(r, EnabledChecks) \in {Refuse(400), Refuse(200)}
          \/ /\ Submitted(r)
             /\ pg /\ HandleIndex(r, EnabledChecks) = HandleIndexPostgres(r)
          \/ /\ Submitted(r)
             /\ ~pg /\ HandleIndex(r, EnabledChecks) = HandleIndexTCP(r)
      BY DEF HandleIndex
    <3> QED
      BY <1>5, <3>1, <3>2
  <2> HIDE DEF form
  <2>2. /\ HostAndPort(form) /\ GoodTimeout(Get(form, "timeout"))
        /\ c = Check(kind, "form", form, Get(form, "timeout"))
        /\ pg => HasCredentials(PostForm(r))
        /\ ~pg => Get(form, "proto") \in {"", "tcp"}
    <3>1. CASE pg
      <4>1. c = HandleIndexPostgres(r) /\ c # Refuse(400)
        BY <1>1, <2>1, <3>1
      <4>2. /\ HostAndPort(form) /\ GoodTimeout(Get(form, "timeout"))
            /\ c = Check("postgres", "form", form, Get(form, "timeout"))
            /\ HasCredentials(PostForm(r))
        BY <4>1, FormHandlers, Zenon DEF form
      <4> QED
        BY <3>1, <4>2
    <3>2. CASE ~pg
      <4>1. c = HandleIndexTCP(r) /\ c # Refuse(400)
        BY <1>1, <2>1, <3>2
      <4>2. /\ HostAndPort(form) /\ GoodTimeout(Get(form, "timeout"))
            /\ c = Check("tcp", "form", form, Get(form, "timeout"))
            /\ Get(form, "proto") \in {"", "tcp"}
        BY <4>1, FormHandlers, Zenon DEF form
      <4> QED
        BY <3>2, <4>2
    <3> QED
      BY <3>1, <3>2
  <2>3. c.kind = kind /\ c.host = Get(form, "host") /\ c.port = Get(form, "port")
    <3>1. kind \in {"tcp", "postgres"}
      OBVIOUS
    <3> HIDE DEF kind, pg
    <3>2. GoodTimeout(Get(form, "timeout"))
      BY <2>2
    <3>3. c = Check(kind, "form", form, Get(form, "timeout"))
      BY <2>2
    <3> QED
      BY <3>1, <3>2, <3>3, CheckFacts
  <2>4. Get(form, "host") # ""
    BY <2>2 DEF HostAndPort
  <2>5. DOMAIN <<>> = {}
    OBVIOUS
  <2>6. ASSUME NEW fs, \A key : Get(form, key) = Get(fs, key),
               CheckFields(r) = Fields(fs, IF pg THEN "postgres" ELSE Get(fs, "proto"))
        PROVE  Same
    <3> DEFINE old == IF pg THEN "postgres" ELSE Get(fs, "proto")
    <3>1. kind = IF old = "" THEN "tcp" ELSE old
      BY <2>2, <2>6
    <3> HIDE DEF old, kind
    <3>2. CheckFields(r) = Fields(fs, old) /\ Get(fs, "host") # ""
      BY <2>4, <2>6 DEF old
    <3>3. /\ [Fields(fs, old) EXCEPT !.proto = kind] = Fields(fs, kind)
          /\ Fields(fs, old).host = Get(fs, "host") /\ Fields(fs, old).proto = old
      BY SetProto, Zenon
    <3>4. CheckFields(r).host # "" /\ CheckFields(r).proto = old
      BY <3>2, <3>3
    <3>5. [CheckFields(r) EXCEPT !.proto = kind] = Fields(fs, kind)
      BY <3>2, <3>3
    <3>6. AuditTargets(r) = {[CheckFields(r) EXCEPT !.proto = kind]}
      BY <1>5, <3>1, <3>4 DEF AuditTargets, IndexPath, TCPPath, PostgresPath
    <3> QED
      BY <2>3, <2>6, <3>5, <3>6 DEF Fields
  <2>7. CASE r.method = "GET"
    <3>1. PostForm(r) = <<>>
      BY <2>7 DEF PostForm, ReadsBody
    <3>2. \A key : Get(form, key) = Get(r.query, key)
      BY <2>5, <3>1 DEF Form, Get, form
    <3>3. ~pg
      BY <2>2, <2>5, <3>1 DEF HasCredentials, Get
    <3>4. CheckFields(r) = Fields(r.query, Get(r.query, "proto"))
      BY <2>7 DEF CheckFields, PeeksJSON, PeeksForm
    <3> QED
      BY <2>6, <3>2, <3>3, <3>4
  <2>8. CASE /\ r.method = "POST" /\ r.contentType = "form" /\ DOMAIN r.query = {}
             /\ r.body.size = "small"
             /\ Get(r.body.fields, "check") = "postgres" => "postgres" \in EnabledChecks
    <3>1. r.body.kind = "form"
      BY <2>1, <2>5, <2>8 DEF Submitted, Form, PostForm
    <3>2. PostForm(r) = r.body.fields
      BY <2>8, <3>1 DEF PostForm, ReadsBody
    <3>3. \A key : Get(form, key) = Get(r.body.fields, key)
      BY <2>8, <3>2 DEF Form, Get, form
    <3>4. pg <=> Get(r.body.fields, "check") = "postgres"
      BY <2>8, <3>3
    <3>5. CheckFields(r) =
             Fields(r.body.fields, IF pg THEN "postgres" ELSE Get(r.body.fields, "proto"))
      BY <2>8, <3>1, <3>4 DEF CheckFields, PeeksJSON, PeeksForm
    <3> QED
      BY <2>6, <3>3, <3>5
  <2> QED
    BY <1>5, <2>7, <2>8 DEF AsDocumented
<1>6. Same
  BY <1>3, <1>4, <1>5
<1> QED
  BY <1>6 DEF c

-----------------------------------------------------------------------------
(* The state. *)

(* Of a request that is being checked, it is known what is asked for, and
   nothing has been answered; what is selected is always SelectAgents's. *)
Working == phase \in {"gate", "pgGate", "discover", "fanout"}

Asking ==
    /\ Working => req.status = 0 /\ req.via \in {"api", "form"}
    /\ phase = "receive" => origin \in Senders
    /\ phase # "done" => status = 0 /\ audit = <<>>
    /\ phase \in {"receive", "gate", "pgGate", "discover"} =>
          found = <<>> /\ selected = <<>> /\ spawned = 0
    /\ selected = SelectAgents(found, MaxAgentsPerCheck)
    /\ Asked /\ phase = "done" /\ status = 200 => spawned = Len(selected) /\ Running = {}

(* The first agents start when their timeout still ends within the budget,
   and none is late. *)
Timely ==
    /\ phase = "fanout" => timeout > 0
    /\ phase = "fanout" /\ selected # <<>> =>
          IF spawned = 0 THEN clock + NormalizeTimeout(timeout) < Budget
          ELSE started[1] + NormalizeTimeout(timeout) < Budget
    /\ \A i \in Slots : results[i] # "none" => i <= spawned
    /\ phase = "fanout" =>
          \A i \in Running : selected[i] \in healthy => clock <= Due(i)
    /\ ctx = "expired" => clock = Budget

Inv == /\ TypeOK /\ Asking /\ Timely
       /\ FirstWaveReports /\ ChecksAreAudited /\ KeyIsTheClient

LEMMA NoList ==
  /\ <<>> \in Seq(Agents) /\ Len(<<>>) = 0 /\ DOMAIN <<>> = {}
  /\ SelectAgents(<<>>, MaxAgentsPerCheck) = <<>>
<1>1. <<>> \in Seq(Agents) /\ Len(<<>>) = 0
  BY EmptySeq
<1>2. MaxAgentsPerCheck \in Nat
  BY ConfigAssumption DEF ValidFanout
<1> QED
  BY <1>1, <1>2 DEF SelectAgents

LEMMA InitInv == Init => Inv
<1> SUFFICES ASSUME Init PROVE Inv
  OBVIOUS
<1> USE DEF Init
<1>1. TypeOK
  BY NoList, ConfigAssumption, EmptySeq DEF TypeOK, Slots
<1>2. Asking
  BY NoList DEF Asking, Working, Asked
<1>3. Timely
  BY NoList DEF Timely, Slots, Running
<1>4. FirstWaveReports /\ ChecksAreAudited /\ KeyIsTheClient
  BY DEF FirstWaveReports, ChecksAreAudited, KeyIsTheClient, Asked
<1> QED
  BY <1>1, <1>2, <1>3, <1>4 DEF Inv

(* What the request asks for is settled when it is received. *)
LEMMA StepReceive ==
  ASSUME Inv, Receive
  PROVE  Inv'
<1> DEFINE check   == Handle(req, EnabledChecks)
           arrived == Travel(origin.client, origin.written, origin.hops)
<1>1. \/ check.status \in {200, 400, 404, 405}
      \/ /\ check.status = 0 /\ check.kind \in {"tcp", "postgres"}
         /\ check.via \in {"api", "form"} /\ check.timeout \in Nat
  BY HandleFacts
<1>2. /\ phase = "receive" /\ req \in Requests /\ origin \in Senders
      /\ status = 0 /\ audit = <<>> /\ found = <<>> /\ selected = <<>> /\ spawned = 0
  BY DEF Inv, TypeOK, Asking, Receive
<1>3. CASE check.status = 0
  <2>1. /\ req' = check /\ phase' = "gate" /\ status' = 0
        /\ origin' = [sender  |-> [user |-> origin.user,
                                  party |-> LastUntrusted(origin.client, origin.hops)],
                      key     |-> IdentityKey(origin.user, arrived),
                      plain   |-> AsDocumented(req),
                      targets |-> AuditTargets(req)]
        /\ UNCHANGED <<healthy, clock, ctx, found, selected, timeout, spawned, started, results, audit>>
    BY <1>3 DEF Receive, fanoutVars
  <2>2. ClientIP(arrived) = LastUntrusted(origin.client, origin.hops)
    BY <1>2, ClientIsFound
  <2>3. AsDocumented(req) =>
           AuditTargets(req) = {[host |-> check.host, port |-> check.port, proto |-> check.kind]}
    BY <1>3, BothReadTheSame
  <2> HIDE DEF check, arrived
  <2>4. KeyIsTheClient'
    BY <2>1, <2>2 DEF KeyIsTheClient, IdentityKey
  <2>5. ChecksAreAudited'
    BY <2>1, <2>3 DEF ChecksAreAudited
  <2>6. TypeOK'
    BY <1>1, <1>3, <2>1 DEF Inv, TypeOK, Slots
  <2>7. Asking' /\ Timely' /\ FirstWaveReports'
    BY <1>1, <1>2, <1>3, <2>1
       DEF Inv, Asking, Timely, FirstWaveReports, Reports, Working, Slots, Running, Due
  <2> QED
    BY <2>4, <2>5, <2>6, <2>7 DEF Inv
<1>4. CASE check.status \in {200, 400, 404, 405}
  <2>1. /\ req' = check /\ phase' = "done" /\ status' = check.status
        /\ UNCHANGED <<healthy, clock, ctx, found, selected, timeout, spawned, started, results, audit>>
    BY <1>4 DEF Receive, fanoutVars
  <2> HIDE DEF check
  <2>2. TypeOK'
    BY <1>4, <2>1 DEF Inv, TypeOK, Slots
  <2>3. KeyIsTheClient' /\ ChecksAreAudited'
    BY <1>4, <2>1 DEF KeyIsTheClient, ChecksAreAudited, Asked
  <2>4. Asking' /\ Timely' /\ FirstWaveReports'
    BY <1>2, <1>4, <2>1
       DEF Inv, Asking, Timely, FirstWaveReports, Reports, Working, Asked, Slots, Running, Due
  <2> QED
    BY <2>2, <2>3, <2>4 DEF Inv
<1> QED
  BY <1>1, <1>3, <1>4

(* Past a gate. *)
LEMMA StepProceed ==
  ASSUME Inv, NEW to \in {"pgGate", "discover"}, phase \in {"gate", "pgGate"}, Proceed(to)
  PROVE  Inv'
<1>1. /\ phase' = to /\ UNCHANGED <<req, healthy, clock, ctx, found, selected, timeout, spawned,
                                      started, results, audit, status>>
      /\ to = "pgGate" => origin' = origin
  BY DEF Proceed, fanoutVars
<1>2. TypeOK'
  BY <1>1 DEF Inv, TypeOK, Slots
<1>3. KeyIsTheClient' /\ ChecksAreAudited'
  <2>1. KeyIsTheClient'
    BY <1>1 DEF Inv, KeyIsTheClient
  <2>2. CASE to = "pgGate"
    BY <1>1, <2>1, <2>2 DEF Inv, ChecksAreAudited
  <2>3. CASE to = "discover"
    BY <1>1, <2>1, <2>3 DEF ChecksAreAudited
  <2> QED
    BY <2>1, <2>2, <2>3
<1>4. Asking' /\ Timely' /\ FirstWaveReports'
  BY <1>1 DEF Inv, Asking, Timely, FirstWaveReports, Reports, Working, Asked, Slots, Running, Due
<1> QED
  BY <1>2, <1>3, <1>4 DEF Inv

(* The end of a request that was being checked: one event if it is to have
   one. *)
LEMMA StepRespond ==
  ASSUME Inv, Working, NEW code, NEW outcome, Respond(code, outcome), UNCHANGED fanoutVars,
         \/ code = 429 /\ outcome = "throttled"
         \/ code \in {502, 504} /\ outcome = "error"
         \/ code = 400 /\ outcome = "none" /\ req.via = "form"
         \/ code = 200 /\ outcome = "completed" /\ FanoutDone
  PROVE  Inv'
<1>1. /\ phase' = "done" /\ status' = code
      /\ UNCHANGED <<req, healthy, clock, ctx, found, selected, timeout, spawned, started, results>>
      /\ audit' = IF req.kind = "postgres" /\ outcome # "none" THEN Append(audit, outcome) ELSE audit
  BY DEF Respond, fanoutVars
<1>2. audit = <<>> /\ req.status = 0 /\ req.via \in {"api", "form"}
  BY DEF Inv, Asking, Working
<1>3. /\ audit' = IF req.kind = "postgres" /\ outcome # "none" THEN <<outcome>> ELSE <<>>
      /\ audit' \in Seq({"throttled", "error", "completed"}) /\ Len(audit') <= 1
  <2> DEFINE Told == {"throttled", "error", "completed"}
  <2>1. <<>> \in Seq(Told) /\ Len(<<>>) = 0 /\ \A o : Append(<<>>, o) = <<o>>
    BY EmptySeq
  <2>2. \A o \in Told : <<o>> \in Seq(Told) /\ Len(<<o>>) = 1
    OBVIOUS
  <2>3. outcome # "none" => outcome \in Told
    OBVIOUS
  <2> HIDE DEF Told
  <2>4. CASE req.kind = "postgres" /\ outcome # "none"
    BY <1>1, <1>2, <2>1, <2>2, <2>3, <2>4 DEF Told
  <2>5. CASE ~(req.kind = "postgres" /\ outcome # "none")
    BY <1>1, <1>2, <2>1, <2>5 DEF Told
  <2> QED
    BY <2>4, <2>5
<1>4. TypeOK'
  BY <1>1, <1>3 DEF Inv, TypeOK, Slots, Working
<1>5. KeyIsTheClient' /\ ChecksAreAudited'
  BY <1>1, <1>2, <1>3 DEF KeyIsTheClient, ChecksAreAudited, Asked
<1>6. Asking' /\ Timely' /\ FirstWaveReports'
  BY <1>1, <1>2
     DEF Inv, Asking, Timely, FirstWaveReports, Reports, Working, Asked, Slots, Running, Due, FanoutDone
<1> QED
  BY <1>4, <1>5, <1>6 DEF Inv

(* Discovery leaves more than a tick of the budget, and the timeout sent to
   the agents ends before the rest of it does. *)
LEMMA StepDiscovered ==
  ASSUME Inv, NEW list \in Lists, Discovered(list)
  PROVE  Inv'
<1>1. /\ phase = "discover" /\ ctx = "live" /\ Budget - clock > 1 /\ phase' = "fanout"
      /\ found' = list /\ selected' = SelectAgents(list, MaxAgentsPerCheck)
      /\ timeout' = ClampTimeout(req.timeout, Budget - clock)
      /\ started' = [i \in DOMAIN selected' |-> 0]
      /\ results' = [i \in DOMAIN selected' |-> "none"]
      /\ UNCHANGED <<req, origin, healthy, clock, ctx, spawned, audit, status>>
  BY DEF Discovered
<1>2. /\ req.status = 0 /\ req.via \in {"api", "form"} /\ req.timeout \in Nat /\ spawned = 0
      /\ status = 0 /\ audit = <<>> /\ clock \in Nat
  BY <1>1 DEF Inv, TypeOK, Asking, Working
<1>3. list \in Seq(Agents) /\ MaxAgentsPerCheck \in Nat /\ Budget \in Nat
  BY AgentsAssumption, ConfigAssumption DEF Discoverable, ValidFanout
<1>4. selected' \in Seq(Agents)
  BY <1>1, <1>3, SelectFacts
<1>5. timeout' \in 1..(Budget - clock - 1)
  <2>1. Budget - clock \in Nat
    BY <1>1, <1>2, <1>3
  <2> QED
    BY <1>1, <1>2, <2>1, ClampUnderBudget
<1>6. timeout' \in Nat \ {0} /\ clock + NormalizeTimeout(timeout') < Budget
  <2>1. timeout' \in Nat \ {0}
    BY <1>2, <1>3, <1>5
  <2>2. NormalizeTimeout(timeout') \in 1..timeout'
    BY <2>1, NormalizeShortens
  <2> QED
    BY <1>2, <1>3, <1>5, <2>1, <2>2
<1>7. Slots' = 1..Len(selected') /\ Len(selected') \in Nat
  BY <1>4, LenProperties DEF Slots
<1>8. TypeOK'
  BY <1>1, <1>2, <1>3, <1>4, <1>6, <1>7 DEF Inv, TypeOK, Slots
<1>9. KeyIsTheClient' /\ ChecksAreAudited'
  BY <1>1 DEF KeyIsTheClient, ChecksAreAudited
<1>10. Asking' /\ FirstWaveReports'
  BY <1>1, <1>2 DEF Inv, Asking, FirstWaveReports, Working
<1>11. Timely'
  BY <1>1, <1>2, <1>6 DEF Inv, Timely, Slots, Running
<1> QED
  BY <1>8, <1>9, <1>10, <1>11 DEF Inv

(* The parts of the invariant that only speak of other phases. *)
LEMMA FanoutKeeps ==
  ASSUME Inv, phase = "fanout", UNCHANGED <<req, phase, found, selected, audit, status>>
  PROVE  KeyIsTheClient' /\ ChecksAreAudited' /\ Asking'
BY DEF Inv, Asking, Working, Asked, KeyIsTheClient, ChecksAreAudited

LEMMA StepSpawn ==
  ASSUME Inv, Spawn
  PROVE  Inv'
<1>1. /\ phase = "fanout" /\ spawned < Len(selected) /\ spawned' = spawned + 1
      /\ started' = [started EXCEPT ![spawned + 1] = clock]
      /\ UNCHANGED <<req, origin, healthy, phase, clock, ctx, found, selected, timeout, results,
                     audit, status>>
  BY DEF Spawn, CanSpawn
<1>2. /\ spawned \in Nat /\ clock \in 0..Budget /\ Slots = 1..Len(selected)
      /\ Len(selected) \in Nat /\ started \in [Slots -> 0..Budget] /\ timeout \in Nat
  BY LenProperties DEF Inv, TypeOK, Slots
<1>3. spawned + 1 \in Slots
  BY <1>1, <1>2
<1>4. /\ started' \in [Slots -> 0..Budget] /\ started'[spawned + 1] = clock
      /\ \A i \in 1..spawned : started'[i] = started[i]
  BY <1>1, <1>2, <1>3
<1>5. TypeOK'
  BY <1>1, <1>2, <1>4 DEF Inv, TypeOK, Slots
<1>6. KeyIsTheClient' /\ ChecksAreAudited' /\ Asking'
  BY <1>1, FanoutKeeps
<1>7. results[spawned + 1] = "none" /\ Running' = Running \cup {spawned + 1}
  BY <1>1, <1>2, <1>3 DEF Inv, Timely, Running
<1>8. FirstWaveReports'
  <2> SUFFICES ASSUME NEW i \in 1..(spawned + 1), started'[i] = started'[1]
               PROVE  Reports(i)'
    BY <1>1 DEF FirstWaveReports
  <2>1. CASE i = spawned + 1
    BY <1>1, <1>7, <2>1 DEF Reports
  <2>2. CASE i # spawned + 1
    <3>1. i \in 1..spawned /\ 1 \in 1..spawned
      BY <1>2, <2>2
    <3>2. started[i] = started[1]
      BY <1>4, <3>1
    <3> QED
      BY <1>1, <3>1, <3>2 DEF Inv, FirstWaveReports, Reports
  <2> QED
    BY <2>1, <2>2
<1>9. Timely'
  <2>1. /\ timeout > 0 /\ selected # <<>>
        /\ IF spawned = 0 THEN clock + NormalizeTimeout(timeout) < Budget
           ELSE started[1] + NormalizeTimeout(timeout) < Budget
    BY <1>1, <1>2, NoList DEF Inv, Timely
  <2>2. started'[1] + NormalizeTimeout(timeout) < Budget
    <3>1. CASE spawned = 0
      BY <1>4, <2>1, <3>1
    <3>2. CASE spawned # 0
      <4>1. 1 \in 1..spawned
        BY <1>2, <3>2
      <4> QED
        BY <1>4, <2>1, <3>2, <4>1
    <3> QED
      BY <3>1, <3>2
  <2>3. NormalizeTimeout(timeout) \in Nat
    BY <1>2, <2>1, NormalizeShortens
  <2>4. ASSUME NEW i \in Running', selected[i] \in healthy
        PROVE  clock <= started'[i] + NormalizeTimeout(timeout)
    <3>1. CASE i = spawned + 1
      BY <1>2, <1>4, <2>3, <3>1
    <3>2. CASE i \in Running
      <4>1. i \in 1..spawned
        BY <3>2 DEF Running
      <4> QED
        BY <1>1, <1>4, <2>4, <3>2, <4>1 DEF Inv, Timely, Due
    <3> QED
      BY <1>7, <2>4, <3>1, <3>2
  <2>5. \A i \in Slots : results[i] # "none" => i <= spawned + 1
    BY <1>2 DEF Inv, Timely
  <2>6. spawned + 1 # 0
    BY <1>2
  <2> QED
    BY <1>1, <2>1, <2>2, <2>4, <2>5, <2>6 DEF Inv, Timely, Slots, Due
<1> QED
  BY <1>5, <1>6, <1>8, <1>9 DEF Inv

(* A result: a transport error for a healthy agent only when the context has
   ended, and the budget ends after every agent of the first wave is due. *)
LEMMA StepReturn ==
  ASSUME Inv, NEW i \in Slots, NEW r \in {"ok", "fail", "error"}, CheckOneReturns(i, r),
         r = "error" => ctx # "live" \/ selected[i] \notin healthy
  PROVE  Inv'
<1>1. /\ phase = "fanout" /\ i \in Running /\ results' = [results EXCEPT ![i] = r]
      /\ UNCHANGED <<req, origin, healthy, phase, clock, ctx, found, selected, timeout, spawned,
                     started, audit, status>>
  BY DEF CheckOneReturns
<1>2. /\ results \in [Slots -> {"none", "ok", "fail", "error"}] /\ spawned \in Nat
      /\ Slots = 1..Len(selected) /\ Len(selected) \in Nat /\ i \in 1..spawned
      /\ started \in [Slots -> 0..Budget] /\ spawned <= Len(selected)
  <2>1. Slots = 1..Len(selected) /\ Len(selected) \in Nat
    BY LenProperties DEF Inv, TypeOK, Slots
  <2>2. i \in 1..spawned
    BY <1>1 DEF Running
  <2> QED
    BY <2>1, <2>2 DEF Inv, TypeOK
<1>3. /\ results' \in [Slots -> {"none", "ok", "fail", "error"}] /\ results'[i] = r
      /\ \A j \in Slots : j # i => results'[j] = results[j]
  BY <1>1, <1>2
<1>4. TypeOK'
  BY <1>1, <1>3 DEF Inv, TypeOK, Slots
<1>5. KeyIsTheClient' /\ ChecksAreAudited' /\ Asking'
  BY <1>1, FanoutKeeps
<1>6. Running' = Running \ {i}
  <2>1. \A j \in 1..spawned : j \in Slots
    BY <1>2
  <2> QED
    BY <1>1, <1>2, <1>3, <2>1 DEF Running
<1>7. FirstWaveReports'
  <2> SUFFICES ASSUME NEW j \in 1..spawned, started[j] = started[1]
               PROVE  Reports(j)'
    BY <1>1 DEF FirstWaveReports
  <2>1. CASE j # i
    <3>1. results'[j] = results[j]
      BY <1>2, <1>3, <2>1
    <3> QED
      BY <1>1, <3>1 DEF Inv, FirstWaveReports, Reports
  <2>2. CASE j = i
    <3>1. ASSUME r = "error", selected[i] \in healthy, ctx # "gone"
          PROVE  FALSE
      <4>1. ctx = "expired" /\ clock = Budget
        BY <3>1 DEF Inv, TypeOK, Timely
      <4>2. clock <= started[i] + NormalizeTimeout(timeout)
        BY <1>1, <3>1 DEF Inv, Timely, Due
      <4>3. started[1] + NormalizeTimeout(timeout) < Budget
        <5>1. spawned # 0 /\ selected # <<>>
          BY <1>2, NoList
        <5> QED
          BY <1>1, <5>1 DEF Inv, Timely
      <4>4. NormalizeTimeout(timeout) \in Nat /\ Budget \in Nat /\ started[1] \in Nat
        <5>1. timeout \in Nat \ {0}
          BY <1>1 DEF Inv, TypeOK, Timely
        <5>2. 1 \in Slots /\ Budget \in Nat
          BY <1>2, ConfigAssumption
        <5>3. started[1] \in 0..Budget
          BY <1>2, <5>2
        <5>4. NormalizeTimeout(timeout) \in 1..timeout
          BY <5>1, NormalizeShortens
        <5> QED
          BY <5>1, <5>2, <5>3, <5>4
      <4> QED
        BY <2>2, <4>1, <4>2, <4>3, <4>4
    <3> QED
      BY <1>1, <1>3, <2>2, <3>1 DEF Reports
  <2> QED
    BY <2>1, <2>2
<1>8. Timely'
  <2>1. \A j \in Slots : results'[j] # "none" => j <= spawned
    BY <1>2, <1>3 DEF Inv, Timely
  <2>2. \A j \in Running' : selected[j] \in healthy => clock <= Due(j)
    BY <1>1, <1>6 DEF Inv, Timely
  <2> QED
    BY <1>1, <2>1, <2>2 DEF Inv, Timely, Slots, Due
<1> QED
  BY <1>4, <1>5, <1>7, <1>8 DEF Inv

(* A context that ends, and time: the loop is ahead of the clock, so the
   first agent has started before the clock moves. *)
LEMMA StepClock ==
  ASSUME Inv, BudgetExpires \/ ClientGone \/ Tick
  PROVE  Inv'
<1>1. CASE BudgetExpires \/ ClientGone
  <2>1. /\ phase \in {"discover", "fanout"} /\ ctx = "live" /\ ctx' \in {"expired", "gone"}
        /\ ctx' = "expired" => clock = Budget
        /\ UNCHANGED <<req, origin, healthy, phase, clock, found, selected, timeout, spawned,
                       started, results, audit, status>>
    BY <1>1 DEF BudgetExpires, ClientGone, CtxEnds, fanoutVars
  <2>2. TypeOK'
    BY <2>1 DEF Inv, TypeOK, Slots
  <2>3. KeyIsTheClient' /\ ChecksAreAudited'
    BY <2>1 DEF Inv, KeyIsTheClient, ChecksAreAudited
  <2>4. Asking' /\ FirstWaveReports' /\ Timely'
    BY <2>1 DEF Inv, Asking, Working, FirstWaveReports, Reports, Timely, Slots, Running, Due
  <2> QED
    BY <2>2, <2>3, <2>4 DEF Inv
<1>2. CASE Tick
  <2>1. /\ phase \in {"discover", "fanout"} /\ ctx = "live" /\ clock < Budget /\ clock' = clock + 1
        /\ ~CanSpawn /\ \A i \in Running : selected[i] \in healthy => clock < Due(i)
        /\ UNCHANGED <<req, origin, healthy, phase, ctx, found, selected, timeout, spawned,
                       started, results, audit, status>>
    BY <1>2 DEF Tick, fanoutVars
  <2>2. clock \in Nat /\ Budget \in Nat /\ timeout \in Nat /\ spawned \in Nat
    BY ConfigAssumption DEF Inv, TypeOK
  <2>3. TypeOK'
    BY <2>1, <2>2 DEF Inv, TypeOK, Slots
  <2>4. KeyIsTheClient' /\ ChecksAreAudited'
    BY <2>1 DEF Inv, KeyIsTheClient, ChecksAreAudited
  <2>5. Asking' /\ FirstWaveReports'
    BY <2>1 DEF Inv, Asking, Working, FirstWaveReports, Reports, Running
  <2>6. phase = "fanout" /\ selected # <<>> => spawned # 0
    <3> SUFFICES ASSUME phase = "fanout", selected # <<>>, spawned = 0
                 PROVE  CanSpawn
      BY <2>1
    <3>1. Len(selected) > 0
      BY EmptySeq DEF Inv, TypeOK
    <3>2. Running = {}
      BY DEF Running
    <3>3. SlotFree
      BY <3>2, FS_EmptySet, ConfigAssumption DEF SlotFree, ValidFanout
    <3> QED
      BY <3>1, <3>3 DEF CanSpawn
  <2>7. ASSUME NEW i \in Running, selected[i] \in healthy, phase = "fanout"
        PROVE  clock + 1 <= Due(i)
    <3>1. i \in Slots
      BY LenProperties DEF Inv, TypeOK, Slots, Running
    <3>2. started[i] \in Nat
      BY <3>1, ConfigAssumption DEF Inv, TypeOK
    <3>3. NormalizeTimeout(timeout) \in Nat
      <4>1. timeout \in Nat \ {0}
        BY <2>2, <2>7 DEF Inv, Timely
      <4> QED
        BY <4>1, NormalizeShortens
    <3> QED
      BY <2>1, <2>2, <2>7, <3>2, <3>3 DEF Due
  <2>8. Timely'
    BY <2>1, <2>2, <2>6, <2>7 DEF Inv, Timely, Slots, Running, Due
  <2> QED
    BY <2>3, <2>4, <2>5, <2>8 DEF Inv
<1> QED
  BY <1>1, <1>2

LEMMA NextInv ==
  ASSUME Inv, [Next]_vars
  PROVE  Inv'
<1>1. CASE Receive
  BY <1>1, StepReceive
<1>2. CASE Allow \/ AllowPostgres
  <2>1. PICK to \in {"pgGate", "discover"} : phase \in {"gate", "pgGate"} /\ Proceed(to)
    BY <1>2 DEF Allow, AllowPostgres
  <2> QED
    BY <2>1, StepProceed
<1>3. CASE Throttle \/ DiscoveryFails \/ DiscoveryLate \/ Answer
  <2>1. CASE Throttle
    BY <2>1, StepRespond DEF Throttle, Working
  <2>2. ASSUME NEW code \in {502, 504}, phase = "discover", NoFanout(code)
        PROVE  Inv'
    <3>1. CASE req.via = "form"
      BY <2>2, <3>1, StepRespond DEF NoFanout, Working
    <3>2. CASE req.via # "form"
      BY <2>2, <3>2, StepRespond DEF NoFanout, Working
    <3> QED
      BY <3>1, <3>2
  <2>3. CASE DiscoveryFails \/ DiscoveryLate
    BY <2>2, <2>3 DEF DiscoveryFails, DiscoveryLate
  <2>4. CASE Answer
    BY <2>4, StepRespond DEF Answer, FanoutDone, Working
  <2> QED
    BY <1>3, <2>1, <2>3, <2>4
<1>4. ASSUME NEW list \in Lists, Discovered(list)
      PROVE  Inv'
  BY <1>4, StepDiscovered
<1>5. CASE Spawn
  BY <1>5, StepSpawn
<1>6. ASSUME NEW i \in Slots, \/ \E r \in {"ok", "fail"} : AgentAnswers(i, r)
                              \/ TransportError(i)
      PROVE  Inv'
  BY <1>6, StepReturn DEF AgentAnswers, TransportError
<1>7. CASE BudgetExpires \/ ClientGone \/ Tick
  BY <1>7, StepClock
<1>8. CASE UNCHANGED vars
  <2>1. TypeOK'
    BY <1>8 DEF vars, Inv, TypeOK, Slots
  <2>2. Asking' /\ ChecksAreAudited' /\ KeyIsTheClient'
    BY <1>8 DEF vars, Inv, Asking, ChecksAreAudited, KeyIsTheClient, Working, Asked, Running
  <2>3. Timely' /\ FirstWaveReports'
    BY <1>8 DEF vars, Inv, Timely, FirstWaveReports, Slots, Running, Due, Reports
  <2> QED
    BY <2>1, <2>2, <2>3 DEF Inv
<1> QED
  BY <1>1, <1>2, <1>3, <1>4, <1>5, <1>6, <1>7, <1>8 DEF Next

LEMMA InvHolds == Spec => []Inv
BY InitInv, NextInv, PTL DEF Spec

(* Every variable has its type, whatever arrives and whoever answers. *)
THEOREM TypeCorrect == Spec => []TypeOK
<1>1. Inv => TypeOK
  BY DEF Inv
<1> QED
  BY <1>1, InvHolds, PTL

(* clampTimeout and runCheck: no healthy agent of the first wave is reported
   as a transport error, for every timeout of the user and every time that
   discovery takes. *)
THEOREM FirstWaveIsHeard == Spec => []FirstWaveReports
<1>1. Inv => FirstWaveReports
  BY DEF Inv
<1> QED
  BY <1>1, InvHolds, PTL

(* AuditCheck, which reads the request a second time, and auditPostgres miss
   no documented check and no outcome. *)
THEOREM NothingUnseen == Spec => []ChecksAreAudited
<1>1. Inv => ChecksAreAudited
  BY DEF Inv
<1> QED
  BY <1>1, InvHolds, PTL

(* identityKey and ClientIP charge the client, whatever it wrote into the
   forwarded header and through however many proxies it came. *)
THEOREM ClientIsCharged == Spec => []KeyIsTheClient
<1>1. Inv => KeyIsTheClient
  BY DEF Inv
<1> QED
  BY <1>1, InvHolds, PTL

(* selectAgents and CheckAll: one result for each agent queried, and the
   agents queried are the first ones by address, in every order discovery
   may return them in and with every repetition. *)
THEOREM CoverageHolds == Spec => []CoverageIsExact
<1>1. Inv => CoverageIsExact
  <2> SUFFICES ASSUME Inv, Asked, status = 200
               PROVE  CoverageIsExact
    BY DEF CoverageIsExact
  <2> DEFINE kept    == IF MaxAgentsPerCheck = 0 THEN Len(found)
                        ELSE IF Len(found) < MaxAgentsPerCheck THEN Len(found)
                        ELSE MaxAgentsPerCheck
             In(s, a) == Cardinality({i \in DOMAIN s : s[i] = a})
  <2>1. /\ found \in Seq(Agents) /\ MaxAgentsPerCheck \in Nat
        /\ selected = SelectAgents(found, MaxAgentsPerCheck)
    BY ConfigAssumption DEF Inv, TypeOK, Asking, ValidFanout
  <2>2. Len(found) \in Nat
    BY <2>1, LenProperties
  <2>3. Len(selected) = kept
    BY <2>1, <2>2, SelectFacts
  <2>4. \A a, b \in Agents : a < b /\ In(selected, b) > 0 => In(selected, a) = In(found, a)
    <3>1. \A a, b \in Agents : a < b /\ Occurs(selected, b) > 0 =>
                                 Occurs(selected, a) = Occurs(found, a)
      BY <2>1, SelectFacts
    <3> QED
      BY <3>1 DEF Occurs
  <2>5. \A i \in Slots : results[i] # "none"
    <3>1. phase = "done" /\ spawned = Len(selected) /\ Running = {}
      BY DEF Inv, Asking
    <3>2. Slots = 1..Len(selected)
      BY LenProperties DEF Inv, TypeOK, Slots
    <3> QED
      BY <3>1, <3>2 DEF Running
  <2> HIDE DEF kept
  <2> QED
    BY <2>3, <2>4, <2>5 DEF CoverageIsExact, kept
<1> QED
  BY <1>1, InvHolds, PTL
=============================================================================
