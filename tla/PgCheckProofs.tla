--------------------------- MODULE PgCheckProofs ---------------------------
(***************************************************************************)
(* Theorems of PgCheck, for every budget, every clamped or normalised      *)
(* timeout and every CloseTimeout: the type invariant, what a transport    *)
(* error can hide and what an outcome says of the server.                  *)
(***************************************************************************)
EXTENDS PgCheck, TimeoutsProofs

-----------------------------------------------------------------------------
(* The agent's deadline falls before the end of the UI's budget. *)
LEMMA LimitUnderBudget ==
  ASSUME NEW u \in UserTimeouts, NEW n \in Nat, Budget - n > 1
  PROVE  n + NormalizeTimeout(ClampTimeout(u, Budget - n)) \in (n + 1)..(Budget - 1)
<1>1. Budget - n \in Nat /\ u \in Nat
  BY PgAssumption
<1>2. ClampTimeout(u, Budget - n) \in 1..(Budget - n - 1)
  BY <1>1, ClampUnderBudget
<1>3. NormalizeTimeout(ClampTimeout(u, Budget - n)) \in 1..ClampTimeout(u, Budget - n)
  BY <1>1, <1>2, NormalizeShortens
<1> QED
  BY <1>1, <1>2, <1>3, PgAssumption

-----------------------------------------------------------------------------
(* The clock against the stages. *)

Working == {"dial"} \cup Underway

(* Every stage is left in time: those of the agent's timeout before the
   budget ends, the close within its own. *)
InTime ==
    /\ now \in Nat /\ limit \in Nat /\ closing \in Nat
    /\ stage = "discovery" => now <= Budget /\ limit = 0
    /\ stage # "discovery" => limit < Budget /\ now <= limit + CloseTimeout
    /\ stage \in Working => now <= limit
    /\ stage = "close" => now <= closing
    /\ closing <= limit + CloseTimeout
    /\ told = "waiting" => stage # "over"
    /\ stage \in {"answer", "over"} /\ code \notin {"ok", "query_failed"} => now <= limit

(* What the check has come to know of the server, and the user of it. *)
Known ==
    /\ stage \in {"discovery"} \cup Working => code = "none"
    /\ stage = "tls" => tls
    /\ stage \in {"login", "query"} => (tls => server.tls = "good")
    /\ stage = "query" => server.login = "accept"
    /\ stage = "close" => code \in {"ok", "query_failed"}

Inv == TypeOK /\ InTime /\ Known /\ LostOnlyToClose /\ CodeNamesTheCause

LEMMA InitInv == Init => Inv
BY PgAssumption DEF Init, Inv, TypeOK, InTime, Known, LostOnlyToClose, CodeNamesTheCause, Working,
                    Underway, Codes

(* What classifyConnectError makes of an error it can be given. *)
LEMMA ClassifyFacts ==
  ASSUME NEW e, e.tls \in BOOLEAN
  PROVE  /\ Classify(e) \in {"tls_error", "auth_rejected", "unsupported_auth", "protocol_error"}
         /\ Classify(e) = "tls_error" => e.tls
         /\ Classify(e) = "auth_rejected" => e.sqlstate = "28"
         /\ Classify(e) = "unsupported_auth" => e.sqlstate = "none" /\ e.mentions
BY DEF Classify

(* A step from one stage of the agent's work to the next. *)
LEMMA StepForward ==
  ASSUME Inv, \/ Reached \/ Connected \/ TlsDone \/ LoggedIn
  PROVE  Inv'
BY DEF Inv, TypeOK, InTime, Known, LostOnlyToClose, CodeNamesTheCause, Working, Underway,
       Reached, Connected, TlsDone, LoggedIn, GoTo, given

(* A step that ends the login with an outcome for the answer. *)
LEMMA StepFailure ==
  ASSUME Inv, NEW c \in Codes \ {"none", "ok", "query_failed"}, stage \in Working, EndWith(c),
         c = "auth_rejected" => server.login \in {"reject", "reject_gss"},
         c = "tls_error" => tls /\ server.tls # "good",
         c = "unsupported_auth" => server.login = "gss" \/ names
  PROVE  Inv'
BY DEF Inv, TypeOK, InTime, Known, LostOnlyToClose, CodeNamesTheCause, Working, Underway, Codes,
       EndWith, given

LEMMA StepFails ==
  ASSUME Inv, Unreachable \/ ConnectFails \/ TlsFails \/ LoginFails
  PROVE  Inv'
<1>1. CASE Unreachable
  BY <1>1, StepFailure DEF Unreachable, Codes, Working
<1>2. CASE ConnectFails
  <2> DEFINE e == Error(FALSE, "none", FALSE)
  <2>1. e.tls \in BOOLEAN /\ ~e.tls /\ e.sqlstate = "none" /\ (e.mentions => names)
    BY DEF Error, Inv, TypeOK
  <2> HIDE DEF e
  <2>2. Classify(e) \in {"unsupported_auth", "protocol_error"} /\ (Classify(e) = "unsupported_auth" => names)
    BY <2>1, ClassifyFacts
  <2>3. stage \in Working /\ EndWith(Classify(e))
    BY <1>2 DEF ConnectFails, Working, Underway, e
  <2> QED
    BY <2>2, <2>3, StepFailure DEF Codes
<1>3. CASE TlsFails
  <2> DEFINE e == Error(TRUE, "none", FALSE)
  <2>1. e.tls
    BY DEF Error
  <2> HIDE DEF e
  <2>2. Classify(e) = "tls_error"
    BY <2>1 DEF Classify
  <2>3. stage \in Working /\ EndWith(Classify(e)) /\ tls /\ server.tls # "good"
    BY <1>3 DEF TlsFails, Working, Underway, e, Inv, Known
  <2> QED
    BY <2>2, <2>3, StepFailure DEF Codes
<1>4. CASE LoginFails
  <2>1. server.login \in {"reject", "reject_gss", "other", "gss"}
    BY <1>4 DEF LoginFails, Inv, TypeOK, Servers
  <2>2. /\ LoginError.tls \in BOOLEAN /\ ~LoginError.tls
        /\ LoginError.sqlstate = "28" => server.login \in {"reject", "reject_gss"}
        /\ LoginError.sqlstate = "none" => server.login = "gss"
    BY <2>1 DEF LoginError, Error
  <2>3. /\ Classify(LoginError) \in {"auth_rejected", "unsupported_auth", "protocol_error"}
        /\ Classify(LoginError) = "auth_rejected" => server.login \in {"reject", "reject_gss"}
        /\ Classify(LoginError) = "unsupported_auth" => server.login = "gss"
    BY <2>2, ClassifyFacts
  <2>4. stage \in Working /\ EndWith(Classify(LoginError))
    BY <1>4 DEF LoginFails, Working, Underway
  <2> QED
    BY <2>3, <2>4, StepFailure DEF Codes
<1> QED
  BY <1>1, <1>2, <1>3, <1>4

(* The end of the query starts the close, under a context of its own. *)
LEMMA StepClose ==
  ASSUME Inv, NEW c \in {"ok", "query_failed"}, stage = "query", CloseAfter(c),
         c = "ok" => server.query = "good"
  PROVE  Inv'
BY PgAssumption DEF Inv, TypeOK, InTime, Known, LostOnlyToClose, CodeNamesTheCause, Working,
                    Underway, Codes, CloseAfter, given

LEMMA StepContextEnds ==
  ASSUME Inv, ContextEnds
  PROVE  Inv'
<1>1. CASE stage = "dial" /\ EndWith("unreachable")
  BY <1>1, StepFailure DEF Codes, Working
<1>2. CASE stage \in Underway \ {"query"} /\ EndWith(Classify(Error(FALSE, "none", FALSE)))
  <2> DEFINE e == Error(FALSE, "none", FALSE)
  <2>1. e.tls \in BOOLEAN /\ ~e.tls /\ e.sqlstate = "none" /\ (e.mentions => names)
    BY DEF Error, Inv, TypeOK
  <2> HIDE DEF e
  <2>2. Classify(e) \in {"unsupported_auth", "protocol_error"} /\ (Classify(e) = "unsupported_auth" => names)
    BY <2>1, ClassifyFacts
  <2>3. stage \in Working /\ EndWith(Classify(e))
    BY <1>2 DEF Working, e
  <2> QED
    BY <2>2, <2>3, StepFailure DEF Codes
<1>3. CASE stage = "query" /\ CloseAfter("query_failed")
  BY <1>3, StepClose
<1> QED
  BY <1>1, <1>2, <1>3 DEF ContextEnds

LEMMA StepDiscovered ==
  ASSUME Inv, Discovered
  PROVE  Inv'
<1>1. limit' \in (now + 1)..(Budget - 1) /\ now \in Nat
  BY LimitUnderBudget DEF Inv, TypeOK, InTime, Discovered
<1> QED
  BY <1>1, PgAssumption DEF Inv, TypeOK, InTime, Known, LostOnlyToClose, CodeNamesTheCause, Working,
                            Underway, Codes, Discovered, given

(* A result is late only after a close: nothing else lasts beyond limit. *)
LEMMA StepBudgetEnds ==
  ASSUME Inv, BudgetEnds
  PROVE  Inv'
<1>1. LostOnlyToClose'
  <2> SUFFICES ASSUME told' = "transport"
               PROVE  /\ stage \in {"close", "answer", "over"}
                      /\ code \in {"ok", "query_failed"}
                      /\ limit + CloseTimeout >= Budget
    BY DEF LostOnlyToClose, BudgetEnds
  <2>1. stage # "discovery" /\ now >= Budget
    BY DEF BudgetEnds
  <2>2. stage \notin Working
    BY <2>1, PgAssumption DEF Inv, InTime
  <2>3. stage \in {"close", "answer", "over"}
    BY <2>1, <2>2 DEF Inv, TypeOK, Working
  <2>4. code \in {"ok", "query_failed"}
    BY <2>1, <2>3, PgAssumption DEF Inv, InTime, Known
  <2> QED
    BY <2>1, <2>3, <2>4, PgAssumption DEF Inv, InTime
<1> QED
  BY <1>1 DEF Inv, TypeOK, InTime, Known, CodeNamesTheCause, Working, Underway, BudgetEnds, given

LEMMA StepTick ==
  ASSUME Inv, Tick
  PROVE  Inv'
BY PgAssumption DEF Inv, TypeOK, InTime, Known, LostOnlyToClose, CodeNamesTheCause, Working,
                    Underway, Tick, Urgent, Expired, given

LEMMA StepOthers ==
  ASSUME Inv, Closed \/ Answer \/ ClientGone \/ Done \/ UNCHANGED vars
  PROVE  Inv'
<1>1. CASE Closed
  BY <1>1, PgAssumption DEF Inv, TypeOK, InTime, Known, LostOnlyToClose, CodeNamesTheCause, Working,
                            Underway, Closed, GoTo, given
<1>2. CASE Answer
  BY <1>2, PgAssumption DEF Inv, TypeOK, InTime, Known, LostOnlyToClose, CodeNamesTheCause, Working,
                            Underway, Answer, given
<1>3. CASE ClientGone \/ Done \/ UNCHANGED vars
  BY <1>3 DEF Inv, TypeOK, InTime, Known, LostOnlyToClose, CodeNamesTheCause, Working, ClientGone,
              Done, vars, given
<1> QED
  BY <1>1, <1>2, <1>3

LEMMA SpecInv == Spec => []Inv
<1>1. Inv /\ [Next]_vars => Inv'
  <2>1. ASSUME Inv, Queried
        PROVE  Inv'
    BY <2>1, StepClose DEF Queried
  <2> QED
    BY <2>1, StepForward, StepFails, StepContextEnds, StepDiscovered, StepBudgetEnds, StepTick,
       StepOthers DEF Next
<1> QED
  BY <1>1, InitInv, PTL DEF Spec

-----------------------------------------------------------------------------
(* Whatever the budget and the timeouts, the agent is done with a check a
   CloseTimeout after the UI's budget at the latest, and its own deadline
   falls within the budget. *)
THEOREM TypeCorrect == Spec => []TypeOK
<1>1. Inv => TypeOK
  BY DEF Inv
<1> QED
  BY <1>1, SpecInv, PTL

(* A transport error takes the place of a node's result only when that node
   has a session to close: clampTimeout, Normalize and the margin leave every
   other outcome in time, for every budget of at least two ticks. *)
THEOREM OnlyTheCloseIsLate == Spec => []LostOnlyToClose
<1>1. Inv => LostOnlyToClose
  BY DEF Inv
<1> QED
  BY <1>1, SpecInv, PTL

(* AuthResult's code names its cause, whatever the server does and whenever
   a context ends the login; no success without TLS where TLS was asked for. *)
THEOREM CodesAreTrue == Spec => []CodeNamesTheCause
<1>1. Inv => CodeNamesTheCause
  BY DEF Inv
<1> QED
  BY <1>1, SpecInv, PTL
=============================================================================
