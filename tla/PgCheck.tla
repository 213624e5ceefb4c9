------------------------------ MODULE PgCheck -------------------------------
(***************************************************************************)
(* One postgres check against the clock, from the moment the UI has an     *)
(* agent to ask until the user has a result: the UI's budget, the clamped  *)
(* timeout the agent works under, the reachability dial, the login through *)
(* pgconn (pgauth's Connector.Probe), its graceful close, the answer.      *)
(*                                                                         *)
(* The server and the network are external: each stage goes as the server  *)
(* decides, at any time, or hangs until a context ends it.  Computing and  *)
(* the way between UI and agent take no time.                              *)
(***************************************************************************)
EXTENDS Timeouts

CONSTANTS
    Budget,         \* the UI's --timeout
    UserTimeouts,   \* timeouts a user asks for (0: none)
    CloseTimeout    \* pgauth's closeTimeout

ASSUME PgAssumption ==
    /\ Budget \in Nat \ {0} /\ CloseTimeout \in Nat \ {0}
    /\ UserTimeouts \subseteq Nat

VARIABLES
    user,       \* the timeout asked for
    tls,        \* the check wants TLS (the default)
    names,      \* user, database or host name contain a mechanism's name
    server,     \* what the server does at each stage
    now,
    stage,      \* where the check is
    limit,      \* when the contexts of the agent end
    closing,    \* when the close context ends
    code,       \* the outcome: of AuthResult, or "unreachable"
    told        \* what the user has: "waiting", "result", "transport", "late" (504), "gone"

given == <<user, tls, names, server>>
vars  == <<given, now, stage, limit, closing, code, told>>

(* A server refuses, fails or completes TLS, then sends an error of class 28
   (which may mention a mechanism), another error, or asks for a mechanism
   pgconn cannot do, or accepts; and it runs the query or not. *)
Servers == [tls   : {"good", "refused", "untrusted"},
            login : {"accept", "reject", "reject_gss", "other", "gss"},
            query : {"good", "bad"}]

Underway == {"connect", "tls", "login", "query"}

Init ==
    /\ user \in UserTimeouts
    /\ tls \in BOOLEAN /\ names \in BOOLEAN
    /\ server \in Servers
    /\ now = 0
    /\ stage = "discovery"
    /\ limit = 0 /\ closing = 0
    /\ code = "none"
    /\ told = "waiting"

-----------------------------------------------------------------------------
(* The error of ConnectConfig, reduced to what classifyConnectError looks
   at: a TLS failure anywhere in the chain, the SQLSTATE, and whether its
   text, which names user, database and host, mentions a mechanism. *)
Error(isTLS, sqlstate, mentions) ==
    [tls |-> isTLS, sqlstate |-> sqlstate, mentions |-> mentions \/ names]

(* Mutant of Classify: the mechanism is looked for before the SQLSTATE. *)
ClassifyTextFirst(e) ==
    CASE e.tls -> "tls_error"
      [] ~e.tls /\ e.mentions -> "unsupported_auth"
      [] OTHER -> IF e.sqlstate = "28" THEN "auth_rejected" ELSE "protocol_error"

Classify(e) ==
    CASE e.tls -> "tls_error"
      [] ~e.tls /\ e.sqlstate = "28" -> "auth_rejected"
      [] ~e.tls /\ e.sqlstate = "none" /\ e.mentions -> "unsupported_auth"
      [] OTHER -> "protocol_error"

(* What the server's answer to the startup message becomes. *)
LoginError ==
    CASE server.login = "reject"     -> Error(FALSE, "28", FALSE)
      [] server.login = "reject_gss" -> Error(FALSE, "28", TRUE)
      [] server.login = "other"      -> Error(FALSE, "other", FALSE)
      [] server.login = "gss"        -> Error(FALSE, "none", TRUE)

-----------------------------------------------------------------------------
GoTo(s)    == stage' = s /\ UNCHANGED <<given, now, limit, closing, code, told>>
EndWith(c) == stage' = "answer" /\ code' = c /\ UNCHANGED <<given, now, limit, closing, told>>

(* runCheck: what discovery left of the budget bounds the agent's timeout.
   The last tick cannot be halved and is left to BudgetEnds. *)
Discovered ==
    /\ stage = "discovery" /\ told = "waiting" /\ Budget - now > 1
    /\ limit' = now + NormalizeTimeout(ClampTimeout(user, Budget - now))
    /\ stage' = "dial"
    /\ UNCHANGED <<given, now, closing, code, told>>

(* Mutant of Reached: the login gets the whole timeout again. *)
ReachedAnew ==
    /\ stage = "dial"
    /\ limit' = now + NormalizeTimeout(ClampTimeout(user, Budget - now)) + Second
    /\ stage' = "connect"
    /\ UNCHANGED <<given, now, closing, code, told>>

(* resolveTarget and connect reach an address; its connection is closed and
   the prober dials its own, under the deadline that was set before. *)
Reached == stage = "dial" /\ GoTo("connect")

(* No address is reached: no login is tried. *)
Unreachable == stage = "dial" /\ EndWith("unreachable")

(* pgconn's dial, through the guard. *)
Connected == stage = "connect" /\ GoTo(IF tls THEN "tls" ELSE "login")

(* A refusal by the network, or by the guard, which reports no denial here. *)
ConnectFails == stage = "connect" /\ EndWith(Classify(Error(FALSE, "none", FALSE)))

(* Without a fallback, whichever stage of pgconn the failure shows in. *)
TlsFails == stage = "tls" /\ server.tls # "good" /\ EndWith(Classify(Error(TRUE, "none", FALSE)))

TlsDone == stage = "tls" /\ server.tls = "good" /\ GoTo("login")

LoginFails == stage = "login" /\ server.login # "accept" /\ EndWith(Classify(LoginError))

LoggedIn == stage = "login" /\ server.login = "accept" /\ GoTo("query")

(* SELECT 1; then the deferred close, under a context of its own. *)
CloseAfter(c) ==
    /\ stage' = "close" /\ code' = c
    /\ closing' = now + CloseTimeout
    /\ UNCHANGED <<given, now, limit, told>>

Queried == stage = "query" /\ CloseAfter(IF server.query = "good" THEN "ok" ELSE "query_failed")

(* The timeout ends the agent's contexts, or the end of its request does. *)
Expired == now >= limit \/ told # "waiting"

(* Mutant of ContextEnds: the query is not run under the deadline. *)
ContextEndsNotQuery ==
    /\ Expired
    /\ \/ stage = "dial" /\ EndWith("unreachable")
       \/ stage \in Underway \ {"query"} /\ EndWith(Classify(Error(FALSE, "none", FALSE)))

ContextEnds ==
    /\ Expired
    /\ \/ stage = "dial" /\ EndWith("unreachable")
       \/ stage \in Underway \ {"query"} /\ EndWith(Classify(Error(FALSE, "none", FALSE)))
       \/ stage = "query" /\ CloseAfter("query_failed")

(* The server closes at once or lets the close context end. *)
Closed == stage = "close" /\ GoTo("answer")

-----------------------------------------------------------------------------
(* The answer is of use to a UI that still waits. *)
Answer ==
    /\ stage = "answer"
    /\ stage' = "over"
    /\ told' = IF told = "waiting" THEN "result" ELSE told
    /\ UNCHANGED <<given, now, limit, closing, code>>

(* The budget ends: a transport error in place of the node's result, or 504
   when discovery has used it up. *)
BudgetEnds ==
    /\ told = "waiting" /\ now >= Budget
    /\ told' = IF stage = "discovery" THEN "late" ELSE "transport"
    /\ UNCHANGED <<given, now, stage, limit, closing, code>>

ClientGone ==
    /\ told = "waiting"
    /\ told' = "gone"
    /\ UNCHANGED <<given, now, stage, limit, closing, code>>

(* Mutant of Urgent: the close is not bounded. *)
UrgentButClose ==
    \/ stage \in {"dial"} \cup Underway /\ Expired
    \/ stage = "answer"
    \/ told = "waiting" /\ now >= Budget

(* What takes no time: the end of a context, the way of an answer. *)
Urgent ==
    \/ stage \in {"dial"} \cup Underway /\ Expired
    \/ stage = "close" /\ now >= closing
    \/ stage = "answer"
    \/ told = "waiting" /\ now >= Budget

Tick ==
    /\ ~Urgent /\ stage # "over"
    /\ stage = "discovery" => told = "waiting"
    /\ now' = now + 1
    /\ UNCHANGED <<given, stage, limit, closing, code, told>>

Done ==
    /\ stage = "over" \/ (stage = "discovery" /\ told # "waiting")
    /\ UNCHANGED vars

Next ==
    \/ Discovered \/ Reached \/ Unreachable
    \/ Connected \/ ConnectFails \/ TlsDone \/ TlsFails \/ LoggedIn \/ LoginFails
    \/ Queried \/ ContextEnds \/ Closed
    \/ Answer \/ BudgetEnds \/ ClientGone
    \/ Tick \/ Done

Spec == Init /\ [][Next]_vars

(* Nothing is assumed of server and network: time passes, timers fire, and
   what they end returns. *)
Timers == ContextEnds \/ (now >= closing /\ Closed) \/ Answer \/ BudgetEnds

FairSpec == Spec /\ WF_vars(Timers) /\ WF_vars(Tick)

-----------------------------------------------------------------------------
Codes == {"none", "unreachable", "ok", "query_failed", "tls_error", "auth_rejected",
          "unsupported_auth", "protocol_error"}

(* The clock's bound is a fact about the code: an agent is done with a check
   a CloseTimeout after the UI's budget at the latest. *)
TypeOK ==
    /\ user \in UserTimeouts /\ tls \in BOOLEAN /\ names \in BOOLEAN /\ server \in Servers
    /\ stage \in {"discovery", "dial", "close", "answer", "over"} \cup Underway
    /\ now \in 0..(Budget + CloseTimeout)
    /\ limit \in 0..Budget /\ closing \in 0..(Budget + CloseTimeout)
    /\ code \in Codes
    /\ told \in {"waiting", "result", "transport", "late", "gone"}

(* A transport error can take the place of a node's own result only if that
   node has a session to close: whatever goes wrong before -- an unreachable
   target, a silent server, a rejected password -- is told to the user in
   time.  (clampTimeout's "so the per-agent timeout can't outlast the ctx
   deadline"; closeTimeout is not part of that timeout.) *)
LostOnlyToClose ==
    told = "transport" =>
        /\ stage \in {"close", "answer", "over"}
        /\ code \in {"ok", "query_failed"}
        /\ limit + CloseTimeout >= Budget

(* The outcome names its cause, and success is not had by giving up TLS: the
   codes of AuthResult against what the server did.  A name that contains a
   mechanism's may pass for one, see the README. *)
CodeNamesTheCause ==
    /\ code = "ok" =>
          (tls => server.tls = "good") /\ server.login = "accept" /\ server.query = "good"
    /\ code = "auth_rejected" => server.login \in {"reject", "reject_gss"}
    /\ code = "tls_error" => tls /\ server.tls # "good"
    /\ code = "unsupported_auth" => server.login = "gss" \/ names
    /\ code = "query_failed" => server.login = "accept"

(* Every check ends, for the user and for the agent, wherever a server falls
   silent: every stage of Connector.Probe runs under a deadline, the close
   under its own, and the UI's wait under the budget. *)
Ends == <>[](told # "waiting" /\ stage \in {"discovery", "over"})
=============================================================================
