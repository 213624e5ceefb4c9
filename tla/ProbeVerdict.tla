---------------------------- MODULE ProbeVerdict ----------------------------
(***************************************************************************)
(* What a runner of internal/probe promises its caller, with the race left *)
(* out: connections are opened and closed while the verdict is pending;    *)
(* the verdict is given once, with exactly one connection open when the    *)
(* target is reachable and none otherwise; that last connection is then    *)
(* released and nothing is ever opened again.                              *)
(***************************************************************************)
CONSTANT Conns        \* identities a connection can have

VARIABLES live,       \* the connections that are open
          verdict     \* "pending", then "ok", "failed" or "denied" for good

vars == <<live, verdict>>

Verdicts == {"ok", "failed", "denied"}

Init == live = {} /\ verdict = "pending"

Open(c) ==
    /\ verdict = "pending"
    /\ c \notin live
    /\ live' = live \cup {c}
    /\ UNCHANGED verdict

Drop(c) ==
    /\ verdict = "pending"
    /\ c \in live
    /\ live' = live \ {c}
    /\ UNCHANGED verdict

(* The answer, and what must be open when it is given. *)
Answer(v) ==
    /\ verdict = "pending"
    /\ IF v = "ok" THEN \E c \in Conns : live = {c} ELSE live = {}
    /\ verdict' = v
    /\ UNCHANGED live

Release ==
    /\ verdict = "ok"
    /\ live # {}
    /\ live' = {}
    /\ UNCHANGED verdict

Next ==
    \/ \E c \in Conns : Open(c) \/ Drop(c)
    \/ \E v \in Verdicts : Answer(v)
    \/ Release

Spec == Init /\ [][Next]_vars
=============================================================================
