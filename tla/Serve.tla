------------------------------- MODULE Serve --------------------------------
(***************************************************************************)
(* The life of a portreach process around its HTTP server                  *)
(* (serveWithShutdown): it serves until the listener fails or a signal     *)
(* comes, drains the requests in flight within a grace period and exits.   *)
(* net/http is external: Shutdown refuses what is new and waits for what is*)
(* active.  What a request does is left to the module that extends this one*)
(***************************************************************************)
EXTENDS Naturals

CONSTANTS
    Request,   \* requests that can be active at once
    Grace      \* ticks of the grace period

ASSUME GraceAssumption == Grace \in Nat \ {0}

VARIABLES
    srv,       \* "up", "failed" (errCh holds an error), "draining", or the exit status
    grace,     \* what is left of the grace period
    active     \* requests accepted and not answered

process == <<srv, grace, active>>

Exited == {"ok", "error"}

Fresh == srv = "up" /\ grace = Grace /\ active = {}

Accept(r) ==
    /\ srv = "up" /\ r \notin active
    /\ active' = active \cup {r}
    /\ UNCHANGED <<srv, grace>>

(* Mutant of Finish: the connection never becomes idle again. *)
FinishLeaks(r) == r \in active /\ UNCHANGED process

Finish(r) ==
    /\ r \in active
    /\ active' = active \ {r}
    /\ UNCHANGED <<srv, grace>>

ListenFails ==
    /\ srv = "up"
    /\ srv' = "failed"
    /\ UNCHANGED <<grace, active>>

(* A signal comes and the select takes its branch, even if errCh is ready. *)
Drain ==
    /\ srv \in {"up", "failed"}
    /\ srv' = "draining"
    /\ UNCHANGED <<grace, active>>

(* What is still active is cut off. *)
Leave(status) ==
    /\ srv' = status
    /\ grace' = Grace
    /\ active' = {}

ReportError == srv = "failed" /\ Leave("error")

Drained == srv = "draining" /\ active = {} /\ Leave("ok")

(* Mutant of GraceEnds: the error of Shutdown is dropped. *)
GraceEndsWell == srv = "draining" /\ grace = 0 /\ Leave("ok")

(* Shutdown gives up.  It polls, so the last request may just be over. *)
GraceEnds == srv = "draining" /\ grace = 0 /\ Leave("error")

(* The process is started again. *)
Restart ==
    /\ srv \in Exited
    /\ srv' = "up"
    /\ UNCHANGED <<grace, active>>

(* Started with a configuration that is refused, it serves nothing. *)
FailsToStart ==
    /\ srv \in Exited
    /\ srv' = "error"
    /\ UNCHANGED <<grace, active>>

GraceTick ==
    /\ srv = "draining" => grace > 0
    /\ grace' = IF srv = "draining" THEN grace - 1 ELSE grace
    /\ UNCHANGED <<srv, active>>

Exits == ReportError \/ Drained \/ GraceEnds

ProcessType ==
    /\ srv \in {"up", "failed", "draining"} \cup Exited
    /\ grace \in 0..Grace
    /\ active \subseteq Request

(* The exit status tells what happened to the clients: the process never
   exits with status 0 while a request it accepted is unanswered. *)
ExitTellsTheCut == [][srv' = "ok" /\ srv # "ok" => active = {}]_process
=============================================================================
