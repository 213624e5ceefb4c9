----------------------------- MODULE MCDialRace -----------------------------
(***************************************************************************)
(* Instances of DialRace.  The network answers of every address are chosen *)
(* in the initial state, so one run covers all of them.                    *)
(***************************************************************************)
EXTENDS DialRace

CONSTANTS a, b, c      \* addresses

(* A list of vetted IP literals, as an agent's policy pins them: one is
   repeated and, in the guarded runs, c is a denied address. *)
PinnedHosts == <<"a", "b", "a", "c">>
PinnedAddrs == [h \in {"a", "b", "c"} |-> {CASE h = "a" -> a [] h = "b" -> b [] h = "c" -> c}]

(* A host name dialed as it is: its candidates meet in one DialContext. *)
NamedHosts == <<"svc">>
NamedAddrs == [h \in {"svc"} |-> {a, b, c}]
=============================================================================
