---------------------------- MODULE TokenBucket -----------------------------
(***************************************************************************)
(* One bucket of golang.org/x/time/rate as internal/ratelimit uses it:     *)
(* ReserveN(t, 1) and CancelAt(t).  The library is external.               *)
(*                                                                         *)
(* Credit is an integer: a token is worth cost ticks (1/Rate), so a tick   *)
(* earns one unit, a full bucket holds cap = Burst * cost units, and a     *)
(* debt of k units is paid off in k ticks.                                 *)
(***************************************************************************)
EXTENDS Integers

Least(x, y) == IF x <= y THEN x ELSE y
Most(x, y)  == IF x >= y THEN x ELSE y

NewBucket(cap) == [credit |-> cap, last |-> 0, lastEvent |-> 0]

(* The credit a bucket would hold at t; time never runs backwards in it. *)
Level(L, cap, t) == Least(cap, L.credit + Most(0, t - L.last))

(* ReserveN(t, 1): the token is taken even when it must be waited for; the
   reservation may act at lastEvent. *)
ReserveToken(L, cap, cost, t) ==
    LET c == Level(L, cap, t) - cost
    IN  [credit |-> c, last |-> t, lastEvent |-> t + Most(0, -c)]

(* CancelAt(t) of the reservation acting at act: what later reservations
   already counted on is not given back. *)
CancelToken(L, cap, cost, act, t) ==
    LET restore == cost - (L.lastEvent - act)
    IN  IF act < t \/ restore <= 0
        THEN L
        ELSE [credit    |-> Least(cap, Level(L, cap, t) + restore),
              last      |-> t,
              lastEvent |-> IF act = L.lastEvent /\ act - cost >= t
                            THEN act - cost ELSE L.lastEvent]
=============================================================================
