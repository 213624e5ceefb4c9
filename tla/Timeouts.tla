------------------------------ MODULE Timeouts ------------------------------
(***************************************************************************)
(* The timeout arithmetic between UI and agent, on integer ticks: the UI   *)
(* clamps the user's timeout under what is left of its budget              *)
(* (clampTimeout), the agent normalises what it receives (checkapi and     *)
(* probe.Validate).  0 stands for an absent, unparsable or non-positive    *)
(* timeout, which durationString and clampTimeout do not tell apart.       *)
(***************************************************************************)
EXTENDS Integers

CONSTANTS
    Second,           \* ticks in a second
    DefaultTimeout,   \* probe.DefaultTimeout
    MaxTimeout,       \* probe.MaxTimeout
    MinClampTimeout   \* the floor of clampTimeout

ASSUME TimeoutAssumption ==
    /\ {Second, DefaultTimeout, MaxTimeout, MinClampTimeout} \subseteq Nat \ {0}
    /\ DefaultTimeout <= MaxTimeout

ClampTimeout(user, budget) ==
    LET d    == IF user > 0 THEN user ELSE DefaultTimeout
        max  == IF budget - Second < Second THEN budget \div 2 ELSE budget - Second
        kept == IF d > max THEN max ELSE d
    IN  IF kept <= 0 THEN MinClampTimeout ELSE kept

NormalizeTimeout(t) ==
    IF t <= 0 THEN DefaultTimeout ELSE IF t > MaxTimeout THEN MaxTimeout ELSE t
=============================================================================
