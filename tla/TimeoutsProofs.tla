--------------------------- MODULE TimeoutsProofs ---------------------------
(***************************************************************************)
(* The timeout arithmetic between UI and agent, for every timeout a user   *)
(* may ask for and every rest of the budget.                               *)
(***************************************************************************)
EXTENDS Timeouts, TLAPS

(* clampTimeout always finds a positive timeout short of the budget, down to
   a budget of two ticks: subtracting the margin where it fits, halving where
   it does not, and never reaching the floor. *)
LEMMA ClampUnderBudget ==
  ASSUME NEW u \in Nat, NEW b \in Nat, b > 1
  PROVE  ClampTimeout(u, b) \in 1..(b - 1)
<1> DEFINE d    == IF u > 0 THEN u ELSE DefaultTimeout
           max  == IF b - Second < Second THEN b \div 2 ELSE b - Second
           kept == IF d > max THEN max ELSE d
<1>1. d \in Nat \ {0}
  BY TimeoutAssumption
<1>2. b \div 2 \in 1..(b - 1)
  OBVIOUS
<1>3. max \in 1..(b - 1)
  BY <1>2, TimeoutAssumption
<1>4. kept \in 1..(b - 1)
  BY <1>1, <1>3
<1>5. ClampTimeout(u, b) = IF kept <= 0 THEN MinClampTimeout ELSE kept
  BY DEF ClampTimeout
<1> HIDE DEF kept
<1> QED
  BY <1>4, <1>5

(* The agent only shortens the timeout it receives, and keeps it positive. *)
LEMMA NormalizeShortens ==
  ASSUME NEW t \in Nat \ {0}
  PROVE  NormalizeTimeout(t) \in 1..t
BY TimeoutAssumption DEF NormalizeTimeout
=============================================================================
