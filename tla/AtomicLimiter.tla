--------------------------- MODULE AtomicLimiter ----------------------------
(***************************************************************************)
(* What internal/ratelimit promises: a check takes a token from all of its *)
(* buckets at once or from none of them, and buckets refill with time.     *)
(***************************************************************************)
EXTENDS Integers

CONSTANTS Request,    \* the sets of buckets a check can need
          Bucket,
          Full,       \* Full[b]: the credit of a full bucket
          Cost        \* Cost[b]: the credit of one token

VARIABLE level        \* level[b]: the credit of bucket b now

Init == level = [b \in Bucket |-> Full[b]]

Refill == level' = [b \in Bucket |-> IF level[b] < Full[b] THEN level[b] + 1 ELSE level[b]]

Admit(R) ==
    /\ \A b \in R : level[b] >= Cost[b]
    /\ level' = [b \in Bucket |-> IF b \in R THEN level[b] - Cost[b] ELSE level[b]]

Next == Refill \/ \E R \in Request : Admit(R)

Spec == Init /\ [][Next]_level
=============================================================================
