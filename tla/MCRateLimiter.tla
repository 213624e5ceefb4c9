--------------------------- MODULE MCRateLimiter ----------------------------
(***************************************************************************)
(* Instances of RateLimiter: two callers with a user bucket each who check *)
(* the same target, and a postgres caller who passes two limiters.         *)
(***************************************************************************)
EXTENDS RateLimiter

CONSTANTS p1, p2,                \* callers
          u1, u2, target, glob,  \* buckets of the general limiter
          pgTarget               \* the target bucket of the postgres limiter

Kinds == [b \in Bucket |-> CASE b \in {u1, u2} -> "user"
                             [] b \in {target, pgTarget} -> "target"
                             [] OTHER -> "global"]

(* All three scopes. *)
ThreeScopes == [p \in Call |-> <<(<<IF p = p1 THEN u1 ELSE u2, target, glob>>)>>]

(* Only user and global are enabled. *)
TwoScopes == [p \in Call |-> <<(<<IF p = p1 THEN u1 ELSE u2, glob>>)>>]

(* A postgres check on an agent: the general limiter, then the other one. *)
TwoGates == [p \in Call |-> <<(<<target, glob>>), (<<pgTarget>>)>>]

SlowKeys    == [b \in Bucket |-> IF b \in {u1, u2, pgTarget} THEN 3 ELSE 2]
OneToken    == [b \in Bucket |-> 1]
GlobalBurst == [b \in Bucket |-> IF b = glob THEN 2 ELSE 1]
=============================================================================
