---------------------------- MODULE MCAgentCheck ----------------------------
(***************************************************************************)
(* Instances of AgentCheck: a tcp and a postgres request for one name.     *)
(* Two addresses, one of them guarded: each is allowed, denied, both or    *)
(* neither by some pair of lists, and there is the pair of empty ones.     *)
(***************************************************************************)
EXTENDS AgentCheck, TLC

CONSTANTS a, m, x,     \* addresses: allowed, metadata, external
          r1, r2, svc

MixedKinds == r1 :> "tcp" @@ r2 :> "postgres"
OneName    == r1 :> svc @@ r2 :> svc

Lists     == [allow : {{}, {{a}}, {{a}, {a, m}}}, deny : {{}, {{a}}, {{m}}}]
AllowList == {[allow |-> {{a, m}}, deny |-> {}]}
=============================================================================
