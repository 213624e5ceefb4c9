------------------------------ MODULE MCPgCheck -----------------------------
(***************************************************************************)
(* An instance of PgCheck in ticks of half a second: a budget of 4s, the   *)
(* probe's defaults, a close of up to 2s.                                  *)
(***************************************************************************)
EXTENDS PgCheck
=============================================================================
