---------------------------- MODULE MCMcpSession ----------------------------
(* The session, for TLC. *)
EXTENDS McpSession, TLC

(* The ids of requests are interchangeable; jobs are not: the contract     *)
(* orders them by number.                                                  *)
IdSymmetry == Permutations(Ids)
=============================================================================
