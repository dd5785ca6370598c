----------------------------- MODULE MCToolPool -----------------------------
(***************************************************************************)
(* The pool of the stdio server, for TLC, and the refinement mapping to    *)
(* what the pool promises.                                                 *)
(***************************************************************************)
EXTENDS ToolPool

Contract == INSTANCE PoolContract WITH
    phase <- [j \in Jobs |-> job[j].state],
    write <- [j \in Jobs |-> job[j].exclusive],
    dropped <- {j \in Jobs : job[j].dropped},
    outcome <- [j \in Jobs |-> job[j].outcome],
    open <- ~closed

(* Every behaviour of the pool is one that its header promises. *)
KeepsContract == Contract!Spec
=============================================================================
