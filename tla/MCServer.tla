------------------------------- MODULE MCServer -------------------------------
(***************************************************************************)
(* What runs under fairness, for TLC: the stdio session over what the pool *)
(* promises, the pool itself, and the calls of the registry lock.  A       *)
(* behaviour is of one of them.                                            *)
(***************************************************************************)
EXTENDS RegistryLock

CONSTANTS Size, MaxJobs, Ids, MaxPending, Keys, AffinityLimit, PoolJobs

VARIABLES
    part,
    phase, write, dropped, outcome, open, id, inFlight, cancelled, value, reply, ledger, granted, input,
    job, slots, queue, affinity, pins, threads, spawned, pumpScheduled, closed

Session == INSTANCE McpSession
Pool == INSTANCE ToolPool WITH MaxJobs <- PoolJobs

sessionVars == <<phase, write, dropped, outcome, open, id, inFlight, cancelled, value, reply, ledger, granted, input>>
poolVars == <<job, slots, queue, affinity, pins, threads, spawned, pumpScheduled, closed>>
all == <<part, vars, sessionVars, poolVars>>

(* The others stay as they begin. *)
ServerInit ==
    /\ part \in {"session", "pool", "lock"}
    /\ Init /\ Session!Init /\ Pool!Init
    /\ (part # "lock" => prompt) /\ (part # "session" => granted)

ServerNext ==
    \/ part = "session" /\ Session!Next /\ UNCHANGED <<part, vars, poolVars>>
    \/ part = "pool" /\ Pool!Next /\ UNCHANGED <<part, vars, sessionVars>>
    \/ part = "lock" /\ Next /\ UNCHANGED <<part, sessionVars, poolVars>>

ServerSpec == ServerInit /\ [][ServerNext]_all /\ Fairness /\ Session!Fairness /\ Pool!Fairness

-----------------------------------------------------------------------------
(* A call is in the table until it is answered, a cancelled one is not     *)
(* served, and no answer without a reason, as stated in McpSession.        *)
CallsAreAnswered == Session!CallsAreAnswered

(* A packet is written and recorded only under a grant, as stated in       *)
(* McpSession.                                                             *)
NoPacketWithoutGrant == Session!NoPacketWithoutGrant

(* The drain at end of input ends, and every job submitted to the pool     *)
(* settles, as stated in McpSession and in ToolPool.                       *)
DrainEnds == Session!DrainEnds
EverySubmittedSettles == Pool!EverySubmittedSettles
=============================================================================
