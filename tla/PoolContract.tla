---------------------------- MODULE PoolContract ----------------------------
(***************************************************************************)
(* What the tool pool promises its caller, the MCP session, and no more:   *)
(* the life of each job and which jobs may run side by side.  No slots,    *)
(* workers, affinity, threads or timers.  The scheduling rules are those   *)
(* of the header of src/mcp-pool.mjs; ToolPool implements this module.     *)
(***************************************************************************)
EXTENDS Integers, FiniteSets

CONSTANTS Size, MaxJobs

VARIABLES
    phase,      \* per job: "new", "queued", "running" or "done"
    write,      \* per job: it is exclusive
    dropped,    \* jobs cancelled after they started as a write
    outcome,    \* per job: what its caller was told, once
    open        \* close() was not called

vars == <<phase, write, dropped, outcome, open>>

Jobs == 1 .. MaxJobs
In(p) == {j \in Jobs : phase[j] = p}

(* The caller is told the first outcome only. *)
Told(j, o) == [outcome EXCEPT ![j] = IF @ = "unsettled" THEN o ELSE @]

(***************************************************************************)
(* Which waiting jobs S may start when the phases are ph: they fit in the  *)
(* pool, a write runs alone, and neither side of a write overtakes.        *)
(***************************************************************************)
MayStart(S, ph, w) ==
    LET running == S \cup {j \in Jobs : ph[j] = "running"}
    IN /\ Cardinality(running) <= Size
       /\ \A j \in S : \A i \in running : w[j] \/ w[i] => i = j
       /\ \A j \in S, i \in Jobs : i < j /\ (w[i] \/ w[j]) => ph[i] = "done"

(* Whatever frees or fills the queue may start waiting jobs in one go. *)
StartSome(ph, w) ==
    \E S \in SUBSET {j \in Jobs : ph[j] = "queued"} :
        /\ S # {} => open /\ open' /\ MayStart(S, ph, w)
        /\ phase' = [j \in Jobs |-> IF j \in S THEN "running" ELSE ph[j]]

Init ==
    /\ phase = [j \in Jobs |-> "new"]
    /\ write = [j \in Jobs |-> FALSE]
    /\ dropped = {}
    /\ outcome = [j \in Jobs |-> "unsettled"]
    /\ open = TRUE

Submit(j, w) ==
    /\ phase[j] = "new"
    /\ \A i \in Jobs : i < j => phase[i] # "new"
    /\ write' = [write EXCEPT ![j] = w]
    /\ open' = open
    /\ IF open
       THEN StartSome([phase EXCEPT ![j] = "queued"], write') /\ outcome' = outcome
       ELSE phase' = [phase EXCEPT ![j] = "done"] /\ outcome' = Told(j, "cancelled")
    /\ UNCHANGED dropped

(* A waiting job is withdrawn. *)
Withdraw(j) ==
    /\ phase[j] = "queued"
    /\ phase' = [phase EXCEPT ![j] = "done"]
    /\ outcome' = Told(j, "cancelled")
    /\ UNCHANGED <<write, dropped, open>>

(* A running write that its caller cancels runs on. *)
Drop(j) ==
    /\ phase[j] = "running"
    /\ write[j]
    /\ dropped' = dropped \cup {j}
    /\ UNCHANGED <<phase, write, outcome, open>>

(* The caller of a running write stops waiting; the write runs on. *)
Expire(j) ==
    /\ phase[j] = "running"
    /\ write[j]
    /\ outcome' = Told(j, "timeout")
    /\ UNCHANGED <<phase, write, dropped, open>>

(* A running job ends.  Only a read-only job can be cancelled or time out  *)
(* for good, and a cancelled write reports 'dropped', never 'ok'.          *)
End(j, o) ==
    /\ phase[j] = "running"
    /\ o \in {"cancelled", "timeout"} => ~write[j]
    /\ o = "ok" => j \notin dropped
    /\ o = "dropped" => j \in dropped
    /\ outcome' = Told(j, o)
    /\ open' = open
    /\ StartSome([phase EXCEPT ![j] = "done"], write)
    /\ UNCHANGED <<write, dropped>>

StartLater == UNCHANGED <<write, dropped, outcome, open>> /\ StartSome(phase, write)

Close ==
    /\ open
    /\ open' = FALSE
    /\ phase' = [j \in Jobs |-> IF phase[j] = "new" THEN "new" ELSE "done"]
    /\ outcome' = [j \in Jobs |->
           IF phase[j] \in {"queued", "running"} THEN Told(j, "cancelled")[j] ELSE outcome[j]]
    /\ UNCHANGED <<write, dropped>>

Next ==
    \/ \E j \in Jobs :
        \/ \E w \in BOOLEAN : Submit(j, w)
        \/ Withdraw(j) \/ Drop(j) \/ Expire(j)
        \/ \E o \in {"ok", "dropped", "cancelled", "timeout", "crashed"} : End(j, o)
    \/ StartLater
    \/ Close

Spec == Init /\ [][Next]_vars

(* Every variable has its type. *)
TypeOK ==
    /\ phase \in [Jobs -> {"new", "queued", "running", "done"}]
    /\ write \in [Jobs -> BOOLEAN]
    /\ dropped \subseteq Jobs
    /\ outcome \in [Jobs -> {"unsettled", "ok", "dropped", "cancelled", "timeout", "crashed"}]
    /\ open \in BOOLEAN
=============================================================================
