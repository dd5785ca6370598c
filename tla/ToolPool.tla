------------------------------ MODULE ToolPool ------------------------------
(***************************************************************************)
(* The bounded worker-thread pool behind the MCP stdio server              *)
(* (src/mcp-pool.mjs, createToolPool).  The pool itself is single-threaded *)
(* JavaScript: every handler below runs to completion, so a handler is one *)
(* action.  The worker threads run beside it: what they send (a reply, an  *)
(* error, their exit) is delivered later, in any order with respect to     *)
(* submissions, cancellations, timers and the close of the pool.           *)
(*                                                                         *)
(* A job is its submission number (nextJobId).  The queue is a JavaScript  *)
(* Set, which iterates in insertion order, and jobs are inserted in the    *)
(* order of their ids: it is a set of ids here, traversed upwards.         *)
(***************************************************************************)
EXTENDS Integers, FiniteSets

CONSTANTS
    Size,           \* number of slots (the option size)
    MaxJobs,        \* bound: how many jobs are ever submitted
    Keys,           \* affinity keys
    AffinityLimit   \* AFFINITY_LIMIT, the most keys the affinity map keeps

ASSUME SizeAssumption == Size \in Nat \ {0}
ASSUME MaxJobsAssumption == MaxJobs \in Nat
ASSUME KeysAssumption == IsFiniteSet(Keys)
ASSUME AffinityLimitAssumption == AffinityLimit \in Nat \ {0}

Jobs == 1 .. MaxJobs
Slots == 1 .. Size
None == 0           \* null: no job, no worker, no slot

JobStates == {"new", "queued", "running", "done"}
Outcomes == {"ok", "cancelled", "dropped", "timeout", "crashed"}
Unsettled == "unsettled"

VARIABLES
    job,            \* job records by id; "new" when not submitted yet
    slots,          \* per slot: its current worker and its current job
    queue,          \* jobs waiting for a slot
    affinity,       \* per key: the slot it is pinned to, and its age in the map
    pins,           \* how many pins were ever made: the age of the next one
    threads,        \* worker threads whose exit has not been delivered yet
    spawned,        \* how many workers were started; the last one's number
    pumpScheduled,  \* a setImmediate(pump) is pending
    closed          \* close() was called

vars == <<job, slots, queue, affinity, pins, threads, spawned, pumpScheduled, closed>>

(***************************************************************************)
(* The handlers call one another, so each is an operator from a pool state *)
(* (a record of all variables) to a pool state.                            *)
(***************************************************************************)
Pool == [job |-> job, slots |-> slots, queue |-> queue, affinity |-> affinity,
         pins |-> pins, threads |-> threads, spawned |-> spawned,
         pumpScheduled |-> pumpScheduled, closed |-> closed]

Become(p) ==
    /\ job' = p.job
    /\ slots' = p.slots
    /\ queue' = p.queue
    /\ affinity' = p.affinity
    /\ pins' = p.pins
    /\ threads' = p.threads
    /\ spawned' = p.spawned
    /\ pumpScheduled' = p.pumpScheduled
    /\ closed' = p.closed

Busy(p) == {s \in Slots : p.slots[s].job # None}
ExclusiveRuns(p) == \E s \in Busy(p) : p.job[p.slots[s].job].exclusive
Least(S) == CHOOSE x \in S : \A y \in S : x <= y

-----------------------------------------------------------------------------
(* Operators named <definition>_<Mistake> are plausible mistakes in the    *)
(* code.  Nothing uses them: PROJECT.json pairs each with the property     *)
(* that finds it.                                                          *)

(* settle: only the first outcome of a job is kept. *)
Settle(p, j, outcome) ==
    IF p.job[j].outcome = Unsettled
    THEN [p EXCEPT !.job[j].outcome = outcome]
    ELSE p

SchedulePump_Lost(p) == p

SchedulePump(p) == [p EXCEPT !.pumpScheduled = TRUE]

(***************************************************************************)
(* slotFor.  A pinned key runs on its slot or waits for it; any other key  *)
(* takes the first free slot that has a worker, else the first free slot,  *)
(* and is pinned there.  Past AffinityLimit the oldest pin is forgotten.   *)
(***************************************************************************)
Unpinned == [slot |-> None, since |-> 0]
Pinned(p) == {k \in Keys : p.affinity[k].slot # None}

SlotFor(p, k) ==
    LET pin == p.affinity[k].slot
        free == Slots \ Busy(p)
        warm == {s \in free : p.slots[s].worker # None}
    IN IF pin # None THEN IF pin \in free THEN pin ELSE None
       ELSE IF warm # {} THEN Least(warm)
       ELSE IF free # {} THEN Least(free)
       ELSE None

Pin(p, k, s) ==
    LET aged == [p.affinity EXCEPT ![k] = [slot |-> s, since |-> p.pins + 1]]
        pinned == Pinned(p) \cup {k}
        oldest == CHOOSE o \in pinned : \A i \in pinned : aged[o].since <= aged[i].since
    IN IF p.affinity[k].slot # None THEN p
       ELSE [p EXCEPT !.pins = @ + 1,
                      !.affinity = IF Cardinality(pinned) > AffinityLimit
                                   THEN [aged EXCEPT ![oldest] = Unpinned]
                                   ELSE aged]

(* spawn: workers are started lazily, by the job that needs one. *)
Spawn(p, s) ==
    IF p.slots[s].worker # None THEN p
    ELSE [p EXCEPT !.spawned = @ + 1,
                   !.slots[s].worker = p.spawned + 1,
                   !.threads = @ \cup {[id |-> p.spawned + 1, slot |-> s, job |-> None]}]

(* start: the job takes the slot, its timer is armed and it is posted to   *)
(* the slot's worker, which has answered everything posted to it before.   *)
Post(p, s, j) ==
    {IF t.id = p.slots[s].worker THEN [t EXCEPT !.job = j] ELSE t : t \in p.threads}

Start(p, s, j) ==
    LET q == Spawn(Pin(p, p.job[j].key, s), s)
    IN [q EXCEPT !.queue = @ \ {j},
                 !.slots[s].job = j,
                 !.job[j] = [@ EXCEPT !.state = "running", !.timer = TRUE],
                 !.threads = Post(q, s, j)]

(* The write does not wait for running jobs. *)
Consider_WriteJoins(pass, j) ==
    LET p == pass.pool
        s == SlotFor(p, p.job[j].key)
    IN IF pass.halted \/ j \notin p.queue THEN pass
       ELSE IF Busy(p) = Slots THEN [pass EXCEPT !.halted = TRUE]
       ELSE IF s = None THEN pass
       ELSE [pool |-> Start(p, s, j), halted |-> p.job[j].exclusive]

(***************************************************************************)
(* pump: one pass over the queue.  Consider is its loop body, with an      *)
(* early return as "halted".  An exclusive job only starts when no slot is *)
(* busy, and slotFor never fails then, so the fallback `|| slots[0]` of    *)
(* the code is dead.                                                       *)
(***************************************************************************)
Consider(pass, j) ==
    LET p == pass.pool
        s == SlotFor(p, p.job[j].key)
        exclusive == p.job[j].exclusive
    IN IF pass.halted \/ j \notin p.queue THEN pass
       ELSE IF Busy(p) = Slots \/ (exclusive /\ Busy(p) # {})
         THEN [pass EXCEPT !.halted = TRUE]
       ELSE IF s = None THEN pass
       ELSE [pool |-> Start(p, s, j), halted |-> exclusive]

Pump(p) ==
    LET pass[n \in 0 .. MaxJobs] ==
            IF n = 0 THEN [pool |-> p, halted |-> p.closed \/ ExclusiveRuns(p)]
                     ELSE Consider(pass[n - 1], n)
    IN pass[MaxJobs].pool

-----------------------------------------------------------------------------
Release_KeepsTimer(p, s, outcome) ==
    LET j == p.slots[s].job
    IN Settle([p EXCEPT !.slots[s].job = None, !.job[j].state = "done"], j, outcome)

(* finish: the slot is free again, and the job settles. *)
Release(p, s, outcome) ==
    LET j == p.slots[s].job
    IN Settle([p EXCEPT !.slots[s].job = None,
                        !.job[j] = [@ EXCEPT !.state = "done", !.timer = FALSE]], j, outcome)

Finish_NoPump(p, s, outcome) == Release(p, s, outcome)

Finish(p, s, outcome) == Pump(Release(p, s, outcome))

(* recycle: the slot loses its worker, which is told to terminate (its     *)
(* exit comes later), and every pin to the slot; its job settles and the   *)
(* pump is left to the next turn of the event loop.                        *)
Recycle(p, s, outcome) ==
    LET q == [p EXCEPT !.slots[s].worker = None,
                       !.affinity = [k \in Keys |->
                           IF p.affinity[k].slot = s THEN Unpinned ELSE p.affinity[k]]]
    IN IF q.slots[s].job = None THEN q
       ELSE SchedulePump(Release(q, s, outcome))

-----------------------------------------------------------------------------
Init ==
    /\ job = [j \in Jobs |-> [key |-> None, exclusive |-> FALSE, state |-> "new",
                              dropped |-> FALSE, timer |-> FALSE, outcome |-> Unsettled]]
    /\ slots = [s \in Slots |-> [worker |-> None, job |-> None]]
    /\ queue = {}
    /\ affinity = [k \in Keys |-> Unpinned]
    /\ pins = 0
    /\ threads = {}
    /\ spawned = 0
    /\ pumpScheduled = FALSE
    /\ closed = FALSE

(* submit *)
Submit(j, k, exclusive) ==
    /\ job[j].state = "new"
    /\ \A i \in Jobs : i < j => job[i].state # "new"
    /\ LET call == [job[j] EXCEPT !.key = k, !.exclusive = exclusive]
       IN Become(IF closed
                 THEN [Pool EXCEPT !.job[j] = [call EXCEPT !.state = "done",
                                                           !.outcome = "cancelled"]]
                 ELSE Pump([Pool EXCEPT !.job[j] = [call EXCEPT !.state = "queued"],
                                        !.queue = @ \cup {j}]))

(* cancel, on a job that waits: it leaves the queue. *)
CancelQueued(j) ==
    /\ job[j].state = "queued"
    /\ Become(SchedulePump([Pool EXCEPT !.queue = @ \ {j},
                                        !.job[j] = [@ EXCEPT !.state = "done",
                                                             !.outcome = "cancelled"]]))

(* cancel, on a running write: it runs on, and its result will be dropped. *)
CancelExclusive(j) ==
    /\ job[j].state = "running"
    /\ job[j].exclusive
    /\ Become([Pool EXCEPT !.job[j].dropped = TRUE])

(* cancel, on a running read-only job: its worker is terminated. *)
CancelRunning(j) ==
    /\ job[j].state = "running"
    /\ ~job[j].exclusive
    /\ \E s \in Slots : slots[s].job = j /\ Become(Recycle(Pool, s, "cancelled"))

Cancel(j) == CancelQueued(j) \/ CancelExclusive(j) \/ CancelRunning(j)

(* The timer of a job fires: a read-only job is terminated with its        *)
(* worker, the caller of a write is answered and the write goes on.        *)
Timeout(j) ==
    /\ job[j].timer
    /\ IF job[j].exclusive
       THEN Become(Settle([Pool EXCEPT !.job[j].timer = FALSE], j, "timeout"))
       ELSE \E s \in Slots : slots[s].job = j /\ Become(Recycle(Pool, s, "timeout"))

-----------------------------------------------------------------------------
(* The reply of a worker thread is delivered.  It counts only if the slot  *)
(* still has that worker and still runs that job.                          *)
Answered(p, t) == [p EXCEPT !.threads = (@ \ {t}) \cup {[t EXCEPT !.job = None]}]

Message_AnyReply(t) ==
    /\ t.job # None
    /\ LET p == Answered(Pool, t)
       IN Become(IF slots[t.slot].job = None THEN p ELSE Finish(p, t.slot, "ok"))

Message_IgnoresDrop(t) ==
    /\ t.job # None
    /\ LET p == Answered(Pool, t)
           current == slots[t.slot].worker = t.id /\ slots[t.slot].job = t.job
       IN Become(IF current THEN Finish(p, t.slot, "ok") ELSE p)

Message(t) ==
    /\ t.job # None
    /\ LET p == Answered(Pool, t)
           current == slots[t.slot].worker = t.id /\ slots[t.slot].job = t.job
       IN Become(IF ~current THEN p
                 ELSE Finish(p, t.slot, IF job[t.job].dropped THEN "dropped" ELSE "ok"))

(* crashed: the slot is recycled if it still has that worker. *)
Crashed(p, t) ==
    IF p.slots[t.slot].worker = t.id THEN Recycle(p, t.slot, "crashed") ELSE p

(* 'error' and 'messageerror': the posted job will not be answered.  The   *)
(* thread is still there until its exit is delivered.                      *)
WorkerError(t) ==
    /\ t.job # None
    /\ Become(Crashed(Answered(Pool, t), t))

(* 'exit': the last event of a thread, terminated or not. *)
WorkerExit(t) == Become(Crashed([Pool EXCEPT !.threads = @ \ {t}], t))

(* The callback of setImmediate. *)
DeferredPump ==
    /\ pumpScheduled
    /\ Become(Pump([Pool EXCEPT !.pumpScheduled = FALSE]))

(* close: every queued job settles and every slot is recycled, in one turn. *)
Close ==
    /\ ~closed
    /\ LET drained == [Pool EXCEPT !.closed = TRUE, !.queue = {},
               !.job = [j \in Jobs |-> IF j \in queue
                   THEN [job[j] EXCEPT !.state = "done", !.outcome = "cancelled"]
                   ELSE job[j]]]
           swept[s \in 0 .. Size] ==
               IF s = 0 THEN drained ELSE Recycle(swept[s - 1], s, "cancelled")
       IN Become(swept[Size])

Next ==
    \/ \E j \in Jobs : \/ \E k \in Keys, exclusive \in BOOLEAN : Submit(j, k, exclusive)
                       \/ Cancel(j)
                       \/ Timeout(j)
    \/ \E t \in threads : Message(t) \/ WorkerError(t) \/ WorkerExit(t)
    \/ DeferredPump
    \/ Close

Spec == Init /\ [][Next]_vars

(***************************************************************************)
(* Fairness.  Timers and setImmediate callbacks run, and the thread of a   *)
(* write ends with a reply, an error or an exit: nothing terminates it, so *)
(* a write that hangs forever holds the barrier forever, as the header of  *)
(* the source says.  A read-only job may hang: its timer ends it.  Each    *)
(* conjunct is the weak fairness of one action, written with its enabling  *)
(* condition because nothing but that action, or the end of the job, makes *)
(* the condition false: an armed timer fires, a due pump runs, a running   *)
(* write ends.                                                             *)
(***************************************************************************)
Fairness ==
    /\ \A j \in Jobs : []<>~job[j].timer
    /\ \A j \in Jobs : []<>~(job[j].exclusive /\ job[j].state = "running")
    /\ []<>~pumpScheduled

FairSpec == Spec /\ Fairness

-----------------------------------------------------------------------------
(* Properties *)

Workers == Nat \ {0}
Maybe(S) == S \cup {None}

(* Every variable has its type. *)
TypeOK ==
    /\ job \in [Jobs -> [key : Maybe(Keys), exclusive : BOOLEAN, state : JobStates,
                         dropped : BOOLEAN, timer : BOOLEAN,
                         outcome : Outcomes \cup {Unsettled}]]
    /\ slots \in [Slots -> [worker : Nat, job : Maybe(Jobs)]]
    /\ queue \in SUBSET Jobs
    /\ affinity \in [Keys -> [slot : Maybe(Slots), since : Nat]]
    /\ pins \in Nat
    /\ threads \in SUBSET [id : Workers, slot : Slots, job : Maybe(Jobs)]
    /\ spawned \in Nat
    /\ pumpScheduled \in BOOLEAN
    /\ closed \in BOOLEAN

(* The bookkeeping spread over jobs, slots, queue and timers agrees: the    *)
(* queue holds the waiting jobs, each running job has one slot and only    *)
(* running jobs have one, timers are armed for running jobs only and for   *)
(* every running read-only job, and a job is done only with an outcome.    *)
Bookkeeping ==
    /\ queue = {j \in Jobs : job[j].state = "queued"}
    /\ \A s \in Slots : slots[s].job # None => job[slots[s].job].state = "running"
    /\ \A j \in Jobs : job[j].state = "running" => \E s \in Slots : slots[s].job = j
    /\ \A s, r \in Slots : slots[s].job = slots[r].job => s = r \/ slots[s].job = None
    /\ \A j \in Jobs :
        /\ job[j].timer => job[j].state = "running"
        /\ job[j].state = "running" /\ ~job[j].exclusive => job[j].timer
        /\ job[j].state = "done" => job[j].outcome # Unsettled
        /\ job[j].state \in {"new", "queued"} => job[j].outcome = Unsettled

(* An exclusive job (a write) runs alone. *)
ExclusiveAlone ==
    \A s, r \in Slots :
        s # r /\ slots[s].job # None /\ slots[r].job # None => ~job[slots[s].job].exclusive

(* No later job overtakes a write, and a write overtakes nobody: a job     *)
(* that starts leaves no earlier write waiting or running, and a write     *)
(* that starts leaves no earlier job unfinished.                           *)
Starts(j) == job[j].state # "running" /\ job'[j].state = "running"

(* A terminated job never produces a result: a job ends with 'ok' only by  *)
(* the reply of the thread that its slot still has.                        *)
TerminatedNeverAnswers ==
    [][\A j \in Jobs : job[j].outcome = Unsettled /\ job'[j].outcome \in {"ok", "dropped"} =>
          \E t \in threads \ threads' :
             /\ t.job = j
             /\ slots[t.slot].worker = t.id
             /\ slots'[t.slot].worker = t.id]_vars

(* No wakeup is lost: when no pump is due, whatever waits has something to *)
(* wait for (a write before it, a full pool, or the slot of its key).      *)
Blocked(j) ==
    \/ Busy(Pool) = Slots
    \/ ExclusiveRuns(Pool)
    \/ \E i \in queue : i < j /\ job[i].exclusive
    \/ job[j].exclusive /\ Busy(Pool) # {}
    \/ affinity[job[j].key].slot \in Busy(Pool)

NoLostWakeup == ~pumpScheduled => \A j \in queue : Blocked(j)

(* Every submitted job settles: again and again none is unsettled. *)
EverySubmittedSettles == []<>(\A j \in Jobs : job[j].state # "new" => job[j].outcome # Unsettled)

=============================================================================
