--------------------------- MODULE ToolPoolProofs ---------------------------
(***************************************************************************)
(* Theorems about ToolPool, for every pool size, number of jobs, set of    *)
(* keys and affinity limit: its variables keep their types, its            *)
(* bookkeeping agrees, and a write runs alone; it implements PoolContract, *)
(* a terminated job never answers, and no wakeup is lost.                  *)
(*                                                                         *)
(* The handlers are operators from pool records to pool records, so the    *)
(* inductive invariant is a predicate Good(p) on pool records: each lemma  *)
(* says that one handler keeps it, and the step lemmas cite them.          *)
(***************************************************************************)
EXTENDS MCToolPool, TLAPS, FiniteSetTheorems, WellFoundedInduction

JobRecord == [key : Maybe(Keys), exclusive : BOOLEAN, state : JobStates, dropped : BOOLEAN,
              timer : BOOLEAN, outcome : Outcomes \cup {Unsettled}]
SlotRecord == [worker : Nat, job : Maybe(Jobs)]
PinRecord == [slot : Maybe(Slots), since : Nat]
Thread == [id : Workers, slot : Slots, job : Maybe(Jobs)]

PoolRecord ==
    [job : [Jobs -> JobRecord], slots : [Slots -> SlotRecord], queue : SUBSET Jobs,
     affinity : [Keys -> PinRecord], pins : Nat, threads : SUBSET Thread, spawned : Nat,
     pumpScheduled : BOOLEAN, closed : BOOLEAN]

QueueAgrees(p) == \A j \in Jobs : j \in p.queue <=> p.job[j].state = "queued"
SlotsRun(p) == \A s \in Slots : p.slots[s].job # None => p.job[p.slots[s].job].state = "running"
RunningHaveSlots(p) ==
    \A j \in Jobs : p.job[j].state = "running" => \E s \in Slots : p.slots[s].job = j
OneSlotEach(p) ==
    \A s, r \in Slots : p.slots[s].job = p.slots[r].job => s = r \/ p.slots[s].job = None
JobAgrees(r) ==
    /\ r.timer => r.state = "running"
    /\ r.state = "running" /\ ~r.exclusive => r.timer
    /\ r.state = "done" => r.outcome # Unsettled
    /\ r.state \in {"new", "queued"} => r.outcome = Unsettled
Alone(p) ==
    \A s, r \in Slots : s # r /\ p.slots[s].job # None /\ p.slots[r].job # None
                           => ~p.job[p.slots[s].job].exclusive

Good(p) ==
    /\ p \in PoolRecord
    /\ QueueAgrees(p)
    /\ SlotsRun(p)
    /\ RunningHaveSlots(p)
    /\ OneSlotEach(p)
    /\ \A j \in Jobs : JobAgrees(p.job[j])
    /\ Alone(p)

-----------------------------------------------------------------------------
(* A nonempty set of naturals has a least element. *)
LEMMA LeastNatural ==
    ASSUME NEW S \in SUBSET Nat, S # {}
    PROVE  \E m \in S : \A n \in S : m <= n
<1> DEFINE R == OpToRel(<, Nat)
<1>1. PICK m \in S : \A n \in S : ~(<<n, m>> \in R)
  <2>1. IsWellFoundedOn(R, Nat)
    BY NatLessThanWellFounded
  <2> HIDE DEF R
  <2> QED BY <2>1, WFMin
<1>2. \A n \in S : ~(n < m)
  BY <1>1 DEF OpToRel
<1> QED BY <1>2

(* Good speaks of jobs, slots and queue only, once the types are known. *)
LEMMA GoodDepends ==
    ASSUME NEW p, NEW q, Good(p), q \in PoolRecord,
           q.job = p.job, q.slots = p.slots, q.queue = p.queue
    PROVE  Good(q)
BY DEF Good, QueueAgrees, SlotsRun, RunningHaveSlots, OneSlotEach, Alone

(* A worker is started for a slot that has none; jobs stay where they are. *)
LEMMA SpawnKeeps ==
    ASSUME NEW p \in PoolRecord, NEW s \in Slots
    PROVE  /\ Spawn(p, s) \in PoolRecord
           /\ Spawn(p, s).job = p.job
           /\ Spawn(p, s).queue = p.queue
           /\ Spawn(p, s).closed = p.closed
           /\ \A r \in Slots : Spawn(p, s).slots[r].job = p.slots[r].job
<1>1. CASE p.slots[s].worker # None
  BY <1>1 DEF Spawn
<1>2. CASE p.slots[s].worker = None
  <2> DEFINE w == p.spawned + 1
             slots1 == [p.slots EXCEPT ![s].worker = w]
             threads1 == p.threads \cup {[id |-> w, slot |-> s, job |-> None]}
  <2>1. Spawn(p, s) = [p EXCEPT !.spawned = w, !.slots = slots1, !.threads = threads1]
    BY <1>2 DEF Spawn, PoolRecord
  <2>2. slots1 \in [Slots -> SlotRecord] /\ \A r \in Slots : slots1[r].job = p.slots[r].job
    BY DEF PoolRecord, SlotRecord
  <2>3. threads1 \in SUBSET Thread /\ w \in Nat
    BY DEF PoolRecord, Thread, Workers, None, Maybe
  <2> HIDE DEF w, slots1, threads1
  <2> QED BY <2>1, <2>2, <2>3 DEF PoolRecord
<1> QED BY <1>1, <1>2

(* Pinning a key changes the affinity map and the age counter only. *)
LEMMA PinKeeps ==
    ASSUME NEW p \in PoolRecord, NEW k, NEW s \in Slots
    PROVE  /\ Pin(p, k, s) \in PoolRecord
           /\ Pin(p, k, s).job = p.job
           /\ Pin(p, k, s).queue = p.queue
           /\ Pin(p, k, s).slots = p.slots
           /\ Pin(p, k, s).closed = p.closed
<1>1. CASE p.affinity[k].slot # None
  BY <1>1 DEF Pin
<1>2. CASE p.affinity[k].slot = None
  <2> DEFINE aged == [p.affinity EXCEPT ![k] = [slot |-> s, since |-> p.pins + 1]]
             pinned == Pinned(p) \cup {k}
             oldest == CHOOSE o \in pinned : \A i \in pinned : aged[o].since <= aged[i].since
             rest == IF Cardinality(pinned) > AffinityLimit
                     THEN [aged EXCEPT ![oldest] = Unpinned] ELSE aged
  <2>1. Pin(p, k, s) = [p EXCEPT !.pins = p.pins + 1, !.affinity = rest]
    BY <1>2 DEF Pin, PoolRecord
  <2>2. aged \in [Keys -> PinRecord]
    <3>1. p.affinity \in [Keys -> PinRecord] /\ p.pins \in Nat
      BY DEF PoolRecord
    <3>2. [slot |-> s, since |-> p.pins + 1] \in PinRecord
      BY <3>1 DEF PinRecord, Maybe
    <3> HIDE DEF PinRecord
    <3> QED BY <3>1, <3>2
  <2>3. Unpinned \in PinRecord
    BY DEF Unpinned, PinRecord, Maybe
  <2> HIDE DEF aged, pinned, oldest
  <2>4. rest \in [Keys -> PinRecord]
    BY <2>2, <2>3
  <2>5. p.pins + 1 \in Nat
    BY DEF PoolRecord
  <2> HIDE DEF rest
  <2> QED BY <2>1, <2>4, <2>5 DEF PoolRecord
<1> QED BY <1>1, <1>2

(* Posting a job to a worker keeps threads well typed. *)
LEMMA PostType ==
    ASSUME NEW p \in PoolRecord, NEW s \in Slots, NEW j \in Jobs
    PROVE  Post(p, s, j) \in SUBSET Thread
BY DEF Post, PoolRecord, Thread, Maybe

(* What start writes into a job's record. *)
Begun(r) == [r EXCEPT !.state = "running", !.timer = TRUE]

LEMMA BegunRecord ==
    ASSUME NEW r \in JobRecord
    PROVE  /\ Begun(r) \in JobRecord
           /\ Begun(r).state = "running"
           /\ Begun(r).timer = TRUE
           /\ Begun(r).exclusive = r.exclusive
           /\ Begun(r).outcome = r.outcome
BY Zenon DEF Begun, JobRecord, JobStates

(* What start does to jobs, slots and queue. *)
LEMMA StartEffect ==
    ASSUME NEW p \in PoolRecord, NEW s \in Slots, NEW j \in Jobs
    PROVE  LET q == Start(p, s, j)
           IN /\ q \in PoolRecord
              /\ q.queue = p.queue \ {j}
              /\ q.closed = p.closed
              /\ q.job = [p.job EXCEPT ![j] = Begun(p.job[j])]
              /\ \A r \in Slots : q.slots[r].job = IF r = s THEN j ELSE p.slots[r].job
<1> DEFINE m == Pin(p, p.job[j].key, s)
           n == Spawn(m, s)
           slots1 == [n.slots EXCEPT ![s].job = j]
           job1 == [n.job EXCEPT ![j] = Begun(n.job[j])]
<1>1. /\ n \in PoolRecord /\ n.job = p.job /\ n.queue = p.queue /\ n.closed = p.closed
      /\ \A r \in Slots : n.slots[r].job = p.slots[r].job
  BY PinKeeps, SpawnKeeps
<1>2. Start(p, s, j) = [n EXCEPT !.queue = n.queue \ {j}, !.slots = slots1, !.job = job1,
                                 !.threads = Post(n, s, j)]
  <2> HIDE DEF m
  <2>1. Start(p, s, j) = [n EXCEPT !.queue = @ \ {j}, !.slots[s].job = j,
                                   !.job[j] = [@ EXCEPT !.state = "running", !.timer = TRUE],
                                   !.threads = Post(n, s, j)]
    BY DEF Start, m
  <2> HIDE DEF n
  <2> QED BY <2>1, <1>1 DEF PoolRecord, Begun
<1>3. Post(n, s, j) \in SUBSET Thread
  BY <1>1, PostType
<1> HIDE DEF m, n
<1>4. slots1 \in [Slots -> SlotRecord]
      /\ \A r \in Slots : slots1[r].job = IF r = s THEN j ELSE p.slots[r].job
  BY <1>1 DEF PoolRecord, SlotRecord, Maybe
<1>5. job1 \in [Jobs -> JobRecord]
  <2>1. n.job \in [Jobs -> JobRecord]
    BY <1>1 DEF PoolRecord
  <2>2. Begun(n.job[j]) \in JobRecord
    BY <2>1, BegunRecord
  <2> QED BY <2>1, <2>2
<1> HIDE DEF slots1, job1
<1>6. Start(p, s, j) \in PoolRecord /\ Start(p, s, j).queue = n.queue \ {j}
      /\ Start(p, s, j).slots = slots1 /\ Start(p, s, j).job = job1 /\ Start(p, s, j).closed = n.closed
  BY <1>1, <1>2, <1>3, <1>4, <1>5 DEF PoolRecord
<1> QED BY <1>1, <1>4, <1>6 DEF job1

(* start keeps the invariant when pump calls it: the job waits, the slot   *)
(* is free, no write runs, and a write finds every slot free.              *)
LEMMA StartGood ==
    ASSUME NEW p, Good(p), NEW j \in p.queue, NEW s \in Slots \ Busy(p),
           ~ExclusiveRuns(p), p.job[j].exclusive => Busy(p) = {}
    PROVE  LET q == Start(p, s, j)
           IN Good(q) /\ (~p.job[j].exclusive => ~ExclusiveRuns(q)) /\ q.closed = p.closed
<1> DEFINE q == Start(p, s, j)
<1>1. p \in PoolRecord /\ j \in Jobs /\ s \in Slots
  BY DEF Good, PoolRecord
<1>2. /\ q \in PoolRecord
      /\ q.queue = p.queue \ {j}
      /\ q.closed = p.closed
      /\ q.job = [p.job EXCEPT ![j] = Begun(p.job[j])]
      /\ \A r \in Slots : q.slots[r].job = IF r = s THEN j ELSE p.slots[r].job
  BY <1>1, StartEffect
<1> HIDE DEF q
<1>3. p.job \in [Jobs -> JobRecord] /\ \A i \in Jobs : p.job[i] \in JobRecord
  BY <1>1 DEF PoolRecord
<1>4. p.job[j].state = "queued" /\ p.slots[s].job = None
  BY <1>1 DEF Good, QueueAgrees, Busy
<1>5. /\ q.job[j] = Begun(p.job[j])
      /\ \A i \in Jobs \ {j} : q.job[i] = p.job[i]
      /\ q.job[j].state = "running" /\ q.job[j].timer = TRUE
      /\ q.job[j].exclusive = p.job[j].exclusive /\ q.job[j].outcome = p.job[j].outcome
  <2>1. q.job[j] = Begun(p.job[j]) /\ \A i \in Jobs \ {j} : q.job[i] = p.job[i]
    BY <1>1, <1>2, <1>3
  <2>2. p.job[j] \in JobRecord
    BY <1>1, <1>3
  <2> QED BY <2>1, <2>2, BegunRecord
<1>6. \A r \in Slots : p.slots[r].job # j
  BY <1>1, <1>4 DEF Good, SlotsRun, None, Jobs
<1>7. \A r \in Slots : p.slots[r].job \in Maybe(Jobs)
  BY <1>1 DEF PoolRecord, SlotRecord
<1>8. j # None
  BY <1>1 DEF Jobs, None
<1>9. QueueAgrees(q)
  BY <1>1, <1>2, <1>5 DEF Good, QueueAgrees
<1>10. SlotsRun(q)
  BY <1>2, <1>5, <1>6, <1>7 DEF Good, SlotsRun, Maybe
<1>11. RunningHaveSlots(q)
  <2> SUFFICES ASSUME NEW i \in Jobs, q.job[i].state = "running"
              PROVE  \E r \in Slots : q.slots[r].job = i
    BY DEF RunningHaveSlots
  <2>1. CASE i = j
    BY <1>1, <1>2, <2>1
  <2>2. CASE i # j
    <3>1. PICK r \in Slots : p.slots[r].job = i
      BY <1>5, <2>2 DEF Good, RunningHaveSlots
    <3>2. i # None
      BY DEF Jobs, None
    <3> QED BY <1>2, <1>4, <3>1, <3>2
  <2> QED BY <2>1, <2>2
<1>12. OneSlotEach(q)
  BY <1>2, <1>6 DEF Good, OneSlotEach
<1>13. \A i \in Jobs : JobAgrees(q.job[i])
  <2>1. JobAgrees(q.job[j])
    BY <1>5 DEF JobAgrees
  <2> QED BY <1>5, <2>1 DEF Good
<1>14. \A r \in Slots : p.slots[r].job # None => ~p.job[p.slots[r].job].exclusive
  BY DEF ExclusiveRuns, Busy
<1>15. \A r \in Slots \ {s} : p.slots[r].job # None => ~p.job[j].exclusive
  BY DEF Busy
<1>16. Alone(q)
  BY <1>2, <1>5, <1>6, <1>7, <1>14, <1>15 DEF Alone, Maybe
<1>17. ~p.job[j].exclusive => ~ExclusiveRuns(q)
  BY <1>2, <1>5, <1>6, <1>7, <1>14 DEF ExclusiveRuns, Busy, Maybe
<1> QED BY <1>2, <1>9, <1>10, <1>11, <1>12, <1>13, <1>16, <1>17 DEF Good, q

(* slotFor answers a free slot or none. *)
LEMMA SlotForFree ==
    ASSUME NEW p, NEW k
    PROVE  SlotFor(p, k) = None \/ SlotFor(p, k) \in Slots \ Busy(p)
<1> DEFINE free == Slots \ Busy(p)
           warm == {s \in free : p.slots[s].worker # None}
<1>1. \A S \in SUBSET Slots : S # {} => Least(S) \in S
  <2> SUFFICES ASSUME NEW S \in SUBSET Slots, S # {} PROVE \E x \in S : \A y \in S : x <= y
    BY DEF Least
  <2>1. S \in SUBSET Nat
    BY SizeAssumption DEF Slots
  <2> QED BY <2>1, LeastNatural
<1>2. warm # {} => Least(warm) \in free
  BY <1>1
<1>3. free # {} => Least(free) \in free
  BY <1>1
<1> QED BY <1>2, <1>3 DEF SlotFor

-----------------------------------------------------------------------------
(* One pass over the queue.  What holds all along it: the pool is Good,    *)
(* and no write runs unless the pass has halted.                           *)
PassGood(pass) ==
    /\ pass \in [pool : PoolRecord, halted : BOOLEAN]
    /\ Good(pass.pool)
    /\ ~pass.halted => ~ExclusiveRuns(pass.pool)

LEMMA ConsiderGood ==
    ASSUME NEW pass, PassGood(pass), NEW j
    PROVE  PassGood(Consider(pass, j)) /\ Consider(pass, j).pool.closed = pass.pool.closed
<1> DEFINE p == pass.pool
           s == SlotFor(p, p.job[j].key)
           exclusive == p.job[j].exclusive
<1>0. pass \in [pool : PoolRecord, halted : BOOLEAN] /\ Good(p)
  BY DEF PassGood
<1>1. CASE pass.halted \/ j \notin p.queue
  BY <1>1 DEF Consider
<1>2. CASE ~(pass.halted \/ j \notin p.queue) /\ (Busy(p) = Slots \/ (exclusive /\ Busy(p) # {}))
  <2>1. Consider(pass, j) = [pass EXCEPT !.halted = TRUE]
    BY <1>2 DEF Consider
  <2>2. /\ [pass EXCEPT !.halted = TRUE] \in [pool : PoolRecord, halted : BOOLEAN]
        /\ [pass EXCEPT !.halted = TRUE].pool = p
        /\ [pass EXCEPT !.halted = TRUE].halted = TRUE
    BY <1>0
  <2> QED BY <1>0, <2>1, <2>2 DEF PassGood
<1>3. CASE /\ ~(pass.halted \/ j \notin p.queue)
           /\ ~(Busy(p) = Slots \/ (exclusive /\ Busy(p) # {}))
           /\ s = None
  BY <1>3 DEF Consider
<1>4. CASE /\ ~(pass.halted \/ j \notin p.queue)
           /\ ~(Busy(p) = Slots \/ (exclusive /\ Busy(p) # {}))
           /\ s # None
  <2>1. Consider(pass, j) = [pool |-> Start(p, s, j), halted |-> exclusive]
    BY <1>4 DEF Consider
  <2>2. s \in Slots \ Busy(p)
    BY <1>4, SlotForFree
  <2>3. ~ExclusiveRuns(p)
    BY <1>4 DEF PassGood
  <2>4. exclusive => Busy(p) = {}
    BY <1>4
  <2>5. j \in Jobs /\ exclusive \in BOOLEAN
    <3>1. j \in Jobs /\ p.job \in [Jobs -> JobRecord]
      BY <1>0, <1>4 DEF PoolRecord
    <3>2. p.job[j] \in JobRecord
      BY <3>1
    <3> QED BY <3>1, <3>2 DEF JobRecord
  <2> HIDE DEF s
  <2>6. /\ Good(Start(p, s, j)) /\ (~exclusive => ~ExclusiveRuns(Start(p, s, j)))
        /\ Start(p, s, j).closed = p.closed
    BY <1>0, <1>4, <2>2, <2>3, <2>4, StartGood
  <2>7. Start(p, s, j) \in PoolRecord
    BY <2>6 DEF Good
  <2> HIDE DEF p, exclusive
  <2>8. Consider(pass, j) \in [pool : PoolRecord, halted : BOOLEAN]
        /\ Consider(pass, j).pool = Start(p, s, j) /\ Consider(pass, j).halted = exclusive
    BY <2>1, <2>5, <2>7
  <2> QED BY <2>6, <2>8 DEF PassGood, p
<1> QED BY <1>1, <1>2, <1>3, <1>4

(***************************************************************************)
(* pump is a recursive function over the job ids.  Such a function exists, *)
(* by induction on the length of the pass; the induction is on the least   *)
(* length that has none.                                                   *)
(***************************************************************************)
First(p) == [pool |-> p, halted |-> p.closed \/ ExclusiveRuns(p)]
IsPass(g, p, m) == g = [n \in 0 .. m |-> IF n = 0 THEN First(p) ELSE Consider(g[n - 1], n)]

LEMMA PassExists ==
    ASSUME NEW p
    PROVE  \A m \in Nat : \E g : IsPass(g, p, m)
<1> DEFINE Bad == {m \in Nat : ~\E g : IsPass(g, p, m)}
<1> SUFFICES ASSUME Bad # {} PROVE FALSE
  OBVIOUS
<1>1. PICK m \in Bad : \A n \in Bad : m <= n
  <2>1. Bad \in SUBSET Nat
    OBVIOUS
  <2> HIDE DEF Bad
  <2> QED BY <2>1, LeastNatural
<1>2. m # 0
  <2>1. IsPass([n \in 0 .. 0 |-> First(p)], p, 0)
    BY DEF IsPass
  <2> QED BY <2>1
<1>3. m - 1 \in Nat /\ m - 1 \notin Bad
  BY <1>1, <1>2
<1>4. PICK g : IsPass(g, p, m - 1)
  BY <1>3
<1> DEFINE h == [n \in 0 .. m |-> IF n < m THEN g[n] ELSE Consider(g[m - 1], m)]
<1>5. \A n \in 0 .. m - 1 : g[n] = IF n = 0 THEN First(p) ELSE Consider(g[n - 1], n)
  BY <1>3, <1>4 DEF IsPass
<1>6. ASSUME NEW n \in 0 .. m
      PROVE  h[n] = IF n = 0 THEN First(p) ELSE Consider(h[n - 1], n)
  <2>1. CASE n = 0
    BY <1>3, <1>5, <2>1
  <2>2. CASE n # 0
    <3>1. h[n - 1] = g[n - 1] /\ h[n] = Consider(g[n - 1], n)
      BY <1>5, <2>2
    <3> QED BY <2>2, <3>1
  <2> QED BY <2>1, <2>2
<1>7. IsPass(h, p, m)
  <2>1. h = [n \in 0 .. m |-> h[n]]
    OBVIOUS
  <2> HIDE DEF h
  <2> QED BY <1>6, <2>1 DEF IsPass
<1> QED BY <1>7

(* pump answers the end of a pass. *)
LEMMA PumpIsPass ==
    ASSUME NEW p
    PROVE  \E g : IsPass(g, p, MaxJobs) /\ Pump(p) = g[MaxJobs].pool
<1> DEFINE f == CHOOSE g : IsPass(g, p, MaxJobs)
<1>1. IsPass(f, p, MaxJobs)
  BY PassExists, MaxJobsAssumption
<1>2. Pump(p) = f[MaxJobs].pool
  BY Zenon DEF Pump, IsPass, First
<1> QED BY <1>1, <1>2

LEMMA PumpGood ==
    ASSUME NEW p, Good(p)
    PROVE  Good(Pump(p)) /\ Pump(p).closed = p.closed
<1>1. PICK g : IsPass(g, p, MaxJobs) /\ Pump(p) = g[MaxJobs].pool
  BY PumpIsPass
<1>2. \A n \in 0 .. MaxJobs : g[n] = IF n = 0 THEN First(p) ELSE Consider(g[n - 1], n)
  BY <1>1, MaxJobsAssumption DEF IsPass
<1> DEFINE Fine(n) == PassGood(g[n]) /\ g[n].pool.closed = p.closed
           Bad == {n \in 0 .. MaxJobs : ~Fine(n)}
<1>3. Fine(0)
  <2>1. First(p) \in [pool : PoolRecord, halted : BOOLEAN]
    BY DEF First, Good, PoolRecord, ExclusiveRuns
  <2>2. PassGood(First(p)) /\ First(p).pool = p
    BY <2>1 DEF PassGood, First
  <2> QED BY <1>2, <2>2, MaxJobsAssumption
<1>4. ASSUME NEW n \in 1 .. MaxJobs, Fine(n - 1) PROVE Fine(n)
  <2>1. g[n] = Consider(g[n - 1], n)
    BY <1>2, MaxJobsAssumption
  <2> QED BY <1>4, <2>1, ConsiderGood
<1> HIDE DEF Fine
<1>5. Bad = {}
  <2> SUFFICES ASSUME Bad # {} PROVE FALSE
    OBVIOUS
  <2>1. PICK m \in Bad : \A n \in Bad : m <= n
    <3>1. Bad \in SUBSET Nat
      BY MaxJobsAssumption
    <3> HIDE DEF Bad
    <3> QED BY <3>1, LeastNatural
  <2>2. m \in 1 .. MaxJobs /\ m - 1 \notin Bad /\ m - 1 \in 0 .. MaxJobs
    BY <1>3, <2>1, MaxJobsAssumption
  <2> QED BY <1>4, <2>2
<1>6. Fine(MaxJobs)
  BY <1>5, MaxJobsAssumption
<1> QED BY <1>1, <1>6 DEF Fine, PassGood

-----------------------------------------------------------------------------
(* settle writes the outcome of one job, if it has none yet. *)
Outcome(r, o) == IF r.outcome = Unsettled THEN [r EXCEPT !.outcome = o] ELSE r
Ended(r) == [r EXCEPT !.state = "done", !.timer = FALSE]

LEMMA OutcomeRecord ==
    ASSUME NEW r \in JobRecord, NEW o \in Outcomes
    PROVE  /\ Outcome(r, o) \in JobRecord
           /\ Outcome(r, o).state = r.state
           /\ Outcome(r, o).timer = r.timer
           /\ Outcome(r, o).exclusive = r.exclusive
           /\ Outcome(r, o).outcome # Unsettled
<1>1. o # Unsettled
  BY DEF Outcomes, Unsettled
<1> QED BY <1>1, Zenon DEF Outcome, JobRecord

LEMMA EndedRecord ==
    ASSUME NEW r \in JobRecord
    PROVE  /\ Ended(r) \in JobRecord
           /\ Ended(r).state = "done"
           /\ Ended(r).timer = FALSE
           /\ Ended(r).exclusive = r.exclusive
BY Zenon DEF Ended, JobRecord, JobStates

LEMMA SettleEffect ==
    ASSUME NEW p \in PoolRecord, NEW j \in Jobs, NEW o \in Outcomes
    PROVE  /\ Settle(p, j, o) \in PoolRecord
           /\ Settle(p, j, o).job = [p.job EXCEPT ![j] = Outcome(p.job[j], o)]
           /\ Settle(p, j, o).slots = p.slots
           /\ Settle(p, j, o).queue = p.queue
           /\ Settle(p, j, o).closed = p.closed
<1>0. p.job \in [Jobs -> JobRecord] /\ p.job[j] \in JobRecord
  BY DEF PoolRecord
<1>1. CASE p.job[j].outcome = Unsettled
  <2> DEFINE job1 == [p.job EXCEPT ![j] = Outcome(p.job[j], o)]
  <2>1. Settle(p, j, o) = [p EXCEPT !.job = job1]
    BY <1>1 DEF Settle, Outcome, PoolRecord
  <2>2. job1 \in [Jobs -> JobRecord]
    BY <1>0, OutcomeRecord
  <2> HIDE DEF job1
  <2>3. [p EXCEPT !.job = job1] \in PoolRecord
    BY <2>2 DEF PoolRecord
  <2> QED BY <2>1, <2>3 DEF PoolRecord, job1
<1>2. CASE p.job[j].outcome # Unsettled
  <2>1. [p.job EXCEPT ![j] = p.job[j]] = p.job
    BY <1>0
  <2> QED BY <1>2, <2>1 DEF Settle, Outcome
<1> QED BY <1>1, <1>2

(* A job leaves its slot and is done. *)
LEMMA ReleaseGood ==
    ASSUME NEW p, Good(p), NEW s \in Slots, p.slots[s].job # None, NEW o \in Outcomes
    PROVE  /\ Good(Release(p, s, o))
           /\ Release(p, s, o).closed = p.closed
<1> DEFINE j == p.slots[s].job
           slots1 == [p.slots EXCEPT ![s].job = None]
           job1 == [p.job EXCEPT ![j] = Ended(p.job[j])]
           q == [p EXCEPT !.slots = slots1, !.job = job1]
           job2 == [job1 EXCEPT ![j] = Outcome(job1[j], o)]
           r == Release(p, s, o)
<1>1. /\ p \in PoolRecord /\ p.job \in [Jobs -> JobRecord]
      /\ p.slots \in [Slots -> SlotRecord]
  BY DEF Good, PoolRecord
<1>2. j \in Jobs /\ p.job[j] \in JobRecord
  BY <1>1 DEF SlotRecord, Maybe
<1>3. slots1 \in [Slots -> SlotRecord]
      /\ \A i \in Slots : slots1[i].job = IF i = s THEN None ELSE p.slots[i].job
  BY <1>1 DEF SlotRecord, Maybe
<1>4. job1 \in [Jobs -> JobRecord] /\ job1[j] = Ended(p.job[j])
  BY <1>1, <1>2, EndedRecord
<1>5. q \in PoolRecord /\ q.job = job1
  BY <1>1, <1>3, <1>4 DEF PoolRecord
<1>6. r \in PoolRecord /\ r.job = job2 /\ r.slots = slots1 /\ r.queue = p.queue /\ r.closed = p.closed
  <2>1. r = Settle(q, j, o)
    BY <1>1 DEF Release, PoolRecord, Ended
  <2>2. q.slots = slots1 /\ q.queue = p.queue /\ q.closed = p.closed
    BY <1>1 DEF PoolRecord
  <2> HIDE DEF q, r, j, slots1
  <2> QED BY <1>2, <1>5, <2>1, <2>2, SettleEffect
<1>7. /\ job2 \in [Jobs -> JobRecord]
      /\ job2[j].state = "done" /\ job2[j].timer = FALSE /\ job2[j].outcome # Unsettled
      /\ \A i \in Jobs \ {j} : job2[i] = p.job[i]
  <2>1. job1[j] \in JobRecord /\ job1[j].state = "done" /\ job1[j].timer = FALSE
    BY <1>2, <1>4, EndedRecord
  <2>2. Outcome(job1[j], o) \in JobRecord
    BY <2>1, OutcomeRecord
  <2>3. job2[j] = Outcome(job1[j], o) /\ job2 \in [Jobs -> JobRecord]
    BY <1>2, <1>4, <2>2
  <2>4. \A i \in Jobs \ {j} : job2[i] = p.job[i]
    BY <1>1, <1>2
  <2> HIDE DEF job1, job2
  <2> QED BY <2>1, <2>3, <2>4, OutcomeRecord
<1> HIDE DEF slots1, job1, job2, q, r, j
<1>9. p.job[j].state = "running" /\ \A i \in Slots \ {s} : p.slots[i].job # j
  BY <1>2, <1>1 DEF Good, SlotsRun, OneSlotEach, j
<1>10. QueueAgrees(r)
  BY <1>7, <1>6, <1>9 DEF Good, QueueAgrees
<1>11. SlotsRun(r)
  <2>1. \A i \in Slots : p.slots[i].job \in Maybe(Jobs)
    BY <1>1 DEF SlotRecord
  <2> QED BY <1>3, <1>7, <1>6, <1>9, <2>1 DEF Good, SlotsRun, Maybe
<1>12. RunningHaveSlots(r)
  <2> SUFFICES ASSUME NEW i \in Jobs, r.job[i].state = "running"
              PROVE  \E t \in Slots : r.slots[t].job = i
    BY DEF RunningHaveSlots
  <2>1. i # j /\ p.job[i].state = "running"
    BY <1>7, <1>6
  <2>2. PICK t \in Slots : p.slots[t].job = i
    BY <2>1 DEF Good, RunningHaveSlots
  <2>3. t # s
    BY <2>1, <2>2 DEF j
  <2> QED BY <1>3, <1>6, <2>2, <2>3
<1>13. OneSlotEach(r)
  BY <1>3, <1>6 DEF Good, OneSlotEach
<1>14. \A i \in Jobs : JobAgrees(r.job[i])
  <2>1. JobAgrees(r.job[j])
    BY <1>7, <1>6 DEF JobAgrees
  <2> QED BY <1>7, <1>6, <2>1 DEF Good
<1>15. Alone(r)
  <2>1. \A i \in Slots : p.slots[i].job \in Maybe(Jobs)
    BY <1>1 DEF SlotRecord
  <2> QED BY <1>3, <1>7, <1>6, <1>9, <2>1 DEF Good, Alone, Maybe
<1> QED BY <1>6, <1>10, <1>11, <1>12, <1>13, <1>14, <1>15 DEF Good, r

LEMMA FinishGood ==
    ASSUME NEW p, Good(p), NEW s \in Slots, p.slots[s].job # None, NEW o \in Outcomes
    PROVE  Good(Finish(p, s, o)) /\ Finish(p, s, o).closed = p.closed
BY ReleaseGood, PumpGood DEF Finish

(* A slot loses its worker and its pins, and its job if it has one. *)
LEMMA RecycleGood ==
    ASSUME NEW p, Good(p), NEW s \in Slots, NEW o \in Outcomes
    PROVE  /\ Good(Recycle(p, s, o))
           /\ Recycle(p, s, o).closed = p.closed
<1> DEFINE slots1 == [p.slots EXCEPT ![s].worker = None]
           pins1 == [k \in Keys |-> IF p.affinity[k].slot = s THEN Unpinned ELSE p.affinity[k]]
           q == [p EXCEPT !.slots = slots1, !.affinity = pins1]
<1>1. /\ p \in PoolRecord /\ p.affinity \in [Keys -> PinRecord]
      /\ p.slots \in [Slots -> SlotRecord]
  BY DEF Good, PoolRecord
<1>2. slots1 \in [Slots -> SlotRecord] /\ \A i \in Slots : slots1[i].job = p.slots[i].job
  BY <1>1 DEF SlotRecord, None
<1>3. pins1 \in [Keys -> PinRecord]
  <2>1. Unpinned \in PinRecord
    BY DEF Unpinned, PinRecord, Maybe, None
  <2> QED BY <1>1, <2>1
<1> HIDE DEF slots1, pins1
<1>4. /\ q \in PoolRecord /\ q.job = p.job /\ q.slots = slots1
      /\ q.queue = p.queue /\ q.closed = p.closed
  BY <1>1, <1>2, <1>3 DEF PoolRecord
<1>5. Recycle(p, s, o) = IF q.slots[s].job = None THEN q ELSE SchedulePump(Release(q, s, o))
  BY <1>1 DEF Recycle, PoolRecord, slots1, pins1
<1> HIDE DEF q
<1>6. Good(q)
  BY <1>2, <1>4 DEF Good, QueueAgrees, SlotsRun, RunningHaveSlots, OneSlotEach, Alone
<1>7. CASE q.slots[s].job = None
  BY <1>4, <1>5, <1>6, <1>7
<1>8. CASE q.slots[s].job # None
  <2> DEFINE r == Release(q, s, o)
  <2>1. Good(r) /\ r.closed = p.closed
    BY <1>4, <1>6, <1>8, ReleaseGood
  <2> HIDE DEF r
  <2>2. /\ SchedulePump(r) \in PoolRecord /\ SchedulePump(r).job = r.job
        /\ SchedulePump(r).slots = r.slots /\ SchedulePump(r).queue = r.queue
        /\ SchedulePump(r).closed = r.closed
    BY <2>1 DEF Good, SchedulePump, PoolRecord
  <2>3. Good(SchedulePump(r))
    BY <2>1, <2>2, GoodDepends
  <2> QED BY <1>5, <1>8, <2>1, <2>2, <2>3 DEF r
<1> QED BY <1>7, <1>8

-----------------------------------------------------------------------------
(* The invariant of the variables, and the step lemmas. *)
Inv == Good(Pool)

LEMMA BecomeGood ==
    ASSUME NEW p, Good(p), Become(p)
    PROVE  Inv'
<1>1. p \in PoolRecord
  BY DEF Good
<1>2. Pool' = p
  BY <1>1 DEF Become, Pool, PoolRecord
<1> QED BY <1>2 DEF Inv

LEMMA InvTypes ==
    ASSUME Inv
    PROVE  /\ Pool \in PoolRecord
           /\ job \in [Jobs -> JobRecord]
           /\ slots \in [Slots -> SlotRecord]
           /\ queue \in SUBSET Jobs
           /\ threads \in SUBSET Thread
BY DEF Inv, Good, Pool, PoolRecord

LEMMA InitInv == Init => Inv
<1> SUFFICES ASSUME Init PROVE Good(Pool)
  BY DEF Inv
<1>1. Pool \in PoolRecord
  <2>1. job \in [Jobs -> JobRecord]
    BY DEF Init, JobRecord, JobStates, Maybe, Unsettled
  <2>2. slots \in [Slots -> SlotRecord]
    BY DEF Init, SlotRecord, Maybe, None
  <2>3. affinity \in [Keys -> PinRecord]
    BY DEF Init, PinRecord, Unpinned, Maybe, None
  <2> QED BY <2>1, <2>2, <2>3 DEF Init, Pool, PoolRecord
<1>2. \A j \in Jobs : JobAgrees(Pool.job[j])
  BY DEF Init, JobAgrees, Pool
<1> QED BY <1>1, <1>2
       DEF Init, Good, Pool, QueueAgrees, SlotsRun, RunningHaveSlots, OneSlotEach, Alone

(* Changing the record of one job that is in no slot keeps the invariant,  *)
(* if the queue follows. *)
LEMMA WaitingJobGood ==
    ASSUME NEW p, Good(p), NEW j \in Jobs, p.job[j].state # "running",
           NEW r \in JobRecord, JobAgrees(r), r.state # "running",
           NEW q \in PoolRecord, q.job = [p.job EXCEPT ![j] = r], q.slots = p.slots,
           q.queue = IF r.state = "queued" THEN p.queue \cup {j} ELSE p.queue \ {j}
    PROVE  Good(q)
<1>1. /\ p \in PoolRecord /\ p.job \in [Jobs -> JobRecord]
      /\ \A s \in Slots : p.slots[s].job \in Maybe(Jobs)
  BY DEF Good, PoolRecord, SlotRecord
<1>2. q.job[j] = r /\ \A i \in Jobs \ {j} : q.job[i] = p.job[i]
  BY <1>1
<1>3. \A s \in Slots : p.slots[s].job # j
  BY <1>1 DEF Good, SlotsRun, None, Jobs
<1>4. QueueAgrees(q)
  BY <1>1, <1>2 DEF Good, QueueAgrees
<1>5. SlotsRun(q)
  BY <1>1, <1>2, <1>3 DEF Good, SlotsRun, Maybe
<1>6. RunningHaveSlots(q)
  BY <1>1, <1>2, <1>3 DEF Good, RunningHaveSlots
<1>7. OneSlotEach(q)
  BY <1>1, <1>2, <1>3 DEF Good, OneSlotEach
<1>8. \A i \in Jobs : JobAgrees(q.job[i])
  BY <1>2 DEF Good
<1>9. Alone(q)
  BY <1>1, <1>2, <1>3 DEF Good, Alone, Maybe
<1> QED BY <1>4, <1>5, <1>6, <1>7, <1>8, <1>9 DEF Good

(* A change of a running job's record that keeps it running. *)
LEMMA RunningJobGood ==
    ASSUME NEW p, Good(p), NEW j \in Jobs, p.job[j].state = "running",
           NEW r \in JobRecord, JobAgrees(r), r.state = "running",
           r.exclusive = p.job[j].exclusive,
           NEW q \in PoolRecord, q.job = [p.job EXCEPT ![j] = r], q.slots = p.slots,
           q.queue = p.queue
    PROVE  Good(q)
<1>1. /\ p \in PoolRecord /\ p.job \in [Jobs -> JobRecord]
      /\ \A s \in Slots : p.slots[s].job \in Maybe(Jobs)
  BY DEF Good, PoolRecord, SlotRecord
<1>2. /\ q.job[j] = r /\ \A i \in Jobs \ {j} : q.job[i] = p.job[i]
      /\ \A i \in Jobs : q.job[i].state = p.job[i].state /\ q.job[i].exclusive = p.job[i].exclusive
  BY <1>1
<1>3. QueueAgrees(q) /\ SlotsRun(q) /\ RunningHaveSlots(q) /\ OneSlotEach(q) /\ Alone(q)
  BY <1>1, <1>2
     DEF Good, QueueAgrees, SlotsRun, RunningHaveSlots, OneSlotEach, Alone, Maybe
<1>4. \A i \in Jobs : JobAgrees(q.job[i])
  BY <1>2 DEF Good
<1> QED BY <1>3, <1>4 DEF Good

LEMMA SubmitStep ==
    ASSUME Inv, NEW j \in Jobs, NEW k \in Keys, NEW exclusive \in BOOLEAN, Submit(j, k, exclusive)
    PROVE  Inv'
<1> DEFINE call == [job[j] EXCEPT !.key = k, !.exclusive = exclusive]
           waiting == [call EXCEPT !.state = "queued"]
           over == [call EXCEPT !.state = "done", !.outcome = "cancelled"]
<1>1. /\ Pool \in PoolRecord /\ job \in [Jobs -> JobRecord] /\ job[j] \in JobRecord
      /\ job[j].state = "new" /\ Pool.job = job /\ Pool.queue = queue /\ j \notin queue
  BY InvTypes DEF Submit, Pool, Inv, Good, QueueAgrees
<1>2. job[j].outcome = Unsettled /\ ~job[j].timer
  BY <1>1 DEF Inv, Good, JobAgrees
<1>3. /\ call \in JobRecord /\ call.state = "new" /\ call.outcome = Unsettled /\ ~call.timer
  BY <1>1, <1>2, Zenon DEF JobRecord, Maybe
<1>4. waiting \in JobRecord /\ waiting.state = "queued" /\ JobAgrees(waiting)
  BY <1>3, Zenon DEF JobRecord, JobStates, JobAgrees
<1>5. over \in JobRecord /\ over.state = "done" /\ JobAgrees(over)
  BY <1>3, Zenon DEF JobRecord, JobStates, JobAgrees, Outcomes, Unsettled
<1>6. CASE ~closed
  <2> DEFINE q == [Pool EXCEPT !.job[j] = waiting, !.queue = @ \cup {j}]
  <2>1. Become(Pump(q))
    BY <1>6 DEF Submit
  <2> HIDE DEF waiting
  <2>2. q \in PoolRecord /\ q.job = [Pool.job EXCEPT ![j] = waiting] /\ q.slots = Pool.slots
        /\ q.queue = Pool.queue \cup {j}
    BY <1>1, <1>4 DEF PoolRecord
  <2> HIDE DEF q
  <2>3. Good(q)
    <3>1. Good(Pool) /\ Pool.job[j].state # "running" /\ waiting.state # "running"
      BY <1>1, <1>4 DEF Inv
    <3>2. q.queue = IF waiting.state = "queued" THEN Pool.queue \cup {j} ELSE Pool.queue \ {j}
      BY <1>4, <2>2
    <3> QED BY <1>4, <2>2, <3>1, <3>2, WaitingJobGood
  <2> QED BY <2>1, <2>3, PumpGood, BecomeGood
<1>7. CASE closed
  <2> DEFINE q == [Pool EXCEPT !.job[j] = over]
  <2>1. Become(q)
    BY <1>7 DEF Submit
  <2> HIDE DEF over
  <2>2. q \in PoolRecord /\ q.job = [Pool.job EXCEPT ![j] = over] /\ q.slots = Pool.slots
        /\ q.queue = Pool.queue \ {j}
    BY <1>1, <1>5 DEF PoolRecord
  <2> HIDE DEF q
  <2>3. Good(q)
    <3>1. Good(Pool) /\ Pool.job[j].state # "running" /\ over.state # "running"
      BY <1>1, <1>5 DEF Inv
    <3>2. q.queue = IF over.state = "queued" THEN Pool.queue \cup {j} ELSE Pool.queue \ {j}
      BY <1>5, <2>2
    <3> QED BY <1>5, <2>2, <3>1, <3>2, WaitingJobGood
  <2> QED BY <2>1, <2>3, BecomeGood
<1> QED BY <1>6, <1>7

LEMMA SchedulePumpGood ==
    ASSUME NEW p, Good(p)
    PROVE  Good(SchedulePump(p))
<1>1. /\ SchedulePump(p) \in PoolRecord /\ SchedulePump(p).job = p.job
      /\ SchedulePump(p).slots = p.slots /\ SchedulePump(p).queue = p.queue
  BY DEF Good, SchedulePump, PoolRecord
<1> QED BY <1>1, GoodDepends

LEMMA CancelQueuedStep ==
    ASSUME Inv, NEW j \in Jobs, CancelQueued(j)
    PROVE  Inv'
<1> DEFINE over == [job[j] EXCEPT !.state = "done", !.outcome = "cancelled"]
           q == [Pool EXCEPT !.queue = @ \ {j}, !.job[j] = [@ EXCEPT !.state = "done",
                                                                 !.outcome = "cancelled"]]
<1>1. /\ Pool \in PoolRecord /\ Good(Pool) /\ Pool.job = job /\ job[j] \in JobRecord
      /\ job \in [Jobs -> JobRecord] /\ job[j].state = "queued"
  BY InvTypes DEF CancelQueued, Inv, Pool
<1>2. ~job[j].timer
  BY <1>1 DEF Good, JobAgrees
<1>3. over \in JobRecord /\ over.state = "done" /\ JobAgrees(over)
  BY <1>1, <1>2, Zenon DEF JobRecord, JobStates, JobAgrees, Outcomes, Unsettled
<1>4. Become(SchedulePump(q))
  BY DEF CancelQueued
<1>5. q = [Pool EXCEPT !.queue = Pool.queue \ {j}, !.job = [Pool.job EXCEPT ![j] = over]]
  BY <1>1 DEF PoolRecord
<1> HIDE DEF over, q
<1>6. q \in PoolRecord /\ q.job = [Pool.job EXCEPT ![j] = over] /\ q.slots = Pool.slots
      /\ q.queue = IF over.state = "queued" THEN Pool.queue \cup {j} ELSE Pool.queue \ {j}
  BY <1>1, <1>3, <1>5 DEF PoolRecord
<1>7. Pool.job[j].state # "running" /\ over.state # "running"
  BY <1>1, <1>3
<1>8. Good(q)
  BY <1>1, <1>3, <1>6, <1>7, WaitingJobGood
<1> QED BY <1>4, <1>8, SchedulePumpGood, BecomeGood

LEMMA CancelExclusiveStep ==
    ASSUME Inv, NEW j \in Jobs, CancelExclusive(j)
    PROVE  Inv'
<1> DEFINE r == [job[j] EXCEPT !.dropped = TRUE]
           q == [Pool EXCEPT !.job[j].dropped = TRUE]
<1>1. /\ Pool \in PoolRecord /\ Good(Pool) /\ Pool.job = job /\ job[j] \in JobRecord
      /\ job \in [Jobs -> JobRecord] /\ job[j].state = "running"
  BY InvTypes DEF CancelExclusive, Inv, Pool
<1>2. JobAgrees(job[j])
  BY <1>1 DEF Good
<1>3. r \in JobRecord /\ r.state = "running" /\ JobAgrees(r) /\ r.exclusive = job[j].exclusive
  BY <1>1, <1>2, Zenon DEF JobRecord, JobAgrees
<1>4. Become(q)
  BY DEF CancelExclusive
<1>5. q = [Pool EXCEPT !.job = [Pool.job EXCEPT ![j] = r]]
  BY <1>1 DEF PoolRecord
<1> HIDE DEF r, q
<1>6. q \in PoolRecord /\ q.job = [Pool.job EXCEPT ![j] = r] /\ q.slots = Pool.slots
      /\ q.queue = Pool.queue
  BY <1>1, <1>3, <1>5 DEF PoolRecord
<1>7. Good(q)
  BY <1>1, <1>3, <1>6, RunningJobGood
<1> QED BY <1>4, <1>7, BecomeGood

LEMMA CancelRunningStep ==
    ASSUME Inv, NEW j \in Jobs, CancelRunning(j)
    PROVE  Inv'
<1>1. PICK s \in Slots : slots[s].job = j /\ Become(Recycle(Pool, s, "cancelled"))
  BY DEF CancelRunning
<1>2. Good(Recycle(Pool, s, "cancelled"))
  BY RecycleGood DEF Inv, Outcomes
<1> QED BY <1>1, <1>2, BecomeGood

LEMMA TimeoutStep ==
    ASSUME Inv, NEW j \in Jobs, Timeout(j)
    PROVE  Inv'
<1>1. CASE ~job[j].exclusive
  <2>1. PICK s \in Slots : slots[s].job = j /\ Become(Recycle(Pool, s, "timeout"))
    BY <1>1 DEF Timeout
  <2>2. Good(Recycle(Pool, s, "timeout"))
    BY RecycleGood DEF Inv, Outcomes
  <2> QED BY <2>1, <2>2, BecomeGood
<1>2. CASE job[j].exclusive
  <2> DEFINE m == [job[j] EXCEPT !.timer = FALSE]
             p == [Pool EXCEPT !.job[j].timer = FALSE]
             q == Settle(p, j, "timeout")
             r == Outcome(m, "timeout")
  <2>1. /\ Pool \in PoolRecord /\ Good(Pool) /\ Pool.job = job /\ job[j] \in JobRecord
        /\ job \in [Jobs -> JobRecord] /\ job[j].state = "running"
    BY InvTypes DEF Timeout, Inv, Good, JobAgrees, Pool
  <2>2. m \in JobRecord /\ m.state = "running" /\ m.exclusive /\ ~m.timer
    BY <1>2, <2>1, Zenon DEF JobRecord
  <2>3. Become(q)
    BY <1>2 DEF Timeout
  <2>4. p = [Pool EXCEPT !.job = [Pool.job EXCEPT ![j] = m]]
    BY <2>1 DEF PoolRecord
  <2> HIDE DEF m, p
  <2>5. p \in PoolRecord /\ p.job = [Pool.job EXCEPT ![j] = m] /\ p.slots = Pool.slots
        /\ p.queue = Pool.queue
    BY <2>1, <2>2, <2>4 DEF PoolRecord
  <2>6. p.job[j] = m
    BY <2>1, <2>5
  <2>7. "timeout" \in Outcomes
    BY DEF Outcomes
  <2>8. r \in JobRecord /\ r.state = "running" /\ r.exclusive = m.exclusive /\ r.timer = m.timer
    BY <2>2, <2>7, OutcomeRecord
  <2>9. JobAgrees(r) /\ r.exclusive = Pool.job[j].exclusive
    <3>1. r.exclusive = TRUE /\ job[j].exclusive = TRUE
      BY <1>2, <2>1, <2>2, <2>8, Zenon DEF JobRecord
    <3> QED BY <2>1, <2>2, <2>8, <3>1 DEF JobAgrees
  <2> HIDE DEF q, r
  <2>10. q \in PoolRecord /\ q.job = [p.job EXCEPT ![j] = r] /\ q.slots = p.slots /\ q.queue = p.queue
    BY <2>5, <2>6, <2>7, SettleEffect DEF q, r
  <2>11. q.job = [Pool.job EXCEPT ![j] = r]
    BY <2>1, <2>5, <2>10
  <2>12. Good(q)
    <3>1. /\ q.slots = Pool.slots /\ q.queue = Pool.queue
          /\ Pool.job[j].state = "running" /\ r.state = "running"
      BY <2>1, <2>2, <2>5, <2>8, <2>10
    <3> QED BY <2>1, <2>8, <2>9, <2>10, <2>11, <3>1, RunningJobGood
  <2> QED BY <2>3, <2>12, BecomeGood
<1> QED BY <1>1, <1>2

-----------------------------------------------------------------------------
(* The events of worker threads. *)
LEMMA AnsweredGood ==
    ASSUME Inv, NEW t \in threads
    PROVE  /\ Good(Answered(Pool, t))
           /\ Answered(Pool, t).slots = slots
           /\ t \in Thread
<1> DEFINE rest == (threads \ {t}) \cup {[t EXCEPT !.job = None]}
<1>1. Pool \in PoolRecord /\ Good(Pool) /\ threads \in SUBSET Thread /\ t \in Thread
  BY InvTypes DEF Inv
<1>2. rest \in SUBSET Thread
  BY <1>1 DEF Thread, Maybe
<1>3. Answered(Pool, t) = [Pool EXCEPT !.threads = rest]
  BY DEF Answered, Pool
<1> HIDE DEF rest
<1>4. [Pool EXCEPT !.threads = rest] \in PoolRecord
  BY <1>1, <1>2 DEF PoolRecord
<1>5. /\ [Pool EXCEPT !.threads = rest].job = Pool.job
      /\ [Pool EXCEPT !.threads = rest].slots = Pool.slots
      /\ [Pool EXCEPT !.threads = rest].queue = Pool.queue
      /\ Pool.slots = slots
  BY <1>1 DEF PoolRecord, Pool
<1> QED BY <1>1, <1>3, <1>4, <1>5, GoodDepends

LEMMA CrashedGood ==
    ASSUME NEW p, Good(p), NEW t \in Thread
    PROVE  Good(Crashed(p, t))
<1>1. t.slot \in Slots /\ "crashed" \in Outcomes
  BY DEF Thread, Outcomes
<1> QED BY <1>1, RecycleGood DEF Crashed

LEMMA MessageStep ==
    ASSUME Inv, NEW t \in threads, Message(t)
    PROVE  Inv'
<1> DEFINE p == Answered(Pool, t)
           current == slots[t.slot].worker = t.id /\ slots[t.slot].job = t.job
           o == IF job[t.job].dropped THEN "dropped" ELSE "ok"
<1>1. Good(p) /\ p.slots = slots /\ t.slot \in Slots /\ o \in Outcomes
  BY AnsweredGood DEF Thread, Outcomes
<1>2. t.job # None /\ Become(IF ~current THEN p ELSE Finish(p, t.slot, o))
  BY DEF Message
<1> HIDE DEF p, o
<1>3. CASE ~current
  BY <1>1, <1>2, <1>3, BecomeGood
<1>4. CASE current
  <2>1. p.slots[t.slot].job # None
    BY <1>1, <1>2, <1>4
  <2>2. Good(Finish(p, t.slot, o))
    BY <1>1, <2>1, FinishGood
  <2> QED BY <1>2, <1>4, <2>2, BecomeGood
<1> QED BY <1>3, <1>4

LEMMA WorkerErrorStep ==
    ASSUME Inv, NEW t \in threads, WorkerError(t)
    PROVE  Inv'
<1>1. Good(Crashed(Answered(Pool, t), t))
  BY AnsweredGood, CrashedGood
<1> QED BY <1>1, BecomeGood DEF WorkerError

LEMMA WorkerExitStep ==
    ASSUME Inv, NEW t \in threads, WorkerExit(t)
    PROVE  Inv'
<1> DEFINE q == [Pool EXCEPT !.threads = @ \ {t}]
<1>1. Pool \in PoolRecord /\ Good(Pool) /\ t \in Thread
  BY InvTypes DEF Inv
<1>2. q \in PoolRecord /\ q.job = Pool.job /\ q.slots = Pool.slots /\ q.queue = Pool.queue
  BY <1>1 DEF PoolRecord
<1>3. Become(Crashed(q, t))
  BY DEF WorkerExit
<1> HIDE DEF q
<1>4. Good(q)
  BY <1>1, <1>2, GoodDepends
<1> QED BY <1>1, <1>3, <1>4, CrashedGood, BecomeGood

LEMMA DeferredPumpStep ==
    ASSUME Inv, DeferredPump
    PROVE  Inv'
<1> DEFINE q == [Pool EXCEPT !.pumpScheduled = FALSE]
<1>1. Pool \in PoolRecord /\ Good(Pool)
  BY InvTypes DEF Inv
<1>2. q \in PoolRecord /\ q.job = Pool.job /\ q.slots = Pool.slots /\ q.queue = Pool.queue
  BY <1>1 DEF PoolRecord
<1>3. Become(Pump(q))
  BY DEF DeferredPump
<1> HIDE DEF q
<1>4. Good(q)
  BY <1>1, <1>2, GoodDepends
<1> QED BY <1>3, <1>4, PumpGood, BecomeGood

-----------------------------------------------------------------------------
(* close sweeps the slots: again a recursive function, over the slots.     *)
IsSweep(g, p, m) ==
    g = [s \in 0 .. m |-> IF s = 0 THEN p ELSE Recycle(g[s - 1], s, "cancelled")]

LEMMA SweepExists ==
    ASSUME NEW p
    PROVE  \A m \in Nat : \E g : IsSweep(g, p, m)
<1> DEFINE Bad == {m \in Nat : ~\E g : IsSweep(g, p, m)}
<1> SUFFICES ASSUME Bad # {} PROVE FALSE
  OBVIOUS
<1>1. PICK m \in Bad : \A n \in Bad : m <= n
  <2>1. Bad \in SUBSET Nat
    OBVIOUS
  <2> HIDE DEF Bad
  <2> QED BY <2>1, LeastNatural
<1>2. m # 0
  <2>1. IsSweep([s \in 0 .. 0 |-> p], p, 0)
    BY DEF IsSweep
  <2> QED BY <2>1
<1>3. m - 1 \in Nat /\ m - 1 \notin Bad
  BY <1>1, <1>2
<1>4. PICK g : IsSweep(g, p, m - 1)
  BY <1>3
<1> DEFINE h == [s \in 0 .. m |-> IF s < m THEN g[s] ELSE Recycle(g[m - 1], m, "cancelled")]
<1>5. \A s \in 0 .. m - 1 : g[s] = IF s = 0 THEN p ELSE Recycle(g[s - 1], s, "cancelled")
  BY <1>3, <1>4 DEF IsSweep
<1>6. ASSUME NEW s \in 0 .. m
      PROVE  h[s] = IF s = 0 THEN p ELSE Recycle(h[s - 1], s, "cancelled")
  <2>1. CASE s = 0
    BY <1>3, <1>5, <2>1
  <2>2. CASE s # 0
    <3>1. h[s - 1] = g[s - 1] /\ h[s] = Recycle(g[s - 1], s, "cancelled")
      BY <1>5, <2>2
    <3> QED BY <2>2, <3>1
  <2> QED BY <2>1, <2>2
<1>7. IsSweep(h, p, m)
  <2>1. h = [s \in 0 .. m |-> h[s]]
    OBVIOUS
  <2> HIDE DEF h
  <2> QED BY <1>6, <2>1 DEF IsSweep
<1> QED BY <1>7

LEMMA SweepGood ==
    ASSUME NEW p, Good(p), NEW g, IsSweep(g, p, Size)
    PROVE  Good(g[Size])
<1>1. \A s \in 0 .. Size : g[s] = IF s = 0 THEN p ELSE Recycle(g[s - 1], s, "cancelled")
  BY SizeAssumption DEF IsSweep
<1> DEFINE Bad == {s \in 0 .. Size : ~Good(g[s])}
<1>2. Good(g[0])
  BY <1>1, SizeAssumption
<1>3. ASSUME NEW s \in 1 .. Size, Good(g[s - 1]) PROVE Good(g[s])
  <2>1. g[s] = Recycle(g[s - 1], s, "cancelled") /\ s \in Slots
    BY <1>1, SizeAssumption DEF Slots
  <2> QED BY <1>3, <2>1, RecycleGood DEF Outcomes
<1>4. Bad = {}
  <2> SUFFICES ASSUME Bad # {} PROVE FALSE
    OBVIOUS
  <2>1. PICK m \in Bad : \A n \in Bad : m <= n
    <3>1. Bad \in SUBSET Nat
      BY SizeAssumption
    <3> HIDE DEF Bad
    <3> QED BY <3>1, LeastNatural
  <2>2. m \in 1 .. Size /\ m - 1 \notin Bad /\ m - 1 \in 0 .. Size
    BY <1>2, <2>1, SizeAssumption
  <2> QED BY <1>3, <2>2
<1> QED BY <1>4, SizeAssumption

LEMMA CloseStep ==
    ASSUME Inv, Close
    PROVE  Inv'
<1> DEFINE over(j) == [job[j] EXCEPT !.state = "done", !.outcome = "cancelled"]
           job1 == [j \in Jobs |-> IF j \in queue THEN over(j) ELSE job[j]]
           drained == [Pool EXCEPT !.closed = TRUE, !.queue = {}, !.job = job1]
           f == CHOOSE g : IsSweep(g, drained, Size)
<1>1. /\ Pool \in PoolRecord /\ Good(Pool) /\ Pool.job = job /\ Pool.queue = queue
      /\ job \in [Jobs -> JobRecord] /\ queue \in SUBSET Jobs
  BY InvTypes DEF Inv, Pool
<1>2. ASSUME NEW j \in queue
      PROVE  over(j) \in JobRecord /\ over(j).state = "done" /\ JobAgrees(over(j))
             /\ job[j].state = "queued"
  <2>1. j \in Jobs /\ job[j] \in JobRecord /\ job[j].state = "queued"
    BY <1>1 DEF Good, QueueAgrees
  <2>2. ~job[j].timer
    BY <1>1, <2>1 DEF Good, JobAgrees
  <2> QED BY <2>1, <2>2, Zenon DEF JobRecord, JobStates, JobAgrees, Outcomes, Unsettled
<1> HIDE DEF over
<1>3. job1 \in [Jobs -> JobRecord]
  BY <1>1, <1>2
<1>4. \A j \in Jobs : job1[j] = IF j \in queue THEN over(j) ELSE job[j]
  OBVIOUS
<1> HIDE DEF job1
<1>5. /\ drained \in PoolRecord /\ drained.job = job1 /\ drained.slots = Pool.slots
      /\ drained.queue = {}
  BY <1>1, <1>3 DEF PoolRecord
<1> HIDE DEF drained
<1>6. \A s \in Slots : Pool.slots[s].job # None =>
          Pool.slots[s].job \in Jobs /\ Pool.slots[s].job \notin queue
  BY <1>1, <1>2 DEF Good, PoolRecord, SlotRecord, SlotsRun, Maybe
<1>7. Good(drained)
  <2>1. QueueAgrees(drained)
    BY <1>1, <1>2, <1>4, <1>5 DEF Good, QueueAgrees
  <2>2. SlotsRun(drained) /\ Alone(drained) /\ OneSlotEach(drained)
    BY <1>1, <1>4, <1>5, <1>6 DEF Good, SlotsRun, Alone, OneSlotEach
  <2>3. RunningHaveSlots(drained)
    BY <1>1, <1>2, <1>4, <1>5 DEF Good, RunningHaveSlots
  <2>4. \A j \in Jobs : JobAgrees(drained.job[j])
    BY <1>1, <1>2, <1>4, <1>5 DEF Good
  <2> QED BY <1>5, <2>1, <2>2, <2>3, <2>4 DEF Good
<1>8. Become(f[Size])
  BY Zenon DEF Close, IsSweep, drained, job1, over
<1>9. IsSweep(f, drained, Size)
  BY SweepExists, SizeAssumption
<1> HIDE DEF f
<1>10. Good(f[Size])
  BY <1>7, <1>9, SweepGood
<1> QED BY <1>8, <1>10, BecomeGood

-----------------------------------------------------------------------------
(* Every step keeps the invariant. *)
LEMMA NextInv == Inv /\ [Next]_vars => Inv'
<1> SUFFICES ASSUME Inv, [Next]_vars PROVE Inv'
  OBVIOUS
<1>1. CASE \E j \in Jobs : \E k \in Keys, exclusive \in BOOLEAN : Submit(j, k, exclusive)
  BY <1>1, SubmitStep
<1>2. CASE \E j \in Jobs : Cancel(j)
  BY <1>2, CancelQueuedStep, CancelExclusiveStep, CancelRunningStep DEF Cancel
<1>3. CASE \E j \in Jobs : Timeout(j)
  BY <1>3, TimeoutStep
<1>4. CASE \E t \in threads : Message(t) \/ WorkerError(t) \/ WorkerExit(t)
  BY <1>4, MessageStep, WorkerErrorStep, WorkerExitStep
<1>5. CASE DeferredPump
  BY <1>5, DeferredPumpStep
<1>6. CASE Close
  BY <1>6, CloseStep
<1>7. CASE UNCHANGED vars
  BY <1>7 DEF vars, Inv, Pool
<1> QED BY <1>1, <1>2, <1>3, <1>4, <1>5, <1>6, <1>7 DEF Next

(* The bookkeeping of createToolPool is exact after every event. *)
THEOREM InvHolds == Spec => []Inv
BY InitInv, NextInv, PTL DEF Spec

(* Every variable of the pool always has its type. *)
THEOREM TypeCorrect == Spec => []TypeOK
<1>1. Inv => TypeOK
  BY DEF Inv, Good, Pool, PoolRecord, TypeOK, JobRecord, SlotRecord, PinRecord, Thread
<1> QED BY <1>1, InvHolds, PTL

(* Queue, slots, timers and outcomes always agree with the jobs' states.   *)
THEOREM BookkeepingHolds == Spec => []Bookkeeping
<1>1. Inv => Bookkeeping
  <2> SUFFICES ASSUME Inv PROVE Bookkeeping
    OBVIOUS
  <2>1. queue = {j \in Jobs : job[j].state = "queued"}
    BY InvTypes DEF Inv, Good, QueueAgrees, Pool
  <2> QED BY <2>1 DEF Inv, Good, Pool, SlotsRun, RunningHaveSlots, OneSlotEach, JobAgrees, Bookkeeping
<1> QED BY <1>1, InvHolds, PTL

(* A write always runs alone. *)
THEOREM WritesRunAlone == Spec => []ExclusiveAlone
<1>1. Inv => ExclusiveAlone
  BY DEF Inv, Good, Alone, Pool, ExclusiveAlone
<1> QED BY <1>1, InvHolds, PTL

-----------------------------------------------------------------------------
(***************************************************************************)
(* What the pool promises its caller.  All of it rests on what one pump    *)
(* does (PumpOnward): which jobs it may start and what it leaves alone.    *)
(***************************************************************************)

(* Jobs are submitted in the order of their ids, each with a key. *)
InOrder(p) ==
    \A i, j \in Jobs : i < j /\ p.job[j].state # "new" => p.job[i].state # "new"

KeysKnown(p) == \A j \in Jobs : p.job[j].state # "new" => p.job[j].key \in Keys

NothingQueuedOnceClosed(p) == p.closed => p.queue = {}

(***************************************************************************)
(* No wakeup is lost where no key that a job waits for is forgotten: the   *)
(* map keeps every key, or there are at most two workers, so that the pin  *)
(* that makes the map forget fills the pool.  With three workers a job can *)
(* wait for a busy slot whose pin a later job pushes out of the map: it    *)
(* stays queued beside a free slot until some job ends.                    *)
(***************************************************************************)
PinsSuffice == Size <= 2 \/ Cardinality(Keys) <= AffinityLimit

BlockedIn(p, j) ==
    \/ Busy(p) = Slots
    \/ ExclusiveRuns(p)
    \/ \E i \in p.queue : i < j /\ p.job[i].exclusive
    \/ p.job[j].exclusive /\ Busy(p) # {}
    \/ p.affinity[p.job[j].key].slot \in Busy(p)

Awake(p) == p.pumpScheduled \/ \A j \in p.queue : BlockedIn(p, j)

Orderly(p) == InOrder(p) /\ KeysKnown(p) /\ NothingQueuedOnceClosed(p)

Steady(p) == Orderly(p) /\ (PinsSuffice => Awake(p))

-----------------------------------------------------------------------------
(* What start does to the rest of the pool. *)
LEMMA SpawnTouches ==
    ASSUME NEW p \in PoolRecord, NEW s \in Slots
    PROVE  /\ Spawn(p, s).affinity = p.affinity
           /\ Spawn(p, s).pumpScheduled = p.pumpScheduled
           /\ \A r \in Slots : p.slots[r].worker # None
                                  => Spawn(p, s).slots[r].worker = p.slots[r].worker
           /\ \A t \in Spawn(p, s).threads : t \in p.threads \/ t.job = None
<1>1. CASE p.slots[s].worker # None
  BY <1>1 DEF Spawn
<1>2. CASE p.slots[s].worker = None
  <2> DEFINE w == p.spawned + 1
             slots1 == [p.slots EXCEPT ![s].worker = w]
             threads1 == p.threads \cup {[id |-> w, slot |-> s, job |-> None]}
  <2>1. Spawn(p, s) = [p EXCEPT !.spawned = w, !.slots = slots1, !.threads = threads1]
    BY <1>2 DEF Spawn, PoolRecord
  <2>2. \A r \in Slots : p.slots[r].worker # None => slots1[r].worker = p.slots[r].worker
    BY <1>2 DEF PoolRecord, SlotRecord
  <2>3. \A t \in threads1 : t \in p.threads \/ t.job = None
    OBVIOUS
  <2> HIDE DEF w, slots1, threads1
  <2> QED BY <2>1, <2>2, <2>3 DEF PoolRecord
<1> QED BY <1>1, <1>2

LEMMA PinTouches ==
    ASSUME NEW p \in PoolRecord, NEW k, NEW s \in Slots
    PROVE  /\ Pin(p, k, s).threads = p.threads
           /\ Pin(p, k, s).pumpScheduled = p.pumpScheduled
BY DEF Pin, PoolRecord

LEMMA StartTouches ==
    ASSUME NEW p \in PoolRecord, NEW s \in Slots, NEW j \in Jobs
    PROVE  LET q == Start(p, s, j)
           IN /\ q.pumpScheduled = p.pumpScheduled
              /\ q.affinity = Pin(p, p.job[j].key, s).affinity
              /\ \A r \in Slots : p.slots[r].worker # None
                                     => q.slots[r].worker = p.slots[r].worker
              /\ \A t \in q.threads : t \in p.threads \/ t.job \in {None, j}
<1> DEFINE m == Pin(p, p.job[j].key, s)
           n == Spawn(m, s)
           slots1 == [n.slots EXCEPT ![s].job = j]
           job1 == [n.job EXCEPT ![j] = Begun(n.job[j])]
<1>1. /\ n \in PoolRecord /\ n.affinity = m.affinity /\ n.pumpScheduled = p.pumpScheduled
      /\ \A r \in Slots : p.slots[r].worker # None => n.slots[r].worker = p.slots[r].worker
      /\ \A t \in n.threads : t \in p.threads \/ t.job = None
  BY PinKeeps, SpawnKeeps, PinTouches, SpawnTouches
<1>2. Start(p, s, j) = [n EXCEPT !.queue = n.queue \ {j}, !.slots = slots1, !.job = job1,
                                 !.threads = Post(n, s, j)]
  <2> HIDE DEF m
  <2>1. Start(p, s, j) = [n EXCEPT !.queue = @ \ {j}, !.slots[s].job = j,
                                   !.job[j] = [@ EXCEPT !.state = "running", !.timer = TRUE],
                                   !.threads = Post(n, s, j)]
    BY DEF Start, m
  <2> HIDE DEF n
  <2> QED BY <2>1, <1>1 DEF PoolRecord, Begun
<1>3. \A t \in Post(n, s, j) : t \in n.threads \/ t.job = j
  BY <1>1 DEF Post, PoolRecord, Thread
<1> HIDE DEF n
<1>4. \A r \in Slots : slots1[r].worker = n.slots[r].worker
  BY <1>1 DEF PoolRecord, SlotRecord
<1> HIDE DEF slots1, job1, m
<1>5. /\ Start(p, s, j).slots = slots1 /\ Start(p, s, j).threads = Post(n, s, j)
      /\ Start(p, s, j).affinity = n.affinity
      /\ Start(p, s, j).pumpScheduled = n.pumpScheduled
  BY <1>1, <1>2 DEF PoolRecord
<1> QED BY <1>1, <1>3, <1>4, <1>5 DEF m

(* What the loop body of pump does with one job. *)
LEMMA ConsiderCases ==
    ASSUME NEW pass, PassGood(pass), NEW j \in Jobs
    PROVE  LET p == pass.pool
               next == Consider(pass, j)
               passed == ~pass.halted /\ j \in p.queue
           IN \/ ~passed /\ next = pass
              \/ /\ passed /\ next.pool = p /\ next.halted = TRUE
                 /\ Busy(p) = Slots \/ (p.job[j].exclusive /\ Busy(p) # {})
              \/ /\ passed /\ next = pass /\ SlotFor(p, p.job[j].key) = None
                 /\ Busy(p) # Slots /\ (p.job[j].exclusive => Busy(p) = {})
              \/ /\ passed /\ Busy(p) # Slots /\ (p.job[j].exclusive => Busy(p) = {})
                 /\ \E s \in Slots \ Busy(p) :
                       next.pool = Start(p, s, j) /\ next.halted = p.job[j].exclusive
<1> DEFINE p == pass.pool
           s == SlotFor(p, p.job[j].key)
<1>1. pass \in [pool : PoolRecord, halted : BOOLEAN]
  BY DEF PassGood
<1>2. s = None \/ s \in Slots \ Busy(p)
  BY SlotForFree
<1>3. CASE pass.halted \/ j \notin p.queue
  BY <1>3 DEF Consider
<1>4. CASE ~(pass.halted \/ j \notin p.queue) /\ (Busy(p) = Slots \/ (p.job[j].exclusive /\ Busy(p) # {}))
  <2>1. Consider(pass, j) = [pass EXCEPT !.halted = TRUE]
    BY <1>4 DEF Consider
  <2>2. [pass EXCEPT !.halted = TRUE].pool = p /\ [pass EXCEPT !.halted = TRUE].halted = TRUE
    BY <1>1
  <2> QED BY <1>4, <2>1, <2>2
<1>5. CASE /\ ~(pass.halted \/ j \notin p.queue)
           /\ ~(Busy(p) = Slots \/ (p.job[j].exclusive /\ Busy(p) # {}))
           /\ s = None
  BY <1>5 DEF Consider
<1>6. CASE /\ ~(pass.halted \/ j \notin p.queue)
           /\ ~(Busy(p) = Slots \/ (p.job[j].exclusive /\ Busy(p) # {}))
           /\ s # None
  <2>1. Consider(pass, j) = [pool |-> Start(p, s, j), halted |-> p.job[j].exclusive]
    BY <1>6 DEF Consider
  <2> HIDE DEF s
  <2> QED BY <1>2, <1>6, <2>1
<1> QED BY <1>3, <1>4, <1>5, <1>6

-----------------------------------------------------------------------------
(***************************************************************************)
(* A pump from pool p, after it considered the jobs up to n.  Jobs it did  *)
(* not start are as they were; a thread has new work only if that waited;  *)
(* no write is overtaken and none overtakes.                               *)
(***************************************************************************)
Begins(p, q, j) == j \in p.queue /\ ~p.closed /\ q.job[j] = Begun(p.job[j])

OvertakesNoWrite(p, q) ==
    \A i, j \in Jobs :
        j \in p.queue /\ q.job[j].state = "running" /\ i < j /\ (p.job[i].exclusive \/ p.job[j].exclusive)
            => p.job[i].state \in {"new", "done"}

PumpKeeps(p, q) ==
    /\ q.closed = p.closed /\ q.pumpScheduled = p.pumpScheduled
    /\ \A j \in Jobs : q.job[j] = p.job[j] \/ Begins(p, q, j)
    /\ \A s \in Slots : p.slots[s].worker # None => q.slots[s].worker = p.slots[s].worker
    /\ \A t \in q.threads : t \in p.threads \/ t.job = None \/ t.job \in p.queue
    /\ OvertakesNoWrite(p, q)

PassedOver(q, n) == \A i \in q.queue : i <= n => ~q.job[i].exclusive /\ Busy(q) # {}

Onward(p, pass, n) ==
    /\ PassGood(pass)
    /\ PumpKeeps(p, pass.pool)
    /\ p.closed => pass.halted
    /\ ~pass.halted => PassedOver(pass.pool, n)

LEMMA OnwardFirst ==
    ASSUME NEW p, Good(p)
    PROVE  Onward(p, First(p), 0) /\ First(p).pool = p
<1>1. First(p) \in [pool : PoolRecord, halted : BOOLEAN]
  BY DEF First, Good, PoolRecord, ExclusiveRuns
<1>2. PassGood(First(p)) /\ First(p).pool = p /\ (p.closed => First(p).halted)
  BY <1>1 DEF PassGood, First
<1>3. p \in PoolRecord /\ p.queue \in SUBSET Jobs
  BY DEF Good, PoolRecord
<1>4. OvertakesNoWrite(p, p)
  BY DEF OvertakesNoWrite, Good, QueueAgrees
<1>5. PassedOver(p, 0)
  BY <1>3 DEF Jobs, PassedOver
<1> HIDE DEF First
<1> QED BY <1>2, <1>4, <1>5 DEF Onward, PumpKeeps

(* The queue only shrinks in a pump, and keys and writes stay. *)
LEMMA PumpKeepsJobs ==
    ASSUME NEW p, Good(p), NEW q, Good(q), PumpKeeps(p, q)
    PROVE  /\ q.queue \subseteq p.queue
           /\ \A j \in Jobs : /\ q.job[j].key = p.job[j].key
                              /\ q.job[j].exclusive = p.job[j].exclusive
                              /\ q.job[j].outcome = p.job[j].outcome
                              /\ q.job[j].dropped = p.job[j].dropped
                              /\ \/ q.job[j].state = p.job[j].state
                                 \/ j \in p.queue /\ q.job[j].state = "running"
           /\ KeysKnown(p) => KeysKnown(q)
<1>1. /\ p.job \in [Jobs -> JobRecord] /\ p.queue \in SUBSET Jobs /\ q.queue \in SUBSET Jobs
  BY DEF Good, PoolRecord
<1>2. \A r \in JobRecord : Begun(r).key = r.key /\ Begun(r).dropped = r.dropped
  BY Zenon DEF Begun, JobRecord
<1>3. ASSUME NEW j \in Jobs
      PROVE  /\ q.job[j].key = p.job[j].key
             /\ q.job[j].exclusive = p.job[j].exclusive
             /\ q.job[j].outcome = p.job[j].outcome
             /\ q.job[j].dropped = p.job[j].dropped
             /\ \/ q.job[j].state = p.job[j].state
                \/ j \in p.queue /\ q.job[j].state = "running"
  <2>1. p.job[j] \in JobRecord
    BY <1>1
  <2>2. CASE Begins(p, q, j)
    BY <1>2, <2>1, <2>2, BegunRecord DEF Begins
  <2> QED BY <2>2 DEF PumpKeeps
<1>4. q.queue \subseteq p.queue
  BY <1>1, <1>3 DEF Good, QueueAgrees
<1>5. KeysKnown(p) => KeysKnown(q)
  BY <1>3 DEF KeysKnown, Good, QueueAgrees
<1> QED BY <1>3, <1>4, <1>5

(* slotFor finds no slot: all are taken, or the one of the key is. *)
LEMMA SlotForNone ==
    ASSUME NEW p \in PoolRecord, NEW k \in Keys, SlotFor(p, k) = None
    PROVE  Busy(p) = Slots \/ p.affinity[k].slot \in Busy(p)
<1> DEFINE free == Slots \ Busy(p)
           warm == {s \in free : p.slots[s].worker # None}
<1>1. \A S \in SUBSET Slots : S # {} => Least(S) \in S
  <2> SUFFICES ASSUME NEW S \in SUBSET Slots, S # {} PROVE \E x \in S : \A y \in S : x <= y
    BY DEF Least
  <2>1. S \in SUBSET Nat
    BY SizeAssumption DEF Slots
  <2> QED BY <2>1, LeastNatural
<1>2. warm # {} => Least(warm) \in Slots
  BY <1>1
<1>3. free # {} => Least(free) \in Slots
  BY <1>1
<1>4. None \notin Slots
  BY DEF None, Slots
<1>5. p.affinity[k].slot \in Maybe(Slots)
  BY DEF PoolRecord, PinRecord
<1>6. CASE p.affinity[k].slot # None
  BY <1>4, <1>5, <1>6 DEF SlotFor, Maybe
<1>7. CASE p.affinity[k].slot = None
  BY <1>2, <1>3, <1>4, <1>7 DEF SlotFor, Busy
<1> QED BY <1>6, <1>7

(* A job that a pump reaches and starts overtakes no write: an unfinished  *)
(* job before it is running, or was passed over because its slot is busy.  *)
LEMMA StartInTurn ==
    ASSUME NEW p, Good(p), NEW q, Good(q), PumpKeeps(p, q),
           NEW n \in q.queue, PassedOver(q, n - 1), ~ExclusiveRuns(q),
           q.job[n].exclusive => Busy(q) = {}
    PROVE  \A i \in Jobs : i < n /\ (p.job[i].exclusive \/ p.job[n].exclusive)
                              => p.job[i].state \in {"new", "done"}
<1> SUFFICES ASSUME NEW i \in Jobs, i < n, p.job[i].exclusive \/ p.job[n].exclusive,
                    p.job[i].state \notin {"new", "done"}
             PROVE  FALSE
  OBVIOUS
<1>1. n \in Jobs /\ n \in p.queue /\ q \in PoolRecord /\ p.job \in [Jobs -> JobRecord]
  BY PumpKeepsJobs DEF Good, PoolRecord
<1>2. q.job[i].exclusive = p.job[i].exclusive /\ q.job[n].exclusive = p.job[n].exclusive
  BY <1>1, PumpKeepsJobs
<1>3. p.job[i].state \in JobStates
  BY <1>1 DEF JobRecord
<1>4. q.job[i].state = "running" \/ q.job[i].state = "queued"
  BY <1>3, PumpKeepsJobs DEF JobStates
<1>5. CASE q.job[i].state = "running"
  <2>1. PICK s \in Slots : q.slots[s].job = i
    BY <1>5 DEF Good, RunningHaveSlots
  <2>2. s \in Busy(q)
    BY <2>1 DEF Busy, Jobs, None
  <2> QED BY <1>2, <2>1, <2>2 DEF ExclusiveRuns
<1>6. CASE q.job[i].state = "queued"
  <2>1. i \in q.queue /\ i <= n - 1
    BY <1>1, <1>6 DEF Good, QueueAgrees, Jobs
  <2> QED BY <1>2, <2>1 DEF PassedOver
<1> QED BY <1>4, <1>5, <1>6

LEMMA StartOnward ==
    ASSUME NEW p, Good(p), NEW q, Good(q), PumpKeeps(p, q), ~p.closed,
           NEW n \in q.queue, PassedOver(q, n - 1), ~ExclusiveRuns(q),
           q.job[n].exclusive => Busy(q) = {}, NEW s \in Slots \ Busy(q)
    PROVE  /\ PumpKeeps(p, Start(q, s, n))
           /\ ~q.job[n].exclusive => PassedOver(Start(q, s, n), n)
<1> DEFINE r == Start(q, s, n)
<1>1. /\ q \in PoolRecord /\ n \in Jobs /\ n \in p.queue /\ q.queue \in SUBSET Jobs
      /\ p.job \in [Jobs -> JobRecord] /\ q.job \in [Jobs -> JobRecord]
  BY PumpKeepsJobs DEF Good, PoolRecord
<1>2. /\ r.queue = q.queue \ {n} /\ r.closed = q.closed /\ r.pumpScheduled = q.pumpScheduled
      /\ r.job = [q.job EXCEPT ![n] = Begun(q.job[n])]
      /\ \A i \in Slots : r.slots[i].job = IF i = s THEN n ELSE q.slots[i].job
      /\ \A i \in Slots : q.slots[i].worker # None => r.slots[i].worker = q.slots[i].worker
      /\ \A t \in r.threads : t \in q.threads \/ t.job \in {None, n}
  BY <1>1, StartEffect, StartTouches
<1> HIDE DEF r
<1>3. q.job[n] = p.job[n]
  <2>1. q.job[n].state = "queued"
    BY <1>1 DEF Good, QueueAgrees
  <2>2. Begun(p.job[n]).state = "running"
    BY <1>1, BegunRecord
  <2> QED BY <1>1, <2>1, <2>2 DEF PumpKeeps, Begins
<1>4. \A j \in Jobs : r.job[j] = IF j = n THEN Begun(p.job[n]) ELSE q.job[j]
  BY <1>1, <1>2, <1>3
<1>5. \A j \in Jobs : r.job[j] = p.job[j] \/ Begins(p, r, j)
  BY <1>1, <1>4 DEF PumpKeeps, Begins
<1>6. OvertakesNoWrite(p, r)
  <2> SUFFICES ASSUME NEW i \in Jobs, NEW j \in Jobs,
                      j \in p.queue, r.job[j].state = "running", i < j,
                      p.job[i].exclusive \/ p.job[j].exclusive
               PROVE  p.job[i].state \in {"new", "done"}
    BY DEF OvertakesNoWrite
  <2>1. CASE j = n
    BY <2>1, StartInTurn
  <2>2. CASE j # n
    BY <1>4, <2>2 DEF PumpKeeps, OvertakesNoWrite
  <2> QED BY <2>1, <2>2
<1>7. PumpKeeps(p, r)
  <2>1. \A i \in Slots : p.slots[i].worker # None => r.slots[i].worker = p.slots[i].worker
    BY <1>2 DEF PumpKeeps
  <2>2. \A t \in r.threads : t \in p.threads \/ t.job = None \/ t.job \in p.queue
    BY <1>1, <1>2 DEF PumpKeeps
  <2> QED BY <1>2, <1>5, <1>6, <2>1, <2>2 DEF PumpKeeps
<1>8. ASSUME ~q.job[n].exclusive PROVE PassedOver(r, n)
  <2>1. s \in Busy(r)
    BY <1>1, <1>2 DEF Busy, Jobs, None
  <2>2. ASSUME NEW i \in r.queue, i <= n PROVE ~r.job[i].exclusive
    <3>1. i \in q.queue /\ i # n /\ i \in Jobs /\ i <= n - 1
      BY <1>1, <1>2, <2>2 DEF Jobs
    <3> QED BY <1>4, <3>1 DEF PassedOver
  <2> QED BY <2>1, <2>2 DEF PassedOver
<1> QED BY <1>7, <1>8 DEF r

LEMMA ConsiderOnward ==
    ASSUME NEW p, Good(p), KeysKnown(p), NEW pass, NEW n \in 1 .. MaxJobs, Onward(p, pass, n - 1)
    PROVE  Onward(p, Consider(pass, n), n)
<1> DEFINE q == pass.pool
           next == Consider(pass, n)
<1>1. /\ n \in Jobs /\ PassGood(pass) /\ Good(q) /\ q \in PoolRecord /\ PumpKeeps(p, q)
      /\ q.queue \in SUBSET Jobs /\ (p.closed => pass.halted)
  BY DEF Onward, PassGood, Jobs, Good, PoolRecord
<1>2. PassGood(next)
  BY <1>1, ConsiderGood
<1>3. ~pass.halted => PassedOver(q, n - 1)
  BY DEF Onward
<1> SUFFICES Onward(p, next, n)
  OBVIOUS
<1> HIDE DEF q, next
<1>4. CASE next = pass /\ ~(~pass.halted /\ n \in q.queue)
  <2>1. ~pass.halted => PassedOver(q, n)
    BY <1>1, <1>3, <1>4 DEF PassedOver, Jobs
  <2> QED BY <1>1, <1>4, <2>1 DEF Onward, q
<1>5. CASE next.pool = q /\ next.halted = TRUE
  BY <1>1, <1>2, <1>5 DEF Onward
<1>6. CASE /\ ~pass.halted /\ n \in q.queue /\ next = pass /\ SlotFor(q, q.job[n].key) = None
           /\ Busy(q) # Slots /\ (q.job[n].exclusive => Busy(q) = {})
  <2>1. q.job[n].key \in Keys
    BY <1>1, <1>6, PumpKeepsJobs DEF KeysKnown, Good, QueueAgrees
  <2>2. Busy(q) # {}
    BY <1>1, <1>6, <2>1, SlotForNone
  <2>3. PassedOver(q, n)
    BY <1>1, <1>3, <1>6, <2>2 DEF PassedOver, Jobs
  <2> QED BY <1>1, <1>6, <2>3 DEF Onward, q
<1>7. ASSUME ~pass.halted, n \in q.queue, q.job[n].exclusive => Busy(q) = {},
             NEW s \in Slots \ Busy(q),
             next.pool = Start(q, s, n), next.halted = q.job[n].exclusive
      PROVE  Onward(p, next, n)
  <2>1. ~ExclusiveRuns(q) /\ ~p.closed
    BY <1>1, <1>7 DEF PassGood, q
  <2>2. PumpKeeps(p, next.pool) /\ (~next.halted => PassedOver(next.pool, n))
    BY <1>1, <1>3, <1>7, <2>1, StartOnward
  <2> QED BY <1>2, <2>1, <2>2 DEF Onward
<1> QED
  <2>1. \/ ~(~pass.halted /\ n \in q.queue) /\ next = pass
        \/ next.pool = q /\ next.halted = TRUE
        \/ /\ ~pass.halted /\ n \in q.queue /\ next = pass /\ SlotFor(q, q.job[n].key) = None
           /\ Busy(q) # Slots /\ (q.job[n].exclusive => Busy(q) = {})
        \/ /\ ~pass.halted /\ n \in q.queue /\ (q.job[n].exclusive => Busy(q) = {})
           /\ \E s \in Slots \ Busy(q) :
                 next.pool = Start(q, s, n) /\ next.halted = q.job[n].exclusive
    BY <1>1, ConsiderCases DEF q, next
  <2> QED BY <1>4, <1>5, <1>6, <1>7, <2>1

-----------------------------------------------------------------------------
(***************************************************************************)
(* What a pump leaves waiting is blocked: behind a halt, or as the slot of *)
(* its key is busy.                                                        *)
(***************************************************************************)
LeftBehind(pass, n) ==
    LET q == pass.pool
    IN /\ pass.halted => \A i \in q.queue : BlockedIn(q, i)
       /\ ~pass.halted => \A i \in q.queue : i <= n =>
              Busy(q) = Slots \/ q.affinity[q.job[i].key].slot \in Busy(q)

LEMMA FirstLeaves ==
    ASSUME NEW p, Good(p), NothingQueuedOnceClosed(p)
    PROVE  LeftBehind(First(p), 0)
<1>1. p.queue \in SUBSET Jobs /\ p.closed \in BOOLEAN
  BY DEF Good, PoolRecord
<1>2. First(p).pool = p /\ First(p).halted = (p.closed \/ ExclusiveRuns(p))
  BY DEF First
<1> QED BY <1>1, <1>2 DEF LeftBehind, NothingQueuedOnceClosed, BlockedIn, Jobs

(* A pin of a busy slot survives a new pin, or the new pin fills the pool. *)
LEMMA PinSpares ==
    ASSUME NEW p \in PoolRecord, PinsSuffice, NEW k \in Keys, NEW i \in Keys,
           NEW s \in Slots \ Busy(p), p.affinity[i].slot \in Busy(p)
    PROVE  Pin(p, k, s).affinity[i].slot = p.affinity[i].slot \/ Busy(p) \cup {s} = Slots
<1>1. CASE Size <= 2
  <2>1. Busy(p) \subseteq Slots
    BY DEF Busy
  <2>2. \A r \in Slots : r = 1 \/ r = 2
    BY <1>1, SizeAssumption DEF Slots
  <2> QED BY <2>1, <2>2
<1>2. CASE Cardinality(Keys) <= AffinityLimit
  <2> DEFINE aged == [p.affinity EXCEPT ![k] = [slot |-> s, since |-> p.pins + 1]]
             pinned == Pinned(p) \cup {k}
             oldest == CHOOSE o \in pinned : \A j \in pinned : aged[o].since <= aged[j].since
  <2>1. p.affinity \in [Keys -> PinRecord]
    BY DEF PoolRecord
  <2>2. CASE p.affinity[k].slot # None
    BY <2>2 DEF Pin
  <2>3. CASE p.affinity[k].slot = None
    <3>1. i # k
      BY <2>3 DEF Busy, Slots, None
    <3>2. ~(Cardinality(pinned) > AffinityLimit)
      <4>1. pinned \subseteq Keys
        BY DEF Pinned
      <4>2. Cardinality(pinned) <= Cardinality(Keys) /\ IsFiniteSet(pinned)
        BY <4>1, KeysAssumption, FS_Subset
      <4>3. Cardinality(pinned) \in Nat /\ Cardinality(Keys) \in Nat
        BY <4>2, KeysAssumption, FS_CardinalityType
      <4> HIDE DEF pinned
      <4> QED BY <1>2, <4>2, <4>3, AffinityLimitAssumption
    <3>3. Pin(p, k, s) = [p EXCEPT !.pins = @ + 1, !.affinity = aged]
      BY <2>3, <3>2 DEF Pin
    <3>4. aged[i] = p.affinity[i]
      BY <2>1, <3>1
    <3> HIDE DEF aged
    <3> QED BY <3>3, <3>4 DEF PoolRecord
  <2> QED BY <2>2, <2>3
<1> QED BY <1>1, <1>2 DEF PinsSuffice

LEMMA StartLeaves ==
    ASSUME NEW q, Good(q), KeysKnown(q), PinsSuffice, NEW n \in q.queue,
           NEW s \in Slots \ Busy(q), Busy(q) # Slots, NEW i \in q.queue,
           i < n, q.affinity[q.job[i].key].slot \in Busy(q)
    PROVE  LET r == Start(q, s, n)
           IN Busy(r) = Slots \/ r.affinity[r.job[i].key].slot \in Busy(r)
<1> DEFINE r == Start(q, s, n)
<1>1. /\ q \in PoolRecord /\ q.job \in [Jobs -> JobRecord]
      /\ n \in Jobs /\ i \in Jobs /\ n # i
      /\ q.job[n].key \in Keys /\ q.job[i].key \in Keys
  BY DEF Good, PoolRecord, KeysKnown, QueueAgrees, Jobs
<1>2. /\ r.job = [q.job EXCEPT ![n] = Begun(q.job[n])]
      /\ \A t \in Slots : r.slots[t].job = IF t = s THEN n ELSE q.slots[t].job
      /\ r.affinity = Pin(q, q.job[n].key, s).affinity
  BY <1>1, StartEffect, StartTouches
<1> HIDE DEF r
<1>3. Busy(r) = Busy(q) \cup {s}
  BY <1>1, <1>2 DEF Busy, Jobs, None
<1>4. r.job[i] = q.job[i]
  BY <1>1, <1>2
<1>5. \/ Pin(q, q.job[n].key, s).affinity[q.job[i].key].slot = q.affinity[q.job[i].key].slot
      \/ Busy(q) \cup {s} = Slots
  BY <1>1, PinSpares
<1> QED BY <1>2, <1>3, <1>4, <1>5 DEF r

LEMMA ConsiderLeaves ==
    ASSUME NEW p, Good(p), KeysKnown(p), PinsSuffice, NEW pass, NEW n \in 1 .. MaxJobs,
           Onward(p, pass, n - 1), LeftBehind(pass, n - 1)
    PROVE  LeftBehind(Consider(pass, n), n)
<1> DEFINE q == pass.pool
           next == Consider(pass, n)
<1>1. /\ n \in Jobs /\ PassGood(pass) /\ Good(q) /\ q \in PoolRecord /\ PumpKeeps(p, q)
      /\ q.queue \in SUBSET Jobs /\ q.job \in [Jobs -> JobRecord] /\ KeysKnown(q)
  BY PumpKeepsJobs DEF Onward, PassGood, Jobs, Good, PoolRecord
<1>2. ~pass.halted => \A i \in q.queue : i <= n - 1 =>
          ~q.job[i].exclusive /\ (Busy(q) = Slots \/ q.affinity[q.job[i].key].slot \in Busy(q))
  BY DEF Onward, PassedOver, LeftBehind
<1>3. pass.halted => \A i \in q.queue : BlockedIn(q, i)
  BY DEF LeftBehind
<1> SUFFICES LeftBehind(next, n)
  OBVIOUS
<1> HIDE DEF q, next
<1>4. CASE next = pass /\ ~(~pass.halted /\ n \in q.queue)
  <2>1. \A i \in q.queue : i <= n => i <= n - 1 \/ i = n
    BY <1>1 DEF Jobs
  <2>2. next.pool = q /\ next.halted = pass.halted
    BY <1>4 DEF q
  <2> QED BY <1>2, <1>3, <1>4, <2>1, <2>2 DEF LeftBehind
<1>5. CASE /\ ~pass.halted /\ n \in q.queue
           /\ next.pool = q /\ next.halted = TRUE
           /\ Busy(q) = Slots \/ (q.job[n].exclusive /\ Busy(q) # {})
  <2>1. \A i \in q.queue : i <= n - 1 \/ i = n \/ n < i
    BY <1>1 DEF Jobs
  <2> QED BY <1>2, <1>5, <2>1 DEF LeftBehind, BlockedIn
<1>6. CASE ~pass.halted /\ n \in q.queue /\ next = pass /\ SlotFor(q, q.job[n].key) = None
  <2>1. q.job[n].key \in Keys
    BY <1>1, <1>6 DEF KeysKnown, Good, QueueAgrees
  <2>2. Busy(q) = Slots \/ q.affinity[q.job[n].key].slot \in Busy(q)
    BY <1>1, <1>6, <2>1, SlotForNone
  <2>3. \A i \in q.queue : i <= n => i <= n - 1 \/ i = n
    BY <1>1 DEF Jobs
  <2>4. next.pool = q /\ next.halted = pass.halted
    BY <1>6 DEF q
  <2> QED BY <1>2, <1>6, <2>2, <2>3, <2>4 DEF LeftBehind
<1>7. ASSUME ~pass.halted, n \in q.queue, Busy(q) # Slots,
             NEW s \in Slots \ Busy(q),
             next.pool = Start(q, s, n), next.halted = q.job[n].exclusive
      PROVE  LeftBehind(next, n)
  <2> DEFINE r == Start(q, s, n)
  <2>1. /\ r.queue = q.queue \ {n}
        /\ r.job = [q.job EXCEPT ![n] = Begun(q.job[n])]
        /\ \A t \in Slots : r.slots[t].job = IF t = s THEN n ELSE q.slots[t].job
    BY <1>1, StartEffect
  <2>2. CASE q.job[n].exclusive
    <3>1. q.job[n] \in JobRecord /\ r.job[n] = Begun(q.job[n])
      BY <1>1, <2>1
    <3>2. r.job[n].exclusive
      BY <2>2, <3>1, BegunRecord
    <3>3. s \in Slots /\ r.slots[s].job = n /\ n # None
      BY <1>1, <2>1 DEF Jobs, None
    <3> HIDE DEF r
    <3>4. ExclusiveRuns(r)
      BY <3>2, <3>3 DEF ExclusiveRuns, Busy
    <3> QED BY <1>7, <2>2, <3>4 DEF LeftBehind, BlockedIn, r
  <2>3. CASE ~q.job[n].exclusive
    <3>1. ASSUME NEW i \in r.queue, i <= n
          PROVE  Busy(r) = Slots \/ r.affinity[r.job[i].key].slot \in Busy(r)
      <4>1. i \in q.queue /\ i < n /\ i <= n - 1
        BY <1>1, <2>1, <3>1 DEF Jobs
      <4>2. q.affinity[q.job[i].key].slot \in Busy(q)
        BY <1>2, <1>7, <4>1
      <4> QED BY <1>1, <1>7, <4>1, <4>2, StartLeaves
    <3> HIDE DEF r
    <3> QED BY <1>7, <2>3, <3>1 DEF LeftBehind, r
  <2> QED BY <2>2, <2>3
<1> QED
  <2>1. \/ ~(~pass.halted /\ n \in q.queue) /\ next = pass
        \/ /\ ~pass.halted /\ n \in q.queue /\ next.pool = q /\ next.halted = TRUE
           /\ Busy(q) = Slots \/ (q.job[n].exclusive /\ Busy(q) # {})
        \/ ~pass.halted /\ n \in q.queue /\ next = pass /\ SlotFor(q, q.job[n].key) = None
        \/ /\ ~pass.halted /\ n \in q.queue /\ Busy(q) # Slots
           /\ \E s \in Slots \ Busy(q) :
                 next.pool = Start(q, s, n) /\ next.halted = q.job[n].exclusive
    BY <1>1, ConsiderCases DEF q, next
  <2> QED BY <1>4, <1>5, <1>6, <1>7, <2>1

(* The whole pump, by induction on the jobs it considered. *)
LEMMA PumpOnward ==
    ASSUME NEW p, Good(p), KeysKnown(p)
    PROVE  /\ Good(Pump(p)) /\ PumpKeeps(p, Pump(p))
           /\ PinsSuffice /\ NothingQueuedOnceClosed(p) => \A j \in Pump(p).queue : BlockedIn(Pump(p), j)
<1>1. PICK g : IsPass(g, p, MaxJobs) /\ Pump(p) = g[MaxJobs].pool
  BY PumpIsPass
<1>2. \A n \in 0 .. MaxJobs : g[n] = IF n = 0 THEN First(p) ELSE Consider(g[n - 1], n)
  BY <1>1, MaxJobsAssumption DEF IsPass
<1> DEFINE Fine(n) == /\ Onward(p, g[n], n)
                      /\ PinsSuffice /\ NothingQueuedOnceClosed(p) => LeftBehind(g[n], n)
           Bad == {n \in 0 .. MaxJobs : ~Fine(n)}
<1>3. Fine(0)
  BY <1>2, OnwardFirst, FirstLeaves, MaxJobsAssumption
<1>4. ASSUME NEW n \in 1 .. MaxJobs, Fine(n - 1) PROVE Fine(n)
  <2>1. g[n] = Consider(g[n - 1], n)
    BY <1>2, MaxJobsAssumption
  <2> QED BY <1>4, <2>1, ConsiderOnward, ConsiderLeaves
<1> HIDE DEF Fine
<1>5. Bad = {}
  <2> SUFFICES ASSUME Bad # {} PROVE FALSE
    OBVIOUS
  <2>1. PICK m \in Bad : \A n \in Bad : m <= n
    <3>1. Bad \in SUBSET Nat
      BY MaxJobsAssumption
    <3> HIDE DEF Bad
    <3> QED BY <3>1, LeastNatural
  <2>2. m \in 1 .. MaxJobs /\ m - 1 \notin Bad /\ m - 1 \in 0 .. MaxJobs
    BY <1>3, <2>1, MaxJobsAssumption
  <2> QED BY <1>4, <2>2
<1>6. Fine(MaxJobs)
  BY <1>5, MaxJobsAssumption
<1> DEFINE last == g[MaxJobs]
           q == last.pool
<1>7. /\ Onward(p, last, MaxJobs) /\ Pump(p) = q
      /\ PinsSuffice /\ NothingQueuedOnceClosed(p) => LeftBehind(last, MaxJobs)
  BY <1>1, <1>6 DEF Fine
<1> HIDE DEF last
<1>8. Good(q) /\ PumpKeeps(p, q) /\ last.halted \in BOOLEAN
  BY <1>7 DEF Onward, PassGood
<1>9. LeftBehind(last, MaxJobs) => \A j \in q.queue : BlockedIn(q, j)
  <2>1. \A j \in q.queue : j <= MaxJobs
    BY <1>8 DEF Good, PoolRecord, Jobs
  <2> QED BY <2>1 DEF LeftBehind, BlockedIn
<1> HIDE DEF q
<1> QED BY <1>7, <1>8, <1>9

(* A pump keeps the pool steady, and wakes whoever can start. *)
LEMMA PumpSteady ==
    ASSUME NEW p, Good(p), Orderly(p)
    PROVE  Steady(Pump(p))
<1> USE DEF Orderly
<1>1. Good(Pump(p)) /\ PumpKeeps(p, Pump(p))
      /\ (PinsSuffice => \A j \in Pump(p).queue : BlockedIn(Pump(p), j))
  BY PumpOnward
<1> DEFINE q == Pump(p)
<1> HIDE DEF q
<1>2. q.queue \subseteq p.queue /\ KeysKnown(q) /\ q.closed = p.closed
  BY <1>1, PumpKeepsJobs DEF q, PumpKeeps
<1>3. \A j \in Jobs : q.job[j].state = "new" <=> p.job[j].state = "new"
  BY <1>1, PumpKeepsJobs DEF q, Good, QueueAgrees
<1>4. InOrder(q)
  BY <1>3 DEF InOrder
<1> QED BY <1>1, <1>2, <1>4 DEF q, Steady, NothingQueuedOnceClosed, Awake

-----------------------------------------------------------------------------
(* What release and recycle do to the pool. *)
Over(r, o) == Outcome(Ended(r), o)

LEMMA OverRecord ==
    ASSUME NEW r \in JobRecord, NEW o \in Outcomes
    PROVE  /\ Over(r, o) \in JobRecord
           /\ Over(r, o).state = "done"
           /\ Over(r, o).key = r.key
           /\ Over(r, o).exclusive = r.exclusive
           /\ Over(r, o).dropped = r.dropped
           /\ Over(r, o).outcome = IF r.outcome = Unsettled THEN o ELSE r.outcome
<1>1. /\ Ended(r) \in JobRecord /\ Ended(r).state = "done" /\ Ended(r).key = r.key
      /\ Ended(r).exclusive = r.exclusive /\ Ended(r).dropped = r.dropped
      /\ Ended(r).outcome = r.outcome
  BY Zenon DEF Ended, JobRecord, JobStates
<1>2. \A e \in JobRecord :
          /\ Outcome(e, o).key = e.key /\ Outcome(e, o).dropped = e.dropped
          /\ Outcome(e, o).outcome = IF e.outcome = Unsettled THEN o ELSE e.outcome
  BY Zenon DEF Outcome, JobRecord
<1> HIDE DEF Ended
<1> QED BY <1>1, <1>2, OutcomeRecord DEF Over

LEMMA SettleTouches ==
    ASSUME NEW p \in PoolRecord, NEW j \in Jobs, NEW o \in Outcomes
    PROVE  /\ Settle(p, j, o).threads = p.threads
           /\ Settle(p, j, o).affinity = p.affinity
           /\ Settle(p, j, o).pumpScheduled = p.pumpScheduled
BY DEF Settle, PoolRecord

LEMMA ReleaseEffect ==
    ASSUME NEW p, Good(p), NEW s \in Slots, p.slots[s].job # None, NEW o \in Outcomes
    PROVE  LET j == p.slots[s].job
               r == Release(p, s, o)
           IN /\ j \in Jobs
              /\ r.job = [p.job EXCEPT ![j] = Over(p.job[j], o)]
              /\ \A i \in Slots : r.slots[i].job = IF i = s THEN None ELSE p.slots[i].job
              /\ \A i \in Slots : r.slots[i].worker = p.slots[i].worker
              /\ r.queue = p.queue /\ r.closed = p.closed /\ r.threads = p.threads
              /\ r.affinity = p.affinity /\ r.pumpScheduled = p.pumpScheduled
<1> DEFINE j == p.slots[s].job
           slots1 == [p.slots EXCEPT ![s].job = None]
           job1 == [p.job EXCEPT ![j] = Ended(p.job[j])]
           q == [p EXCEPT !.slots = slots1, !.job = job1]
           r == Release(p, s, o)
<1>1. /\ p \in PoolRecord /\ p.job \in [Jobs -> JobRecord]
      /\ p.slots \in [Slots -> SlotRecord]
  BY DEF Good, PoolRecord
<1>2. j \in Jobs /\ p.job[j] \in JobRecord
  BY <1>1 DEF SlotRecord, Maybe
<1>3. /\ slots1 \in [Slots -> SlotRecord]
      /\ \A i \in Slots : slots1[i].job = IF i = s THEN None ELSE p.slots[i].job
      /\ \A i \in Slots : slots1[i].worker = p.slots[i].worker
  BY <1>1 DEF SlotRecord, Maybe
<1>4. job1 \in [Jobs -> JobRecord] /\ job1[j] = Ended(p.job[j])
  BY <1>1, <1>2, EndedRecord
<1>5. r = Settle(q, j, o)
  BY <1>1 DEF Release, PoolRecord, Ended
<1> HIDE DEF slots1
<1>6. /\ q \in PoolRecord /\ q.job = job1 /\ q.slots = slots1 /\ q.queue = p.queue
      /\ q.closed = p.closed /\ q.threads = p.threads /\ q.affinity = p.affinity
      /\ q.pumpScheduled = p.pumpScheduled
  BY <1>1, <1>3, <1>4 DEF PoolRecord
<1> HIDE DEF q, r, j
<1>7. /\ r.job = [q.job EXCEPT ![j] = Outcome(q.job[j], o)] /\ r.slots = q.slots
      /\ r.queue = q.queue /\ r.closed = q.closed /\ r.threads = q.threads
      /\ r.affinity = q.affinity /\ r.pumpScheduled = q.pumpScheduled
  BY <1>2, <1>5, <1>6, SettleEffect, SettleTouches
<1>8. r.job = [p.job EXCEPT ![j] = Over(p.job[j], o)]
  BY <1>1, <1>2, <1>4, <1>6, <1>7 DEF Over
<1> QED BY <1>2, <1>3, <1>6, <1>7, <1>8 DEF r, j

LEMMA RecycleEffect ==
    ASSUME NEW p, Good(p), NEW s \in Slots, NEW o \in Outcomes
    PROVE  LET j == p.slots[s].job
               r == Recycle(p, s, o)
           IN /\ r.job = IF j = None THEN p.job ELSE [p.job EXCEPT ![j] = Over(p.job[j], o)]
              /\ \A i \in Slots : r.slots[i].job = IF i = s THEN None ELSE p.slots[i].job
              /\ r.queue = p.queue /\ r.closed = p.closed /\ r.threads = p.threads
              /\ \A k \in Keys : r.affinity[k] = IF p.affinity[k].slot = s THEN Unpinned
                                                 ELSE p.affinity[k]
              /\ r.pumpScheduled = (p.pumpScheduled \/ j # None)
<1> DEFINE j == p.slots[s].job
           slots1 == [p.slots EXCEPT ![s].worker = None]
           pins1 == [k \in Keys |-> IF p.affinity[k].slot = s THEN Unpinned ELSE p.affinity[k]]
           q == [p EXCEPT !.slots = slots1, !.affinity = pins1]
           r == Recycle(p, s, o)
<1>1. /\ p \in PoolRecord /\ p.affinity \in [Keys -> PinRecord]
      /\ p.slots \in [Slots -> SlotRecord] /\ p.pumpScheduled \in BOOLEAN
  BY DEF Good, PoolRecord
<1>2. slots1 \in [Slots -> SlotRecord] /\ \A i \in Slots : slots1[i].job = p.slots[i].job
  BY <1>1 DEF SlotRecord, None
<1>3. pins1 \in [Keys -> PinRecord]
      /\ \A k \in Keys : pins1[k] = IF p.affinity[k].slot = s THEN Unpinned ELSE p.affinity[k]
  <2>1. Unpinned \in PinRecord
    BY DEF Unpinned, PinRecord, Maybe, None
  <2> QED BY <1>1, <2>1
<1> HIDE DEF slots1, pins1
<1>4. /\ q \in PoolRecord /\ q.job = p.job /\ q.slots = slots1 /\ q.affinity = pins1
      /\ q.queue = p.queue /\ q.closed = p.closed /\ q.threads = p.threads
      /\ q.pumpScheduled = p.pumpScheduled
  BY <1>1, <1>2, <1>3 DEF PoolRecord
<1>5. r = IF q.slots[s].job = None THEN q ELSE SchedulePump(Release(q, s, o))
  BY <1>1 DEF Recycle, PoolRecord, slots1, pins1
<1> HIDE DEF q, r
<1>6. Good(q)
  BY <1>2, <1>4 DEF Good, QueueAgrees, SlotsRun, RunningHaveSlots, OneSlotEach, Alone
<1>7. CASE j = None
  BY <1>1, <1>2, <1>3, <1>4, <1>5, <1>7 DEF r
<1>8. CASE j # None
  <2> DEFINE e == Release(q, s, o)
  <2>1. q.slots[s].job = j
    BY <1>2, <1>4
  <2>2. /\ e.job = [p.job EXCEPT ![j] = Over(p.job[j], o)]
        /\ \A i \in Slots : e.slots[i].job = IF i = s THEN None ELSE p.slots[i].job
        /\ e.queue = q.queue /\ e.closed = q.closed /\ e.threads = q.threads
        /\ e.affinity = q.affinity /\ e.pumpScheduled = q.pumpScheduled
    BY <1>2, <1>4, <1>6, <1>8, <2>1, ReleaseEffect
  <2>3. e \in PoolRecord
    BY <1>6, <1>8, <2>1, ReleaseGood DEF Good
  <2> HIDE DEF e
  <2>4. /\ SchedulePump(e).job = e.job /\ SchedulePump(e).slots = e.slots
        /\ SchedulePump(e).queue = e.queue /\ SchedulePump(e).closed = e.closed
        /\ SchedulePump(e).threads = e.threads /\ SchedulePump(e).affinity = e.affinity
        /\ SchedulePump(e).pumpScheduled = TRUE
    BY <2>3 DEF SchedulePump, PoolRecord
  <2>5. r = SchedulePump(e)
    BY <1>5, <1>8, <2>1 DEF e
  <2>6. r.pumpScheduled = (p.pumpScheduled \/ j # None)
    BY <1>8, <2>4, <2>5
  <2>7. r.job = [p.job EXCEPT ![j] = Over(p.job[j], o)] /\ r.queue = p.queue
        /\ r.closed = p.closed /\ r.threads = p.threads /\ r.affinity = pins1
        /\ \A i \in Slots : r.slots[i].job = IF i = s THEN None ELSE p.slots[i].job
    BY <1>4, <2>2, <2>4, <2>5
  <2> QED BY <1>3, <1>8, <2>6, <2>7 DEF r
<1> QED BY <1>7, <1>8

-----------------------------------------------------------------------------
(* Every step keeps the pool steady. *)
(* Jobs keep their place in the order, and their keys, when they end. *)
LEMMA OrderlyDepends ==
    ASSUME NEW p \in PoolRecord, Orderly(p), NEW q \in PoolRecord,
           q.queue \subseteq p.queue, q.closed = p.closed,
           \A j \in Jobs : /\ q.job[j].key = p.job[j].key
                           /\ q.job[j].state = "new" <=> p.job[j].state = "new"
    PROVE  Orderly(q)
BY DEF Orderly, InOrder, KeysKnown, NothingQueuedOnceClosed

(* What waits waits for the slots, the writes and the keys, and no more. *)
LEMMA SteadyDepends ==
    ASSUME NEW p \in PoolRecord, Steady(p), NEW q \in PoolRecord,
           q.queue = p.queue, q.closed = p.closed, q.pumpScheduled = p.pumpScheduled,
           \A k \in Keys : p.affinity[k].slot \in Busy(p) => q.affinity[k] = p.affinity[k],
           \A s \in Slots : q.slots[s].job = p.slots[s].job,
           \A j \in Jobs : /\ q.job[j].key = p.job[j].key
                           /\ q.job[j].exclusive = p.job[j].exclusive
                           /\ q.job[j].state = "new" <=> p.job[j].state = "new",
           \A j \in p.queue : p.job[j].state # "new"
    PROVE  Steady(q)
<1>1. Orderly(q)
  BY OrderlyDepends DEF Steady
<1>2. Busy(q) = Busy(p)
  BY DEF Busy
<1>3. p.queue \in SUBSET Jobs /\ \A s \in Busy(p) : p.slots[s].job \in Jobs
  BY DEF PoolRecord, SlotRecord, Busy, Maybe
<1>4. \A j \in p.queue : BlockedIn(p, j) => BlockedIn(q, j)
  <2> SUFFICES ASSUME NEW j \in p.queue, BlockedIn(p, j) PROVE BlockedIn(q, j)
    OBVIOUS
  <2>1. ExclusiveRuns(p) => ExclusiveRuns(q)
    BY <1>2, <1>3 DEF ExclusiveRuns, Busy
  <2>2. p.job[j].key \in Keys
    BY <1>3 DEF Steady, Orderly, KeysKnown
  <2> QED BY <1>2, <1>3, <2>1, <2>2 DEF BlockedIn
<1> QED BY <1>1, <1>4 DEF Steady, Awake

LEMMA QueuedIsNotNew ==
    ASSUME NEW p, Good(p)
    PROVE  /\ p \in PoolRecord
           /\ \A j \in p.queue : j \in Jobs /\ p.job[j].state = "queued"
           /\ \A s \in Slots : p.slots[s].job # None =>
                 p.slots[s].job \in Jobs /\ p.job[p.slots[s].job].state = "running"
BY DEF Good, QueueAgrees, SlotsRun, PoolRecord, SlotRecord, Maybe

LEMMA ReleaseOrderly ==
    ASSUME NEW p, Good(p), Orderly(p), NEW s \in Slots, p.slots[s].job # None, NEW o \in Outcomes
    PROVE  Orderly(Release(p, s, o))
<1> DEFINE j == p.slots[s].job
           r == Release(p, s, o)
<1>1. /\ p \in PoolRecord /\ p.job \in [Jobs -> JobRecord] /\ j \in Jobs
      /\ p.job[j] \in JobRecord /\ p.job[j].state = "running"
  BY QueuedIsNotNew DEF PoolRecord
<1>2. r \in PoolRecord
  BY ReleaseGood DEF Good
<1>3. /\ r.job = [p.job EXCEPT ![j] = Over(p.job[j], o)]
      /\ r.queue = p.queue /\ r.closed = p.closed
  BY ReleaseEffect
<1> HIDE DEF j, r
<1>4. Over(p.job[j], o).key = p.job[j].key /\ Over(p.job[j], o).state = "done"
  BY <1>1, OverRecord
<1>5. \A i \in Jobs : /\ r.job[i].key = p.job[i].key
                      /\ r.job[i].state = "new" <=> p.job[i].state = "new"
  BY <1>1, <1>3, <1>4
<1> QED BY <1>1, <1>2, <1>3, <1>5, OrderlyDepends DEF r

LEMMA RecycleSteady ==
    ASSUME NEW p, Good(p), Steady(p), NEW s \in Slots, NEW o \in Outcomes
    PROVE  Steady(Recycle(p, s, o))
<1> DEFINE j == p.slots[s].job
           r == Recycle(p, s, o)
<1>1. p \in PoolRecord /\ p.job \in [Jobs -> JobRecord]
  BY DEF Good, PoolRecord
<1>2. r \in PoolRecord
  BY RecycleGood DEF Good
<1>3. /\ r.job = IF j = None THEN p.job ELSE [p.job EXCEPT ![j] = Over(p.job[j], o)]
      /\ \A i \in Slots : r.slots[i].job = IF i = s THEN None ELSE p.slots[i].job
      /\ r.queue = p.queue /\ r.closed = p.closed
      /\ \A k \in Keys : r.affinity[k] = IF p.affinity[k].slot = s THEN Unpinned
                                         ELSE p.affinity[k]
      /\ r.pumpScheduled = (p.pumpScheduled \/ j # None)
  BY RecycleEffect
<1> HIDE DEF r
<1>4. CASE j = None
  <2>1. s \notin Busy(p)
    BY <1>4 DEF Busy
  <2>2. \A k \in Keys : p.affinity[k].slot \in Busy(p) => r.affinity[k] = p.affinity[k]
    BY <1>3, <2>1
  <2>3. \A i \in Slots : r.slots[i].job = p.slots[i].job
    BY <1>3, <1>4
  <2>4. r.pumpScheduled = p.pumpScheduled
    BY <1>1, <1>3, <1>4 DEF PoolRecord
  <2>5. \A i \in p.queue : p.job[i].state # "new"
    BY QueuedIsNotNew
  <2>6. r.job = p.job
    BY <1>3, <1>4
  <2> QED BY <1>1, <1>2, <1>3, <2>2, <2>3, <2>4, <2>5, <2>6, SteadyDepends DEF r
<1>5. CASE j # None
  <2>1. j \in Jobs /\ p.job[j] \in JobRecord /\ p.job[j].state = "running"
    BY <1>1, <1>5, QueuedIsNotNew
  <2> HIDE DEF j
  <2>2. Over(p.job[j], o).key = p.job[j].key /\ Over(p.job[j], o).state = "done"
    BY <2>1, OverRecord
  <2>3. \A i \in Jobs : /\ r.job[i].key = p.job[i].key
                        /\ r.job[i].state = "new" <=> p.job[i].state = "new"
    BY <1>1, <1>3, <1>5, <2>1, <2>2
  <2>4. Orderly(r) /\ r.pumpScheduled
    BY <1>1, <1>2, <1>3, <1>5, <2>3, OrderlyDepends DEF Steady
  <2> QED BY <2>4 DEF Steady, Awake, r
<1> QED BY <1>4, <1>5

-----------------------------------------------------------------------------
(***************************************************************************)
(* Each step keeps the pool steady, is one of the contract or none of its  *)
(* business, and answers only through the thread the slot still has.       *)
(***************************************************************************)
AnsweredByThread ==
    \A j \in Jobs : job[j].outcome = Unsettled /\ job'[j].outcome \in {"ok", "dropped"} =>
        \E t \in threads \ threads' :
           /\ t.job = j
           /\ slots[t.slot].worker = t.id
           /\ slots'[t.slot].worker = t.id

Promised == Steady(Pool)' /\ [Contract!Next]_(Contract!vars) /\ AnsweredByThread

LEMMA BecomeIs ==
    ASSUME NEW p \in PoolRecord, Become(p)
    PROVE  /\ Pool' = p /\ job' = p.job /\ closed' = p.closed
           /\ slots' = p.slots /\ threads' = p.threads
BY DEF Become, Pool, PoolRecord

(* No outcome becomes an answer. *)
LEMMA NoNewAnswer ==
    ASSUME \A j \in Jobs : job'[j].outcome \in {"ok", "dropped"} => job'[j].outcome = job[j].outcome
    PROVE  AnsweredByThread
BY DEF AnsweredByThread, Unsettled

(* StartSome of the contract, from the jobs jb to the jobs jb1; calls and  *)
(* outcomes stay.                                                          *)
States(jb) == [j \in Jobs |-> jb[j].state]
Writes(jb) == [j \in Jobs |-> jb[j].exclusive]

SameCalls(jb, jb1) ==
    \A j \in Jobs : /\ jb1[j].exclusive = jb[j].exclusive
                   /\ jb1[j].outcome = jb[j].outcome
                   /\ jb1[j].dropped = jb[j].dropped

MayBecome(jb, jb1, open) ==
    \E S \in SUBSET {j \in Jobs : States(jb)[j] = "queued"} :
        /\ S # {} => open /\ Contract!MayStart(S, States(jb), Writes(jb))
        /\ States(jb1) = [j \in Jobs |-> IF j \in S THEN "running" ELSE States(jb)[j]]

(* A pump starts jobs as the contract allows. *)
LEMMA PumpKeepsContract ==
    ASSUME NEW p, Good(p), Orderly(p), p.closed = closed, Become(Pump(p))
    PROVE  /\ MayBecome(p.job, job', ~closed)
           /\ closed' = closed /\ SameCalls(p.job, job')
<1> DEFINE q == Pump(p)
           S == {j \in Jobs : j \in p.queue /\ q.job[j].state = "running"}
           ph == States(p.job)
           w == Writes(p.job)
<1> USE DEF States, Writes
<1>1. Good(q) /\ PumpKeeps(p, q) /\ q \in PoolRecord /\ p \in PoolRecord
  BY PumpOnward DEF Good, Orderly
<1>2. job' = q.job /\ closed' = q.closed /\ q.closed = p.closed
  BY <1>1 DEF Become, PumpKeeps
<1> HIDE DEF q
<1>3. \A j \in Jobs : /\ q.job[j].exclusive = p.job[j].exclusive
                      /\ q.job[j].outcome = p.job[j].outcome
                      /\ q.job[j].dropped = p.job[j].dropped
                      /\ \/ q.job[j].state = p.job[j].state
                         \/ j \in p.queue /\ q.job[j].state = "running"
  BY <1>1, PumpKeepsJobs
<1>4. \A j \in p.queue : j \in Jobs /\ p.job[j].state = "queued"
  BY QueuedIsNotNew
<1>5. S # {} => ~closed
  BY <1>1, <1>4 DEF PumpKeeps, Begins
<1>6. \A j \in Jobs : q.job[j].state = IF j \in S THEN "running" ELSE p.job[j].state
  BY <1>3, <1>4
<1>7. S \cup {j \in Jobs : ph[j] = "running"} = {j \in Jobs : q.job[j].state = "running"}
  BY <1>6
<1> DEFINE R == {j \in Jobs : q.job[j].state = "running"}
<1>8. Cardinality(R) <= Size
  <2> DEFINE f == [j \in R |-> CHOOSE s \in Slots : q.slots[s].job = j]
  <2>1. \A j \in R : f[j] \in Slots /\ q.slots[f[j]].job = j
    BY <1>1 DEF Good, RunningHaveSlots
  <2>2. f \in Injection(R, Slots)
    <3> HIDE DEF R, f
    <3>1. f \in [R -> Slots]
      BY <2>1 DEF f
    <3>2. \A i, j \in R : f[i] = f[j] => i = j
      BY <2>1
    <3> QED BY <3>1, <3>2 DEF Injection, IsInjective
  <2>3. IsFiniteSet(Slots) /\ Cardinality(Slots) = Size
    BY FS_Interval, SizeAssumption DEF Slots
  <2> HIDE DEF f
  <2> QED BY <2>2, <2>3, FS_Injection
<1>9. \A j \in R : \E s \in Slots : q.slots[s].job = j /\ j # None
  BY <1>1 DEF Good, RunningHaveSlots, Jobs, None
<1>10. \A j \in S : \A i \in R : w[j] \/ w[i] => i = j
  <2> SUFFICES ASSUME NEW j \in S, NEW i \in R, w[j] \/ w[i], i # j PROVE FALSE
    OBVIOUS
  <2>1. PICK s \in Slots : q.slots[s].job = j /\ j # None
    BY <1>9
  <2>2. PICK r \in Slots : q.slots[r].job = i /\ i # None
    BY <1>9
  <2> QED BY <1>1, <1>3, <2>1, <2>2 DEF Good, Alone
<1>11. \A j \in S, i \in Jobs : i < j /\ (w[i] \/ w[j]) => ph[i] = "done"
  <2> SUFFICES ASSUME NEW j \in S, NEW i \in Jobs, i < j, w[i] \/ w[j] PROVE p.job[i].state = "done"
    OBVIOUS
  <2>1. p.job[i].state \in {"new", "done"}
    BY <1>1 DEF PumpKeeps, OvertakesNoWrite
  <2>2. p.job[i].state # "new"
    BY <1>4 DEF Orderly, InOrder
  <2> QED BY <2>1, <2>2
<1>12. S \in SUBSET {j \in Jobs : ph[j] = "queued"}
  BY <1>4
<1>13. States(job') = [j \in Jobs |-> IF j \in S THEN "running" ELSE ph[j]]
  BY <1>2, <1>6
<1>14. S # {} => Contract!MayStart(S, ph, w)
  <2> HIDE DEF S, ph, w, R
  <2>1. Contract!Jobs = Jobs
    BY DEF Contract!Jobs, Jobs
  <2>2. S \cup {j \in Contract!Jobs : ph[j] = "running"} = R
    BY <1>7, <2>1 DEF R
  <2>3. Contract!Cardinality(R) = Cardinality(R)
    BY Zenon DEF Contract!Cardinality, Cardinality
  <2> QED BY <1>8, <1>10, <1>11, <2>1, <2>2, <2>3 DEF Contract!MayStart
<1>15. MayBecome(p.job, job', ~closed)
  <2> HIDE DEF S, States, Writes
  <2> QED BY <1>5, <1>12, <1>13, <1>14 DEF MayBecome
<1>16. SameCalls(p.job, job')
  BY <1>2, <1>3 DEF SameCalls
<1> QED BY <1>2, <1>15, <1>16

(* A turn that starts nobody, in the contract. *)
LEMMA NobodyStarts ==
    ASSUME NEW jb, NEW jb1, \A i \in Jobs : jb1[i].state = jb[i].state, NEW open
    PROVE  MayBecome(jb, jb1, open)
<1>1. States(jb1) = [i \in Jobs |-> IF i \in {} THEN "running" ELSE States(jb)[i]]
  BY DEF States
<1>2. {} \in SUBSET {i \in Jobs : States(jb)[i] = "queued"}
  OBVIOUS
<1> QED BY <1>1, <1>2, Zenon DEF MayBecome

(* A running job ends, and perhaps others start, in the contract. *)
LEMMA EndInContract ==
    ASSUME job \in [Jobs -> JobRecord], NEW j \in Jobs, NEW o \in Outcomes,
           job[j].state = "running",
           o \in {"cancelled", "timeout"} => ~job[j].exclusive,
           o = "ok" => ~job[j].dropped,
           o = "dropped" => job[j].dropped,
           NEW jb, jb = [job EXCEPT ![j] = Over(job[j], o)],
           MayBecome(jb, job', ~closed), closed' = closed, SameCalls(jb, job')
    PROVE  Contract!Next
<1> DEFINE phase == [i \in Jobs |-> job[i].state]
           write == [i \in Jobs |-> job[i].exclusive]
<1>1. /\ Over(job[j], o).state = "done"
      /\ Over(job[j], o).exclusive = job[j].exclusive
      /\ Over(job[j], o).dropped = job[j].dropped
      /\ Over(job[j], o).outcome = IF job[j].outcome = Unsettled THEN o ELSE job[j].outcome
  BY OverRecord
<1>2. \A i \in Jobs : jb[i] = IF i = j THEN Over(job[j], o) ELSE job[i]
  OBVIOUS
<1> USE DEF SameCalls
<1>3. States(jb) = [phase EXCEPT ![j] = "done"]
  BY <1>1, <1>2 DEF States
<1>4. Writes(jb) = write
  BY <1>1, <1>2 DEF Writes
<1>5. [i \in Jobs |-> job'[i].exclusive] = write
  BY <1>1, <1>2
<1>6. {i \in Jobs : job'[i].dropped} = {i \in Jobs : job[i].dropped}
  BY <1>1, <1>2
<1>7. [i \in Jobs |-> job'[i].outcome] = Contract!Told(j, o)
  BY <1>1, <1>2 DEF Contract!Told, Unsettled
<1>8. phase[j] = "running" /\ (o \in {"cancelled", "timeout"} => ~write[j])
  OBVIOUS
<1>9. (o = "ok" => j \notin {i \in Jobs : job[i].dropped})
      /\ (o = "dropped" => j \in {i \in Jobs : job[i].dropped})
  OBVIOUS
<1>10. PICK S \in SUBSET {i \in Jobs : States(jb)[i] = "queued"} :
          /\ S # {} => ~closed /\ Contract!MayStart(S, States(jb), Writes(jb))
          /\ States(job') = [i \in Jobs |-> IF i \in S THEN "running" ELSE States(jb)[i]]
  BY DEF MayBecome
<1>11. Contract!StartSome([phase EXCEPT ![j] = "done"], write)
  <2>1. Contract!Jobs = Jobs
    BY DEF Contract!Jobs, Jobs
  <2>2. [i \in Jobs |-> job'[i].state]
          = [i \in Jobs |-> IF i \in S THEN "running" ELSE States(jb)[i]]
    BY <1>10 DEF States
  <2> HIDE DEF phase, write
  <2>3. S \in SUBSET {i \in Contract!Jobs : [phase EXCEPT ![j] = "done"][i] = "queued"}
    BY <1>3, <1>10, <2>1
  <2>4. S # {} => ~closed /\ ~closed' /\ Contract!MayStart(S, [phase EXCEPT ![j] = "done"], write)
    BY <1>3, <1>4, <1>10
  <2>5. [i \in Jobs |-> job'[i].state]
          = [i \in Contract!Jobs |-> IF i \in S THEN "running" ELSE [phase EXCEPT ![j] = "done"][i]]
    BY <1>3, <2>1, <2>2
  <2> QED BY <2>3, <2>4, <2>5, Zenon DEF Contract!StartSome
<1>12. Contract!End(j, o)
  <2>1. UNCHANGED <<write, {i \in Jobs : job[i].dropped}>>
    BY <1>5, <1>6
  <2>2. (~closed)' = ~closed
    OBVIOUS
  <2>3. [i \in Jobs |-> job[i].outcome]' = Contract!Told(j, o)
    BY <1>7
  <2> QED BY <1>8, <1>9, <1>11, <2>1, <2>2, <2>3, Zenon DEF Contract!End, Contract!StartSome
<1> QED BY <1>12 DEF Contract!Next, Contract!Jobs, Jobs, Outcomes

LEMMA InvParts ==
    ASSUME Inv
    PROVE  /\ Good(Pool) /\ Pool \in PoolRecord
           /\ Pool.job = job /\ Pool.slots = slots /\ Pool.queue = queue
           /\ Pool.closed = closed /\ Pool.threads = threads
           /\ Pool.affinity = affinity /\ Pool.pumpScheduled = pumpScheduled
           /\ job \in [Jobs -> JobRecord] /\ slots \in [Slots -> SlotRecord]
           /\ threads \in SUBSET Thread /\ closed \in BOOLEAN
BY InvTypes DEF Inv, Good, Pool, PoolRecord

(* A slot is recycled: with a job, the job ends; without, nothing happens  *)
(* that the caller of the pool could tell.                                 *)
LEMMA RecyclePromised ==
    ASSUME Inv, NEW p, Good(p), Steady(p), p.job = job, p.closed = closed, p.slots = slots,
           NEW s \in Slots, NEW o \in {"cancelled", "timeout", "crashed"},
           o \in {"cancelled", "timeout"} => slots[s].job # None /\ ~job[slots[s].job].exclusive,
           Become(Recycle(p, s, o))
    PROVE  Promised
<1> DEFINE r == Recycle(p, s, o)
           j == slots[s].job
<1>1. o \in Outcomes
  BY DEF Outcomes
<1>2. Good(r) /\ Steady(r) /\ r \in PoolRecord
  BY <1>1, RecycleGood, RecycleSteady DEF Good
<1>3. /\ Pool' = r /\ job' = r.job /\ closed' = r.closed /\ r.closed = closed
      /\ r.job = IF j = None THEN job ELSE [job EXCEPT ![j] = Over(job[j], o)]
  BY <1>1, <1>2, BecomeIs, RecycleEffect
<1>4. Steady(Pool)'
  BY <1>2, <1>3
<1> HIDE DEF r
<1>5. CASE j = None
  <2>1. job' = job /\ closed' = closed
    BY <1>3, <1>5
  <2>2. UNCHANGED Contract!vars
    BY <2>1 DEF Contract!vars
  <2>3. AnsweredByThread
    BY <2>1, NoNewAnswer
  <2> QED BY <1>4, <2>2, <2>3 DEF Promised
<1>6. CASE j # None
  <2> DEFINE jb == [job EXCEPT ![j] = Over(job[j], o)]
  <2>1. j \in Jobs /\ job[j].state = "running" /\ job[j] \in JobRecord /\ job \in [Jobs -> JobRecord]
    BY <1>6, QueuedIsNotNew, InvParts
  <2>2. job' = jb /\ closed' = closed
    BY <1>3, <1>6
  <2>3. jb \in [Jobs -> JobRecord]
    BY <1>1, <2>1, OverRecord
  <2>4. \A i \in Jobs : i # j => jb[i] = job[i]
    BY <2>1
  <2>5. jb[j].outcome = IF job[j].outcome = Unsettled THEN o ELSE job[j].outcome
    BY <1>1, <2>1, OverRecord
  <2>6. AnsweredByThread
    BY <2>2, <2>4, <2>5, NoNewAnswer
  <2> HIDE DEF j
  <2>7. jb = [job EXCEPT ![j] = Over(job[j], o)]
    OBVIOUS
  <2>8. o \in {"cancelled", "timeout"} => ~job[j].exclusive
    BY DEF j
  <2>9. o # "ok" /\ o # "dropped"
    OBVIOUS
  <2> HIDE DEF jb
  <2>10. MayBecome(jb, job', ~closed)
    BY <2>2, <2>3, NobodyStarts
  <2>11. SameCalls(jb, job')
    BY <2>2 DEF SameCalls
  <2>12. Contract!Next
    BY <1>1, <2>1, <2>2, <2>7, <2>8, <2>9, <2>10, <2>11, EndInContract
  <2> QED BY <1>4, <2>6, <2>12 DEF Promised
<1> QED BY <1>5, <1>6

-----------------------------------------------------------------------------
(* One lemma per action. *)
LEMMA CancelQueuedPromised ==
    ASSUME Inv, Steady(Pool), NEW j \in Jobs, CancelQueued(j)
    PROVE  Promised
<1> DEFINE over == [job[j] EXCEPT !.state = "done", !.outcome = "cancelled"]
           q == SchedulePump([Pool EXCEPT !.queue = @ \ {j},
                                          !.job[j] = [@ EXCEPT !.state = "done",
                                                               !.outcome = "cancelled"]])
<1>1. /\ Pool \in PoolRecord /\ Pool.job = job /\ job[j] \in JobRecord /\ job[j].state = "queued"
      /\ job \in [Jobs -> JobRecord] /\ Good(Pool)
  BY InvParts DEF CancelQueued
<1>2. job[j].outcome = Unsettled
  BY <1>1 DEF Good, JobAgrees
<1>3. /\ over \in JobRecord /\ over.state = "done" /\ over.outcome = "cancelled"
      /\ over.key = job[j].key /\ over.exclusive = job[j].exclusive /\ over.dropped = job[j].dropped
  BY <1>1, Zenon DEF JobRecord, JobStates, Outcomes
<1>4. Become(q)
  BY DEF CancelQueued
<1>5. q = [Pool EXCEPT !.queue = Pool.queue \ {j}, !.job = [job EXCEPT ![j] = over],
                       !.pumpScheduled = TRUE]
  BY <1>1 DEF PoolRecord, SchedulePump
<1> HIDE DEF over, q
<1>6. /\ q \in PoolRecord /\ q.job = [job EXCEPT ![j] = over] /\ q.queue = Pool.queue \ {j}
      /\ q.closed = Pool.closed /\ q.pumpScheduled
  BY <1>1, <1>3, <1>5 DEF PoolRecord
<1>7. \A i \in Jobs : q.job[i] = IF i = j THEN over ELSE job[i]
  BY <1>1, <1>6
<1>8. Steady(q)
  <2>1. \A i \in Jobs : /\ q.job[i].key = Pool.job[i].key
                        /\ q.job[i].state = "new" <=> Pool.job[i].state = "new"
    BY <1>1, <1>3, <1>7
  <2>2. Orderly(q)
    BY <1>1, <1>6, <2>1, OrderlyDepends DEF Steady
  <2> QED BY <1>6, <2>2 DEF Steady, Awake
<1>9. Pool' = q /\ job' = q.job /\ closed' = closed
  BY <1>4, <1>6, BecomeIs, InvParts
<1>10. Contract!Withdraw(j)
  <2>1. [i \in Jobs |-> job'[i].state] = [[i \in Jobs |-> job[i].state] EXCEPT ![j] = "done"]
    BY <1>3, <1>7, <1>9
  <2>2. [i \in Jobs |-> job'[i].outcome] = Contract!Told(j, "cancelled")
    BY <1>2, <1>3, <1>7, <1>9 DEF Contract!Told, Unsettled
  <2>3. /\ [i \in Jobs |-> job'[i].exclusive] = [i \in Jobs |-> job[i].exclusive]
        /\ {i \in Jobs : job'[i].dropped} = {i \in Jobs : job[i].dropped}
    BY <1>3, <1>7, <1>9
  <2>4. [i \in Jobs |-> job[i].state][j] = "queued"
    BY <1>1
  <2> QED BY <1>9, <2>1, <2>2, <2>3, <2>4 DEF Contract!Withdraw
<1>11. AnsweredByThread
  BY <1>3, <1>7, <1>9, NoNewAnswer
<1>12. Contract!Next
  BY <1>10 DEF Contract!Next, Contract!Jobs, Jobs
<1> QED BY <1>8, <1>9, <1>11, <1>12 DEF Promised

(* A change of a running job that only its caller notices. *)
LEMMA RunningJobPromised ==
    ASSUME Inv, Steady(Pool), NEW j \in Jobs, job[j].state = "running",
           NEW r \in JobRecord, r.state = "running", r.key = job[j].key,
           r.exclusive = job[j].exclusive,
           r.outcome \in {"ok", "dropped"} => r.outcome = job[j].outcome,
           NEW q \in PoolRecord, Become(q), q.job = [job EXCEPT ![j] = r], q.slots = slots,
           q.queue = queue, q.closed = closed, q.affinity = affinity,
           q.pumpScheduled = pumpScheduled
    PROVE  /\ Steady(Pool)' /\ AnsweredByThread
           /\ closed' = closed
           /\ \A i \in Jobs : job'[i] = IF i = j THEN r ELSE job[i]
<1>1. /\ Pool \in PoolRecord /\ Pool.job = job /\ job \in [Jobs -> JobRecord] /\ Good(Pool)
      /\ Pool.slots = slots /\ Pool.queue = queue /\ Pool.closed = closed
      /\ Pool.affinity = affinity /\ Pool.pumpScheduled = pumpScheduled
  BY InvParts
<1>2. \A i \in Jobs : q.job[i] = IF i = j THEN r ELSE job[i]
  BY <1>1
<1>3. \A i \in Jobs : /\ q.job[i].key = Pool.job[i].key
                      /\ q.job[i].exclusive = Pool.job[i].exclusive
                      /\ q.job[i].state = "new" <=> Pool.job[i].state = "new"
  BY <1>1, <1>2
<1>4. \A i \in Pool.queue : Pool.job[i].state # "new"
  BY <1>1, QueuedIsNotNew
<1>5. Steady(q)
  <2>1. /\ \A s \in Slots : q.slots[s].job = Pool.slots[s].job
        /\ \A k \in Keys : q.affinity[k] = Pool.affinity[k]
        /\ q.queue = Pool.queue /\ q.closed = Pool.closed /\ q.pumpScheduled = Pool.pumpScheduled
    BY <1>1
  <2> HIDE DEF Pool
  <2> QED BY <1>1, <1>3, <1>4, <2>1, SteadyDepends
<1>6. Pool' = q /\ job' = q.job /\ closed' = closed
  BY BecomeIs
<1>7. AnsweredByThread
  BY <1>2, <1>6, NoNewAnswer
<1> QED BY <1>2, <1>5, <1>6, <1>7

LEMMA CancelExclusivePromised ==
    ASSUME Inv, Steady(Pool), NEW j \in Jobs, CancelExclusive(j)
    PROVE  Promised
<1> DEFINE r == [job[j] EXCEPT !.dropped = TRUE]
           q == [Pool EXCEPT !.job[j].dropped = TRUE]
<1>1. /\ Pool \in PoolRecord /\ Pool.job = job /\ job[j] \in JobRecord
      /\ job \in [Jobs -> JobRecord] /\ job[j].state = "running" /\ job[j].exclusive
      /\ Pool.slots = slots /\ Pool.queue = queue /\ Pool.closed = closed
      /\ Pool.affinity = affinity /\ Pool.pumpScheduled = pumpScheduled
  BY InvParts DEF CancelExclusive
<1>2. /\ r \in JobRecord /\ r.state = "running" /\ r.exclusive = job[j].exclusive
      /\ r.key = job[j].key /\ r.outcome = job[j].outcome /\ r.dropped
  BY <1>1, Zenon DEF JobRecord
<1>3. Become(q)
  BY DEF CancelExclusive
<1>4. q = [Pool EXCEPT !.job = [job EXCEPT ![j] = r]]
  BY <1>1 DEF PoolRecord
<1> HIDE DEF r, q
<1>5. /\ q \in PoolRecord /\ q.job = [job EXCEPT ![j] = r] /\ q.slots = slots
      /\ q.queue = queue /\ q.closed = closed /\ q.affinity = affinity
      /\ q.pumpScheduled = pumpScheduled
  BY <1>1, <1>2, <1>4 DEF PoolRecord
<1>6. /\ Steady(Pool)' /\ AnsweredByThread /\ closed' = closed
      /\ \A i \in Jobs : job'[i] = IF i = j THEN r ELSE job[i]
  BY <1>1, <1>2, <1>3, <1>5, RunningJobPromised
<1>7. Contract!Drop(j)
  <2>1. {i \in Jobs : job'[i].dropped} = {i \in Jobs : job[i].dropped} \cup {j}
    BY <1>2, <1>6
  <2>2. /\ [i \in Jobs |-> job'[i].state] = [i \in Jobs |-> job[i].state]
        /\ [i \in Jobs |-> job'[i].exclusive] = [i \in Jobs |-> job[i].exclusive]
        /\ [i \in Jobs |-> job'[i].outcome] = [i \in Jobs |-> job[i].outcome]
    BY <1>1, <1>2, <1>6
  <2> QED BY <1>1, <1>6, <2>1, <2>2 DEF Contract!Drop
<1>8. Contract!Next
  BY <1>7 DEF Contract!Next, Contract!Jobs, Jobs
<1> QED BY <1>6, <1>8 DEF Promised

LEMMA TerminatedPromised ==
    ASSUME Inv, Steady(Pool), NEW j \in Jobs, ~job[j].exclusive, NEW s \in Slots,
           slots[s].job = j, NEW o \in {"cancelled", "timeout"}, Become(Recycle(Pool, s, o))
    PROVE  Promised
<1>1. Good(Pool) /\ Pool.job = job /\ Pool.closed = closed /\ Pool.slots = slots
  BY InvParts
<1>2. slots[s].job # None
  BY DEF Jobs, None
<1> QED BY <1>1, <1>2, RecyclePromised

LEMMA TimeoutPromised ==
    ASSUME Inv, Steady(Pool), NEW j \in Jobs, Timeout(j)
    PROVE  Promised
<1>1. CASE ~job[j].exclusive
  BY <1>1, TerminatedPromised DEF Timeout
<1>2. CASE job[j].exclusive
  <2> DEFINE m == [job[j] EXCEPT !.timer = FALSE]
             p == [Pool EXCEPT !.job[j].timer = FALSE]
             q == Settle(p, j, "timeout")
             r == Outcome(m, "timeout")
  <2>1. /\ Pool \in PoolRecord /\ Pool.job = job /\ job[j] \in JobRecord
        /\ job \in [Jobs -> JobRecord] /\ Good(Pool)
        /\ Pool.slots = slots /\ Pool.queue = queue /\ Pool.closed = closed
        /\ Pool.affinity = affinity /\ Pool.pumpScheduled = pumpScheduled
    BY InvParts
  <2>2. job[j].state = "running"
    BY <2>1 DEF Timeout, Good, JobAgrees
  <2>3. /\ m \in JobRecord /\ m.state = "running" /\ m.exclusive = job[j].exclusive
        /\ m.key = job[j].key /\ m.dropped = job[j].dropped /\ m.outcome = job[j].outcome
    BY <2>1, <2>2, Zenon DEF JobRecord
  <2>4. Become(q)
    BY <1>2 DEF Timeout
  <2>5. p = [Pool EXCEPT !.job = [job EXCEPT ![j] = m]]
    BY <2>1 DEF PoolRecord
  <2> HIDE DEF m, p
  <2>6. /\ p \in PoolRecord /\ p.job = [job EXCEPT ![j] = m] /\ p.slots = slots
        /\ p.queue = queue /\ p.closed = closed /\ p.affinity = affinity
        /\ p.pumpScheduled = pumpScheduled
    BY <2>1, <2>3, <2>5 DEF PoolRecord
  <2>7. p.job[j] = m /\ "timeout" \in Outcomes
    BY <2>1, <2>6 DEF Outcomes
  <2>8. /\ r \in JobRecord /\ r.state = m.state /\ r.exclusive = m.exclusive
    BY <2>3, <2>7, OutcomeRecord
  <2>9. /\ r.key = m.key /\ r.dropped = m.dropped
        /\ r.outcome = IF m.outcome = Unsettled THEN "timeout" ELSE m.outcome
    BY <2>3, Zenon DEF Outcome, JobRecord
  <2> HIDE DEF q, r
  <2>10. /\ q \in PoolRecord /\ q.job = [p.job EXCEPT ![j] = r] /\ q.slots = p.slots
         /\ q.queue = p.queue /\ q.closed = p.closed /\ q.affinity = p.affinity
         /\ q.pumpScheduled = p.pumpScheduled
    <3>1. r = Outcome(p.job[j], "timeout")
      BY <2>7 DEF r
    <3>2. /\ q \in PoolRecord /\ q.slots = p.slots /\ q.queue = p.queue /\ q.closed = p.closed
          /\ q.job = [p.job EXCEPT ![j] = Outcome(p.job[j], "timeout")]
      <4>1. p \in PoolRecord /\ "timeout" \in Outcomes
        BY <2>6, <2>7
      <4> QED BY <4>1, Zenon, SettleEffect DEF q
    <3>3. q.affinity = p.affinity /\ q.pumpScheduled = p.pumpScheduled
      BY <2>6, <2>7, SettleTouches DEF q
    <3> QED BY <3>1, <3>2, <3>3
  <2>11. q.job = [job EXCEPT ![j] = r]
    BY <2>1, <2>6, <2>10
  <2>12. r.outcome \in {"ok", "dropped"} => r.outcome = job[j].outcome
    BY <2>3, <2>9
  <2>13. r.state = "running" /\ r.key = job[j].key /\ r.exclusive = job[j].exclusive
    BY <2>3, <2>8, <2>9
  <2>14. /\ Steady(Pool)' /\ AnsweredByThread /\ closed' = closed
         /\ \A i \in Jobs : job'[i] = IF i = j THEN r ELSE job[i]
    BY <2>2, <2>4, <2>6, <2>8, <2>10, <2>11, <2>12, <2>13, RunningJobPromised
  <2>15. Contract!Expire(j)
    <3>1. [i \in Jobs |-> job'[i].outcome] = Contract!Told(j, "timeout")
      BY <2>3, <2>9, <2>14 DEF Contract!Told, Unsettled
    <3>2. /\ [i \in Jobs |-> job'[i].state] = [i \in Jobs |-> job[i].state]
          /\ [i \in Jobs |-> job'[i].exclusive] = [i \in Jobs |-> job[i].exclusive]
          /\ {i \in Jobs : job'[i].dropped} = {i \in Jobs : job[i].dropped}
      BY <2>2, <2>3, <2>9, <2>13, <2>14
    <3> QED BY <1>2, <2>2, <2>14, <3>1, <3>2 DEF Contract!Expire
  <2>16. Contract!Next
    BY <2>15 DEF Contract!Next, Contract!Jobs, Jobs
  <2> QED BY <2>14, <2>16 DEF Promised
<1> QED BY <1>1, <1>2

(* Only the threads change. *)
LEMMA ThreadsOnly ==
    ASSUME Inv, Steady(Pool), NEW left \in SUBSET Thread,
           NEW p, p = [Pool EXCEPT !.threads = left]
    PROVE  /\ Good(p) /\ Steady(p) /\ p \in PoolRecord
           /\ p.job = job /\ p.slots = slots /\ p.closed = closed /\ p.threads = left
           /\ Become(p) => Promised
<1>1. /\ Pool \in PoolRecord /\ Pool.job = job /\ Good(Pool) /\ Pool.slots = slots
      /\ Pool.closed = closed
  BY InvParts
<1>2. /\ p \in PoolRecord /\ p.job = Pool.job /\ p.slots = Pool.slots /\ p.queue = Pool.queue
      /\ p.closed = Pool.closed /\ p.affinity = Pool.affinity
      /\ p.pumpScheduled = Pool.pumpScheduled /\ p.threads = left
  BY <1>1 DEF PoolRecord
<1>3. Good(p)
  BY <1>1, <1>2, GoodDepends
<1>4. Steady(p)
  <2>1. /\ \A s \in Slots : p.slots[s].job = Pool.slots[s].job
        /\ \A k \in Keys : p.affinity[k] = Pool.affinity[k]
        /\ \A j \in Jobs : p.job[j] = Pool.job[j]
        /\ \A j \in Pool.queue : Pool.job[j].state # "new"
    BY <1>1, <1>2, QueuedIsNotNew
  <2> HIDE DEF Pool
  <2> QED BY <1>1, <1>2, <2>1, SteadyDepends
<1>5. ASSUME Become(p) PROVE Promised
  <2>1. Pool' = p /\ job' = job /\ closed' = closed
    BY <1>1, <1>2, <1>5, BecomeIs
  <2>2. UNCHANGED Contract!vars
    BY <2>1 DEF Contract!vars
  <2>3. AnsweredByThread
    BY <2>1, NoNewAnswer
  <2> QED BY <1>4, <2>1, <2>2, <2>3 DEF Promised
<1> QED BY <1>1, <1>2, <1>3, <1>4, <1>5

LEMMA AnsweredOnly ==
    ASSUME Inv, NEW t \in threads
    PROVE  LET left == (threads \ {t}) \cup {[t EXCEPT !.job = None]}
           IN /\ Answered(Pool, t) = [Pool EXCEPT !.threads = left]
              /\ left \in SUBSET Thread
              /\ t \in Thread
              /\ t.job # None => t \notin left
<1>1. threads \in SUBSET Thread /\ t \in Thread
  BY InvParts
<1>2. [t EXCEPT !.job = None] \in Thread /\ [t EXCEPT !.job = None].job = None
  BY <1>1 DEF Thread, Maybe
<1> QED BY <1>1, <1>2 DEF Answered, Pool

LEMMA CrashedPromised ==
    ASSUME Inv, Steady(Pool), NEW t \in Thread, NEW left \in SUBSET Thread,
           NEW p, p = [Pool EXCEPT !.threads = left], Become(Crashed(p, t))
    PROVE  Promised
<1>1. /\ Good(p) /\ Steady(p) /\ p \in PoolRecord /\ (Become(p) => Promised)
      /\ p.job = job /\ p.slots = slots /\ p.closed = closed
  BY ThreadsOnly
<1>2. t.slot \in Slots
  BY DEF Thread
<1>3. CASE p.slots[t.slot].worker = t.id
  <2>1. Become(Recycle(p, t.slot, "crashed"))
    BY <1>3 DEF Crashed
  <2> QED BY <1>1, <1>2, <2>1, RecyclePromised
<1>4. CASE p.slots[t.slot].worker # t.id
  BY <1>1, <1>4 DEF Crashed
<1> QED BY <1>3, <1>4

LEMMA WorkerErrorPromised ==
    ASSUME Inv, Steady(Pool), NEW t \in threads, WorkerError(t)
    PROVE  Promised
BY AnsweredOnly, CrashedPromised DEF WorkerError

LEMMA WorkerExitPromised ==
    ASSUME Inv, Steady(Pool), NEW t \in threads, WorkerExit(t)
    PROVE  Promised
<1> DEFINE left == threads \ {t}
<1>1. left \in SUBSET Thread /\ t \in Thread
  BY InvParts
<1>2. Become(Crashed([Pool EXCEPT !.threads = left], t))
  BY DEF WorkerExit, Pool
<1> HIDE DEF left
<1> QED BY <1>1, <1>2, CrashedPromised

LEMMA MessagePromised ==
    ASSUME Inv, Steady(Pool), NEW t \in threads, Message(t)
    PROVE  Promised
<1> DEFINE p == Answered(Pool, t)
           left == (threads \ {t}) \cup {[t EXCEPT !.job = None]}
           s == t.slot
           j == t.job
           current == slots[s].worker = t.id /\ slots[s].job = j
           o == IF job[j].dropped THEN "dropped" ELSE "ok"
<1>1. /\ Good(p) /\ Steady(p) /\ p \in PoolRecord /\ (Become(p) => Promised)
      /\ p.job = job /\ p.slots = slots /\ p.closed = closed /\ p.threads = left
      /\ t \notin left /\ t \in Thread
  <2>1. /\ p = [Pool EXCEPT !.threads = left] /\ left \in SUBSET Thread
        /\ t \in Thread /\ t \notin left
    BY AnsweredOnly DEF Message
  <2> HIDE DEF p, left
  <2> QED BY <2>1, ThreadsOnly
<1>2. j # None /\ Become(IF ~current THEN p ELSE Finish(p, s, o))
  BY DEF Message
<1>3. s \in Slots /\ o \in Outcomes /\ t.id # None
  BY <1>1 DEF Thread, Outcomes, Workers, None
<1> HIDE DEF p, left, s, j, o
<1>4. CASE ~current
  BY <1>1, <1>2, <1>4
<1>5. CASE current
  <2> DEFINE r == Release(p, s, o)
             q == Pump(r)
  <2>1. Become(Pump(r))
    BY <1>2, <1>5 DEF Finish
  <2>2. p.slots[s].job = j
    BY <1>1, <1>5
  <2>3. Good(r) /\ Orderly(r)
    BY <1>1, <1>2, <1>3, <2>2, ReleaseGood, ReleaseOrderly DEF Steady
  <2>4. /\ j \in Jobs
        /\ r.job = [job EXCEPT ![j] = Over(job[j], o)]
        /\ r.slots[s].worker = t.id
        /\ r.closed = closed /\ r.threads = left
    BY <1>1, <1>2, <1>3, <1>5, <2>2, ReleaseEffect
  <2>5. /\ job \in [Jobs -> JobRecord] /\ job[j] \in JobRecord /\ job[j].state = "running"
    BY <1>1, <1>2, <1>3, <2>2, <2>4, QueuedIsNotNew, InvParts
  <2> HIDE DEF r
  <2>6. Good(q) /\ PumpKeeps(r, q) /\ q \in PoolRecord /\ Steady(q)
    BY <2>3, PumpOnward, PumpSteady DEF Orderly, Good
  <2>7. /\ MayBecome(r.job, job', ~closed) /\ closed' = closed
        /\ SameCalls(r.job, job')
    BY <2>1, <2>3, <2>4, PumpKeepsContract
  <2>8. Pool' = q /\ slots' = q.slots /\ threads' = q.threads
    BY <2>1, <2>6, BecomeIs
  <2> HIDE DEF q
  <2>9. Steady(Pool)'
    BY <2>6, <2>8
  <2>10. Contract!Next
    <3>1. /\ o \in {"cancelled", "timeout"} => ~job[j].exclusive
          /\ o = "ok" => ~job[j].dropped
          /\ o = "dropped" => job[j].dropped
      BY DEF o
    <3>2. o \in Outcomes /\ j \in Jobs /\ job \in [Jobs -> JobRecord] /\ job[j].state = "running"
      BY <1>3, <2>4, <2>5
    <3> QED BY <2>4, <2>7, <3>1, <3>2, EndInContract
  <2>11. t \notin threads'
    <3>1. r.job[j].state = "done"
      BY <1>3, <2>4, <2>5, OverRecord
    <3>2. j \notin r.queue
      BY <2>3, <3>1, QueuedIsNotNew
    <3>3. \A u \in q.threads : u \in r.threads \/ u.job = None \/ u.job \in r.queue
      BY <2>6 DEF PumpKeeps
    <3> QED BY <1>1, <1>2, <2>4, <2>8, <3>2, <3>3 DEF j
  <2>12. slots'[s].worker = t.id
    BY <1>3, <2>4, <2>6, <2>8 DEF PumpKeeps
  <2>13. AnsweredByThread
    <3> SUFFICES ASSUME NEW i \in Jobs, job[i].outcome = Unsettled, job'[i].outcome \in {"ok", "dropped"}
                 PROVE  i = j
      BY <1>5, <2>11, <2>12 DEF AnsweredByThread, j, s
    <3>1. job'[i].outcome = r.job[i].outcome
      BY <2>7 DEF SameCalls
    <3> QED BY <2>4, <2>5, <3>1 DEF Unsettled
  <2> QED BY <2>9, <2>10, <2>13 DEF Promised
<1> QED BY <1>4, <1>5

LEMMA DeferredPumpPromised ==
    ASSUME Inv, Steady(Pool), DeferredPump
    PROVE  Promised
<1> DEFINE p == [Pool EXCEPT !.pumpScheduled = FALSE]
           q == Pump(p)
           phase == [i \in Jobs |-> job[i].state]
           write == [i \in Jobs |-> job[i].exclusive]
<1>1. Pool \in PoolRecord /\ Good(Pool) /\ Pool.job = job /\ Pool.closed = closed
  BY InvParts
<1>2. p \in PoolRecord /\ p.job = job /\ p.slots = Pool.slots /\ p.queue = Pool.queue
      /\ p.closed = closed
  BY <1>1 DEF PoolRecord
<1>3. Become(Pump(p))
  BY DEF DeferredPump
<1> HIDE DEF p
<1>4. Good(p) /\ Orderly(p)
  BY <1>1, <1>2, GoodDepends, OrderlyDepends DEF Steady
<1>5. Steady(q) /\ q \in PoolRecord
  BY <1>4, PumpSteady, PumpGood DEF Good
<1>6. MayBecome(job, job', ~closed) /\ closed' = closed /\ SameCalls(job, job')
  BY <1>2, <1>3, <1>4, PumpKeepsContract
<1>7. Steady(Pool)'
  BY <1>3, <1>5, BecomeIs
<1>8. PICK S \in SUBSET {i \in Jobs : States(job)[i] = "queued"} :
          /\ S # {} => ~closed /\ Contract!MayStart(S, States(job), Writes(job))
          /\ States(job') = [i \in Jobs |-> IF i \in S THEN "running" ELSE States(job)[i]]
  BY <1>6 DEF MayBecome
<1>9. States(job) = phase /\ Writes(job) = write
  BY DEF States, Writes
<1>10. Contract!StartSome(phase, write)
  <2>1. Contract!Jobs = Jobs
    BY DEF Contract!Jobs, Jobs
  <2>2. [i \in Jobs |-> job'[i].state] = [i \in Jobs |-> IF i \in S THEN "running" ELSE phase[i]]
    BY <1>8, <1>9 DEF States
  <2> HIDE DEF phase, write
  <2>3. S \in SUBSET {i \in Contract!Jobs : phase[i] = "queued"}
    BY <1>8, <1>9, <2>1
  <2>4. S # {} => ~closed /\ ~closed' /\ Contract!MayStart(S, phase, write)
    BY <1>6, <1>8, <1>9
  <2>5. [i \in Jobs |-> job'[i].state]
          = [i \in Contract!Jobs |-> IF i \in S THEN "running" ELSE phase[i]]
    BY <2>1, <2>2
  <2> QED BY <2>3, <2>4, <2>5, Zenon DEF Contract!StartSome
<1>11. Contract!StartLater
  <2>1. /\ [i \in Jobs |-> job'[i].exclusive] = write
        /\ {i \in Jobs : job'[i].dropped} = {i \in Jobs : job[i].dropped}
        /\ [i \in Jobs |-> job'[i].outcome] = [i \in Jobs |-> job[i].outcome]
    BY <1>6 DEF SameCalls
  <2> QED BY <1>6, <1>10, <2>1, Zenon DEF Contract!StartLater, Contract!StartSome
<1>12. AnsweredByThread
  BY <1>6, NoNewAnswer DEF SameCalls
<1>13. Contract!Next
  BY <1>11 DEF Contract!Next
<1> QED BY <1>7, <1>12, <1>13 DEF Promised

(* A call is submitted, and the pump may start it, or others before it. *)
LEMMA SubmitPromised ==
    ASSUME Inv, Steady(Pool), NEW j \in Jobs, NEW k \in Keys, NEW exclusive \in BOOLEAN,
           Submit(j, k, exclusive)
    PROVE  Promised
<1> DEFINE call == [job[j] EXCEPT !.key = k, !.exclusive = exclusive]
           waiting == [call EXCEPT !.state = "queued"]
           over == [call EXCEPT !.state = "done", !.outcome = "cancelled"]
           phase == [i \in Jobs |-> job[i].state]
           write == [i \in Jobs |-> job[i].exclusive]
           write1 == [i \in Jobs |-> job'[i].exclusive]
<1>1. /\ Pool \in PoolRecord /\ job \in [Jobs -> JobRecord] /\ job[j] \in JobRecord
      /\ job[j].state = "new" /\ Good(Pool) /\ Pool.job = job /\ Pool.queue = queue
      /\ j \notin queue /\ Pool.closed = closed /\ Pool.slots = slots
      /\ Pool.affinity = affinity /\ Pool.pumpScheduled = pumpScheduled
      /\ \A i \in Jobs : i < j => job[i].state # "new"
  BY InvParts DEF Submit, Good, QueueAgrees
<1>2. job[j].outcome = Unsettled /\ ~job[j].timer
  BY <1>1 DEF Good, JobAgrees
<1>3. /\ call \in JobRecord /\ call.state = "new" /\ call.outcome = Unsettled /\ ~call.timer
      /\ call.key = k /\ call.exclusive = exclusive /\ call.dropped = job[j].dropped
  BY <1>1, <1>2, Zenon DEF JobRecord, Maybe
<1>4. /\ waiting \in JobRecord /\ waiting.state = "queued" /\ JobAgrees(waiting)
      /\ waiting.key = k /\ waiting.exclusive = exclusive
      /\ waiting.dropped = job[j].dropped /\ waiting.outcome = job[j].outcome
  BY <1>2, <1>3, Zenon DEF JobRecord, JobStates, JobAgrees
<1>5. /\ over \in JobRecord /\ over.state = "done"
      /\ over.key = k /\ over.exclusive = exclusive
      /\ over.dropped = job[j].dropped /\ over.outcome = "cancelled"
  BY <1>3, Zenon DEF JobRecord, JobStates, Outcomes
<1>6. phase[j] = "new" /\ \A i \in Jobs : i < j => phase[i] # "new"
  BY <1>1
<1>7. CASE ~closed
  <2> DEFINE p == [Pool EXCEPT !.job[j] = waiting, !.queue = @ \cup {j}]
             q == Pump(p)
  <2>1. Become(Pump(p))
    BY <1>7 DEF Submit
  <2> HIDE DEF waiting
  <2>2. p \in PoolRecord /\ p.job = [job EXCEPT ![j] = waiting] /\ p.slots = Pool.slots
        /\ p.queue = Pool.queue \cup {j} /\ p.closed = closed
    BY <1>1, <1>4 DEF PoolRecord
  <2> HIDE DEF p
  <2>3. \A i \in Jobs : p.job[i] = IF i = j THEN waiting ELSE job[i]
    BY <1>1, <2>2
  <2>4. Good(p)
    <3>1. p.queue = IF waiting.state = "queued" THEN Pool.queue \cup {j} ELSE Pool.queue \ {j}
      BY <1>4, <2>2
    <3>2. Pool.job[j].state # "running" /\ waiting.state # "running"
      BY <1>1, <1>4
    <3>3. p.job = [Pool.job EXCEPT ![j] = waiting]
      BY <1>1, <2>2
    <3>4. Good(Pool) /\ p \in PoolRecord /\ p.slots = Pool.slots
      BY <1>1, <2>2
    <3>5. waiting \in JobRecord /\ JobAgrees(waiting)
      BY <1>4
    <3> HIDE DEF Pool
    <3> QED BY <3>1, <3>2, <3>3, <3>4, <3>5, WaitingJobGood
  <2>5. Orderly(p)
    <3>1. InOrder(p)
      <4> SUFFICES ASSUME NEW a \in Jobs, NEW b \in Jobs, a < b, p.job[b].state # "new"
                   PROVE  p.job[a].state # "new"
        BY DEF InOrder
      <4>1. InOrder(Pool)
        BY DEF Steady, Orderly
      <4> QED BY <1>1, <1>4, <2>3, <4>1 DEF InOrder
    <3>2. KeysKnown(p)
      BY <1>1, <1>4, <2>3 DEF KeysKnown, Steady, Orderly
    <3> QED BY <1>7, <2>2, <3>1, <3>2 DEF Orderly, NothingQueuedOnceClosed
  <2>6. Steady(q) /\ q \in PoolRecord
    BY <2>4, <2>5, PumpSteady, PumpGood DEF Good
  <2>7. MayBecome(p.job, job', ~closed) /\ closed' = closed /\ SameCalls(p.job, job')
    BY <2>1, <2>2, <2>4, <2>5, PumpKeepsContract
  <2>8. Steady(Pool)'
    BY <2>1, <2>6, BecomeIs
  <2>9. States(p.job) = [phase EXCEPT ![j] = "queued"]
    BY <1>4, <2>3 DEF States
  <2>10. Writes(p.job) = write1 /\ write1 = [write EXCEPT ![j] = exclusive]
    BY <1>4, <2>3, <2>7 DEF Writes, SameCalls
  <2>11. PICK S \in SUBSET {i \in Jobs : States(p.job)[i] = "queued"} :
            /\ S # {} => ~closed /\ Contract!MayStart(S, States(p.job), Writes(p.job))
            /\ States(job') = [i \in Jobs |-> IF i \in S THEN "running" ELSE States(p.job)[i]]
    BY <2>7 DEF MayBecome
  <2>12. Contract!StartSome([phase EXCEPT ![j] = "queued"], write1)
    <3>1. Contract!Jobs = Jobs
      BY DEF Contract!Jobs, Jobs
    <3>2. [i \in Jobs |-> job'[i].state]
            = [i \in Jobs |-> IF i \in S THEN "running" ELSE States(p.job)[i]]
      BY <2>11 DEF States
    <3> HIDE DEF phase, write1
    <3>3. S \in SUBSET {i \in Contract!Jobs : [phase EXCEPT ![j] = "queued"][i] = "queued"}
      BY <2>9, <2>11, <3>1
    <3>4. S # {} => /\ ~closed /\ ~closed'
                    /\ Contract!MayStart(S, [phase EXCEPT ![j] = "queued"], write1)
      BY <2>7, <2>9, <2>10, <2>11
    <3>5. [i \in Jobs |-> job'[i].state]
            = [i \in Contract!Jobs |-> IF i \in S THEN "running" ELSE [phase EXCEPT ![j] = "queued"][i]]
      BY <2>9, <3>1, <3>2
    <3> QED BY <3>3, <3>4, <3>5, Zenon DEF Contract!StartSome
  <2>13. Contract!Submit(j, exclusive)
    <3>1. /\ {i \in Jobs : job'[i].dropped} = {i \in Jobs : job[i].dropped}
          /\ [i \in Jobs |-> job'[i].outcome] = [i \in Jobs |-> job[i].outcome]
      BY <1>4, <2>3, <2>7 DEF SameCalls
    <3>2. Contract!Jobs = Jobs
      BY DEF Contract!Jobs, Jobs
    <3> QED BY <1>6, <1>7, <2>7, <2>10, <2>12, <3>1, <3>2, Zenon
            DEF Contract!Submit, Contract!StartSome
  <2>14. AnsweredByThread
    BY <1>4, <2>3, <2>7, NoNewAnswer DEF SameCalls
  <2>15. Contract!Next
    BY <2>13 DEF Contract!Next, Contract!Jobs, Jobs
  <2> QED BY <2>8, <2>14, <2>15 DEF Promised
<1>8. CASE closed
  <2> DEFINE q == [Pool EXCEPT !.job[j] = over]
  <2>1. Become(q)
    BY <1>8 DEF Submit
  <2> HIDE DEF over
  <2>2. /\ q \in PoolRecord /\ q.job = [job EXCEPT ![j] = over] /\ q.slots = Pool.slots
        /\ q.queue = Pool.queue /\ q.closed = Pool.closed
    BY <1>1, <1>5 DEF PoolRecord
  <2> HIDE DEF q
  <2>3. \A i \in Jobs : q.job[i] = IF i = j THEN over ELSE job[i]
    BY <1>1, <2>2
  <2>4. q.queue = {}
    BY <1>1, <1>8, <2>2 DEF Steady, Orderly, NothingQueuedOnceClosed
  <2>5. Steady(q)
    <3>1. InOrder(q)
      <4> SUFFICES ASSUME NEW a \in Jobs, NEW b \in Jobs, a < b, q.job[b].state # "new"
                   PROVE  q.job[a].state # "new"
        BY DEF InOrder
      <4>1. InOrder(Pool)
        BY DEF Steady, Orderly
      <4> QED BY <1>1, <1>5, <2>3, <4>1 DEF InOrder
    <3>2. KeysKnown(q)
      BY <1>1, <1>5, <2>3 DEF KeysKnown, Steady, Orderly
    <3> QED BY <2>4, <3>1, <3>2 DEF Steady, Orderly, NothingQueuedOnceClosed, Awake
  <2>6. Pool' = q /\ job' = q.job /\ closed' = closed
    BY <1>1, <2>1, <2>2, BecomeIs
  <2>7. Contract!Submit(j, exclusive)
    <3>1. /\ [i \in Jobs |-> job'[i].state] = [phase EXCEPT ![j] = "done"]
          /\ write1 = [write EXCEPT ![j] = exclusive]
          /\ {i \in Jobs : job'[i].dropped} = {i \in Jobs : job[i].dropped}
      BY <1>5, <2>3, <2>6
    <3>2. [i \in Jobs |-> job'[i].outcome] = Contract!Told(j, "cancelled")
      BY <1>2, <1>5, <2>3, <2>6 DEF Contract!Told, Unsettled
    <3>3. Contract!Jobs = Jobs
      BY DEF Contract!Jobs, Jobs
    <3> QED BY <1>6, <1>8, <2>6, <3>1, <3>2, <3>3, Zenon DEF Contract!Submit
  <2>8. AnsweredByThread
    BY <1>5, <2>3, <2>6, NoNewAnswer
  <2>9. Contract!Next
    BY <2>7 DEF Contract!Next, Contract!Jobs, Jobs
  <2> QED BY <2>5, <2>6, <2>8, <2>9 DEF Promised
<1> QED BY <1>7, <1>8

(* What the sweep of close has done after the slots up to s. *)
LEMMA SweepEffect ==
    ASSUME NEW p, Good(p), NEW g, IsSweep(g, p, Size)
    PROVE  LET q == g[Size]
           IN /\ q \in PoolRecord /\ q.queue = p.queue /\ q.closed = p.closed
              /\ \A i \in Jobs : q.job[i] = IF p.job[i].state = "running"
                                            THEN Over(p.job[i], "cancelled") ELSE p.job[i]
<1> DEFINE Swept(s) == {p.slots[r].job : r \in {r \in Slots : r <= s}} \ {None}
           Fine(s) ==
               /\ Good(g[s]) /\ g[s].queue = p.queue /\ g[s].closed = p.closed
               /\ \A r \in Slots : g[s].slots[r].job = IF r <= s THEN None ELSE p.slots[r].job
               /\ \A i \in Jobs : g[s].job[i] = IF i \in Swept(s) THEN Over(p.job[i], "cancelled")
                                                ELSE p.job[i]
           Bad == {s \in 0 .. Size : ~Fine(s)}
<1>1. \A s \in 0 .. Size : g[s] = IF s = 0 THEN p ELSE Recycle(g[s - 1], s, "cancelled")
  BY SizeAssumption DEF IsSweep
<1>2. Fine(0)
  <2>1. Swept(0) = {} /\ \A r \in Slots : ~(r <= 0)
    BY DEF Slots
  <2>2. g[0] = p
    BY <1>1, SizeAssumption
  <2> HIDE DEF Swept
  <2> QED BY <2>1, <2>2
<1>3. ASSUME NEW s \in Slots, Fine(s - 1) PROVE Fine(s)
  <2> DEFINE q == g[s - 1]
             r == g[s]
             j == p.slots[s].job
  <2>1. r = Recycle(q, s, "cancelled") /\ s \in Nat \ {0} /\ s <= Size
    BY <1>1, SizeAssumption DEF Slots
  <2>2. "cancelled" \in Outcomes
    BY DEF Outcomes
  <2>3. q.slots[s].job = j /\ Good(q) /\ q.job \in [Jobs -> JobRecord]
    BY <1>3, <2>1 DEF Good, PoolRecord
  <2>4. /\ Good(r) /\ r.queue = q.queue /\ r.closed = q.closed
        /\ r.job = IF j = None THEN q.job ELSE [q.job EXCEPT ![j] = Over(q.job[j], "cancelled")]
        /\ \A i \in Slots : r.slots[i].job = IF i = s THEN None ELSE q.slots[i].job
    <3> HIDE DEF q, r, j
    <3>1. Good(r)
      BY <2>1, <2>2, <2>3, RecycleGood
    <3> QED BY <2>1, <2>2, <2>3, <3>1, RecycleEffect
  <2>5. \A i \in Slots : i \in Nat /\ (i <= s <=> i <= s - 1 \/ i = s)
    BY <2>1 DEF Slots
  <2>6. Swept(s) = Swept(s - 1) \cup ({j} \ {None})
    BY <2>5
  <2>7. j \notin Swept(s - 1)
    <3> SUFFICES ASSUME NEW i \in Slots, i <= s - 1, p.slots[i].job = j, j # None PROVE FALSE
      OBVIOUS
    <3>1. i = s
      BY DEF Good, OneSlotEach
    <3> QED BY <2>1, <3>1
  <2>8. \A i \in Jobs : r.job[i] = IF i \in Swept(s) THEN Over(p.job[i], "cancelled") ELSE p.job[i]
    <3> SUFFICES ASSUME NEW i \in Jobs
                 PROVE  r.job[i] = IF i \in Swept(s) THEN Over(p.job[i], "cancelled") ELSE p.job[i]
      OBVIOUS
    <3>1. i # None
      BY DEF Jobs, None
    <3>2. q.job[i] = IF i \in Swept(s - 1) THEN Over(p.job[i], "cancelled") ELSE p.job[i]
      BY <1>3
    <3> HIDE DEF q, r, j, Swept
    <3> QED BY <2>3, <2>4, <2>6, <2>7, <3>1, <3>2
  <2>9. \A i \in Slots : r.slots[i].job = IF i <= s THEN None ELSE p.slots[i].job
    BY <1>3, <2>4, <2>5
  <2> HIDE DEF Swept
  <2> QED BY <1>3, <2>4, <2>8, <2>9
<1> HIDE DEF Fine
<1>4. Bad = {}
  <2> SUFFICES ASSUME Bad # {} PROVE FALSE
    OBVIOUS
  <2>1. PICK m \in Bad : \A n \in Bad : m <= n
    <3>1. Bad \in SUBSET Nat
      BY SizeAssumption
    <3> HIDE DEF Bad
    <3> QED BY <3>1, LeastNatural
  <2>2. m \in Slots /\ m - 1 \notin Bad /\ m - 1 \in 0 .. Size
    BY <1>2, <2>1, SizeAssumption DEF Slots
  <2> QED BY <1>3, <2>2
<1>5. Fine(Size)
  BY <1>4, SizeAssumption
<1>6. \A i \in Jobs : i \in Swept(Size) <=> p.job[i].state = "running"
  <2>1. \A r \in Slots : r <= Size
    BY SizeAssumption DEF Slots
  <2> QED BY <2>1 DEF Good, SlotsRun, RunningHaveSlots, Jobs, None
<1> HIDE DEF Swept
<1> QED BY <1>5, <1>6 DEF Fine, Good

LEMMA ClosePromised ==
    ASSUME Inv, Steady(Pool), Close
    PROVE  Promised
<1> DEFINE over(j) == [job[j] EXCEPT !.state = "done", !.outcome = "cancelled"]
           job1 == [j \in Jobs |-> IF j \in queue THEN over(j) ELSE job[j]]
           p == [Pool EXCEPT !.closed = TRUE, !.queue = {}, !.job = job1]
           f == CHOOSE g : IsSweep(g, p, Size)
           q == f[Size]
<1>1. /\ Pool \in PoolRecord /\ Good(Pool) /\ Pool.job = job /\ Pool.queue = queue
      /\ Pool.slots = slots /\ job \in [Jobs -> JobRecord] /\ queue \in SUBSET Jobs
  BY InvParts DEF PoolRecord
<1>2. \A j \in Jobs : j \in queue <=> job[j].state = "queued"
  BY <1>1 DEF Good, QueueAgrees
<1>3. ASSUME NEW j \in queue
      PROVE  /\ over(j) \in JobRecord /\ over(j).state = "done" /\ over(j).outcome = "cancelled"
             /\ over(j).key = job[j].key /\ over(j).exclusive = job[j].exclusive
             /\ over(j).dropped = job[j].dropped /\ ~over(j).timer /\ JobAgrees(over(j))
             /\ job[j].outcome = Unsettled
  <2>1. j \in Jobs /\ job[j] \in JobRecord /\ job[j].state = "queued"
    BY <1>1, <1>2
  <2>2. ~job[j].timer /\ job[j].outcome = Unsettled
    BY <1>1, <2>1 DEF Good, JobAgrees
  <2> QED BY <2>1, <2>2, Zenon DEF JobRecord, JobStates, JobAgrees, Outcomes, Unsettled
<1> HIDE DEF over
<1>4. job1 \in [Jobs -> JobRecord] /\ \A j \in Jobs : job1[j] = IF j \in queue THEN over(j) ELSE job[j]
  BY <1>1, <1>3
<1> HIDE DEF job1
<1>5. /\ p \in PoolRecord /\ p.job = job1 /\ p.slots = slots /\ p.queue = {} /\ p.closed
  BY <1>1, <1>4 DEF PoolRecord
<1>6. Become(q)
  BY Zenon DEF Close, IsSweep, p, job1, over
<1>7. IsSweep(f, p, Size)
  BY SweepExists, SizeAssumption
<1> HIDE DEF p, f
<1>8. Good(p)
  <2>1. \A s \in Slots : slots[s].job # None => slots[s].job \in Jobs /\ slots[s].job \notin queue
    BY <1>1, <1>2, QueuedIsNotNew
  <2>2. QueueAgrees(p)
    BY <1>2, <1>3, <1>4, <1>5 DEF QueueAgrees
  <2>3. SlotsRun(p) /\ Alone(p) /\ OneSlotEach(p)
    BY <1>1, <1>4, <1>5, <2>1 DEF Good, SlotsRun, Alone, OneSlotEach
  <2>4. RunningHaveSlots(p)
    BY <1>1, <1>3, <1>4, <1>5 DEF Good, RunningHaveSlots
  <2>5. \A j \in Jobs : JobAgrees(p.job[j])
    BY <1>1, <1>3, <1>4, <1>5 DEF Good
  <2> QED BY <1>5, <2>2, <2>3, <2>4, <2>5 DEF Good
<1>9. /\ q \in PoolRecord /\ q.queue = {} /\ q.closed = TRUE
      /\ \A i \in Jobs : q.job[i] = IF job1[i].state = "running"
                                    THEN Over(job1[i], "cancelled") ELSE job1[i]
  BY <1>5, <1>7, <1>8, SweepEffect DEF PoolRecord
<1> HIDE DEF q
<1>10. Pool' = q /\ job' = q.job /\ closed' = TRUE
  BY <1>6, <1>9, BecomeIs
(* What each job has become. *)
<1>11. ASSUME NEW i \in Jobs
       PROVE  /\ job'[i].key = job[i].key
              /\ job'[i].exclusive = job[i].exclusive
              /\ job'[i].dropped = job[i].dropped
              /\ job'[i].state = IF job[i].state = "new" THEN "new" ELSE "done"
              /\ job'[i].outcome = IF job[i].state \in {"queued", "running"}
                                   THEN IF job[i].outcome = Unsettled THEN "cancelled" ELSE job[i].outcome
                                   ELSE job[i].outcome
  <2>1. job[i] \in JobRecord /\ job[i].state \in JobStates
    BY <1>1 DEF JobRecord
  <2>2. CASE i \in queue
    <3>1. job'[i] = over(i)
      BY <1>3, <1>4, <1>9, <1>10, <2>2
    <3> QED BY <1>2, <1>3, <2>2, <3>1
  <2>3. CASE i \notin queue /\ job[i].state = "running"
    <3>1. job'[i] = Over(job[i], "cancelled")
      BY <1>4, <1>9, <1>10, <2>3
    <3> QED BY <2>1, <2>3, <3>1, OverRecord DEF Outcomes
  <2>4. CASE i \notin queue /\ job[i].state # "running"
    <3>1. job'[i] = job[i]
      BY <1>4, <1>9, <1>10, <2>4
    <3> QED BY <1>2, <2>1, <2>4, <3>1 DEF JobStates
  <2> QED BY <2>2, <2>3, <2>4
<1>12. Steady(Pool)'
  <2>1. \A i \in Jobs : /\ q.job[i].key = Pool.job[i].key
                        /\ q.job[i].state = "new" <=> Pool.job[i].state = "new"
    BY <1>1, <1>10, <1>11
  <2>2. InOrder(q) /\ KeysKnown(q)
    BY <2>1 DEF Steady, Orderly, InOrder, KeysKnown
  <2>3. Steady(q)
    BY <1>9, <2>2 DEF Steady, Orderly, NothingQueuedOnceClosed, Awake
  <2> QED BY <1>10, <2>3
<1>13. Contract!Close
  <2>1. ~closed
    BY DEF Close
  <2>2. Contract!Jobs = Jobs
    BY DEF Contract!Jobs, Jobs
  <2>3. /\ {i \in Jobs : job'[i].dropped} = {i \in Jobs : job[i].dropped}
        /\ [i \in Jobs |-> job'[i].exclusive] = [i \in Jobs |-> job[i].exclusive]
    BY <1>11
  <2>4. [i \in Jobs |-> job'[i].state]
          = [i \in Contract!Jobs |-> IF [i_1 \in Jobs |-> job[i_1].state][i] = "new" THEN "new" ELSE "done"]
    BY <1>11, <2>2
  <2>5. [i \in Jobs |-> job'[i].outcome]
          = [i \in Contract!Jobs |->
                IF [i_1 \in Jobs |-> job[i_1].state][i] \in {"queued", "running"}
                THEN Contract!Told(i, "cancelled")[i]
                ELSE [i_1 \in Jobs |-> job[i_1].outcome][i]]
    BY <1>11, <2>2 DEF Contract!Told, Unsettled
  <2> QED BY <1>10, <2>1, <2>3, <2>4, <2>5 DEF Contract!Close
<1>14. AnsweredByThread
  BY <1>11, NoNewAnswer
<1>15. Contract!Next
  BY <1>13 DEF Contract!Next
<1> QED BY <1>12, <1>14, <1>15 DEF Promised

-----------------------------------------------------------------------------
LEMMA InitPromised ==
    ASSUME Init
    PROVE  Steady(Pool) /\ Contract!Init
<1>1. /\ Pool.job = job /\ Pool.queue = {} /\ \A j \in Jobs : job[j].state = "new"
  BY DEF Init, Pool
<1>2. Steady(Pool)
  BY <1>1 DEF Steady, Orderly, InOrder, KeysKnown, NothingQueuedOnceClosed, Awake
<1>3. Contract!Init
  <2>1. Contract!Jobs = Jobs
    BY DEF Contract!Jobs, Jobs
  <2> QED BY <2>1, Zenon DEF Init, Contract!Init, Unsettled
<1> QED BY <1>2, <1>3

LEMMA NextPromised == Inv /\ Steady(Pool) /\ [Next]_vars => Promised
<1> SUFFICES ASSUME Inv, Steady(Pool), [Next]_vars PROVE Promised
  OBVIOUS
<1>1. CASE \E j \in Jobs : \E k \in Keys, exclusive \in BOOLEAN : Submit(j, k, exclusive)
  BY <1>1, SubmitPromised
<1>2. CASE \E j \in Jobs : CancelQueued(j) \/ CancelExclusive(j)
  BY <1>2, CancelQueuedPromised, CancelExclusivePromised
<1>3. CASE \E j \in Jobs : CancelRunning(j)
  BY <1>3, TerminatedPromised DEF CancelRunning
<1>4. CASE \E j \in Jobs : Timeout(j)
  BY <1>4, TimeoutPromised
<1>5. CASE \E t \in threads : Message(t) \/ WorkerError(t) \/ WorkerExit(t)
  BY <1>5, MessagePromised, WorkerErrorPromised, WorkerExitPromised
<1>6. CASE DeferredPump
  BY <1>6, DeferredPumpPromised
<1>7. CASE Close
  BY <1>7, ClosePromised
<1>8. CASE UNCHANGED vars
  <2>1. Pool' = Pool /\ job' = job /\ closed' = closed
    BY <1>8 DEF vars, Pool
  <2>2. UNCHANGED Contract!vars
    BY <2>1 DEF Contract!vars
  <2> QED BY <2>1, <2>2, NoNewAnswer DEF Promised
<1> QED BY <1>1, <1>2, <1>3, <1>4, <1>5, <1>6, <1>7, <1>8 DEF Next, Cancel

LEMMA AlwaysSteady == Spec => [](Inv /\ Steady(Pool))
<1>1. Inv /\ Steady(Pool) /\ [Next]_vars => (Inv /\ Steady(Pool))'
  BY NextInv, NextPromised DEF Promised
<1> QED BY <1>1, InitInv, InitPromised, PTL DEF Spec

(* The pool with its slots, workers, pins, threads and timers does nothing *)
(* that its contract with the MCP session does not promise.                *)
THEOREM PoolImplementsContract == Spec => KeepsContract
<1>1. Inv /\ Steady(Pool) /\ [Next]_vars => [Contract!Next]_(Contract!vars)
  BY NextPromised DEF Promised
<1> QED BY <1>1, AlwaysSteady, InitPromised, PTL DEF Spec, KeepsContract, Contract!Spec

(* A job ends with an answer only by the reply of the worker that its slot *)
(* still has: once terminated, it never produces a result.                 *)
THEOREM TerminatedStaysSilent == Spec => TerminatedNeverAnswers
<1>1. Inv /\ Steady(Pool) /\ [Next]_vars
        => [\A j \in Jobs : job[j].outcome = Unsettled /\ job'[j].outcome \in {"ok", "dropped"} =>
               \E t \in threads \ threads' :
                  /\ t.job = j
                  /\ slots[t.slot].worker = t.id
                  /\ slots'[t.slot].worker = t.id]_vars
  BY NextPromised DEF Promised, AnsweredByThread
<1> QED BY <1>1, AlwaysSteady, PTL DEF Spec, TerminatedNeverAnswers

(* Where no key that a job waits for is forgotten, whatever waits while no *)
(* pump is due has something to wait for.                                  *)
THEOREM NoWakeupIsLost ==
    ASSUME PinsSuffice
    PROVE  Spec => []NoLostWakeup
<1>1. Inv /\ Steady(Pool) => NoLostWakeup
  <2> SUFFICES ASSUME Inv, Steady(Pool) PROVE NoLostWakeup
    OBVIOUS
  <2>1. Pool.pumpScheduled = pumpScheduled /\ Pool.queue = queue /\ Pool.job = job
        /\ Pool.affinity = affinity
    BY InvParts
  <2> QED BY <2>1 DEF Steady, Awake, NoLostWakeup, BlockedIn, Blocked
<1> QED BY <1>1, AlwaysSteady, PTL
=============================================================================
