------------------------------ MODULE ServerProofs ------------------------------
(***************************************************************************)
(* Proofs about two of the parts that run in an MCP server, for any number *)
(* of processes, calls, ids and workers: the registry lock, and the stdio  *)
(* session over the pool's contract, as MCServer instantiates it (Session).*)
(***************************************************************************)
EXTENDS MCServer, FiniteSetTheorems, TLAPS

-----------------------------------------------------------------------------
(***************************************************************************)
(* A lock file is left behind only by a crash or a failed write or removal *)
(* of its owner; when no process is overtaken inside a window, the lock    *)
(* excludes; and a call that meets nobody, no error at the path and no     *)
(* lock that could not be removed gets it.                                 *)
(***************************************************************************)
(* A call that has not given up has an attempt left. *)
AttemptLeft == \A p \in Procs : at[p] # "timeout" => tries[p] < Attempts

Inv == TypeOK /\ AttemptLeft /\ LockHasOwner

LEMMA InvInit == Init => Inv
BY NoFileAssumption DEF Init, Inv, TypeOK, AttemptLeft, LockHasOwner, Attempts

LEMMA InvStep == Inv /\ [Next]_vars => Inv'
<1> USE NoFileAssumption DEF Inv, TypeOK, AttemptLeft, LockHasOwner, Attempts, Locks,
        Active, Windows, Ended, Go
<1> SUFFICES ASSUME Inv, [Next]_vars PROVE Inv'
  OBVIOUS
<1>1. CASE UNCHANGED vars
  BY <1>1 DEF vars
<1>2. ASSUME NEW p \in Procs, Begin(p) PROVE Inv'
  BY <1>2 DEF Begin
<1>3. ASSUME NEW p \in Procs, Open(p) PROVE Inv'
  BY <1>3 DEF Open
<1>4. ASSUME NEW p \in Procs, Write(p) PROVE Inv'
  BY <1>4 DEF Write
<1>5. ASSUME NEW p \in Procs, WriteFails(p) PROVE Inv'
  BY <1>5 DEF WriteFails
<1>6. ASSUME NEW p \in Procs, Exists(p) PROVE Inv'
  BY <1>6 DEF Exists
<1>7. ASSUME NEW p \in Procs, Busy(p) PROVE Inv'
  BY <1>7 DEF Busy, NextAttempt
<1>8. ASSUME NEW p \in Procs, Judge(p) PROVE Inv'
  BY <1>8 DEF Judge, NextAttempt
<1>9. ASSUME NEW p \in Procs, Break(p) PROVE Inv'
  BY <1>9 DEF Break, Remove, NextAttempt
<1>10. ASSUME NEW p \in Procs, Release(p) PROVE Inv'
  BY <1>10 DEF Release, Remove
<1>11. ASSUME NEW p \in Procs, Crash(p) PROVE Inv'
  BY <1>11 DEF Crash
<1>12. CASE Age
  BY <1>12 DEF Age
<1> QED
  BY <1>1, <1>2, <1>3, <1>4, <1>5, <1>6, <1>7, <1>8, <1>9, <1>10, <1>11, <1>12
  DEF Next, Try

(* A call that is still trying has an attempt left (the loop of            *)
(* withRegistryLock).                                                      *)
THEOREM InvHolds == Spec => []Inv
BY InvInit, InvStep, PTL DEF Spec

(* Every variable has its type, whatever the processes do. *)
THEOREM TypeCorrect == Spec => []TypeOK
BY InvHolds, PTL DEF Inv

(* A lock file belongs to a call still at it, or to one that crashed,      *)
(* could not write it or could not remove it (release and break swallow    *)
(* the error of rmSync): no other call that ended leaves one behind, even  *)
(* if its lock was broken and taken over by others meanwhile.              *)
THEOREM OwnedOrAbsent == Spec => []LockHasOwner
BY InvHolds, PTL DEF Inv

-----------------------------------------------------------------------------
(***************************************************************************)
(* Exclusion, where prompt holds.  A holder's lock is its own, written  *)
(* and young, so it is not stale; and the verdict of a call about to break *)
(* the lock is still true, as nobody moves inside its window.              *)
(***************************************************************************)
OneWindow == \A p, q \in Procs : at[p] \in Windows /\ at[q] \in Windows => p = q

MadeBy(p) == lock # NoFile /\ lock.owner = p /\ ~lock.old

CreatedOwns == \A p \in Procs : at[p] = "created" => MadeBy(p) /\ ~lock.written

HolderOwns == \A p \in Procs : at[p] = "holding" => MadeBy(p) /\ lock.written

BreakerIsRight == \A p \in Procs : at[p] = "breaking" => Stale(lock)

PromptInv == prompt => OneWindow /\ CreatedOwns /\ HolderOwns /\ BreakerIsRight

LEMMA PromptInvInit == Init => PromptInv
BY DEF Init, PromptInv, OneWindow, CreatedOwns, HolderOwns, BreakerIsRight, Windows

LEMMA PromptInvStep ==
  Inv /\ PromptInv /\ [Next]_vars => PromptInv'
<1> USE NoFileAssumption DEF Inv, TypeOK, Locks, Windows, Active, Ended, Go,
        PromptInv, OneWindow, MadeBy, CreatedOwns, HolderOwns, BreakerIsRight,
        Stale, Alive
<1> SUFFICES ASSUME Inv, PromptInv, [Next]_vars, prompt' PROVE PromptInv'
  OBVIOUS
<1>0. prompt
  BY DEF vars, Next, Try, Begin, Open, Write, WriteFails, Exists, Busy, Judge, Break,
    Release, Age, Crash
<1> USE <1>0
<1>1. CASE UNCHANGED vars
  BY <1>1 DEF vars
<1>2. ASSUME NEW p \in Procs, Begin(p) PROVE PromptInv'
  BY <1>2 DEF Begin
<1>3. ASSUME NEW p \in Procs, Open(p) PROVE PromptInv'
  <2>1. \A q \in Procs : at[q] \notin Windows \cup {"holding"} \/ q = p
    BY <1>3 DEF Open, Undisturbed
  <2>2. \A q \in Procs : at'[q] = IF q = p THEN "created" ELSE at[q]
    BY <1>3 DEF Open
  <2>3. lock' = [owner |-> p, written |-> FALSE, old |-> FALSE] 
    BY <1>3 DEF Open
  <2>4. lock' \in Locks
    BY <2>3
  <2> QED
    BY <2>1, <2>2, <2>3, <2>4
<1>4. ASSUME NEW p \in Procs, Write(p) PROVE PromptInv'
  BY <1>4 DEF Write
<1>5. ASSUME NEW p \in Procs, WriteFails(p) PROVE PromptInv'
  BY <1>5 DEF WriteFails
<1>6. ASSUME NEW p \in Procs, Exists(p) PROVE PromptInv'
  BY <1>6 DEF Exists, Undisturbed
<1>7. ASSUME NEW p \in Procs, Busy(p) PROVE PromptInv'
  BY <1>7 DEF Busy, NextAttempt
<1>8. ASSUME NEW p \in Procs, Judge(p) PROVE PromptInv'
  BY <1>8 DEF Judge, NextAttempt
<1>9. ASSUME NEW p \in Procs, Break(p) PROVE PromptInv'
  BY <1>9 DEF Break, Remove, NextAttempt
<1>10. ASSUME NEW p \in Procs, Release(p) PROVE PromptInv'
  BY <1>10 DEF Release, Remove, Undisturbed
<1>11. ASSUME NEW p \in Procs, Crash(p) PROVE PromptInv'
  BY <1>11 DEF Crash
<1>12. CASE Age
  BY <1>12 DEF Age, Holders
<1> QED
  BY <1>1, <1>2, <1>3, <1>4, <1>5, <1>6, <1>7, <1>8, <1>9, <1>10, <1>11, <1>12
  DEF Next, Try

(* Two holders would both have made the one lock file. *)
LEMMA OwnersExclude == HolderOwns => MutualExclusion
<1> SUFFICES ASSUME HolderOwns PROVE Cardinality(Holders) <= 1
  BY DEF MutualExclusion
<1>1. CASE Holders = {}
  BY <1>1, FS_EmptySet
<1>2. CASE Holders # {}
  <2> PICK p \in Holders : TRUE
    BY <1>2
  <2>1. Holders = {p}
    BY DEF Holders, HolderOwns, MadeBy
  <2>2. Cardinality({p}) = 1
    BY FS_Singleton
  <2> QED
    BY <2>1, <2>2
<1> QED
  BY <1>1, <1>2

(* Where prompt holds, no two calls run their function at once, for any    *)
(* number of processes and any crashes.                                    *)
THEOREM PromptExcludes == Spec => []PromptExclusion
<1>1. PromptInv => PromptExclusion
  BY OwnersExclude DEF PromptInv, PromptExclusion
<1> QED
  BY <1>1, InvHolds, PromptInvInit, PromptInvStep, PTL DEF Spec

-----------------------------------------------------------------------------
(***************************************************************************)
(* A call that met nobody and no error.  While it is under way nobody else *)
(* is, so the lock it finds was left by a call that died, which its        *)
(* verdict calls stale, by one that could not write it, which is not even  *)
(* JSON, or by one that could not remove it.  But for the last, the call   *)
(* breaks the lock in its first attempt and finds no lock in its second.   *)
(***************************************************************************)
Unmet(p) == p \notin met
NobodyLeft == \A q \in Procs : at[q] # "left"

Alone == \A p \in Procs :
    at[p] \in Active /\ Unmet(p) => \A q \in Procs \ {p} : at[q] \notin Active

UnwrittenUntilHeld ==
    lock # NoFile /\ at[lock.owner] \in {"created", "failed"} => ~lock.written

FirstOrFree == \A p \in Procs : Unmet(p) /\ NobodyLeft =>
    /\ at[p] \in {"idle", "looking", "breaking"} => tries[p] = 0
    /\ at[p] = "trying" => tries[p] = 0 \/ (tries[p] = 1 /\ lock = NoFile)
    /\ at[p] # "timeout"

SoloInv == Alone /\ UnwrittenUntilHeld /\ FirstOrFree

LEMMA SoloInvInit == Init => SoloInv
BY DEF Init, SoloInv, Alone, UnwrittenUntilHeld, FirstOrFree, Active, Windows

(* The lock before a call that met nobody is one its verdict calls stale,  *)
(* if every removal at a release was done.                                 *)
LEMMA LeftLocksAreStale ==
  ASSUME Inv, SoloInv, NobodyLeft, NEW p \in Procs, at[p] = "looking", Unmet(p)
  PROVE  Stale(lock)
<1>1. CASE lock = NoFile
  BY <1>1 DEF Stale
<1>2. CASE lock # NoFile
  <2>1. lock.owner \in Procs
    BY <1>2 DEF Inv, TypeOK, Locks
  <2>2. at[lock.owner] \in {"failed", "dead"}
    BY <1>2, <2>1 DEF Inv, LockHasOwner, SoloInv, Alone, Active, Windows, NobodyLeft
  <2> QED
    BY <1>2, <2>2 DEF SoloInv, UnwrittenUntilHeld, Stale, Alive
<1> QED
  BY <1>1, <1>2

LEMMA SoloInvStep == Inv /\ SoloInv /\ [Next]_vars => SoloInv'
<1> USE NoFileAssumption DEF Inv, TypeOK, LockHasOwner, Attempts, Locks, Active, Windows,
        Ended, Go, SoloInv, Alone, UnwrittenUntilHeld, FirstOrFree, Unmet, NobodyLeft
<1> SUFFICES ASSUME Inv, SoloInv, [Next]_vars PROVE SoloInv'
  OBVIOUS
<1>1. CASE UNCHANGED vars
  BY <1>1 DEF vars
<1>2. ASSUME NEW p \in Procs, Begin(p) PROVE SoloInv'
  BY <1>2 DEF Begin
<1>3. ASSUME NEW p \in Procs, Open(p) PROVE SoloInv'
  BY <1>3 DEF Open
<1>4. ASSUME NEW p \in Procs, Write(p) PROVE SoloInv'
  BY <1>4 DEF Write
<1>5. ASSUME NEW p \in Procs, WriteFails(p) PROVE SoloInv'
  BY <1>5 DEF WriteFails
<1>6. ASSUME NEW p \in Procs, Exists(p) PROVE SoloInv'
  BY <1>6 DEF Exists
<1>7. ASSUME NEW p \in Procs, Busy(p) PROVE SoloInv'
  BY <1>7 DEF Busy, NextAttempt
<1>8. ASSUME NEW p \in Procs, Judge(p) PROVE SoloInv'
  <2>1. Unmet(p) /\ NobodyLeft => Stale(lock)
    BY <1>8, LeftLocksAreStale DEF Judge
  <2> QED
    BY <1>8, <2>1 DEF Judge, NextAttempt
<1>9. ASSUME NEW p \in Procs, Break(p) PROVE SoloInv'
  BY <1>9 DEF Break, Remove, NextAttempt
<1>10. ASSUME NEW p \in Procs, Release(p) PROVE SoloInv'
  BY <1>10 DEF Release, Remove
<1>11. ASSUME NEW p \in Procs, Crash(p) PROVE SoloInv'
  BY <1>11 DEF Crash
<1>12. CASE Age
  BY <1>12 DEF Age
<1> QED
  BY <1>1, <1>2, <1>3, <1>4, <1>5, <1>6, <1>7, <1>8, <1>9, <1>10, <1>11, <1>12
  DEF Next, Try

(* Whatever a dead process, a full disk or an old run left behind, a call  *)
(* times out only if it met another one or an error at the path, or if     *)
(* some release could not remove its lock: its four attempts are enough,   *)
(* and two of them already are.                                            *)
THEOREM SoloCallsSucceed == Spec => []SoloNeverTimesOut
<1>1. Inv /\ SoloInv => SoloNeverTimesOut
  BY DEF SoloInv, FirstOrFree, Unmet, NobodyLeft, SoloNeverTimesOut
<1> QED
  BY <1>1, InvHolds, SoloInvInit, SoloInvStep, PTL DEF Spec

-----------------------------------------------------------------------------
(***************************************************************************)
(* The session.  The inductive invariant SessionInv adds to the properties *)
(* what they rest on: what a job's phase says of its outcome and its       *)
(* outcome of its reply (Unsettled), that a cancelled job is never settled *)
(* as "ok" (Withheld), and that the pool gives up only what the host or    *)
(* the drain has given up (GivenUp).  Onward says what every step of the   *)
(* contract preserves; one lemma per step of the pool shows it, one per    *)
(* action of the session then keeps SessionInv.                            *)
(***************************************************************************)
Outcomes == {"unsettled", "ok", "dropped", "cancelled", "timeout", "crashed"}
Replies == {"none", "silence", "timeout", "packet", "error"}

(* Every variable has its type; a job that has not reached the pool has    *)
(* nothing yet.                                                            *)
Types ==
    /\ Session!P!TypeOK
    /\ id \in [Session!Jobs -> Ids \cup {Session!None}]
    /\ inFlight \in [Ids -> Session!Jobs \cup {Session!None}]
    /\ cancelled \subseteq Session!Calls
    /\ value \in [Session!Jobs -> {"none", "failed", "packet"}]
    /\ reply \in [Session!Jobs -> Replies]
    /\ ledger \subseteq Session!Jobs
    /\ granted \in BOOLEAN
    /\ input \in {"lines", "draining", "expired", "drained"}
    /\ \A j \in Session!Calls : id[j] \in Ids

(* What a job's phase says of its outcome, and its outcome of its reply. *)
Unsettled ==
    /\ \A j \in Session!Jobs : phase[j] \in {"new", "queued"} => outcome[j] = "unsettled"
    /\ \A j \in Session!Jobs : phase[j] = "running" => outcome[j] \in {"unsettled", "timeout"}
    /\ \A j \in Session!Jobs : reply[j] # "none" => outcome[j] # "unsettled"

(* A cancelled job is never settled as "ok": a write that runs on is one   *)
(* of those the pool has dropped.                                          *)
Withheld ==
    /\ \A j \in cancelled : outcome[j] # "ok" /\ (outcome[j] = "unsettled" => j \in dropped)
    /\ \A j \in Session!Jobs : reply[j] = "packet" => outcome[j] = "ok"
    /\ \A j \in ledger : reply[j] = "packet"

(* A job that its pool has given up was cancelled, or the server expired.  *)
GivenUp ==
    /\ dropped \subseteq cancelled
    /\ \A j \in Session!Jobs : outcome[j] \in {"cancelled", "dropped"} => j \in cancelled \/ input = "expired"
    /\ \A j \in Session!Jobs : reply[j] = "silence" => outcome[j] \in {"cancelled", "dropped"}
    /\ input = "lines" => open
    /\ input = "drained" => \A j \in Session!Calls : reply[j] # "none"

SessionInv == Types /\ Session!TableIsExact /\ Unsettled /\ Withheld /\ GivenUp

Phases == {"new", "queued", "running", "done"}

(* Every step of the pool takes jobs onward: none becomes new, what a job  *)
(* was told stands, and a job that waits or runs is told nothing but that  *)
(* its time is up.                                                         *)
Onward ==
    /\ Session!P!TypeOK'
    /\ \A j \in Session!Jobs : phase'[j] = "new" => phase[j] = "new"
    /\ \A j \in Session!Jobs : outcome[j] # "unsettled" => outcome'[j] = outcome[j]
    /\ \A j \in Session!Jobs : phase'[j] \in {"new", "queued"} => phase[j] \in {"new", "queued"} /\ outcome'[j] = outcome[j]
    /\ \A j \in Session!Jobs : phase'[j] = "running" => phase[j] # "done" /\ outcome'[j] \in {outcome[j], "timeout"}

SameCalls == \A j \in Session!Jobs : phase'[j] = "new" <=> phase[j] = "new"
ToldOnly(j, o) == outcome' = [outcome EXCEPT ![j] = IF @ = "unsettled" THEN o ELSE @]

-----------------------------------------------------------------------------
(* Jobs that are started were waiting. *)
LEMMA Started ==
    ASSUME NEW ph \in [Session!Jobs -> Phases], NEW w, Session!P!StartSome(ph, w)
    PROVE  /\ phase' \in [Session!Jobs -> Phases]
           /\ \A j \in Session!Jobs : phase'[j] = ph[j] \/ (ph[j] = "queued" /\ phase'[j] = "running")
<1>1. PICK S \in SUBSET {j \in Session!Jobs : ph[j] = "queued"} :
          phase' = [j \in Session!Jobs |-> IF j \in S THEN "running" ELSE ph[j]]
  BY DEF Session!P!StartSome, Session!P!Jobs, Session!Jobs
<1>. QED  BY <1>1 DEF Phases

LEMMA SubmitOnward ==
    ASSUME Session!P!TypeOK, NEW j \in Session!Jobs, NEW w \in BOOLEAN, Session!P!Submit(j, w), open,
           outcome[j] = "unsettled"
    PROVE  /\ Onward /\ outcome' = outcome /\ open' = open /\ dropped' = dropped
           /\ phase[j] = "new" /\ phase'[j] # "new"
           /\ \A k \in Session!Jobs \ {j} : phase'[k] = "new" <=> phase[k] = "new"
<1>1. /\ phase \in [Session!Jobs -> Phases] /\ write \in [Session!Jobs -> BOOLEAN] /\ open \in BOOLEAN
      /\ outcome \in [Session!Jobs -> Outcomes] /\ dropped \subseteq Session!Jobs
  BY DEF Session!P!TypeOK, Session!P!Jobs, Session!Jobs, Phases, Outcomes
<1>2. /\ phase[j] = "new" /\ write' \in [Session!Jobs -> BOOLEAN] /\ open' = open
      /\ outcome' = outcome /\ dropped' = dropped
      /\ Session!P!StartSome([phase EXCEPT ![j] = "queued"], write')
  BY <1>1 DEF Session!P!Submit
<1>3. [phase EXCEPT ![j] = "queued"] \in [Session!Jobs -> Phases]
  BY <1>1 DEF Phases
<1>4. /\ phase' \in [Session!Jobs -> Phases]
      /\ \A k \in Session!Jobs : 
             \/ phase'[k] = [phase EXCEPT ![j] = "queued"][k]
             \/ [phase EXCEPT ![j] = "queued"][k] = "queued" /\ phase'[k] = "running"
  BY <1>2, <1>3, Started
<1>5. Session!P!TypeOK'
  BY <1>1, <1>2, <1>4 DEF Session!P!TypeOK, Session!P!Jobs, Session!Jobs, Phases, Outcomes
<1>. QED  BY <1>1, <1>2, <1>4, <1>5 DEF Onward, Phases

LEMMA WithdrawOnward ==
    ASSUME Session!P!TypeOK, NEW j \in Session!Jobs, Session!P!Withdraw(j)
    PROVE  /\ Onward /\ SameCalls /\ ToldOnly(j, "cancelled") /\ open' = open /\ dropped' = dropped
           /\ phase[j] = "queued"
BY DEF Session!P!TypeOK, Session!P!Withdraw, Session!P!Told, Session!P!Jobs, Session!Jobs, Onward, SameCalls, ToldOnly, Outcomes, Phases

LEMMA DropOnward ==
    ASSUME Session!P!TypeOK, NEW j \in Session!Jobs, Session!P!Drop(j)
    PROVE  /\ Onward /\ SameCalls /\ outcome' = outcome /\ open' = open /\ dropped' = dropped \cup {j}
           /\ phase[j] = "running"
BY DEF Session!P!TypeOK, Session!P!Drop, Session!P!Jobs, Session!Jobs, Onward, SameCalls, Outcomes, Phases

LEMMA ExpireOnward ==
    ASSUME Session!P!TypeOK, NEW j \in Session!Jobs, Session!P!Expire(j)
    PROVE  /\ Onward /\ SameCalls /\ ToldOnly(j, "timeout") /\ open' = open /\ dropped' = dropped
BY DEF Session!P!TypeOK, Session!P!Expire, Session!P!Told, Session!P!Jobs, Session!Jobs, Onward, SameCalls, ToldOnly, Outcomes, Phases

LEMMA EndOnward ==
    ASSUME Session!P!TypeOK, NEW j \in Session!Jobs, NEW o \in Outcomes, Session!P!End(j, o)
    PROVE  /\ Onward /\ SameCalls /\ ToldOnly(j, o) /\ open' = open /\ dropped' = dropped
           /\ phase[j] = "running"
           /\ (o = "ok" => j \notin dropped) /\ (o = "dropped" => j \in dropped)
<1>1. /\ phase \in [Session!Jobs -> Phases] /\ write \in [Session!Jobs -> BOOLEAN] /\ open \in BOOLEAN
      /\ outcome \in [Session!Jobs -> Outcomes] /\ dropped \subseteq Session!Jobs
  BY DEF Session!P!TypeOK, Session!P!Jobs, Session!Jobs, Phases, Outcomes
<1>2. /\ phase[j] = "running" /\ write' = write /\ open' = open /\ dropped' = dropped
      /\ ToldOnly(j, o)
      /\ Session!P!StartSome([phase EXCEPT ![j] = "done"], write)
      /\ (o = "ok" => j \notin dropped) /\ (o = "dropped" => j \in dropped)
  BY <1>1 DEF Session!P!End, Session!P!Told, ToldOnly
<1>3. [phase EXCEPT ![j] = "done"] \in [Session!Jobs -> Phases]
  BY <1>1 DEF Phases
<1>4. /\ phase' \in [Session!Jobs -> Phases]
      /\ \A k \in Session!Jobs : 
             \/ phase'[k] = [phase EXCEPT ![j] = "done"][k]
             \/ [phase EXCEPT ![j] = "done"][k] = "queued" /\ phase'[k] = "running"
  BY <1>2, <1>3, Started
<1>5. Session!P!TypeOK'
  BY <1>1, <1>2, <1>4 DEF Session!P!TypeOK, Session!P!Jobs, Session!Jobs, Phases, Outcomes, ToldOnly
<1>6. SameCalls
  BY <1>1, <1>2, <1>4 DEF SameCalls, Phases
<1>7. Onward
  BY <1>1, <1>2, <1>4, <1>5 DEF Onward, ToldOnly, Phases
<1>. QED  BY <1>2, <1>6, <1>7

LEMMA StartLaterOnward ==
    ASSUME Session!P!TypeOK, Session!P!StartLater
    PROVE  Onward /\ SameCalls /\ outcome' = outcome /\ open' = open /\ dropped' = dropped
<1>1. /\ phase \in [Session!Jobs -> Phases] /\ UNCHANGED <<write, dropped, outcome, open>>
      /\ Session!P!StartSome(phase, write)
  BY DEF Session!P!TypeOK, Session!P!StartLater, Session!P!Jobs, Session!Jobs, Phases
<1>2. /\ phase' \in [Session!Jobs -> Phases]
      /\ \A j \in Session!Jobs : phase'[j] = phase[j] \/ (phase[j] = "queued" /\ phase'[j] = "running")
  BY <1>1, Started
<1>3. Session!P!TypeOK'
  BY <1>1, <1>2 DEF Session!P!TypeOK, Session!P!Jobs, Session!Jobs, Phases
<1>. QED  BY <1>1, <1>2, <1>3 DEF Onward, SameCalls

(* Closing tells the jobs that nobody has told anything. *)
LEMMA CloseOnward ==
    ASSUME Session!P!TypeOK, Session!P!Close
    PROVE  /\ Onward /\ SameCalls /\ dropped' = dropped
           /\ \A j \in Session!Jobs : outcome'[j] = outcome[j] \/ (phase[j] # "new" /\ outcome'[j] = "cancelled")
<1>. \A j \in Session!Jobs : Session!P!Told(j, "cancelled")[j] = IF outcome[j] = "unsettled" THEN "cancelled" ELSE outcome[j]
  BY DEF Session!P!TypeOK, Session!P!Told, Session!P!Jobs, Session!Jobs
<1>1. /\ phase' = [j \in Session!Jobs |-> IF phase[j] = "new" THEN "new" ELSE "done"]
      /\ outcome' = [j \in Session!Jobs |-> IF phase[j] \in {"queued", "running"} /\ outcome[j] = "unsettled"
                                    THEN "cancelled" ELSE outcome[j]]
      /\ open' = FALSE /\ UNCHANGED <<write, dropped>>
  BY DEF Session!P!Close, Session!P!Jobs, Session!Jobs, Session!P!TypeOK
<1>2. Session!P!TypeOK'
  BY <1>1 DEF Session!P!TypeOK, Session!P!Jobs, Session!Jobs
<1>. QED  BY <1>1, <1>2 DEF Onward, SameCalls
-----------------------------------------------------------------------------
Values == {"none", "failed", "packet"}
Inputs == {"lines", "draining", "expired", "drained"}

LEMMA UnsettledKept ==
    ASSUME Session!P!TypeOK, Unsettled, Onward, reply' = reply
    PROVE  Unsettled'
<1>1. /\ phase \in [Session!Jobs -> Phases] /\ phase' \in [Session!Jobs -> Phases]
      /\ outcome \in [Session!Jobs -> Outcomes] /\ outcome' \in [Session!Jobs -> Outcomes]
  BY DEF Onward, Session!P!TypeOK, Session!P!Jobs, Session!Jobs, Phases, Outcomes
<1>2. \A j \in Session!Jobs : phase'[j] \in {"new", "queued"} => outcome'[j] = "unsettled"
  BY DEF Unsettled, Onward
<1>3. \A j \in Session!Jobs : phase'[j] = "running" => outcome'[j] \in {"unsettled", "timeout"}
  BY <1>1 DEF Unsettled, Onward, Phases
<1>4. \A j \in Session!Jobs : reply'[j] # "none" => outcome'[j] # "unsettled"
  BY DEF Unsettled, Onward
<1>. QED  BY <1>2, <1>3, <1>4 DEF Unsettled

(* Steps of the pool that answer nothing leave the table as exact as it    *)
(* was.                                                                    *)
LEMMA TableKept ==
    ASSUME SessionInv, Onward, SameCalls, UNCHANGED <<id, inFlight, reply, ledger>>,
           cancelled' \subseteq Session!Calls', value' \in [Session!Jobs -> Values],
           granted' \in BOOLEAN, input' \in Inputs
    PROVE  Types' /\ Session!TableIsExact' /\ Unsettled'
<1>. Session!Calls' = Session!Calls
  BY DEF SameCalls, Session!Calls
<1>1. Types'
  BY DEF SessionInv, Types, Onward, Values, Inputs
<1>2. Session!TableIsExact'
  BY DEF SessionInv, Session!TableIsExact, Session!Pending
<1>3. Unsettled'
  BY UnsettledKept DEF SessionInv, Types
<1>. QED  BY <1>1, <1>2, <1>3

LEMMA InitInv == Session!Init => SessionInv
BY DEF Session!Init, Session!P!Init, SessionInv, Types, Session!P!TypeOK, Session!P!Jobs, Session!Jobs, Session!TableIsExact, Unsettled, Withheld, GivenUp,
       Session!Calls, Session!Pending, Session!None, Replies

LEMMA CallInv ==
    ASSUME SessionInv, NEW j \in Session!Jobs, NEW i \in Ids, NEW w \in BOOLEAN, Session!Call(j, i, w)
    PROVE  SessionInv'
<1>1. /\ input = "lines" /\ open /\ phase[j] = "new" /\ Session!P!TypeOK /\ outcome[j] = "unsettled"
      /\ inFlight[i] = Session!None /\ Session!P!Submit(j, w)
      /\ id' = [id EXCEPT ![j] = i] /\ inFlight' = [inFlight EXCEPT ![i] = j]
      /\ UNCHANGED <<cancelled, value, reply, ledger, granted, input>>
  BY DEF Session!Call, SessionInv, Types, GivenUp, Unsettled, Session!P!Submit
<1>2. /\ Onward /\ outcome' = outcome /\ open' = open /\ dropped' = dropped
      /\ phase'[j] # "new"
      /\ \A k \in Session!Jobs \ {j} : phase'[k] = "new" <=> phase[k] = "new"
  BY <1>1, SubmitOnward
<1>3. Session!Calls' = Session!Calls \cup {j} /\ j \notin Session!Calls
  BY <1>1, <1>2 DEF Session!Calls
<1>4. reply[j] = "none"
  BY <1>1 DEF SessionInv, Types, Unsettled
<1>5. Types'
  BY <1>1, <1>2, <1>3 DEF SessionInv, Types, Onward
<1>6. Session!TableIsExact'
  <2>1. \A k \in Session!Calls' : reply'[k] = "none" => inFlight'[id'[k]] = k
    BY <1>1, <1>3 DEF SessionInv, Types, Session!TableIsExact, Session!Calls, Session!None, Session!Jobs
  <2>2. \A h \in Session!Pending' : inFlight'[h] \in Session!Calls' /\ id'[inFlight'[h]] = h /\ reply'[inFlight'[h]] = "none"
    BY <1>1, <1>3, <1>4 DEF SessionInv, Types, Session!TableIsExact, Session!Pending, Session!Calls
  <2>. QED  BY <2>1, <2>2 DEF Session!TableIsExact
<1>7. Unsettled'
  BY <1>1, <1>2, UnsettledKept DEF SessionInv, Types
<1>8. Withheld'
  BY <1>1, <1>2 DEF SessionInv, Withheld
<1>9. GivenUp'
  BY <1>1, <1>2 DEF SessionInv, GivenUp
<1>. QED  BY <1>5, <1>6, <1>7, <1>8, <1>9 DEF SessionInv

LEMMA CancelInv ==
    ASSUME SessionInv, NEW i \in Ids, Session!CancelCall(i)
    PROVE  SessionInv'
<1>. DEFINE j == inFlight[i]
<1>1. /\ input = "lines" /\ j \in Session!Calls /\ j \in Session!Jobs /\ reply[j] = "none" /\ Session!P!TypeOK
      /\ cancelled' = cancelled \cup {j}
      /\ UNCHANGED <<id, inFlight, value, reply, ledger, granted, input>>
  BY DEF Session!CancelCall, SessionInv, Session!TableIsExact, Session!Pending, Session!Calls, Types
<1>2. \/ Session!P!Withdraw(j) \/ Session!P!Drop(j) \/ Session!P!End(j, "cancelled")
  BY DEF Session!CancelCall
<1>. HIDE DEF j
<1>3. /\ Onward /\ SameCalls /\ open' = open /\ phase[j] \in {"queued", "running"}
      /\ \/ ToldOnly(j, "cancelled") /\ dropped' = dropped
         \/ outcome' = outcome /\ dropped' = dropped \cup {j}
  <2>1. CASE Session!P!Withdraw(j)
    BY <1>1, <2>1, WithdrawOnward
  <2>2. CASE Session!P!Drop(j)
    BY <1>1, <2>2, DropOnward
  <2>3. CASE Session!P!End(j, "cancelled")
    <3>1. "cancelled" \in Outcomes
      BY DEF Outcomes
    <3>. QED  BY <1>1, <2>3, <3>1, EndOnward
  <2>. QED  BY <1>2, <2>1, <2>2, <2>3
<1>4. outcome \in [Session!Jobs -> Outcomes] /\ outcome[j] \in {"unsettled", "timeout"}
  BY <1>1, <1>3 DEF SessionInv, Unsettled, Session!P!TypeOK, Session!P!Jobs, Session!Jobs, Outcomes
<1>5. Types' /\ Session!TableIsExact' /\ Unsettled'
  <2>1. cancelled' \subseteq Session!Calls'
    BY <1>1, <1>3 DEF SessionInv, Types, SameCalls, Session!Calls
  <2>2. value' \in [Session!Jobs -> Values] /\ granted' \in BOOLEAN /\ input' \in Inputs
    BY <1>1 DEF SessionInv, Types, Values, Inputs
  <2>. QED  BY <1>1, <1>3, <2>1, <2>2, TableKept
<1>6. Withheld'
  BY <1>1, <1>3, <1>4 DEF SessionInv, Types, Withheld, ToldOnly, Session!Calls
<1>7. GivenUp'
  <2>1. Session!Calls' = Session!Calls
    BY <1>3 DEF SameCalls, Session!Calls
  <2>. QED  BY <1>1, <1>3, <1>4, <2>1 DEF SessionInv, Types, GivenUp, ToldOnly
<1>. QED  BY <1>5, <1>6, <1>7 DEF SessionInv

(* A step of the pool that nobody has asked for, and what the worker posts *)
(* back.                                                                   *)
LEMMA SettleInv ==
    ASSUME SessionInv, Onward, SameCalls, open' = open, dropped' = dropped,
           UNCHANGED <<id, inFlight, cancelled, reply, ledger, granted, input>>,
           value' \in [Session!Jobs -> Values],
           \/ outcome' = outcome
           \/ \E j \in Session!Jobs, o \in Outcomes \ {"cancelled"} :
                 ToldOnly(j, o) /\ (o = "ok" => j \notin dropped) /\ (o = "dropped" => j \in dropped)
    PROVE  SessionInv'
<1>. Session!Calls' = Session!Calls
  BY DEF SameCalls, Session!Calls
<1>1. Types' /\ Session!TableIsExact' /\ Unsettled'
  <2>1. cancelled' \subseteq Session!Calls' /\ granted' \in BOOLEAN /\ input' \in Inputs
    BY DEF SessionInv, Types, Inputs
  <2>. QED  BY <2>1, TableKept
<1>2. CASE outcome' = outcome
  BY <1>1, <1>2 DEF SessionInv, Withheld, GivenUp
<1>3. ASSUME NEW j \in Session!Jobs, NEW o \in Outcomes \ {"cancelled"}, ToldOnly(j, o),
             o = "ok" => j \notin dropped, o = "dropped" => j \in dropped
      PROVE  SessionInv'
  <2>1. outcome \in [Session!Jobs -> Outcomes]
    BY DEF SessionInv, Types, Session!P!TypeOK, Session!P!Jobs, Session!Jobs, Outcomes
  <2>2. \A k \in Session!Jobs : outcome'[k] = outcome[k] \/ (k = j /\ outcome[k] = "unsettled" /\ outcome'[k] = o)
    BY <1>3, <2>1 DEF ToldOnly
  <2>3. Withheld'
    BY <1>3, <2>1, <2>2 DEF SessionInv, Types, Session!Calls, Withheld, Unsettled
  <2>4. GivenUp'
    BY <1>3, <2>1, <2>2 DEF SessionInv, Types, GivenUp, Unsettled
  <2>. QED  BY <1>1, <2>3, <2>4 DEF SessionInv
<1>. QED  BY <1>2, <1>3

LEMMA AnswerInv ==
    ASSUME SessionInv, NEW j \in Session!Jobs, Session!Answer(j)
    PROVE  SessionInv'
<1>1. Session!P!TypeOK /\ UNCHANGED <<id, inFlight, cancelled, reply, ledger, granted, input>>
  BY DEF SessionInv, Types, Session!Answer
<1>2. value' \in [Session!Jobs -> Values]
  BY DEF SessionInv, Types, Session!Answer, Values
<1>3. PICK o \in {"ok", "dropped"} : Session!P!End(j, o)
  BY DEF Session!Answer
<1>4. o \in Outcomes \ {"cancelled"}
  BY DEF Outcomes
<1>5. /\ Onward /\ SameCalls /\ ToldOnly(j, o) /\ open' = open /\ dropped' = dropped
      /\ (o = "ok" => j \notin dropped) /\ (o = "dropped" => j \in dropped)
  BY <1>1, <1>3, <1>4, EndOnward
<1>. QED  BY <1>1, <1>2, <1>4, <1>5, SettleInv

LEMMA PoolStepInv ==
    ASSUME SessionInv, Session!PoolStep
    PROVE  SessionInv'
<1>1. /\ Session!P!TypeOK /\ UNCHANGED <<id, inFlight, cancelled, reply, ledger, granted, input>>
      /\ value' \in [Session!Jobs -> Values]
  BY DEF SessionInv, Types, Session!PoolStep, Session!session, Values
<1>2. {"timeout", "crashed"} \subseteq Outcomes \ {"cancelled"}
  BY DEF Outcomes
<1>3. CASE Session!P!StartLater
  BY <1>1, <1>3, StartLaterOnward, SettleInv
<1>4. ASSUME NEW j \in Session!Jobs, Session!P!Expire(j) \/ Session!P!End(j, "timeout") \/ Session!P!End(j, "crashed")
      PROVE  SessionInv'
  <2>1. PICK o \in {"timeout", "crashed"} :
            Onward /\ SameCalls /\ ToldOnly(j, o) /\ open' = open /\ dropped' = dropped
    BY <1>1, <1>2, <1>4, ExpireOnward, EndOnward
  <2>. QED  BY <1>1, <1>2, <2>1, SettleInv
<1>. QED  BY <1>3, <1>4 DEF Session!PoolStep

LEMMA DeliverInv ==
    ASSUME SessionInv, NEW j \in Session!Jobs, Session!Deliver(j)
    PROVE  SessionInv'
<1>. DEFINE r == Session!Written(j)
<1>1. /\ outcome[j] # "unsettled" /\ reply[j] = "none" /\ UNCHANGED Session!pool
      /\ reply' = [reply EXCEPT ![j] = r] /\ inFlight' = [inFlight EXCEPT ![id[j]] = Session!None]
      /\ ledger' \in {ledger} \cup (IF r = "packet" THEN {ledger \cup {j}} ELSE {})
      /\ UNCHANGED <<id, cancelled, value, granted, input>>
  BY DEF Session!Deliver, Session!Settled
<1>2. /\ r \in Replies \ {"none"}
      /\ r = "silence" => outcome[j] \in {"cancelled", "dropped"}
      /\ r = "packet" => outcome[j] = "ok"
  BY DEF Session!Written, Replies
<1>. HIDE DEF r
<1>. USE DEF Session!pool
<1>3. Session!Calls' = Session!Calls /\ j \in Session!Calls
  BY <1>1 DEF Session!Calls, SessionInv, Unsettled
<1>4. id[j] \in Ids /\ inFlight[id[j]] = j
  BY <1>1, <1>3 DEF SessionInv, Types, Session!TableIsExact
<1>5. Types'
  <2>1. Session!P!TypeOK'
    BY <1>1 DEF SessionInv, Types, Session!P!TypeOK
  <2>2. reply' \in [Session!Jobs -> Replies] /\ inFlight' \in [Ids -> Session!Jobs \cup {Session!None}] /\ ledger' \subseteq Session!Jobs
    BY <1>1, <1>2 DEF SessionInv, Types
  <2>. QED  BY <1>1, <1>3, <2>1, <2>2 DEF SessionInv, Types
<1>6. Session!TableIsExact'
  <2>1. \A k \in Session!Calls : reply'[k] = "none" => inFlight'[id[k]] = k
    BY <1>1, <1>2, <1>3, <1>4 DEF SessionInv, Types, Session!TableIsExact, Session!Calls
  <2>2. \A h \in Session!Pending' : inFlight'[h] = inFlight[h] /\ h \in Session!Pending /\ h # id[j]
    BY <1>1, <1>4 DEF Session!Pending, SessionInv, Types
  <2>3. \A h \in Session!Pending' : inFlight'[h] \in Session!Calls /\ id[inFlight'[h]] = h /\ reply'[inFlight'[h]] = "none"
    BY <1>1, <2>2 DEF SessionInv, Session!TableIsExact, Types, Session!Calls
  <2>. QED  BY <1>1, <1>3, <2>1, <2>3 DEF Session!TableIsExact
<1>7. Unsettled'
  BY <1>1, <1>2 DEF SessionInv, Types, Unsettled
<1>8. Withheld'
  BY <1>1, <1>2 DEF SessionInv, Types, Withheld, Session!Calls
<1>9. GivenUp'
  BY <1>1, <1>2, <1>3 DEF SessionInv, Types, GivenUp, Session!Calls
<1>. QED  BY <1>5, <1>6, <1>7, <1>8, <1>9 DEF SessionInv
LEMMA DrainInv ==
    ASSUME SessionInv, Session!Drain
    PROVE  SessionInv'
<1>1. /\ Session!Pending = {} /\ input' = "drained" /\ Session!P!Close /\ Session!P!TypeOK
      /\ UNCHANGED <<id, inFlight, cancelled, value, reply, ledger, granted>>
  BY DEF Session!Drain, Session!session, SessionInv, Types
<1>2. /\ Onward /\ SameCalls /\ dropped' = dropped
      /\ \A j \in Session!Jobs : outcome'[j] = outcome[j] \/ (phase[j] # "new" /\ outcome'[j] = "cancelled")
  BY <1>1, CloseOnward
<1>3. \A j \in Session!Calls : reply[j] # "none" /\ outcome[j] # "unsettled"
  BY <1>1 DEF SessionInv, Types, Session!TableIsExact, Unsettled, Session!Pending, Session!Calls, Session!None, Session!Jobs
<1>4. outcome' = outcome /\ Session!Calls' = Session!Calls
  <2>1. \A j \in Session!Jobs : outcome'[j] = outcome[j]
    BY <1>2, <1>3 DEF Onward, Session!Calls
  <2>2. outcome \in [Session!Jobs -> Outcomes] /\ outcome' \in [Session!Jobs -> Outcomes]
    BY <1>1, <1>2 DEF Onward, Session!P!TypeOK, Session!P!Jobs, Session!Jobs, Outcomes
  <2>3. outcome' = outcome
    BY <2>1, <2>2
  <2>. QED  BY <1>2, <2>3 DEF SameCalls, Session!Calls
<1>5. Types' /\ Session!TableIsExact' /\ Unsettled'
  <2>1. cancelled' \subseteq Session!Calls' /\ value' \in [Session!Jobs -> Values] /\ granted' \in BOOLEAN /\ input' \in Inputs
    BY <1>1, <1>4 DEF SessionInv, Types, Values, Inputs
  <2>. QED  BY <1>1, <1>2, <2>1, TableKept
<1>6. Withheld'
  BY <1>1, <1>2, <1>4 DEF SessionInv, Withheld
<1>7. GivenUp'
  <2>1. \A j \in Session!Jobs : outcome'[j] \in {"cancelled", "dropped"} => j \in cancelled
    <3>1. ~(input = "expired")
      BY DEF Session!Drain
    <3>. QED  BY <1>4, <3>1 DEF SessionInv, GivenUp
  <2>. QED  BY <1>1, <1>2, <1>3, <1>4, <2>1 DEF SessionInv, GivenUp
<1>. QED  BY <1>5, <1>6, <1>7 DEF SessionInv

LEMMA ExpireInv ==
    ASSUME SessionInv, Session!Expire
    PROVE  SessionInv'
<1>1. /\ input' = "expired" /\ Session!P!Close /\ Session!P!TypeOK
      /\ UNCHANGED <<id, inFlight, cancelled, value, reply, ledger, granted>>
  BY DEF Session!Expire, Session!session, SessionInv, Types
<1>2. /\ Onward /\ SameCalls /\ dropped' = dropped
      /\ \A j \in Session!Jobs : outcome'[j] = outcome[j] \/ (phase[j] # "new" /\ outcome'[j] = "cancelled")
  BY <1>1, CloseOnward
<1>3. Types' /\ Session!TableIsExact' /\ Unsettled'
  <2>1. cancelled' \subseteq Session!Calls' /\ value' \in [Session!Jobs -> Values] /\ granted' \in BOOLEAN /\ input' \in Inputs
    BY <1>1, <1>2 DEF SessionInv, Types, SameCalls, Session!Calls, Values, Inputs
  <2>. QED  BY <1>1, <1>2, <2>1, TableKept
<1>4. Withheld'
  <2>1. \A j \in cancelled : outcome'[j] # "ok" /\ (outcome'[j] = "unsettled" => j \in dropped)
    BY <1>2 DEF SessionInv, Types, Session!Calls, Withheld
  <2>2. \A j \in Session!Jobs : reply[j] = "packet" => outcome'[j] = "ok"
    BY <1>2 DEF SessionInv, Withheld, Onward
  <2>. QED  BY <1>1, <1>2, <2>1, <2>2 DEF SessionInv, Withheld
<1>5. GivenUp'
  <2>1. \A j \in Session!Jobs : reply[j] = "silence" => outcome'[j] \in {"cancelled", "dropped"}
    BY <1>2 DEF SessionInv, GivenUp, Onward
  <2>. QED  BY <1>1, <1>2, <2>1 DEF SessionInv, GivenUp
<1>. QED  BY <1>3, <1>4, <1>5 DEF SessionInv

LEMMA StepInv == SessionInv /\ [Session!Next]_(Session!vars) => SessionInv'
<1>. SUFFICES ASSUME SessionInv, [Session!Next]_(Session!vars)
              PROVE  SessionInv'
  OBVIOUS
<1>1. CASE UNCHANGED Session!vars
  BY <1>1 DEF SessionInv, Types, Session!P!TypeOK, Session!P!Jobs, Session!Jobs, Session!TableIsExact, Unsettled, Withheld, GivenUp, Session!Calls, Session!Pending,
              Session!vars, Session!pool, Session!session
<1>2. CASE Session!OwnerEdits
  BY <1>2 DEF SessionInv, Types, Session!P!TypeOK, Session!P!Jobs, Session!Jobs, Session!TableIsExact, Unsettled, Withheld, GivenUp, Session!Calls, Session!Pending,
              Session!OwnerEdits, Session!pool, Session!session
<1>3. CASE Session!EndOfInput
  BY <1>3 DEF SessionInv, Types, Session!P!TypeOK, Session!P!Jobs, Session!Jobs, Session!TableIsExact, Unsettled, Withheld, GivenUp, Session!Calls, Session!Pending,
              Session!EndOfInput, Session!pool, Session!session
<1>. QED  BY <1>1, <1>2, <1>3, CallInv, AnswerInv, DeliverInv, CancelInv, PoolStepInv, DrainInv, ExpireInv DEF Session!Next

(* SessionInv always holds of a session: the table of mcp-server.mjs has exactly  *)
(* the calls that wait, and what was given up is never settled as "ok".    *)
THEOREM SessionInvHolds == Session!Spec => []SessionInv
BY InitInv, StepInv, PTL DEF Session!Spec

(* For any number of calls, ids and workers: a call is in the table under  *)
(* its id until it is answered, a call that was cancelled in time is never *)
(* given a packet and the ledger does not say so, and silence has one of   *)
(* two reasons (dispatch, settle and finishAtEof of mcp-server.mjs).       *)
THEOREM EveryCallAccounted == Session!Spec => []CallsAreAnswered
<1>1. SessionInv => CallsAreAnswered
  <2>. SUFFICES ASSUME SessionInv PROVE CallsAreAnswered
    OBVIOUS
  <2>1. Session!CancelledNeverServed
    BY DEF SessionInv, Types, Withheld, Session!CancelledNeverServed, Session!Calls
  <2>2. Session!SilenceHasReason
    BY DEF SessionInv, GivenUp, Session!SilenceHasReason, Session!Calls
  <2>. QED  BY <2>1, <2>2 DEF SessionInv, CallsAreAnswered, Session!CallsAreAnswered
<1>. QED  BY <1>1, SessionInvHolds, PTL

(* No packet is written, and none recorded as served, by a step that finds *)
(* the client's grant gone.                                                *)
THEOREM GrantsAreHonoured == Session!Spec => NoPacketWithoutGrant
<1>. DEFINE A == \A j \in Session!Jobs :
                    (reply'[j] = "packet" /\ reply[j] # "packet") \/ j \in ledger' \ ledger => granted
<1>1. [Session!Next]_(Session!vars) /\ SessionInv => [A]_(Session!vars)
  <2>. SUFFICES ASSUME Session!Next, SessionInv PROVE A
    OBVIOUS
  <2>1. ASSUME NEW k \in Session!Jobs, Session!Deliver(k) PROVE A
    BY <2>1 DEF Session!Deliver, Session!Written, SessionInv, Types
  <2>2. CASE UNCHANGED <<reply, ledger>>
    BY <2>2
  <2>3. \/ \E k \in Session!Jobs : Session!Deliver(k)
        \/ UNCHANGED <<reply, ledger>>
    BY DEF Session!Next, Session!Call, Session!Answer, Session!CancelCall, Session!PoolStep, Session!OwnerEdits, Session!EndOfInput, Session!Drain, Session!Expire, Session!session
  <2>. QED  BY <2>1, <2>2, <2>3
<1>2. Session!Spec => [][A]_(Session!vars)
  BY <1>1, SessionInvHolds, PTL DEF Session!Spec
<1>. QED  BY <1>2 DEF NoPacketWithoutGrant, Session!NoPacketWithoutGrant
=============================================================================
