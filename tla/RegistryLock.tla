---------------------------- MODULE RegistryLock ----------------------------
(***************************************************************************)
(* withRegistryLock (src/link/registry.mjs): the lock file                 *)
(* <self>/.holoself/links.json.lock that serialises changes to the link    *)
(* and client registries and the review of proposals, between processes.   *)
(*                                                                         *)
(* Every call of the file system is a step of its own: the file is created *)
(* empty and written afterwards, and it is read, judged and removed by     *)
(* path, with other processes in between.                                  *)
(*                                                                         *)
(* Where prompt holds, no process is overtaken inside one of these windows *)
(* and holders finish before their lock counts as old.  The code does      *)
(* nothing to make it so: prompt is there to show what the lock's promise  *)
(* rests on.  It is chosen at the start and never changes.                 *)
(*                                                                         *)
(* Removing a file may fail as opening and reading it may (a scanner, an   *)
(* indexer), and both removals swallow the error.  A process lives on when *)
(* its call has ended (a server): the lock of one that exits is stale for  *)
(* everybody, and so is what Age makes of it.                              *)
(***************************************************************************)
EXTENDS Integers, FiniteSets

CONSTANTS
    Procs,          \* calls of withRegistryLock, each in a process of its own
    NoFile            \* no lock file

Attempts == 4       \* one, and one after each of the backoffs 50, 150, 450

Locks == [owner : Procs, written : BOOLEAN, old : BOOLEAN]

ASSUME NoFileAssumption == NoFile \notin Locks

VARIABLES
    prompt,         \* see above
    lock,           \* the lock file: NoFile, or who made it, is it written, is it > 5 s old
    at,             \* where each call is
    tries,          \* how many attempts each call has used
    met             \* history: calls that met another one or an error at the path

vars == <<prompt, lock, at, tries, met>>

Windows == {"created", "looking", "breaking"}
Active == {"trying", "holding"} \cup Windows
Ended == {"done", "left", "timeout", "failed", "dead"}     \* left: done, its lock still there

Alive(p) == at[p] # "dead"
Holders == {p \in Procs : at[p] = "holding"}

(* No other process is inside a window. *)
Undisturbed(p) == prompt => \A q \in Procs \ {p} : at[q] \notin Windows

Init ==
    /\ prompt \in BOOLEAN
    /\ lock = NoFile
    /\ at = [p \in Procs |-> "idle"]
    /\ tries = [p \in Procs |-> 0]
    /\ met = {}

Go(p, to) == at' = [at EXCEPT ![p] = to]

Begin(p) ==
    /\ at[p] = "idle"
    /\ Go(p, "trying")
    /\ LET others == {q \in Procs : at[q] \in Active}
       IN met' = met \cup others \cup (IF others = {} THEN {} ELSE {p})
    /\ UNCHANGED <<prompt, lock, tries>>

(* openSync(lockPath, 'wx') *)
Open(p) ==
    /\ at[p] = "trying"
    /\ Undisturbed(p)
    /\ lock = NoFile
    /\ lock' = [owner |-> p, written |-> FALSE, old |-> FALSE]
    /\ Go(p, "created")
    /\ UNCHANGED <<prompt, tries, met>>

(* The pid and the time go into the file the call created, which another   *)
(* process may have removed meanwhile.                                     *)
Write(p) ==
    /\ at[p] = "created"
    /\ lock' = IF lock # NoFile /\ lock.owner = p THEN [lock EXCEPT !.written = TRUE] ELSE lock
    /\ Go(p, "holding")
    /\ UNCHANGED <<prompt, tries, met>>

(* A full disk: the error passes through, the empty file stays. *)
WriteFails(p) ==
    /\ at[p] = "created"
    /\ Go(p, "failed")
    /\ UNCHANGED <<prompt, lock, tries, met>>

(* EEXIST *)
Exists(p) ==
    /\ at[p] = "trying"
    /\ Undisturbed(p)
    /\ lock # NoFile
    /\ Go(p, "looking")
    /\ UNCHANGED <<prompt, lock, tries, met>>

NextAttempt_Endless(p) ==
    /\ tries' = [tries EXCEPT ![p] = (@ + 1) % Attempts]
    /\ Go(p, "trying")

(* The attempt failed; after the last one the call gives up. *)
NextAttempt(p) ==
    /\ tries' = [tries EXCEPT ![p] = @ + 1]
    /\ Go(p, IF tries[p] + 1 = Attempts THEN "timeout" ELSE "trying")

(* EPERM, EBUSY or EACCES, from the open or from the read: busy, wait. *)
Busy(p) ==
    /\ at[p] \in {"trying", "looking"}
    /\ Undisturbed(p)
    /\ NextAttempt(p)
    /\ met' = met \cup {p}
    /\ UNCHANGED <<prompt, lock>>

Stale_AnyReadable(l) == l = NoFile \/ l.written

Stale_OldOnly(l) == l = NoFile \/ l.old

(* The verdict on what was read: gone (ENOENT), not JSON, old, or the lock *)
(* of a dead process.                                                      *)
Stale(l) == l = NoFile \/ ~l.written \/ l.old \/ ~Alive(l.owner)

Judge(p) ==
    /\ at[p] = "looking"
    /\ IF Stale(lock) THEN Go(p, "breaking") /\ tries' = tries ELSE NextAttempt(p)
    /\ UNCHANGED <<prompt, lock, met>>

(* rmSync(lockPath, { force: true }) in a try whose catch is empty. *)
Remove == lock' \in {NoFile, lock}

(* What is there by now is removed, or is not; the next attempt follows    *)
(* without a pause, and uses one up.                                       *)
Break(p) ==
    /\ at[p] = "breaking"
    /\ Remove
    /\ met' = IF lock' = NoFile THEN met ELSE met \cup {p}
    /\ NextAttempt(p)
    /\ UNCHANGED prompt

Release_Forgets(p) ==
    /\ at[p] = "holding"
    /\ Undisturbed(p)
    /\ Go(p, "done")
    /\ UNCHANGED <<prompt, lock, tries, met>>

(* fn has returned or thrown: the file is removed, whoever made it, or is  *)
(* not, and nobody is told: the call's own stays behind.                   *)
Release(p) ==
    /\ at[p] = "holding"
    /\ Undisturbed(p)
    /\ Remove
    /\ Go(p, IF lock' # NoFile /\ lock'.owner = p THEN "left" ELSE "done")
    /\ UNCHANGED <<prompt, tries, met>>

(* Five seconds pass. *)
Age ==
    /\ lock # NoFile
    /\ lock.written /\ ~lock.old
    /\ prompt => lock.owner \notin Holders
    /\ lock' = [lock EXCEPT !.old = TRUE]
    /\ UNCHANGED <<prompt, at, tries, met>>

Crash(p) ==
    /\ at[p] \in Active
    /\ Go(p, "dead")
    /\ UNCHANGED <<prompt, lock, tries, met>>

Try(p) == Open(p) \/ Exists(p) \/ Judge(p) \/ Break(p) \/ Write(p)

Next ==
    \/ \E p \in Procs :
        \/ Begin(p)
        \/ Try(p)
        \/ WriteFails(p)
        \/ Busy(p)
        \/ Release(p)
        \/ Crash(p)
    \/ Age

Spec == Init /\ [][Next]_vars

(* Processes that are alive run on. *)
Fairness == \A p \in Procs : WF_vars(Try(p)) /\ WF_vars(Release(p))

FairSpec == Spec /\ Fairness

-----------------------------------------------------------------------------
(* Properties *)

(* Every variable has its type. *)
TypeOK ==
    /\ prompt \in BOOLEAN
    /\ lock \in Locks \cup {NoFile}
    /\ at \in [Procs -> {"idle"} \cup Active \cup Ended]
    /\ tries \in [Procs -> 0 .. Attempts]
    /\ met \subseteq Procs

(* At most one call runs its function: the promise of the lock. *)
MutualExclusion == Cardinality(Holders) <= 1

(* The promise is kept, through crashes, failed writes and left-over       *)
(* locks, where prompt holds.                                              *)
PromptExclusion == prompt => MutualExclusion

(* A lock file belongs to a call still at it, or to one that crashed,      *)
(* could not write it or could not remove it: no other call that came to   *)
(* its end leaves a lock that stalls the next one, even if its own was     *)
(* broken and others have taken over meanwhile.                            *)
LockHasOwner == lock # NoFile => at[lock.owner] \in {"created", "holding", "failed", "dead", "left"}

(* A call times out only if it met another one or an error at the path, or *)
(* if a call that is over could not remove its lock.  What a dead process, *)
(* a full disk or an old run left behind does not stall it: it takes over  *)
(* such locks instead of waiting for them.                                 *)
SoloNeverTimesOut == \A p \in Procs : at[p] = "timeout" => p \in met \/ \E q \in Procs : at[q] = "left"

(* Every call acquires the lock and is done, or gives up: again and again  *)
(* no call is under way.                                                   *)
EveryCallEnds == []<>(\A p \in Procs : at[p] \notin Active)
=============================================================================
