------------------------------ MODULE PlanApply ------------------------------
(***************************************************************************)
(* Applying a reviewed, digest-bound plan to the canonical documents:      *)
(*   "transform"  applyTransformationPlan    (src/maintenance.mjs)         *)
(*   "move"       applyCleanupPlan           (src/cleanup.mjs)             *)
(*   "fix"        applyValidateFixPlan       (src/policy/validate-fix.mjs) *)
(* The three have one shape: look whether the plan was applied before or   *)
(* is stale, create the lock file of the registry lock, check and write    *)
(* one document after the other, write a receipt, and undo it all on an    *)
(* error.  They differ in how the undoing goes wrong and in how the lock   *)
(* file is removed.                                                        *)
(*                                                                         *)
(* The lock file they create holds a bare process id.  withRegistryLock    *)
(* (src/link/registry.mjs), which uses the same file, looks for a time and *)
(* a pid in it, finds neither and takes the file for years old: its calls  *)
(* break the lock at once.  Its own files are as in RegistryLock; here     *)
(* they are created whole, and read, judged and removed in one step.       *)
(*                                                                         *)
(* A document is known by who wrote it last.  A move is done when the      *)
(* source is gone and the archive holds its bytes, which is the document   *)
(* written by the plan; anything else there is somebody's.                 *)
(***************************************************************************)
EXTENDS Naturals, Sequences

CONSTANTS
    Appliers,       \* processes that apply a plan
    Callers,        \* processes that change a document in withRegistryLock
    Plans,          \* plans, each made of the original documents
    Kind,           \* per plan: "transform", "move" or "fix"
    Steps,          \* per plan: the documents of its operations, in order
    Files,          \* documents
    Orig,           \* wrote the original documents
    Owner,          \* the owner's editor
    MaxSaves,       \* bound: how often the owner saves
    Nobody          \* no process

Procs == Appliers \cup Callers
Writers == Plans \cup Callers \cup {Orig, Owner}

ASSUME KindAssumption == Kind \in [Plans -> {"transform", "move", "fix"}]
ASSUME StepsAssumption ==
    /\ Steps \in [Plans -> Seq(Files)]
    /\ \A x \in Plans : Steps[x] # <<>>
ASSUME NamesAssumption ==
    /\ Nobody \notin Procs \cup Plans
    /\ Appliers \cap Callers = {}
    /\ Plans \cap (Callers \cup {Orig, Owner}) = {}
    /\ Orig \notin Callers \cup {Owner}
ASSUME MaxSavesAssumption == MaxSaves \in Nat

VARIABLES
    ownerWaits,     \* the owner saves nothing while the lock file is there; never changes
    lock,           \* who made the lock file, or Nobody
    at,             \* where each process is
    plan,           \* the plan each applier was given
    done,           \* how many of its operations stand
    made,           \* appliers that created the receipt
    target,         \* the document each caller has read
    doc,            \* who wrote each document last
    receipt,        \* per plan: none, created but empty, or whole
    saves,          \* how often the owner has saved
    torn,           \* history: plans cut by a crash or an undoing that failed
    robbed          \* history: a live process had its lock file removed by another

files == <<doc, receipt>>
history == <<torn, robbed>>
vars == <<ownerWaits, lock, at, plan, done, made, target, files, saves, history>>

Writing == {"checking", "writing", "recording", "filling", "undoing"}
Inside == Writing \cup {"freeing", "failing", "closing", "holding", "planned", "finishing"}
Active == Inside \cup {"locking", "calling"}
Ended == {"applied", "replayed", "failed", "returned", "dead"}

Touches(x) == {Steps[x][i] : i \in DOMAIN Steps[x]}
Next1(p) == Steps[plan[p]][done[p] + 1]     \* the document of the next operation
LastDone(p) == Steps[plan[p]][done[p]]      \* and of the last one that stands
KindOf(p) == Kind[plan[p]]

Init ==
    /\ ownerWaits \in BOOLEAN
    /\ lock = Nobody
    /\ at = [p \in Procs |-> "idle"]
    /\ plan = [p \in Appliers |-> Nobody]
    /\ done = [p \in Appliers |-> 0]
    /\ made = {}
    /\ target = [u \in Callers |-> Nobody]
    /\ doc = [f \in Files |-> Orig]
    /\ receipt = [x \in Plans |-> "none"]
    /\ saves = 0
    /\ torn = {}
    /\ robbed = FALSE

Go(p, to) == at' = [at EXCEPT ![p] = to]

(* The function returns or throws: what it remembered is gone. *)
End(p, to) ==
    /\ Go(p, to)
    /\ done' = IF p \in Appliers THEN [done EXCEPT ![p] = 0] ELSE done
    /\ plan' = IF p \in Appliers /\ to # "applied" THEN [plan EXCEPT ![p] = Nobody] ELSE plan
    /\ target' = IF p \in Callers THEN [target EXCEPT ![p] = Nobody] ELSE target
    /\ made' = made \ {p}

(* rmSync(lock): whatever is at the path. *)
RemoveLock(p) ==
    /\ lock' = Nobody
    /\ robbed' = (robbed \/ (lock \notin {p, Nobody} /\ at[lock] \in Inside))

-----------------------------------------------------------------------------
Verdict_IgnoresDrift(x) ==
    CASE receipt[x] = "whole" -> "replayed"
      [] receipt[x] = "none" /\ \A f \in Touches(x) : doc[f] = Orig -> "locking"
      [] OTHER -> "failed"

(* What an applier finds before it asks for the lock. *)
Verdict(x) ==
    CASE receipt[x] = "whole" /\ \A f \in Touches(x) : doc[f] = x -> "replayed"
      [] receipt[x] = "none" /\ \A f \in Touches(x) : doc[f] = Orig -> "locking"
      [] OTHER -> "failed"

Look(p, x) ==
    /\ at[p] = "idle"
    /\ plan' = [plan EXCEPT ![p] = IF Verdict(x) = "failed" THEN Nobody ELSE x]
    /\ Go(p, Verdict(x))
    /\ UNCHANGED <<ownerWaits, lock, done, made, target, files, saves, history>>

(* writeFileSync(lock, pid, { flag: 'wx' }) *)
Take(p) ==
    /\ at[p] = "locking"
    /\ lock = Nobody
    /\ lock' = p
    /\ Go(p, "checking")
    /\ UNCHANGED <<ownerWaits, plan, done, made, target, files, saves, history>>

(* Every error of it is reported as "busy", also one that leaves the file  *)
(* behind: it was created and could not be written.                        *)
TakeFails(p) ==
    /\ at[p] = "locking"
    /\ lock' \in {lock} \cup (IF lock = Nobody THEN {p} ELSE {})
    /\ End(p, "failed")
    /\ UNCHANGED <<ownerWaits, files, saves, history>>

(* Each document is compared again under the lock. *)
Check(p) ==
    /\ at[p] = "checking"
    /\ Go(p, IF doc[Next1(p)] = Orig THEN "writing" ELSE "undoing")
    /\ UNCHANGED <<ownerWaits, lock, plan, done, made, target, files, saves, history>>

Moved(f) == doc[f] \in Plans /\ Kind[doc[f]] = "move"

(* A transformation replaces what is there, a move takes it along. *)
Write(p) ==
    /\ at[p] = "writing"
    /\ KindOf(p) = "move" => ~Moved(Next1(p))
    /\ doc' = IF KindOf(p) = "move" /\ doc[Next1(p)] # Orig
                 THEN doc ELSE [doc EXCEPT ![Next1(p)] = plan[p]]
    /\ done' = [done EXCEPT ![p] = @ + 1]
    /\ Go(p, IF done[p] + 1 = Len(Steps[plan[p]]) THEN "recording" ELSE "checking")
    /\ UNCHANGED <<ownerWaits, lock, plan, made, target, receipt, saves, history>>

(* The receipt is created, exclusively, ... *)
Record(p) ==
    /\ at[p] = "recording"
    /\ receipt[plan[p]] = "none"
    /\ receipt' = [receipt EXCEPT ![plan[p]] = "empty"]
    /\ made' = made \cup {p}
    /\ Go(p, "filling")
    /\ UNCHANGED <<ownerWaits, lock, plan, done, target, doc, saves, history>>

(* ... and written. *)
Fill(p) ==
    /\ at[p] = "filling"
    /\ receipt' = [receipt EXCEPT ![plan[p]] = "whole"]
    /\ Go(p, "closing")
    /\ UNCHANGED <<ownerWaits, lock, plan, done, made, target, doc, saves, history>>

(* Any step under the lock may throw, and so may the validation before the *)
(* receipt; a receipt that exists does.                                    *)
Error(p) ==
    /\ at[p] \in Writing \ {"undoing"}
    /\ Go(p, "undoing")
    /\ UNCHANGED <<ownerWaits, lock, plan, done, made, target, files, saves, history>>

-----------------------------------------------------------------------------
Undo_LeavesFirst(p) ==
    /\ at[p] = "undoing"
    /\ done[p] > 0
    /\ KindOf(p) = "move" => doc[LastDone(p)] = plan[p]
    /\ doc' = IF done[p] = 1 THEN doc ELSE [doc EXCEPT ![LastDone(p)] = Orig]
    /\ done' = [done EXCEPT ![p] = @ - 1]
    /\ UNCHANGED <<ownerWaits, lock, at, plan, made, target, receipt, saves, history>>

(* The operations that stand are undone, the last one first.  A move is    *)
(* only undone if the archive still holds the bytes that went in; the      *)
(* other kinds put the text of the plan back over whatever is there.       *)
Undo(p) ==
    /\ at[p] = "undoing"
    /\ done[p] > 0
    /\ KindOf(p) = "move" => doc[LastDone(p)] = plan[p]
    /\ doc' = [doc EXCEPT ![LastDone(p)] = Orig]
    /\ done' = [done EXCEPT ![p] = @ - 1]
    /\ UNCHANGED <<ownerWaits, lock, at, plan, made, target, receipt, saves, history>>

(* An error in it: a fix passes over it, the others throw it and undo      *)
(* nothing more, not even the receipt.                                     *)
UndoFails(p) ==
    /\ at[p] = "undoing"
    /\ done[p] > 0
    /\ torn' = torn \cup {plan[p]}
    /\ IF KindOf(p) = "fix"
          THEN done' = [done EXCEPT ![p] = @ - 1] /\ at' = at
          ELSE done' = done /\ Go(p, "failing")
    /\ UNCHANGED <<ownerWaits, lock, plan, made, target, files, saves, robbed>>

(* Last, the receipt, if this process created it. *)
Unrecord(p) ==
    /\ at[p] = "undoing"
    /\ done[p] = 0
    /\ receipt' = IF p \in made THEN [receipt EXCEPT ![plan[p]] = "none"] ELSE receipt
    /\ Go(p, IF KindOf(p) = "move" THEN "failing" ELSE "freeing")
    /\ UNCHANGED <<ownerWaits, lock, plan, done, made, target, doc, saves, history>>

UnrecordFails(p) ==
    /\ at[p] = "undoing"
    /\ done[p] = 0
    /\ p \in made
    /\ torn' = torn \cup {plan[p]}
    /\ Go(p, IF KindOf(p) = "fix" THEN "freeing" ELSE "failing")
    /\ UNCHANGED <<ownerWaits, lock, plan, done, made, target, files, saves, robbed>>

(* The error paths of transform and fix remove the lock here ... *)
Free(p) ==
    /\ at[p] = "freeing"
    /\ RemoveLock(p)
    /\ Go(p, "failing")
    /\ UNCHANGED <<ownerWaits, plan, done, made, target, files, saves, torn>>

(* ... and once more in the finally block, which everyone runs.  A cleanup *)
(* that finds no lock file throws there, whatever it has done.             *)
Close(p) ==
    /\ at[p] \in {"closing", "failing"}
    /\ RemoveLock(p)
    /\ End(p, IF at[p] = "closing" /\ ~(KindOf(p) = "move" /\ lock = Nobody)
                 THEN "applied" ELSE "failed")
    /\ UNCHANGED <<ownerWaits, files, saves, torn>>

-----------------------------------------------------------------------------
Call(u) ==
    /\ at[u] = "idle"
    /\ Go(u, "calling")
    /\ UNCHANGED <<ownerWaits, lock, plan, done, made, target, files, saves, history>>

Acquire(u) ==
    /\ at[u] = "calling"
    /\ lock = Nobody
    /\ lock' = u
    /\ Go(u, "holding")
    /\ UNCHANGED <<ownerWaits, plan, done, made, target, files, saves, history>>

(* The lock file of an applier has no time in it, that of a dead caller    *)
(* has its pid.                                                            *)
Stale(p) == p \in Appliers \/ at[p] = "dead"

Break(u) ==
    /\ at[u] = "calling"
    /\ lock # Nobody
    /\ Stale(lock)
    /\ RemoveLock(u)
    /\ UNCHANGED <<ownerWaits, at, plan, done, made, target, files, saves, torn>>

GiveUp(u) ==
    /\ at[u] = "calling"
    /\ lock # Nobody
    /\ End(u, "failed")
    /\ UNCHANGED <<ownerWaits, lock, files, saves, history>>

(* A reviewed approval: the document is read and compared, and written. *)
Read(u) ==
    /\ at[u] = "holding"
    /\ \E f \in Files : ~Moved(f) /\ target' = [target EXCEPT ![u] = f]
    /\ Go(u, "planned")
    /\ UNCHANGED <<ownerWaits, lock, plan, done, made, files, saves, history>>

Save(u) ==
    /\ at[u] = "planned"
    /\ doc' = [doc EXCEPT ![target[u]] = u]
    /\ Go(u, "finishing")
    /\ UNCHANGED <<ownerWaits, lock, plan, done, made, target, receipt, saves, history>>

(* The function returns, or throws before it has written. *)
Leave(u) ==
    /\ at[u] \in {"holding", "planned", "finishing"}
    /\ RemoveLock(u)
    /\ End(u, "returned")
    /\ UNCHANGED <<ownerWaits, files, saves, torn>>

-----------------------------------------------------------------------------
(* The owner's editor knows no lock. *)
OwnerSave(f) ==
    /\ saves < MaxSaves
    /\ ownerWaits => lock = Nobody
    /\ doc' = [doc EXCEPT ![f] = Owner]
    /\ saves' = saves + 1
    /\ UNCHANGED <<ownerWaits, lock, at, plan, done, made, target, receipt, history>>

Crash(p) ==
    /\ at[p] \in Active
    /\ torn' = IF at[p] \in Writing /\ (done[p] > 0 \/ p \in made)
                  THEN torn \cup {plan[p]} ELSE torn
    /\ End(p, "dead")
    /\ UNCHANGED <<ownerWaits, lock, files, saves, robbed>>

Apply(p) ==
    \/ Take(p) \/ TakeFails(p) \/ Check(p) \/ Write(p) \/ Record(p) \/ Fill(p)
    \/ Error(p) \/ Undo(p) \/ UndoFails(p) \/ Unrecord(p) \/ Free(p) \/ Close(p)

Next ==
    \/ \E p \in Appliers :
        \/ \E x \in Plans : Look(p, x)
        \/ Apply(p)
        \/ UnrecordFails(p)
    \/ \E u \in Callers :
        \/ Call(u) \/ Acquire(u) \/ Break(u) \/ GiveUp(u)
        \/ Read(u) \/ Save(u) \/ Leave(u)
    \/ \E f \in Files : OwnerSave(f)
    \/ \E p \in Procs : Crash(p)

Spec == Init /\ [][Next]_vars

-----------------------------------------------------------------------------
(* Properties *)

(* Plans nobody is in the middle of, and no crash or failed undoing cut. *)
Settled(x) == x \notin torn /\ \A p \in Appliers : plan[p] = x => at[p] \notin Writing

(* As long as no lock was taken from its holder, a plan has changed either *)
(* all its documents, and a receipt says so, or none.                      *)
PlanIsWhole ==
    ~robbed =>
        \A x \in Plans : Settled(x) =>
            IF receipt[x] = "whole"
               THEN \A f \in Touches(x) : doc[f] # Orig
               ELSE \A f \in Touches(x) : doc[f] # x

(* An application that reported success has its receipt, for good: nobody  *)
(* else's error path takes it away, whatever becomes of the lock.          *)
AppliedHasReceipt == \A p \in Appliers : at[p] = "applied" => receipt[plan[p]] = "whole"

(* A plan that is reported as applied before is there, as far as the owner *)
(* and other changes have left it: a replay never hides drift.             *)
ReplayIsTrue ==
    [][\A p \in Appliers : at'[p] = "replayed" /\ at[p] # "replayed" =>
          \A f \in Touches(plan'[p]) : doc[f] = plan'[p]]_vars

(* Neither writing nor undoing a plan overwrites what others have saved,   *)
(* if the owner waits and no lock was taken from its holder.               *)
OthersStay ==
    [][ownerWaits /\ ~robbed' =>
          \A f \in Files : doc[f] \in Callers \cup {Owner} => doc'[f] \in Callers \cup {Owner}]_vars

(* A plan is applied whole or not at all, with its receipt for good; a     *)
(* replay is true, and what others have saved stays.                       *)
PlansAreWhole == PlanIsWhole /\ AppliedHasReceipt
PlansKeepOthers == ReplayIsTrue /\ OthersStay

(* docs/specifications/context-and-lenses-implementation-plan.md says of   *)
(* the lock that it stores the pid and the time, and is removed if it is   *)
(* more than 5,000 ms old or its process is not alive.  Nothing ages here. *)
LiveLockStands == ~robbed
=============================================================================
