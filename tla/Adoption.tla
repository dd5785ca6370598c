-------------------------------- MODULE Adoption --------------------------------
(***************************************************************************)
(* Installing the framework's files in a project as one transaction        *)
(* (src/lib/adoption/transaction.mjs): a plan, an apply behind a           *)
(* write-ahead journal, a recovery, and a rollback with its own journal.   *)
(* One command runs at a time, which AdoptionLock shows of the writer      *)
(* lock; it may fail, or its process may end, between any two of its       *)
(* writes, and the project's owner edits files whenever they like.         *)
(* A file's content is the transaction that wrote it, Mine for what the    *)
(* project had, Edited for an edit, None if there is no file.              *)
(***************************************************************************)
EXTENDS Naturals, Sequences, SequencesExt

CONSTANTS
    Managed,    \* the files of the profile that the framework owns, a sequence
    Seeds,      \* the files it writes once, a sequence
    Synced,     \* the project's files it writes each time: the configuration that was chosen, a sequence
    Lock,       \* agent-framework-lock.json
    MaxRuns,    \* bound: transactions that are planned
    MaxEdits,   \* bound: edits of the owner
    MaxEnds,    \* bound: processes that end in the middle of a command
    Mine, Edited, Torn, Merged, Removed, None

VARIABLES
    disk,       \* the files
    staged, backup,     \* the temporary files beside them that the journal names
    debris,     \* those of a recovery, which nothing names
    plan,       \* the plan that was previewed and confirmed, or None
    journal,    \* None, Torn, or the mutations that may have begun
    receipt,    \* per transaction: the mutations of its durable receipt, or None
    undoing,    \* the journal of a rollback: None, Torn or the transaction it undoes
    run,        \* the command that runs and where it is
    ends,       \* processes that have ended
    cut,        \* history: a recovery was cut short
    drifted,    \* history: files that were edited, ever
    standing    \* history: the edits that were there when the command began

vars == <<disk, staged, backup, debris, plan, journal, receipt, undoing, run, ends, cut, drifted, standing>>

Files == ToSet(Managed) \cup ToSet(Seeds) \cup ToSet(Synced) \cup {Lock}
Empty == [p \in Files |-> None]
Idle == [command |-> "none", at |-> "", n |-> 0, todo |-> <<>>]
Outcome == [command |-> "none", at |-> "refused", n |-> 0, todo |-> <<>>]

(* The project has some of the files; it was never adopted before. *)
Init ==
    /\ disk \in [Files -> {None, Mine}] /\ disk[Lock] = None
    /\ staged = Empty /\ backup = Empty /\ debris = Empty
    /\ plan = None
    /\ journal = None /\ undoing = None
    /\ receipt = [t \in 1..MaxRuns |-> None]
    /\ run = Idle
    /\ ends = 0 /\ cut = FALSE /\ drifted = {} /\ standing = {}

Resting == run.command = "none"
At(command, place) == run.command = command /\ run.at = place
Go(place, n) == run' = [run EXCEPT !.at = place, !.n = n]
Begin(command, place, todo) ==
    /\ run' = [command |-> command, at |-> place, n |-> 0, todo |-> todo]
    /\ standing' = {p \in Files : disk[p] = Edited}

-----------------------------------------------------------------------------
(* The elements of s that are in S, in their order. *)
Those(s, S) == FlattenSeq([i \in DOMAIN s |-> IF s[i] \in S THEN <<s[i]>> ELSE <<>>])

(* The plan.  A lock that cannot be read stops it unless it is to be       *)
(* recovered, and then claims nothing.                                     *)
Claim(p) == IF disk[Lock] \in {None, Edited} THEN None ELSE disk[Lock].entry[p]

ActionForManaged(p) ==
    CASE Claim(p) = Removed /\ disk[p] = None -> "preserve-removed"
      [] Claim(p) = Merged -> IF disk[p] = None THEN "preserve-removed" ELSE "preserve-merged"
      [] Claim(p) \notin {Merged, Removed} /\ disk[p] = None -> IF Claim(p) = None THEN "create" ELSE "preserve-removed"
      [] OTHER -> IF disk[p] = Claim(p) THEN "update" ELSE "conflict"

(* A file of the project's own is written if it is missing, or each time. *)
ActionForSeed(p) == IF disk[p] = None THEN "seed" ELSE IF p \in ToSet(Synced) THEN "update" ELSE "seed-skip"

Resolved(p, resolution) ==
    IF ActionForManaged(p) \notin {"conflict", "preserve-merged"} THEN ActionForManaged(p)
    ELSE CASE resolution = "preserve" -> "preserve-merged"
           [] resolution = "replace" -> "update"
           [] OTHER -> ActionForManaged(p)

LockEntry_Forgets(p, action, t) == IF action = "preserve-removed" THEN Removed ELSE t

LockEntry(p, action, t) ==
    CASE action = "preserve-merged" -> Merged
      [] action = "preserve-removed" -> Removed
      [] OTHER -> t

NextRun == 1 + (IF plan = None THEN 0 ELSE plan.tx)

MakePlan ==
    /\ Resting
    /\ NextRun <= MaxRuns
    /\ journal = None /\ undoing = None
    /\ \E resolution \in [ToSet(Managed) -> {"none", "preserve", "replace"}], recoverUnknown \in BOOLEAN :
          /\ disk[Lock] = Edited => recoverUnknown
          /\ LET action == [p \in ToSet(Managed) |-> Resolved(p, resolution[p])]
                 changed == Those(Managed, {p \in ToSet(Managed) : action[p] \in {"create", "update"}})
                               \o Those(Seeds \o Synced, {p \in ToSet(Seeds \o Synced) : ActionForSeed(p) # "seed-skip"})
             IN /\ \A p \in ToSet(Managed) : action[p] # "conflict"
                /\ plan' = [tx |-> NextRun, seen |-> disk, open |-> TRUE, changed |-> changed,
                            lock |-> [tx |-> NextRun, entry |-> [p \in ToSet(Managed) |-> LockEntry(p, action[p], NextRun)]]]
    /\ UNCHANGED <<disk, staged, backup, debris, journal, receipt, undoing, run, ends, cut, drifted, standing>>

After(p) == IF p = Lock THEN plan.lock ELSE plan.tx

-----------------------------------------------------------------------------
(* Apply.  The plan is made again, before the lock and under it, and must  *)
(* be the one that was confirmed; one that changes nothing stops here.     *)
Unchanged == plan.changed = <<>> /\ disk[Lock] \notin {None, Edited} /\ disk[Lock].entry = plan.lock.entry

StartApply ==
    /\ Resting
    /\ plan # None /\ plan.open
    /\ journal = None /\ undoing = None
    /\ plan' = [plan EXCEPT !.open = FALSE]
    /\ IF disk # plan.seen \/ Unchanged THEN run' = Outcome /\ UNCHANGED standing
       ELSE Begin("apply", "header", Append(plan.changed, Lock))
    /\ UNCHANGED <<disk, staged, backup, debris, journal, receipt, undoing, ends, cut, drifted>>

WriteHeader ==
    /\ At("apply", "header")
    /\ journal' = <<>>
    /\ Go("prepare", 1)
    /\ UNCHANGED <<disk, staged, backup, debris, plan, receipt, undoing, ends, cut, drifted, standing>>

Current == run.todo[run.n]

Prepare ==
    /\ At("apply", "prepare")
    /\ journal' = Append(journal, [path |-> Current, before |-> disk[Current], after |-> After(Current)])
    /\ Go("stage", run.n)
    /\ UNCHANGED <<disk, staged, backup, debris, plan, receipt, undoing, ends, cut, drifted, standing>>

Stage ==
    /\ At("apply", "stage")
    /\ staged' = [staged EXCEPT ![Current] = After(Current)]
    /\ Go("away", run.n)
    /\ UNCHANGED <<disk, backup, debris, plan, journal, receipt, undoing, ends, cut, drifted, standing>>

Away ==
    /\ At("apply", "away")
    /\ IF Last(journal).before = None THEN UNCHANGED <<disk, backup>>
       ELSE backup' = [backup EXCEPT ![Current] = disk[Current]] /\ disk' = [disk EXCEPT ![Current] = None]
    /\ Go("swap", run.n)
    /\ UNCHANGED <<staged, debris, plan, journal, receipt, undoing, ends, cut, drifted, standing>>

Swap ==
    /\ At("apply", "swap")
    /\ disk' = [disk EXCEPT ![Current] = staged[Current]]
    /\ staged' = [staged EXCEPT ![Current] = None]
    /\ IF run.n = Len(run.todo) THEN Go("receipt", run.n) ELSE Go("prepare", run.n + 1)
    /\ UNCHANGED <<backup, debris, plan, journal, receipt, undoing, ends, cut, drifted, standing>>

(* The receipt is durable before a backup or the journal is removed. *)
WriteReceipt ==
    /\ At("apply", "receipt")
    /\ receipt' = [receipt EXCEPT ![plan.tx] = journal]
    /\ Go("cleanup", 0)
    /\ UNCHANGED <<disk, staged, backup, debris, plan, journal, undoing, ends, cut, drifted, standing>>

DropBackups ==
    /\ At("apply", "cleanup")
    /\ backup' = Empty
    /\ Go("close", 0)
    /\ UNCHANGED <<disk, staged, debris, plan, journal, receipt, undoing, ends, cut, drifted, standing>>

CloseJournal ==
    /\ run.at = "close"
    /\ run.command \in {"apply", "recover"}
    /\ journal' = None
    /\ run' = Idle
    /\ UNCHANGED <<disk, staged, backup, debris, plan, receipt, undoing, ends, cut, drifted, standing>>

(* A write fails.  Before the receipt the mutations are undone, the one    *)
(* under way first; after it the journal stays, for a recovery.            *)
FailApply ==
    /\ run.command = "apply" /\ run.at \in {"prepare", "stage", "away", "swap", "receipt", "cleanup", "close"}
    /\ IF run.at \in {"cleanup", "close"} THEN run' = Outcome /\ UNCHANGED <<disk, staged, backup>>
       ELSE LET put == run.at \in {"stage", "away", "swap"} /\ disk[Current] = None /\ backup[Current] # None
            IN /\ staged' = Empty
               /\ IF put THEN disk' = [disk EXCEPT ![Current] = backup[Current]] /\ backup' = [backup EXCEPT ![Current] = None]
                         ELSE UNCHANGED <<disk, backup>>
               /\ Go("undo", IF run.at = "receipt" THEN Len(run.todo) ELSE run.n - 1)
    /\ UNCHANGED <<debris, plan, journal, receipt, undoing, ends, cut, drifted, standing>>

Undo ==
    /\ At("apply", "undo")
    /\ IF run.n = 0 THEN Go("close", 0) /\ UNCHANGED <<disk, backup>>
       ELSE /\ disk' = [disk EXCEPT ![Current] = backup[Current]]
            /\ backup' = [backup EXCEPT ![Current] = None]
            /\ Go("undo", run.n - 1)
    /\ UNCHANGED <<staged, debris, plan, journal, receipt, undoing, ends, cut, drifted, standing>>

-----------------------------------------------------------------------------
(* Recover.  A durable receipt is finished, anything else undone; a file   *)
(* that is neither as before nor as after stops both.                      *)
Drift(mutations) == {m \in ToSet(mutations) : disk[m.path] \notin {m.after, m.before}
                                                  /\ ~(disk[m.path] = None /\ m.before # None)}
ToRestore(mutations) == Those(Reverse(mutations), {m \in ToSet(mutations) : disk[m.path] # m.before})

Refuse == run' = Outcome /\ UNCHANGED standing

StartRecover_Unchecked ==
    /\ Resting
    /\ journal \notin {None, Torn}
    /\ Begin("recover", "away", ToRestore(journal))
    /\ UNCHANGED <<disk, staged, backup, debris, plan, journal, receipt, undoing, ends, cut, drifted>>

StartRecover ==
    /\ Resting
    /\ journal # None
    /\ CASE journal = Torn -> Refuse
         [] journal # Torn /\ receipt[plan.tx] # None ->
                IF \E m \in ToSet(journal) : disk[m.path] # m.after THEN Refuse ELSE Begin("recover", "tidy", <<>>)
         [] OTHER -> IF Drift(journal) # {} THEN Refuse ELSE Begin("recover", "away", ToRestore(journal))
    /\ UNCHANGED <<disk, staged, backup, debris, plan, journal, receipt, undoing, ends, cut, drifted>>

(* restoreMutationSet: each file moved away to a name of its own, and its  *)
(* text of before moved in.                                                *)
RestoreAway ==
    /\ At("recover", "away")
    /\ IF run.n = Len(run.todo) THEN debris' = Empty /\ Go("tidy", 0) /\ UNCHANGED disk
       ELSE LET p == run.todo[run.n + 1].path
            IN /\ debris' = [debris EXCEPT ![p] = disk[p]]
               /\ disk' = [disk EXCEPT ![p] = None]
               /\ Go("in", run.n + 1)
    /\ UNCHANGED <<staged, backup, plan, journal, receipt, undoing, ends, cut, drifted, standing>>

RestoreIn ==
    /\ At("recover", "in")
    /\ disk' = [disk EXCEPT ![Current.path] = Current.before]
    /\ Go("away", run.n)
    /\ UNCHANGED <<staged, backup, debris, plan, journal, receipt, undoing, ends, cut, drifted, standing>>

FailRecover ==
    /\ run.command = "recover" /\ run.at \in {"away", "in"}
    /\ LET moved == {run.todo[i].path : i \in 1..run.n}
       IN disk' = [p \in Files |-> IF p \in moved THEN debris[p] ELSE disk[p]]
    /\ debris' = Empty
    /\ run' = Outcome
    /\ UNCHANGED <<staged, backup, plan, journal, receipt, undoing, ends, cut, drifted, standing>>

Tidy ==
    /\ At("recover", "tidy")
    /\ staged' = Empty /\ backup' = Empty
    /\ Go("close", 0)
    /\ UNCHANGED <<disk, debris, plan, journal, receipt, undoing, ends, cut, drifted, standing>>

-----------------------------------------------------------------------------
(* Rollback by receipt.  All files must be as the receipt says before its  *)
(* journal is written; after that each file is looked at in turn.          *)
StartRollback(t) ==
    /\ Resting
    /\ receipt[t] # None /\ journal = None /\ undoing \in {None, t}
    /\ IF undoing = None /\ \E m \in ToSet(receipt[t]) : disk[m.path] # m.after THEN Refuse
       ELSE run' = [command |-> "rollback", at |-> IF undoing = None THEN "header" ELSE "back", n |-> 0,
                    todo |-> Reverse(receipt[t]), tx |-> t]
            /\ standing' = {p \in Files : disk[p] = Edited}
    /\ UNCHANGED <<disk, staged, backup, debris, plan, journal, receipt, undoing, ends, cut, drifted>>

WriteUndoing ==
    /\ At("rollback", "header")
    /\ undoing' = run.tx
    /\ Go("back", 0)
    /\ UNCHANGED <<disk, staged, backup, debris, plan, journal, receipt, ends, cut, drifted, standing>>

Back ==
    /\ At("rollback", "back")
    /\ IF run.n = Len(run.todo) THEN undoing' = None /\ run' = Idle /\ UNCHANGED disk
       ELSE LET m == run.todo[run.n + 1]
            IN /\ UNCHANGED undoing
               /\ CASE disk[m.path] = m.before -> Go("back", run.n + 1) /\ UNCHANGED disk
                    [] disk[m.path] # m.before /\ disk[m.path] = m.after ->
                           disk' = [disk EXCEPT ![m.path] = m.before] /\ Go("back", run.n + 1)
                    [] OTHER -> run' = Outcome /\ UNCHANGED disk
    /\ UNCHANGED <<staged, backup, debris, plan, journal, receipt, ends, cut, drifted, standing>>

(* A write fails: every file is put back as the receipt says. *)
FailRollback ==
    /\ At("rollback", "back")
    /\ run.n < Len(run.todo) /\ disk[run.todo[run.n + 1].path] = run.todo[run.n + 1].after
    /\ disk' = [p \in Files |-> IF \E m \in ToSet(run.todo) : m.path = p
                                   THEN (CHOOSE m \in ToSet(run.todo) : m.path = p).after ELSE disk[p]]
    /\ undoing' = None
    /\ run' = Outcome
    /\ UNCHANGED <<staged, backup, debris, plan, journal, receipt, ends, cut, drifted, standing>>

-----------------------------------------------------------------------------
(* The process ends.  A journal that it was creating is left torn. *)
End ==
    /\ ~Resting
    /\ ends < MaxEnds
    /\ ends' = ends + 1
    /\ \/ UNCHANGED <<journal, undoing>>
       \/ At("apply", "header") /\ journal' = Torn /\ UNCHANGED undoing
       \/ At("rollback", "header") /\ undoing' = Torn /\ UNCHANGED journal
    /\ cut' = (cut \/ (run.command = "recover" /\ debris # Empty))
    /\ run' = Idle
    /\ UNCHANGED <<disk, staged, backup, debris, plan, receipt, drifted, standing>>

(* The owner edits a file that is there. *)
Edit(p) ==
    /\ Len(SetToSeq(drifted)) < MaxEdits
    /\ disk[p] # None
    /\ disk' = [disk EXCEPT ![p] = Edited]
    /\ drifted' = drifted \cup {p}
    /\ UNCHANGED <<staged, backup, debris, plan, journal, receipt, undoing, run, ends, cut, standing>>

Next ==
    \/ MakePlan
    \/ StartApply \/ WriteHeader \/ Prepare \/ Stage \/ Away \/ Swap
    \/ WriteReceipt \/ DropBackups \/ CloseJournal \/ FailApply \/ Undo
    \/ StartRecover \/ RestoreAway \/ RestoreIn \/ FailRecover \/ Tidy
    \/ \E t \in 1..MaxRuns : StartRollback(t)
    \/ WriteUndoing \/ Back \/ FailRollback
    \/ End
    \/ \E p \in Files : Edit(p)

Spec == Init /\ [][Next]_vars

-----------------------------------------------------------------------------
Settled == Resting /\ journal = None /\ undoing = None

(* Whatever failed or ended on the way, when no journal is left each file  *)
(* is what the framework's lock says, but for what the owner has edited.   *)
LockTellsTheTruth ==
    Settled /\ disk[Lock] \notin {None, Edited} =>
        \A p \in ToSet(Managed) \ drifted : disk[Lock].entry[p] \in {Merged, Removed, disk[p]}

(* When no journal is left there are no temporary files either, unless a   *)
(* recovery was itself cut short, whose files no journal names.            *)
NothingIsLeftBehind == Settled => staged = Empty /\ backup = Empty /\ (debris = Empty \/ cut)

(* An interrupted apply can always be recovered by a project that nobody   *)
(* has edited, as often as it is interrupted.                              *)
RecoveryIsPossible ==
    Resting /\ journal \notin {None, Torn} /\ drifted = {} =>
        IF receipt[plan.tx] # None THEN \A m \in ToSet(journal) : disk[m.path] = m.after ELSE Drift(journal) = {}

(* A recovery never replaces an edit that was there when it began. *)
RecoverySparesEdits ==
    \A p \in standing : run.command = "recover" /\ disk[p] = Edited =>
        disk'[p] = Edited \/ \E m \in ToSet(journal) : m.path = p /\ m.before = Edited
RecoveryKeepsEdits == [][RecoverySparesEdits]_vars

(* docs/reliable-delivery.md:58: authored drift blocks destructive         *)
(* restoration.                                                            *)
RollbackKeepsEdits ==
    [][\A p \in standing : run.command = "rollback" /\ disk[p] = Edited =>
           disk'[p] = Edited \/ \E m \in ToSet(run.todo) : m.path = p /\ m.before = Edited]_vars
=============================================================================
