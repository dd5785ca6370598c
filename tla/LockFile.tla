------------------------------ MODULE LockFile ------------------------------
(***************************************************************************)
(* Lock files that are broken by renaming them aside, and what is done     *)
(* under them.                                                             *)
(*   "inbox"  withClientInboxLock (src/proposals/client-inbox.mjs): the    *)
(*            cap on the pending proposals of a client                     *)
(*   "ledger" withLedgerLock (src/ledger.mjs): appending to the ledger of  *)
(*            served context and rotating it                               *)
(*   "map"    withFileLockSync (src/link/machine.mjs) around selves.json   *)
(*   "id"     the same around the self_id in config.json                   *)
(* A process makes one call.  Every call of the file system on the path of *)
(* the lock is a step.  A lock file is known by its creator; it is empty   *)
(* until its content is written, and `old' once it is past the limit.      *)
(***************************************************************************)
EXTENDS Naturals, Sequences, FiniteSets, SequencesExt

CONSTANTS
    Procs,      \* processes, each with one call to make
    None,       \* no file, no process
    Other,      \* a self that is in selves.json, or a packet in the ledger, from the start
    Cap,        \* CLIENT_INBOX_LIMIT
    Keep,       \* LEDGER_ROTATE_KEEP
    Room        \* entries that fit into the active ledger

VARIABLES
    kind,       \* which of the four locks; never changes
    prompt,     \* the file of a process that is at work never grows old; never changes
    at,         \* where each process is
    lock,       \* the file at the path of the lock
    aside,      \* per process: the file it has renamed aside
    judged,     \* per process: the file it found stale
    guard,      \* inbox: who created the .break file, and whether it is old
    data,       \* inbox: pending proposals; map: registered selves; id: the self_id
    seen,       \* per process: data as it was read under the lock
    slots,      \* ledger: entries of the active file (0) and of the rotated ones
    turn,       \* per process: the next file of its rotation
    gone,       \* history: ledger entries deleted by a rotation
    robbed,     \* history: a file was renamed aside that nobody had judged stale
    unguarded   \* history: a process left its .break file, or a lock file without content

locking == <<lock, aside, judged, guard>>
work == <<data, seen, slots, turn, gone>>
history == <<robbed, unguarded>>
vars == <<kind, prompt, at, locking, work, history>>

File == [by : Procs, full : BOOLEAN, old : BOOLEAN]
Breaking == {"again", "guarding", "unguarding", "comparing", "renaming", "verifying", "cleaning"}
Inside == {"entered", "read", "rotating", "appending"}
AtWork == Inside \cup {"filling", "releasing", "removing"}
Ended == {"done", "refused", "failed", "dead"}

Init ==
    /\ kind \in {"inbox", "ledger", "map", "id"}
    /\ prompt \in BOOLEAN
    /\ at = [p \in Procs |-> "trying"]
    /\ lock = None
    /\ aside = [p \in Procs |-> None]
    /\ judged = [p \in Procs |-> None]
    /\ guard = None
    /\ data = IF kind = "map" THEN {Other} ELSE {}
    /\ seen = [p \in Procs |-> {}]
    /\ slots = [i \in 0 .. Keep |-> IF kind = "ledger" /\ i = 0 THEN <<Other>> ELSE <<>>]
    /\ turn = [p \in Procs |-> Keep]
    /\ gone = <<>>
    /\ robbed = FALSE
    /\ unguarded = FALSE

Go(p, to) == at' = [at EXCEPT ![p] = to]
Forget(p) == judged' = [judged EXCEPT ![p] = None]

-----------------------------------------------------------------------------
(* Taking the lock.  openSync with O_EXCL ... *)
Create(p) ==
    /\ at[p] = "trying"
    /\ lock = None
    /\ lock' = [by |-> p, full |-> FALSE, old |-> FALSE]
    /\ Go(p, "filling")
    /\ UNCHANGED <<kind, prompt, aside, judged, guard, work, history>>

(* ... and a write through the descriptor: it finds the file wherever it   *)
(* has been renamed to.                                                    *)
Written(f, p) == IF f # None /\ f.by = p THEN [f EXCEPT !.full = TRUE] ELSE f

Fill(p) ==
    /\ at[p] = "filling"
    /\ lock' = Written(lock, p)
    /\ aside' = [q \in Procs |-> Written(aside[q], p)]
    /\ Go(p, "entered")
    /\ UNCHANGED <<kind, prompt, judged, guard, work, history>>

(* A full disk: the call fails and leaves an empty lock file. *)
FillFails(p) ==
    /\ at[p] = "filling"
    /\ unguarded' = TRUE
    /\ Go(p, "failed")
    /\ UNCHANGED <<kind, prompt, locking, work, robbed>>

GiveUp(p) ==
    /\ at[p] = "trying"
    /\ Go(p, "failed")
    /\ UNCHANGED <<kind, prompt, locking, work, history>>

(* A file without content has only its age; the self map does not look at  *)
(* the process either.                                                     *)
StaleInbox(f) == f.old \/ (f.full /\ at[f.by] = "dead")
StaleLedger(f) == f.old \/ (f.full /\ at[f.by] = "dead")
StaleMap(f) == f.old
Stale(f) ==
    CASE kind = "inbox" -> StaleInbox(f)
      [] kind = "ledger" -> StaleLedger(f)
      [] OTHER -> StaleMap(f)

(* A lock that is stale is judged; any other is waited for. *)
Judge(p) ==
    /\ at[p] = "trying"
    /\ lock # None
    /\ Stale(lock)
    /\ judged' = [judged EXCEPT ![p] = lock]
    /\ Go(p, CASE kind = "inbox" -> "guarding" [] kind = "ledger" -> "again" [] OTHER -> "renaming")
    /\ UNCHANGED <<kind, prompt, lock, aside, guard, work, history>>

-----------------------------------------------------------------------------
(* Breaking it: breakStaleLock of the inbox. *)
SameInbox(f, j) == IF j.full THEN f.full /\ f.by = j.by ELSE ~f.full

GuardInbox(p) ==
    /\ at[p] = "guarding"
    /\ IF guard = None
          THEN guard' = [by |-> p, old |-> FALSE] /\ Go(p, "comparing") /\ UNCHANGED judged
          ELSE guard' = guard /\ IF guard.old THEN Go(p, "unguarding") /\ UNCHANGED judged
                                              ELSE Go(p, "trying") /\ Forget(p)
    /\ UNCHANGED <<kind, prompt, lock, aside, work, history>>

(* The .break file of a breaker that died is removed by path. *)
UnguardInbox(p) ==
    /\ at[p] = "unguarding"
    /\ guard' = None
    /\ Go(p, "trying")
    /\ Forget(p)
    /\ UNCHANGED <<kind, prompt, lock, aside, work, history>>

CompareInbox(p) ==
    /\ at[p] = "comparing"
    /\ Go(p, IF lock # None /\ SameInbox(lock, judged[p]) THEN "renaming" ELSE "cleaning")
    /\ UNCHANGED <<kind, prompt, locking, work, history>>

(* renameSync takes whatever is at the path. *)
Rename(p) ==
    /\ at[p] = "renaming"
    /\ aside' = [aside EXCEPT ![p] = lock]
    /\ lock' = None
    /\ robbed' = (robbed \/ (lock # None /\ lock.by # judged[p].by))
    /\ IF lock # None
          THEN Go(p, "verifying") /\ UNCHANGED judged
          ELSE IF kind = "inbox" THEN Go(p, "cleaning") /\ UNCHANGED judged
                                 ELSE Go(p, "trying") /\ Forget(p)
    /\ UNCHANGED <<kind, prompt, guard, work, unguarded>>

(* What was renamed is not what was judged: it is put back, over whatever  *)
(* has been created meanwhile.                                             *)
VerifyInbox(p) ==
    /\ at[p] = "verifying"
    /\ kind = "inbox"
    /\ lock' = IF SameInbox(aside[p], judged[p]) THEN lock ELSE aside[p]
    /\ aside' = [aside EXCEPT ![p] = None]
    /\ Go(p, "cleaning")
    /\ UNCHANGED <<kind, prompt, judged, guard, work, history>>

CleanInbox(p) ==
    /\ at[p] = "cleaning"
    /\ guard' = None
    /\ Go(p, "trying")
    /\ Forget(p)
    /\ UNCHANGED <<kind, prompt, lock, aside, work, history>>

(* The ledger looks twice and trusts the second look only if the file is   *)
(* the same ...                                                            *)
LookAgain(p) ==
    /\ at[p] = "again"
    /\ IF lock # None /\ Stale(lock) /\ lock.by = judged[p].by /\ lock.full = judged[p].full
          THEN Go(p, "renaming") /\ UNCHANGED judged
          ELSE Go(p, "trying") /\ Forget(p)
    /\ UNCHANGED <<kind, prompt, lock, aside, guard, work, history>>

(* ... and verifies that what it renamed is stale, whoever made it. *)
VerifyLedger(p) ==
    /\ at[p] = "verifying"
    /\ kind = "ledger"
    /\ lock' = IF Stale(aside[p]) THEN lock ELSE aside[p]
    /\ aside' = [aside EXCEPT ![p] = None]
    /\ Go(p, "trying")
    /\ Forget(p)
    /\ UNCHANGED <<kind, prompt, guard, work, history>>

(* The self map links a different file back, which fails if there is       *)
(* another one by now.                                                     *)
VerifyMap(p) ==
    /\ at[p] = "verifying"
    /\ kind \in {"map", "id"}
    /\ LET same == aside[p].by = judged[p].by /\ aside[p].full = judged[p].full
       IN lock' = IF ~same /\ lock = None THEN aside[p] ELSE lock
    /\ aside' = [aside EXCEPT ![p] = None]
    /\ Go(p, "trying")
    /\ Forget(p)
    /\ UNCHANGED <<kind, prompt, guard, work, history>>

-----------------------------------------------------------------------------
(* Under the lock.  What is there is read: the pending proposals are       *)
(* counted, selves.json or config.json is parsed, the ledger is measured.  *)
Read(p) ==
    /\ at[p] = "entered"
    /\ kind # "ledger"
    /\ seen' = [seen EXCEPT ![p] = data]
    /\ Go(p, "read")
    /\ UNCHANGED <<kind, prompt, locking, data, slots, turn, gone, history>>

CreateProposal_OffByOne(p) ==
    /\ at[p] = "read"
    /\ kind = "inbox"
    /\ data' = IF Cardinality(seen[p]) <= Cap THEN data \cup {p} ELSE data
    /\ Go(p, "releasing")
    /\ UNCHANGED <<kind, prompt, locking, seen, slots, turn, gone, history>>

(* The cap is compared with what was counted, the proposal is a new file. *)
CreateProposal(p) ==
    /\ at[p] = "read"
    /\ kind = "inbox"
    /\ data' = IF Cardinality(seen[p]) < Cap THEN data \cup {p} ELSE data
    /\ Go(p, "releasing")
    /\ UNCHANGED <<kind, prompt, locking, seen, slots, turn, gone, history>>

(* selves.json is replaced by what was read with one entry more or less;   *)
(* seen is then what the caller is told.                                   *)
RegisterSelf(p) ==
    /\ at[p] = "read"
    /\ kind = "map"
    /\ data' = seen[p] \cup {p}
    /\ seen' = [seen EXCEPT ![p] = {p}]
    /\ Go(p, "releasing")
    /\ UNCHANGED <<kind, prompt, locking, slots, turn, gone, history>>

ForgetSelf(p) ==
    /\ at[p] = "read"
    /\ kind = "map"
    /\ data' = seen[p] \ {Other}
    /\ seen' = [seen EXCEPT ![p] = {Other}]
    /\ Go(p, "releasing")
    /\ UNCHANGED <<kind, prompt, locking, slots, turn, gone, history>>

(* A self_id is only written into a config.json that has none. *)
EnsureSelfId(p) ==
    /\ at[p] = "read"
    /\ kind = "id"
    /\ data' = IF seen[p] = {} THEN {p} ELSE data
    /\ seen' = [seen EXCEPT ![p] = IF @ = {} THEN {p} ELSE @]
    /\ Go(p, "releasing")
    /\ UNCHANGED <<kind, prompt, locking, slots, turn, gone, history>>

(* A ledger without room is rotated: the oldest file is deleted, the       *)
(* others move up, the active one last.                                    *)
Measure(p) ==
    /\ at[p] = "entered"
    /\ kind = "ledger"
    /\ Go(p, IF Len(slots[0]) >= Room THEN "rotating" ELSE "appending")
    /\ turn' = [turn EXCEPT ![p] = Keep]
    /\ UNCHANGED <<kind, prompt, locking, data, seen, slots, gone, history>>

Rotate_FromTheActive(p) ==
    /\ at[p] = "rotating"
    /\ LET i == Keep - turn[p] IN
       /\ slots' = IF i = Keep THEN [slots EXCEPT ![Keep] = <<>>]
                   ELSE [slots EXCEPT ![i + 1] = slots[i], ![i] = <<>>]
       /\ gone' = gone \o (IF i = Keep THEN slots[Keep] ELSE slots[i + 1])
    /\ turn' = [turn EXCEPT ![p] = IF @ = 0 THEN 0 ELSE @ - 1]
    /\ Go(p, IF turn[p] = 0 THEN "appending" ELSE "rotating")
    /\ UNCHANGED <<kind, prompt, locking, data, seen, history>>

Rotate(p) ==
    /\ at[p] = "rotating"
    /\ LET i == turn[p]
           moves == i < Keep /\ slots[i] # <<>>
       IN /\ slots' = IF i = Keep THEN [slots EXCEPT ![Keep] = <<>>]
                      ELSE IF moves THEN [slots EXCEPT ![i + 1] = slots[i], ![i] = <<>>] ELSE slots
          /\ gone' = gone \o (IF i = Keep THEN slots[Keep] ELSE IF moves THEN slots[i + 1] ELSE <<>>)
    /\ turn' = [turn EXCEPT ![p] = IF @ = 0 THEN 0 ELSE @ - 1]
    /\ Go(p, IF turn[p] = 0 THEN "appending" ELSE "rotating")
    /\ UNCHANGED <<kind, prompt, locking, data, seen, history>>

AppendLine(p) ==
    /\ at[p] = "appending"
    /\ slots' = [slots EXCEPT ![0] = Append(@, p)]
    /\ Go(p, "releasing")
    /\ UNCHANGED <<kind, prompt, locking, data, seen, turn, gone, history>>

(* What readLedgerEntries returns: the oldest file first. *)
Entries == FlattenSeq([i \in 1 .. Keep + 1 |-> slots[Keep + 1 - i]])

(* An error in the work: the lock is released all the same. *)
WorkFails(p) ==
    /\ at[p] \in Inside
    /\ seen' = [seen EXCEPT ![p] = {}]
    /\ Go(p, "releasing")
    /\ UNCHANGED <<kind, prompt, locking, data, slots, turn, gone, history>>

-----------------------------------------------------------------------------
(* Releasing it.  The inbox and the self map read whether the file is      *)
(* still theirs and remove it in the next call.                            *)
CheckOwn(p) ==
    /\ at[p] = "releasing"
    /\ kind # "ledger"
    /\ Go(p, IF lock # None /\ lock.by = p /\ lock.full THEN "removing" ELSE "done")
    /\ UNCHANGED <<kind, prompt, locking, work, history>>

Unlink(p) ==
    /\ at[p] = "removing"
    /\ lock' = None
    /\ Go(p, "done")
    /\ UNCHANGED <<kind, prompt, aside, judged, guard, work, history>>

(* The ledger renames what is at the path, whoever made it, and deletes    *)
(* that.                                                                   *)
ReleaseLedger(p) ==
    /\ at[p] = "releasing"
    /\ kind = "ledger"
    /\ lock' = None
    /\ Go(p, "done")
    /\ UNCHANGED <<kind, prompt, aside, judged, guard, work, history>>

-----------------------------------------------------------------------------
Crash(p) ==
    /\ at[p] \notin Ended
    /\ Go(p, "dead")
    /\ Forget(p)
    /\ unguarded' = (unguarded \/ at[p] = "filling" \/ (guard # None /\ guard.by = p))
    /\ UNCHANGED <<kind, prompt, lock, aside, guard, work, robbed>>

(* Files grow old; in a prompt system only those of processes that are not *)
(* at work on them.                                                        *)
LockAges ==
    /\ lock # None /\ ~lock.old
    /\ prompt => at[lock.by] \notin AtWork
    /\ lock' = [lock EXCEPT !.old = TRUE]
    /\ UNCHANGED <<kind, prompt, at, aside, judged, guard, work, history>>

GuardAges ==
    /\ guard # None /\ ~guard.old
    /\ prompt => at[guard.by] \notin Breaking
    /\ guard' = [guard EXCEPT !.old = TRUE]
    /\ UNCHANGED <<kind, prompt, at, lock, aside, judged, work, history>>

Next ==
    \/ \E p \in Procs :
        \/ Create(p) \/ Fill(p) \/ FillFails(p) \/ GiveUp(p) \/ Judge(p)
        \/ GuardInbox(p) \/ UnguardInbox(p) \/ CompareInbox(p) \/ Rename(p)
        \/ VerifyInbox(p) \/ CleanInbox(p) \/ LookAgain(p) \/ VerifyLedger(p) \/ VerifyMap(p)
        \/ Read(p) \/ CreateProposal(p) \/ RegisterSelf(p) \/ ForgetSelf(p) \/ EnsureSelfId(p)
        \/ Measure(p) \/ Rotate(p) \/ AppendLine(p) \/ WorkFails(p)
        \/ CheckOwn(p) \/ Unlink(p) \/ ReleaseLedger(p) \/ Crash(p)
    \/ LockAges \/ GuardAges

Spec == Init /\ [][Next]_vars

-----------------------------------------------------------------------------

(* The .break file of the inbox rules that race out, unless a process died *)
(* at the wrong place: a .break file that is left may be taken away from   *)
(* its next creator, and an empty lock cannot be told from another one.    *)
GuardPreventsRobbery == kind = "inbox" /\ prompt /\ ~unguarded => ~robbed

(* While the lock excludes, nothing done under it is lost: the inbox stays *)
(* within its cap, a registered self stays registered and a forgotten one  *)
(* forgotten, there is one self_id, and everybody was told that one.       *)
NoLostUpdate ==
    prompt /\ ~robbed =>
        LET finished == {p \in Procs : at[p] = "done"} IN
        /\ kind = "inbox" => Cardinality(data) <= Cap
        /\ kind = "map" => \A p \in finished :
               (p \in seen[p] => p \in data) /\ (Other \in seen[p] => Other \notin data)
        /\ kind = "id" => Cardinality(data) <= 1 /\ \A p \in finished : seen[p] \in {{}, data}

(* A rotation, also one after a rotation that was cut short, deletes the   *)
(* last rotated file and nothing else: an entry that is deleted was served *)
(* before every entry that is kept.                                        *)
RotationDropsOldest ==
    prompt /\ ~robbed' =>
        /\ IsPrefix(gone \o Entries, gone' \o Entries')
        /\ gone' \in {gone, gone \o slots[Keep]}
NewestKept == [][RotationDropsOldest]_vars
=============================================================================
