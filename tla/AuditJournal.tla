------------------------------ MODULE AuditJournal ------------------------------
(***************************************************************************)
(* The write-ahead journal of a run's events                               *)
(* (src/lib/sources/journaled-run-store.mjs, pending-audit-journal.mjs): an*)
(* event is journaled before it is appended to the source, and leaves the  *)
(* journal when the source has it or can never have it.  Processes share a *)
(* journal directory; each step of the journal holds its writer lock, and a*)
(* process that dies within one leaves the lock, and perhaps a stage that  *)
(* was not promoted or a safety slot that was not committed.               *)
(***************************************************************************)
EXTENDS Naturals, Sequences, SequencesExt, FiniteSets

CONSTANTS
    Processes,
    Business, Safety,   \* the events: of business, and of stopping (paused, blocked, delegation-safety)
    Slots,      \* how many safety events the reserve holds
    MaxDead,    \* bound: processes that die
    Writer,     \* the process that the run records as its writer
    None, New, Foreign  \* Foreign: an event of a writer with a journal of its own

Events == Business \cup Safety

VARIABLES
    source,     \* the events that the source holds
    prev,       \* per event: the event that it follows, or New before it is derived
    entries,    \* the journal: business events that are undecided
    acks, retired,
    slots,      \* the safety reserve: [event -> "none", "written", "committed", "acknowledged"]
    stage,      \* a snapshot that was not promoted: None or [entries, acks, retired]
    wlock,      \* writer.lock: None or its owner
    rlock,      \* recovery.lock: None or its owner
    job,        \* per process: [at, event, found]
    flying,     \* external: requests to the source that have not arrived: <<event, "append" or "replay">>
    dead

vars == <<source, prev, entries, acks, retired, slots, stage, wlock, rlock, job, flying, dead>>
journal == <<entries, acks, retired>>
remote == <<source, flying>>

Free == [at |-> "idle", event |-> None]
Revision == IF source = <<>> THEN None ELSE Last(source)
In(e) == e \in Range(source)
Kept == [entries |-> entries, acks |-> acks, retired |-> retired]

Init ==
    /\ source = <<>>
    /\ prev = [e \in Events |-> New]
    /\ entries = {} /\ acks = {} /\ retired = {}
    /\ slots = [e \in Safety |-> "none"]
    /\ stage = None /\ wlock = None /\ rlock = None
    /\ job = [p \in Processes |-> Free]
    /\ flying = {} /\ dead = {}

Alive(p) == p \notin dead
At(p, place) == Alive(p) /\ job[p].at = place
Go(p, place) == job' = [job EXCEPT ![p].at = place]
Stop(p) == job' = [job EXCEPT ![p] = Free]

-----------------------------------------------------------------------------
(* One journal operation under its lock: done, or cut short by the end of  *)
(* its process before the snapshot is promoted or after.  A journal with a *)
(* stage that was not promoted takes no snapshot.                          *)
Unlocked == wlock = None /\ rlock = None
Open == Unlocked /\ \A e \in Safety : slots[e] # "written"
Dies(p) ==
    /\ Cardinality(dead) < MaxDead
    /\ dead' = dead \cup {p}
    /\ wlock' = p
    /\ Stop(p)

Promote(v) == entries' = v.entries /\ acks' = v.acks /\ retired' = v.retired

Save(p, v, next) ==
    /\ stage = None
    /\ \/ Promote(v) /\ Go(p, next) /\ UNCHANGED <<dead, wlock, stage>>
       \/ Promote(v) /\ Dies(p) /\ UNCHANGED stage
       \/ stage' = v /\ Dies(p) /\ UNCHANGED journal

(* The journal cannot be opened, or has a stage: the operation is refused. *)
Refused(p, next) ==
    /\ ~Open \/ stage # None
    /\ Go(p, next)
    /\ UNCHANGED <<journal, slots, stage, wlock, dead>>

-----------------------------------------------------------------------------
(* append.  First the journal is reconciled: every event in it is looked up*)
(* in the source, which must hold what was acknowledged and nothing that   *)
(* was retired; an event that the source has is acknowledged, and one that *)
(* it has not refuses new work.                                            *)
Undecided == entries \cup {e \in Safety : slots[e] = "committed"}
Agrees == acks \subseteq Range(source) /\ retired \cap Range(source) = {}
          /\ \A e \in Safety : slots[e] = "acknowledged" => In(e)

Clean == Open /\ stage = None /\ Agrees

Compact(p, e, next) ==
    \/ /\ e \in entries
       /\ Save(p, [Kept EXCEPT !.entries = @ \ {e}, !.acks = @ \cup {e}], next)
       /\ UNCHANGED slots
    \/ /\ e \in Safety /\ slots[e] = "committed"
       /\ slots' = [slots EXCEPT ![e] = "acknowledged"]
       /\ \/ Go(p, next) /\ UNCHANGED <<dead, wlock>>
          \/ Dies(p)
       /\ UNCHANGED <<journal, stage>>

(* With an event to append, derived from the source as it is now. *)
Derive(p, e) ==
    /\ At(p, "idle")
    /\ prev[e] = New
    /\ prev' = [prev EXCEPT ![e] = Revision]
    /\ job' = [job EXCEPT ![p] = [at |-> "reconcile", event |-> e]]
    /\ UNCHANGED <<remote, journal, slots, stage, wlock, rlock, dead>>

Reconcile(p) ==
    /\ At(p, "reconcile")
    /\ \/ Clean /\ Undecided = {} /\ Go(p, "put") /\ UNCHANGED <<journal, slots, stage, wlock, dead>>
       \/ Clean /\ \E e \in Undecided : In(e) /\ Compact(p, e, "reconcile")
       \/ /\ ~Clean \/ \E e \in Undecided : ~In(e)
          /\ Stop(p) /\ UNCHANGED <<journal, slots, stage, wlock, dead>>
    /\ UNCHANGED <<remote, prev, rlock>>

Put(p) ==
    /\ At(p, "put")
    /\ LET e == job[p].event
           used == Cardinality({f \in Safety : slots[f] # "none"})
       IN \/ Revision # prev[e] /\ Stop(p) /\ UNCHANGED <<journal, slots, stage, wlock, dead>>
          \/ /\ Revision = prev[e] /\ Open /\ e \in Business
             /\ Save(p, [Kept EXCEPT !.entries = @ \cup {e}], "send") /\ UNCHANGED slots
          \/ /\ Revision = prev[e] /\ Open /\ e \in Safety /\ used < Slots
             /\ \/ slots' = [slots EXCEPT ![e] = "committed"] /\ Go(p, "send") /\ UNCHANGED <<dead, wlock>>
                \/ \E s \in {"written", "committed"} : slots' = [slots EXCEPT ![e] = s] /\ Dies(p)
             /\ UNCHANGED <<journal, stage>>
          \/ /\ ~Open \/ (e \in Business /\ stage # None) \/ (e \in Safety /\ used = Slots)
             /\ Stop(p) /\ UNCHANGED <<journal, slots, stage, wlock, dead>>
    /\ UNCHANGED <<remote, prev, rlock>>

(* The store refuses at once what no longer follows the source. *)
Send(p) ==
    /\ At(p, "send")
    /\ IF Revision = prev[job[p].event]
       THEN flying' = flying \cup {<<job[p].event, "append">>} /\ Go(p, "sent")
       ELSE Go(p, "refused") /\ UNCHANGED flying
    /\ UNCHANGED <<source, prev, journal, slots, stage, wlock, rlock, dead>>

(* external: a request arrives, is refused because the branch has moved, or*)
(* never arrives.                                                          *)
Arrive_Anyway(e, by) ==
    /\ <<e, by>> \in flying
    /\ flying' = flying \ {<<e, by>>}
    /\ source' = Append(source, e)
    /\ UNCHANGED <<prev, journal, slots, stage, wlock, rlock, job, dead>>

Arrive(e, by) ==
    /\ <<e, by>> \in flying
    /\ flying' = flying \ {<<e, by>>}
    /\ source' = IF prev[e] = Revision THEN Append(source, e) ELSE source
    /\ job' = [p \in Processes |->
                 IF by = "append" /\ job[p].at = "sent" /\ job[p].event = e
                 THEN [job[p] EXCEPT !.at = IF prev[e] = Revision THEN "done" ELSE "refused"] ELSE job[p]]
    /\ UNCHANGED <<prev, journal, slots, stage, wlock, rlock, dead>>

BranchMoved(p) ==
    /\ At(p, "sent")
    /\ <<job[p].event, "append">> \in flying
    /\ flying' = flying \ {<<job[p].event, "append">>}
    /\ Go(p, "refused")
    /\ UNCHANGED <<source, prev, journal, slots, stage, wlock, rlock, dead>>

NoAnswer(p) ==
    /\ At(p, "sent")
    /\ Go(p, IF In(job[p].event) THEN "done" ELSE "unknown")
    /\ UNCHANGED <<remote, prev, journal, slots, stage, wlock, rlock, dead>>

Acknowledge(p) ==
    /\ At(p, "done")
    /\ \/ Open /\ In(job[p].event) /\ Compact(p, job[p].event, "idle")
       \/ Open /\ job[p].event \notin Undecided /\ Stop(p) /\ UNCHANGED <<journal, slots, stage, wlock, dead>>
       \/ Refused(p, "idle")
    /\ UNCHANGED <<remote, prev, rlock>>

Retire(p) ==
    /\ At(p, "refused") \/ At(p, "unknown")
    /\ LET e == job[p].event
       IN \/ /\ job[p].at = "refused" /\ Unlocked /\ e \in entries /\ Revision # prev[e] /\ ~In(e)
             /\ Save(p, [Kept EXCEPT !.entries = @ \ {e}, !.retired = @ \cup {e}], "idle")
          \/ Stop(p) /\ UNCHANGED <<journal, stage, wlock, dead>>
    /\ UNCHANGED <<remote, prev, slots, rlock>>

-----------------------------------------------------------------------------
(* Recovery by a person.  The lock of a dead process is removed under the  *)
(* recovery lock; a stage is promoted, and safety slots committed, once the*)
(* source is found to allow it; an event is replayed whose source has not  *)
(* moved.  Each needs the recorded writer to have stopped.                 *)
RecoverLock(p) ==
    /\ At(p, "idle")
    /\ \/ rlock = None /\ wlock \in dead /\ wlock' = None /\ UNCHANGED <<rlock, dead, job>>
       \/ /\ rlock = None /\ wlock \in dead /\ Cardinality(dead) < MaxDead
          /\ rlock' = p /\ dead' = dead \cup {p} /\ Stop(p)
          /\ \/ UNCHANGED wlock
             \/ wlock' = None
    /\ UNCHANGED <<remote, prev, journal, slots, stage, flying>>

WriterStopped == Writer \in dead

Promotable(v) ==
    /\ v.acks \subseteq Range(source)
    /\ \A e \in v.retired : ~In(e) /\ (e \in entries => Revision # prev[e])

RecoverPhysical(p) ==
    /\ At(p, "idle") /\ Unlocked /\ WriterStopped
    /\ stage # None \/ \E e \in Safety : slots[e] = "written"
    /\ stage # None => Promotable(stage)
    /\ IF stage # None THEN Promote(stage) /\ stage' = None ELSE UNCHANGED <<journal, stage>>
    /\ slots' = [e \in Safety |-> IF slots[e] = "written" THEN "committed" ELSE slots[e]]
    /\ UNCHANGED <<remote, prev, wlock, rlock, job, dead>>

Replay(p, e) ==
    /\ At(p, "idle") /\ Clean /\ WriterStopped
    /\ e \in Undecided /\ ~In(e) /\ prev[e] = Revision
    /\ flying' = flying \cup {<<e, "replay">>}
    /\ UNCHANGED <<source, prev, journal, slots, stage, wlock, rlock, job, dead>>

Elsewhere ==
    /\ ~In(Foreign)
    /\ source' = Append(source, Foreign)
    /\ UNCHANGED <<prev, journal, slots, stage, wlock, rlock, job, flying, dead>>

End(p) ==
    /\ Alive(p) /\ job[p].at # "idle" /\ Cardinality(dead) < MaxDead
    /\ dead' = dead \cup {p}
    /\ Stop(p)
    /\ UNCHANGED <<remote, prev, journal, slots, stage, wlock, rlock>>

Next ==
    \/ \E p \in Processes :
        \/ \E e \in Events : Derive(p, e) \/ Replay(p, e)
        \/ Reconcile(p) \/ Put(p) \/ Send(p) \/ BranchMoved(p) \/ NoAnswer(p) \/ Acknowledge(p) \/ Retire(p)
        \/ RecoverLock(p) \/ RecoverPhysical(p) \/ End(p)
    \/ \E e \in Events : Arrive(e, "append") \/ Arrive(e, "replay")
    \/ Elsewhere

Spec == Init /\ [][Next]_vars

-----------------------------------------------------------------------------
(* Whoever dies where, an event that the source has from a process of this *)
(* journal is in the journal, undecided or acknowledged.                   *)
WriteAhead ==
    \A e \in Range(source) \ {Foreign} :
        e \in entries \cup acks \/ (e \in Safety /\ slots[e] \in {"committed", "acknowledged"})

(* What the journal has decided stands: an acknowledged event is in the    *)
(* source, a retired one is not and can never be, whatever is on its way.  *)
DecisionsStand ==
    /\ acks \subseteq Range(source)
    /\ \A e \in retired : ~In(e) /\ ({<<e, "append">>, <<e, "replay">>} \cap flying # {} => prev[e] # Revision)

(* An event is in the source once, also when its request was answered late *)
(* and it was replayed.                                                    *)
AppendedOnce == \A e \in Events : Cardinality({i \in 1..Len(source) : source[i] = e}) <= 1
=============================================================================
