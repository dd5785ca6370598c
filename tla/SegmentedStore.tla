----------------------------- MODULE SegmentedStore -----------------------------
(***************************************************************************)
(* The run stores on a git branch: one file per run                        *)
(* (src/lib/sources/github-run-store.mjs), or sealed segments, a tail, a   *)
(* snapshot and a manifest (src/lib/sources/segmented-run-store.mjs), and  *)
(* the migration from the first to the second.  Writers of both versions   *)
(* work at the same time: each reads the branch, builds a commit on what it*)
(* has read and moves the branch without force.  The response may be lost, *)
(* and the request may arrive after its writer has given it up.            *)
(***************************************************************************)
EXTENDS Naturals, Sequences, SequencesExt, FiniteSets

CONSTANTS
    Writers,
    Old,        \* the writers of the first version
    Events,
    SegmentSize,
    MaxOther,   \* bound: commits for other runs on the branch
    MaxFlying,  \* bound: requests on their way
    None, Marker

VARIABLES
    tree,       \* the run's files at the head of the branch
    head,       \* the number of commits of the branch
    other,
    job,        \* per writer: [at, event, seen, base, tree]
    flying,     \* external: requests to move the branch that have not arrived: [writer, base, tree]
    answer,     \* per writer: how its last request was answered
    told        \* history: [event -> "acknowledged", "not-committed" or None]

vars == <<tree, head, other, job, flying, answer, told>>

Free == [at |-> "idle", event |-> None, seen |-> <<>>, base |-> 0, tree |-> None]

(* The files of a run: the legacy file, the manifest, and what that names. *)
Empty == [legacy |-> None, manifest |-> None, segments |-> <<>>, tail |-> <<>>, snapshot |-> <<>>]
Manifest(segments, tail, snapshot) ==
    [segments |-> [i \in 1..Len(segments) |-> Len(segments[i])], tail |-> Len(tail), snapshot |-> snapshot]

(* read of the second version: what the manifest says must fit the files. *)
Sealed(t) == FlattenSeq(t.segments)
Reads(t) ==
    \/ t.manifest = None /\ t.legacy # Marker
    \/ /\ t.manifest # None
       /\ t.manifest.segments = [i \in 1..Len(t.segments) |-> Len(t.segments[i])]
       /\ t.manifest.tail = Len(t.tail)
       /\ IF t.manifest.snapshot = None THEN t.segments = <<>>
          ELSE t.manifest.snapshot = Len(Sealed(t)) /\ t.snapshot = Sealed(t)
Read(t) ==
    IF t.manifest # None THEN Sealed(t) \o t.tail
    ELSE IF t.legacy = None THEN <<>> ELSE t.legacy

(* read of the first version: a marker instead of the events is an error.  *)
ReadsOld(t) == t.legacy # Marker
ReadOld(t) == IF t.legacy = None THEN <<>> ELSE t.legacy

CanRead(w, t) == IF w \in Old THEN ReadsOld(t) ELSE Reads(t)
ReadBy(w, t) == IF w \in Old THEN ReadOld(t) ELSE Read(t)

Init ==
    /\ tree = Empty /\ head = 1 /\ other = 0
    /\ job = [w \in Writers |-> Free]
    /\ flying = {} /\ answer = [w \in Writers |-> None]
    /\ told = [e \in Events |-> None]

-----------------------------------------------------------------------------
(* The trees that are built.  The tail that reaches the size of a segment, *)
(* with the new event, is sealed with a snapshot and starts anew.          *)
AppendedOld(t, e) == [t EXCEPT !.legacy = Append(ReadOld(t), e)]

Appended(t, e) ==
    LET sealed == IF t.manifest = None THEN <<>> ELSE t.segments
        tail == Append(IF t.manifest = None THEN Read(t) ELSE t.tail, e)
    IN IF Len(tail) >= SegmentSize
       THEN LET all == Append(sealed, tail)
            IN [legacy |-> Marker, segments |-> all, tail |-> <<>>, snapshot |-> FlattenSeq(all),
                manifest |-> Manifest(all, <<>>, Len(FlattenSeq(all)))]
       ELSE [legacy |-> Marker, segments |-> sealed, tail |-> tail, snapshot |-> t.snapshot,
             manifest |-> Manifest(sealed, tail, IF t.manifest = None THEN None ELSE t.manifest.snapshot)]

Chunks(s) ==
    [i \in 1..((Len(s) + SegmentSize - 1) \div SegmentSize) |->
        SubSeq(s, (i - 1) * SegmentSize + 1, IF i * SegmentSize < Len(s) THEN i * SegmentSize ELSE Len(s))]

Migrated_Unmarked(t) ==
    LET all == Chunks(t.legacy)
    IN [legacy |-> t.legacy, segments |-> all, tail |-> <<>>, snapshot |-> t.legacy,
        manifest |-> Manifest(all, <<>>, Len(t.legacy))]

Migrated(t) ==
    LET all == Chunks(t.legacy)
    IN [legacy |-> Marker, segments |-> all, tail |-> <<>>, snapshot |-> t.legacy,
        manifest |-> Manifest(all, <<>>, Len(t.legacy))]

-----------------------------------------------------------------------------
(* The caller reads the run and derives the next event from it; an event   *)
(* names the revision that it follows.                                     *)
Derive(w, e) ==
    /\ job[w].at = "idle"
    /\ CanRead(w, tree)
    /\ told[e] = None /\ \A v \in Writers : job[v].event # e
    /\ e \notin Range(ReadBy(w, tree))
    /\ \A f \in flying : f.event # e
    /\ job' = [job EXCEPT ![w] = [Free EXCEPT !.at = "derived", !.event = e, !.seen = ReadBy(w, tree)]]
    /\ UNCHANGED <<tree, head, other, flying, answer, told>>

(* append reads again: the event may be there, by a request given up; the  *)
(* run may have changed; else a commit is built on the tree that was read. *)
StartAppend(w) ==
    /\ job[w].at = "derived"
    /\ LET e == job[w].event
           now == ReadBy(w, tree)
       IN IF ~CanRead(w, tree) THEN job' = [job EXCEPT ![w] = Free] /\ UNCHANGED told
          ELSE IF e \in Range(now) THEN
             /\ told' = [told EXCEPT ![e] = "acknowledged"]
             /\ job' = [job EXCEPT ![w] = Free]
          ELSE IF now # job[w].seen THEN
             /\ told' = [told EXCEPT ![e] = "not-committed"]
             /\ job' = [job EXCEPT ![w] = Free]
          ELSE
             /\ job' = [job EXCEPT ![w].at = "built", ![w].base = head,
                                   ![w].tree = IF w \in Old THEN AppendedOld(tree, e) ELSE Appended(tree, e)]
             /\ UNCHANGED told
    /\ UNCHANGED <<tree, head, other, flying, answer>>

(* migrateRunStore: previewed and built from one commit of the branch. *)
StartMigrate(w) ==
    /\ job[w].at = "idle" /\ w \notin Old
    /\ tree.manifest = None /\ tree.legacy \notin {None, Marker}
    /\ job' = [job EXCEPT ![w] = [Free EXCEPT !.at = "built", !.base = head, !.tree = Migrated(tree)]]
    /\ UNCHANGED <<tree, head, other, flying, answer, told>>

Send(w) ==
    /\ job[w].at = "built" /\ Cardinality(flying) < MaxFlying
    /\ flying' = flying \cup {[writer |-> w, base |-> job[w].base, tree |-> job[w].tree, event |-> job[w].event]}
    /\ job' = [job EXCEPT ![w].at = "sent"]
    /\ answer' = [answer EXCEPT ![w] = None]
    /\ UNCHANGED <<tree, head, other, told>>

Awaits(f) == job[f.writer].at = "sent" /\ job[f.writer].base = f.base /\ job[f.writer].tree = f.tree

(* The branch moves only to a descendant of where it is. *)
Arrive_Forced(f) ==
    /\ flying' = flying \ {f}
    /\ tree' = f.tree /\ head' = head + 1
    /\ answer' = [answer EXCEPT ![f.writer] = IF Awaits(f) THEN "moved" ELSE @]
    /\ UNCHANGED <<other, job, told>>

Arrive(f) ==
    /\ flying' = flying \ {f}
    /\ IF f.base = head
       THEN tree' = f.tree /\ head' = head + 1
       ELSE UNCHANGED <<tree, head>>
    /\ answer' = [answer EXCEPT ![f.writer] = IF Awaits(f) THEN IF f.base = head THEN "moved" ELSE "refused" ELSE @]
    /\ UNCHANGED <<other, job, told>>

(* Whatever the answer, or none of it, the branch is read again: the event *)
(* is acknowledged when it is there, not committed when the request was    *)
(* refused, and otherwise unknown, to be tried again or left.              *)
Finish(w) ==
    /\ job[w].at = "sent"
    /\ LET e == job[w].event
           found == e \in Range(ReadBy(w, tree))
       IN IF e = None \/ ~CanRead(w, tree) THEN job' = [job EXCEPT ![w] = Free] /\ UNCHANGED told
          ELSE IF found THEN job' = [job EXCEPT ![w] = Free] /\ told' = [told EXCEPT ![e] = "acknowledged"]
          ELSE IF answer[w] = "refused"
             THEN job' = [job EXCEPT ![w] = Free] /\ told' = [told EXCEPT ![e] = "not-committed"]
          ELSE /\ job' = [job EXCEPT ![w] = [Free EXCEPT !.at = "derived", !.event = e, !.seen = job[w].seen]]
               /\ UNCHANGED told
    /\ answer' = [answer EXCEPT ![w] = None]
    /\ UNCHANGED <<tree, head, other, flying>>

GiveUp(w) ==
    /\ job[w].at = "derived"
    /\ job' = [job EXCEPT ![w] = Free]
    /\ UNCHANGED <<tree, head, other, flying, answer, told>>

OtherRun ==
    /\ other < MaxOther
    /\ other' = other + 1 /\ head' = head + 1
    /\ UNCHANGED <<tree, job, flying, answer, told>>

Next ==
    \/ \E w \in Writers :
        \/ \E e \in Events : Derive(w, e)
        \/ StartAppend(w) \/ StartMigrate(w) \/ Send(w) \/ Finish(w) \/ GiveUp(w)
    \/ \E f \in flying : Arrive(f)
    \/ OtherRun

Spec == Init /\ [][Next]_vars

-----------------------------------------------------------------------------
(* Whoever commits what, sealed or not, migrated or not, the branch reads, *)
(* and holds no event twice.                                               *)
AlwaysReads == Reads(tree) /\ Cardinality(Range(Read(tree))) = Len(Read(tree))

(* An event acknowledged to a writer of either version is in the run that  *)
(* readers of the second version see, and one reported as not committed    *)
(* is not and never will be, whatever is still on its way.                 *)
AnswersStand ==
    \A e \in Events :
        /\ told[e] = "acknowledged" => e \in Range(Read(tree))
        /\ told[e] = "not-committed" =>
              /\ e \notin Range(Read(tree))
              /\ \A f \in flying : f.event = e => f.base # head

(* A commit adds to the history of the run and changes nothing of it. *)
CommitAppends == IsPrefix(Read(tree), Read(tree'))
HistoryOnlyGrows == [][CommitAppends]_vars
=============================================================================
