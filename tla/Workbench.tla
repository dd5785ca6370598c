------------------------------- MODULE Workbench -------------------------------
(***************************************************************************)
(* What the Workbench changes after the owner has looked at it: each       *)
(* request is bound to what was seen, by a hash or a revision.             *)
(*   action   applySpaceAction (src/space-actions.mjs): a reviewed plan    *)
(*            over the files of a project and of the self                  *)
(*   save     saveDocument (src/documents.mjs): write, validate, put back  *)
(*   note     revise (src/coaching.mjs): one more event of a session       *)
(* Two processes serve requests; each has a queue for actions, both share  *)
(* the registry's lock.  A version of a file is the request that wrote it. *)
(***************************************************************************)
EXTENDS Naturals, Sequences, FiniteSets, SequencesExt

CONSTANTS
    Requests,
    Type,       \* [Requests -> {"configure", "activate", "save"} \cup Kinds]
    Server,     \* [Requests -> processes]
    Groups,     \* bound: the sets of requests that are made in one behaviour
    None

VARIABLES
    where,      \* where each request is
    disk,       \* the files: "link", "registry", "host", and the text of "document"
    seen,       \* per request: the files as its owner reviewed them, or as it was told
    found,      \* per request: the snapshot it takes before it writes
    wrote,      \* per request: how many files of its plan it has written
    queue,      \* per process: the action that is running
    mutex,      \* the holder of the registry's lock
    session,    \* the events of a coaching session [by, of]; its revision is their number
    busy,       \* the creator of the session's lock file
    strange,    \* history: files of a request that another one has written since its snapshot
    undone,     \* history: an undo has put a text over one that its request did not write
    crossed     \* history: saves that were written over a text they were not compared with

vars == <<where, disk, seen, found, wrote, queue, mutex, session, busy, strange, undone, crossed>>

HostFiles == {"link", "registry", "host"}
Processes == {Server[r] : r \in Requests}
Actions == {r \in Requests : Type[r] \in {"configure", "activate"}}
Saves == {r \in Requests : Type[r] = "save"}
Kinds == {"note", "action", "choose", "review"}
Notes == {r \in Requests : Type[r] \in Kinds}

(* The files of a plan, in the order in which they are written: link and   *)
(* registry by configureSpaceLink, host by activateProject.                *)
Plan(r) == IF Type[r] = "configure" THEN <<"link", "registry", "host">> ELSE <<"host">>

Init ==
    /\ \E group \in Groups : where = [r \in Requests |-> IF r \in group THEN "reviewing" ELSE "absent"]
    /\ wrote = [r \in Requests |-> 0]
    /\ disk = [f \in HostFiles \cup {"document"} |-> <<>>]
    /\ seen = [r \in Requests |-> None]
    /\ found = [r \in Requests |-> None]
    /\ queue = [s \in Processes |-> None]
    /\ mutex = None
    /\ session = <<>>
    /\ busy = None
    /\ strange = [r \in Requests |-> {}]
    /\ undone = FALSE
    /\ crossed = {}

Go(r, to) == where' = [where EXCEPT ![r] = to]
Put(r, f, v) ==
    /\ disk' = [disk EXCEPT ![f] = v]
    /\ strange' = [q \in Requests |-> IF q # r THEN strange[q] \cup {f} ELSE strange[q]]

(* planSpaceAction, readDocument, resume: what the owner sees. *)
Review(r) ==
    /\ where[r] = "reviewing"
    /\ seen' = [seen EXCEPT ![r] = IF r \in Notes THEN session ELSE disk]
    /\ Go(r, "asked")
    /\ UNCHANGED <<wrote, disk, found, queue, mutex, session, busy, strange, undone, crossed>>

-----------------------------------------------------------------------------
(* Space actions.  The plan is made again twice and its hash compared:     *)
(* when the queue comes to it, and under the lock if it configures.        *)
Same(r) == \A f \in HostFiles : disk[f] = seen[r][f]

Start(r) ==
    /\ where[r] = "asked"
    /\ r \in Actions
    /\ queue[Server[r]] = None
    /\ IF Same(r) THEN Go(r, IF Type[r] = "configure" THEN "locking" ELSE "checking")
                       /\ queue' = [queue EXCEPT ![Server[r]] = r]
                  ELSE Go(r, "refused") /\ UNCHANGED queue
    /\ UNCHANGED <<wrote, disk, seen, found, mutex, session, busy, strange, undone, crossed>>

Lock(r) ==
    /\ where[r] = "locking"
    /\ mutex = None
    /\ mutex' = r
    /\ Go(r, "checking")
    /\ UNCHANGED <<wrote, disk, seen, found, queue, session, busy, strange, undone, crossed>>

Leave(r, to) ==
    /\ Go(r, to)
    /\ mutex' = IF mutex = r THEN None ELSE mutex
    /\ queue' = [queue EXCEPT ![Server[r]] = None]

Perform_Unchecked(r) ==
    /\ where[r] = "checking"
    /\ Go(r, "writing")
    /\ found' = [found EXCEPT ![r] = disk]
    /\ strange' = [strange EXCEPT ![r] = {}]
    /\ UNCHANGED <<wrote, disk, seen, queue, mutex, session, busy, undone, crossed>>

Perform(r) ==
    /\ where[r] = "checking"
    /\ IF Same(r)
          THEN /\ Go(r, "writing")
               /\ found' = [found EXCEPT ![r] = disk]
               /\ strange' = [strange EXCEPT ![r] = {}]
               /\ UNCHANGED <<queue, mutex>>
          ELSE Leave(r, "refused") /\ UNCHANGED <<found, strange>>
    /\ UNCHANGED <<wrote, disk, seen, session, busy, undone, crossed>>

Write(r) ==
    /\ where[r] = "writing"
    /\ wrote[r] < Len(Plan(r))
    /\ wrote' = [wrote EXCEPT ![r] = @ + 1]
    /\ LET f == Plan(r)[wrote'[r]] IN Put(r, f, Append(disk[f], r))
    /\ UNCHANGED <<where, seen, found, queue, mutex, session, busy, undone, crossed>>

Finish(r) ==
    /\ where[r] = "writing"
    /\ wrote[r] = Len(Plan(r))
    /\ Leave(r, "done")
    /\ UNCHANGED <<disk, seen, found, wrote, session, busy, strange, undone, crossed>>

(* An error: every file of the plan is put back, also those that were not  *)
(* written, and what cannot be put back is reported.                       *)
Fail(r) ==
    /\ where[r] = "writing"
    /\ Go(r, "restoring")
    /\ UNCHANGED <<wrote, disk, seen, found, queue, mutex, session, busy, strange, undone, crossed>>

PutBack(r, back) ==
    /\ disk' = [f \in DOMAIN disk |-> IF f \in back THEN found[r][f] ELSE disk[f]]
    /\ strange' = [q \in Requests |-> IF q # r THEN strange[q] \cup {f \in back : disk[f] # found[r][f]} ELSE strange[q]]

Restore(r) ==
    /\ where[r] = "restoring"
    /\ \E broken \in SUBSET ToSet(Plan(r)) :
          /\ PutBack(r, ToSet(Plan(r)) \ broken)
          /\ Leave(r, IF broken = {} THEN "failed" ELSE "incomplete")
    /\ UNCHANGED <<wrote, seen, found, session, busy, undone, crossed>>

-----------------------------------------------------------------------------
(* Saving a document: the hash compared, the text written, both in one     *)
(* turn of the server but with the other one in between, which no lock     *)
(* keeps out; then validated by a child process, which takes turns.        *)
Compare_Blind(r) ==
    /\ where[r] = "asked"
    /\ r \in Saves
    /\ found' = [found EXCEPT ![r] = disk]
    /\ Go(r, "saving")
    /\ UNCHANGED <<wrote, disk, seen, queue, mutex, session, busy, strange, undone, crossed>>

Compare(r) ==
    /\ where[r] = "asked"
    /\ r \in Saves
    /\ IF disk["document"] = seen[r]["document"]
          THEN found' = [found EXCEPT ![r] = disk] /\ Go(r, "saving")
          ELSE Go(r, "refused") /\ UNCHANGED found
    /\ UNCHANGED <<wrote, disk, seen, queue, mutex, session, busy, strange, undone, crossed>>

(* The text that the owner has made of the one that was read. *)
Saved(r) == Append(seen[r]["document"], r)

Save(r) ==
    /\ where[r] = "saving"
    /\ crossed' = IF disk["document"] = found[r]["document"] THEN crossed ELSE crossed \cup {r}
    /\ Put(r, "document", Saved(r))
    /\ Go(r, "validating")
    /\ UNCHANGED <<wrote, seen, found, queue, mutex, session, busy, undone>>

Valid(r) ==
    /\ where[r] = "validating"
    /\ Go(r, "done")
    /\ UNCHANGED <<wrote, disk, seen, found, queue, mutex, session, busy, strange, undone, crossed>>

(* Not written, or not valid: the text of before is put back over whatever *)
(* is there.                                                               *)
Invalid(r) ==
    /\ where[r] \in {"saving", "validating"}
    /\ undone' = (undone \/ disk["document"] \notin {found[r]["document"], Saved(r)})
    /\ Put(r, "document", found[r]["document"])
    /\ Go(r, "failed")
    /\ UNCHANGED <<wrote, seen, found, queue, mutex, session, busy, crossed>>

-----------------------------------------------------------------------------
(* Coaching: a lock file that excludes and is never broken, a revision     *)
(* compared under it, one event, and a file that is replaced.              *)
Open(r) ==
    /\ where[r] = "asked"
    /\ r \in Notes
    /\ IF busy = None THEN busy' = r /\ Go(r, "revising") ELSE UNCHANGED busy /\ Go(r, "refused")
    /\ UNCHANGED <<wrote, disk, seen, found, queue, mutex, session, strange, undone, crossed>>

(* An action is proposed, chosen once, and reviewed once it is chosen: the *)
(* last choice that has no review.                                         *)
Sequences(kind) == {n \in 1..Len(session) : Type[session[n].by] = kind}
Answered(kind) == {session[n].of : n \in Sequences(kind)}

Subjects(r) ==
    CASE Type[r] = "choose" -> Sequences("action") \ Answered("choose")
      [] Type[r] = "review" -> LET chosen == {n \in Sequences("choose") : session[n].of \notin Answered("review")}
                               IN IF chosen = {} THEN {} ELSE {session[Max(chosen)].of}
      [] OTHER -> {0}

Load(r) ==
    /\ where[r] = "revising"
    /\ IF Len(session) = Len(seen[r]) /\ Subjects(r) # {}
          THEN /\ \E n \in Subjects(r) : found' = [found EXCEPT ![r] = Append(session, [by |-> r, of |-> n])]
               /\ Go(r, "recording")
               /\ UNCHANGED busy
          ELSE busy' = None /\ Go(r, "refused") /\ UNCHANGED found
    /\ UNCHANGED <<wrote, disk, seen, queue, mutex, session, strange, undone, crossed>>

Record(r) ==
    /\ where[r] = "recording"
    /\ session' = found[r]
    /\ Go(r, "unlocking")
    /\ UNCHANGED <<wrote, disk, seen, found, queue, mutex, busy, strange, undone, crossed>>

Close(r) ==
    /\ where[r] = "unlocking"
    /\ busy' = None
    /\ Go(r, "done")
    /\ UNCHANGED <<wrote, disk, seen, found, queue, mutex, session, strange, undone, crossed>>

(* A process ends with all that it serves: the registry's lock is broken   *)
(* by the next one, the coaching lock by nobody.                           *)
Crash(s) ==
    LET lost == {r \in Requests : Server[r] = s /\ where[r] \notin {"absent", "reviewing", "asked", "done", "failed", "refused", "incomplete"}}
    IN /\ lost # {}
       /\ where' = [r \in Requests |-> IF r \in lost THEN "lost" ELSE where[r]]
       /\ mutex' = IF mutex \in lost THEN None ELSE mutex
       /\ queue' = [queue EXCEPT ![s] = None]
       /\ UNCHANGED <<wrote, disk, seen, found, session, busy, strange, undone, crossed>>

(* What a process does without an await runs in one turn of its loop. *)
Turn(r) == \A q \in Requests : Server[q] = Server[r] /\ q # r =>
               where[q] \notin {"saving", "writing", "restoring", "revising", "recording", "unlocking"}

Next ==
    \/ \E r \in Requests : Turn(r) /\
        \/ Review(r) \/ Start(r) \/ Lock(r) \/ Perform(r) \/ Write(r) \/ Finish(r) \/ Fail(r) \/ Restore(r)
        \/ Compare(r) \/ Save(r) \/ Valid(r) \/ Invalid(r)
        \/ Open(r) \/ Load(r) \/ Record(r) \/ Close(r)
    \/ \E s \in Processes : Crash(s)

Spec == Init /\ [][Next]_vars

-----------------------------------------------------------------------------
(* An action that fails, and whose files nobody else has written since its *)
(* snapshot, has put everything back, or says that it has not.             *)
FailedActionRestores ==
    \A r \in Actions : where[r] = "failed" /\ strange[r] \cap ToSet(Plan(r)) = {} =>
        \A f \in ToSet(Plan(r)) : disk[f] = found[r][f]

(* What an action replaces is what its owner has reviewed: for the files   *)
(* that the registry's lock covers always, for the host's files unless the *)
(* other process has written them, which no lock prevents.                 *)
ReplacesTheReviewed ==
    \A r \in Actions, f \in HostFiles :
        where[r] = "writing" /\ where'[r] = "writing" /\ disk'[f] = Append(disk[f], r) =>
            disk[f] = seen[r][f] \/ (f = "host" /\ "host" \in strange[r])
ReviewedIsReplaced == [][ReplacesTheReviewed]_vars

(* A saved text may be gone: an undo has run over one, or a save of        *)
(* another process was compared before a text that it has replaced.        *)
Overtaken(r) == undone \/ \E q \in crossed : Server[q] # Server[r]

(* What was acknowledged is kept: an event of the session for good, a      *)
(* saved text unless it was overtaken; saves of one process alone do not   *)
(* replace each other, however long they are validated.                    *)
AcknowledgedIsKept ==
    /\ \A r \in Notes : where[r] \in {"unlocking", "done"} => found[r] = SubSeq(session, 1, Len(found[r]))
    /\ \A r \in Saves : where[r] = "done" /\ ~Overtaken(r) => r \in ToSet(disk["document"])

(* No action is chosen twice or reviewed twice, and none is reviewed that  *)
(* was not chosen before, whatever the two processes record at once.       *)
ActionsAreAnsweredOnce ==
    \A m, n \in 1..Len(session) :
        /\ Type[session[n].by] \in {"choose", "review"} /\ Type[session[m].by] = Type[session[n].by]
               /\ session[m].of = session[n].of => m = n
        /\ Type[session[n].by] = "review" =>
               \E c \in 1..(n - 1) : Type[session[c].by] = "choose" /\ session[c].of = session[n].of
=============================================================================
