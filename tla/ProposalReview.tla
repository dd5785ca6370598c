--------------------------- MODULE ProposalReview ---------------------------
(***************************************************************************)
(* The review of proposals: the only way into the canonical documents of   *)
(* the self (src/cli/commands/proposals.mjs, src/proposals/inbox.mjs       *)
(* applyInboxBatch, src/proposals/store.mjs).  A reviewer is one           *)
(* invocation, of the CLI or of the Workbench, and takes one of three ways *)
(* through the code:                                                       *)
(*   "alone"   approve one proposal of the client inbox;                   *)
(*   "batch"   approve, reject or defer project proposals, one or more;    *)
(*   "loose"   reject, defer or supersede one proposal without the lock.   *)
(* Each write of a file is a step, so reviewers interleave between them,   *)
(* fail at them or crash.                                                  *)
(*                                                                         *)
(* The registry lock is a plain mutex here, free again when its holder     *)
(* crashes; RegistryLock has the real one.  A document is the set of       *)
(* proposals applied to it and a count of the owner's own edits.           *)
(***************************************************************************)
EXTENDS Integers, Sequences, FiniteSets

CONSTANTS
    Reviewers,
    Inbox, Project,     \* proposals of the client inbox, proposals of projects
    Files,              \* canonical documents
    Targets,            \* [Proposals -> SUBSET Files]: the documents that p changes
    Rivals,             \* pairs (sets) of proposals that supersede or retire the same claim
    MaxEdits,           \* bound: the owner's own edits of a document
    Settings,           \* bound: what a behaviour is of: what is asked for at once (sequences of proposals), how it is
                        \* declined if not approved, and whether the owner saves no document while a review has the lock
    None

Proposals == Inbox \cup Project
Decisions == {"approved", "rejected", "deferred", "superseded"}

VARIABLES
    setting,        \* [requests, declines, ownerWaits]; never changes
    canon,          \* the canonical documents
    status,         \* per proposal: the status in its own file
    archives,       \* <<proposal, decision>>: its archive file exists
    receipts,       \* [proposal, decision, by]: its receipt, and who wrote it
    lock,           \* the reviewer that holds the registry lock
    review,         \* per reviewer: how far it is and what it remembers
    torn            \* proposals of a review that crashed, or that could not roll back

vars == <<setting, canon, status, archives, receipts, lock, review, torn>>

Documents == [claims : SUBSET Proposals, edits : 0 .. MaxEdits]
Statuses == {"pending"} \cup Decisions
Blank == [f \in Files |-> [claims |-> {}, edits |-> 0]]

(* at: the next step; items, k: the proposals and the current one; shown:  *)
(* the documents previewed; base: as first read, for a rollback; todo,     *)
(* written: the documents of the current item to write, all those written; *)
(* old: the statuses a rollback puts back; found: what was there before.   *)
Fresh ==
    [at |-> "idle", way |-> "none", act |-> "none", items |-> <<>>, k |-> 1,
     shown |-> Blank, base |-> Blank, todo |-> {}, written |-> {},
     old |-> [p \in Proposals |-> "pending"],
     found |-> [archives |-> {}, receipts |-> {}]]

(* Places from which something has been changed. *)
Recording == {"archive", "receipt", "save", "cleanup"}
Inside == Recording \cup {"plan", "write", "record", "validate", "restore", "unrecord"}
Ended == {"done", "failed", "dead"}

At(r) == review[r].at
Items(r) == {review[r].items[n] : n \in DOMAIN review[r].items}
Item(r) == review[r].items[review[r].k]
Record(r) == <<Item(r), review[r].act>>
HasReceipt(p, d) == \E x \in receipts : x.proposal = p /\ x.decision = d

Init ==
    /\ setting \in Settings
    /\ canon = Blank
    /\ status = [p \in Proposals |-> "pending"]
    /\ archives = {}
    /\ receipts = {}
    /\ lock = None
    /\ review = [r \in Reviewers |-> Fresh]
    /\ torn = {}

-----------------------------------------------------------------------------

Plannable(p, claims) == p \notin claims /\ \A c \in claims : {p, c} \notin Rivals

(* A batch names each of its proposals once. *)
Distinct(items) == \A m, n \in DOMAIN items : items[m] = items[n] => m = n

(* Ways through the code, by what is asked. *)
Offered(way, act, items) ==
    CASE way = "alone" -> act = "approved" /\ Len(items) = 1 /\ items[1] \in Inbox
      [] way = "loose" -> /\ act # "approved"
                          /\ Len(items) = 1
                          /\ items[1] \in Inbox \/ act = "superseded"
      [] way = "batch" -> act # "superseded" /\ (\A n \in DOMAIN items : items[n] \in Project) /\ Distinct(items)

(* The proposals are shown, with a preview of the documents if they are to *)
(* be approved, and the reviewer is asked.                                 *)
Look(r, way, act, items) ==
    /\ At(r) = "idle"
    /\ Offered(way, act, items)
    /\ \A n \in DOMAIN items :
        /\ status[items[n]] = "pending"
        /\ act = "approved" =>
            /\ <<items[n], act>> \notin archives
            /\ \A f \in Targets[items[n]] : Plannable(items[n], canon[f].claims)
    /\ review' = [review EXCEPT ![r] = [Fresh EXCEPT
            !.at = "asked", !.way = way, !.act = act, !.items = items,
            !.shown = IF act = "approved" THEN canon ELSE Blank]]
    /\ UNCHANGED <<canon, status, archives, receipts, lock, torn>>

Goto(r, place) == review' = [review EXCEPT ![r].at = place]

(* Confirmed.  "alone" keeps the bytes of the proposal for a rollback now, *)
(* a batch under the lock, where they are pending (CheckPassed).           *)
Confirm(r) ==
    /\ At(r) = "asked"
    /\ review' = [review EXCEPT
            ![r].at = IF review[r].way = "loose" THEN "record" ELSE "waiting",
            ![r].old[Item(r)] = IF review[r].way = "alone" THEN status[Item(r)] ELSE @]
    /\ UNCHANGED <<canon, status, archives, receipts, lock, torn>>

Lock(r) ==
    /\ At(r) = "waiting"
    /\ lock = None
    /\ lock' = r
    /\ Goto(r, "check")
    /\ UNCHANGED <<canon, status, archives, receipts, torn>>
-----------------------------------------------------------------------------

(* The end of an invocation; the lock is free again. *)
Leave(r, place) ==
    /\ review' = [review EXCEPT ![r] = [Fresh EXCEPT
            !.at = place, !.way = review[r].way, !.act = review[r].act, !.items = review[r].items]]
    /\ lock' = IF lock = r THEN None ELSE lock

(* Cancelled, no lock in time, or the self does not validate as it is. *)
GiveUp(r) ==
    /\ At(r) \in {"asked", "waiting", "check"}
    /\ Leave(r, "failed")
    /\ UNCHANGED <<canon, status, archives, receipts, torn>>

(* The error leaves the review: what was changed is put back, under the lock. *)
Fail(r) ==
    IF review[r].way = "loose" THEN Leave(r, "failed")
    ELSE Goto(r, "restore") /\ UNCHANGED lock

Unchanged(r) == \A p \in Items(r) : \A f \in Targets[p] : canon[f] = review[r].shown[f]

CheckPassed_Pending(r) ==
    review[r].way = "batch" => \A p \in Items(r) : status[p] = "pending"

(* "alone" checks its documents only; a batch checks that everything is    *)
(* pending and, to approve, that each preview is still the same.           *)
CheckPassed(r) ==
    /\ review[r].act = "approved" => Unchanged(r)
    /\ review[r].way = "batch" => \A p \in Items(r) : status[p] = "pending"

Check(r) ==
    /\ At(r) = "check"
    /\ IF CheckPassed(r)
       THEN /\ review' = [review EXCEPT
                  ![r].at = "plan",
                  ![r].found = IF review[r].way = "alone" THEN @
                      ELSE [archives |-> archives, receipts |-> receipts]]
            /\ UNCHANGED lock
       ELSE Leave(r, "failed")
    /\ UNCHANGED <<canon, status, archives, receipts, torn>>

Earlier(r) == {review[r].items[n] : n \in 1 .. review[r].k - 1}
Touched(r) == UNION {Targets[p] : p \in Earlier(r)}

(* A document that no earlier item of the batch touched is read; "alone"   *)
(* goes on with what it previewed.                                         *)
Base(r) ==
    [f \in Files |-> CASE f \in Touched(r) -> review[r].base[f]
                       [] f \in Targets[Item(r)] \ Touched(r) ->
                            IF review[r].way = "alone" THEN review[r].shown[f] ELSE canon[f]
                       [] OTHER -> Blank[f]]

(* The text of a document after the earlier items of the batch. *)
Current(r, base, f) ==
    [base[f] EXCEPT !.claims = @ \cup {p \in Earlier(r) : f \in Targets[p]}]

Plan(r) ==
    /\ At(r) = "plan"
    /\ IF review[r].act # "approved" THEN Goto(r, "record")
       ELSE IF \A f \in Targets[Item(r)] : Plannable(Item(r), Current(r, Base(r), f).claims)
       THEN review' = [review EXCEPT ![r].at = "write", ![r].base = Base(r),
                                     ![r].todo = Targets[Item(r)]]
       ELSE Goto(r, "restore")
    /\ UNCHANGED <<canon, status, archives, receipts, lock, torn>>

(* One document is replaced (atomicWrite). *)
Write(r) ==
    /\ At(r) = "write"
    /\ \E f \in review[r].todo :
        /\ canon' = [canon EXCEPT ![f] =
               [Current(r, review[r].base, f) EXCEPT !.claims = @ \cup {Item(r)}]]
        /\ review' = [review EXCEPT
               ![r].todo = @ \ {f}, ![r].written = @ \cup {f},
               ![r].at = IF review[r].todo = {f} THEN "record" ELSE "write"]
    /\ UNCHANGED <<status, archives, receipts, lock, torn>>

-----------------------------------------------------------------------------
(* stateProposalInSelf.  Nothing of this decision may be there yet ... *)
Collides(r) == Record(r) \in archives \/ HasReceipt(Item(r), review[r].act)

Begin(r) ==
    /\ At(r) = "record"
    /\ IF Collides(r) THEN Fail(r) ELSE Goto(r, "archive") /\ UNCHANGED lock
    /\ UNCHANGED <<canon, status, archives, receipts, torn>>

(* ... and the archive and the receipt are only created, never replaced    *)
(* (flag 'wx'), so another reviewer's is an error.                         *)
Archive(r) ==
    /\ At(r) = "archive"
    /\ IF Record(r) \in archives
       THEN Goto(r, "cleanup") /\ UNCHANGED archives
       ELSE Goto(r, "receipt") /\ archives' = archives \cup {Record(r)}
    /\ UNCHANGED <<canon, status, receipts, lock, torn>>

Receipt(r) ==
    /\ At(r) = "receipt"
    /\ IF HasReceipt(Item(r), review[r].act)
       THEN Goto(r, "cleanup") /\ UNCHANGED receipts
       ELSE /\ Goto(r, "save")
            /\ receipts' = receipts \cup
                   {[proposal |-> Item(r), decision |-> review[r].act, by |-> r]}
    /\ UNCHANGED <<canon, status, archives, lock, torn>>

Save_OneItem(r) ==
    /\ At(r) = "save"
    /\ status' = [status EXCEPT ![Item(r)] = review[r].act]
    /\ IF review[r].act = "approved" THEN Goto(r, "validate") /\ UNCHANGED lock
       ELSE Leave(r, "done")
    /\ UNCHANGED <<canon, archives, receipts, torn>>

(* The proposal's own file, as this reviewer read it, with the new status. *)
Save(r) ==
    /\ At(r) = "save"
    /\ status' = [status EXCEPT ![Item(r)] = review[r].act]
    /\ IF review[r].k < Len(review[r].items)
       THEN review' = [review EXCEPT ![r].at = "plan", ![r].k = @ + 1] /\ UNCHANGED lock
       ELSE IF review[r].act = "approved" THEN Goto(r, "validate") /\ UNCHANGED lock
       ELSE Leave(r, "done")
    /\ UNCHANGED <<canon, archives, receipts, torn>>

(* An error on the way: the archive and the receipt are removed, whoever's. *)
Cleanup(r) ==
    /\ At(r) = "cleanup"
    /\ archives' = archives \ {Record(r)}
    /\ receipts' = {x \in receipts : <<x.proposal, x.decision>> # Record(r)}
    /\ Fail(r)
    /\ UNCHANGED <<canon, status, torn>>

(* A write or a validation fails. *)
Error(r) ==
    /\ \/ At(r) \in Recording \ {"cleanup"} /\ Goto(r, "cleanup")
       \/ At(r) \in {"write", "validate"} /\ Goto(r, "restore")
    /\ UNCHANGED <<canon, status, archives, receipts, lock, torn>>

Validated(r) ==
    /\ At(r) = "validate"
    /\ Leave(r, "done")
    /\ UNCHANGED <<canon, status, archives, receipts, torn>>

-----------------------------------------------------------------------------
Spoil(r, unrestored) == torn' = IF unrestored = {} THEN torn ELSE torn \cup Items(r)

Restorable_LastItem(r) == review[r].written \cap Targets[Item(r)]

(* "alone" writes all its documents back, a batch those it has written. *)
Restorable(r) == IF review[r].way = "alone" THEN Targets[Item(r)] ELSE review[r].written

(* Rollback of the documents; any of them may fail.  A batch goes on with  *)
(* the rest, "alone" ends there.                                           *)
Restore(r) ==
    /\ At(r) = "restore"
    /\ \E failed \in SUBSET Restorable(r) :
        /\ canon' = [f \in Files |->
               IF f \in Restorable(r) \ failed THEN review[r].base[f] ELSE canon[f]]
        /\ Spoil(r, failed)
        /\ IF review[r].way = "alone" /\ failed # {} THEN Leave(r, "failed")
           ELSE Goto(r, "unrecord") /\ UNCHANGED lock
    /\ UNCHANGED <<status, archives, receipts>>

(* Rollback of the proposals: their own file, their archive and receipt,   *)
(* except those that were there when the batch began.                      *)
Unrecord(r) ==
    /\ At(r) = "unrecord"
    /\ \E failed \in SUBSET Items(r) :
        LET undone == {<<p, review[r].act>> : p \in Items(r) \ failed}
        IN /\ status' = [p \in Proposals |->
                  IF p \in Items(r) \ failed THEN review[r].old[p] ELSE status[p]]
           /\ archives' = archives \ (undone \ review[r].found.archives)
           /\ receipts' = {x \in receipts :
                  <<x.proposal, x.decision>> \in undone => x \in review[r].found.receipts}
           /\ Spoil(r, failed)
    /\ Leave(r, "failed")
    /\ UNCHANGED canon

(* A reviewer dies.  Nothing undoes what it had begun. *)
Crash(r) ==
    /\ At(r) \notin Ended \cup {"idle"}
    /\ Leave(r, "dead")
    /\ torn' = IF At(r) \in Inside /\ (review[r].way = "loose" => At(r) \in Recording)
               THEN torn \cup Items(r) ELSE torn
    /\ UNCHANGED <<canon, status, archives, receipts>>

(* The owner edits a document by hand. *)
OwnerEdit(f) ==
    /\ canon[f].edits < MaxEdits
    /\ setting.ownerWaits => lock = None
    /\ canon' = [canon EXCEPT ![f].edits = @ + 1]
    /\ UNCHANGED <<status, archives, receipts, lock, review, torn>>

Proceed(r) ==
    \/ Lock(r) \/ Check(r) \/ Plan(r) \/ Write(r)
    \/ Begin(r) \/ Archive(r) \/ Receipt(r) \/ Save(r) \/ Cleanup(r)
    \/ Validated(r) \/ Restore(r) \/ Unrecord(r)

Next ==
    /\ \/ \E r \in Reviewers :
           \/ \E way \in {"alone", "loose", "batch"}, act \in {"approved"} \cup setting.declines, items \in setting.requests :
                  Look(r, way, act, items)
           \/ Confirm(r)
           \/ GiveUp(r)
           \/ Proceed(r)
           \/ Error(r)
           \/ Crash(r)
       \/ \E f \in Files : OwnerEdit(f)
    /\ UNCHANGED setting

Spec == Init /\ [][Next]_vars

-----------------------------------------------------------------------------
(* Properties *)

Approving(p) == \E r \in Reviewers :
    At(r) \in Inside /\ review[r].act = "approved" /\ p \in Items(r)
Whole(p) == p \notin torn /\ ~Approving(p)

(* Outside a running approval, and save for a crash or a rollback that     *)
(* failed itself, a proposal is in all of its documents with an archive    *)
(* and a receipt of the approval, or in none of them and has neither.      *)
ApprovedIffApplied ==
    \A p \in Proposals : Whole(p) =>
        \/ /\ \A f \in Targets[p] : p \in canon[f].claims
           /\ <<p, "approved">> \in archives /\ HasReceipt(p, "approved")
        \/ /\ \A f \in Files : p \notin canon[f].claims
           /\ <<p, "approved">> \notin archives /\ ~HasReceipt(p, "approved")

(* A batch is all or nothing: when it is over, it has decided all of its   *)
(* proposals, and reports so, or none.                                     *)
AllOrNothing ==
    \A r \in Reviewers : At(r) \in {"done", "failed"} /\ review[r].way # "loose"
                           /\ Items(r) \cap torn = {} =>
        {x.proposal : x \in {y \in receipts : y.by = r}}
            = IF At(r) = "done" THEN Items(r) ELSE {}

(* What enters a document was shown as it enters: except for the items of  *)
(* its own batch, the document is still as it was previewed.               *)
WritesTheShown ==
    \A f \in Files : \A p \in canon'[f].claims \ canon[f].claims :
        \E r \in Reviewers :
            /\ At(r) = "write" /\ p \in Items(r)
            /\ [canon[f] EXCEPT !.claims = @ \ Items(r)] = review[r].shown[f]
AppliedAsShown == [][setting.ownerWaits => WritesTheShown]_vars

(* No edit of the owner is lost by a review, and no claim but those that a *)
(* rollback takes back from its own items.                                 *)
KeepsEdits ==
    \A f \in Files :
        /\ canon'[f].edits >= canon[f].edits
        /\ \A p \in canon[f].claims \ canon'[f].claims :
              \E r \in Reviewers : At(r) = "restore" /\ p \in Items(r)
NothingLost == [][setting.ownerWaits => KeepsEdits]_vars

(* Of two proposals that supersede or retire the same claim at most one is *)
(* applied.                                                                *)
OneWinsPerClaim == \A f \in Files : \A p, q \in canon[f].claims : {p, q} \notin Rivals

(* A project proposal is approved, rejected or deferred at most once,      *)
(* however many reviewers have it on the screen.                           *)
BatchDecidesOnce ==
    \A p \in Project \ torn :
        Cardinality({x \in receipts : x.proposal = p /\ x.decision # "superseded"}) <= 1

(* docs/concepts/proposal-review.md says of terminal review records that   *)
(* they "cannot be applied again".                                         *)
TerminalNotApplied ==
    [][\A f \in Files : \A p \in canon'[f].claims \ canon[f].claims : status[p] = "pending"]_vars

=============================================================================
