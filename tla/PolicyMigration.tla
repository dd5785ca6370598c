---------------------------- MODULE PolicyMigration ----------------------------
(***************************************************************************)
(* `holoself migrate policy` (src/src/migration.mjs): the metadata of the  *)
(* documents of a self is rewritten in three commands, which plan, apply   *)
(* and revert.  Between them, and while they run, the owner saves          *)
(* documents and edits the _policy.yaml files; a write can fail, and a     *)
(* command can be killed.                                                  *)
(*                                                                         *)
(* A document is its metadata (DocumentAccess); a plan's identity is its   *)
(* content, as its id is a hash of that.  One command runs at a time.  The *)
(* comparison of a file and its writing are one step, and so is a plan.    *)
(***************************************************************************)
EXTENDS DocumentAccess, Naturals, Sequences, FiniteSets

CONSTANTS
    Files,          \* documents, in the order of their paths
    Drafts,         \* what the owner writes into a document
    Directories,    \* what the owner writes into the policy files
    MaxPlans, MaxSaves, MaxEdits, MaxRuns,  \* bounds: plans, saved documents, edits of the policy, commands that write
    Asked,          \* the requests that are compared
    Replans,        \* after an edit of the policy the owner applies no plan made before it
    OwnerWaits      \* the owner saves no document that a running command has written

ASSUME FilesAssumption == Files \in SUBSET Nat
ASSUME DraftsAssumption == Drafts \subseteq Metadata /\ Directories \subseteq Defaults
ASSUME AskedAssumption == Asked \subseteq Requests

VARIABLES
    doc,            \* the documents
    directory,      \* the policy's defaults for them
    plans,          \* the plan files
    fresh,          \* history: the plans made under the policy as it is
    receipts,       \* per plan that was applied: its receipt file
    command,        \* the apply or revert that runs, or how the last one ended
    saves, edits, runs,
    by,             \* history: per document, the plan that was the last to write it
    own,            \* history: the documents as the owner and finished commands left them
    unsure          \* history: the plans whose receipt was replaced, or that left files without one

vars == <<doc, directory, plans, fresh, receipts, command, saves, edits, runs, by, own, unsure>>

Hows == {"left", "write", "activate"}
Plans ==
    [before : [Files -> Metadata], after : [Files -> Metadata], how : [Files -> Hows], confirmed : BOOLEAN]

(* The entry of a document in a receipt. *)
Entries == {"none", "applied", "reverted", "skipped"}
Receipts == [status : {"applied", "partially-reverted", "reverted"}, entry : [Files -> Entries]]

(* at: where it is; todo: the files to be written; written: those that     *)
(* were, in this order; entry: the receipt that it keeps in memory.        *)
Rest(outcome) ==
    [at |-> "idle", outcome |-> outcome, plan |-> Missing, todo |-> {}, written |-> <<>>, entry |-> Missing]
Run(place, p, files, entry) ==
    [at |-> place, outcome |-> "running", plan |-> p, todo |-> files, written |-> <<>>, entry |-> entry]

Idle == command.at = "idle"
Written == {command.written[n] : n \in DOMAIN command.written}
IsNext(f) == f \in command.todo /\ \A g \in command.todo : f <= g

Init ==
    /\ doc \in [Files -> Drafts]
    /\ directory \in Directories
    /\ plans = {} /\ fresh = {}
    /\ receipts = <<>>
    /\ command = Rest("done")
    /\ saves = 0 /\ edits = 0 /\ runs = 0
    /\ by = [f \in Files |-> Missing]
    /\ own = doc
    /\ unsure = {}

-----------------------------------------------------------------------------
(* The owner *)

Save(f, m) ==
    /\ saves < MaxSaves
    /\ m # doc[f]
    /\ OwnerWaits => f \notin Written
    /\ saves' = saves + 1
    /\ doc' = [doc EXCEPT ![f] = m]
    /\ own' = [own EXCEPT ![f] = m]
    /\ by' = [by EXCEPT ![f] = Missing]
    /\ UNCHANGED <<directory, plans, fresh, receipts, command, edits, runs, unsure>>

EditPolicy(d) ==
    /\ edits < MaxEdits
    /\ d # directory
    /\ Replans => Idle
    /\ edits' = edits + 1
    /\ directory' = d
    /\ fresh' = {}
    /\ UNCHANGED <<doc, plans, receipts, command, saves, runs, by, own, unsure>>

-----------------------------------------------------------------------------
(* planPolicyMigration: a document that the gate refuses, or that has      *)
(* nothing to change, is left; one that the catalog excludes is activated. *)
How_Ungated(d, m) ==
    IF Migrated(d, m) = m THEN "left" ELSE IF CatalogExcluded(d, m) THEN "activate" ELSE "write"

How(d, m) ==
    IF Migrated(d, m) = m \/ GateRefuses(d, m) THEN "left"
    ELSE IF CatalogExcluded(d, m) THEN "activate" ELSE "write"

PlanOf(confirmed) ==
    LET how == [f \in Files |-> How(directory, doc[f])]
    IN  [before |-> doc, confirmed |-> confirmed, how |-> how,
         after |-> [f \in Files |-> IF how[f] = "left" THEN doc[f] ELSE Migrated(directory, doc[f])]]

(* A consent with nothing to activate is left out. *)
Confirms(p, confirmed) == confirmed => \E f \in Files : p.how[f] = "activate"

Plan(confirmed) ==
    /\ Idle
    /\ Cardinality(plans) < MaxPlans
    /\ LET p == PlanOf(confirmed)
       IN /\ Confirms(p, confirmed)
          /\ plans' = plans \cup {p}
          /\ fresh' = fresh \cup {p}
    /\ UNCHANGED <<doc, directory, receipts, command, saves, edits, runs, by, own, unsure>>

-----------------------------------------------------------------------------
(* applyPolicyMigration: every file is compared before the first write, or *)
(* nothing is done.  An activation that is not confirmed, by the plan or   *)
(* by now, is passed over.                                                 *)
Pending(p, confirm) ==
    {f \in Files : p.how[f] = "write" \/ (p.how[f] = "activate" /\ (confirm \/ p.confirmed))}

Apply(p, confirm) ==
    /\ Idle
    /\ runs < MaxRuns
    /\ runs' = runs + 1
    /\ Replans => p \in fresh
    /\ Confirms(p, confirm)
    /\ \A f \in Pending(p, confirm) : doc[f] = p.before[f]
    /\ command' = Run("writing", p, Pending(p, confirm),
                  [f \in Files |-> IF f \in Pending(p, confirm) THEN "applied" ELSE "none"])
    /\ UNCHANGED <<doc, directory, plans, fresh, receipts, saves, edits, by, own, unsure>>

WriteNext(f) ==
    /\ command.at = "writing"
    /\ IsNext(f)
    /\ doc[f] = command.plan.before[f]
    /\ doc' = [doc EXCEPT ![f] = command.plan.after[f]]
    /\ command' = [command EXCEPT !.todo = @ \ {f}, !.written = Append(@, f)]
    /\ UNCHANGED <<directory, plans, fresh, receipts, saves, edits, runs, by, own, unsure>>

Fail_Leaves ==
    /\ command.at = "writing"
    /\ command' = Rest("rolledback")
    /\ UNCHANGED <<doc, directory, plans, fresh, receipts, saves, edits, runs, by, own, unsure>>

(* Another content, or a write that fails: of a file or of the receipt. *)
Fail ==
    /\ command.at = "writing"
    /\ command' = [command EXCEPT !.at = "undoing", !.outcome = "rolledback"]
    /\ UNCHANGED <<doc, directory, plans, fresh, receipts, saves, edits, runs, by, own, unsure>>

(* The receipt of an earlier application of the same plan is replaced. *)
WriteReceipt ==
    /\ command.at = "writing"
    /\ command.todo = {}
    /\ receipts' = [p \in DOMAIN receipts \cup {command.plan} |->
           IF p = command.plan THEN [status |-> "applied", entry |-> command.entry] ELSE receipts[p]]
    /\ by' = [f \in Files |-> IF f \in Written THEN command.plan ELSE by[f]]
    /\ own' = doc
    /\ unsure' = IF command.plan \in DOMAIN receipts THEN unsure \cup {command.plan} ELSE unsure
    /\ command' = Rest("done")
    /\ UNCHANGED <<doc, directory, plans, fresh, saves, edits, runs>>

(* The last one first, and on past one that cannot be restored. *)
Undo(restored) ==
    /\ command.at = "undoing"
    /\ command.written # <<>>
    /\ LET f == command.written[Len(command.written)]
       IN doc' = IF restored THEN [doc EXCEPT ![f] = command.plan.before[f]] ELSE doc
    /\ command' = [command EXCEPT !.written = SubSeq(@, 1, Len(@) - 1),
                                  !.outcome = IF restored THEN @ ELSE "unrestored"]
    /\ UNCHANGED <<directory, plans, fresh, receipts, saves, edits, runs, by, own, unsure>>

(* What it has written stays, and no receipt says so. *)
Abandon ==
    /\ command' = Rest("done")
    /\ own' = doc
    /\ by' = [f \in Files |-> IF doc[f] = own[f] THEN by[f] ELSE command.plan]
    /\ unsure' = IF doc = own THEN unsure ELSE unsure \cup {command.plan}

Undone ==
    /\ command.at = "undoing"
    /\ command.written = <<>>
    /\ IF command.outcome = "rolledback" THEN command' = Rest("rolledback") /\ UNCHANGED <<by, own, unsure>>
                                           ELSE Abandon
    /\ UNCHANGED <<doc, directory, plans, fresh, receipts, saves, edits, runs>>

-----------------------------------------------------------------------------
(* revertPolicyMigration: nothing if a file has changed since, unless a    *)
(* partial revert was asked for, which skips it.                           *)
Applied(p) == {f \in Files : receipts[p].entry[f] = "applied"}

Revert(p, partial) ==
    /\ Idle
    /\ runs < MaxRuns
    /\ runs' = runs + 1
    /\ p \in DOMAIN receipts
    /\ partial \/ \A f \in Applied(p) : doc[f] = p.after[f]
    /\ command' = Run("reverting", p, Applied(p), receipts[p].entry)
    /\ UNCHANGED <<doc, directory, plans, fresh, receipts, saves, edits, by, own, unsure>>

RevertNext(f) ==
    /\ command.at = "reverting"
    /\ IsNext(f)
    /\ IF doc[f] = command.plan.after[f]
         THEN /\ doc' = [doc EXCEPT ![f] = command.plan.before[f]]
              /\ own' = [own EXCEPT ![f] = command.plan.before[f]]
              /\ by' = [by EXCEPT ![f] = Missing]
              /\ command' = [command EXCEPT !.todo = @ \ {f}, !.written = Append(@, f), !.entry[f] = "reverted"]
         ELSE /\ command' = [command EXCEPT !.todo = @ \ {f}, !.entry[f] = "skipped"]
              /\ UNCHANGED <<doc, own, by>>
    /\ UNCHANGED <<directory, plans, fresh, receipts, saves, edits, runs, unsure>>

SaveReverted_Whole ==
    /\ command.at = "reverting"
    /\ command.todo = {}
    /\ receipts' = [receipts EXCEPT ![command.plan] = [status |-> "reverted", entry |-> command.entry]]
    /\ command' = Rest("done")
    /\ UNCHANGED <<doc, directory, plans, fresh, saves, edits, runs, by, own, unsure>>

(* The status counts only what this revert came to. *)
SaveReverted ==
    /\ command.at = "reverting"
    /\ command.todo = {}
    /\ LET skipped == {f \in Applied(command.plan) : command.entry[f] = "skipped"}
           status == IF skipped = {} THEN "reverted" ELSE IF command.written # <<>> THEN "partially-reverted" ELSE "applied"
       IN /\ receipts' = [receipts EXCEPT ![command.plan] = [status |-> status, entry |-> command.entry]]
          /\ command' = Rest("done")
    /\ UNCHANGED <<doc, directory, plans, fresh, saves, edits, runs, by, own, unsure>>

-----------------------------------------------------------------------------
(* Killed, or a revert whose write fails: nothing takes it up again. *)
Crash ==
    /\ ~Idle
    /\ Abandon
    /\ UNCHANGED <<doc, directory, plans, fresh, receipts, saves, edits, runs>>

Next ==
    \/ \E f \in Files, m \in Drafts : Save(f, m)
    \/ \E d \in Directories : EditPolicy(d)
    \/ \E confirmed \in BOOLEAN : Plan(confirmed)
    \/ \E p \in plans, confirm \in BOOLEAN : Apply(p, confirm)
    \/ \E f \in Files : WriteNext(f)
    \/ Fail
    \/ WriteReceipt
    \/ \E restored \in BOOLEAN : Undo(restored)
    \/ Undone
    \/ \E p \in plans, partial \in BOOLEAN : Revert(p, partial)
    \/ \E f \in Files : RevertNext(f)
    \/ SaveReverted
    \/ Crash

Spec == Init /\ [][Next]_vars

-----------------------------------------------------------------------------
TypeOK ==
    /\ doc \in [Files -> Metadata] /\ own \in [Files -> Metadata]
    /\ directory \in Defaults
    /\ plans \subseteq Plans /\ fresh \subseteq plans
    /\ DOMAIN receipts \subseteq plans /\ \A p \in DOMAIN receipts : receipts[p] \in Receipts
    /\ command \in [at : {"idle", "writing", "undoing", "reverting"},
                    outcome : {"running", "done", "rolledback", "unrestored"},
                    plan : Maybe(plans), todo : SUBSET Files, written : Seq(Files), entry : Maybe([Files -> Entries])]
    /\ ~Idle => command.plan \in plans /\ command.entry \in [Files -> Entries]
    /\ by \in [Files -> Maybe(plans)] /\ unsure \subseteq plans
    /\ saves \in Nat /\ edits \in Nat /\ runs \in Nat

(* What an apply writes answers no request that the document did not       *)
(* answer before, as a whole or in its field; to activate an excluded      *)
(* document takes the owner's consent.                                     *)
Narrows(d, old, new) ==
    \A r \in Asked : (Served(d, new, r) => Served(d, old, r)) /\ (FieldServed(d, new, r) => FieldServed(d, old, r))

NarrowsStep ==
    \A f \in Files :
        command.at = "writing" /\ command'.written = Append(command.written, f) /\ command.plan.how[f] = "write"
            => Narrows(directory, doc[f], doc'[f])
NeverWidens == [][NarrowsStep]_vars

(* A revert that says "reverted" has put back every document of which the  *)
(* receipt said that it was applied.                                       *)
RevertsInFull ==
    [][\A p \in DOMAIN receipts :
           receipts'[p] # receipts[p] /\ receipts'[p].status = "reverted"
               => \A f \in Applied(p) : doc'[f] = p.before[f]]_vars

(* An apply that was rolled back has changed nothing. *)
FailedChangesNothing == Idle /\ command.outcome = "rolledback" => doc = own

(* Every document that a migration was the last to write is as its plan    *)
(* has it, and the receipt of the plan lists it for a revert; of a plan    *)
(* that was applied again, or whose apply left files behind as it was      *)
(* killed or could not restore them, only the first holds.                 *)
MigratedIsUndoable ==
    Idle => \A f \in Files : by[f] # Missing =>
        /\ doc[f] = by[f].after[f]
        /\ by[f] \in unsure \/ (by[f] \in DOMAIN receipts /\ receipts[by[f]].entry[f] = "applied")

MigrationIsUndone == FailedChangesNothing /\ MigratedIsUndoable
=============================================================================
