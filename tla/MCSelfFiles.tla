------------------------------ MODULE MCSelfFiles ------------------------------
(***************************************************************************)
(* The files of a self that several processes write, for TLC: documents    *)
(* behind applied plans and behind reviewed proposals, files behind locks  *)
(* that are broken by a rename, and what the Workbench writes.  A          *)
(* behaviour is of one of these parts.                                     *)
(***************************************************************************)
EXTENDS MCPlanApply, Sequences

CONSTANTS
    None,
    Other, Cap, Keep, Room, Renamers,                           \* see LockFile
    Reviewers, Inbox, Project, Targets, Rivals, MaxEdits, Settings, \* see ProposalReview
    Requests, Type, Server, Groups,                             \* see Workbench
    pi, p1, p2, p3,                                             \* proposals and requests, for TLC
    x1, x2, x3, s1, s2, s3, n1, n2, c1, c2, v1, v2

VARIABLES
    part,
    kind, prompt, place, file, aside, judged, guard, data, known, slots, turn, gone, mistaken, unguarded,
    where, disk, seen, found, wrote, queue, mutex, session, busy, strange, undone, crossed,
    setting, canon, status, archives, receipts, holder, review, cut

renaming == <<kind, prompt, place, file, aside, judged, guard, data, known, slots, turn, gone, mistaken, unguarded>>
bench == <<where, disk, seen, found, wrote, queue, mutex, session, busy, strange, undone, crossed>>
reviewing == <<setting, canon, status, archives, receipts, holder, review, cut>>
all == <<part, vars, renaming, bench, reviewing>>

(* A proposal of the client inbox that changes two documents, and three of *)
(* projects that change one each.  The owner's editor may save at any time *)
(* and proposals may be rejected; or it waits for a review that holds the  *)
(* lock, and two of the proposals compete for a claim.                     *)
MCTargets == (pi :> {f1, f2}) @@ (p1 :> {f1}) @@ (p2 :> {f2}) @@ (p3 :> {f1})
MCRivals == {{p1, p3}}
MCSettings ==
    {[requests |-> {<<pi>>, <<p2>>, <<p1, p2>>}, declines |-> {"rejected"}, ownerWaits |-> FALSE],
     [requests |-> {<<pi>>, <<p1>>, <<p3>>, <<p1, p3>>}, declines |-> {}, ownerWaits |-> TRUE]}

Reviews == INSTANCE ProposalReview WITH lock <- holder, torn <- cut

(* A proposal comes from the inbox or from a project, changes something,   *)
(* and is no rival of itself.  No request is for nothing.                  *)
ASSUME ReviewsAssumption ==
    /\ Inbox \cap Project = {} /\ None \notin Reviewers
    /\ Targets \in [Inbox \cup Project -> SUBSET Files]
    /\ \A p \in Inbox \cup Project : Targets[p] # {} /\ {p} \notin Rivals
    /\ MaxEdits \in Nat
    /\ \A s \in Settings :
        /\ \A t \in s.requests : t \in Seq(Inbox \cup Project) /\ t # <<>>
        /\ s.declines \subseteq {"rejected", "deferred", "superseded"} /\ s.ownerWaits \in BOOLEAN

(* Three calls under each of the locks that are broken by a rename. *)
Renamed == INSTANCE LockFile WITH
    Procs <- Renamers, at <- place, lock <- file, seen <- known, robbed <- mistaken

(* None is no file; the self or packet from the start is of nobody here.   *)
ASSUME RenamedAssumption ==
    /\ None \notin Renamed!File /\ None \notin [by : Renamers, old : BOOLEAN]
    /\ Other \notin Renamers
    /\ Cap \in Nat /\ Keep \in Nat

(* The requests of two processes, in groups that meet. *)
MCServer == [r \in Requests |-> IF r \in {x1, x3, s1, s3, n1, c1, v1} THEN 1 ELSE 2]
MCType == [r \in Requests |->
    CASE r \in {x1, x2} -> "configure" [] r = x3 -> "activate" [] r \in {s1, s2, s3} -> "save"
      [] r = n1 -> "note" [] r = n2 -> "action" [] r \in {c1, c2} -> "choose" [] OTHER -> "review"]
MCGroups == {{x1, x2, x3}, {s1, s2, s3}, {n1, n2, c1, c2}, {n2, c1, v1, v2}, {x1, s2}}

Bench == INSTANCE Workbench

ASSUME BenchAssumption ==
    /\ Type \in [Requests -> {"configure", "activate", "save"} \cup Bench!Kinds]
    /\ DOMAIN Server = Requests /\ None \notin Requests
    /\ Groups \subseteq SUBSET Requests

(* The other parts are as they begin, or without a value. *)
NoPlans == Init /\ ownerWaits
NoRenaming ==
    /\ kind = None /\ prompt = None /\ place = None /\ file = None /\ aside = None /\ judged = None
    /\ guard = None /\ data = None /\ known = None /\ slots = None /\ turn = None /\ gone = None
    /\ mistaken = None /\ unguarded = None
NoBench ==
    /\ where = None /\ disk = None /\ seen = None /\ found = None /\ wrote = None /\ queue = None
    /\ mutex = None /\ session = None /\ busy = None /\ strange = None /\ undone = None /\ crossed = None
NoReviews ==
    /\ setting = None /\ canon = None /\ status = None /\ archives = None /\ receipts = None
    /\ holder = None /\ review = None /\ cut = None

FilesInit ==
    \/ part = "plans" /\ Init /\ NoRenaming /\ NoBench /\ NoReviews
    \/ part = "renamed" /\ Renamed!Init /\ prompt /\ NoPlans /\ NoBench /\ NoReviews
    \/ part = "bench" /\ Bench!Init /\ NoPlans /\ NoRenaming /\ NoReviews
    \/ part = "reviews" /\ Reviews!Init /\ NoPlans /\ NoRenaming /\ NoBench

FilesNext ==
    \/ part = "plans" /\ Next /\ UNCHANGED <<part, renaming, bench, reviewing>>
    \/ part = "renamed" /\ Renamed!Next /\ UNCHANGED <<part, vars, bench, reviewing>>
    \/ part = "bench" /\ Bench!Next /\ UNCHANGED <<part, vars, renaming, reviewing>>
    \/ part = "reviews" /\ Reviews!Next /\ UNCHANGED <<part, vars, renaming, bench>>

FilesSpec == FilesInit /\ [][FilesNext]_all

(* Appliers of plans, and reviewers, are interchangeable. *)
FilesSymmetry == Symmetry \cup Permutations(Reviewers)

-----------------------------------------------------------------------------
(* Plans: PlansAreWhole and PlansKeepOthers, as stated in PlanApply.       *)

(* Proposals: approved if and only if the change is in the documents, a    *)
(* batch decides all of its proposals or none, each once, and of two that  *)
(* compete for a claim one is applied, as stated in ProposalReview.        *)
DecidedAsApplied == part = "reviews" => Reviews!ApprovedIffApplied
BatchesAreWhole ==
    part = "reviews" => Reviews!AllOrNothing /\ Reviews!BatchDecidesOnce /\ Reviews!OneWinsPerClaim

(* If the owner waits, a review writes what was shown and loses nothing,   *)
(* as stated in ProposalReview.                                            *)
WritesWhatWasShown ==
    [][part = "reviews" /\ setting.ownerWaits => Reviews!WritesTheShown /\ Reviews!KeepsEdits]_all

(* Locks broken by a rename: what the guard rules out, what the lock keeps *)
(* and what a rotation drops, as stated in LockFile.                       *)
NoLostUpdate == part = "renamed" => Renamed!GuardPreventsRobbery /\ Renamed!NoLostUpdate
NewestKept == [][part = "renamed" => Renamed!RotationDropsOldest]_all

(* The Workbench: failed actions, acknowledged saves and notes, actions    *)
(* answered once, and what is replaced, as stated in Workbench.            *)
AcknowledgedIsKept ==
    part = "bench" => Bench!FailedActionRestores /\ Bench!AcknowledgedIsKept /\ Bench!ActionsAreAnsweredOnce
ReviewedIsReplaced == [][part = "bench" => Bench!ReplacesTheReviewed]_all
=============================================================================
