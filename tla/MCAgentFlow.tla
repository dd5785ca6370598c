------------------------------ MODULE MCAgentFlow ------------------------------
(***************************************************************************)
(* AgentFlow, for TLC: what its delivery does, the run through its roles   *)
(* and the operations it delegates, and the parts that keep files and logs *)
(* of their own.  A behaviour is of one part.                              *)
(***************************************************************************)
EXTENDS Delivery, Sequences, TLC

CONSTANTS
    Managed, Seeds, Synced, Lock, Mine, Edited, Torn, Merged, Removed, MaxRuns, MaxEdits, MaxEnds, a, s, y,
    Contenders, Depth,
    Branchers, FirstVersion, Logged, SegmentSize, MaxOther, MaxFlying, Marker,
    Keepers, Keeper, Business, Safety, Slots, MaxDead, New, Foreign,
    Delegates, Grants, Operations, Under, Budgets, MaxGeneration, MaxLost

ASSUME LockAssumption == None \notin Contenders
ASSUME JournalAssumption ==
    /\ None # New /\ None # Foreign /\ New # Foreign
    /\ {None, New, Foreign} \cap (Business \cup Safety) = {}
ASSUME DelegationAssumption ==
    /\ IsFiniteSet(Grants) /\ IsFiniteSet(Operations) /\ None \notin Grants
    /\ Under \in [Operations -> Grants] /\ Budgets \in [Grants -> Nat]
    /\ None \notin {"planned", "submitted", "unknown", "confirmed", "failed"}
    /\ None \notin [parent : Grants \cup {None}, status : {"active", "revoked"}, used : Nat, reserved : Nat]

VARIABLES
    part,
    disk, staged, backup, debris, plan, journal, receipt, undoing, ends, cut, drifted, standing,
    at, alive, path, claims, key,
    tree, head, other, job, flying, answer, told,
    prev, entries, acks, retired, slots, stage, wlock, rlock, dead,
    generation, writer, grant, admitted, op, knows, doubt, expired, lost, effects, fenced, revoked

adoption == <<disk, staged, backup, debris, plan, journal, receipt, undoing, ends, cut, drifted, standing>>
locking == <<at, alive, path, claims, key>>
store == <<tree, head, other, answer, told>>
audit == <<prev, entries, acks, retired, slots, stage, wlock, rlock>>
delegation == <<generation, writer, grant, admitted, op, knows, doubt, expired, lost, effects, fenced, revoked>>
delivery == <<gated, assured, resolved, oracle, call, turns, agreed, ran>>
shared == <<run, source, job, flying, dead>>
all == <<part, adoption, locking, store, audit, delegation, delivery, shared>>

Adopt == INSTANCE Adoption
OpLock == INSTANCE AdoptionLock WITH Writers <- Contenders
Store == INSTANCE SegmentedStore WITH Writers <- Branchers, Old <- FirstVersion, Events <- Logged
(* None and Marker are no history, no manifest and no event.                *)
ASSUME StoreAssumption ==
    /\ SegmentSize \in Nat \ {0}
    /\ None # Marker /\ None \notin Logged /\ {None, Marker} \cap Seq(Logged) = {}
    /\ None \notin Nat /\ None \notin {"acknowledged", "not-committed", "moved", "refused"}
    /\ None \notin [segments : Seq(Nat), tail : Nat, snapshot : Nat \cup {None}]

(* A profile names each file once, and the framework's lock is not one of  *)
(* them.  None, Edited and Torn are no text, lock or journal.              *)
Entries == [Adopt!ToSet(Managed) -> Nat \cup {Merged, Removed}]
LockRecords == [tx : Nat, entry : Entries]
Contents == {None, Mine, Edited} \cup Nat \cup LockRecords
Mutations == [path : Adopt!Files, before : Contents, after : Contents \ {None, Edited}]
Plans == [tx : 1..MaxRuns, seen : [Adopt!Files -> Contents], open : BOOLEAN, changed : Seq(Adopt!Files), lock : LockRecords]
ASSUME AdoptionAssumption ==
    LET named == Managed \o Seeds \o Synced IN
    /\ Managed \in Seq(Adopt!Files) /\ Seeds \in Seq(Adopt!Files) /\ Synced \in Seq(Adopt!Files)
    /\ \A i, j \in 1..Len(named) : named[i] = named[j] => i = j
    /\ \A i \in 1..Len(named) : named[i] # Lock
    /\ MaxRuns \in Nat
    /\ None # Mine /\ None # Edited /\ None # Torn /\ Mine # Edited
    /\ {None, Edited} \cap (Nat \cup LockRecords) = {} /\ {None, Torn} \cap Seq(Mutations) = {}
    /\ None \notin Plans /\ Torn \notin 1..MaxRuns

Audit == INSTANCE AuditJournal WITH Processes <- Keepers, Writer <- Keeper
Delegated == INSTANCE DelegatedRun WITH Processes <- Delegates, MaxAttempts <- Budgets

(* One file of each kind in the profile of an adoption. *)
OneManaged == <<a>>
OneSeed == <<s>>
OneSynced == <<y>>

(* Each operation has a grant of its own, which allows one attempt. *)
OwnGrant == CHOOSE f \in [Operations -> Grants] : \A g \in Grants : \E o \in Operations : f[o] = g
OneEach == [g \in Grants |-> 1]

(* The processes of delegated operations are interchangeable, and grants   *)
(* each with the operation under it.                                       *)
Renamed(f) ==
    [x \in Grants \cup Operations |->
        IF x \in Grants THEN f[x] ELSE CHOOSE o \in Operations : Under[o] = f[Under[x]]]
Symmetry == Permutations(Delegates) \cup {Renamed(f) : f \in Permutations(Grants)}

(* The variables of the other parts have no value. *)
NoAdoption ==
    /\ disk = None /\ staged = None /\ backup = None /\ debris = None
    /\ plan = None /\ journal = None /\ receipt = None /\ undoing = None
    /\ ends = None /\ cut = None /\ drifted = None /\ standing = None
NoLocking ==
    /\ at = None /\ alive = None /\ path = None /\ claims = None /\ key = None
NoStore ==
    /\ tree = None /\ head = None /\ other = None /\ answer = None /\ told = None
NoAudit ==
    /\ prev = None /\ entries = None /\ acks = None /\ retired = None
    /\ slots = None /\ stage = None /\ wlock = None /\ rlock = None
NoDelegation ==
    /\ generation = None /\ writer = None /\ grant = None /\ admitted = None
    /\ op = None /\ knows = None /\ doubt = None /\ expired = None
    /\ lost = None /\ effects = None /\ fenced = None /\ revoked = None
NoDelivery ==
    /\ gated = None /\ assured = None /\ resolved = None /\ oracle = None
    /\ call = None /\ turns = None /\ agreed = None /\ ran = None

(* Of the shared variables, those that a part does not have are None. *)
AgentFlowInit ==
    \/ /\ part = "adoption" /\ Adopt!Init
       /\ NoLocking /\ NoStore /\ NoAudit /\ NoDelegation /\ NoDelivery
       /\ source = None /\ job = None /\ flying = None /\ dead = None
    \/ /\ part = "lock" /\ OpLock!Init
       /\ NoAdoption /\ NoStore /\ NoAudit /\ NoDelegation /\ NoDelivery
       /\ run = None /\ source = None /\ job = None /\ flying = None /\ dead = None
    \/ /\ part = "store" /\ Store!Init
       /\ NoAdoption /\ NoLocking /\ NoAudit /\ NoDelegation /\ NoDelivery
       /\ run = None /\ source = None /\ dead = None
    \/ /\ part = "audit" /\ Audit!Init
       /\ NoAdoption /\ NoLocking /\ NoStore /\ NoDelegation /\ NoDelivery
       /\ run = None
    \/ /\ part = "run" /\ Init
       /\ NoAdoption /\ NoLocking /\ NoStore /\ NoAudit /\ NoDelegation
       /\ job = None /\ flying = None /\ dead = None
    \/ /\ part = "operations" /\ Delegated!Init
       /\ NoAdoption /\ NoLocking /\ NoStore /\ NoAudit /\ NoDelivery
       /\ run = None /\ source = None

AgentFlowNext ==
    \/ /\ part = "adoption" /\ Adopt!Next
       /\ UNCHANGED <<part, locking, store, audit, delegation, delivery, source, job, flying, dead>>
    \/ /\ part = "lock" /\ OpLock!Next
       /\ UNCHANGED <<part, adoption, store, audit, delegation, delivery, shared>>
    \/ /\ part = "store" /\ Store!Next
       /\ UNCHANGED <<part, adoption, locking, audit, delegation, delivery, run, source, dead>>
    \/ /\ part = "audit" /\ Audit!Next
       /\ UNCHANGED <<part, adoption, locking, store, delegation, delivery, run>>
    \/ /\ part = "run" /\ Next
       /\ UNCHANGED <<part, adoption, locking, store, audit, delegation, job, flying, dead>>
    \/ /\ part = "operations" /\ Delegated!Next
       /\ UNCHANGED <<part, adoption, locking, store, audit, delivery, run, source>>

AgentFlowSpec == AgentFlowInit /\ [][AgentFlowNext]_all

------------------------------------------------------------------------------
(* Adoption: what the lock says and what is left behind, and what a        *)
(* recovery can and may do, as stated in Adoption.                         *)
LockTellsTheTruth ==
    part = "adoption" => Adopt!LockTellsTheTruth /\ Adopt!NothingIsLeftBehind /\ Adopt!RecoveryIsPossible
RecoveryKeepsEdits == [][part = "adoption" => Adopt!RecoverySparesEdits]_all

(* The operation lock: one writer, and one that reclaims, as stated in     *)
(* AdoptionLock.                                                           *)
OneWriter == part = "lock" => OpLock!OneWriter /\ OpLock!OneReclaims

(* The run store: the branch reads, its answers stand, its history grows,  *)
(* as stated in SegmentedStore.                                            *)
AnswersStand == part = "store" => Store!AlwaysReads /\ Store!AnswersStand
HistoryOnlyGrows == [][part = "store" => Store!CommitAppends]_all

(* The audit journal: written ahead, final, once, as stated in             *)
(* AuditJournal.                                                           *)
DecisionsStand == part = "audit" => Audit!WriteAhead /\ Audit!DecisionsStand /\ Audit!AppendedOnce

(* The run: a role's result rests on evidence, a human's agreement and     *)
(* resolved drift, and what completes has run, as stated in Delivery.      *)
DeliversAsDecided == [][part = "run" => StepsAsDecided]_all
CompletedHasRun == part = "run" => CompletesWhatRan

(* Delegated operations: once, not after a revocation, within budget, as   *)
(* stated in DelegatedRun.                                                 *)
CarriedOutOnce ==
    part = "operations" => Delegated!CarriedOutOnce /\ Delegated!RevokedIsNotCarriedOut /\ Delegated!BudgetsHold
=============================================================================
