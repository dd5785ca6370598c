------------------------------ MODULE DelegatedRun ------------------------------
(***************************************************************************)
(* Operations that a run delegates under grants: issued, revoked, admitted,*)
(* dispatched and reconciled by processes that share one event log         *)
(* (src/lib/application/run-service.mjs, src/lib/core/delegation-grant.mjs,*)
(* the operation events of src/lib/core/run-state.mjs).                    *)
(* A process reads the run, waits for its host's approval, and appends one *)
(* event to the revision it has read.  The acknowledgment of an append may *)
(* be lost, a process may end anywhere, a call may land after its process  *)
(* has ended, and a successor may take the run over.                       *)
(***************************************************************************)
EXTENDS Naturals, FiniteSets

CONSTANTS
    Processes,
    Grants,     \* grant identities
    Operations, \* operation identities: an identity names one operation
    Under,      \* [Operations -> the grant it is admitted under]
    MaxAttempts,    \* [Grants -> Nat]
    MaxGeneration,  \* bound: takeovers
    MaxLost,        \* bound: acknowledgments that are lost
    None

VARIABLES
    generation, writer,     \* the writer's generation and the process recorded as it
    grant,      \* per grant: None, or [parent, status, used, reserved]
    admitted,   \* the operations that were admitted
    op,         \* per operation: None, "planned", "submitted", "unknown", "confirmed", "failed"
    job,        \* per process: what it is doing, [kind, arg, at, fresh]; fresh: the run is
                \* still at the revision that the process has read or written
    knows,      \* per process: the generation it acts for
    doubt,      \* per process: the admission whose acknowledgment it has lost, or None
    dead, expired, lost,
    flying,     \* external: calls that were made and have not landed
    effects,    \* external: how often the provider has carried out each operation
    fenced,     \* external: operations that the provider has said have failed
    revoked     \* history: operations that lost a grant before they were submitted

vars == <<generation, writer, grant, admitted, op, job, knows, doubt, dead, expired, lost, flying, effects, fenced, revoked>>
writing == <<generation, writer>>
faults == <<dead, expired, lost>>
provider == <<flying, effects, fenced>>

Free == [kind |-> "none", arg |-> None, at |-> "", fresh |-> FALSE]
Settled(o) == op[o] \in {"confirmed", "failed"}
Pending == {o \in Operations : op[o] # None /\ ~Settled(o)}

(* A run whose first process has started it and is its writer. *)
Init ==
    /\ generation = 0 /\ writer \in Processes
    /\ grant = [g \in Grants |-> None]
    /\ admitted = {} /\ op = [o \in Operations |-> None]
    /\ job = [p \in Processes |-> Free]
    /\ knows = [p \in Processes |-> 0]
    /\ doubt = [p \in Processes |-> None]
    /\ dead = {} /\ expired = {} /\ lost = 0
    /\ flying = {} /\ effects = [o \in Operations |-> 0] /\ fenced = {}
    /\ revoked = {}

Alive(p) == p \notin dead
Idle(p) == Alive(p) /\ job[p] = Free
Doing(p, kind, place) == Alive(p) /\ job[p].kind = kind /\ job[p].at = place
Stop(p) == job' = [job EXCEPT ![p] = Free]
Go(p, place) == job' = [job EXCEPT ![p].at = place]
Start(p, kind, arg, place) ==
    job' = [job EXCEPT ![p] = [kind |-> kind, arg |-> arg, at |-> place, fresh |-> TRUE]]

(* append: refused unless the run is as it was read and the process is of  *)
(* its generation.  What the others have read is then out of date.         *)
Current(p) == job[p].fresh /\ knows[p] = generation
Append(p, next) ==
    job' = [q \in Processes |-> IF q = p THEN next ELSE [job[q] EXCEPT !.fresh = FALSE]]
Then(p, place) == Append(p, [job[p] EXCEPT !.at = place, !.fresh = TRUE])
Record(p, o, outcome, next) == op' = [op EXCEPT ![o] = outcome] /\ Append(p, next)

(* A grant and those it derives from; each must be active and unexpired.   *)
Closed(S) == \A h \in S : grant[h] # None => grant[h].parent \in S \cup {None}
Ancestors(g) == {h \in Grants : \A S \in SUBSET Grants : g \in S /\ Closed(S) => h \in S}
Valid(g) == \A a \in Ancestors(g) : grant[a] # None /\ grant[a].status = "active" /\ a \notin expired
Room(g, n) == grant[g].used + grant[g].reserved + n <= MaxAttempts[g]

-----------------------------------------------------------------------------
(* Grants.  A child reserves all of its budget with its parent. *)
StartIssue(p, g, q) ==
    /\ Idle(p) /\ grant[g] = None /\ (q # None => grant[q] # None)
    /\ Start(p, "issue", [grant |-> g, parent |-> q], "asked")
    /\ UNCHANGED <<writing, grant, admitted, op, knows, doubt, faults, provider, revoked>>

IssueGrant(p) ==
    /\ Doing(p, "issue", "asked")
    /\ LET g == job[p].arg.grant
           q == job[p].arg.parent
       IN IF Current(p) /\ (q # None => Valid(q) /\ MaxAttempts[g] <= MaxAttempts[q] /\ Room(q, MaxAttempts[g]))
          THEN /\ grant' = [h \in Grants |->
                      IF h = g THEN [parent |-> q, status |-> "active", used |-> 0, reserved |-> 0]
                      ELSE IF h = q THEN [grant[q] EXCEPT !.reserved = @ + MaxAttempts[g]] ELSE grant[h]]
               /\ Append(p, Free)
          ELSE Stop(p) /\ UNCHANGED grant
    /\ UNCHANGED <<writing, admitted, op, knows, doubt, faults, provider, revoked>>

StartRevoke(p, g) ==
    /\ Idle(p) /\ grant[g] # None
    /\ Start(p, "revoke", g, "asked")
    /\ UNCHANGED <<writing, grant, admitted, op, knows, doubt, faults, provider, revoked>>

RevokeGrant(p) ==
    /\ Doing(p, "revoke", "asked")
    /\ LET g == job[p].arg
       IN IF Current(p) /\ grant[g].status = "active"
          THEN /\ grant' = [grant EXCEPT ![g].status = "revoked"]
               /\ revoked' = revoked \cup {o \in Operations : g \in Ancestors(Under[o]) /\ op[o] \in {None, "planned"}}
               /\ Append(p, Free)
          ELSE Stop(p) /\ UNCHANGED <<grant, revoked>>
    /\ UNCHANGED <<writing, admitted, op, knows, doubt, faults, provider>>

Expire(g) ==
    /\ g \notin expired
    /\ expired' = expired \cup {g}
    /\ UNCHANGED <<writing, grant, admitted, op, job, knows, doubt, dead, lost, provider, revoked>>

-----------------------------------------------------------------------------
(* Admission.  What was admitted before is answered from the log and never *)
(* dispatched again; a new one waits until every admitted one is settled.  *)
StartExecute(p, o) ==
    /\ Idle(p)
    /\ doubt[p] = None /\ knows[p] = generation
    /\ o \notin admitted /\ \A a \in admitted : Settled(a)
    /\ grant[Under[o]] # None
    /\ Start(p, "execute", o, "asked")
    /\ UNCHANGED <<writing, grant, admitted, op, knows, doubt, faults, provider, revoked>>

(* The acknowledgment may be lost: the process then refuses to admit more  *)
(* until that admission is looked up in the log.                           *)
Admit(p) ==
    /\ Doing(p, "execute", "asked")
    /\ LET o == job[p].arg
       IN IF Current(p) /\ Valid(Under[o]) /\ Room(Under[o], 1)
          THEN /\ admitted' = admitted \cup {o}
               /\ grant' = [grant EXCEPT ![Under[o]].used = @ + 1]
               /\ \/ Then(p, "admitted") /\ UNCHANGED <<lost, doubt>>
                  \/ lost < MaxLost /\ lost' = lost + 1 /\ doubt' = [doubt EXCEPT ![p] = o] /\ Append(p, Free)
          ELSE Stop(p) /\ UNCHANGED <<admitted, grant, lost, doubt>>
    /\ UNCHANGED <<writing, op, knows, dead, expired, provider, revoked>>

ReconcileAdmission(p) ==
    /\ Idle(p) /\ doubt[p] \in admitted
    /\ doubt' = [doubt EXCEPT ![p] = None]
    /\ UNCHANGED <<writing, grant, admitted, op, job, knows, faults, provider, revoked>>

Intend(p, from, to) ==
    /\ Doing(p, "execute", from)
    /\ IF Current(p)
       THEN \/ Record(p, job[p].arg, to, [job[p] EXCEPT !.at = to]) /\ UNCHANGED lost
            \/ lost < MaxLost /\ lost' = lost + 1 /\ Record(p, job[p].arg, to, Free)
       ELSE Stop(p) /\ UNCHANGED <<op, lost>>
    /\ UNCHANGED <<writing, grant, admitted, knows, doubt, dead, expired, provider, revoked>>

Dispatch(p) ==
    /\ Doing(p, "execute", "submitted")
    /\ flying' = flying \cup {job[p].arg}
    /\ Go(p, "waiting")
    /\ UNCHANGED <<writing, grant, admitted, op, knows, doubt, faults, effects, fenced, revoked>>

(* The provider carries the call out unless it has declared it failed. *)
Land(o) ==
    /\ o \in flying
    /\ flying' = flying \ {o}
    /\ effects' = IF o \in fenced THEN effects ELSE [effects EXCEPT ![o] = @ + 1]
    /\ UNCHANGED <<writing, grant, admitted, op, job, knows, doubt, faults, fenced, revoked>>

(* The call returns, which proves nothing, or fails, which proves nothing. *)
Dispatched_Retries(p) ==
    /\ Doing(p, "execute", "waiting")
    /\ Stop(p) \/ Go(p, "submitted")
    /\ UNCHANGED <<writing, grant, admitted, op, knows, doubt, faults, flying, effects, fenced, revoked>>

Dispatched(p) ==
    /\ Doing(p, "execute", "waiting")
    /\ \/ Stop(p) /\ UNCHANGED op
       \/ IF Current(p) THEN Record(p, job[p].arg, "unknown", Free) ELSE Stop(p) /\ UNCHANGED op
    /\ UNCHANGED <<writing, grant, admitted, knows, doubt, faults, provider, revoked>>

-----------------------------------------------------------------------------
(* Reconciliation.  An admission without an operation was interrupted: it  *)
(* is recorded as planned, then as unknown.  The provider is asked what has*)
(* become of a pending operation, and its answer is appended to the run as *)
(* that is by then.                                                        *)
StartReconcile(p, o) ==
    /\ Idle(p)
    /\ knows[p] = generation /\ o \in admitted /\ ~Settled(o)
    /\ Start(p, "reconcile", o, IF op[o] = None THEN "interrupted" ELSE "asking")
    /\ UNCHANGED <<writing, grant, admitted, op, knows, doubt, faults, provider, revoked>>

Interrupted(p, from, to, place) ==
    /\ Doing(p, "reconcile", from)
    /\ IF Current(p) THEN Record(p, job[p].arg, to, [job[p] EXCEPT !.at = place]) ELSE Stop(p) /\ UNCHANGED op
    /\ UNCHANGED <<writing, grant, admitted, knows, doubt, faults, provider, revoked>>

(* external: an answer is final, and is "failed" unless it was carried out *)
Answer(o) == IF effects[o] > 0 THEN "confirmed" ELSE "failed"
Answered(asked) == fenced' = fenced \cup {o \in asked : Answer(o) = "failed"}

AskProvider(p) ==
    /\ Doing(p, "reconcile", "asking")
    /\ Go(p, Answer(job[p].arg)) /\ Answered({job[p].arg})
    /\ UNCHANGED <<writing, grant, admitted, op, knows, doubt, faults, flying, effects, revoked>>

Reconcile(p) ==
    /\ Doing(p, "reconcile", "confirmed") \/ Doing(p, "reconcile", "failed")
    /\ IF knows[p] = generation /\ ~Settled(job[p].arg)
       THEN Record(p, job[p].arg, job[p].at, Free)
       ELSE Stop(p) /\ UNCHANGED op
    /\ UNCHANGED <<writing, grant, admitted, knows, doubt, faults, provider, revoked>>

-----------------------------------------------------------------------------
(* Takeover: the recorded writer has ended; the provider is asked of every *)
(* pending operation, the answers are appended in turn, and the writer is  *)
(* transferred if nobody else has appended since.                          *)
StartTakeover(p) ==
    /\ Idle(p)
    /\ writer \in dead /\ generation < MaxGeneration
    /\ Start(p, "takeover", [o \in Pending |-> Answer(o)], "resuming") /\ Answered(Pending)
    /\ UNCHANGED <<writing, grant, admitted, op, knows, doubt, faults, flying, effects, revoked>>

TakeoverReconcile(p) ==
    /\ Doing(p, "takeover", "resuming") /\ job[p].fresh
    /\ \E o \in DOMAIN job[p].arg : ~Settled(o) /\ Record(p, o, job[p].arg[o], job[p])
    /\ UNCHANGED <<writing, grant, admitted, knows, doubt, faults, provider, revoked>>

Resume(p) ==
    /\ Doing(p, "takeover", "resuming")
    /\ IF job[p].fresh
       THEN /\ Pending = {}
            /\ generation' = generation + 1 /\ writer' = p
            /\ knows' = [knows EXCEPT ![p] = generation']
            /\ Append(p, Free)
       ELSE Stop(p) /\ UNCHANGED <<writing, knows>>
    /\ UNCHANGED <<grant, admitted, op, doubt, faults, provider, revoked>>

End(p) ==
    /\ Alive(p) /\ Cardinality(dead) + 1 < Cardinality(Processes)
    /\ dead' = dead \cup {p}
    /\ Stop(p)
    /\ UNCHANGED <<writing, grant, admitted, op, knows, doubt, expired, lost, provider, revoked>>

Next ==
    \/ \E p \in Processes :
        \/ \E g \in Grants, q \in (Grants \cup {None}) : StartIssue(p, g, q)
        \/ \E g \in Grants : StartRevoke(p, g)
        \/ \E o \in Operations : StartExecute(p, o) \/ StartReconcile(p, o)
        \/ IssueGrant(p) \/ RevokeGrant(p)
        \/ Admit(p) \/ ReconcileAdmission(p)
        \/ Intend(p, "admitted", "planned") \/ Intend(p, "planned", "submitted")
        \/ Dispatch(p) \/ Dispatched(p)
        \/ Interrupted(p, "interrupted", "planned", "noting") \/ Interrupted(p, "noting", "unknown", "asking")
        \/ AskProvider(p) \/ Reconcile(p)
        \/ StartTakeover(p) \/ TakeoverReconcile(p) \/ Resume(p)
        \/ End(p)
    \/ \E g \in Grants : Expire(g)
    \/ \E o \in Operations : Land(o)

Spec == Init /\ [][Next]_vars

-----------------------------------------------------------------------------
(* However often it is asked for, by whom, and whatever was lost on the    *)
(* way, an operation is carried out at most once, under an admission, and  *)
(* never after the log has said that it failed.                            *)
CarriedOutOnce ==
    \A o \in Operations : effects[o] <= 1 /\ (op[o] = "failed" => effects[o] = 0) /\ (effects[o] > 0 => o \in admitted)

(* A revocation that reaches the log before an operation is submitted      *)
(* keeps it from being carried out, also one of a grant above its own.     *)
RevokedIsNotCarriedOut == \A o \in revoked : effects[o] = 0

(* One admitted operation at a time is without an outcome, and what a      *)
(* grant and those derived from it have spent is within the grant.         *)
BudgetsHold ==
    /\ Cardinality({o \in admitted : ~Settled(o)}) <= 1
    /\ \A g \in Grants : grant[g] # None =>
          Cardinality({o \in admitted : g \in Ancestors(Under[o])}) <= MaxAttempts[g]
=============================================================================
