-------------------------------- MODULE Delivery --------------------------------
(***************************************************************************)
(* A run through the nine roles of a delivery                              *)
(* (src/lib/application/run-service.mjs over the reduction of              *)
(* src/lib/core/run-state.mjs): a contract is frozen from its source,      *)
(* a candidate and evidence about it are recorded, humans are asked at     *)
(* the gates, and each role's result is accepted or returned.              *)
(* Agents act at once on one event log.  A call reads the run, asks its    *)
(* host, the humans and the sources, and appends to the revision it read;  *)
(* the sources are no part of that revision.  An agent may end anywhere    *)
(* and another take the run over.  Grants and delegated operations are in  *)
(* DelegatedRun.                                                           *)
(***************************************************************************)
EXTENDS Naturals, FiniteSets

CONSTANTS
    Roles,      \* bound: the roles of an instance; 0..8 are those of RUN_ROLES
    Agents,
    Candidates,
    Versions,   \* contents of a contract: its criteria and what they demand
    Oracles,    \* contents of the directory of oracles
    MaxTurns,   \* bound: returns, halts, refused attempts, edits at the sources and takeovers
                \* of what is not paused, together
    MaxEvidence,    \* bound: observations at once
    None

VARIABLES
    gated, assured, \* the posture asks a human before a release; the policy asks for oracle assurance
    run,        \* the run, as its events are reduced
    resolved,   \* the drifts that a human has resolved
    source,     \* external: the contract at its source
    oracle,     \* external: the oracles on disk
    call,       \* per agent: its call, [kind, at, arg, fresh]; fresh: the run is
                \* at the revision that the call has read or written
    turns,      \* those of MaxTurns so far
    agreed,     \* history: what humans have agreed to about the role's result
    ran         \* history: what has passed at run time: [candidate, oracle, generation]

vars == <<gated, assured, run, resolved, source, oracle, call, turns, agreed, ran>>
externals == <<source, oracle>>
policies == <<gated, assured>>

Planner == 3        \* product manager, analyst, architect, planner, developer,
Developer == 4      \* tester, reviewer, technical writer, pull request
Tester == 5
PullRequest == 8

ASSUME RolesAssumption == {0, Planner, Developer, Tester, PullRequest} \subseteq Roles /\ Roles \subseteq 0..PullRequest

NextRole(r) == CHOOSE s \in Roles : s > r /\ \A q \in Roles : q > r => q >= s

Quiet == [kind |-> "none", at |-> "", arg |-> None, fresh |-> FALSE]

Init ==
    /\ gated \in BOOLEAN /\ assured \in BOOLEAN
    /\ run = [phase |-> 0, status |-> "active", generation |-> 0, contract |-> None, candidate |-> None,
              evidence |-> {}, finding |-> None, pin |-> None, package |-> None, proof |-> None,
              stop |-> None, round |-> 0]
    /\ resolved = {}
    /\ source \in Versions /\ oracle \in Oracles
    /\ call = [a \in Agents |-> Quiet]
    /\ turns = 0
    /\ agreed = {} /\ ran = {}

Idle(a) == call[a].kind = "none"
Doing(a, kind, place) == call[a].kind = kind /\ call[a].at = place
ToProvider(a) == Doing(a, "attempt", "submitted") \/ Doing(a, "attempt", "checked")
Stop(a) == call' = [call EXCEPT ![a] = Quiet]
Go(a, place) == call' = [call EXCEPT ![a].at = place]
Begin(a, kind, place, arg) ==
    call' = [call EXCEPT ![a] = [kind |-> kind, at |-> place, arg |-> arg, fresh |-> TRUE]]

(* The end of every reduction: evidence from run time is of the current    *)
(* candidate, oracle and writer, and a package is of the pinned oracle.    *)
Normalised_Kept(r) == r

Normalised(r) ==
    [r EXCEPT !.proof = IF @ = [candidate |-> r.candidate, oracle |-> r.pin, generation |-> r.generation] THEN @ ELSE None,
              !.package = IF @ = r.pin THEN @ ELSE None]

(* append: what the others have read is then out of date, and they will be *)
(* refused.  Nothing comes of their calls before that, so they end here,   *)
(* except those on their way to a provider.                                *)
AppendEvent_Unchecked(a, next, state) ==
    /\ run' = Normalised(state)
    /\ call' = [call EXCEPT ![a] = next]

AppendEvent(a, next, state) ==
    /\ run' = Normalised(state)
    /\ call' = [b \in Agents |-> IF b = a THEN next
                                ELSE IF ToProvider(b) THEN [call[b] EXCEPT !.fresh = FALSE] ELSE Quiet]

Turn == turns < MaxTurns /\ turns' = turns + 1
Active == run.status = "active"
Reconciled == run.stop \in {None, "settled"}

-----------------------------------------------------------------------------
(* Events that an agent records at once: they are refused unless the run   *)
(* is as it was when they were written, so only that case is a step.       *)
RecordCandidate(a, c) ==
    /\ Idle(a) /\ Active
    /\ AppendEvent(a, Quiet, [run EXCEPT !.candidate = c, !.evidence = {}])
    /\ UNCHANGED <<policies, resolved, externals, turns, agreed, ran>>

(* An observation that passes, of the current candidate and the criteria   *)
(* of a contract; when it was made is history.  Others count for nothing.  *)
RecordObservation(a, version) ==
    /\ Idle(a) /\ Active /\ run.candidate # None
    /\ Cardinality(run.evidence) < MaxEvidence
    /\ AppendEvent(a, Quiet, [run EXCEPT !.evidence = @ \cup
          {[of |-> version, phase |-> run.phase, round |-> run.round]}])
    /\ UNCHANGED <<policies, resolved, externals, turns, agreed, ran>>

(* The developer returns to the planner, those behind the tester to the    *)
(* developer, with a finding and without a contract.                       *)
Return(a) ==
    /\ Turn
    /\ Idle(a) /\ Active
    /\ run.phase = Developer \/ run.phase > Tester
    /\ run.finding = None
    /\ AppendEvent(a, Quiet, [run EXCEPT !.phase = IF @ = Developer THEN Planner ELSE Developer, !.finding = run.round + 1,
                                    !.contract = None, !.round = @ + 1])
    /\ UNCHANGED <<policies, resolved, externals, agreed, ran>>

Halt(a) ==
    /\ Turn
    /\ Idle(a) /\ Active
    /\ AppendEvent(a, Quiet, [run EXCEPT !.status = "blocked"])
    /\ UNCHANGED <<policies, resolved, externals, agreed, ran>>

-----------------------------------------------------------------------------
(* Freezing reads the source and then appends; evidence starts anew.       *)
(* Bound: what is frozen already is not frozen again.                      *)
StartFreeze(a) ==
    /\ Idle(a) /\ run.contract # source
    /\ Begin(a, "freeze", "read", source)
    /\ UNCHANGED <<policies, run, resolved, externals, turns, agreed, ran>>

Freeze(a) ==
    /\ Doing(a, "freeze", "read")
    /\ IF Active THEN AppendEvent(a, Quiet, [run EXCEPT !.contract = call[a].arg, !.evidence = {}])
       ELSE Stop(a) /\ UNCHANGED run
    /\ UNCHANGED <<policies, resolved, externals, turns, agreed, ran>>

(* The oracle is pinned once, by the planner; under assurance its package  *)
(* is resolved from the source first.                                      *)
StartPin(a) ==
    /\ Idle(a) /\ run.phase = Planner /\ run.pin = None
    /\ Begin(a, "pin", "read", oracle)
    /\ UNCHANGED <<policies, run, resolved, externals, turns, agreed, ran>>

PinOracle(a) ==
    /\ Doing(a, "pin", "read")
    /\ IF Active
       THEN AppendEvent(a, Quiet, [run EXCEPT !.pin = call[a].arg, !.package = IF assured THEN call[a].arg ELSE None])
       ELSE Stop(a) /\ UNCHANGED run
    /\ UNCHANGED <<policies, resolved, externals, turns, agreed, ran>>

-----------------------------------------------------------------------------
(* verifyCriteria.  Drift is a source that is not what was frozen, or else *)
(* a submitted plan that is not; a human may have resolved that very one.  *)
SourceDrifted == source # run.contract
Drift(plan) == [from |-> run.contract, to |-> IF SourceDrifted THEN source ELSE plan]
Drifted(plan) == SourceDrifted \/ plan # run.contract

Passes(plan) ==
    /\ run.contract # None
    /\ Drifted(plan) => Drift(plan) \in resolved
    /\ \E o \in run.evidence : o.of = plan

(* A human looks at an escalation and resolves the drift it names. *)
StartResolve(a, plan) ==
    /\ Idle(a)
    /\ run.candidate # None /\ run.contract # None /\ Drifted(plan) /\ Drift(plan) \notin resolved
    /\ Begin(a, "resolve", "asked", Drift(plan))
    /\ UNCHANGED <<policies, run, resolved, externals, turns, agreed, ran>>

ResolveEscalation(a) ==
    /\ Doing(a, "resolve", "asked")
    /\ IF run.status # "completed"
       THEN resolved' = resolved \cup {call[a].arg} /\ AppendEvent(a, Quiet, run)
       ELSE Stop(a) /\ UNCHANGED <<run, resolved>>
    /\ UNCHANGED <<policies, externals, turns, agreed, ran>>

-----------------------------------------------------------------------------
(* advance, by a plan that names the evidence for its criteria.  A release *)
(* is put before a human first, an intent last, and the source is read     *)
(* again after that.                                                       *)
StartAdvance(a, plan) ==
    /\ Idle(a) /\ \E o \in run.evidence : o.of = plan
    /\ Begin(a, "advance", IF run.phase = PullRequest /\ gated THEN "gate" ELSE "verify", plan)
    /\ UNCHANGED <<policies, run, resolved, externals, turns, agreed, ran>>

AcceptRelease(a) ==
    /\ Doing(a, "advance", "gate")
    /\ \/ Stop(a) /\ UNCHANGED agreed
       \/ agreed' = agreed \cup {[candidate |-> run.candidate, contract |-> run.contract, plan |-> call[a].arg]} /\ Go(a, "verify")
    /\ UNCHANGED <<policies, run, resolved, externals, turns, ran>>

(* The developer needs the pin of what is on disk, and under assurance the *)
(* package that was pinned.                                                *)
OracleStands == run.pin = oracle /\ (assured => run.package = oracle)

Verify(a) ==
    /\ Doing(a, "advance", "verify")
    /\ IF /\ Passes(call[a].arg)
          /\ run.finding = None
          /\ run.phase = Planner => OracleStands
       THEN Go(a, IF run.phase = 0 THEN "consent" ELSE "accepted")
       ELSE Stop(a)
    /\ UNCHANGED <<policies, run, resolved, externals, turns, agreed, ran>>

ConsentToIntent(a) ==
    /\ Doing(a, "advance", "consent")
    /\ agreed' = agreed \cup {[candidate |-> None, contract |-> run.contract, plan |-> call[a].arg]}
    /\ IF ~SourceDrifted THEN Go(a, "accepted") ELSE Stop(a)
    /\ UNCHANGED <<policies, run, resolved, externals, turns, ran>>

(* The append.  Under assurance the roles that build and test bring the    *)
(* evidence of a run, and the last one still has it.                       *)
Advanced(plan) ==
    IF run.phase = PullRequest THEN [run EXCEPT !.status = "completed"]
    ELSE [run EXCEPT !.phase = NextRole(@), !.contract = None,
                     !.proof = IF assured /\ run.phase \in {Developer, Tester}
                               THEN [candidate |-> run.candidate, oracle |-> run.pin, generation |-> run.generation] ELSE @]

Advance(a) ==
    /\ Doing(a, "advance", "accepted")
    /\ LET tested == assured /\ run.phase \in {Developer, Tester}
       IN IF /\ Active /\ Reconciled /\ run.finding = None
             /\ tested => run.package # None
             /\ assured /\ run.phase = PullRequest => run.proof # None
          THEN /\ AppendEvent(a, Quiet, Advanced(call[a].arg))
               /\ ran' = IF tested THEN ran \cup {[candidate |-> run.candidate, oracle |-> run.pin, generation |-> run.generation]}
                         ELSE ran
          ELSE Stop(a) /\ UNCHANGED <<run, ran>>
    /\ agreed' = IF run' = run THEN agreed ELSE {}
    /\ UNCHANGED <<policies, resolved, externals, turns>>

(* A finding is settled by evidence for its criteria. *)
ResolveRework(a, plan) ==
    /\ Idle(a) /\ Active
    /\ run.finding # None /\ Passes(plan)
    /\ AppendEvent(a, Quiet, [run EXCEPT !.finding = None])
    /\ UNCHANGED <<policies, resolved, externals, turns, agreed, ran>>

-----------------------------------------------------------------------------
(* An attempt is admitted by the budget, or the run is paused and then the *)
(* provider asked to stop, whose answer may stay unknown.  The request     *)
(* names the generation of the run.  Bound: an attempt is refused once, of *)
(* the developer.                                                          *)
RefuseAttempt(a) ==
    /\ Turn
    /\ Idle(a) /\ Active /\ run.stop = None /\ run.phase = Developer
    /\ AppendEvent(a, [kind |-> "attempt", at |-> "refused", arg |-> run.generation, fresh |-> TRUE], run)
    /\ UNCHANGED <<policies, resolved, externals, agreed, ran>>

AttemptStep(a, from, to, next) ==
    /\ Doing(a, "attempt", from)
    /\ AppendEvent(a, [call[a] EXCEPT !.at = to], next)
    /\ UNCHANGED <<policies, resolved, externals, turns, agreed, ran>>

PauseAttempt(a) == AttemptStep(a, "refused", "paused", [run EXCEPT !.status = "paused"])
PlanStop(a) == AttemptStep(a, "paused", "planned", [run EXCEPT !.stop = "planned"])
SubmitStop(a) == AttemptStep(a, "planned", "submitted", [run EXCEPT !.stop = "submitted"])

(* The run is read again, and then the provider asked: others may append   *)
(* in between, and the append of the outcome is refused then.              *)
ReadAgain(a) ==
    /\ Doing(a, "attempt", "submitted")
    /\ IF call[a].fresh THEN Go(a, "checked") ELSE Stop(a)
    /\ UNCHANGED <<policies, run, resolved, externals, turns, agreed, ran>>

AskToStop(a) ==
    /\ Doing(a, "attempt", "checked")
    /\ Go(a, "asked")
    /\ UNCHANGED <<policies, run, resolved, externals, turns, agreed, ran>>

RecordStop(a) ==
    /\ Doing(a, "attempt", "asked")
    /\ IF call[a].fresh
       THEN \E outcome \in {"settled", "unknown"} : AppendEvent(a, Quiet, [run EXCEPT !.stop = outcome])
       ELSE Stop(a) /\ UNCHANGED run
    /\ UNCHANGED <<policies, resolved, externals, turns, agreed, ran>>

Reconcile(a) ==
    /\ Idle(a) /\ run.stop \in {"planned", "submitted", "unknown"}
    /\ run.status # "completed"
    /\ AppendEvent(a, Quiet, [run EXCEPT !.stop = "settled"])
    /\ UNCHANGED <<policies, resolved, externals, turns, agreed, ran>>

(* A takeover, when the writer has stopped and nothing is pending: another *)
(* generation; a workspace that is not the candidate invalidates it.       *)
Resume(a) ==
    /\ IF run.status = "paused" THEN UNCHANGED turns ELSE Turn
    /\ Idle(a)
    /\ run.status # "completed" /\ Reconciled
    /\ \E changed \in BOOLEAN :
          AppendEvent(a, Quiet, [run EXCEPT !.generation = @ + 1, !.status = "active",
                                       !.candidate = IF changed THEN None ELSE @, !.evidence = IF changed THEN {} ELSE @])
    /\ UNCHANGED <<policies, resolved, externals, agreed, ran>>

EndCall(a) ==
    /\ ~Idle(a)
    /\ Stop(a)
    /\ UNCHANGED <<policies, run, resolved, externals, turns, agreed, ran>>

(* external: the contract is edited at its source, the oracles on disk *)
EditSource == Turn /\ source' \in {v \in Versions : v > source} /\ UNCHANGED <<policies, run, resolved, oracle, call, agreed, ran>>
EditOracle == Turn /\ oracle' \in {o \in Oracles : o > oracle} /\ UNCHANGED <<policies, run, resolved, source, call, agreed, ran>>

Next ==
    \/ \E a \in Agents :
        \/ \E c \in Candidates : RecordCandidate(a, c)
        \/ \E v \in Versions : \/ RecordObservation(a, v)
                               \/ StartResolve(a, v) \/ StartAdvance(a, v) \/ ResolveRework(a, v)
        \/ Return(a) \/ Halt(a)
        \/ StartFreeze(a) \/ Freeze(a) \/ StartPin(a) \/ PinOracle(a)
        \/ ResolveEscalation(a)
        \/ AcceptRelease(a) \/ Verify(a) \/ ConsentToIntent(a) \/ Advance(a)
        \/ RefuseAttempt(a) \/ PauseAttempt(a) \/ PlanStop(a) \/ SubmitStop(a)
        \/ ReadAgain(a) \/ AskToStop(a) \/ RecordStop(a) \/ Reconcile(a)
        \/ Resume(a) \/ EndCall(a)
    \/ EditSource \/ EditOracle

Spec == Init /\ [][Next]_vars

-----------------------------------------------------------------------------
Moves(a) == Doing(a, "advance", "accepted") /\ call'[a] = Quiet /\ run' # run

(* What a role has delivered is accepted on evidence of that round, not of *)
(* a role or a candidate before, and a finding settled by evidence that is *)
(* newer than it.                                                          *)
RestsOnEvidence ==
    /\ \A a \in Agents : Moves(a) =>
          \E o \in run.evidence : o.of = call[a].arg /\ o.phase = run.phase /\ o.round = run.round
    /\ run.finding # None /\ run'.finding = None => \E o \in run.evidence : o.round >= run.finding

(* The intent and the release that pass are those a human agreed to: that  *)
(* contract, that plan and that candidate.                                 *)
PassesWhatWasAgreed ==
    \A a \in Agents : Moves(a) /\ (run.phase = 0 \/ (run.phase = PullRequest /\ gated)) =>
        [candidate |-> IF run.phase = 0 THEN None ELSE run.candidate, contract |-> run.contract, plan |-> call[a].arg] \in agreed

(* A stop goes to a provider once the pause is durable, and when it is     *)
(* asked the pause still lasts or the run has gone on under another        *)
(* generation than the request names: the provider, which fences against   *)
(* the generation, never stops a writer of after the pause.                *)
StopsWhatIsPaused ==
    \A a \in Agents :
        /\ Doing(a, "attempt", "submitted") /\ call'[a].at = "checked" => run.status = "paused" /\ run.stop = "submitted"
        /\ Doing(a, "attempt", "checked") /\ call'[a].at = "asked" => run.status = "paused" \/ run.generation > call[a].arg

(* Drift is passed over only where a human has resolved one of the         *)
(* contract that was frozen.                                               *)
DriftIsResolved ==
    \A a \in Agents : Moves(a) => call[a].arg = run.contract \/ \E d \in resolved : d.from = run.contract

StepsAsDecided == RestsOnEvidence /\ PassesWhatWasAgreed /\ StopsWhatIsPaused /\ DriftIsResolved

(* Under assurance, what completes has itself passed at run time, with the *)
(* oracle that is pinned and under the writer that completes it.           *)
CompletesWhatRan ==
    run.status = "completed" /\ assured =>
        [candidate |-> run.candidate, oracle |-> run.pin, generation |-> run.generation] \in ran

(* run-service.mjs:105: a resolution covers only the one change a human has *)
(* reviewed; other criteria escalate again.                                *)
ResolutionCoversOneChange ==
    [][\A a \in Agents : Moves(a) =>
          call[a].arg = run.contract \/ [from |-> run.contract, to |-> call[a].arg] \in resolved]_vars
=============================================================================
