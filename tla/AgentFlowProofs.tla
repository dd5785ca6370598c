--------------------------- MODULE AgentFlowProofs ---------------------------
(***************************************************************************)
(* Proofs about the parts of AgentFlow, for every value of the constants:  *)
(* the run through its roles, and an adoption with its recoveries.         *)
(***************************************************************************)
EXTENDS MCAgentFlow, Concatenations

-----------------------------------------------------------------------------
(* The run through its roles. *)
Observations == [of : Versions, phase : Roles, round : Nat]
Drifts == [from : Versions, to : Versions]
Passed == [candidate : Candidates \cup {None}, oracle : Oracles \cup {None}, generation : Nat]
Agreements == [candidate : Candidates \cup {None}, contract : Versions \cup {None}, plan : Versions]
RunRecords ==
    [phase : Roles, status : {"active", "blocked", "paused", "completed"}, generation : Nat,
     contract : Versions \cup {None}, candidate : Candidates \cup {None}, evidence : SUBSET Observations,
     finding : Nat \cup {None}, pin : Oracles \cup {None}, package : Oracles \cup {None},
     proof : Passed \cup {None}, stop : {None, "planned", "submitted", "unknown", "settled"}, round : Nat]
Places ==
    {"", "read", "asked", "gate", "verify", "consent", "accepted", "refused", "paused", "planned", "submitted",
     "checked"}
CallRecords ==
    [kind : {"none", "freeze", "pin", "resolve", "advance", "attempt"}, at : Places,
     arg : Versions \cup Oracles \cup Drifts \cup {None} \cup Nat, fresh : BOOLEAN]

(* Beside the run and the calls. *)
Surroundings ==
    /\ gated \in BOOLEAN /\ assured \in BOOLEAN
    /\ resolved \subseteq Drifts
    /\ source \in Versions /\ oracle \in Oracles
    /\ turns \in Nat
    /\ agreed \subseteq Agreements
    /\ ran \subseteq Passed

(* While a contract is frozen, all evidence is of this role and round; an  *)
(* open finding is of this round.                                          *)
Rounds(r) ==
    /\ r.contract # None => \A o \in r.evidence : o.phase = r.phase /\ o.round = r.round
    /\ r.finding # None => r.finding = r.round

(* Evidence from run time is in the history, and so is what completed      *)
(* under assurance; and it is of the run as it is.                         *)
Outcome(r) == [candidate |-> r.candidate, oracle |-> r.pin, generation |-> r.generation]
Sound(r, history, strict) ==
    /\ r.proof # None => r.proof \in history
    /\ r.status = "completed" /\ strict => Outcome(r) \in history
Tied(r) == r.proof # None => r.proof = Outcome(r)

(* What a call carries. *)
ArgFits(c) ==
    /\ c.kind \in {"freeze", "advance"} => c.arg \in Versions
    /\ c.kind = "pin" => c.arg \in Oracles
    /\ c.kind = "resolve" => c.arg \in Drifts

(* What a call has found out stands, as nobody has appended since. *)
PlanStands(c, r, drifts, gate) ==
    c.kind = "advance" =>
        /\ \E o \in r.evidence : o.of = c.arg
        /\ c.at \in {"gate", "verify", "consent", "accepted"}
        /\ c.at = "gate" => r.phase = PullRequest /\ gate
        /\ c.at = "consent" => r.phase = 0
        /\ c.at \in {"consent", "accepted"} =>
              /\ r.contract # None
              /\ c.arg = r.contract \/ \E d \in drifts : d.from = r.contract

AgreementStands(c, r, agreements, gate) ==
    c.kind = "advance" =>
        /\ c.at = "accepted" /\ r.phase = 0 =>
              [candidate |-> None, contract |-> r.contract, plan |-> c.arg] \in agreements
        /\ c.at \in {"verify", "accepted"} /\ r.phase = PullRequest /\ gate =>
              [candidate |-> r.candidate, contract |-> r.contract, plan |-> c.arg] \in agreements

(* One on its way to a provider names the generation of the pause, which   *)
(* lasts until another writes.                                             *)
AttemptStands(c, r) ==
    c.kind = "attempt" =>
        /\ c.at \in {"refused", "paused", "planned", "submitted", "checked", "asked"}
        /\ c.at \in {"refused", "paused", "planned"} => c.fresh
        /\ c.arg \in Nat /\ c.arg <= r.generation
        /\ c.fresh => c.arg = r.generation
        /\ c.at = "refused" => r.status = "active"
        /\ c.at \in {"paused", "planned"} => r.status = "paused"
        /\ c.at \in {"submitted", "checked", "asked"} /\ c.fresh => r.status = "paused" /\ r.stop = "submitted"
        /\ c.at \in {"submitted", "checked"} => r.status = "paused" \/ r.generation > c.arg

Stands(c, r, drifts, agreements, gate) ==
    /\ ArgFits(c)
    /\ PlanStands(c, r, drifts, gate)
    /\ AgreementStands(c, r, agreements, gate)
    /\ AttemptStands(c, r)

CallsStand == \A d \in Agents : Stands(call[d], run, resolved, agreed, gated)

RunInv ==
    /\ Surroundings /\ run \in RunRecords /\ call \in [Agents -> CallRecords]
    /\ Rounds(run) /\ Sound(run, ran, assured) /\ Tied(run)
    /\ CallsStand

-----------------------------------------------------------------------------
(* The next role is a role. *)
LEMMA NextRoleExists ==
    ASSUME NEW r \in Roles, r # PullRequest
    PROVE  NextRole(r) \in Roles /\ NextRole(r) # r
<1>. DEFINE Least(i) == i \in Roles /\ i > r /\ \A q \in Roles : q > r => q >= i
<1>0. Roles \subseteq 0..8 /\ 8 \in Roles /\ r \in 0..8 /\ r < 8
  BY RolesAssumption DEF PullRequest
<1>1. \E i \in Roles : Least(i)
  <2>. SUFFICES ASSUME \A i \in Roles : ~Least(i)
                PROVE  FALSE
    OBVIOUS
  <2>1. ~(1 \in Roles /\ 1 > r)
    BY <1>0
  <2>2. ~(2 \in Roles /\ 2 > r)
    BY <1>0, <2>1
  <2>3. ~(3 \in Roles /\ 3 > r)
    BY <1>0, <2>1, <2>2
  <2>4. ~(4 \in Roles /\ 4 > r)
    BY <1>0, <2>1, <2>2, <2>3
  <2>5. ~(5 \in Roles /\ 5 > r)
    BY <1>0, <2>1, <2>2, <2>3, <2>4
  <2>6. ~(6 \in Roles /\ 6 > r)
    BY <1>0, <2>1, <2>2, <2>3, <2>4, <2>5
  <2>7. ~(7 \in Roles /\ 7 > r)
    BY <1>0, <2>1, <2>2, <2>3, <2>4, <2>5, <2>6
  <2>. QED  BY <1>0, <2>1, <2>2, <2>3, <2>4, <2>5, <2>6, <2>7
<1>2. NextRole(r) \in Roles /\ NextRole(r) > r
  <2>. DEFINE next == CHOOSE i \in Roles : Least(i)
  <2>1. next \in Roles /\ Least(next)
    BY <1>1
  <2>2. next = NextRole(r)
    BY DEF NextRole
  <2>. QED  BY <2>1, <2>2
<1>. QED  BY <1>0, <1>2

(* A reduction changes nothing but what is no longer of the run. *)
Agreeing(q, r) ==
    /\ q.phase = r.phase /\ q.status = r.status /\ q.generation = r.generation
    /\ q.contract = r.contract /\ q.candidate = r.candidate /\ q.evidence = r.evidence
    /\ q.finding = r.finding /\ q.pin = r.pin /\ q.stop = r.stop /\ q.round = r.round

LEMMA NormalisedRun ==
    ASSUME NEW r \in RunRecords
    PROVE  /\ Normalised(r) \in RunRecords
           /\ Agreeing(Normalised(r), r)
           /\ Normalised(r).proof # None => Normalised(r).proof = r.proof /\ r.proof = Outcome(r)
BY ZenonT(40) DEF Normalised, RunRecords, Agreeing, Outcome

(* No call has nothing to stand on and needs nothing. *)
Resting(c) == c.kind = "none"

LEMMA RestingStands ==
    ASSUME NEW c, Resting(c), NEW r, NEW drifts, NEW agreements, NEW gate
    PROVE  Stands(c, r, drifts, agreements, gate)
BY DEF Resting, Stands, ArgFits, PlanStands, AgreementStands, AttemptStands

(* A pause lasts until another generation writes. *)
Lasts(q, r) ==
    /\ r.generation >= q.generation
    /\ q.status = "paused" /\ r.generation = q.generation => r.status = "paused"

(* One that is out of date on its way to a provider needs no more. *)
Overdue(c) == [c EXCEPT !.fresh = FALSE]

LEMMA OverdueStands ==
    ASSUME NEW c \in CallRecords, c.kind = "attempt", c.at \in {"submitted", "checked"},
           NEW q \in RunRecords, NEW r \in RunRecords, AttemptStands(c, q), Lasts(q, r),
           NEW drifts, NEW agreements, NEW gate
    PROVE  Overdue(c) \in CallRecords /\ Stands(Overdue(c), r, drifts, agreements, gate)
<1>. DEFINE d == Overdue(c)
<1>1. d \in CallRecords /\ d.kind = "attempt" /\ d.at = c.at /\ d.arg = c.arg /\ d.fresh = FALSE
  BY DEF Overdue, CallRecords
<1>. HIDE DEF d
<1>2. c.arg \in Nat /\ c.arg <= q.generation /\ (q.status = "paused" \/ q.generation > c.arg)
  BY DEF AttemptStands
<1>3. q.generation \in Nat /\ r.generation \in Nat
  BY DEF RunRecords
<1>4. c.arg <= r.generation /\ (r.status = "paused" \/ r.generation > c.arg)
  BY <1>2, <1>3 DEF Lasts
<1>5. AttemptStands(d, r)
  BY <1>1, <1>2, <1>4 DEF AttemptStands
<1>6. Stands(d, r, drifts, agreements, gate)
  BY <1>1, <1>5 DEF Stands, ArgFits, PlanStands, AgreementStands
<1>. QED  BY <1>1, <1>6 DEF d

(* What stands stands on more. *)
LEMMA StandsOn ==
    ASSUME NEW c, NEW r, NEW gate, NEW drifts, NEW agreements,
           NEW more, NEW others, drifts \subseteq more, agreements \subseteq others,
           Stands(c, r, drifts, agreements, gate)
    PROVE  Stands(c, r, more, others, gate)
BY DEF Stands, PlanStands, AgreementStands

LEMMA QuietRests == Quiet \in CallRecords /\ Resting(Quiet)
BY DEF Quiet, CallRecords, Places, Resting

(* An append keeps the invariant if what is appended is as it should be    *)
(* and the one who appends has what it goes on with.                       *)
LEMMA Appending ==
    ASSUME RunInv, NEW d \in Agents, NEW next \in CallRecords, NEW state \in RunRecords,
           AppendEvent(d, next, state), Surroundings',
           Rounds(state), Sound(state, ran', assured'), Lasts(run, state),
           Stands(next, run', resolved', agreed', gated')
    PROVE  RunInv'
<1>1. /\ run' = Normalised(state)
      /\ call' = [e \in Agents |-> IF e = d THEN next
                                   ELSE IF ToProvider(e) THEN Overdue(call[e]) ELSE Quiet]
  BY DEF AppendEvent, Overdue
<1>2. /\ run' \in RunRecords /\ Agreeing(run', state)
      /\ run'.proof # None => run'.proof = state.proof /\ state.proof = Outcome(state)
  BY <1>1, NormalisedRun
<1>3. Rounds(run')
  BY <1>2 DEF Agreeing, Rounds
<1>4. Sound(run', ran', assured') /\ Tied(run')
  BY <1>2 DEF Agreeing, Sound, Tied, Outcome
<1>5. call \in [Agents -> CallRecords]
  BY DEF RunInv
<1>6. \A e \in Agents \ {d} :
          call'[e] \in CallRecords /\ Stands(call'[e], run', resolved', agreed', gated')
  <2>. SUFFICES ASSUME NEW e \in Agents \ {d}
                PROVE  call'[e] \in CallRecords /\ Stands(call'[e], run', resolved', agreed', gated')
    OBVIOUS
  <2>1. CASE ToProvider(e)
    <3>1. /\ call[e] \in CallRecords /\ call[e].kind = "attempt" /\ call[e].at \in {"submitted", "checked"}
          /\ AttemptStands(call[e], run) /\ run \in RunRecords
      BY <1>5, <2>1 DEF ToProvider, Doing, RunInv, CallsStand, Stands
    <3>2. Lasts(run, run')
      BY <1>2 DEF Agreeing, Lasts
    <3>3. call'[e] = Overdue(call[e])
      BY <1>1, <2>1
    <3>. QED  BY <1>2, <3>1, <3>2, <3>3, OverdueStands
  <2>2. CASE ~ToProvider(e)
    BY <1>1, <2>2, QuietRests, RestingStands
  <2>. QED  BY <2>1, <2>2
<1>7. call'[d] = next
  BY <1>1
<1>8. call' \in [Agents -> CallRecords]
  BY <1>1, <1>6, <1>7
<1>9. CallsStand'
  <2>. SUFFICES ASSUME NEW e \in Agents
                PROVE  Stands(call'[e], run', resolved', agreed', gated')
    BY DEF CallsStand
  <2>. QED  BY <1>6, <1>7
<1>. QED  BY <1>2, <1>3, <1>4, <1>8, <1>9 DEF RunInv

(* A step of a call that appends nothing. *)
LEMMA Proceeding ==
    ASSUME RunInv, NEW d \in Agents, NEW next \in CallRecords, call' = [call EXCEPT ![d] = next],
           UNCHANGED <<run, ran, gated, assured>>, Surroundings',
           resolved \subseteq resolved', agreed \subseteq agreed',
           Stands(next, run, resolved', agreed', gated)
    PROVE  RunInv'
<1>1. call' \in [Agents -> CallRecords]
  BY DEF RunInv
<1>2. CallsStand'
  <2>. SUFFICES ASSUME NEW e \in Agents
                PROVE  Stands(call'[e], run, resolved', agreed', gated)
    BY DEF CallsStand
  <2>1. CASE e = d
    BY <2>1 DEF RunInv
  <2>2. CASE e # d
    <3>1. Stands(call[e], run, resolved, agreed, gated) /\ call'[e] = call[e]
      BY <2>2 DEF RunInv, CallsStand
    <3>. QED  BY <3>1, StandsOn
  <2>. QED  BY <2>1, <2>2
<1>. QED  BY <1>1, <1>2 DEF RunInv
-----------------------------------------------------------------------------
(* Every action keeps the invariant.  Those that append, first. *)
LEMMA RunInit == Init => RunInv
<1>. SUFFICES ASSUME Init PROVE RunInv
  OBVIOUS
<1>1. Surroundings
  BY DEF Init, Surroundings
<1>2. run \in RunRecords /\ Rounds(run) /\ Sound(run, ran, assured) /\ Tied(run)
  BY RolesAssumption DEF Init, RunRecords, Rounds, Sound, Tied
<1>3. call \in [Agents -> CallRecords] /\ CallsStand
  BY QuietRests, RestingStands DEF Init, CallsStand
<1>. QED  BY <1>1, <1>2, <1>3 DEF RunInv

(* An append that ends its call and leaves history alone. *)
LEMMA AppendingLast ==
    ASSUME RunInv, NEW d \in Agents, NEW state \in RunRecords, AppendEvent(d, Quiet, state),
           Surroundings', ran \subseteq ran', assured' = assured,
           Rounds(state), Sound(state, ran', assured), Lasts(run, state)
    PROVE  RunInv'
<1>1. Stands(Quiet, run', resolved', agreed', gated')
  BY QuietRests, RestingStands
<1>. QED  BY <1>1, QuietRests, Appending

LEMMA RecordCandidateInv ==
    ASSUME RunInv, NEW d \in Agents, NEW c \in Candidates, RecordCandidate(d, c)
    PROVE  RunInv'
<1>. DEFINE state == [run EXCEPT !.candidate = c, !.evidence = {}]
<1>1. state \in RunRecords /\ Rounds(state) /\ Sound(state, ran, assured) /\ Lasts(run, state)
  <2>1. state \in RunRecords /\ Rounds(state) /\ Sound(state, ran, assured)
    BY DEF RunInv, RunRecords, Rounds, Sound, RecordCandidate, Active
  <2>2. run \in RunRecords /\ run.status = "active"
    BY DEF RunInv, RecordCandidate, Active
  <2>3. state.generation = run.generation
    BY <2>2, ZenonT(30) DEF RunRecords
  <2>. QED  BY <2>1, <2>2, <2>3 DEF Lasts, RunRecords
<1>2. AppendEvent(d, Quiet, state) /\ UNCHANGED <<policies, resolved, externals, turns, agreed, ran>>
  BY DEF RecordCandidate
<1>. QED  BY <1>1, <1>2, AppendingLast DEF RunInv, Surroundings, policies, externals

LEMMA RecordObservationInv ==
    ASSUME RunInv, NEW d \in Agents, NEW v \in Versions, RecordObservation(d, v)
    PROVE  RunInv'
<1>. DEFINE state == [run EXCEPT !.evidence = @ \cup {[of |-> v, phase |-> run.phase, round |-> run.round]}]
<1>1. state \in RunRecords /\ Rounds(state) /\ Sound(state, ran, assured) /\ Lasts(run, state)
  BY DEF RunInv, RunRecords, Observations, Rounds, Sound, RecordObservation, Active, Lasts
<1>2. AppendEvent(d, Quiet, state) /\ UNCHANGED <<policies, resolved, externals, turns, agreed, ran>>
  BY DEF RecordObservation
<1>. QED  BY <1>1, <1>2, AppendingLast DEF RunInv, Surroundings, policies, externals

LEMMA ReturnInv ==
    ASSUME RunInv, NEW d \in Agents, Return(d)
    PROVE  RunInv'
<1>. DEFINE state == [run EXCEPT !.phase = IF @ = Developer THEN Planner ELSE Developer, !.finding = run.round + 1,
                                 !.contract = None, !.round = @ + 1]
<1>1. state \in RunRecords /\ Rounds(state) /\ Sound(state, ran, assured) /\ Lasts(run, state)
  <2>1. run \in RunRecords /\ {Developer, Planner} \subseteq Roles /\ run.round + 1 \in Nat
    BY RolesAssumption DEF RunInv, RunRecords
  <2>2. state \in RunRecords
    BY <2>1 DEF RunRecords
  <2>3. Rounds(state)
    BY <2>1 DEF RunRecords, Rounds
  <2>4. Sound(state, ran, assured)
    BY <2>1 DEF RunRecords, RunInv, Sound, Return, Active
  <2>5. Lasts(run, state)
    BY <2>1 DEF RunRecords, Lasts, Return, Active
  <2>. QED  BY <2>2, <2>3, <2>4, <2>5
<1>2. AppendEvent(d, Quiet, state) /\ UNCHANGED <<policies, resolved, externals, agreed, ran>> /\ turns' = turns + 1
  BY DEF Return, Turn
<1>. QED  BY <1>1, <1>2, AppendingLast DEF RunInv, Surroundings, policies, externals

LEMMA HaltInv ==
    ASSUME RunInv, NEW d \in Agents, Halt(d)
    PROVE  RunInv'
<1>. DEFINE state == [run EXCEPT !.status = "blocked"]
<1>1. state \in RunRecords /\ Rounds(state) /\ Sound(state, ran, assured) /\ Lasts(run, state)
  BY DEF RunInv, RunRecords, Rounds, Sound, Lasts, Halt, Active
<1>2. AppendEvent(d, Quiet, state) /\ UNCHANGED <<policies, resolved, externals, agreed, ran>> /\ turns' = turns + 1
  BY DEF Halt, Turn
<1>. QED  BY <1>1, <1>2, AppendingLast DEF RunInv, Surroundings, policies, externals

LEMMA StopInv ==
    ASSUME RunInv, NEW d \in Agents, Stop(d),
           UNCHANGED <<policies, run, resolved, externals, turns, ran>>,
           agreed \subseteq agreed', agreed' \subseteq Agreements
    PROVE  RunInv'
<1>1. Surroundings'
  BY DEF RunInv, Surroundings, policies, externals
<1>2. Stands(Quiet, run, resolved', agreed', gated)
  BY QuietRests, RestingStands
<1>. QED  BY <1>1, <1>2, QuietRests, Proceeding DEF Stop, policies

LEMMA FreezeInv ==
    ASSUME RunInv, NEW d \in Agents, Freeze(d)
    PROVE  RunInv'
<1>. DEFINE state == [run EXCEPT !.contract = call[d].arg, !.evidence = {}]
<1>1. UNCHANGED <<policies, resolved, externals, turns, agreed, ran>>
  BY DEF Freeze
<1>2. CASE ~Active
  BY <1>1, <1>2, StopInv DEF Freeze, RunInv, Surroundings
<1>3. CASE Active
  <2>1. call[d].arg \in Versions
    BY DEF Freeze, Doing, RunInv, CallsStand, Stands, ArgFits
  <2>2. state \in RunRecords /\ Rounds(state) /\ Sound(state, ran, assured) /\ Lasts(run, state)
    <3>1. state \in RunRecords /\ Rounds(state) /\ Sound(state, ran, assured)
      BY <1>3, <2>1 DEF RunInv, RunRecords, Rounds, Sound, Active
    <3>2. run \in RunRecords /\ run.status = "active"
      BY <1>3 DEF RunInv, Active
    <3>3. state.generation = run.generation
      BY <3>2, ZenonT(30) DEF RunRecords
    <3>. QED  BY <3>1, <3>2, <3>3 DEF Lasts, RunRecords
  <2>3. AppendEvent(d, Quiet, state)
    BY <1>3 DEF Freeze
  <2>. QED  BY <1>1, <2>2, <2>3, AppendingLast DEF RunInv, Surroundings, policies, externals
<1>. QED  BY <1>2, <1>3

LEMMA PinOracleInv ==
    ASSUME RunInv, NEW d \in Agents, PinOracle(d)
    PROVE  RunInv'
<1>. DEFINE state == [run EXCEPT !.pin = call[d].arg, !.package = IF assured THEN call[d].arg ELSE None]
<1>1. UNCHANGED <<policies, resolved, externals, turns, agreed, ran>>
  BY DEF PinOracle
<1>2. CASE ~Active
  BY <1>1, <1>2, StopInv DEF PinOracle, RunInv, Surroundings
<1>3. CASE Active
  <2>1. call[d].arg \in Oracles
    BY DEF PinOracle, Doing, RunInv, CallsStand, Stands, ArgFits
  <2>2. state \in RunRecords /\ Rounds(state) /\ Sound(state, ran, assured)
    BY <1>3, <2>1, ZenonT(30) DEF RunInv, RunRecords, Rounds, Sound, Active
  <2>3. AppendEvent(d, Quiet, state)
    BY <1>3 DEF PinOracle
  <2>4. Lasts(run, state)
    <3>1. run \in RunRecords /\ run.status = "active"
      BY <1>3 DEF RunInv, Active
    <3>2. state.generation = run.generation
      BY <3>1, ZenonT(30) DEF RunRecords
    <3>. QED  BY <3>1, <3>2 DEF Lasts, RunRecords
  <2>. QED  BY <1>1, <2>2, <2>3, <2>4, AppendingLast DEF RunInv, Surroundings, policies, externals
<1>. QED  BY <1>2, <1>3

LEMMA ResolveEscalationInv ==
    ASSUME RunInv, NEW d \in Agents, ResolveEscalation(d)
    PROVE  RunInv'
<1>1. UNCHANGED <<policies, externals, turns, agreed, ran>>
  BY DEF ResolveEscalation
<1>2. CASE run.status = "completed"
  BY <1>1, <1>2, StopInv DEF ResolveEscalation, RunInv, Surroundings
<1>3. CASE run.status # "completed"
  <2>1. call[d].arg \in Drifts
    BY DEF ResolveEscalation, Doing, RunInv, CallsStand, Stands, ArgFits
  <2>2. resolved' = resolved \cup {call[d].arg} /\ AppendEvent(d, Quiet, run)
    BY <1>3 DEF ResolveEscalation
  <2>3. run \in RunRecords /\ Rounds(run) /\ Sound(run, ran, assured) /\ Lasts(run, run)
    BY DEF RunInv, RunRecords, Lasts
  <2>4. Surroundings'
    BY <1>1, <2>1, <2>2 DEF RunInv, Surroundings, policies, externals
  <2>. QED  BY <1>1, <2>2, <2>3, <2>4, AppendingLast DEF policies
<1>. QED  BY <1>2, <1>3

LEMMA ResolveReworkInv ==
    ASSUME RunInv, NEW d \in Agents, NEW v \in Versions, ResolveRework(d, v)
    PROVE  RunInv'
<1>. DEFINE state == [run EXCEPT !.finding = None]
<1>1. state \in RunRecords /\ Rounds(state) /\ Sound(state, ran, assured) /\ Lasts(run, state)
  BY DEF RunInv, RunRecords, Rounds, Sound, Outcome, Lasts
<1>2. AppendEvent(d, Quiet, state) /\ UNCHANGED <<policies, resolved, externals, turns, agreed, ran>>
  BY DEF ResolveRework
<1>. QED  BY <1>1, <1>2, AppendingLast DEF RunInv, Surroundings, policies, externals

LEMMA ReconcileInv ==
    ASSUME RunInv, NEW d \in Agents, Reconcile(d)
    PROVE  RunInv'
<1>. DEFINE state == [run EXCEPT !.stop = "settled"]
<1>1. state \in RunRecords /\ Rounds(state) /\ Sound(state, ran, assured) /\ Lasts(run, state)
  BY DEF RunInv, RunRecords, Rounds, Sound, Reconcile, Lasts
<1>2. AppendEvent(d, Quiet, state) /\ UNCHANGED <<policies, resolved, externals, turns, agreed, ran>>
  BY DEF Reconcile
<1>. QED  BY <1>1, <1>2, AppendingLast DEF RunInv, Surroundings, policies, externals

LEMMA ResumeInv ==
    ASSUME RunInv, NEW d \in Agents, Resume(d)
    PROVE  RunInv'
<1>1. PICK changed \in BOOLEAN :
         AppendEvent(d, Quiet, [run EXCEPT !.generation = @ + 1, !.status = "active",
                                      !.candidate = IF changed THEN None ELSE @, !.evidence = IF changed THEN {} ELSE @])
  BY DEF Resume
<1>. DEFINE state == [run EXCEPT !.generation = @ + 1, !.status = "active",
                                 !.candidate = IF changed THEN None ELSE @, !.evidence = IF changed THEN {} ELSE @]
<1>2. state \in RunRecords /\ Rounds(state) /\ Sound(state, ran, assured) /\ Lasts(run, state)
  <2>1. run \in RunRecords /\ run.generation + 1 \in Nat
    BY DEF RunInv, RunRecords
  <2>2. state \in RunRecords
    BY <2>1, ZenonT(30) DEF RunRecords
  <2>3. Rounds(state) /\ Sound(state, ran, assured)
    BY <2>1 DEF RunRecords, RunInv, Rounds, Sound
  <2>4. Lasts(run, state)
    <3>1. state.generation = run.generation + 1
      BY <2>1, ZenonT(30) DEF RunRecords
    <3>. QED  BY <2>1, <3>1 DEF Lasts, RunRecords
  <2>. QED  BY <2>2, <2>3, <2>4
<1>3. UNCHANGED <<policies, resolved, externals, agreed, ran>> /\ turns' \in {turns, turns + 1}
  BY DEF Resume, Turn
<1>. QED  BY <1>1, <1>2, <1>3, AppendingLast DEF RunInv, Surroundings, policies, externals
(* The steps of an attempt that is refused. *)
LEMMA AppendedRun ==
    ASSUME NEW d, NEW next, NEW state \in RunRecords, AppendEvent(d, next, state)
    PROVE  Agreeing(run', state)
BY NormalisedRun DEF AppendEvent

LEMMA RefuseAttemptInv ==
    ASSUME RunInv, NEW d \in Agents, RefuseAttempt(d)
    PROVE  RunInv'
<1>. DEFINE next == [kind |-> "attempt", at |-> "refused", arg |-> run.generation, fresh |-> TRUE]
<1>1. /\ AppendEvent(d, next, run) /\ UNCHANGED <<policies, resolved, externals, agreed, ran>>
      /\ turns' = turns + 1 /\ run.status = "active"
  BY DEF RefuseAttempt, Turn, Active
<1>2. run \in RunRecords /\ Rounds(run) /\ Sound(run, ran', assured') /\ Lasts(run, run)
  BY <1>1 DEF RunInv, policies, RunRecords, Lasts
<1>3. next \in CallRecords
  BY <1>2 DEF RunRecords, CallRecords, Places
<1>4. Stands(next, run', resolved', agreed', gated')
  <2>1. run'.status = "active" /\ run'.generation = run.generation /\ run.generation \in Nat
    BY <1>1, <1>2, AppendedRun DEF Agreeing, RunRecords
  <2>. QED  BY <2>1 DEF Stands, ArgFits, PlanStands, AgreementStands, AttemptStands
<1>5. Surroundings'
  BY <1>1 DEF RunInv, Surroundings, policies, externals
<1>. QED  BY <1>1, <1>2, <1>3, <1>4, <1>5, Appending

LEMMA PauseAttemptInv ==
    ASSUME RunInv, NEW d \in Agents, PauseAttempt(d)
    PROVE  RunInv'
<1>. DEFINE next == [call[d] EXCEPT !.at = "paused"]
            state == [run EXCEPT !.status = "paused"]
<1>1. /\ Doing(d, "attempt", "refused") /\ AppendEvent(d, next, state)
      /\ UNCHANGED <<policies, resolved, externals, turns, agreed, ran>>
  BY DEF PauseAttempt, AttemptStep
<1>2. /\ call[d] \in CallRecords /\ call[d].fresh
      /\ call[d].arg \in Nat /\ call[d].arg = run.generation
  BY <1>1 DEF RunInv, CallsStand, Stands, AttemptStands, Doing
<1>3. state \in RunRecords /\ Rounds(state) /\ Sound(state, ran', assured') /\ Lasts(run, state)
  BY <1>1 DEF RunInv, RunRecords, Rounds, Sound, policies, Lasts
<1>4. next \in CallRecords
  BY <1>2 DEF CallRecords, Places
<1>5. Stands(next, run', resolved', agreed', gated')
  <2>1. run'.status = "paused" /\ run'.generation = run.generation
    BY <1>1, <1>3, AppendedRun DEF Agreeing, RunInv, RunRecords
  <2>. QED  BY <1>1, <1>2, <2>1 DEF Doing, CallRecords, Stands, ArgFits, PlanStands, AgreementStands, AttemptStands
<1>6. Surroundings'
  BY <1>1 DEF RunInv, Surroundings, policies, externals
<1>. QED  BY <1>1, <1>3, <1>4, <1>5, <1>6, Appending

LEMMA PlanStopInv ==
    ASSUME RunInv, NEW d \in Agents, PlanStop(d)
    PROVE  RunInv'
<1>. DEFINE next == [call[d] EXCEPT !.at = "planned"]
            state == [run EXCEPT !.stop = "planned"]
<1>1. /\ Doing(d, "attempt", "paused") /\ AppendEvent(d, next, state)
      /\ UNCHANGED <<policies, resolved, externals, turns, agreed, ran>>
  BY DEF PlanStop, AttemptStep
<1>2. /\ call[d] \in CallRecords /\ run.status = "paused" /\ call[d].fresh
      /\ call[d].arg \in Nat /\ call[d].arg = run.generation
  BY <1>1 DEF RunInv, CallsStand, Stands, AttemptStands, Doing
<1>3. state \in RunRecords /\ Rounds(state) /\ Sound(state, ran', assured') /\ Lasts(run, state)
  BY <1>1, <1>2 DEF RunInv, RunRecords, Rounds, Sound, policies, Lasts
<1>4. next \in CallRecords
  BY <1>2 DEF CallRecords, Places
<1>5. Stands(next, run', resolved', agreed', gated')
  <2>1. run'.status = "paused" /\ run'.generation = run.generation
    BY <1>1, <1>2, <1>3, AppendedRun DEF Agreeing, RunInv, RunRecords
  <2>. QED  BY <1>1, <1>2, <2>1 DEF Doing, CallRecords, Stands, ArgFits, PlanStands, AgreementStands, AttemptStands
<1>6. Surroundings'
  BY <1>1 DEF RunInv, Surroundings, policies, externals
<1>. QED  BY <1>1, <1>3, <1>4, <1>5, <1>6, Appending

LEMMA SubmitStopInv ==
    ASSUME RunInv, NEW d \in Agents, SubmitStop(d)
    PROVE  RunInv'
<1>. DEFINE next == [call[d] EXCEPT !.at = "submitted"]
            state == [run EXCEPT !.stop = "submitted"]
<1>1. /\ Doing(d, "attempt", "planned") /\ AppendEvent(d, next, state)
      /\ UNCHANGED <<policies, resolved, externals, turns, agreed, ran>>
  BY DEF SubmitStop, AttemptStep
<1>2. /\ call[d] \in CallRecords /\ run.status = "paused" /\ call[d].fresh
      /\ call[d].arg \in Nat /\ call[d].arg = run.generation
  BY <1>1 DEF RunInv, CallsStand, Stands, AttemptStands, Doing
<1>3. state \in RunRecords /\ Rounds(state) /\ Sound(state, ran', assured') /\ Lasts(run, state)
  BY <1>1, <1>2 DEF RunInv, RunRecords, Rounds, Sound, policies, Lasts
<1>4. next \in CallRecords
  BY <1>2 DEF CallRecords, Places
<1>5. Stands(next, run', resolved', agreed', gated')
  <2>1. run'.status = "paused" /\ run'.stop = "submitted" /\ run'.generation = run.generation
    BY <1>1, <1>2, <1>3, AppendedRun DEF Agreeing, RunInv, RunRecords
  <2>. QED  BY <1>1, <1>2, <2>1 DEF Doing, CallRecords, Stands, ArgFits, PlanStands, AgreementStands, AttemptStands
<1>6. Surroundings'
  BY <1>1 DEF RunInv, Surroundings, policies, externals
<1>. QED  BY <1>1, <1>3, <1>4, <1>5, <1>6, Appending

LEMMA RecordStopInv ==
    ASSUME RunInv, NEW d \in Agents, RecordStop(d)
    PROVE  RunInv'
<1>1. UNCHANGED <<policies, resolved, externals, turns, agreed, ran>>
  BY DEF RecordStop
<1>2. CASE ~call[d].fresh
  BY <1>1, <1>2, StopInv DEF RecordStop, RunInv, Surroundings
<1>3. CASE call[d].fresh
  <2>1. PICK outcome \in {"settled", "unknown"} : AppendEvent(d, Quiet, [run EXCEPT !.stop = outcome])
    BY <1>3 DEF RecordStop
  <2>. DEFINE state == [run EXCEPT !.stop = outcome]
  <2>2. run.status = "paused"
    BY <1>3 DEF RecordStop, RunInv, CallsStand, Stands, AttemptStands, Doing
  <2>3. state \in RunRecords /\ Rounds(state) /\ Sound(state, ran, assured) /\ Lasts(run, state)
    BY <2>2 DEF RunInv, RunRecords, Rounds, Sound, Lasts
  <2>. QED  BY <1>1, <2>1, <2>3, AppendingLast DEF RunInv, Surroundings, policies, externals
<1>. QED  BY <1>2, <1>3

LEMMA AdvanceInv ==
    ASSUME RunInv, NEW d \in Agents, Advance(d)
    PROVE  RunInv'
<1>1. /\ Doing(d, "advance", "accepted") /\ UNCHANGED <<policies, resolved, externals, turns>>
      /\ agreed' = IF run' = run THEN agreed ELSE {}
  BY DEF Advance
<1>2. CASE Stop(d) /\ UNCHANGED <<run, ran>>
  BY <1>1, <1>2, StopInv DEF RunInv, Surroundings
<1>3. CASE ~(Stop(d) /\ UNCHANGED <<run, ran>>)
  <2>. DEFINE tested == assured /\ run.phase \in {Developer, Tester}
              state == Advanced(call[d].arg)
  <2>1. /\ Active /\ (assured /\ run.phase = PullRequest => run.proof # None)
        /\ AppendEvent(d, Quiet, state)
        /\ ran' = IF tested THEN ran \cup {Outcome(run)} ELSE ran
    BY <1>3 DEF Advance, Outcome
  <2>2. run \in RunRecords /\ Rounds(run) /\ Sound(run, ran, assured) /\ Tied(run)
    BY DEF RunInv
  <2>3. Outcome(run) \in Passed
    BY <2>2 DEF RunRecords, Outcome, Passed
  <2>4. state \in RunRecords
    BY <2>2, <2>3, NextRoleExists, ZenonT(30) DEF Advanced, RunRecords, Outcome
  <2>5. Rounds(state)
    BY <2>2 DEF Advanced, RunRecords, Rounds
  <2>6. Sound(state, ran', assured)
    <3>1. CASE run.phase = PullRequest
      <4>1. state = [run EXCEPT !.status = "completed"]
        BY <3>1 DEF Advanced
      <4>2. assured => Outcome(run) \in ran
        BY <2>1, <2>2, <3>1 DEF Sound, Tied
      <4>. QED  BY <2>1, <2>2, <4>1, <4>2 DEF RunRecords, Sound, Outcome
    <3>2. CASE run.phase # PullRequest
      BY <2>1, <2>2, <3>2 DEF Advanced, RunRecords, Sound, Outcome, Active
    <3>. QED  BY <3>1, <3>2
  <2>7. Surroundings' /\ ran \subseteq ran'
    BY <1>1, <2>1, <2>3 DEF RunInv, Surroundings, policies, externals
  <2>8. Lasts(run, state)
    <3>1. run.status = "active" /\ state.generation = run.generation
      BY <2>1, <2>2, ZenonT(30) DEF Active, Advanced, RunRecords
    <3>. QED  BY <2>2, <3>1 DEF Lasts, RunRecords
  <2>. QED  BY <1>1, <2>1, <2>4, <2>5, <2>6, <2>7, <2>8, AppendingLast DEF policies
<1>. QED  BY <1>2, <1>3
(* Those that append nothing. *)
LEMMA BeginInv ==
    ASSUME RunInv, NEW d \in Agents, NEW kind, NEW place, NEW arg, Begin(d, kind, place, arg),
           UNCHANGED <<policies, run, resolved, externals, turns, agreed, ran>>,
           [kind |-> kind, at |-> place, arg |-> arg, fresh |-> TRUE] \in CallRecords,
           Stands([kind |-> kind, at |-> place, arg |-> arg, fresh |-> TRUE], run, resolved, agreed, gated)
    PROVE  RunInv'
<1>1. Surroundings'
  BY DEF RunInv, Surroundings, policies, externals
<1>. QED  BY <1>1, Proceeding DEF Begin, policies

LEMMA StartFreezeInv ==
    ASSUME RunInv, NEW d \in Agents, StartFreeze(d)
    PROVE  RunInv'
<1>. DEFINE next == [kind |-> "freeze", at |-> "read", arg |-> source, fresh |-> TRUE]
<1>1. next \in CallRecords /\ Stands(next, run, resolved, agreed, gated)
  BY DEF RunInv, Surroundings, CallRecords, Places, Stands, ArgFits, PlanStands, AgreementStands, AttemptStands
<1>. QED  BY <1>1, BeginInv DEF StartFreeze

LEMMA StartPinInv ==
    ASSUME RunInv, NEW d \in Agents, StartPin(d)
    PROVE  RunInv'
<1>. DEFINE next == [kind |-> "pin", at |-> "read", arg |-> oracle, fresh |-> TRUE]
<1>1. next \in CallRecords /\ Stands(next, run, resolved, agreed, gated)
  BY DEF RunInv, Surroundings, CallRecords, Places, Stands, ArgFits, PlanStands, AgreementStands, AttemptStands
<1>. QED  BY <1>1, BeginInv DEF StartPin

LEMMA StartResolveInv ==
    ASSUME RunInv, NEW d \in Agents, NEW v \in Versions, StartResolve(d, v)
    PROVE  RunInv'
<1>. DEFINE next == [kind |-> "resolve", at |-> "asked", arg |-> Drift(v), fresh |-> TRUE]
<1>1. Drift(v) \in Drifts
  BY DEF StartResolve, Drift, Drifts, RunInv, RunRecords, Surroundings
<1>2. next \in CallRecords /\ Stands(next, run, resolved, agreed, gated)
  BY <1>1 DEF CallRecords, Places, Stands, ArgFits, PlanStands, AgreementStands, AttemptStands
<1>. QED  BY <1>2, BeginInv DEF StartResolve

LEMMA StartAdvanceInv ==
    ASSUME RunInv, NEW d \in Agents, NEW v \in Versions, StartAdvance(d, v)
    PROVE  RunInv'
<1>. DEFINE place == IF run.phase = PullRequest /\ gated THEN "gate" ELSE "verify"
            next == [kind |-> "advance", at |-> place, arg |-> v, fresh |-> TRUE]
<1>1. next \in CallRecords
  BY DEF CallRecords, Places
<1>2. Stands(next, run, resolved, agreed, gated)
  BY DEF StartAdvance, Stands, ArgFits, PlanStands, AgreementStands, AttemptStands
<1>3. Begin(d, "advance", place, v) /\ UNCHANGED <<policies, run, resolved, externals, turns, agreed, ran>>
  BY DEF StartAdvance
<1>. QED  BY <1>1, <1>2, <1>3, BeginInv

(* A call goes on to another place. *)
LEMMA GoInv ==
    ASSUME RunInv, NEW d \in Agents, NEW place \in Places, Go(d, place),
           UNCHANGED <<policies, run, resolved, externals, turns, ran>>,
           agreed \subseteq agreed', agreed' \subseteq Agreements,
           Stands([call[d] EXCEPT !.at = place], run, resolved, agreed', gated)
    PROVE  RunInv'
<1>1. call[d] \in CallRecords
  BY DEF RunInv
<1>2. [call[d] EXCEPT !.at = place] \in CallRecords
  BY <1>1 DEF CallRecords
<1>3. call' = [call EXCEPT ![d] = [call[d] EXCEPT !.at = place]]
  BY DEF Go
<1>4. Surroundings'
  BY DEF RunInv, Surroundings, policies, externals
<1>. QED  BY <1>2, <1>3, <1>4, Proceeding DEF policies

LEMMA AcceptReleaseInv ==
    ASSUME RunInv, NEW d \in Agents, AcceptRelease(d)
    PROVE  RunInv'
<1>. DEFINE agreement == [candidate |-> run.candidate, contract |-> run.contract, plan |-> call[d].arg]
            next == [call[d] EXCEPT !.at = "verify"]
<1>1. /\ call[d].kind = "advance" /\ call[d].at = "gate" /\ call[d] \in CallRecords
      /\ Stands(call[d], run, resolved, agreed, gated)
      /\ UNCHANGED <<policies, run, resolved, externals, turns, ran>>
  BY DEF AcceptRelease, Doing, RunInv, CallsStand
<1>2. agreement \in Agreements
  BY <1>1 DEF Stands, ArgFits, Agreements, RunInv, RunRecords
<1>3. CASE Stop(d) /\ UNCHANGED agreed
  BY <1>1, <1>3, StopInv DEF RunInv, Surroundings
<1>4. CASE agreed' = agreed \cup {agreement} /\ Go(d, "verify")
  <2>1. Stands(next, run, resolved, agreed', gated)
    BY <1>1, <1>4 DEF CallRecords, Stands, ArgFits, PlanStands, AgreementStands, AttemptStands
  <2>2. agreed \subseteq agreed' /\ agreed' \subseteq Agreements
    BY <1>2, <1>4 DEF RunInv, Surroundings
  <2>3. "verify" \in Places
    BY DEF Places
  <2>. QED  BY <1>1, <1>4, <2>1, <2>2, <2>3, GoInv
<1>. QED  BY <1>3, <1>4 DEF AcceptRelease

LEMMA VerifyInv ==
    ASSUME RunInv, NEW d \in Agents, Verify(d)
    PROVE  RunInv'
<1>. DEFINE place == IF run.phase = 0 THEN "consent" ELSE "accepted"
            next == [call[d] EXCEPT !.at = place]
<1>1. /\ call[d].kind = "advance" /\ call[d].at = "verify" /\ call[d] \in CallRecords
      /\ Stands(call[d], run, resolved, agreed, gated)
      /\ UNCHANGED <<policies, run, resolved, externals, turns, agreed, ran>>
  BY DEF Verify, Doing, RunInv, CallsStand
<1>2. CASE Stop(d)
  BY <1>1, <1>2, StopInv DEF RunInv, Surroundings
<1>3. CASE Passes(call[d].arg) /\ Go(d, place)
  <2>1. run.contract # None
    BY <1>3 DEF Passes
  <2>2. call[d].arg = run.contract \/ \E o \in resolved : o.from = run.contract
    BY <1>3 DEF Passes, Drifted, Drift
  <2>3. next.kind = "advance" /\ next.arg = call[d].arg /\ next.at = place
    BY <1>1 DEF CallRecords
  <2>. HIDE DEF next, place
  <2>4. place \in Places /\ (place = "consent" => run.phase = 0) /\ (place = "accepted" => run.phase # 0)
        /\ place \in {"consent", "accepted"}
    BY DEF place, Places
  <2>5. ArgFits(next) /\ AttemptStands(next, run)
    BY <1>1, <2>3 DEF Stands, ArgFits, AttemptStands
  <2>6. PlanStands(next, run, resolved, gated)
    BY <1>1, <2>1, <2>2, <2>3, <2>4 DEF Stands, PlanStands
  <2>7. AgreementStands(next, run, agreed, gated)
    BY <1>1, <2>3, <2>4 DEF Stands, AgreementStands
  <2>8. Stands(next, run, resolved, agreed', gated)
    BY <1>1, <2>5, <2>6, <2>7 DEF Stands
  <2>9. agreed \subseteq agreed' /\ agreed' \subseteq Agreements
    BY <1>1 DEF RunInv, Surroundings
  <2>. QED  BY <1>1, <1>3, <2>4, <2>8, <2>9, GoInv DEF next
<1>. QED  BY <1>2, <1>3 DEF Verify

LEMMA ConsentToIntentInv ==
    ASSUME RunInv, NEW d \in Agents, ConsentToIntent(d)
    PROVE  RunInv'
<1>. DEFINE agreement == [candidate |-> None, contract |-> run.contract, plan |-> call[d].arg]
            next == [call[d] EXCEPT !.at = "accepted"]
<1>1. /\ call[d].kind = "advance" /\ call[d].at = "consent" /\ call[d] \in CallRecords
      /\ Stands(call[d], run, resolved, agreed, gated)
      /\ agreed' = agreed \cup {agreement}
      /\ UNCHANGED <<policies, run, resolved, externals, turns, ran>>
  BY DEF ConsentToIntent, Doing, RunInv, CallsStand
<1>2. agreement \in Agreements
  BY <1>1 DEF Stands, ArgFits, Agreements, RunInv, RunRecords
<1>3. agreed \subseteq agreed' /\ agreed' \subseteq Agreements
  BY <1>1, <1>2 DEF RunInv, Surroundings
<1>4. CASE Stop(d)
  BY <1>1, <1>3, <1>4, StopInv
<1>5. CASE Go(d, "accepted")
  <2>1. next.kind = "advance" /\ next.arg = call[d].arg /\ next.at = "accepted" /\ run.phase = 0
    BY <1>1 DEF CallRecords, Stands, PlanStands
  <2>. HIDE DEF next
  <2>2. Stands(next, run, resolved, agreed', gated)
    BY <1>1, <2>1 DEF Stands, ArgFits, PlanStands, AgreementStands, AttemptStands, PullRequest
  <2>3. "accepted" \in Places
    BY DEF Places
  <2>. QED  BY <1>1, <1>3, <1>5, <2>2, <2>3, GoInv DEF next
<1>. QED  BY <1>4, <1>5 DEF ConsentToIntent

LEMMA ReadAgainInv ==
    ASSUME RunInv, NEW d \in Agents, ReadAgain(d)
    PROVE  RunInv'
<1>. DEFINE next == [call[d] EXCEPT !.at = "checked"]
<1>1. /\ call[d].kind = "attempt" /\ call[d].at = "submitted" /\ call[d] \in CallRecords
      /\ Stands(call[d], run, resolved, agreed, gated)
      /\ UNCHANGED <<policies, run, resolved, externals, turns, agreed, ran>>
  BY DEF ReadAgain, Doing, RunInv, CallsStand
<1>2. CASE Stop(d)
  BY <1>1, <1>2, StopInv DEF RunInv, Surroundings
<1>3. CASE call[d].fresh /\ Go(d, "checked")
  <2>1. Stands(next, run, resolved, agreed', gated)
    BY <1>1, <1>3 DEF CallRecords, Stands, ArgFits, PlanStands, AgreementStands, AttemptStands
  <2>2. "checked" \in Places /\ agreed \subseteq agreed' /\ agreed' \subseteq Agreements
    BY <1>1 DEF Places, RunInv, Surroundings
  <2>. QED  BY <1>1, <1>3, <2>1, <2>2, GoInv
<1>. QED  BY <1>2, <1>3 DEF ReadAgain

LEMMA AskToStopInv ==
    ASSUME RunInv, NEW d \in Agents, AskToStop(d)
    PROVE  RunInv'
<1>. DEFINE next == [call[d] EXCEPT !.at = "asked"]
<1>1. /\ call[d].kind = "attempt" /\ call[d].at = "checked" /\ call[d] \in CallRecords
      /\ Stands(call[d], run, resolved, agreed, gated) /\ Go(d, "asked")
      /\ UNCHANGED <<policies, run, resolved, externals, turns, agreed, ran>>
  BY DEF AskToStop, Doing, RunInv, CallsStand
<1>2. Stands(next, run, resolved, agreed', gated)
  BY <1>1 DEF CallRecords, Stands, ArgFits, PlanStands, AgreementStands, AttemptStands
<1>3. "asked" \in Places /\ agreed \subseteq agreed' /\ agreed' \subseteq Agreements
  BY <1>1 DEF Places, RunInv, Surroundings
<1>. QED  BY <1>1, <1>2, <1>3, GoInv

LEMMA EndCallInv ==
    ASSUME RunInv, NEW d \in Agents, EndCall(d)
    PROVE  RunInv'
BY StopInv DEF EndCall, RunInv, Surroundings

LEMMA EditInv ==
    ASSUME RunInv, EditSource \/ EditOracle
    PROVE  RunInv'
BY DEF RunInv, Surroundings, CallsStand, EditSource, EditOracle, Turn, policies

LEMMA RunStep == RunInv /\ [Next]_vars => RunInv'
<1>. SUFFICES ASSUME RunInv, [Next]_vars PROVE RunInv'
  OBVIOUS
<1>1. CASE UNCHANGED vars
  BY <1>1 DEF RunInv, Surroundings, CallsStand, vars, policies, externals
<1>2. ASSUME NEW d \in Agents, NEW c \in Candidates, RecordCandidate(d, c) PROVE RunInv'
  BY <1>2, RecordCandidateInv
<1>3. ASSUME NEW d \in Agents, NEW v \in Versions,
             \/ RecordObservation(d, v) \/ StartResolve(d, v) \/ StartAdvance(d, v) \/ ResolveRework(d, v)
      PROVE  RunInv'
  BY <1>3, RecordObservationInv, StartResolveInv, StartAdvanceInv, ResolveReworkInv
<1>4. ASSUME NEW d \in Agents,
             \/ Return(d) \/ Halt(d) \/ StartFreeze(d) \/ Freeze(d) \/ StartPin(d) \/ PinOracle(d)
             \/ ResolveEscalation(d) \/ AcceptRelease(d) \/ Verify(d) \/ ConsentToIntent(d) \/ Advance(d)
      PROVE  RunInv'
  BY <1>4, ReturnInv, HaltInv, StartFreezeInv, FreezeInv, StartPinInv, PinOracleInv, ResolveEscalationInv,
     AcceptReleaseInv, VerifyInv, ConsentToIntentInv, AdvanceInv
<1>5. ASSUME NEW d \in Agents,
             \/ RefuseAttempt(d) \/ PauseAttempt(d) \/ PlanStop(d) \/ SubmitStop(d)
             \/ ReadAgain(d) \/ AskToStop(d) \/ RecordStop(d) \/ Reconcile(d) \/ Resume(d) \/ EndCall(d)
      PROVE  RunInv'
  BY <1>5, RefuseAttemptInv, PauseAttemptInv, PlanStopInv, SubmitStopInv, ReadAgainInv, AskToStopInv, RecordStopInv,
     ReconcileInv, ResumeInv, EndCallInv
<1>6. CASE EditSource \/ EditOracle
  BY <1>6, EditInv
<1>. QED  BY <1>1, <1>2, <1>3, <1>4, <1>5, <1>6 DEF Next
-----------------------------------------------------------------------------
(* What a step of the run decides. *)

(* Some of what is appended, as records. *)
LEMMA PinnedRun ==
    ASSUME NEW r \in RunRecords, NEW o \in Oracles, NEW p \in Oracles \cup {None}
    PROVE  LET q == [r EXCEPT !.pin = o, !.package = p] IN q \in RunRecords /\ q.finding = r.finding
BY DEF RunRecords

LEMMA ResumedRun ==
    ASSUME NEW r \in RunRecords, NEW changed \in BOOLEAN
    PROVE  LET q == [r EXCEPT !.generation = @ + 1, !.status = "active",
                              !.candidate = IF changed THEN None ELSE @, !.evidence = IF changed THEN {} ELSE @]
           IN q \in RunRecords /\ q.finding = r.finding
<1>. r.generation + 1 \in Nat
  BY DEF RunRecords
<1>. QED  BY ZenonT(40) DEF RunRecords

LEMMA AdvancedRun ==
    ASSUME run \in RunRecords, NEW v
    PROVE  Advanced(v) \in RunRecords /\ Advanced(v).finding = run.finding
<1>1. Outcome(run) \in Passed
  BY DEF RunRecords, Outcome, Passed
<1>. QED  BY <1>1, NextRoleExists, ZenonT(30) DEF Advanced, RunRecords, Outcome

(* Only evidence settles a finding: all other appends keep it. *)
LEMMA FindingSettled ==
    ASSUME RunInv, Next, run.finding # None, run'.finding = None
    PROVE  \E o \in run.evidence : o.round >= run.finding
<1>. run \in RunRecords /\ Rounds(run)
  BY DEF RunInv
<1>1. ASSUME NEW d \in Agents, NEW next, NEW state \in RunRecords, AppendEvent(d, next, state), state.finding = run.finding
      PROVE  FALSE
  BY <1>1, AppendedRun DEF Agreeing
<1>2. ASSUME NEW d \in Agents, NEW v \in Versions, ResolveRework(d, v)
      PROVE  \E o \in run.evidence : o.round >= run.finding
  <2>1. run.contract # None /\ \E o \in run.evidence : o.of = v
    BY <1>2 DEF ResolveRework, Passes
  <2>. QED  BY <2>1 DEF Rounds, RunRecords, Observations
<1>3. ASSUME NEW d \in Agents, NEW c \in Candidates, RecordCandidate(d, c)
      PROVE  FALSE
  <2>. DEFINE state == [run EXCEPT !.candidate = c, !.evidence = {}]
  <2>1. state \in RunRecords /\ state.finding = run.finding /\ AppendEvent(d, Quiet, state)
    BY <1>3 DEF RunRecords, RecordCandidate
  <2>. QED  BY <2>1, <1>1
<1>4. ASSUME NEW d \in Agents, NEW v \in Versions, RecordObservation(d, v)
      PROVE  FALSE
  <2>. DEFINE state == [run EXCEPT !.evidence = @ \cup {[of |-> v, phase |-> run.phase, round |-> run.round]}]
  <2>1. state \in RunRecords /\ state.finding = run.finding /\ AppendEvent(d, Quiet, state)
    BY <1>4 DEF RunRecords, Observations, RecordObservation
  <2>. QED  BY <2>1, <1>1
<1>5. ASSUME NEW d \in Agents, Halt(d)
      PROVE  FALSE
  <2>. DEFINE state == [run EXCEPT !.status = "blocked"]
  <2>1. state \in RunRecords /\ state.finding = run.finding /\ AppendEvent(d, Quiet, state)
    BY <1>5 DEF RunRecords, Halt
  <2>. QED  BY <2>1, <1>1
<1>6. ASSUME NEW d \in Agents, Freeze(d), run' # run
      PROVE  FALSE
  <2>. DEFINE state == [run EXCEPT !.contract = call[d].arg, !.evidence = {}]
  <2>1. call[d].arg \in Versions /\ AppendEvent(d, Quiet, state)
    BY <1>6 DEF Freeze, Doing, RunInv, CallsStand, Stands, ArgFits
  <2>2. state \in RunRecords /\ state.finding = run.finding
    BY <2>1 DEF RunRecords
  <2>. QED  BY <2>1, <2>2, <1>1
<1>7. ASSUME NEW d \in Agents, PinOracle(d), run' # run
      PROVE  FALSE
  <2>. DEFINE state == [run EXCEPT !.pin = call[d].arg, !.package = IF assured THEN call[d].arg ELSE None]
  <2>1. call[d].arg \in Oracles /\ AppendEvent(d, Quiet, state)
    BY <1>7 DEF PinOracle, Doing, RunInv, CallsStand, Stands, ArgFits
  <2>2. \A o \in Oracles, p \in Oracles \cup {None} :
            LET q == [run EXCEPT !.pin = o, !.package = p] IN q \in RunRecords /\ q.finding = run.finding
    BY PinnedRun
  <2>. DEFINE package == IF assured THEN call[d].arg ELSE None
  <2>3. package \in Oracles \cup {None}
    BY <2>1
  <2>4. state = [run EXCEPT !.pin = call[d].arg, !.package = package]
    OBVIOUS
  <2>. HIDE DEF package
  <2>5. LET q == [run EXCEPT !.pin = call[d].arg, !.package = package] IN q \in RunRecords /\ q.finding = run.finding
    BY <2>1, <2>2, <2>3
  <2>6. state \in RunRecords /\ state.finding = run.finding
    BY <2>4, <2>5
  <2>. QED  BY <2>1, <2>6, <1>1
<1>8. ASSUME NEW d \in Agents, ResolveEscalation(d) \/ RefuseAttempt(d)
      PROVE  FALSE
  <2>1. (\E next : AppendEvent(d, next, run)) \/ run' = run
    BY <1>8 DEF ResolveEscalation, RefuseAttempt
  <2>. QED  BY <2>1, <1>1
<1>9. ASSUME NEW d \in Agents, Advance(d), run' # run
      PROVE  FALSE
  <2>1. AppendEvent(d, Quiet, Advanced(call[d].arg))
    BY <1>9 DEF Advance
  <2>. QED  BY <2>1, AdvancedRun, <1>1
<1>10. ASSUME NEW d \in Agents, PauseAttempt(d) \/ PlanStop(d) \/ SubmitStop(d) \/ RecordStop(d) \/ Reconcile(d)
       PROVE  FALSE
  <2>1. \/ run' = run
        \/ \E next : \/ AppendEvent(d, next, [run EXCEPT !.status = "paused"])
                       \/ \E v \in {"planned", "submitted", "settled", "unknown"} : AppendEvent(d, next, [run EXCEPT !.stop = v])
    BY <1>10 DEF PauseAttempt, PlanStop, SubmitStop, AttemptStep, RecordStop, Reconcile
  <2>2. [run EXCEPT !.status = "paused"] \in RunRecords /\ [run EXCEPT !.status = "paused"].finding = run.finding
    BY DEF RunRecords
  <2>3. \A v \in {"planned", "submitted", "settled", "unknown"} :
            [run EXCEPT !.stop = v] \in RunRecords /\ [run EXCEPT !.stop = v].finding = run.finding
    BY DEF RunRecords
  <2>. QED  BY <2>1, <2>2, <2>3, <1>1
<1>11. ASSUME NEW d \in Agents, Resume(d)
       PROVE  FALSE
  <2>1. PICK changed \in BOOLEAN :
           AppendEvent(d, Quiet, [run EXCEPT !.generation = @ + 1, !.status = "active",
                                        !.candidate = IF changed THEN None ELSE @, !.evidence = IF changed THEN {} ELSE @])
    BY <1>11 DEF Resume
  <2>. DEFINE state == [run EXCEPT !.generation = @ + 1, !.status = "active",
                                   !.candidate = IF changed THEN None ELSE @, !.evidence = IF changed THEN {} ELSE @]
  <2>2. state \in RunRecords /\ state.finding = run.finding
    BY ResumedRun
  <2>. QED  BY <2>1, <2>2, <1>1
<1>12. ASSUME NEW d \in Agents, Return(d)
       PROVE  FALSE
  BY <1>12 DEF Return
<1>13. CASE run' = run
  BY <1>13
<1>14. ASSUME NEW d \in Agents, NEW v \in Versions, StartResolve(d, v) \/ StartAdvance(d, v)
       PROVE  run' = run
  BY <1>14 DEF StartResolve, StartAdvance
<1>15. ASSUME NEW d \in Agents,
              \/ StartFreeze(d) \/ StartPin(d) \/ AcceptRelease(d) \/ Verify(d) \/ ConsentToIntent(d)
              \/ ReadAgain(d) \/ AskToStop(d) \/ EndCall(d)
       PROVE  run' = run
  BY <1>15 DEF StartFreeze, StartPin, AcceptRelease, Verify, ConsentToIntent, ReadAgain, AskToStop, EndCall
<1>16. CASE EditSource \/ EditOracle
  BY <1>16 DEF EditSource, EditOracle
<1>. QED
  BY <1>2, <1>3, <1>4, <1>5, <1>6, <1>7, <1>8, <1>9, <1>10, <1>11, <1>12, <1>13, <1>14, <1>15, <1>16 DEF Next

(* Only the call itself takes its steps to the provider. *)
LEMMA AskedByItself ==
    ASSUME RunInv, Next, NEW e \in Agents,
           \/ Doing(e, "attempt", "submitted") /\ call'[e].at = "checked"
           \/ Doing(e, "attempt", "checked") /\ call'[e].at = "asked"
    PROVE  ReadAgain(e) \/ AskToStop(e)
<1>. /\ call \in [Agents -> CallRecords] /\ call[e] \in CallRecords
     /\ call[e].kind = "attempt" /\ call[e].at \in {"submitted", "checked"} /\ ~Idle(e)
     /\ call'[e].at # call[e].at /\ call'[e].at \in {"checked", "asked"}
  BY DEF RunInv, Doing, Idle
<1>1. ASSUME NEW d \in Agents \ {e}, NEW next, NEW state, AppendEvent(d, next, state)
      PROVE  FALSE
  BY <1>1 DEF AppendEvent, ToProvider, Doing, CallRecords
<1>2. ASSUME NEW d \in Agents \ {e}, NEW next, call' = [call EXCEPT ![d] = next]
      PROVE  FALSE
  BY <1>2
<1>3. ASSUME NEW d \in Agents, NEW c \in Candidates, RecordCandidate(d, c)
      PROVE  FALSE
  BY <1>1, <1>3 DEF RecordCandidate
<1>4. ASSUME NEW d \in Agents, NEW v \in Versions,
             \/ RecordObservation(d, v) \/ StartResolve(d, v) \/ StartAdvance(d, v) \/ ResolveRework(d, v)
      PROVE  FALSE
  BY <1>1, <1>2, <1>4 DEF RecordObservation, StartResolve, StartAdvance, ResolveRework, Begin
<1>5. ASSUME NEW d \in Agents, \/ Return(d) \/ Halt(d) \/ StartFreeze(d) \/ StartPin(d)
                               \/ RefuseAttempt(d) \/ Reconcile(d) \/ Resume(d)
      PROVE  FALSE
  BY <1>1, <1>2, <1>5 DEF Return, Halt, StartFreeze, StartPin, RefuseAttempt, Reconcile, Resume, Begin
<1>6. ASSUME NEW d \in Agents, \/ Freeze(d) \/ PinOracle(d) \/ ResolveEscalation(d) \/ AcceptRelease(d)
                               \/ Verify(d) \/ ConsentToIntent(d) \/ Advance(d)
      PROVE  FALSE
  <2>1. d # e
    BY <1>6 DEF Freeze, PinOracle, ResolveEscalation, AcceptRelease, Verify, ConsentToIntent, Advance, Doing
  <2>. QED  BY <1>1, <1>2, <1>6, <2>1 DEF Freeze, PinOracle, ResolveEscalation, AcceptRelease, Verify,
                                          ConsentToIntent, Advance, Stop, Go
<1>7. ASSUME NEW d \in Agents, PauseAttempt(d) \/ PlanStop(d) \/ SubmitStop(d) \/ RecordStop(d)
      PROVE  FALSE
  <2>1. d # e
    BY <1>7 DEF PauseAttempt, PlanStop, SubmitStop, AttemptStep, RecordStop, Doing
  <2>. QED  BY <1>1, <1>2, <1>7, <2>1 DEF PauseAttempt, PlanStop, SubmitStop, AttemptStep, RecordStop, Stop
<1>8. ASSUME NEW d \in Agents, ReadAgain(d) \/ AskToStop(d)
      PROVE  d = e
  BY <1>2, <1>8 DEF ReadAgain, AskToStop, Go, Stop
<1>9. ASSUME NEW d \in Agents, EndCall(d)
      PROVE  FALSE
  <2>1. CASE d = e
    BY <1>9, <2>1 DEF EndCall, Stop, Quiet
  <2>. QED  BY <1>2, <1>9, <2>1 DEF EndCall, Stop
<1>10. CASE EditSource \/ EditOracle
  BY <1>10 DEF EditSource, EditOracle
<1>. QED  BY <1>3, <1>4, <1>5, <1>6, <1>7, <1>8, <1>9, <1>10 DEF Next

LEMMA StepDecided ==
    ASSUME RunInv, Next
    PROVE  StepsAsDecided
<1>1. ASSUME NEW e \in Agents, Moves(e)
      PROVE  /\ call[e].kind = "advance" /\ call[e].at = "accepted"
             /\ Stands(call[e], run, resolved, agreed, gated)
  BY <1>1 DEF Moves, Doing, RunInv, CallsStand
<1>2. RestsOnEvidence
  <2>1. ASSUME NEW e \in Agents, Moves(e)
        PROVE  \E o \in run.evidence : o.of = call[e].arg /\ o.phase = run.phase /\ o.round = run.round
    BY <1>1, <2>1 DEF Stands, PlanStands, RunInv, Rounds
  <2>. QED  BY <2>1, FindingSettled DEF RestsOnEvidence
<1>3. PassesWhatWasAgreed
  <2>. SUFFICES ASSUME NEW e \in Agents, Moves(e), run.phase = 0 \/ (run.phase = PullRequest /\ gated)
                PROVE  [candidate |-> IF run.phase = 0 THEN None ELSE run.candidate,
                        contract |-> run.contract, plan |-> call[e].arg] \in agreed
    BY DEF PassesWhatWasAgreed
  <2>. QED  BY <1>1 DEF Stands, AgreementStands, PullRequest
<1>4. StopsWhatIsPaused
  <2>1. ASSUME NEW e \in Agents, Doing(e, "attempt", "submitted"), call'[e].at = "checked"
        PROVE  run.status = "paused" /\ run.stop = "submitted"
    <3>1. ReadAgain(e) /\ Stands(call[e], run, resolved, agreed, gated)
      BY <2>1, AskedByItself DEF RunInv, CallsStand, AskToStop, Doing
    <3>2. CASE ~call[e].fresh
      <4>1. call' = [call EXCEPT ![e] = Quiet] /\ call \in [Agents -> CallRecords]
        BY <3>1, <3>2 DEF ReadAgain, Stop, RunInv
      <4>2. call'[e] = Quiet /\ Quiet.at # "checked"
        BY <4>1 DEF Quiet
      <4>. QED  BY <2>1, <4>2
    <3>. QED  BY <2>1, <3>1, <3>2 DEF Doing, Stands, AttemptStands
  <2>2. ASSUME NEW e \in Agents, Doing(e, "attempt", "checked"), call'[e].at = "asked"
        PROVE  run.status = "paused" \/ run.generation > call[e].arg
    <3>1. Stands(call[e], run, resolved, agreed, gated)
      BY DEF RunInv, CallsStand
    <3>. QED  BY <2>2, <3>1 DEF Doing, Stands, AttemptStands
  <2>. QED  BY <2>1, <2>2 DEF StopsWhatIsPaused
<1>5. DriftIsResolved
  BY <1>1 DEF DriftIsResolved, Stands, PlanStands
<1>. QED  BY <1>2, <1>3, <1>4, <1>5 DEF StepsAsDecided
-----------------------------------------------------------------------------
(* In AgentFlow, where a behaviour is of one part. *)
RunPart == part = "run" => RunInv

LEMMA RunPartHolds ==
    /\ AgentFlowInit => RunPart
    /\ RunPart /\ [AgentFlowNext]_all => RunPart'
<1>1. ASSUME AgentFlowInit PROVE RunPart
  <2>1. part = "run" => Init
    BY <1>1 DEF AgentFlowInit
  <2>. QED  BY <2>1, RunInit DEF RunPart
<1>2. ASSUME RunPart, [AgentFlowNext]_all PROVE RunPart'
  <2>. SUFFICES ASSUME part' = "run" PROVE RunInv'
    BY DEF RunPart
  <2>1. part = "run" /\ [Next]_vars
    BY <1>2 DEF AgentFlowNext, all, delivery, shared, vars
  <2>. QED  BY <1>2, <2>1, RunStep DEF RunPart
<1>. QED  BY <1>1, <1>2

(* RunInv always holds of a run: what a call has found out stands until    *)
(* somebody appends (the append to a read revision of run-service.mjs),    *)
(* the evidence under a contract is of this role and round, and what is    *)
(* kept from run time is of this candidate, oracle and writer              *)
(* (the reduction of run-state.mjs).                                       *)
THEOREM RunInvHolds == AgentFlowSpec => []RunPart
BY RunPartHolds, PTL DEF AgentFlowSpec

(* A run that completes under assurance has itself passed at run time,     *)
(* with the pinned oracle and under the writer that completes it, however  *)
(* agents, takeovers and edits of the oracles interleave.                  *)
THEOREM CompletedHasPassed == AgentFlowSpec => []CompletedHasRun
<1>1. RunPart => CompletedHasRun
  BY DEF RunPart, CompletedHasRun, RunInv, Sound, Outcome, CompletesWhatRan
<1>. QED  BY <1>1, RunInvHolds, PTL

(* Every accepted result rests on evidence of its role and round, on what  *)
(* a human agreed to and on resolved drift; a finding is settled by newer  *)
(* evidence; and a provider is asked to stop while the pause lasts or,     *)
(* where another has taken the run over, by a request of an older          *)
(* generation, which it fences (the comment at run-service.mjs:378).       *)
THEOREM DeliveredAsDecided == AgentFlowSpec => DeliversAsDecided
<1>1. ASSUME RunPart, [AgentFlowNext]_all
      PROVE  [part = "run" => StepsAsDecided]_all
  <2>. SUFFICES ASSUME part = "run", all' # all
                PROVE  StepsAsDecided
    OBVIOUS
  <2>1. RunInv /\ Next
    BY <1>1 DEF RunPart, AgentFlowNext
  <2>. QED  BY <2>1, StepDecided
<1>. QED  BY <1>1, RunInvHolds, PTL DEF AgentFlowSpec, DeliversAsDecided
-----------------------------------------------------------------------------
(* The adoption.                                                           *)
PathsOf(z) == {z[i].path : i \in 1 .. Len(z)}
OnePath(z) == \A i, j \in 1 .. Len(z) : z[i].path = z[j].path => z[i] = z[j]
Entry(z, p) == CHOOSE m \in Members(z) : m.path = p
ManagedFiles == Adopt!ToSet(Managed)

(* A file of d is as it was written, unless the owner has edited it since. *)
AsWritten(d, dr, p, v) == d[p] = v \/ (v # None /\ d[p] = Edited /\ p \in dr)
AsBefore(d, dr, m) == AsWritten(d, dr, m.path, m.before)
AsAfter(d, dr, m) == AsWritten(d, dr, m.path, m.after)
AllBefore(d, dr, z) == \A i \in 1 .. Len(z) : AsBefore(d, dr, z[i])
AllAfter(d, dr, z) == \A i \in 1 .. Len(z) : AsAfter(d, dr, z[i])

(* What a recovery accepts of a mutated file.                              *)
Accounted(dr, m, v) == v \in {m.before, m.after} \/ (v = None /\ m.before # None) \/ m.path \in dr
AllAccounted(d, dr, z) == \A i \in 1 .. Len(z) : Accounted(dr, z[i], d[z[i].path])

(* What a lock says of a file.                                             *)
Silent(lock, p) == lock \in {None, Edited} \/ lock.entry[p] \in {Merged, Removed}
Claims(lock, p, v) == Silent(lock, p) \/ (v # None /\ lock.entry[p] = v)
LockIsTrue(d, dr) == \A p \in ManagedFiles \ dr : Claims(d[Lock], p, d[p])

(* What was there before the mutations of z.                               *)
Was(d, z, p) == IF p \in PathsOf(z) THEN Entry(z, p).before ELSE d[p]
WasTrue(d, dr, z) == \A p \in ManagedFiles \ dr : Claims(Was(d, z, Lock), p, Was(d, z, p))

(* A receipt says what became true, and what had been.                     *)
BecameTrue(z) ==
    \A p \in ManagedFiles :
        Silent(Entry(z, Lock).after, p) \/ (p \in PathsOf(z) /\ Claims(Entry(z, Lock).after, p, Entry(z, p).after))
HadBeenTrue(z, dr) ==
    \A p \in ManagedFiles \ dr :
        Silent(Entry(z, Lock).before, p) \/ (p \in PathsOf(z) /\ Claims(Entry(z, Lock).before, p, Entry(z, p).before))
ReceiptFits(z, dr) == OnePath(z) /\ Lock \in PathsOf(z) /\ BecameTrue(z) /\ HadBeenTrue(z, dr)

AdoptPlaces == {"header", "prepare", "stage", "away", "swap", "receipt", "undo", "cleanup", "close", "in", "tidy", "back"}
ApplyRuns == [command : {"apply"}, at : AdoptPlaces, n : Nat, todo : Seq(Adopt!Files)]
RecoverRuns == [command : {"recover"}, at : AdoptPlaces, n : Nat, todo : Seq(Mutations)]
RollbackRuns == [command : {"rollback"}, at : AdoptPlaces, n : Nat, todo : Seq(Mutations), tx : 1 .. MaxRuns]
RestingRuns == {Adopt!Idle, Adopt!Outcome}
Disks == [Adopt!Files -> Contents]
JournalValues == {None, Torn} \cup Seq(Mutations)
ReceiptValues == {None} \cup Seq(Mutations)

AdoptTypes ==
    /\ disk \in Disks /\ staged \in Disks /\ backup \in Disks /\ debris \in Disks
    /\ plan \in Plans \cup {None}
    /\ journal \in JournalValues
    /\ receipt \in [1 .. MaxRuns -> ReceiptValues]
    /\ undoing \in {None, Torn} \cup 1 .. MaxRuns
    /\ run \in RestingRuns \cup ApplyRuns \cup RecoverRuns \cup RollbackRuns
    /\ drifted \subseteq Adopt!Files

(* A plan claims what it writes, and is silent of the rest.                *)
Planned(pl) ==
    /\ \A p \in ManagedFiles :
          pl.lock.entry[p] \in {Merged, Removed} \/ (p \in Members(pl.changed) /\ pl.lock.entry[p] = pl.tx)
    /\ pl.open => \A p \in ManagedFiles \ Members(pl.changed) : Claims(pl.seen[Lock], p, pl.seen[p]) => Silent(pl.seen[Lock], p)
    /\ Lock \notin Members(pl.changed) /\ Apart(pl.changed)
PlanFits == plan # None => Planned(plan) /\ (plan.open => receipt[plan.tx] = None)

Receipts ==
    \A t \in 1 .. MaxRuns : receipt[t] # None =>
        plan # None /\ t <= plan.tx /\ ReceiptFits(receipt[t], drifted)

Written(z) == z \notin {None, Torn}
Journals ==
    Written(journal) =>
        /\ plan # None /\ undoing = None /\ ~plan.open
        /\ OnePath(journal)
        /\ IF receipt[plan.tx] # None
           THEN journal = receipt[plan.tx] /\ AllAfter(disk, drifted, journal)
           ELSE WasTrue(disk, drifted, journal) /\ AllAccounted(disk, drifted, journal)

NoJournal ==
    journal = None =>
        /\ staged = Adopt!Empty /\ backup = Adopt!Empty
        /\ undoing = None => LockIsTrue(disk, drifted)

Leftovers == debris = Adopt!Empty \/ cut \/ (run.command = "recover" /\ run.at \in {"away", "in"})

(* An apply: what it has recorded, swapped and backed up.                  *)
AfterOf(pl, p) == IF p = Lock THEN pl.lock ELSE pl.tx
Recorded(z, todo, pl, k) ==
    /\ Len(z) = k /\ k <= Len(todo)
    /\ \A i \in 1 .. k : z[i].path = todo[i] /\ z[i].after = AfterOf(pl, todo[i])
Swapped(d, kept, dr, z, k) == \A i \in 1 .. k : AsAfter(d, dr, z[i]) /\ AsBefore(kept, dr, z[i])
BackedUp(kept, todo, k) == \A p \in Adopt!Files : kept[p] # None => \E i \in 1 .. k : todo[i] = p
LeavesOut(d, dr, pl, z) ==
    \A p \in ManagedFiles \ (dr \cup Members(pl.changed)) : Silent(IF z = None THEN d[Lock] ELSE Was(d, z, Lock), p)

Preparing ==
    /\ run.n \in 1 .. Len(run.todo) /\ staged = Adopt!Empty
    /\ Recorded(journal, run.todo, plan, run.n - 1) /\ BackedUp(backup, run.todo, run.n - 1)
    /\ Swapped(disk, backup, drifted, journal, run.n - 1)
Staging ==
    /\ run.n \in 1 .. Len(run.todo)
    /\ Recorded(journal, run.todo, plan, run.n) /\ BackedUp(backup, run.todo, run.n - 1)
    /\ Swapped(disk, backup, drifted, journal, run.n - 1)
    /\ AsBefore(disk, drifted, journal[run.n]) /\ backup[run.todo[run.n]] = None
    /\ staged = IF run.at = "stage" THEN Adopt!Empty ELSE [Adopt!Empty EXCEPT ![run.todo[run.n]] = AfterOf(plan, run.todo[run.n])]
Swapping ==
    /\ run.n \in 1 .. Len(run.todo)
    /\ Recorded(journal, run.todo, plan, run.n) /\ BackedUp(backup, run.todo, run.n)
    /\ Swapped(disk, backup, drifted, journal, run.n - 1)
    /\ disk[run.todo[run.n]] = None /\ AsBefore(backup, drifted, journal[run.n])
    /\ staged = [Adopt!Empty EXCEPT ![run.todo[run.n]] = AfterOf(plan, run.todo[run.n])]
Receipting ==
    /\ run.n = Len(run.todo) /\ staged = Adopt!Empty
    /\ Recorded(journal, run.todo, plan, run.n) /\ BackedUp(backup, run.todo, run.n) /\ Swapped(disk, backup, drifted, journal, run.n)
Undoing ==
    /\ run.n \in 0 .. Len(journal) /\ staged = Adopt!Empty
    /\ Recorded(journal, run.todo, plan, Len(journal)) /\ BackedUp(backup, run.todo, run.n)
    /\ Swapped(disk, backup, drifted, journal, run.n)
    /\ \A i \in run.n + 1 .. Len(journal) : AsBefore(disk, drifted, journal[i])

InApply ==
    /\ plan # None /\ ~plan.open /\ undoing = None
    /\ run.todo = Append(plan.changed, Lock)
    /\ run.at \in {"header", "prepare", "stage", "away", "swap", "receipt", "undo", "cleanup", "close"}
    /\ IF run.at = "header" THEN journal = None ELSE Written(journal)
    /\ run.at \notin {"cleanup", "close"} => receipt[plan.tx] = None /\ LeavesOut(disk, drifted, plan, journal)
    /\ run.at = "prepare" => Preparing
    /\ run.at \in {"stage", "away"} => Staging
    /\ run.at = "swap" => Swapping
    /\ run.at = "receipt" => Receipting
    /\ run.at = "undo" => Undoing
    /\ run.at = "cleanup" => receipt[plan.tx] # None /\ staged = Adopt!Empty
Applying == run.command = "apply" => InApply

Closing ==
    run.at = "close" =>
        /\ Written(journal) /\ staged = Adopt!Empty /\ backup = Adopt!Empty
        /\ receipt[plan.tx] = None => AllBefore(disk, drifted, journal)

(* A recovery: what it has still to restore.                               *)
Ahead(todo, k, m) == \E i \in k + 1 .. Len(todo) : todo[i] = m
InRestore ==
    /\ receipt[plan.tx] = None
    /\ run.n \in 0 .. Len(run.todo) /\ Members(run.todo) \subseteq Members(journal)
    /\ \A i \in 1 .. run.n : Accounted(drifted, run.todo[i], debris[run.todo[i].path])
    /\ \A m \in Members(journal) : m.path \in standing => m.before = Edited
    /\ \A m \in Members(journal) :
          Ahead(run.todo, run.n, m) \/ AsBefore(disk, drifted, m) \/ (run.at = "in" /\ run.todo[run.n] = m)
    /\ run.at = "in" => run.n # 0
Recovering ==
    run.command = "recover" =>
        /\ Written(journal) /\ run.at \in {"away", "in", "tidy", "close"}
        /\ run.at = "tidy" /\ receipt[plan.tx] = None => AllBefore(disk, drifted, journal)
        /\ run.at \in {"away", "in"} => InRestore

RollingBack ==
    run.command = "rollback" =>
        /\ journal = None /\ receipt[run.tx] # None /\ run.todo = Adopt!Reverse(receipt[run.tx])
        /\ run.at \in {"header", "back"}
        /\ run.at = "back" =>
              /\ undoing = run.tx /\ run.n \in 0 .. Len(run.todo)
              /\ \A i \in 1 .. run.n : AsBefore(disk, drifted, run.todo[i])

AdoptInv ==
    /\ AdoptTypes /\ PlanFits /\ Receipts /\ Journals /\ NoJournal /\ Leftovers
    /\ Applying /\ Closing /\ Recovering /\ RollingBack

-----------------------------------------------------------------------------
(* The operators of sequences, as the adoption sees them.                  *)
LEMMA AdoptOperators ==
    /\ \A z : Adopt!FlattenSeq(z) = FlattenSeq(z)
    /\ \A S : \A z \in Seq(S) : Adopt!ToSet(z) = Members(z)
    /\ \A z : Adopt!Last(z) = z[Len(z)]
    /\ \A z : Adopt!Reverse(z) = [i \in 1 .. Len(z) |-> z[(Len(z) - i) + 1]]
<1>1. \A S : \A z \in Seq(S) : DOMAIN z = 1 .. Len(z)
  BY LenProperties
<1>. QED  BY <1>1 DEF Adopt!FlattenSeq, FlattenSeq, Adopt!ToSet, Members, Adopt!Last, Adopt!Reverse

(* Those elements of a sequence that are in Q, each as often as it was.    *)
LEMMA ThoseFacts ==
    ASSUME NEW T, NEW z \in Seq(T), NEW Q
    PROVE  /\ Adopt!Those(z, Q) \in Seq(T)
           /\ Members(Adopt!Those(z, Q)) = Members(z) \cap Q
           /\ Apart(z) => Apart(Adopt!Those(z, Q))
<1>1. DOMAIN z = 1 .. Len(z)
  BY LenProperties
<1>2. Adopt!Those(z, Q) = Picked(z, Q)
  BY <1>1, AdoptOperators DEF Adopt!Those, Picked
<1>. QED  BY <1>2, PickedFacts

LEMMA ReverseFacts ==
    ASSUME NEW T, NEW z \in Seq(T)
    PROVE  /\ Adopt!Reverse(z) \in Seq(T) /\ Len(Adopt!Reverse(z)) = Len(z)
           /\ Members(Adopt!Reverse(z)) = Members(z)
<1>. DEFINE r == [i \in 1 .. Len(z) |-> z[(Len(z) - i) + 1]]
<1>1. Adopt!Reverse(z) = r /\ Len(z) \in Nat
  BY AdoptOperators, LenProperties
<1>2. \A i \in 1 .. Len(z) : (Len(z) - i) + 1 \in 1 .. Len(z) /\ r[i] = z[(Len(z) - i) + 1] /\ r[(Len(z) - i) + 1] = z[i]
  BY <1>1
<1>3. \A i \in 1 .. Len(z) : z[(Len(z) - i) + 1] \in T
  BY <1>2, ElementOfSeq
<1>4. r \in [1 .. Len(z) -> T]
  BY <1>3
<1>5. r \in Seq(T) /\ Len(r) = Len(z)
  BY <1>1, <1>4, SeqDef
<1>6. Members(r) = Members(z)
  <2>. HIDE DEF r
  <2>1. ASSUME NEW m \in Members(r) PROVE m \in Members(z)
    <3>1. PICK i \in 1 .. Len(z) : m = r[i]
      BY <1>5, <2>1 DEF Members
    <3>. QED  BY <1>2, <3>1 DEF Members
  <2>2. ASSUME NEW m \in Members(z) PROVE m \in Members(r)
    <3>1. PICK i \in 1 .. Len(z) : m = z[i]
      BY <2>2 DEF Members
    <3>2. m = r[(Len(z) - i) + 1] /\ (Len(z) - i) + 1 \in 1 .. Len(r)
      BY <1>2, <1>5, <3>1
    <3>. QED  BY <3>2 DEF Members
  <2>. QED  BY <2>1, <2>2
<1>. QED  BY <1>1, <1>5, <1>6

-----------------------------------------------------------------------------
(* The profile, and what no text is.                                       *)
LEMMA ProfileFacts ==
    /\ Managed \in Seq(Adopt!Files) /\ Seeds \in Seq(Adopt!Files) /\ Synced \in Seq(Adopt!Files)
    /\ Lock \in Adopt!Files /\ Managed \o (Seeds \o Synced) \in Seq(Adopt!Files)
    /\ ManagedFiles = Members(Managed) /\ ManagedFiles \subseteq Adopt!Files /\ Lock \notin ManagedFiles
    /\ Apart(Managed \o (Seeds \o Synced)) /\ Lock \notin Members(Managed \o (Seeds \o Synced))
    /\ MaxRuns \in Nat
<1>1. /\ Managed \in Seq(Adopt!Files) /\ Seeds \in Seq(Adopt!Files) /\ Synced \in Seq(Adopt!Files) /\ MaxRuns \in Nat
      /\ \A i, j \in 1 .. Len((Managed \o Seeds) \o Synced) :
            ((Managed \o Seeds) \o Synced)[i] = ((Managed \o Seeds) \o Synced)[j] => i = j
      /\ \A i \in 1 .. Len((Managed \o Seeds) \o Synced) : ((Managed \o Seeds) \o Synced)[i] # Lock
  BY AdoptionAssumption
<1>2. Lock \in Adopt!Files /\ ManagedFiles \subseteq Adopt!Files
  BY DEF Adopt!Files, ManagedFiles
<1>3. (Managed \o Seeds) \o Synced = Managed \o (Seeds \o Synced) /\ Managed \o (Seeds \o Synced) \in Seq(Adopt!Files)
  BY <1>1, ConcatAssociative, ConcatProperties, SMTT(15)
<1>4. ManagedFiles = Members(Managed)
  BY <1>1, AdoptOperators DEF ManagedFiles
<1>. DEFINE named == Managed \o (Seeds \o Synced)
<1>5. \A i \in 1 .. Len(Managed) : i \in 1 .. Len(named) /\ named[i] = Managed[i]
  <2>1. Seeds \o Synced \in Seq(Adopt!Files)
    BY <1>1, ConcatProperties
  <2>2. /\ Len(Managed) \in Nat /\ Len(Seeds \o Synced) \in Nat
        /\ Len(named) = Len(Managed) + Len(Seeds \o Synced)
        /\ \A i \in 1 .. Len(Managed) : named[i] = Managed[i]
    BY <1>1, <2>1, ConcatProperties, LenProperties
  <2>. QED  BY <2>2
<1>6. Apart(named) /\ Lock \notin Members(named)
  BY <1>1, <1>3 DEF Apart, Members
<1>7. Lock \notin ManagedFiles
  BY <1>4, <1>5, <1>6 DEF Members
<1>. QED  BY <1>1, <1>2, <1>3, <1>4, <1>6, <1>7

LEMMA NoText ==
    /\ None # Edited /\ None # Torn /\ None # Mine /\ Mine # Edited
    /\ \A n \in Nat : n # None /\ n # Edited
    /\ \A l \in LockRecords : l # None /\ l # Edited
    /\ \A z \in Seq(Mutations) : Written(z)
    /\ None \notin Plans /\ Torn \notin 1 .. MaxRuns /\ None \notin 1 .. MaxRuns
<1>1. /\ None # Edited /\ None # Torn /\ None # Mine /\ Mine # Edited /\ MaxRuns \in Nat
      /\ {None, Edited} \cap (Nat \cup LockRecords) = {} /\ {None, Torn} \cap Seq(Mutations) = {}
      /\ None \notin Plans /\ Torn \notin 1 .. MaxRuns
  BY AdoptionAssumption
<1>. DEFINE lists == Seq(Mutations)
            locks == LockRecords
            plans == Plans
<1>. HIDE DEF lists, locks, plans
<1>2. {None, Edited} \cap (Nat \cup locks) = {} /\ {None, Torn} \cap lists = {} /\ None \notin plans
  BY <1>1 DEF lists, locks, plans
<1>3. \A n \in Nat : n # None /\ n # Edited
  BY <1>2
<1>4. \A l \in locks : l # None /\ l # Edited
  BY <1>2
<1>5. \A z \in lists : z # None /\ z # Torn
  BY <1>2
<1>6. None \notin 1 .. MaxRuns
  BY <1>1, <1>3
<1>. QED  BY <1>1, <1>2, <1>3, <1>4, <1>5, <1>6 DEF lists, locks, plans, Written

(* A mutation is found by its path.                                        *)
LEMMA EntryFact ==
    ASSUME NEW z, OnePath(z)
    PROVE  /\ \A i \in 1 .. Len(z) : z[i].path \in PathsOf(z) /\ Entry(z, z[i].path) = z[i]
           /\ \A p \in PathsOf(z) : \E i \in 1 .. Len(z) : z[i].path = p /\ Entry(z, p) = z[i]
<1>1. ASSUME NEW i \in 1 .. Len(z) PROVE z[i].path \in PathsOf(z) /\ Entry(z, z[i].path) = z[i]
  <2>1. z[i] \in Members(z) /\ z[i].path \in PathsOf(z)
    BY DEF Members, PathsOf
  <2>2. PICK m \in Members(z) : m = Entry(z, z[i].path) /\ m.path = z[i].path
    BY <2>1 DEF Entry
  <2>3. m = z[i]
    BY <2>2 DEF Members, OnePath
  <2>. QED  BY <2>1, <2>2, <2>3
<1>2. ASSUME NEW p \in PathsOf(z) PROVE \E i \in 1 .. Len(z) : z[i].path = p /\ Entry(z, p) = z[i]
  BY <1>1, <1>2 DEF PathsOf
<1>. QED  BY <1>1, <1>2

(* What was before the mutations does not depend on their files.           *)
LEMMA WasKept ==
    ASSUME NEW d, NEW e, NEW z, \A p \in Adopt!Files : p \notin PathsOf(z) => e[p] = d[p]
    PROVE  /\ \A p \in Adopt!Files : Was(e, z, p) = Was(d, z, p)
           /\ \A dr : WasTrue(d, dr, z) => WasTrue(e, dr, z)
           /\ \A dr, pl : z # None /\ LeavesOut(d, dr, pl, z) => LeavesOut(e, dr, pl, z)
<1>1. \A p \in Adopt!Files : Was(e, z, p) = Was(d, z, p)
  BY DEF Was
<1>2. Lock \in Adopt!Files /\ \A p \in ManagedFiles : p \in Adopt!Files
  BY ProfileFacts
<1>. QED  BY <1>1, <1>2 DEF WasTrue, LeavesOut

(* When all is as before, the lock says what it said.                      *)
LEMMA TrueAsBefore ==
    ASSUME NEW d, NEW dr, NEW z, OnePath(z), WasTrue(d, dr, z), AllBefore(d, dr, z)
    PROVE  LockIsTrue(d, dr)
<1>1. \A p \in PathsOf(z) : AsWritten(d, dr, p, Entry(z, p).before)
  BY EntryFact DEF AllBefore, AsBefore
<1>2. ASSUME NEW p \in ManagedFiles \ dr PROVE Claims(d[Lock], p, d[p])
  <2>1. Was(d, z, p) = d[p]
    BY <1>1 DEF Was, AsWritten
  <2>2. Was(d, z, Lock) = d[Lock] \/ d[Lock] = Edited
    BY <1>1 DEF Was, AsWritten
  <2>3. Claims(Was(d, z, Lock), p, Was(d, z, p))
    BY DEF WasTrue
  <2>. QED  BY <2>1, <2>2, <2>3 DEF Claims, Silent
<1>. QED  BY <1>2 DEF LockIsTrue

(* A receipt tells the truth, done or undone.                              *)
LEMMA TrueByReceipt ==
    ASSUME NEW d, NEW dr, NEW z, ReceiptFits(z, dr), AllBefore(d, dr, z) \/ AllAfter(d, dr, z)
    PROVE  LockIsTrue(d, dr)
<1>1. ASSUME AllAfter(d, dr, z) PROVE LockIsTrue(d, dr)
  <2>1. \A p \in PathsOf(z) : AsWritten(d, dr, p, Entry(z, p).after)
    BY <1>1, EntryFact DEF AllAfter, AsAfter, ReceiptFits
  <2>2. d[Lock] = Entry(z, Lock).after \/ d[Lock] = Edited
    BY <2>1 DEF ReceiptFits, AsWritten
  <2>3. ASSUME NEW p \in ManagedFiles \ dr PROVE Claims(d[Lock], p, d[p])
    <3>1. Silent(Entry(z, Lock).after, p) \/ (p \in PathsOf(z) /\ Claims(Entry(z, Lock).after, p, Entry(z, p).after))
      BY DEF ReceiptFits, BecameTrue
    <3>2. p \in PathsOf(z) => d[p] = Entry(z, p).after
      BY <2>1 DEF AsWritten
    <3>. QED  BY <2>2, <3>1, <3>2 DEF Claims, Silent
  <2>. QED  BY <2>3 DEF LockIsTrue
<1>2. ASSUME AllBefore(d, dr, z) PROVE LockIsTrue(d, dr)
  <2>1. \A p \in PathsOf(z) : AsWritten(d, dr, p, Entry(z, p).before)
    BY <1>2, EntryFact DEF AllBefore, AsBefore, ReceiptFits
  <2>2. d[Lock] = Entry(z, Lock).before \/ d[Lock] = Edited
    BY <2>1 DEF ReceiptFits, AsWritten
  <2>3. ASSUME NEW p \in ManagedFiles \ dr PROVE Claims(d[Lock], p, d[p])
    <3>1. Silent(Entry(z, Lock).before, p) \/ (p \in PathsOf(z) /\ Claims(Entry(z, Lock).before, p, Entry(z, p).before))
      BY DEF ReceiptFits, HadBeenTrue
    <3>2. p \in PathsOf(z) => d[p] = Entry(z, p).before
      BY <2>1 DEF AsWritten
    <3>. QED  BY <2>2, <3>1, <3>2 DEF Claims, Silent
  <2>. QED  BY <2>3 DEF LockIsTrue
<1>. QED  BY <1>1, <1>2

(* An edit of a file that is there.                                        *)
LEMMA Edits ==
    ASSUME NEW d \in Disks, NEW p \in Adopt!Files, d[p] # None, NEW dr
    PROVE  LET e == [d EXCEPT ![p] = Edited]
               er == dr \cup {p}
           IN /\ \A q \in Adopt!Files : \A v : AsWritten(d, dr, q, v) => AsWritten(e, er, q, v)
              /\ \A f, q, v : AsWritten(f, dr, q, v) => AsWritten(f, er, q, v)
              /\ \A m : m.path \in Adopt!Files /\ Accounted(dr, m, d[m.path]) => Accounted(er, m, e[m.path])
              /\ \A m, v : Accounted(dr, m, v) => Accounted(er, m, v)
              /\ LockIsTrue(d, dr) => LockIsTrue(e, er)
              /\ \A z : WasTrue(d, dr, z) => WasTrue(e, er, z)
              /\ \A pl, z : LeavesOut(d, dr, pl, z) => LeavesOut(e, er, pl, z)
              /\ \A z : ReceiptFits(z, dr) => ReceiptFits(z, er)
<1>. DEFINE e == [d EXCEPT ![p] = Edited]
            er == dr \cup {p}
<1>1. /\ e[p] = Edited /\ p \in er /\ \A q : q \in dr => q \in er
      /\ \A q \in Adopt!Files : q # p => e[q] = d[q]
      /\ \A q : q \notin er => q \notin dr /\ q # p
  BY DEF Disks
<1>2. Lock \in Adopt!Files /\ ManagedFiles \subseteq Adopt!Files
  BY ProfileFacts
<1>. HIDE DEF e, er
<1>3. \A q \in Adopt!Files : \A v : AsWritten(d, dr, q, v) => AsWritten(e, er, q, v)
  BY <1>1 DEF AsWritten
<1>4. \A f, q, v : AsWritten(f, dr, q, v) => AsWritten(f, er, q, v)
  BY <1>1 DEF AsWritten
<1>5. \A m, v : Accounted(dr, m, v) => Accounted(er, m, v)
  BY <1>1 DEF Accounted
<1>6. \A m : m.path \in Adopt!Files /\ Accounted(dr, m, d[m.path]) => Accounted(er, m, e[m.path])
  BY <1>1 DEF Accounted
<1>7. ASSUME LockIsTrue(d, dr) PROVE LockIsTrue(e, er)
  <2>1. \A q \in ManagedFiles \ er : e[q] = d[q] /\ Claims(d[Lock], q, d[q])
    BY <1>1, <1>2, <1>7 DEF LockIsTrue
  <2>2. e[Lock] = d[Lock] \/ e[Lock] = Edited
    BY <1>1, <1>2
  <2>. QED  BY <2>1, <2>2 DEF LockIsTrue, Claims, Silent
<1>8. ASSUME NEW z PROVE /\ Was(e, z, Lock) = Was(d, z, Lock) \/ Was(e, z, Lock) = Edited
                         /\ \A q \in ManagedFiles \ er : Was(e, z, q) = Was(d, z, q)
  BY <1>1, <1>2 DEF Was
<1>9. ASSUME NEW z, WasTrue(d, dr, z) PROVE WasTrue(e, er, z)
  <2>1. \A q \in ManagedFiles \ er : Claims(Was(d, z, Lock), q, Was(d, z, q))
    BY <1>1, <1>9 DEF WasTrue
  <2>. QED  BY <1>8, <2>1 DEF WasTrue, Claims, Silent
<1>10. ASSUME NEW pl, NEW z, LeavesOut(d, dr, pl, z) PROVE LeavesOut(e, er, pl, z)
  <2>1. \A q \in ManagedFiles \ (er \cup Members(pl.changed)) : Silent(IF z = None THEN d[Lock] ELSE Was(d, z, Lock), q)
    BY <1>1, <1>10 DEF LeavesOut
  <2>2. e[Lock] = d[Lock] \/ e[Lock] = Edited
    BY <1>1, <1>2
  <2>. QED  BY <1>8, <2>1, <2>2 DEF LeavesOut, Silent
<1>11. ASSUME NEW z, ReceiptFits(z, dr) PROVE ReceiptFits(z, er)
  BY <1>1, <1>11 DEF ReceiptFits, HadBeenTrue
<1>. QED  BY <1>3, <1>4, <1>5, <1>6, <1>7, <1>9, <1>10, <1>11 DEF e, er

LEMMA RestingFacts ==
    \A r \in RestingRuns : r.command = "none" /\ r.at \notin {"close", "away", "in"}
<1>1. Adopt!Idle.command = "none" /\ Adopt!Idle.at = ""
  BY DEF Adopt!Idle
<1>2. Adopt!Outcome.command = "none" /\ Adopt!Outcome.at = "refused"
  BY DEF Adopt!Outcome
<1>. QED  BY <1>1, <1>2 DEF RestingRuns

Moved(r, q, place, k) == q = [r EXCEPT !.at = place, !.n = k]
LEMMA RunMoves ==
    ASSUME NEW r, NEW q, NEW place \in AdoptPlaces, NEW k \in Nat, Moved(r, q, place, k)
    PROVE  /\ r \in ApplyRuns => q \in ApplyRuns /\ q.at = place /\ q.n = k /\ q.todo = r.todo
           /\ r \in RecoverRuns => q \in RecoverRuns /\ q.at = place /\ q.n = k /\ q.todo = r.todo
           /\ r \in RollbackRuns => q \in RollbackRuns /\ q.at = place /\ q.n = k /\ q.todo = r.todo /\ q.tx = r.tx
<1>1. ASSUME r \in ApplyRuns PROVE q \in ApplyRuns /\ q.at = place /\ q.n = k /\ q.todo = r.todo
  BY <1>1 DEF ApplyRuns, Moved
<1>2. ASSUME r \in RecoverRuns PROVE q \in RecoverRuns /\ q.at = place /\ q.n = k /\ q.todo = r.todo
  BY <1>2 DEF RecoverRuns, Moved
<1>3. ASSUME r \in RollbackRuns PROVE q \in RollbackRuns /\ q.at = place /\ q.n = k /\ q.todo = r.todo /\ q.tx = r.tx
  BY <1>3 DEF RollbackRuns, Moved
<1>. QED  BY <1>1, <1>2, <1>3

LEMMA PlansKept == PlanFits /\ Receipts /\ UNCHANGED <<plan, receipt, drifted>> => PlanFits' /\ Receipts'
  BY DEF PlanFits, Receipts

(* Which command runs.                                                      *)
LEMMA RunKinds ==
    ASSUME AdoptTypes
    PROVE  /\ run.command = "apply" => run \in ApplyRuns
           /\ run.command = "recover" => run \in RecoverRuns
           /\ run.command = "rollback" => run \in RollbackRuns
           /\ run.command = "none" => run \in RestingRuns
           /\ run.command \in {"apply", "recover", "rollback", "none"}
<1>1. \A r \in ApplyRuns : r.command = "apply"
  BY DEF ApplyRuns
<1>2. \A r \in RecoverRuns : r.command = "recover"
  BY DEF RecoverRuns
<1>3. \A r \in RollbackRuns : r.command = "rollback"
  BY DEF RollbackRuns
<1>. QED  BY <1>1, <1>2, <1>3, RestingFacts DEF AdoptTypes

-----------------------------------------------------------------------------
(* The steps of the adoption keep AdoptInv.                                *)
LEMMA ActionFacts ==
    ASSUME NEW p, NEW resolution
    PROVE  /\ Adopt!Resolved(p, resolution) \in {"conflict", "create", "update", "preserve-merged", "preserve-removed"}
           /\ Claims(disk[Lock], p, disk[p]) /\ ~Silent(disk[Lock], p) => Adopt!Resolved(p, resolution) = "update"
<1>. DEFINE action == Adopt!ActionForManaged(p)
<1>1. action \in {"conflict", "create", "update", "preserve-merged", "preserve-removed"}
  <2>1. CASE Adopt!Claim(p) = Removed /\ disk[p] = None /\ Adopt!Claim(p) # Merged
    BY <2>1 DEF Adopt!ActionForManaged
  <2>2. CASE Adopt!Claim(p) = Merged /\ ~(Adopt!Claim(p) = Removed /\ disk[p] = None)
    BY <2>2 DEF Adopt!ActionForManaged
  <2>3. CASE Adopt!Claim(p) = Merged /\ Adopt!Claim(p) = Removed /\ disk[p] = None
    BY <2>3 DEF Adopt!ActionForManaged
  <2>4. CASE Adopt!Claim(p) \notin {Merged, Removed} /\ disk[p] = None
    BY <2>4 DEF Adopt!ActionForManaged
  <2>5. CASE Adopt!Claim(p) # Merged /\ disk[p] # None
    BY <2>5 DEF Adopt!ActionForManaged
  <2>. QED  BY <2>1, <2>2, <2>3, <2>4, <2>5
<1>2. ASSUME Claims(disk[Lock], p, disk[p]), ~Silent(disk[Lock], p) PROVE action = "update"
  <2>1. Adopt!Claim(p) = disk[p] /\ disk[p] # None /\ Adopt!Claim(p) \notin {Merged, Removed}
    BY <1>2 DEF Adopt!Claim, Claims, Silent
  <2>. QED  BY <2>1 DEF Adopt!ActionForManaged
<1>3. Adopt!Resolved(p, resolution) \in {action, "preserve-merged", "update"}
  BY DEF Adopt!Resolved
<1>4. action = "update" => Adopt!Resolved(p, resolution) = "update"
  BY DEF Adopt!Resolved
<1>. QED  BY <1>1, <1>2, <1>3, <1>4

LEMMA MakePlanAdopt == AdoptInv /\ Adopt!MakePlan => AdoptInv'
<1>. SUFFICES ASSUME AdoptInv, Adopt!MakePlan PROVE AdoptInv'
  OBVIOUS
<1>. DEFINE t == Adopt!NextRun
<1>1. PICK resolution \in [Adopt!ToSet(Managed) -> {"none", "preserve", "replace"}] :
         LET action == [p \in Adopt!ToSet(Managed) |-> Adopt!Resolved(p, resolution[p])]
             changed == Adopt!Those(Managed, {p \in Adopt!ToSet(Managed) : action[p] \in {"create", "update"}})
                           \o Adopt!Those(Seeds \o Synced, {p \in Adopt!ToSet(Seeds \o Synced) : Adopt!ActionForSeed(p) # "seed-skip"})
         IN /\ \A p \in Adopt!ToSet(Managed) : action[p] # "conflict"
            /\ plan' = [tx |-> t, seen |-> disk, open |-> TRUE, changed |-> changed,
                        lock |-> [tx |-> t, entry |-> [p \in Adopt!ToSet(Managed) |-> Adopt!LockEntry(p, action[p], t)]]]
  BY DEF Adopt!MakePlan
<1>2. /\ Adopt!Resting /\ t <= MaxRuns /\ journal = None /\ undoing = None
      /\ UNCHANGED <<disk, staged, backup, debris, journal, receipt, undoing, run, ends, cut, drifted, standing>>
  BY DEF Adopt!MakePlan
<1>. DEFINE action == [p \in ManagedFiles |-> Adopt!Resolved(p, resolution[p])]
            written == {p \in ManagedFiles : action[p] \in {"create", "update"}}
            sown == {p \in Adopt!ToSet(Seeds \o Synced) : Adopt!ActionForSeed(p) # "seed-skip"}
            changed == Adopt!Those(Managed, written) \o Adopt!Those(Seeds \o Synced, sown)
            entry == [p \in ManagedFiles |-> Adopt!LockEntry(p, action[p], t)]
<1>3. /\ \A p \in ManagedFiles : action[p] # "conflict"
      /\ plan' = [tx |-> t, seen |-> disk, open |-> TRUE, changed |-> changed, lock |-> [tx |-> t, entry |-> entry]]
  BY <1>1 DEF ManagedFiles
<1>4. /\ changed \in Seq(Adopt!Files) /\ Apart(changed) /\ Lock \notin Members(changed)
      /\ written \subseteq Members(changed)
  <2>. HIDE DEF written, sown
  <2>. DEFINE rest == Seeds \o Synced
  <2>1. Managed \in Seq(Adopt!Files) /\ rest \in Seq(Adopt!Files) /\ Apart(Managed \o rest) /\ Lock \notin Members(Managed \o rest)
    BY ProfileFacts, ConcatProperties
  <2>. HIDE DEF rest
  <2>2. /\ Apart(Managed) /\ Apart(rest) /\ Members(Managed) \cap Members(rest) = {}
        /\ Lock \notin Members(Managed) \cup Members(rest)
    <3>1. Members(Managed \o rest) = Members(Managed) \cup Members(rest)
      BY <2>1, ConcatMembers
    <3>2. Apart(Managed \o rest) <=> Apart(Managed) /\ Apart(rest) /\ Members(Managed) \cap Members(rest) = {}
      BY <2>1, ConcatMembers
    <3>. QED  BY <2>1, <3>1, <3>2
  <2>. DEFINE u == Adopt!Those(Managed, written)
              v == Adopt!Those(rest, sown)
  <2>3. u \in Seq(Adopt!Files) /\ Members(u) = Members(Managed) \cap written /\ Apart(u)
    BY <2>1, <2>2, ThoseFacts
  <2>4. v \in Seq(Adopt!Files) /\ Members(v) = Members(rest) \cap sown /\ Apart(v)
    BY <2>1, <2>2, ThoseFacts
  <2>5. written \subseteq Members(Managed)
    BY ProfileFacts DEF written
  <2>. HIDE DEF u, v
  <2>6. u \o v \in Seq(Adopt!Files) /\ Members(u \o v) = Members(u) \cup Members(v) /\ Apart(u \o v)
    <3>1. u \o v \in Seq(Adopt!Files) /\ Members(u \o v) = Members(u) \cup Members(v)
      BY <2>3, <2>4, ConcatProperties, ConcatMembers
    <3>2. Members(u) \cap Members(v) = {}
      BY <2>2, <2>3, <2>4
    <3>. QED  BY <2>3, <2>4, <3>1, <3>2, ConcatMembers
  <2>. QED  BY <2>2, <2>3, <2>4, <2>5, <2>6 DEF u, v, rest
<1>5. t \in 1 .. MaxRuns /\ (plan # None => plan.tx < t)
  <2>1. plan # None => plan.tx \in 1 .. MaxRuns
    BY DEF AdoptInv, AdoptTypes, Plans
  <2>. QED  BY <1>2, <2>1, ProfileFacts DEF Adopt!NextRun
<1>6. \A p \in ManagedFiles :
         /\ action[p] \in {"create", "update", "preserve-merged", "preserve-removed"}
         /\ entry[p] = CASE action[p] = "preserve-merged" -> Merged [] action[p] = "preserve-removed" -> Removed [] OTHER -> t
  BY <1>3, ActionFacts DEF Adopt!LockEntry
<1>7. \A p \in ManagedFiles : entry[p] \in {Merged, Removed} \/ (p \in written /\ entry[p] = t)
  BY <1>6
<1>8. \A p \in ManagedFiles : Claims(disk[Lock], p, disk[p]) /\ ~Silent(disk[Lock], p) => p \in written
  BY ActionFacts
<1>9. plan' \in Plans
  <2>1. entry \in Entries
    <3>1. \A p \in ManagedFiles : entry[p] \in Nat \cup {Merged, Removed}
      BY <1>5, <1>7, ProfileFacts
    <3>. QED  BY <3>1 DEF Entries, ManagedFiles
  <2>2. [tx |-> t, entry |-> entry] \in LockRecords
    <3>. HIDE DEF entry, t
    <3>. QED  BY <1>5, <2>1, ProfileFacts DEF LockRecords
  <2>3. disk \in [Adopt!Files -> Contents]
    BY DEF AdoptInv, AdoptTypes, Disks
  <2>. HIDE DEF entry, t, changed
  <2>. QED  BY <1>3, <1>4, <1>5, <2>2, <2>3 DEF Plans
<1>. HIDE DEF entry, t, changed, written, action, sown
<1>10. plan' # None
  BY <1>9, NoText
<1>11. AdoptTypes'
  BY <1>2, <1>9 DEF AdoptInv, AdoptTypes
<1>12. PlanFits'
  <2>1. Planned(plan')
    BY <1>3, <1>4, <1>7, <1>8 DEF Planned
  <2>2. receipt[t] = None
    <3>1. SUFFICES ASSUME receipt[t] # None PROVE FALSE
      OBVIOUS
    <3>2. plan # None /\ t <= plan.tx
      BY <1>5, <3>1 DEF AdoptInv, Receipts
    <3>3. plan.tx \in 1 .. MaxRuns
      BY <3>2 DEF AdoptInv, AdoptTypes, Plans
    <3>. QED  BY <1>5, <3>2, <3>3, ProfileFacts
  <2>3. receipt'[plan'.tx] = None
    BY <1>2, <1>3, <2>2
  <2>. QED  BY <2>1, <2>3 DEF PlanFits
<1>13. Receipts'
  <2>1. ASSUME NEW k \in 1 .. MaxRuns, receipt[k] # None PROVE k <= t /\ ReceiptFits(receipt[k], drifted)
    <3>1. plan # None /\ k <= plan.tx /\ ReceiptFits(receipt[k], drifted)
      BY <2>1 DEF AdoptInv, Receipts
    <3>2. plan.tx \in 1 .. MaxRuns
      BY <3>1 DEF AdoptInv, AdoptTypes, Plans
    <3>. QED  BY <1>5, <3>1, <3>2, ProfileFacts
  <2>2. plan'.tx = t
    BY <1>3
  <2>. QED  BY <1>2, <1>10, <2>1, <2>2 DEF Receipts
<1>14. Journals' /\ NoJournal'
  BY <1>2 DEF AdoptInv, Journals, Written, NoJournal
<1>15. Leftovers'
  BY <1>2 DEF AdoptInv, Leftovers
<1>16. Applying' /\ Closing' /\ Recovering' /\ RollingBack'
  <2>1. run \in RestingRuns
    BY <1>2, RunKinds DEF AdoptInv, Adopt!Resting
  <2>2. run' \in RestingRuns
    BY <1>2, <2>1
  <2>. QED  BY <2>2, RestingFacts DEF Applying, Closing, Recovering, RollingBack
<1>. QED  BY <1>11, <1>12, <1>13, <1>14, <1>15, <1>16 DEF AdoptInv

(* An empty journal, and one more mutation in a journal.                   *)
LEMMA EmptyJournal ==
    /\ <<>> \in Seq(Mutations) /\ Written(<<>>) /\ OnePath(<<>>) /\ Len(<<>>) = 0
    /\ \A d, p : Was(d, <<>>, p) = d[p]
    /\ \A d, dr : LockIsTrue(d, dr) => WasTrue(d, dr, <<>>)
    /\ \A d, dr, pl : LeavesOut(d, dr, pl, None) => LeavesOut(d, dr, pl, <<>>)
<1>1. <<>> \in Seq(Mutations) /\ Len(<<>>) = 0
  BY EmptySeq
<1>2. Written(<<>>)
  BY <1>1, NoText
<1>3. PathsOf(<<>>) = {} /\ OnePath(<<>>)
  BY <1>1 DEF PathsOf, OnePath
<1>4. \A d, p : Was(d, <<>>, p) = d[p]
  BY <1>3 DEF Was
<1>5. \A d, dr : LockIsTrue(d, dr) => WasTrue(d, dr, <<>>)
  BY <1>4 DEF LockIsTrue, WasTrue
<1>6. \A d, dr, pl : LeavesOut(d, dr, pl, None) => LeavesOut(d, dr, pl, <<>>)
  BY <1>2, <1>4 DEF LeavesOut, Written
<1>. QED  BY <1>1, <1>2, <1>3, <1>4, <1>5, <1>6

LEMMA JournalGrows ==
    ASSUME NEW z \in Seq(Mutations), OnePath(z), NEW m \in Mutations, m.path \notin PathsOf(z),
           NEW d, d[m.path] = m.before
    PROVE  LET w == Append(z, m)
           IN /\ w \in Seq(Mutations) /\ Len(w) = Len(z) + 1 /\ OnePath(w)
              /\ w[Len(z) + 1] = m /\ \A i \in 1 .. Len(z) : w[i] = z[i]
              /\ \A dr : WasTrue(d, dr, z) => WasTrue(d, dr, w)
              /\ \A dr, pl : LeavesOut(d, dr, pl, z) => LeavesOut(d, dr, pl, w)
              /\ \A dr : AllAccounted(d, dr, z) => AllAccounted(d, dr, w)
<1>. DEFINE w == Append(z, m)
            n == Len(z)
<1>1. w \in Seq(Mutations) /\ n \in Nat /\ Len(w) = n + 1 /\ w[n + 1] = m /\ \A i \in 1 .. n : w[i] = z[i]
  BY AppendProperties, LenProperties
<1>2. 1 .. n + 1 = (1 .. n) \cup {n + 1} /\ n + 1 \in 1 .. n + 1
  BY <1>1
<1>. HIDE DEF w
<1>3. OnePath(w) /\ PathsOf(w) = PathsOf(z) \cup {m.path}
  <2>1. \A i \in 1 .. n : w[i].path \in PathsOf(z)
    BY <1>1 DEF PathsOf
  <2>2. PathsOf(w) = {w[i].path : i \in (1 .. n) \cup {n + 1}}
    BY <1>1, <1>2 DEF PathsOf
  <2>3. PathsOf(w) = PathsOf(z) \cup {m.path}
    BY <1>1, <2>2 DEF PathsOf
  <2>4. ASSUME NEW i \in 1 .. n + 1, NEW j \in 1 .. n + 1, w[i].path = w[j].path PROVE w[i] = w[j]
    <3>1. CASE i \in 1 .. n /\ j \in 1 .. n
      BY <1>1, <2>4, <3>1 DEF OnePath
    <3>2. CASE i = n + 1 /\ j = n + 1
      BY <3>2
    <3>3. CASE (i \in 1 .. n /\ j = n + 1) \/ (i = n + 1 /\ j \in 1 .. n)
      BY <1>1, <2>1, <2>4, <3>3
    <3>. QED  BY <1>2, <3>1, <3>2, <3>3
  <2>. QED  BY <1>1, <2>3, <2>4 DEF OnePath
<1>4. \A p \in PathsOf(z) : Entry(w, p) = Entry(z, p)
  <2>. TAKE p \in PathsOf(z)
  <2>1. PICK i \in 1 .. n : z[i].path = p /\ Entry(z, p) = z[i]
    BY EntryFact
  <2>2. w[i] = z[i] /\ i \in 1 .. Len(w)
    BY <1>1, <1>2
  <2>. QED  BY <1>3, <2>1, <2>2, EntryFact
<1>5. Entry(w, m.path) = m
  BY <1>1, <1>2, <1>3, EntryFact
<1>6. \A p : Was(d, w, p) = Was(d, z, p)
  BY <1>3, <1>4, <1>5 DEF Was
<1>7. \A dr : WasTrue(d, dr, z) => WasTrue(d, dr, w)
  BY <1>6 DEF WasTrue
<1>8. \A dr, pl : LeavesOut(d, dr, pl, z) => LeavesOut(d, dr, pl, w)
  <2>1. z # None /\ w # None
    BY <1>1, NoText DEF Written
  <2>. QED  BY <1>6, <2>1 DEF LeavesOut
<1>9. \A dr : AllAccounted(d, dr, z) => AllAccounted(d, dr, w)
  BY <1>1, <1>2 DEF AllAccounted, Accounted
<1>. QED  BY <1>1, <1>3, <1>7, <1>8, <1>9 DEF w

(* What every step of an apply finds.                                      *)
LEMMA ApplyFacts ==
    ASSUME AdoptInv, run.command = "apply"
    PROVE  /\ run \in ApplyRuns /\ run.n \in Nat /\ InApply
           /\ plan \in Plans /\ plan # None /\ Planned(plan) /\ plan.tx \in 1 .. MaxRuns
           /\ run.todo \in Seq(Adopt!Files) /\ Len(run.todo) \in Nat \ {0} /\ Apart(run.todo)
           /\ \A i \in 1 .. Len(run.todo) : run.todo[i] \in Adopt!Files
           /\ run.todo[Len(run.todo)] = Lock /\ Members(run.todo) = Members(plan.changed) \cup {Lock}
           /\ \A p : Adopt!After(p) = AfterOf(plan, p) /\ AfterOf(plan, p) \in Contents \ {None, Edited}
           /\ debris = Adopt!Empty \/ cut
<1>1. run \in ApplyRuns /\ InApply
  BY RunKinds DEF AdoptInv, Applying
<1>2. run.n \in Nat
  BY <1>1 DEF ApplyRuns
<1>3. plan \in Plans /\ plan # None /\ Planned(plan) /\ run.todo = Append(plan.changed, Lock)
  BY <1>1 DEF AdoptInv, AdoptTypes, InApply, PlanFits
<1>4. plan.tx \in 1 .. MaxRuns /\ plan.changed \in Seq(Adopt!Files) /\ plan.lock \in LockRecords
  BY <1>3 DEF Plans
<1>5. Lock \in Adopt!Files /\ Lock \notin Members(plan.changed) /\ Apart(plan.changed)
  BY <1>3, ProfileFacts DEF Planned
<1>6. /\ run.todo \in Seq(Adopt!Files) /\ Len(run.todo) = Len(plan.changed) + 1 /\ Len(plan.changed) \in Nat
      /\ run.todo[Len(plan.changed) + 1] = Lock
  BY <1>3, <1>4, <1>5, AppendProperties, LenProperties
<1>7. Apart(run.todo) /\ Members(run.todo) = Members(plan.changed) \cup {Lock}
  BY <1>3, <1>4, <1>5, AppendMembers
<1>8. \A i \in 1 .. Len(run.todo) : run.todo[i] \in Adopt!Files
  BY <1>6, ElementOfSeq
<1>9. \A p : Adopt!After(p) = AfterOf(plan, p) /\ AfterOf(plan, p) \in Contents \ {None, Edited}
  <2>1. plan.tx \in Nat
    BY <1>4, ProfileFacts
  <2>2. plan.tx \in Contents \ {None, Edited} /\ plan.lock \in Contents \ {None, Edited}
    BY <1>4, <2>1, NoText DEF Contents
  <2>. QED  BY <2>2 DEF Adopt!After, AfterOf
<1>10. debris = Adopt!Empty \/ cut
  BY DEF AdoptInv, Leftovers
<1>. QED  BY <1>1, <1>2, <1>3, <1>4, <1>6, <1>7, <1>8, <1>9, <1>10

LEMMA ApplyStep ==
    ASSUME AdoptInv, run.command = "apply", run' \in ApplyRuns, AdoptTypes',
           UNCHANGED <<plan, receipt, undoing, debris, cut, drifted>>,
           Journals', NoJournal', InApply', Closing'
    PROVE  AdoptInv'
<1>1. PlanFits' /\ Receipts'
  BY PlansKept DEF AdoptInv
<1>2. Leftovers'
  BY ApplyFacts DEF Leftovers
<1>3. run'.command = "apply"
  BY DEF ApplyRuns
<1>4. Applying' /\ Recovering' /\ RollingBack'
  BY <1>3 DEF Applying, Recovering, RollingBack
<1>. QED  BY <1>1, <1>2, <1>4 DEF AdoptInv

(* A journal goes on while the files it names change and stay accounted.   *)
LEMMA JournalGoesOn ==
    ASSUME Journals, Written(journal), receipt[plan.tx] = None,
           UNCHANGED <<plan, receipt, undoing, drifted, journal>>,
           \A p \in Adopt!Files : p \notin PathsOf(journal) => disk'[p] = disk[p],
           AllAccounted(disk', drifted, journal)
    PROVE  Journals' /\ NoJournal'
<1>1. /\ plan # None /\ undoing = None /\ ~plan.open /\ OnePath(journal)
      /\ WasTrue(disk, drifted, journal)
  BY DEF Journals
<1>2. WasTrue(disk', drifted, journal)
  BY <1>1, WasKept
<1>3. journal # None
  BY DEF Written
<1>. QED  BY <1>1, <1>2, <1>3 DEF Journals, NoJournal

LEMMA StartApplyAdopt == AdoptInv /\ Adopt!StartApply => AdoptInv'
<1>. SUFFICES ASSUME AdoptInv, Adopt!StartApply PROVE AdoptInv'
  OBVIOUS
<1>1. /\ Adopt!Resting /\ plan # None /\ plan.open /\ journal = None /\ undoing = None
      /\ plan' = [plan EXCEPT !.open = FALSE]
      /\ UNCHANGED <<disk, staged, backup, debris, journal, receipt, undoing, ends, cut, drifted>>
  BY DEF Adopt!StartApply
<1>2. plan \in Plans /\ run \in RestingRuns
  BY <1>1, RunKinds DEF AdoptInv, AdoptTypes, Adopt!Resting
<1>3. /\ plan' \in Plans /\ plan'.tx = plan.tx /\ plan'.changed = plan.changed /\ plan'.lock = plan.lock
      /\ plan'.seen = plan.seen /\ ~plan'.open /\ plan' # None
  <2>1. plan' \in Plans /\ plan'.tx = plan.tx /\ plan'.changed = plan.changed /\ plan'.lock = plan.lock
         /\ plan'.seen = plan.seen /\ ~plan'.open
    BY <1>1, <1>2 DEF Plans
  <2>. QED  BY <2>1, NoText
<1>4. PlanFits' /\ Receipts' /\ Journals' /\ NoJournal'
  <2>1. Planned(plan) /\ Planned(plan')
    BY <1>1, <1>3 DEF AdoptInv, PlanFits, Planned
  <2>2. PlanFits'
    BY <1>3, <2>1 DEF PlanFits
  <2>3. Receipts'
    BY <1>1, <1>3 DEF AdoptInv, Receipts
  <2>. QED  BY <1>1, <2>2, <2>3 DEF AdoptInv, Journals, Written, NoJournal
<1>5. debris = Adopt!Empty \/ cut
  BY <1>2, RestingFacts DEF AdoptInv, Leftovers
<1>6. CASE run' = Adopt!Outcome
  <2>1. run' \in RestingRuns
    BY <1>6 DEF RestingRuns
  <2>2. AdoptTypes'
    BY <1>1, <1>3, <2>1 DEF AdoptInv, AdoptTypes
  <2>3. Leftovers'
    BY <1>1, <1>5 DEF Leftovers
  <2>4. Applying' /\ Closing' /\ Recovering' /\ RollingBack'
    BY <2>1, RestingFacts DEF Applying, Closing, Recovering, RollingBack
  <2>. QED  BY <1>4, <2>2, <2>3, <2>4 DEF AdoptInv
<1>7. CASE disk = plan.seen /\ Adopt!Begin("apply", "header", Append(plan.changed, Lock))
  <2>1. run' = [command |-> "apply", at |-> "header", n |-> 0, todo |-> Append(plan.changed, Lock)]
    BY <1>7 DEF Adopt!Begin
  <2>2. Append(plan.changed, Lock) \in Seq(Adopt!Files)
    BY <1>2, ProfileFacts, AppendProperties DEF Plans
  <2>3. run' \in ApplyRuns
    BY <2>1, <2>2 DEF ApplyRuns, AdoptPlaces
  <2>4. AdoptTypes'
    BY <1>1, <1>3, <2>3 DEF AdoptInv, AdoptTypes
  <2>5. LeavesOut(disk, drifted, plan, None)
    <3>1. LockIsTrue(disk, drifted)
      BY <1>1 DEF AdoptInv, NoJournal
    <3>. QED  BY <1>1, <1>7, <3>1 DEF AdoptInv, PlanFits, Planned, LockIsTrue, LeavesOut
  <2>6. LeavesOut(disk', drifted', plan', journal')
    BY <1>1, <1>3, <2>5 DEF LeavesOut
  <2>7. receipt[plan.tx] = None
    BY <1>1 DEF AdoptInv, PlanFits
  <2>8. run'.command = "apply" /\ run'.at = "header" /\ run'.todo = Append(plan'.changed, Lock)
    BY <1>3, <2>1
  <2>9. InApply'
    BY <1>1, <1>3, <2>6, <2>7, <2>8 DEF InApply
  <2>10. Applying' /\ Closing' /\ Recovering' /\ RollingBack'
    BY <2>8, <2>9 DEF Applying, Closing, Recovering, RollingBack
  <2>11. Leftovers'
    BY <1>1, <1>5 DEF Leftovers
  <2>. QED  BY <1>4, <2>4, <2>10, <2>11 DEF AdoptInv
<1>. QED  BY <1>6, <1>7 DEF Adopt!StartApply

LEMMA WriteHeaderAdopt == AdoptInv /\ Adopt!WriteHeader => AdoptInv'
<1>. SUFFICES ASSUME AdoptInv, Adopt!WriteHeader PROVE AdoptInv'
  OBVIOUS
<1>1. /\ run.command = "apply" /\ run.at = "header" /\ journal' = <<>>
      /\ Moved(run, run', "prepare", 1)
      /\ UNCHANGED <<disk, staged, backup, debris, plan, receipt, undoing, ends, cut, drifted, standing>>
  BY DEF Adopt!WriteHeader, Adopt!At, Adopt!Go, Moved
<1>2. /\ run \in ApplyRuns /\ InApply /\ Len(run.todo) \in Nat \ {0}
  BY <1>1, ApplyFacts
<1>3. run' \in ApplyRuns /\ run'.at = "prepare" /\ run'.n = 1 /\ run'.todo = run.todo
  <2>1. "prepare" \in AdoptPlaces /\ 1 \in Nat
    BY DEF AdoptPlaces
  <2>. QED  BY <1>1, <1>2, <2>1, RunMoves
<1>4. /\ plan # None /\ ~plan.open /\ undoing = None /\ journal = None
      /\ receipt[plan.tx] = None /\ LeavesOut(disk, drifted, plan, None)
      /\ run.todo = Append(plan.changed, Lock)
  BY <1>1, <1>2 DEF InApply
<1>5. staged = Adopt!Empty /\ backup = Adopt!Empty /\ LockIsTrue(disk, drifted)
  BY <1>4 DEF AdoptInv, NoJournal
<1>6. /\ journal' \in Seq(Mutations) /\ Written(journal') /\ OnePath(journal') /\ Len(journal') = 0
      /\ WasTrue(disk, drifted, journal') /\ LeavesOut(disk, drifted, plan, journal')
  BY <1>1, <1>4, <1>5, EmptyJournal
<1>7. AdoptTypes'
  BY <1>1, <1>3, <1>6 DEF AdoptInv, AdoptTypes, JournalValues
<1>8. Journals' /\ NoJournal'
  <2>1. AllAccounted(disk, drifted, journal')
    BY <1>6 DEF AllAccounted
  <2>. QED  BY <1>1, <1>4, <1>6, <2>1 DEF Journals, NoJournal, Written
<1>9. Preparing'
  <2>1. BackedUp(backup, run.todo, 0)
    BY <1>5 DEF BackedUp, Adopt!Empty
  <2>2. Recorded(journal', run.todo, plan, 0) /\ Swapped(disk, backup, drifted, journal', 0)
    BY <1>2, <1>6 DEF Recorded, Swapped
  <2>3. run'.n \in 1 .. Len(run'.todo) /\ run'.n - 1 = 0
    BY <1>2, <1>3
  <2>. QED  BY <1>1, <1>3, <1>5, <2>1, <2>2, <2>3 DEF Preparing
<1>10. InApply'
  BY <1>1, <1>3, <1>4, <1>6, <1>9 DEF InApply
<1>11. Closing'
  BY <1>3 DEF Closing
<1>. QED  BY <1>1, <1>3, <1>7, <1>8, <1>10, <1>11, ApplyStep

(* The path of a mutation that is recorded is not that of another.         *)
LEMMA OtherPaths ==
    ASSUME NEW todo, Apart(todo), NEW z, NEW pl, NEW k \in Nat, Recorded(z, todo, pl, k)
    PROVE  /\ \A i \in 1 .. k : z[i].path = todo[i] /\ z[i].after = AfterOf(pl, todo[i])
           /\ \A i \in 1 .. k, j \in 1 .. Len(todo) : i # j => z[i].path # todo[j]
           /\ k + 1 \in 1 .. Len(todo) => todo[k + 1] \notin PathsOf(z)
           /\ \A i \in 1 .. k : todo[i] \in PathsOf(z)
<1>1. /\ Len(z) = k /\ k <= Len(todo)
      /\ \A i \in 1 .. k : z[i].path = todo[i] /\ z[i].after = AfterOf(pl, todo[i])
  BY DEF Recorded
<1>2. CASE Len(todo) \in Nat
  <2>1. \A i \in 1 .. k : i \in 1 .. Len(todo)
    BY <1>1, <1>2
  <2>2. \A i \in 1 .. k, j \in 1 .. Len(todo) : i # j => z[i].path # todo[j]
    BY <1>1, <2>1 DEF Apart
  <2>3. k + 1 \in 1 .. Len(todo) => todo[k + 1] \notin PathsOf(z)
    BY <1>1, <2>2 DEF PathsOf
  <2>4. \A i \in 1 .. k : todo[i] \in PathsOf(z)
    BY <1>1 DEF PathsOf
  <2>. QED  BY <1>1, <2>2, <2>3, <2>4
<1>. QED  BY <1>2

LEMMA PrepareAdopt == AdoptInv /\ Adopt!Prepare => AdoptInv'
<1>. SUFFICES ASSUME AdoptInv, Adopt!Prepare PROVE AdoptInv'
  OBVIOUS
<1>. DEFINE p == run.todo[run.n]
            m == [path |-> p, before |-> disk[p], after |-> AfterOf(plan, p)]
<1>1. /\ run.command = "apply" /\ run.at = "prepare"
      /\ Moved(run, run', "stage", run.n)
      /\ UNCHANGED <<disk, staged, backup, debris, plan, receipt, undoing, ends, cut, drifted, standing>>
  BY DEF Adopt!Prepare, Adopt!At, Adopt!Go, Moved
<1>2. /\ run \in ApplyRuns /\ InApply /\ run.n \in Nat /\ plan # None
      /\ Len(run.todo) \in Nat \ {0} /\ Apart(run.todo) /\ \A i \in 1 .. Len(run.todo) : run.todo[i] \in Adopt!Files
      /\ \A q : Adopt!After(q) = AfterOf(plan, q) /\ AfterOf(plan, q) \in Contents \ {None, Edited}
  BY <1>1, ApplyFacts
<1>3. journal' = Append(journal, m)
  BY <1>2 DEF Adopt!Prepare, Adopt!Current
<1>4. run' \in ApplyRuns /\ run'.at = "stage" /\ run'.n = run.n /\ run'.todo = run.todo
  <2>1. "stage" \in AdoptPlaces
    BY DEF AdoptPlaces
  <2>. QED  BY <1>1, <1>2, <2>1, RunMoves
<1>5. /\ ~plan.open /\ undoing = None /\ Written(journal)
      /\ receipt[plan.tx] = None /\ LeavesOut(disk, drifted, plan, journal)
      /\ run.todo = Append(plan.changed, Lock) /\ Preparing
  BY <1>1, <1>2 DEF InApply
<1>6. journal \in Seq(Mutations) /\ OnePath(journal) /\ WasTrue(disk, drifted, journal) /\ AllAccounted(disk, drifted, journal)
  BY <1>5 DEF AdoptInv, AdoptTypes, JournalValues, Journals, Written
<1>7. /\ run.n \in 1 .. Len(run.todo) /\ staged = Adopt!Empty /\ run.n - 1 \in Nat /\ (run.n - 1) + 1 = run.n
      /\ Recorded(journal, run.todo, plan, run.n - 1) /\ BackedUp(backup, run.todo, run.n - 1)
      /\ Swapped(disk, backup, drifted, journal, run.n - 1)
  BY <1>2, <1>5 DEF Preparing
<1>8. p \in Adopt!Files /\ p \notin PathsOf(journal) /\ Len(journal) = run.n - 1
  <2>. DEFINE k == run.n - 1
  <2>1. k \in Nat /\ k + 1 = run.n /\ Recorded(journal, run.todo, plan, k) /\ k + 1 \in 1 .. Len(run.todo)
    BY <1>7
  <2>2. run.todo[k + 1] \notin PathsOf(journal)
    <3>. HIDE DEF k
    <3>. QED  BY <1>2, <2>1, OtherPaths
  <2>3. run.todo[run.n] \notin PathsOf(journal)
    BY <2>1, <2>2
  <2>. QED  BY <1>2, <1>7, <2>3 DEF Recorded
<1>9. m \in Mutations
  <2>1. disk[p] \in Contents
    BY <1>8 DEF AdoptInv, AdoptTypes, Disks
  <2>. QED  BY <1>2, <1>8, <2>1 DEF Mutations
<1>10. /\ m.path = p /\ m.before = disk[p] /\ m.after = AfterOf(plan, p)
  OBVIOUS
<1>. HIDE DEF m
<1>11. /\ journal' \in Seq(Mutations) /\ Len(journal') = run.n /\ OnePath(journal') /\ Written(journal')
       /\ journal'[run.n] = m /\ \A i \in 1 .. run.n - 1 : journal'[i] = journal[i]
       /\ WasTrue(disk, drifted, journal') /\ LeavesOut(disk, drifted, plan, journal') /\ AllAccounted(disk, drifted, journal')
  <2>. HIDE DEF p
  <2>1. Append(journal, m) \in Seq(Mutations)
    BY <1>6, <1>9, AppendProperties
  <2>2. Written(journal')
    BY <1>3, <2>1, NoText
  <2>3. m.path \notin PathsOf(journal) /\ disk[m.path] = m.before
    BY <1>8, <1>10
  <2>. QED  BY <1>3, <1>5, <1>6, <1>7, <1>8, <1>9, <2>2, <2>3, JournalGrows
<1>12. AdoptTypes'
  BY <1>1, <1>4, <1>11 DEF AdoptInv, AdoptTypes, JournalValues
<1>13. Journals' /\ NoJournal'
  BY <1>1, <1>2, <1>5, <1>11 DEF Journals, NoJournal, Written
<1>14. Staging'
  <2>1. Recorded(journal', run.todo, plan, run.n)
    <3>1. Recorded(journal, run.todo, plan, run.n - 1)
      BY <1>7
    <3>2. \A i \in 1 .. run.n - 1 : journal'[i].path = run.todo[i] /\ journal'[i].after = AfterOf(plan, run.todo[i])
      BY <1>11, <3>1 DEF Recorded
    <3>3. journal'[run.n].path = run.todo[run.n] /\ journal'[run.n].after = AfterOf(plan, run.todo[run.n])
      BY <1>10, <1>11
    <3>4. 1 .. run.n = (1 .. run.n - 1) \cup {run.n} /\ run.n <= Len(run.todo)
      BY <1>2, <1>7
    <3>. QED  BY <1>11, <3>2, <3>3, <3>4 DEF Recorded
  <2>2. Swapped(disk, backup, drifted, journal', run.n - 1)
    BY <1>7, <1>11 DEF Swapped
  <2>3. AsBefore(disk, drifted, journal'[run.n])
    BY <1>10, <1>11 DEF AsBefore, AsWritten
  <2>4. backup[p] = None
    BY <1>2, <1>7, <1>8 DEF BackedUp, Apart
  <2>. QED  BY <1>1, <1>4, <1>7, <2>1, <2>2, <2>3, <2>4 DEF Staging
<1>15. InApply'
  BY <1>1, <1>2, <1>4, <1>5, <1>11, <1>14 DEF InApply
<1>16. Closing'
  BY <1>4 DEF Closing
<1>. QED  BY <1>1, <1>4, <1>12, <1>13, <1>15, <1>16, ApplyStep

(* What the steps between the journal's header and its receipt find.       *)
LEMMA OpenApply ==
    ASSUME AdoptInv, run.command = "apply", run.at \in {"prepare", "stage", "away", "swap", "receipt", "undo"}
    PROVE  /\ ~plan.open /\ undoing = None /\ Written(journal) /\ receipt[plan.tx] = None
           /\ run.todo = Append(plan.changed, Lock) /\ LeavesOut(disk, drifted, plan, journal)
           /\ journal \in Seq(Mutations) /\ OnePath(journal) /\ Len(journal) \in Nat
           /\ WasTrue(disk, drifted, journal) /\ AllAccounted(disk, drifted, journal)
           /\ \A i \in 1 .. Len(journal) : journal[i] \in Mutations
<1>1. /\ plan # None /\ ~plan.open /\ undoing = None /\ Written(journal) /\ receipt[plan.tx] = None
      /\ run.todo = Append(plan.changed, Lock) /\ LeavesOut(disk, drifted, plan, journal)
  BY ApplyFacts DEF InApply
<1>2. /\ journal \in Seq(Mutations) /\ OnePath(journal)
      /\ WasTrue(disk, drifted, journal) /\ AllAccounted(disk, drifted, journal)
  BY <1>1 DEF AdoptInv, AdoptTypes, JournalValues, Journals, Written
<1>. QED  BY <1>1, <1>2, LenProperties, ElementOfSeq

LEMMA StageAdopt == AdoptInv /\ Adopt!Stage => AdoptInv'
<1>. SUFFICES ASSUME AdoptInv, Adopt!Stage PROVE AdoptInv'
  OBVIOUS
<1>. DEFINE p == run.todo[run.n]
<1>1. /\ run.command = "apply" /\ run.at = "stage" /\ Moved(run, run', "away", run.n)
      /\ UNCHANGED <<disk, backup, debris, plan, journal, receipt, undoing, ends, cut, drifted, standing>>
  BY DEF Adopt!Stage, Adopt!At, Adopt!Go, Moved
<1>2. /\ run \in ApplyRuns /\ InApply /\ run.n \in Nat /\ plan # None
      /\ \A i \in 1 .. Len(run.todo) : run.todo[i] \in Adopt!Files
      /\ \A q : Adopt!After(q) = AfterOf(plan, q) /\ AfterOf(plan, q) \in Contents \ {None, Edited}
  BY <1>1, ApplyFacts
<1>3. staged' = [staged EXCEPT ![p] = AfterOf(plan, p)]
  BY <1>2 DEF Adopt!Stage, Adopt!Current
<1>4. run' \in ApplyRuns /\ run'.at = "away" /\ run'.n = run.n /\ run'.todo = run.todo
  <2>1. "away" \in AdoptPlaces
    BY DEF AdoptPlaces
  <2>. QED  BY <1>1, <1>2, <2>1, RunMoves
<1>5. /\ ~plan.open /\ undoing = None /\ Written(journal) /\ receipt[plan.tx] = None
      /\ run.todo = Append(plan.changed, Lock) /\ LeavesOut(disk, drifted, plan, journal)
  BY <1>1, OpenApply
<1>6. Staging
  BY <1>1, <1>2 DEF InApply
<1>7. staged = Adopt!Empty /\ run.n \in 1 .. Len(run.todo)
  BY <1>1, <1>6 DEF Staging
<1>8. AdoptTypes'
  <2>1. staged' \in Disks
    BY <1>2, <1>3, <1>7 DEF AdoptInv, AdoptTypes, Disks
  <2>. QED  BY <1>1, <1>4, <2>1 DEF AdoptInv, AdoptTypes
<1>9. Journals' /\ NoJournal'
  BY <1>1, <1>5 DEF AdoptInv, Journals, NoJournal, Written
<1>10. Staging'
  BY <1>1, <1>3, <1>4, <1>6, <1>7 DEF Staging
<1>11. InApply'
  BY <1>1, <1>2, <1>4, <1>5, <1>10 DEF InApply
<1>12. Closing'
  BY <1>4 DEF Closing
<1>. QED  BY <1>1, <1>4, <1>8, <1>9, <1>11, <1>12, ApplyStep

(* Files that are not among the first k are left as they were.             *)
LEMMA SwappedKept ==
    ASSUME NEW d, NEW e, NEW f, NEW g, NEW dr, NEW z, NEW k,
           \A i \in 1 .. k : e[z[i].path] = d[z[i].path] /\ g[z[i].path] = f[z[i].path],
           Swapped(d, f, dr, z, k)
    PROVE  Swapped(e, g, dr, z, k)
  BY DEF Swapped, AsAfter, AsBefore, AsWritten

LEMMA AwayAdopt == AdoptInv /\ Adopt!Away => AdoptInv'
<1>. SUFFICES ASSUME AdoptInv, Adopt!Away PROVE AdoptInv'
  OBVIOUS
<1>. DEFINE p == run.todo[run.n]
            n == run.n
<1>1. /\ run.command = "apply" /\ run.at = "away" /\ Moved(run, run', "swap", run.n)
      /\ UNCHANGED <<staged, debris, plan, journal, receipt, undoing, ends, cut, drifted, standing>>
  BY DEF Adopt!Away, Adopt!At, Adopt!Go, Moved
<1>2. /\ run \in ApplyRuns /\ InApply /\ n \in Nat /\ plan # None
      /\ Len(run.todo) \in Nat \ {0} /\ Apart(run.todo)
      /\ \A i \in 1 .. Len(run.todo) : run.todo[i] \in Adopt!Files
  BY <1>1, ApplyFacts
<1>3. run' \in ApplyRuns /\ run'.at = "swap" /\ run'.n = n /\ run'.todo = run.todo
  <2>1. "swap" \in AdoptPlaces
    BY DEF AdoptPlaces
  <2>. QED  BY <1>1, <1>2, <2>1, RunMoves
<1>4. /\ ~plan.open /\ undoing = None /\ Written(journal) /\ receipt[plan.tx] = None
      /\ run.todo = Append(plan.changed, Lock) /\ LeavesOut(disk, drifted, plan, journal)
      /\ AllAccounted(disk, drifted, journal) /\ OnePath(journal)
  BY <1>1, OpenApply
<1>5. Staging
  BY <1>1, <1>2 DEF InApply
<1>6. /\ n \in 1 .. Len(run.todo) /\ staged = [Adopt!Empty EXCEPT ![p] = AfterOf(plan, p)]
      /\ Recorded(journal, run.todo, plan, n) /\ Len(journal) = n /\ BackedUp(backup, run.todo, n - 1)
      /\ Swapped(disk, backup, drifted, journal, n - 1)
      /\ AsBefore(disk, drifted, journal[n]) /\ backup[p] = None
  BY <1>1, <1>5 DEF Staging, Recorded
<1>7. /\ p \in Adopt!Files /\ journal[n].path = p /\ p \in PathsOf(journal)
      /\ \A i \in 1 .. n - 1 : i \in 1 .. n /\ journal[i].path # p
      /\ \A i \in 1 .. n - 1 : i \in 1 .. n /\ journal[i].path \in Adopt!Files
  <2>1. /\ \A i \in 1 .. n : journal[i].path = run.todo[i]
        /\ \A i \in 1 .. n, j \in 1 .. Len(run.todo) : i # j => journal[i].path # run.todo[j]
        /\ \A i \in 1 .. n : run.todo[i] \in PathsOf(journal)
    <3>. HIDE DEF n
    <3>. QED  BY <1>2, <1>6, OtherPaths
  <2>2. n \in 1 .. n /\ \A i \in 1 .. n - 1 : i \in 1 .. n /\ i # n /\ i \in 1 .. Len(run.todo)
    BY <1>6
  <2>. QED  BY <1>2, <1>6, <2>1, <2>2
<1>8. /\ disk' \in Disks /\ backup' \in Disks
      /\ disk'[p] = None /\ AsBefore(backup', drifted, journal[n])
      /\ \A q \in Adopt!Files : q # p => disk'[q] = disk[q] /\ backup'[q] = backup[q]
  <2>1. disk \in Disks /\ backup \in Disks /\ Adopt!Last(journal) = journal[n]
    BY <1>6, AdoptOperators DEF AdoptInv, AdoptTypes
  <2>2. CASE journal[n].before = None
    <3>1. disk' = disk /\ backup' = backup
      BY <2>1, <2>2 DEF Adopt!Away
    <3>. QED  BY <1>6, <1>7, <2>1, <2>2, <3>1 DEF AsBefore, AsWritten
  <2>3. CASE journal[n].before # None
    <3>1. backup' = [backup EXCEPT ![p] = disk[p]] /\ disk' = [disk EXCEPT ![p] = None]
      BY <2>1, <2>3 DEF Adopt!Away, Adopt!Current
    <3>2. disk' \in Disks /\ backup' \in Disks
      BY <1>7, <2>1, <3>1 DEF Disks, Contents
    <3>3. disk'[p] = None /\ backup'[p] = disk[p] /\ \A q \in Adopt!Files : q # p => disk'[q] = disk[q] /\ backup'[q] = backup[q]
      BY <1>7, <2>1, <3>1 DEF Disks
    <3>. QED  BY <1>6, <1>7, <3>2, <3>3 DEF AsBefore, AsWritten
  <2>. QED  BY <2>2, <2>3
<1>9. AdoptTypes'
  BY <1>1, <1>3, <1>8 DEF AdoptInv, AdoptTypes
<1>10. \A q \in Adopt!Files : q \notin PathsOf(journal) => disk'[q] = disk[q]
  BY <1>7, <1>8
<1>11. Journals' /\ NoJournal'
  <2>1. AllAccounted(disk', drifted, journal)
    <3>. SUFFICES ASSUME NEW i \in 1 .. n PROVE Accounted(drifted, journal[i], disk'[journal[i].path])
      BY <1>6 DEF AllAccounted
    <3>1. CASE i \in 1 .. n - 1
      BY <1>4, <1>6, <1>7, <1>8, <3>1 DEF AllAccounted
    <3>2. CASE i = n
      BY <1>7, <1>8, <3>2 DEF Accounted
    <3>. QED  BY <1>2, <3>1, <3>2
  <2>. QED  BY <1>1, <1>4, <1>10, <2>1, JournalGoesOn DEF AdoptInv
<1>12. Swapping'
  <2>1. Swapped(disk', backup', drifted, journal, n - 1)
    BY <1>6, <1>7, <1>8, SwappedKept
  <2>2. BackedUp(backup', run.todo, n)
    BY <1>2, <1>6, <1>8 DEF BackedUp
  <2>. QED  BY <1>1, <1>3, <1>6, <1>8, <2>1, <2>2 DEF Swapping
<1>13. LeavesOut(disk', drifted, plan, journal)
  BY <1>4, <1>10, WasKept DEF Written
<1>14. InApply'
  BY <1>1, <1>2, <1>3, <1>4, <1>12, <1>13 DEF InApply
<1>15. Closing'
  BY <1>3 DEF Closing
<1>. QED  BY <1>1, <1>3, <1>9, <1>11, <1>14, <1>15, ApplyStep

LEMMA SwapAdopt == AdoptInv /\ Adopt!Swap => AdoptInv'
<1>. SUFFICES ASSUME AdoptInv, Adopt!Swap PROVE AdoptInv'
  OBVIOUS
<1>. DEFINE p == run.todo[run.n]
            n == run.n
            place == IF n = Len(run.todo) THEN "receipt" ELSE "prepare"
            k == IF n = Len(run.todo) THEN n ELSE n + 1
<1>1. /\ run.command = "apply" /\ run.at = "swap"
      /\ UNCHANGED <<backup, debris, plan, journal, receipt, undoing, ends, cut, drifted, standing>>
  BY DEF Adopt!Swap, Adopt!At
<1>2. /\ run \in ApplyRuns /\ InApply /\ n \in Nat /\ plan # None
      /\ Len(run.todo) \in Nat \ {0} /\ Apart(run.todo)
      /\ \A i \in 1 .. Len(run.todo) : run.todo[i] \in Adopt!Files
      /\ \A q : AfterOf(plan, q) \in Contents \ {None, Edited}
  BY <1>1, ApplyFacts
<1>3. run' \in ApplyRuns /\ run'.at = place /\ run'.n = k /\ run'.todo = run.todo
  <2>1. place \in AdoptPlaces /\ k \in Nat
    BY <1>2 DEF AdoptPlaces
  <2>2. Moved(run, run', place, k)
    BY DEF Adopt!Swap, Adopt!Go, Moved
  <2>. HIDE DEF place, k
  <2>. QED  BY <1>2, <2>1, <2>2, RunMoves
<1>4. /\ ~plan.open /\ undoing = None /\ Written(journal) /\ receipt[plan.tx] = None
      /\ run.todo = Append(plan.changed, Lock) /\ LeavesOut(disk, drifted, plan, journal)
      /\ AllAccounted(disk, drifted, journal) /\ OnePath(journal)
  BY <1>1, OpenApply
<1>5. Swapping
  BY <1>1, <1>2 DEF InApply
<1>6. /\ n \in 1 .. Len(run.todo) /\ staged = [Adopt!Empty EXCEPT ![p] = AfterOf(plan, p)]
      /\ Recorded(journal, run.todo, plan, n) /\ Len(journal) = n /\ BackedUp(backup, run.todo, n)
      /\ Swapped(disk, backup, drifted, journal, n - 1)
      /\ disk[p] = None /\ AsBefore(backup, drifted, journal[n])
  BY <1>5 DEF Swapping, Recorded
<1>7. /\ p \in Adopt!Files /\ journal[n].path = p /\ p \in PathsOf(journal) /\ journal[n].after = AfterOf(plan, p)
      /\ \A i \in 1 .. n - 1 : i \in 1 .. n /\ journal[i].path # p
      /\ \A i \in 1 .. n - 1 : i \in 1 .. n /\ journal[i].path \in Adopt!Files
  <2>1. /\ \A i \in 1 .. n : journal[i].path = run.todo[i] /\ journal[i].after = AfterOf(plan, run.todo[i])
        /\ \A i \in 1 .. n, j \in 1 .. Len(run.todo) : i # j => journal[i].path # run.todo[j]
        /\ \A i \in 1 .. n : run.todo[i] \in PathsOf(journal)
    <3>. HIDE DEF n
    <3>. QED  BY <1>2, <1>6, OtherPaths
  <2>2. n \in 1 .. n /\ \A i \in 1 .. n - 1 : i \in 1 .. n /\ i # n /\ i \in 1 .. Len(run.todo)
    BY <1>6
  <2>. QED  BY <1>2, <1>6, <2>1, <2>2
<1>8. /\ disk' \in Disks /\ staged' = Adopt!Empty
      /\ disk'[p] = AfterOf(plan, p)
      /\ \A q \in Adopt!Files : q # p => disk'[q] = disk[q]
  <2>1. disk' = [disk EXCEPT ![p] = staged[p]] /\ staged' = [staged EXCEPT ![p] = None] /\ disk \in Disks
    BY DEF Adopt!Swap, Adopt!Current, AdoptInv, AdoptTypes
  <2>2. staged[p] = AfterOf(plan, p)
    BY <1>6, <1>7 DEF Adopt!Empty
  <2>3. staged' = Adopt!Empty
    BY <1>6, <1>7, <2>1 DEF Adopt!Empty
  <2>. QED  BY <1>2, <1>7, <2>1, <2>2, <2>3 DEF Disks
<1>9. AdoptTypes'
  <2>1. staged' \in Disks
    BY <1>8 DEF Adopt!Empty, Disks, Contents
  <2>. QED  BY <1>1, <1>3, <1>8, <2>1 DEF AdoptInv, AdoptTypes
<1>10. \A q \in Adopt!Files : q \notin PathsOf(journal) => disk'[q] = disk[q]
  BY <1>7, <1>8
<1>11. Journals' /\ NoJournal'
  <2>1. AllAccounted(disk', drifted, journal)
    <3>. SUFFICES ASSUME NEW i \in 1 .. n PROVE Accounted(drifted, journal[i], disk'[journal[i].path])
      BY <1>6 DEF AllAccounted
    <3>1. CASE i \in 1 .. n - 1
      BY <1>4, <1>6, <1>7, <1>8, <3>1 DEF AllAccounted
    <3>2. CASE i = n
      BY <1>7, <1>8, <3>2 DEF Accounted
    <3>. QED  BY <1>2, <3>1, <3>2
  <2>. QED  BY <1>1, <1>4, <1>10, <2>1, JournalGoesOn DEF AdoptInv
<1>12. Swapped(disk', backup, drifted, journal, n)
  <2>1. Swapped(disk', backup, drifted, journal, n - 1)
    BY <1>6, <1>7, <1>8, SwappedKept
  <2>2. AsAfter(disk', drifted, journal[n]) /\ AsBefore(backup, drifted, journal[n])
    BY <1>6, <1>7, <1>8 DEF AsAfter, AsWritten
  <2>3. \A i \in 1 .. n : i \in 1 .. n - 1 \/ i = n
    BY <1>2
  <2>. QED  BY <2>1, <2>2, <2>3 DEF Swapped
<1>13. LeavesOut(disk', drifted, plan, journal)
  BY <1>4, <1>10, WasKept DEF Written
<1>14. CASE n = Len(run.todo)
  <2>1. Receipting'
    BY <1>1, <1>3, <1>6, <1>8, <1>12, <1>14 DEF Receipting
  <2>2. run'.at = "receipt"
    BY <1>3, <1>14
  <2>3. InApply'
    BY <1>1, <1>2, <1>3, <1>4, <1>13, <2>1, <2>2 DEF InApply
  <2>4. Closing'
    BY <2>2 DEF Closing
  <2>. QED  BY <1>1, <1>3, <1>9, <1>11, <2>3, <2>4, ApplyStep
<1>15. CASE n # Len(run.todo)
  <2>1. run'.n \in 1 .. Len(run'.todo) /\ run'.n - 1 = n /\ run'.at = "prepare"
    BY <1>2, <1>3, <1>6, <1>15
  <2>2. Preparing'
    BY <1>1, <1>3, <1>6, <1>8, <1>12, <2>1 DEF Preparing
  <2>3. InApply'
    BY <1>1, <1>2, <1>3, <1>4, <1>13, <2>1, <2>2 DEF InApply
  <2>4. Closing'
    BY <2>1 DEF Closing
  <2>. QED  BY <1>1, <1>3, <1>9, <1>11, <2>3, <2>4, ApplyStep
<1>. QED  BY <1>14, <1>15

LEMMA WriteReceiptAdopt == AdoptInv /\ Adopt!WriteReceipt => AdoptInv'
<1>. SUFFICES ASSUME AdoptInv, Adopt!WriteReceipt PROVE AdoptInv'
  OBVIOUS
<1>. DEFINE n == run.n
<1>1. /\ run.command = "apply" /\ run.at = "receipt" /\ receipt' = [receipt EXCEPT ![plan.tx] = journal]
      /\ Moved(run, run', "cleanup", 0)
      /\ UNCHANGED <<disk, staged, backup, debris, plan, journal, undoing, ends, cut, drifted, standing>>
  BY DEF Adopt!WriteReceipt, Adopt!At, Adopt!Go, Moved
<1>2. /\ run \in ApplyRuns /\ InApply /\ n \in Nat /\ plan # None /\ Planned(plan)
      /\ plan.tx \in 1 .. MaxRuns /\ Len(run.todo) \in Nat \ {0} /\ Apart(run.todo)
      /\ run.todo[Len(run.todo)] = Lock /\ Members(run.todo) = Members(plan.changed) \cup {Lock}
      /\ \A q : AfterOf(plan, q) \in Contents \ {None, Edited}
      /\ debris = Adopt!Empty \/ cut
  BY <1>1, ApplyFacts
<1>3. run' \in ApplyRuns /\ run'.at = "cleanup" /\ run'.n = 0 /\ run'.todo = run.todo
  <2>1. "cleanup" \in AdoptPlaces
    BY DEF AdoptPlaces
  <2>. QED  BY <1>1, <1>2, <2>1, RunMoves
<1>4. /\ ~plan.open /\ undoing = None /\ Written(journal) /\ receipt[plan.tx] = None
      /\ run.todo = Append(plan.changed, Lock) /\ LeavesOut(disk, drifted, plan, journal)
      /\ journal \in Seq(Mutations) /\ OnePath(journal) /\ WasTrue(disk, drifted, journal)
  BY <1>1, OpenApply
<1>5. /\ n = Len(run.todo) /\ staged = Adopt!Empty /\ Recorded(journal, run.todo, plan, n) /\ Len(journal) = n
      /\ Swapped(disk, backup, drifted, journal, n)
  BY <1>1, <1>2 DEF InApply, Receipting, Recorded
<1>6. /\ \A i \in 1 .. n : journal[i].path = run.todo[i] /\ journal[i].after = AfterOf(plan, run.todo[i])
      /\ PathsOf(journal) = Members(plan.changed) \cup {Lock}
  <2>1. \A i \in 1 .. n : journal[i].path = run.todo[i] /\ journal[i].after = AfterOf(plan, run.todo[i])
    BY <1>5 DEF Recorded
  <2>2. PathsOf(journal) = Members(run.todo)
    BY <1>5, <2>1 DEF PathsOf, Members
  <2>. QED  BY <1>2, <2>1, <2>2
<1>7. \A p \in PathsOf(journal) : Entry(journal, p).after = AfterOf(plan, p)
  <2>. TAKE p \in PathsOf(journal)
  <2>1. PICK i \in 1 .. Len(journal) : journal[i].path = p /\ Entry(journal, p) = journal[i]
    BY <1>4, EntryFact
  <2>. QED  BY <1>5, <1>6, <2>1
<1>8. Lock \in PathsOf(journal) /\ Entry(journal, Lock).after = plan.lock
  BY <1>6, <1>7 DEF AfterOf
<1>9. BecameTrue(journal)
  <2>. SUFFICES ASSUME NEW p \in ManagedFiles
                PROVE  Silent(plan.lock, p) \/ (p \in PathsOf(journal) /\ Claims(plan.lock, p, Entry(journal, p).after))
    BY <1>8 DEF BecameTrue
  <2>1. plan.lock.entry[p] \in {Merged, Removed} \/ (p \in Members(plan.changed) /\ plan.lock.entry[p] = plan.tx)
    BY <1>2 DEF Planned
  <2>2. CASE plan.lock.entry[p] \in {Merged, Removed}
    BY <2>2 DEF Silent
  <2>3. CASE p \in Members(plan.changed) /\ plan.lock.entry[p] = plan.tx
    <3>1. p # Lock /\ p \in PathsOf(journal)
      BY <1>6, <2>3, ProfileFacts
    <3>2. Entry(journal, p).after = plan.tx /\ plan.tx # None
      <4>1. AfterOf(plan, p) = plan.tx
        BY <3>1 DEF AfterOf
      <4>2. AfterOf(plan, p) # None
        BY <1>2
      <4>. QED  BY <1>7, <3>1, <4>1, <4>2
    <3>. QED  BY <2>3, <3>1, <3>2 DEF Claims
  <2>. QED  BY <2>1, <2>2, <2>3
<1>10. HadBeenTrue(journal, drifted)
  <2>. SUFFICES ASSUME NEW p \in ManagedFiles \ drifted
                PROVE  \/ Silent(Entry(journal, Lock).before, p)
                       \/ p \in PathsOf(journal) /\ Claims(Entry(journal, Lock).before, p, Entry(journal, p).before)
    BY DEF HadBeenTrue
  <2>1. Was(disk, journal, Lock) = Entry(journal, Lock).before
    BY <1>8 DEF Was
  <2>2. CASE p \in PathsOf(journal)
    BY <1>4, <2>1, <2>2 DEF WasTrue, Was
  <2>3. CASE p \notin PathsOf(journal)
    BY <1>4, <1>6, <2>1, <2>3 DEF LeavesOut, Written
  <2>. QED  BY <2>2, <2>3
<1>11. AllAfter(disk, drifted, journal)
  BY <1>5 DEF Swapped, AllAfter
<1>12. /\ receipt' \in [1 .. MaxRuns -> ReceiptValues] /\ receipt'[plan.tx] = journal /\ journal # None
       /\ \A k \in 1 .. MaxRuns : k # plan.tx => receipt'[k] = receipt[k]
  <2>1. receipt \in [1 .. MaxRuns -> ReceiptValues] /\ journal \in ReceiptValues
    BY <1>4 DEF AdoptInv, AdoptTypes, ReceiptValues
  <2>. QED  BY <1>1, <1>2, <1>4, <2>1 DEF Written
<1>13. AdoptTypes'
  BY <1>1, <1>3, <1>12 DEF AdoptInv, AdoptTypes
<1>14. PlanFits'
  BY <1>1, <1>2, <1>4 DEF PlanFits
<1>15. Receipts'
  <2>1. ReceiptFits(journal, drifted) /\ plan.tx <= plan.tx
    BY <1>2, <1>4, <1>8, <1>9, <1>10, ProfileFacts DEF ReceiptFits
  <2>2. ASSUME NEW k \in 1 .. MaxRuns, receipt'[k] # None
        PROVE  plan' # None /\ k <= plan'.tx /\ ReceiptFits(receipt'[k], drifted')
    <3>1. CASE k = plan.tx
      BY <1>1, <1>2, <1>12, <2>1, <3>1
    <3>2. CASE k # plan.tx
      BY <1>1, <1>12, <2>2, <3>2 DEF AdoptInv, Receipts
    <3>. QED  BY <3>1, <3>2
  <2>. QED  BY <2>2 DEF Receipts
<1>16. Journals' /\ NoJournal'
  BY <1>1, <1>2, <1>4, <1>11, <1>12 DEF Journals, NoJournal, Written
<1>17. Leftovers'
  BY <1>1, <1>2 DEF Leftovers
<1>18. InApply'
  BY <1>1, <1>2, <1>3, <1>4, <1>5, <1>12 DEF InApply
<1>19. Applying' /\ Closing' /\ Recovering' /\ RollingBack'
  <2>1. run'.command = "apply"
    BY <1>3 DEF ApplyRuns
  <2>. QED  BY <1>3, <1>18, <2>1 DEF Applying, Closing, Recovering, RollingBack
<1>. QED  BY <1>13, <1>14, <1>15, <1>16, <1>17, <1>19 DEF AdoptInv

LEMMA DropBackupsAdopt == AdoptInv /\ Adopt!DropBackups => AdoptInv'
<1>. SUFFICES ASSUME AdoptInv, Adopt!DropBackups PROVE AdoptInv'
  OBVIOUS
<1>1. /\ run.command = "apply" /\ run.at = "cleanup" /\ backup' = Adopt!Empty /\ Moved(run, run', "close", 0)
      /\ UNCHANGED <<disk, staged, debris, plan, journal, receipt, undoing, ends, cut, drifted, standing>>
  BY DEF Adopt!DropBackups, Adopt!At, Adopt!Go, Moved
<1>2. run \in ApplyRuns /\ InApply
  BY <1>1, ApplyFacts
<1>3. run' \in ApplyRuns /\ run'.at = "close" /\ run'.todo = run.todo
  <2>1. "close" \in AdoptPlaces
    BY DEF AdoptPlaces
  <2>. QED  BY <1>1, <1>2, <2>1, RunMoves
<1>4. /\ plan # None /\ ~plan.open /\ undoing = None /\ Written(journal) /\ run.todo = Append(plan.changed, Lock)
      /\ receipt[plan.tx] # None /\ staged = Adopt!Empty
  BY <1>1, <1>2 DEF InApply
<1>5. AdoptTypes'
  <2>1. backup' \in Disks
    BY <1>1 DEF Adopt!Empty, Disks, Contents
  <2>. QED  BY <1>1, <1>3, <2>1 DEF AdoptInv, AdoptTypes
<1>6. Journals' /\ NoJournal'
  BY <1>1, <1>4 DEF AdoptInv, Journals, NoJournal, Written
<1>7. InApply'
  BY <1>1, <1>3, <1>4 DEF InApply
<1>8. Closing'
  BY <1>1, <1>4 DEF Closing
<1>. QED  BY <1>1, <1>3, <1>5, <1>6, <1>7, <1>8, ApplyStep

LEMMA CloseJournalAdopt == AdoptInv /\ Adopt!CloseJournal => AdoptInv'
<1>. SUFFICES ASSUME AdoptInv, Adopt!CloseJournal PROVE AdoptInv'
  OBVIOUS
<1>1. /\ run.at = "close" /\ run.command \in {"apply", "recover"} /\ journal' = None /\ run' = Adopt!Idle
      /\ UNCHANGED <<disk, staged, backup, debris, plan, receipt, undoing, ends, cut, drifted, standing>>
  BY DEF Adopt!CloseJournal
<1>2. /\ Written(journal) /\ staged = Adopt!Empty /\ backup = Adopt!Empty
      /\ receipt[plan.tx] = None => AllBefore(disk, drifted, journal)
  BY <1>1 DEF AdoptInv, Closing
<1>3. /\ plan # None /\ undoing = None /\ OnePath(journal) /\ plan.tx \in 1 .. MaxRuns
      /\ IF receipt[plan.tx] # None
         THEN journal = receipt[plan.tx] /\ AllAfter(disk, drifted, journal)
         ELSE WasTrue(disk, drifted, journal)
  BY <1>2 DEF AdoptInv, AdoptTypes, Plans, Journals
<1>4. LockIsTrue(disk, drifted)
  <2>1. CASE receipt[plan.tx] = None
    BY <1>2, <1>3, <2>1, TrueAsBefore
  <2>2. CASE receipt[plan.tx] # None
    <3>1. ReceiptFits(journal, drifted)
      BY <1>3, <2>2 DEF AdoptInv, Receipts
    <3>. QED  BY <1>3, <2>2, <3>1, TrueByReceipt
  <2>. QED  BY <2>1, <2>2
<1>5. run' \in RestingRuns
  BY <1>1 DEF RestingRuns
<1>6. AdoptTypes'
  BY <1>1, <1>5 DEF AdoptInv, AdoptTypes, JournalValues
<1>7. PlanFits' /\ Receipts'
  BY <1>1, PlansKept DEF AdoptInv
<1>8. Journals' /\ NoJournal'
  BY <1>1, <1>2, <1>3, <1>4 DEF Journals, NoJournal, Written
<1>9. Leftovers'
  BY <1>1 DEF AdoptInv, Leftovers
<1>10. Applying' /\ Closing' /\ Recovering' /\ RollingBack'
  BY <1>5, RestingFacts DEF Applying, Closing, Recovering, RollingBack
<1>. QED  BY <1>6, <1>7, <1>8, <1>9, <1>10 DEF AdoptInv

LEMMA FailApplyAdopt == AdoptInv /\ Adopt!FailApply => AdoptInv'
<1>. SUFFICES ASSUME AdoptInv, Adopt!FailApply PROVE AdoptInv'
  OBVIOUS
<1>. DEFINE n == run.n
            p == run.todo[run.n]
            k == IF run.at = "receipt" THEN Len(run.todo) ELSE n - 1
            put == run.at \in {"stage", "away", "swap"} /\ disk[p] = None /\ backup[p] # None
<1>1. /\ run.command = "apply" /\ run.at \in {"prepare", "stage", "away", "swap", "receipt", "cleanup", "close"}
      /\ UNCHANGED <<debris, plan, journal, receipt, undoing, ends, cut, drifted, standing>>
  BY DEF Adopt!FailApply
<1>2. /\ run \in ApplyRuns /\ InApply /\ n \in Nat /\ plan # None
      /\ Len(run.todo) \in Nat \ {0} /\ Apart(run.todo) /\ (debris = Adopt!Empty \/ cut)
      /\ \A i \in 1 .. Len(run.todo) : run.todo[i] \in Adopt!Files
  BY <1>1, ApplyFacts
<1>3. CASE run.at \in {"cleanup", "close"}
  <2>1. run' = Adopt!Outcome /\ UNCHANGED <<disk, staged, backup>>
    BY <1>3 DEF Adopt!FailApply
  <2>2. run' \in RestingRuns
    BY <2>1 DEF RestingRuns
  <2>3. AdoptTypes' /\ Journals' /\ NoJournal' /\ PlanFits' /\ Receipts'
    BY <1>1, <2>1, <2>2, PlansKept DEF AdoptInv, AdoptTypes, Journals, NoJournal
  <2>4. Leftovers'
    BY <1>1, <1>2 DEF Leftovers
  <2>5. Applying' /\ Closing' /\ Recovering' /\ RollingBack'
    BY <2>2, RestingFacts DEF Applying, Closing, Recovering, RollingBack
  <2>. QED  BY <2>3, <2>4, <2>5 DEF AdoptInv
<1>4. CASE run.at \notin {"cleanup", "close"}
  <2>1. /\ staged' = Adopt!Empty
        /\ IF put THEN disk' = [disk EXCEPT ![p] = backup[p]] /\ backup' = [backup EXCEPT ![p] = None]
                  ELSE UNCHANGED <<disk, backup>>
        /\ Moved(run, run', "undo", k)
    BY <1>4 DEF Adopt!FailApply, Adopt!Current, Adopt!Go, Moved
  <2>2. /\ ~plan.open /\ undoing = None /\ Written(journal) /\ receipt[plan.tx] = None
        /\ run.todo = Append(plan.changed, Lock) /\ LeavesOut(disk, drifted, plan, journal)
        /\ AllAccounted(disk, drifted, journal) /\ OnePath(journal) /\ Len(journal) \in Nat
    BY <1>1, <1>4, OpenApply
  <2>3. CASE run.at = "swap" /\ put
    <3>. HIDE DEF put
    <3>0. Swapping
      BY <1>2, <2>3 DEF InApply
    <3>1. /\ n \in 1 .. Len(run.todo) /\ Recorded(journal, run.todo, plan, n) /\ Len(journal) = n
          /\ BackedUp(backup, run.todo, n) /\ Swapped(disk, backup, drifted, journal, n - 1)
          /\ disk[p] = None /\ AsBefore(backup, drifted, journal[n])
      BY <3>0 DEF Swapping, Recorded
    <3>2. /\ p \in Adopt!Files /\ journal[n].path = p /\ p \in PathsOf(journal)
          /\ \A i \in 1 .. n - 1 : i \in 1 .. n /\ journal[i].path # p
          /\ \A i \in 1 .. n - 1 : i \in 1 .. n /\ journal[i].path \in Adopt!Files
      <4>1. /\ \A i \in 1 .. n : journal[i].path = run.todo[i]
            /\ \A i \in 1 .. n, j \in 1 .. Len(run.todo) : i # j => journal[i].path # run.todo[j]
            /\ \A i \in 1 .. n : run.todo[i] \in PathsOf(journal)
        <5>. HIDE DEF n
        <5>. QED  BY <1>2, <3>1, OtherPaths
      <4>2. n \in 1 .. n /\ \A i \in 1 .. n - 1 : i \in 1 .. n /\ i # n /\ i \in 1 .. Len(run.todo)
        BY <3>1
      <4>. QED  BY <1>2, <3>1, <4>1, <4>2
    <3>3. /\ disk' \in Disks /\ backup' \in Disks /\ disk'[p] = backup[p] /\ backup'[p] = None
          /\ \A q \in Adopt!Files : q # p => disk'[q] = disk[q] /\ backup'[q] = backup[q]
      <4>1. disk' = [disk EXCEPT ![p] = backup[p]] /\ backup' = [backup EXCEPT ![p] = None] /\ disk \in Disks /\ backup \in Disks
        BY <2>1, <2>3 DEF AdoptInv, AdoptTypes
      <4>. QED  BY <3>2, <4>1 DEF Disks, Contents
    <3>4. \A q \in Adopt!Files : q \notin PathsOf(journal) => disk'[q] = disk[q]
      BY <3>2, <3>3
    <3>5. AsBefore(disk', drifted, journal[n])
      BY <3>1, <3>2, <3>3 DEF AsBefore, AsWritten
    <3>6. AllAccounted(disk', drifted, journal)
      <4>. SUFFICES ASSUME NEW i \in 1 .. n PROVE Accounted(drifted, journal[i], disk'[journal[i].path])
        BY <3>1 DEF AllAccounted
      <4>1. CASE i \in 1 .. n - 1
        BY <2>2, <3>1, <3>2, <3>3, <4>1 DEF AllAccounted
      <4>2. CASE i = n
        BY <3>5, <4>2 DEF Accounted, AsBefore, AsWritten
      <4>. QED  BY <1>2, <4>1, <4>2
    <3>7. Swapped(disk', backup', drifted, journal, n - 1)
      <4>1. \A i \in 1 .. n - 1 : disk'[journal[i].path] = disk[journal[i].path] /\ backup'[journal[i].path] = backup[journal[i].path]
        BY <3>2, <3>3
      <4>. HIDE DEF n
      <4>. QED  BY <3>1, <4>1, SwappedKept
    <3>8. BackedUp(backup', run.todo, n - 1)
      <4>. SUFFICES ASSUME NEW q \in Adopt!Files, backup'[q] # None PROVE \E i \in 1 .. n - 1 : run.todo[i] = q
        BY DEF BackedUp
      <4>1. q # p /\ backup[q] # None
        BY <3>3
      <4>2. PICK i \in 1 .. n : run.todo[i] = q
        BY <3>1, <4>1 DEF BackedUp
      <4>3. i # n
        BY <4>1, <4>2
      <4>. QED  BY <1>2, <4>2, <4>3
    <3>9. Journals' /\ NoJournal'
      BY <1>1, <2>2, <3>4, <3>6, JournalGoesOn DEF AdoptInv
    <3>10. LeavesOut(disk', drifted, plan, journal)
      BY <2>2, <3>4, WasKept DEF Written
    <3>11. /\ k \in Nat /\ k = n - 1 /\ k \in 0 .. Len(journal) /\ Recorded(journal, run.todo, plan, Len(journal))
           /\ \A i \in k + 1 .. Len(journal) : i = n
      BY <1>2, <2>3, <3>1
    <3>. HIDE DEF k
    <3>12. run' \in ApplyRuns /\ run'.at = "undo" /\ run'.n = k /\ run'.todo = run.todo
      <4>1. "undo" \in AdoptPlaces
        BY DEF AdoptPlaces
      <4>. QED  BY <1>2, <2>1, <3>11, <4>1, RunMoves
    <3>13. AdoptTypes'
      <4>1. staged' \in Disks
        BY <2>1 DEF Adopt!Empty, Disks, Contents
      <4>. QED  BY <1>1, <3>3, <3>12, <4>1 DEF AdoptInv, AdoptTypes
    <3>14. Undoing'
      BY <1>1, <2>1, <3>5, <3>7, <3>8, <3>11, <3>12 DEF Undoing
    <3>15. InApply'
      BY <1>1, <1>2, <2>2, <3>10, <3>12, <3>14 DEF InApply
    <3>16. Closing'
      BY <3>12 DEF Closing
    <3>. QED  BY <1>1, <3>9, <3>12, <3>13, <3>15, <3>16, ApplyStep
  <2>4. CASE ~(run.at = "swap" /\ put)
    <3>1. /\ k \in 0 .. Len(journal) /\ Recorded(journal, run.todo, plan, Len(journal))
          /\ BackedUp(backup, run.todo, k) /\ Swapped(disk, backup, drifted, journal, k)
          /\ \A i \in k + 1 .. Len(journal) : AsBefore(disk, drifted, journal[i])
          /\ ~put
      <4>1. CASE run.at = "prepare"
        <5>1. Preparing
          BY <1>2, <4>1 DEF InApply
        <5>2. k = n - 1 /\ Len(journal) = k /\ k \in Nat
          BY <1>2, <4>1, <5>1 DEF Preparing, Recorded
        <5>. HIDE DEF put, k
        <5>3. ~put
          BY <4>1 DEF put
        <5>. QED  BY <1>2, <5>1, <5>2, <5>3 DEF Preparing
      <4>2. CASE run.at \in {"stage", "away"}
        <5>1. Staging
          BY <1>2, <4>2 DEF InApply
        <5>2. k = n - 1 /\ Len(journal) = n /\ k \in Nat /\ k + 1 = n
          BY <1>2, <4>2, <5>1 DEF Staging, Recorded
        <5>3. ~put
          BY <5>1 DEF Staging
        <5>4. \A i \in k + 1 .. Len(journal) : i = n
          BY <5>2
        <5>. HIDE DEF put, k
        <5>. QED  BY <1>2, <5>1, <5>2, <5>3, <5>4 DEF Staging
      <4>3. CASE run.at = "swap"
        <5>1. Swapping
          BY <1>2, <4>3 DEF InApply
        <5>2. k = n - 1 /\ Len(journal) = n /\ k \in Nat /\ k + 1 = n /\ n \in 1 .. Len(run.todo)
          BY <1>2, <4>3, <5>1 DEF Swapping, Recorded
        <5>3. ~put /\ backup[p] = None /\ disk[p] = None
          BY <2>4, <4>3, <5>1 DEF Swapping
        <5>4. \A i \in k + 1 .. Len(journal) : i = n
          BY <5>2
        <5>. HIDE DEF put, k
        <5>5. journal[n].path = p
          BY <5>1, <5>2 DEF Swapping, Recorded
        <5>6. AsBefore(disk, drifted, journal[n])
          BY <5>1, <5>3, <5>5, NoText DEF Swapping, AsBefore, AsWritten
        <5>7. BackedUp(backup, run.todo, k)
          <6>. SUFFICES ASSUME NEW q \in Adopt!Files, backup[q] # None PROVE \E i \in 1 .. k : run.todo[i] = q
            BY DEF BackedUp
          <6>1. PICK i \in 1 .. n : run.todo[i] = q
            BY <5>1 DEF Swapping, BackedUp
          <6>2. i # n
            BY <5>3, <6>1
          <6>. QED  BY <5>2, <6>1, <6>2
        <5>. QED  BY <1>2, <5>1, <5>2, <5>3, <5>4, <5>6, <5>7 DEF Swapping
      <4>4. CASE run.at = "receipt"
        <5>1. Receipting
          BY <1>2, <4>4 DEF InApply
        <5>2. k = n /\ Len(journal) = n /\ \A i \in k + 1 .. Len(journal) : FALSE
          BY <1>2, <4>4, <5>1 DEF Receipting, Recorded
        <5>. HIDE DEF put, k
        <5>3. ~put
          BY <4>4 DEF put
        <5>. QED  BY <1>2, <5>1, <5>2, <5>3 DEF Receipting
      <4>. QED  BY <1>1, <1>4, <4>1, <4>2, <4>3, <4>4
    <3>. HIDE DEF k, put
    <3>2. UNCHANGED <<disk, backup>> /\ k \in Nat
      BY <2>1, <2>2, <3>1
    <3>3. run' \in ApplyRuns /\ run'.at = "undo" /\ run'.n = k /\ run'.todo = run.todo
      <4>1. "undo" \in AdoptPlaces
        BY DEF AdoptPlaces
      <4>. QED  BY <1>2, <2>1, <3>2, <4>1, RunMoves
    <3>4. AdoptTypes'
      <4>1. staged' \in Disks
        BY <2>1 DEF Adopt!Empty, Disks, Contents
      <4>. QED  BY <1>1, <3>2, <3>3, <4>1 DEF AdoptInv, AdoptTypes
    <3>5. Undoing'
      BY <1>1, <2>1, <3>1, <3>2, <3>3 DEF Undoing
    <3>6. Journals' /\ NoJournal'
      BY <1>1, <2>2, <3>2, JournalGoesOn DEF AdoptInv
    <3>7. InApply'
      BY <1>1, <1>2, <2>2, <3>2, <3>3, <3>5 DEF InApply
    <3>8. Closing'
      BY <3>3 DEF Closing
    <3>. QED  BY <1>1, <3>3, <3>4, <3>6, <3>7, <3>8, ApplyStep
  <2>. QED  BY <2>3, <2>4
<1>. QED  BY <1>3, <1>4

LEMMA UndoAdopt == AdoptInv /\ Adopt!Undo => AdoptInv'
<1>. SUFFICES ASSUME AdoptInv, Adopt!Undo PROVE AdoptInv'
  OBVIOUS
<1>. DEFINE n == run.n
            p == run.todo[run.n]
<1>1. /\ run.command = "apply" /\ run.at = "undo"
      /\ UNCHANGED <<staged, debris, plan, journal, receipt, undoing, ends, cut, drifted, standing>>
  BY DEF Adopt!Undo, Adopt!At
<1>2. /\ run \in ApplyRuns /\ InApply /\ n \in Nat /\ plan # None
      /\ Len(run.todo) \in Nat \ {0} /\ Apart(run.todo)
      /\ \A i \in 1 .. Len(run.todo) : run.todo[i] \in Adopt!Files
  BY <1>1, ApplyFacts
<1>3. /\ ~plan.open /\ undoing = None /\ Written(journal) /\ receipt[plan.tx] = None
      /\ run.todo = Append(plan.changed, Lock) /\ LeavesOut(disk, drifted, plan, journal)
      /\ AllAccounted(disk, drifted, journal) /\ OnePath(journal) /\ Len(journal) \in Nat
  BY <1>1, OpenApply
<1>4. /\ n \in 0 .. Len(journal) /\ staged = Adopt!Empty
      /\ Recorded(journal, run.todo, plan, Len(journal)) /\ Len(journal) <= Len(run.todo) /\ BackedUp(backup, run.todo, n)
      /\ Swapped(disk, backup, drifted, journal, n)
      /\ \A i \in n + 1 .. Len(journal) : AsBefore(disk, drifted, journal[i])
  BY <1>1, <1>2 DEF InApply, Undoing, Recorded
<1>5. /\ \A i \in 1 .. Len(journal) : journal[i].path = run.todo[i]
      /\ \A i \in 1 .. Len(journal), j \in 1 .. Len(run.todo) : i # j => journal[i].path # run.todo[j]
      /\ \A i \in 1 .. Len(journal) : run.todo[i] \in PathsOf(journal)
  <2>. DEFINE k == Len(journal)
  <2>1. k \in Nat /\ Apart(run.todo) /\ Recorded(journal, run.todo, plan, k)
    BY <1>2, <1>3, <1>4
  <2>. HIDE DEF k
  <2>2. /\ \A i \in 1 .. k : journal[i].path = run.todo[i]
        /\ \A i \in 1 .. k, j \in 1 .. Len(run.todo) : i # j => journal[i].path # run.todo[j]
        /\ \A i \in 1 .. k : run.todo[i] \in PathsOf(journal)
    BY <2>1, OtherPaths
  <2>. QED  BY <2>2 DEF k
<1>6. CASE n = 0
  <2>1. UNCHANGED <<disk, backup>> /\ Moved(run, run', "close", 0)
    BY <1>6 DEF Adopt!Undo, Adopt!Go, Moved
  <2>2. run' \in ApplyRuns /\ run'.at = "close" /\ run'.todo = run.todo
    <3>1. "close" \in AdoptPlaces
      BY DEF AdoptPlaces
    <3>. QED  BY <1>2, <2>1, <3>1, RunMoves
  <2>3. AdoptTypes' /\ Journals' /\ NoJournal'
    BY <1>1, <2>1, <2>2 DEF AdoptInv, AdoptTypes, Journals, NoJournal
  <2>4. backup = Adopt!Empty
    <3>1. \A q \in Adopt!Files : backup[q] = None
      BY <1>4, <1>6 DEF BackedUp
    <3>2. backup \in Disks
      BY DEF AdoptInv, AdoptTypes
    <3>. QED  BY <3>1, <3>2 DEF Disks, Adopt!Empty
  <2>5. AllBefore(disk, drifted, journal)
    BY <1>4, <1>6 DEF AllBefore
  <2>6. Closing'
    BY <1>1, <1>3, <1>4, <2>1, <2>4, <2>5 DEF Closing
  <2>7. InApply'
    BY <1>1, <1>2, <1>3, <2>2 DEF InApply
  <2>. QED  BY <1>1, <2>2, <2>3, <2>6, <2>7, ApplyStep
<1>7. CASE n # 0
  <2>1. disk' = [disk EXCEPT ![p] = backup[p]] /\ backup' = [backup EXCEPT ![p] = None] /\ Moved(run, run', "undo", n - 1)
    BY <1>7 DEF Adopt!Undo, Adopt!Current, Adopt!Go, Moved
  <2>2. n \in 1 .. Len(journal) /\ n \in 1 .. Len(run.todo) /\ n - 1 \in 0 .. Len(journal) /\ n - 1 \in Nat
    BY <1>2, <1>3, <1>4, <1>7
  <2>3. run' \in ApplyRuns /\ run'.at = "undo" /\ run'.n = n - 1 /\ run'.todo = run.todo
    <3>1. "undo" \in AdoptPlaces
      BY DEF AdoptPlaces
    <3>. QED  BY <1>2, <2>1, <2>2, <3>1, RunMoves
  <2>4. /\ p \in Adopt!Files /\ journal[n].path = p /\ p \in PathsOf(journal)
        /\ \A i \in 1 .. Len(journal) : i # n => journal[i].path # p /\ journal[i].path \in Adopt!Files
    <3>1. \A i \in 1 .. Len(journal) : i \in 1 .. Len(run.todo)
      BY <1>2, <1>3, <1>4
    <3>. QED  BY <1>2, <1>5, <2>2, <3>1
  <2>5. /\ disk' \in Disks /\ backup' \in Disks /\ disk'[p] = backup[p] /\ backup'[p] = None
        /\ \A q \in Adopt!Files : q # p => disk'[q] = disk[q] /\ backup'[q] = backup[q]
    <3>1. disk \in Disks /\ backup \in Disks
      BY DEF AdoptInv, AdoptTypes
    <3>. QED  BY <2>1, <2>4, <3>1 DEF Disks, Contents
  <2>6. \A q \in Adopt!Files : q \notin PathsOf(journal) => disk'[q] = disk[q]
    BY <2>4, <2>5
  <2>7. AsBefore(disk', drifted, journal[n])
    BY <1>4, <2>2, <2>4, <2>5 DEF Swapped, AsBefore, AsWritten
  <2>8. \A i \in 1 .. Len(journal) : i # n => disk'[journal[i].path] = disk[journal[i].path] /\ backup'[journal[i].path] = backup[journal[i].path]
    BY <2>4, <2>5
  <2>9. AllAccounted(disk', drifted, journal)
    <3>1. \A i \in 1 .. Len(journal) : i # n => Accounted(drifted, journal[i], disk'[journal[i].path])
      BY <1>3, <2>8 DEF AllAccounted
    <3>2. Accounted(drifted, journal[n], disk'[journal[n].path])
      BY <2>7 DEF Accounted, AsBefore, AsWritten
    <3>. QED  BY <3>1, <3>2 DEF AllAccounted
  <2>10. Journals' /\ NoJournal'
    BY <1>1, <1>3, <2>6, <2>9, JournalGoesOn DEF AdoptInv
  <2>11. Swapped(disk', backup', drifted, journal, n - 1)
    <3>1. \A i \in 1 .. n - 1 : i \in 1 .. n /\ i \in 1 .. Len(journal) /\ i # n
      BY <1>3, <2>2
    <3>2. Swapped(disk, backup, drifted, journal, n - 1)
      BY <1>4, <3>1 DEF Swapped
    <3>3. \A i \in 1 .. n - 1 : disk'[journal[i].path] = disk[journal[i].path] /\ backup'[journal[i].path] = backup[journal[i].path]
      BY <2>8, <3>1
    <3>. HIDE DEF n
    <3>. QED  BY <3>2, <3>3, SwappedKept
  <2>12. BackedUp(backup', run.todo, n - 1)
    <3>. SUFFICES ASSUME NEW q \in Adopt!Files, backup'[q] # None PROVE \E i \in 1 .. n - 1 : run.todo[i] = q
      BY DEF BackedUp
    <3>1. q # p /\ backup[q] # None
      BY <2>5
    <3>2. PICK i \in 1 .. n : run.todo[i] = q
      BY <1>4, <3>1 DEF BackedUp
    <3>3. i # n
      BY <3>1, <3>2
    <3>. QED  BY <2>2, <3>2, <3>3
  <2>13. \A i \in (n - 1) + 1 .. Len(journal) : AsBefore(disk', drifted, journal[i])
    <3>. SUFFICES ASSUME NEW i \in (n - 1) + 1 .. Len(journal) PROVE AsBefore(disk', drifted, journal[i])
      OBVIOUS
    <3>1. i = n \/ (i \in n + 1 .. Len(journal) /\ i \in 1 .. Len(journal) /\ i # n)
      BY <1>3, <2>2
    <3>. QED  BY <1>4, <2>7, <2>8, <3>1 DEF AsBefore, AsWritten
  <2>14. AdoptTypes'
    BY <1>1, <2>3, <2>5 DEF AdoptInv, AdoptTypes
  <2>15. Undoing'
    BY <1>1, <1>4, <2>2, <2>3, <2>11, <2>12, <2>13 DEF Undoing
  <2>16. LeavesOut(disk', drifted, plan, journal)
    BY <1>3, <2>6, WasKept DEF Written
  <2>17. InApply'
    BY <1>1, <1>2, <1>3, <2>3, <2>15, <2>16 DEF InApply
  <2>18. Closing'
    BY <2>3 DEF Closing
  <2>. QED  BY <1>1, <2>3, <2>10, <2>14, <2>17, <2>18, ApplyStep
<1>. QED  BY <1>6, <1>7

(* What every step of a recovery finds.                                    *)
LEMMA RecoverFacts ==
    ASSUME AdoptInv, run.command = "recover"
    PROVE  /\ run \in RecoverRuns /\ run.n \in Nat /\ run.todo \in Seq(Mutations) /\ Len(run.todo) \in Nat
           /\ Written(journal) /\ journal \in Seq(Mutations) /\ OnePath(journal) /\ Len(journal) \in Nat
           /\ plan # None /\ undoing = None /\ ~plan.open /\ run.at \in {"away", "in", "tidy", "close"}
           /\ \A m \in Members(journal) : m \in Mutations /\ m.path \in Adopt!Files /\ m.path \in PathsOf(journal)
           /\ run.at \in {"away", "in"} =>
                 InRestore /\ WasTrue(disk, drifted, journal) /\ AllAccounted(disk, drifted, journal)
<1>1. run \in RecoverRuns
  BY RunKinds DEF AdoptInv
<1>2. run.n \in Nat /\ run.todo \in Seq(Mutations)
  BY <1>1 DEF RecoverRuns
<1>3. /\ Written(journal) /\ run.at \in {"away", "in", "tidy", "close"}
      /\ run.at \in {"away", "in"} => InRestore
  BY DEF AdoptInv, Recovering
<1>4. /\ journal \in Seq(Mutations) /\ OnePath(journal) /\ plan # None /\ undoing = None /\ ~plan.open
      /\ receipt[plan.tx] = None => WasTrue(disk, drifted, journal) /\ AllAccounted(disk, drifted, journal)
  BY <1>3 DEF AdoptInv, AdoptTypes, JournalValues, Journals, Written
<1>5. \A m \in Members(journal) : m \in Mutations /\ m.path \in PathsOf(journal)
  BY <1>4, ElementOfSeq DEF Members, PathsOf
<1>6. \A m \in Mutations : m.path \in Adopt!Files
  BY DEF Mutations
<1>. QED  BY <1>1, <1>2, <1>3, <1>4, <1>5, <1>6, LenProperties DEF InRestore

LEMMA RecoverStep ==
    ASSUME AdoptInv, run.command = "recover", run' \in RecoverRuns, AdoptTypes',
           UNCHANGED <<plan, receipt, undoing, drifted, journal>>,
           Journals', Leftovers', Closing', Recovering'
    PROVE  AdoptInv'
<1>1. PlanFits' /\ Receipts'
  BY PlansKept DEF AdoptInv
<1>2. NoJournal'
  BY RecoverFacts DEF NoJournal, Written
<1>3. run'.command = "recover"
  BY DEF RecoverRuns
<1>4. Applying' /\ RollingBack'
  BY <1>3 DEF Applying, RollingBack
<1>. QED  BY <1>1, <1>2, <1>4 DEF AdoptInv

(* A command ends, or does not begin, while nothing else changes.          *)
LEMMA RefuseAdopt ==
    ASSUME AdoptInv, run' = Adopt!Outcome, debris = Adopt!Empty \/ cut,
           UNCHANGED <<disk, staged, backup, debris, plan, journal, receipt, undoing, cut, drifted>>
    PROVE  AdoptInv'
<1>1. run' \in RestingRuns
  BY DEF RestingRuns
<1>2. AdoptTypes' /\ Journals' /\ NoJournal'
  BY <1>1 DEF AdoptInv, AdoptTypes, Journals, NoJournal
<1>3. PlanFits' /\ Receipts'
  BY PlansKept DEF AdoptInv
<1>4. Leftovers'
  BY DEF Leftovers
<1>5. Applying' /\ Closing' /\ Recovering' /\ RollingBack'
  BY <1>1, RestingFacts DEF Applying, Closing, Recovering, RollingBack
<1>. QED  BY <1>2, <1>3, <1>4, <1>5 DEF AdoptInv

LEMMA StartRecoverAdopt == AdoptInv /\ Adopt!StartRecover => AdoptInv'
<1>. SUFFICES ASSUME AdoptInv, Adopt!StartRecover PROVE AdoptInv'
  OBVIOUS
<1>1. /\ Adopt!Resting /\ journal # None
      /\ UNCHANGED <<disk, staged, backup, debris, plan, journal, receipt, undoing, ends, cut, drifted>>
  BY DEF Adopt!StartRecover
<1>2. run \in RestingRuns
  BY <1>1, RunKinds DEF AdoptInv, Adopt!Resting
<1>3. debris = Adopt!Empty \/ cut
  BY <1>2, RestingFacts DEF AdoptInv, Leftovers
<1>4. CASE Adopt!Refuse
  BY <1>1, <1>3, <1>4, RefuseAdopt DEF Adopt!Refuse
<1>. DEFINE mutated == {m \in Adopt!ToSet(journal) : disk[m.path] # m.before}
            todo == Adopt!Those(Adopt!Reverse(journal), mutated)
<1>5. ASSUME Written(journal)
      PROVE  /\ journal \in Seq(Mutations) /\ plan # None
             /\ todo \in Seq(Mutations) /\ mutated \subseteq Members(journal) /\ Members(todo) = mutated
             /\ mutated = {m \in Members(journal) : disk[m.path] # m.before}
  <2>1. journal \in Seq(Mutations) /\ plan # None
    BY <1>5 DEF AdoptInv, AdoptTypes, JournalValues, Journals, Written
  <2>2. mutated = {m \in Members(journal) : disk[m.path] # m.before}
    BY <2>1, AdoptOperators
  <2>. HIDE DEF mutated
  <2>3. Adopt!Reverse(journal) \in Seq(Mutations) /\ Members(Adopt!Reverse(journal)) = Members(journal)
    BY <2>1, ReverseFacts
  <2>4. todo \in Seq(Mutations) /\ Members(todo) = Members(journal) \cap mutated
    BY <2>3, ThoseFacts
  <2>. QED  BY <2>1, <2>2, <2>4
<1>6. CASE Written(journal) /\ receipt[plan.tx] # None /\ Adopt!Begin("recover", "tidy", <<>>)
  <2>1. run' = [command |-> "recover", at |-> "tidy", n |-> 0, todo |-> <<>>]
    BY <1>6 DEF Adopt!Begin
  <2>2. run' \in RecoverRuns /\ run'.command = "recover" /\ run'.at = "tidy"
    BY <2>1, EmptyJournal DEF RecoverRuns, AdoptPlaces
  <2>3. AdoptTypes' /\ Journals' /\ NoJournal'
    BY <1>1, <2>2 DEF AdoptInv, AdoptTypes, Journals, NoJournal
  <2>4. PlanFits' /\ Receipts'
    BY <1>1, PlansKept DEF AdoptInv
  <2>5. Leftovers'
    BY <1>1, <1>3 DEF Leftovers
  <2>6. Applying' /\ Closing' /\ Recovering' /\ RollingBack'
    BY <1>1, <1>6, <2>2 DEF Applying, Closing, Recovering, RollingBack
  <2>. QED  BY <2>3, <2>4, <2>5, <2>6 DEF AdoptInv
<1>7. CASE Written(journal) /\ receipt[plan.tx] = None /\ Adopt!Drift(journal) = {} /\ Adopt!Begin("recover", "away", todo)
  <2>1. /\ run' = [command |-> "recover", at |-> "away", n |-> 0, todo |-> todo]
        /\ standing' = {p \in Adopt!Files : disk[p] = Edited}
    BY <1>7 DEF Adopt!Begin
  <2>. HIDE DEF todo, mutated
  <2>2. /\ run' \in RecoverRuns /\ run'.command = "recover" /\ run'.at = "away" /\ run'.n = 0
        /\ run'.todo = todo /\ Len(todo) \in Nat
    BY <1>5, <1>7, <2>1, LenProperties DEF RecoverRuns, AdoptPlaces
  <2>3. AdoptTypes' /\ Journals' /\ NoJournal'
    BY <1>1, <2>2 DEF AdoptInv, AdoptTypes, Journals, NoJournal
  <2>4. PlanFits' /\ Receipts'
    BY <1>1, PlansKept DEF AdoptInv
  <2>5. Leftovers'
    BY <1>1, <1>3 DEF Leftovers
  <2>6. \A m \in Members(journal) : m.path \in standing' => m.before = Edited
    <3>. SUFFICES ASSUME NEW m \in Members(journal), m.path \in standing' PROVE m.before = Edited
      OBVIOUS
    <3>1. disk[m.path] = Edited /\ m \in Mutations
      BY <1>5, <1>7, <2>1, ElementOfSeq DEF Members
    <3>2. m.after # Edited /\ None # Edited
      BY <3>1, NoText DEF Mutations
    <3>3. m \in Adopt!ToSet(journal)
      BY <1>5, <1>7, AdoptOperators
    <3>4. disk[m.path] \in {m.after, m.before} \/ (disk[m.path] = None /\ m.before # None)
      BY <1>7, <3>3 DEF Adopt!Drift
    <3>. QED  BY <3>1, <3>2, <3>4
  <2>7. \A m \in Members(journal) : Ahead(todo, 0, m) \/ AsBefore(disk, drifted, m)
    <3>. SUFFICES ASSUME NEW m \in Members(journal), disk[m.path] # m.before PROVE Ahead(todo, 0, m)
      BY DEF AsBefore, AsWritten
    <3>1. m \in Members(todo)
      BY <1>5, <1>7
    <3>2. 0 + 1 = 1
      OBVIOUS
    <3>. QED  BY <3>1, <3>2 DEF Members, Ahead
  <2>8. Members(todo) \subseteq Members(journal)
    BY <1>5, <1>7
  <2>9. InRestore'
    BY <1>1, <1>7, <2>2, <2>6, <2>7, <2>8 DEF InRestore
  <2>10. Applying' /\ Closing' /\ Recovering' /\ RollingBack'
    BY <1>1, <1>7, <2>2, <2>9 DEF Applying, Closing, Recovering, RollingBack
  <2>. QED  BY <2>3, <2>4, <2>5, <2>10 DEF AdoptInv
<1>8. CASE journal = Torn
  <2>1. Adopt!Refuse
    BY <1>8 DEF Adopt!StartRecover
  <2>. QED  BY <1>4, <2>1
<1>9. CASE journal # Torn /\ receipt[plan.tx] # None
  <2>1. Adopt!Refuse \/ Adopt!Begin("recover", "tidy", <<>>)
    BY <1>9 DEF Adopt!StartRecover
  <2>. QED  BY <1>1, <1>4, <1>6, <1>9, <2>1 DEF Written
<1>10. CASE journal # Torn /\ receipt[plan.tx] = None
  <2>1. Adopt!Refuse \/ (Adopt!Drift(journal) = {} /\ Adopt!Begin("recover", "away", todo))
    BY <1>10 DEF Adopt!StartRecover, Adopt!ToRestore
  <2>. QED  BY <1>1, <1>4, <1>7, <1>10, <2>1 DEF Written
<1>. QED  BY <1>8, <1>9, <1>10

LEMMA RestoreAwayAdopt == AdoptInv /\ Adopt!RestoreAway => AdoptInv'
<1>. SUFFICES ASSUME AdoptInv, Adopt!RestoreAway PROVE AdoptInv'
  OBVIOUS
<1>. DEFINE n == run.n
            N == Len(run.todo)
            m == run.todo[n + 1]
<1>1. /\ run.command = "recover" /\ run.at = "away"
      /\ UNCHANGED <<staged, backup, plan, journal, receipt, undoing, ends, cut, drifted, standing>>
  BY DEF Adopt!RestoreAway, Adopt!At
<1>2. /\ run \in RecoverRuns /\ n \in Nat /\ run.todo \in Seq(Mutations) /\ N \in Nat
      /\ Written(journal) /\ OnePath(journal) /\ plan # None
      /\ \A o \in Members(journal) : o.path \in Adopt!Files /\ o.path \in PathsOf(journal)
      /\ InRestore /\ AllAccounted(disk, drifted, journal)
  BY <1>1, RecoverFacts
<1>3. /\ receipt[plan.tx] = None /\ n \in 0 .. N /\ Members(run.todo) \subseteq Members(journal)
      /\ \A i \in 1 .. n : Accounted(drifted, run.todo[i], debris[run.todo[i].path])
      /\ \A o \in Members(journal) : o.path \in standing => o.before = Edited
      /\ \A o \in Members(journal) : Ahead(run.todo, n, o) \/ AsBefore(disk, drifted, o)
  BY <1>1, <1>2 DEF InRestore
<1>4. CASE n = N
  <2>1. debris' = Adopt!Empty /\ Moved(run, run', "tidy", 0) /\ UNCHANGED disk
    BY <1>4 DEF Adopt!RestoreAway, Adopt!Go, Moved
  <2>2. run' \in RecoverRuns /\ run'.at = "tidy"
    <3>1. "tidy" \in AdoptPlaces
      BY DEF AdoptPlaces
    <3>. QED  BY <1>2, <2>1, <3>1, RunMoves
  <2>3. AdoptTypes'
    <3>1. debris' \in Disks
      BY <2>1 DEF Adopt!Empty, Disks, Contents
    <3>. QED  BY <1>1, <2>1, <2>2, <3>1 DEF AdoptInv, AdoptTypes
  <2>4. Journals'
    BY <1>1, <2>1 DEF AdoptInv, Journals
  <2>5. \A o \in Members(journal) : ~Ahead(run.todo, n, o)
    BY <1>2, <1>4 DEF Ahead
  <2>6. AllBefore(disk, drifted, journal)
    BY <1>3, <2>5 DEF AllBefore, Members
  <2>7. Leftovers' /\ Closing' /\ Recovering'
    BY <1>1, <1>2, <2>1, <2>2, <2>6 DEF Leftovers, Closing, Recovering
  <2>. QED  BY <1>1, <2>2, <2>3, <2>4, <2>7, RecoverStep
<1>5. CASE n # N
  <2>1. /\ debris' = [debris EXCEPT ![m.path] = disk[m.path]] /\ disk' = [disk EXCEPT ![m.path] = None]
        /\ Moved(run, run', "in", n + 1)
    BY <1>5 DEF Adopt!RestoreAway, Adopt!Go, Moved
  <2>2. n + 1 \in 1 .. N /\ n + 1 \in 0 .. N /\ n + 1 # 0
    BY <1>2, <1>3, <1>5
  <2>3. m \in Members(journal) /\ m.path \in Adopt!Files /\ m.path \in PathsOf(journal)
    BY <1>2, <1>3, <2>2 DEF Members
  <2>. HIDE DEF m
  <2>4. run' \in RecoverRuns /\ run'.at = "in" /\ run'.n = n + 1 /\ run'.todo = run.todo /\ run'.command = "recover"
    <3>1. "in" \in AdoptPlaces /\ n + 1 \in Nat
      BY <1>2 DEF AdoptPlaces
    <3>2. run' \in RecoverRuns /\ run'.at = "in" /\ run'.n = n + 1 /\ run'.todo = run.todo
      BY <1>2, <2>1, <3>1, RunMoves
    <3>. QED  BY <3>2 DEF RecoverRuns
  <2>5. /\ disk' \in Disks /\ debris' \in Disks /\ disk'[m.path] = None /\ debris'[m.path] = disk[m.path]
        /\ \A q \in Adopt!Files : q # m.path => disk'[q] = disk[q] /\ debris'[q] = debris[q]
    <3>1. disk \in Disks /\ debris \in Disks
      BY DEF AdoptInv, AdoptTypes
    <3>. QED  BY <2>1, <2>3, <3>1 DEF Disks, Contents
  <2>6. AdoptTypes'
    BY <1>1, <2>4, <2>5 DEF AdoptInv, AdoptTypes
  <2>7. \A o \in Members(journal) : Accounted(drifted, o, disk[o.path]) /\ (o.path = m.path => o = m)
    BY <1>2, <2>3 DEF AllAccounted, Members, OnePath
  <2>8. AllAccounted(disk', drifted, journal)
    <3>1. \A o \in Members(journal) : Accounted(drifted, o, disk'[o.path])
      BY <1>2, <2>5, <2>7 DEF Accounted
    <3>. QED  BY <3>1 DEF AllAccounted, Members
  <2>9. \A q \in Adopt!Files : q \notin PathsOf(journal) => disk'[q] = disk[q]
    BY <2>3, <2>5
  <2>10. Journals'
    BY <1>1, <1>2, <1>3, <2>8, <2>9, JournalGoesOn DEF AdoptInv
  <2>11. \A i \in 1 .. n + 1 : Accounted(drifted, run.todo[i], debris'[run.todo[i].path])
    <3>. SUFFICES ASSUME NEW i \in 1 .. n + 1 PROVE Accounted(drifted, run.todo[i], debris'[run.todo[i].path])
      OBVIOUS
    <3>1. i \in 1 .. N /\ run.todo[i] \in Members(journal) /\ run.todo[i].path \in Adopt!Files
      <4>1. i \in 1 .. N
        BY <1>2, <2>2
      <4>. QED  BY <1>2, <1>3, <4>1 DEF Members
    <3>2. CASE run.todo[i].path = m.path
      BY <2>5, <2>7, <3>1, <3>2
    <3>3. CASE run.todo[i].path # m.path
      <4>1. i # n + 1
        BY <3>3 DEF m
      <4>2. i \in 1 .. n
        BY <1>2, <4>1
      <4>. QED  BY <1>3, <2>5, <3>1, <3>3, <4>2
    <3>. QED  BY <3>2, <3>3
  <2>12. \A o \in Members(journal) : Ahead(run.todo, n + 1, o) \/ AsBefore(disk', drifted, o) \/ run.todo[n + 1] = o
    <3>. SUFFICES ASSUME NEW o \in Members(journal), run.todo[n + 1] # o
                  PROVE  Ahead(run.todo, n + 1, o) \/ AsBefore(disk', drifted, o)
      OBVIOUS
    <3>1. CASE Ahead(run.todo, n, o)
      <4>1. PICK i \in n + 1 .. N : run.todo[i] = o
        BY <3>1 DEF Ahead
      <4>2. i # n + 1
        BY <4>1
      <4>3. i \in (n + 1) + 1 .. N
        BY <1>2, <4>2
      <4>. QED  BY <4>1, <4>3 DEF Ahead
    <3>2. CASE AsBefore(disk, drifted, o)
      <4>1. o.path # m.path /\ o.path \in Adopt!Files
        BY <1>2, <2>7 DEF m
      <4>. QED  BY <2>5, <3>2, <4>1 DEF AsBefore, AsWritten
    <3>. QED  BY <1>3, <3>1, <3>2
  <2>13. InRestore'
    BY <1>1, <1>3, <2>2, <2>4, <2>11, <2>12 DEF InRestore
  <2>14. Leftovers' /\ Closing' /\ Recovering'
    BY <1>1, <1>2, <2>4, <2>13 DEF Leftovers, Closing, Recovering
  <2>. QED  BY <1>1, <2>4, <2>6, <2>10, <2>14, RecoverStep
<1>. QED  BY <1>4, <1>5

LEMMA RestoreInAdopt == AdoptInv /\ Adopt!RestoreIn => AdoptInv'
<1>. SUFFICES ASSUME AdoptInv, Adopt!RestoreIn PROVE AdoptInv'
  OBVIOUS
<1>. DEFINE n == run.n
            N == Len(run.todo)
            m == run.todo[n]
<1>1. /\ run.command = "recover" /\ run.at = "in" /\ disk' = [disk EXCEPT ![m.path] = m.before]
      /\ Moved(run, run', "away", n)
      /\ UNCHANGED <<staged, backup, debris, plan, journal, receipt, undoing, ends, cut, drifted, standing>>
  BY DEF Adopt!RestoreIn, Adopt!At, Adopt!Go, Adopt!Current, Moved
<1>2. /\ run \in RecoverRuns /\ n \in Nat /\ run.todo \in Seq(Mutations) /\ N \in Nat
      /\ Written(journal) /\ OnePath(journal) /\ plan # None
      /\ \A o \in Members(journal) : o \in Mutations /\ o.path \in Adopt!Files /\ o.path \in PathsOf(journal)
      /\ InRestore /\ AllAccounted(disk, drifted, journal)
  BY <1>1, RecoverFacts
<1>3. /\ receipt[plan.tx] = None /\ n \in 0 .. N /\ n # 0 /\ Members(run.todo) \subseteq Members(journal)
      /\ \A i \in 1 .. n : Accounted(drifted, run.todo[i], debris[run.todo[i].path])
      /\ \A o \in Members(journal) : o.path \in standing => o.before = Edited
      /\ \A o \in Members(journal) : Ahead(run.todo, n, o) \/ AsBefore(disk, drifted, o) \/ m = o
  BY <1>1, <1>2 DEF InRestore
<1>4. m \in Members(journal) /\ m.path \in Adopt!Files /\ m.path \in PathsOf(journal) /\ m.before \in Contents
  <2>1. n \in 1 .. N
    BY <1>2, <1>3
  <2>2. m \in Members(journal)
    BY <1>3, <2>1 DEF Members
  <2>. HIDE DEF m
  <2>. QED  BY <1>2, <2>2 DEF Mutations
<1>. HIDE DEF m
<1>5. run' \in RecoverRuns /\ run'.at = "away" /\ run'.n = n /\ run'.todo = run.todo /\ run'.command = "recover"
  <2>1. "away" \in AdoptPlaces
    BY DEF AdoptPlaces
  <2>2. run' \in RecoverRuns /\ run'.at = "away" /\ run'.n = n /\ run'.todo = run.todo
    BY <1>1, <1>2, <2>1, RunMoves
  <2>. QED  BY <2>2 DEF RecoverRuns
<1>6. /\ disk' \in Disks /\ disk'[m.path] = m.before
      /\ \A q \in Adopt!Files : q # m.path => disk'[q] = disk[q]
  <2>1. disk \in Disks
    BY DEF AdoptInv, AdoptTypes
  <2>. QED  BY <1>1, <1>4, <2>1 DEF Disks
<1>7. AdoptTypes'
  BY <1>1, <1>5, <1>6 DEF AdoptInv, AdoptTypes
<1>8. \A o \in Members(journal) : Accounted(drifted, o, disk[o.path]) /\ (o.path = m.path => o = m)
  BY <1>2, <1>4 DEF AllAccounted, Members, OnePath
<1>9. AllAccounted(disk', drifted, journal)
  <2>1. \A o \in Members(journal) : Accounted(drifted, o, disk'[o.path])
    BY <1>2, <1>6, <1>8 DEF Accounted
  <2>. QED  BY <2>1 DEF AllAccounted, Members
<1>10. \A q \in Adopt!Files : q \notin PathsOf(journal) => disk'[q] = disk[q]
  BY <1>4, <1>6
<1>11. Journals'
  BY <1>1, <1>2, <1>3, <1>9, <1>10, JournalGoesOn DEF AdoptInv
<1>12. \A o \in Members(journal) : Ahead(run.todo, n, o) \/ AsBefore(disk', drifted, o)
  <2>. SUFFICES ASSUME NEW o \in Members(journal), ~Ahead(run.todo, n, o) PROVE AsBefore(disk', drifted, o)
    OBVIOUS
  <2>1. CASE o = m
    BY <1>6, <2>1 DEF AsBefore, AsWritten
  <2>2. CASE o # m
    <3>1. AsBefore(disk, drifted, o) /\ o.path # m.path /\ o.path \in Adopt!Files
      BY <1>2, <1>3, <1>8, <2>2
    <3>. QED  BY <1>6, <3>1 DEF AsBefore, AsWritten
  <2>. QED  BY <2>1, <2>2
<1>13. InRestore'
  BY <1>1, <1>3, <1>5, <1>12 DEF InRestore
<1>14. Leftovers' /\ Closing' /\ Recovering'
  BY <1>1, <1>2, <1>5, <1>13 DEF Leftovers, Closing, Recovering
<1>. QED  BY <1>1, <1>5, <1>7, <1>11, <1>14, RecoverStep

LEMMA FailRecoverAdopt == AdoptInv /\ Adopt!FailRecover => AdoptInv'
<1>. SUFFICES ASSUME AdoptInv, Adopt!FailRecover PROVE AdoptInv'
  OBVIOUS
<1>. DEFINE n == run.n
            moved == {run.todo[i].path : i \in 1 .. n}
<1>1. /\ run.command = "recover" /\ run.at \in {"away", "in"}
      /\ disk' = [p \in Adopt!Files |-> IF p \in moved THEN debris[p] ELSE disk[p]]
      /\ debris' = Adopt!Empty /\ run' = Adopt!Outcome
      /\ UNCHANGED <<staged, backup, plan, journal, receipt, undoing, ends, cut, drifted, standing>>
  BY DEF Adopt!FailRecover
<1>2. /\ n \in Nat /\ Len(run.todo) \in Nat /\ Written(journal) /\ OnePath(journal) /\ plan # None
      /\ \A o \in Members(journal) : o.path \in Adopt!Files /\ o.path \in PathsOf(journal)
      /\ InRestore /\ AllAccounted(disk, drifted, journal)
  BY <1>1, RecoverFacts
<1>3. /\ receipt[plan.tx] = None /\ n \in 0 .. Len(run.todo) /\ Members(run.todo) \subseteq Members(journal)
      /\ \A i \in 1 .. n : Accounted(drifted, run.todo[i], debris[run.todo[i].path])
  BY <1>2 DEF InRestore
<1>4. \A i \in 1 .. n : run.todo[i] \in Members(journal)
  <2>1. \A i \in 1 .. n : i \in 1 .. Len(run.todo)
    BY <1>2, <1>3
  <2>. QED  BY <1>3, <2>1 DEF Members
<1>5. /\ disk' \in Disks
      /\ \A p \in Adopt!Files : disk'[p] = IF p \in moved THEN debris[p] ELSE disk[p]
  <2>1. disk \in Disks /\ debris \in Disks
    BY DEF AdoptInv, AdoptTypes
  <2>. HIDE DEF moved
  <2>. QED  BY <1>1, <2>1 DEF Disks
<1>6. \A p \in Adopt!Files : p \notin PathsOf(journal) => disk'[p] = disk[p]
  <2>1. moved \subseteq PathsOf(journal)
    BY <1>2, <1>4
  <2>. HIDE DEF moved
  <2>. QED  BY <1>5, <2>1
<1>7. AllAccounted(disk', drifted, journal)
  <2>. SUFFICES ASSUME NEW o \in Members(journal) PROVE Accounted(drifted, o, disk'[o.path])
    BY DEF AllAccounted, Members
  <2>1. CASE o.path \in moved
    <3>1. PICK i \in 1 .. n : run.todo[i].path = o.path
      BY <2>1
    <3>2. run.todo[i] = o
      BY <1>2, <1>4, <3>1 DEF Members, OnePath
    <3>3. disk'[o.path] = debris[o.path]
      BY <1>2, <1>5, <2>1
    <3>. QED  BY <1>3, <3>2, <3>3
  <2>2. CASE o.path \notin moved
    <3>1. disk'[o.path] = disk[o.path]
      BY <1>2, <1>5, <2>2
    <3>. QED  BY <1>2, <3>1 DEF AllAccounted, Members
  <2>. QED  BY <2>1, <2>2
<1>8. run' \in RestingRuns
  BY <1>1 DEF RestingRuns
<1>9. AdoptTypes'
  <2>1. debris' \in Disks
    BY <1>1 DEF Adopt!Empty, Disks, Contents
  <2>. QED  BY <1>1, <1>5, <1>8, <2>1 DEF AdoptInv, AdoptTypes
<1>10. Journals' /\ NoJournal'
  BY <1>1, <1>2, <1>3, <1>6, <1>7, JournalGoesOn DEF AdoptInv
<1>11. PlanFits' /\ Receipts'
  BY <1>1, PlansKept DEF AdoptInv
<1>12. Leftovers'
  BY <1>1 DEF Leftovers
<1>13. Applying' /\ Closing' /\ Recovering' /\ RollingBack'
  BY <1>8, RestingFacts DEF Applying, Closing, Recovering, RollingBack
<1>. QED  BY <1>9, <1>10, <1>11, <1>12, <1>13 DEF AdoptInv

LEMMA TidyAdopt == AdoptInv /\ Adopt!Tidy => AdoptInv'
<1>. SUFFICES ASSUME AdoptInv, Adopt!Tidy PROVE AdoptInv'
  OBVIOUS
<1>1. /\ run.command = "recover" /\ run.at = "tidy" /\ staged' = Adopt!Empty /\ backup' = Adopt!Empty
      /\ Moved(run, run', "close", 0)
      /\ UNCHANGED <<disk, debris, plan, journal, receipt, undoing, ends, cut, drifted, standing>>
  BY DEF Adopt!Tidy, Adopt!At, Adopt!Go, Moved
<1>2. run \in RecoverRuns /\ Written(journal)
  BY <1>1, RecoverFacts
<1>3. receipt[plan.tx] = None => AllBefore(disk, drifted, journal)
  BY <1>1 DEF AdoptInv, Recovering
<1>4. run' \in RecoverRuns /\ run'.at = "close"
  <2>1. "close" \in AdoptPlaces
    BY DEF AdoptPlaces
  <2>. QED  BY <1>1, <1>2, <2>1, RunMoves
<1>5. AdoptTypes'
  <2>1. Adopt!Empty \in Disks
    BY DEF Adopt!Empty, Disks, Contents
  <2>. QED  BY <1>1, <1>4, <2>1 DEF AdoptInv, AdoptTypes
<1>6. Journals'
  BY <1>1 DEF AdoptInv, Journals
<1>7. Leftovers' /\ Closing' /\ Recovering'
  BY <1>1, <1>2, <1>3, <1>4 DEF AdoptInv, Leftovers, Closing, Recovering
<1>. QED  BY <1>1, <1>4, <1>5, <1>6, <1>7, RecoverStep

(* What every step of a rollback finds.                                    *)
LEMMA RollbackFacts ==
    ASSUME AdoptInv, run.command = "rollback"
    PROVE  LET z == receipt[run.tx] IN
           /\ run \in RollbackRuns /\ run.n \in Nat /\ run.tx \in 1 .. MaxRuns /\ journal = None
           /\ z \in Seq(Mutations) /\ ReceiptFits(z, drifted) /\ Len(z) \in Nat
           /\ run.todo \in Seq(Mutations) /\ Members(run.todo) = Members(z) /\ Len(run.todo) = Len(z)
           /\ \A m \in Members(z) : m \in Mutations /\ m.path \in Adopt!Files
           /\ run.at = "header" \/ (run.at = "back" /\ undoing = run.tx /\ undoing # None /\ run.n \in 0 .. Len(run.todo)
                                      /\ \A i \in 1 .. run.n : AsBefore(disk, drifted, run.todo[i]))
           /\ debris = Adopt!Empty \/ cut
<1>. DEFINE z == receipt[run.tx]
<1>1. run \in RollbackRuns
  BY RunKinds DEF AdoptInv
<1>2. run.n \in Nat /\ run.tx \in 1 .. MaxRuns
  BY <1>1 DEF RollbackRuns
<1>3. journal = None /\ z # None /\ run.todo = Adopt!Reverse(z)
  BY DEF AdoptInv, RollingBack
<1>4. z \in Seq(Mutations) /\ ReceiptFits(z, drifted)
  BY <1>2, <1>3 DEF AdoptInv, AdoptTypes, ReceiptValues, Receipts
<1>5. run.todo \in Seq(Mutations) /\ Members(run.todo) = Members(z) /\ Len(run.todo) = Len(z) /\ Len(z) \in Nat
  <2>. HIDE DEF z
  <2>. QED  BY <1>3, <1>4, ReverseFacts, LenProperties
<1>6. \A m \in Members(z) : m \in Mutations
  <2>. HIDE DEF z
  <2>. QED  BY <1>4, ElementOfSeq DEF Members
<1>7. \A m \in Mutations : m.path \in Adopt!Files
  BY DEF Mutations
<1>8. run.at = "header" \/ (run.at = "back" /\ undoing = run.tx /\ undoing # None /\ run.n \in 0 .. Len(run.todo)
                              /\ \A i \in 1 .. run.n : AsBefore(disk, drifted, run.todo[i]))
  BY <1>2, NoText DEF AdoptInv, RollingBack
<1>9. debris = Adopt!Empty \/ cut
  BY DEF AdoptInv, Leftovers
<1>. QED  BY <1>1, <1>2, <1>3, <1>4, <1>5, <1>6, <1>7, <1>8, <1>9

(* Where an adoption rests and no journal is left.                         *)
LEMMA RestingStep ==
    ASSUME AdoptInv, run' \in RestingRuns, disk' \in Disks, undoing' \in {None, Torn} \cup 1 .. MaxRuns,
           journal = None, debris = Adopt!Empty \/ cut,
           UNCHANGED <<staged, backup, debris, plan, journal, receipt, cut, drifted>>,
           undoing' = None => LockIsTrue(disk', drifted)
    PROVE  AdoptInv'
<1>1. AdoptTypes'
  BY DEF AdoptInv, AdoptTypes
<1>2. Journals' /\ NoJournal' /\ Leftovers'
  BY DEF AdoptInv, Journals, Written, NoJournal, Leftovers
<1>3. PlanFits' /\ Receipts'
  BY PlansKept DEF AdoptInv
<1>4. Applying' /\ Closing' /\ Recovering' /\ RollingBack'
  BY RestingFacts DEF Applying, Closing, Recovering, RollingBack
<1>. QED  BY <1>1, <1>2, <1>3, <1>4 DEF AdoptInv

LEMMA RollbackStep ==
    ASSUME AdoptInv, run' \in RollbackRuns, disk' \in Disks, undoing' \in 1 .. MaxRuns \cup {None},
           journal = None, debris = Adopt!Empty \/ cut, RollingBack', run'.at \in {"header", "back"},
           UNCHANGED <<staged, backup, debris, plan, journal, receipt, cut, drifted>>,
           undoing' = None => LockIsTrue(disk', drifted)
    PROVE  AdoptInv'
<1>1. AdoptTypes'
  BY DEF AdoptInv, AdoptTypes
<1>2. Journals' /\ NoJournal' /\ Leftovers'
  BY DEF AdoptInv, Journals, Written, NoJournal, Leftovers
<1>3. PlanFits' /\ Receipts'
  BY PlansKept DEF AdoptInv
<1>4. run'.command = "rollback"
  BY DEF RollbackRuns
<1>5. Applying' /\ Closing' /\ Recovering'
  BY <1>4 DEF Applying, Closing, Recovering
<1>. QED  BY <1>1, <1>2, <1>3, <1>5 DEF AdoptInv

LEMMA StartRollbackAdopt == \A t \in 1 .. MaxRuns : AdoptInv /\ Adopt!StartRollback(t) => AdoptInv'
<1>. SUFFICES ASSUME AdoptInv, NEW t \in 1 .. MaxRuns, Adopt!StartRollback(t) PROVE AdoptInv'
  OBVIOUS
<1>1. /\ Adopt!Resting /\ receipt[t] # None /\ journal = None /\ undoing \in {None, t}
      /\ UNCHANGED <<disk, staged, backup, debris, plan, journal, receipt, undoing, ends, cut, drifted>>
  BY DEF Adopt!StartRollback
<1>2. run \in RestingRuns
  BY <1>1, RunKinds DEF AdoptInv, Adopt!Resting
<1>3. debris = Adopt!Empty \/ cut
  BY <1>2, RestingFacts DEF AdoptInv, Leftovers
<1>4. CASE Adopt!Refuse
  BY <1>1, <1>3, <1>4, RefuseAdopt DEF Adopt!Refuse
<1>. DEFINE place == IF undoing = None THEN "header" ELSE "back"
<1>5. CASE run' = [command |-> "rollback", at |-> place, n |-> 0, todo |-> Adopt!Reverse(receipt[t]), tx |-> t]
  <2>1. receipt[t] \in Seq(Mutations)
    BY <1>1 DEF AdoptInv, AdoptTypes, ReceiptValues
  <2>2. Adopt!Reverse(receipt[t]) \in Seq(Mutations) /\ Len(Adopt!Reverse(receipt[t])) \in Nat
    BY <2>1, ReverseFacts, LenProperties
  <2>3. place \in AdoptPlaces
    BY DEF AdoptPlaces
  <2>4. /\ run' \in RollbackRuns /\ run'.at = place /\ run'.n = 0 /\ run'.todo = Adopt!Reverse(receipt[t]) /\ run'.tx = t
    <3>. HIDE DEF place
    <3>. QED  BY <1>5, <2>2, <2>3 DEF RollbackRuns
  <2>5. RollingBack'
    BY <1>1, <2>2, <2>4 DEF RollingBack
  <2>6. undoing = None => LockIsTrue(disk, drifted)
    BY <1>1 DEF AdoptInv, NoJournal
  <2>7. disk' \in Disks
    BY <1>1 DEF AdoptInv, AdoptTypes
  <2>. QED  BY <1>1, <1>3, <2>4, <2>5, <2>6, <2>7, RollbackStep
<1>. QED  BY <1>4, <1>5 DEF Adopt!StartRollback

LEMMA WriteUndoingAdopt == AdoptInv /\ Adopt!WriteUndoing => AdoptInv'
<1>. SUFFICES ASSUME AdoptInv, Adopt!WriteUndoing PROVE AdoptInv'
  OBVIOUS
<1>1. /\ run.command = "rollback" /\ run.at = "header" /\ undoing' = run.tx /\ Moved(run, run', "back", 0)
      /\ UNCHANGED <<disk, staged, backup, debris, plan, journal, receipt, ends, cut, drifted, standing>>
  BY DEF Adopt!WriteUndoing, Adopt!At, Adopt!Go, Moved
<1>2. /\ run \in RollbackRuns /\ run.tx \in 1 .. MaxRuns /\ journal = None /\ (debris = Adopt!Empty \/ cut)
      /\ Len(run.todo) \in Nat /\ receipt[run.tx] # None /\ run.todo = Adopt!Reverse(receipt[run.tx])
  BY <1>1, RollbackFacts DEF AdoptInv, RollingBack
<1>3. run' \in RollbackRuns /\ run'.at = "back" /\ run'.n = 0 /\ run'.todo = run.todo /\ run'.tx = run.tx
  <2>1. "back" \in AdoptPlaces
    BY DEF AdoptPlaces
  <2>. QED  BY <1>1, <1>2, <2>1, RunMoves
<1>4. RollingBack'
  BY <1>1, <1>2, <1>3 DEF RollingBack
<1>5. disk' \in Disks /\ undoing' \in 1 .. MaxRuns /\ undoing' # None
  BY <1>1, <1>2, NoText DEF AdoptInv, AdoptTypes
<1>. QED  BY <1>1, <1>2, <1>3, <1>4, <1>5, RollbackStep

LEMMA BackAdopt == AdoptInv /\ Adopt!Back => AdoptInv'
<1>. SUFFICES ASSUME AdoptInv, Adopt!Back PROVE AdoptInv'
  OBVIOUS
<1>. DEFINE n == run.n
            N == Len(run.todo)
            m == run.todo[n + 1]
            z == receipt[run.tx]
<1>1. /\ run.command = "rollback" /\ run.at = "back"
      /\ UNCHANGED <<staged, backup, debris, plan, journal, receipt, ends, cut, drifted, standing>>
  BY DEF Adopt!Back, Adopt!At
<1>2. /\ run \in RollbackRuns /\ n \in Nat /\ run.tx \in 1 .. MaxRuns /\ journal = None
      /\ z # None /\ run.todo = Adopt!Reverse(z)
      /\ ReceiptFits(z, drifted) /\ Members(run.todo) = Members(z) /\ N \in Nat
      /\ \A o \in Members(z) : o \in Mutations /\ o.path \in Adopt!Files
      /\ undoing = run.tx /\ undoing # None /\ n \in 0 .. N
      /\ \A i \in 1 .. n : AsBefore(disk, drifted, run.todo[i])
      /\ (debris = Adopt!Empty \/ cut)
  BY <1>1, RollbackFacts DEF AdoptInv, RollingBack
<1>3. disk \in Disks /\ undoing \in 1 .. MaxRuns
  BY <1>2 DEF AdoptInv, AdoptTypes
<1>4. CASE n = N
  <2>1. undoing' = None /\ run' = Adopt!Idle /\ UNCHANGED disk
    BY <1>4 DEF Adopt!Back
  <2>2. \A o \in Members(run.todo) : AsBefore(disk, drifted, o)
    BY <1>2, <1>4 DEF Members
  <2>3. AllBefore(disk, drifted, z)
    <3>. HIDE DEF z
    <3>. QED  BY <1>2, <2>2 DEF AllBefore, Members
  <2>4. LockIsTrue(disk, drifted)
    <3>. HIDE DEF z
    <3>. QED  BY <1>2, <2>3, TrueByReceipt
  <2>5. run' \in RestingRuns
    BY <2>1 DEF RestingRuns
  <2>. QED  BY <1>1, <1>2, <1>3, <2>1, <2>4, <2>5, RestingStep
<1>5. CASE n # N
  <2>1. n + 1 \in 1 .. N /\ n + 1 \in 0 .. N /\ n + 1 \in Nat
    BY <1>2, <1>5
  <2>2. m \in Members(z) /\ m.path \in Adopt!Files /\ m.before \in Contents
    <3>1. m \in Members(z)
      BY <1>2, <2>1 DEF Members
    <3>. HIDE DEF m, z
    <3>. QED  BY <1>2, <3>1 DEF Mutations
  <2>3. \A o, q \in Members(z) : o.path = q.path => o = q
    <3>1. OnePath(z)
      BY <1>2 DEF ReceiptFits
    <3>. HIDE DEF z
    <3>. QED  BY <3>1 DEF OnePath, Members
  <2>4. \/ disk[m.path] = m.before /\ Moved(run, run', "back", n + 1) /\ UNCHANGED <<disk, undoing>>
        \/ disk' = [disk EXCEPT ![m.path] = m.before] /\ Moved(run, run', "back", n + 1) /\ UNCHANGED undoing
        \/ run' = Adopt!Outcome /\ UNCHANGED <<disk, undoing>>
    BY <1>5 DEF Adopt!Back, Adopt!Go, Moved
  <2>5. CASE run' = Adopt!Outcome /\ UNCHANGED <<disk, undoing>>
    BY <1>1, <1>2, <2>5, RefuseAdopt
  <2>6. CASE /\ disk' \in Disks /\ disk'[m.path] = m.before /\ \A q \in Adopt!Files : q # m.path => disk'[q] = disk[q]
             /\ Moved(run, run', "back", n + 1) /\ UNCHANGED undoing
    <3>1. run' \in RollbackRuns /\ run'.at = "back" /\ run'.n = n + 1 /\ run'.todo = run.todo /\ run'.tx = run.tx
      <4>1. "back" \in AdoptPlaces
        BY DEF AdoptPlaces
      <4>. QED  BY <1>2, <2>1, <2>6, <4>1, RunMoves
    <3>2. \A i \in 1 .. n + 1 : AsBefore(disk', drifted, run.todo[i])
      <4>. SUFFICES ASSUME NEW i \in 1 .. n + 1 PROVE AsBefore(disk', drifted, run.todo[i])
        OBVIOUS
      <4>1. run.todo[i] \in Members(z) /\ run.todo[i].path \in Adopt!Files
        <5>1. i \in 1 .. N
          BY <1>2, <2>1
        <5>. QED  BY <1>2, <5>1 DEF Members
      <4>2. CASE run.todo[i].path = m.path
        <5>1. run.todo[i] = m
          <6>. HIDE DEF m, z
          <6>. QED  BY <2>2, <2>3, <4>1, <4>2
        <5>. QED  BY <2>6, <5>1 DEF AsBefore, AsWritten
      <4>3. CASE run.todo[i].path # m.path
        <5>1. i \in 1 .. n
          <6>1. i # n + 1
            BY <4>3
          <6>. QED  BY <1>2, <6>1
        <5>. QED  BY <1>2, <2>6, <4>1, <4>3, <5>1 DEF AsBefore, AsWritten
      <4>. QED  BY <4>2, <4>3
    <3>3. RollingBack'
      BY <1>1, <1>2, <2>1, <2>6, <3>1, <3>2 DEF RollingBack
    <3>. QED  BY <1>1, <1>2, <1>3, <2>6, <3>1, <3>3, RollbackStep
  <2>7. CASE disk[m.path] = m.before /\ Moved(run, run', "back", n + 1) /\ UNCHANGED <<disk, undoing>>
    BY <1>3, <2>6, <2>7
  <2>8. CASE disk' = [disk EXCEPT ![m.path] = m.before] /\ Moved(run, run', "back", n + 1) /\ UNCHANGED undoing
    <3>1. /\ disk' \in Disks /\ disk'[m.path] = m.before
          /\ \A q \in Adopt!Files : q # m.path => disk'[q] = disk[q]
      <4>. HIDE DEF m
      <4>. QED  BY <1>3, <2>2, <2>8 DEF Disks
    <3>. QED  BY <2>6, <2>8, <3>1
  <2>. QED  BY <2>4, <2>5, <2>7, <2>8
<1>. QED  BY <1>4, <1>5

LEMMA FailRollbackAdopt == AdoptInv /\ Adopt!FailRollback => AdoptInv'
<1>. SUFFICES ASSUME AdoptInv, Adopt!FailRollback PROVE AdoptInv'
  OBVIOUS
<1>. DEFINE z == receipt[run.tx]
            written == Adopt!ToSet(run.todo)
<1>1. /\ run.command = "rollback" /\ run.at = "back"
      /\ disk' = [p \in Adopt!Files |-> IF \E m \in written : m.path = p
                                       THEN (CHOOSE m \in written : m.path = p).after ELSE disk[p]]
      /\ undoing' = None /\ run' = Adopt!Outcome
      /\ UNCHANGED <<staged, backup, debris, plan, journal, receipt, ends, cut, drifted, standing>>
  BY DEF Adopt!FailRollback, Adopt!At
<1>2. /\ journal = None /\ ReceiptFits(z, drifted) /\ (debris = Adopt!Empty \/ cut)
      /\ \A o \in Members(z) : o \in Mutations /\ o.path \in Adopt!Files
  BY <1>1, RollbackFacts
<1>3. written = Members(z)
  BY <1>1, RollbackFacts, AdoptOperators
<1>. HIDE DEF written, z
<1>4. \A p \in Adopt!Files : (\E m \in written : m.path = p) => (CHOOSE m \in written : m.path = p) \in written
  OBVIOUS
<1>5. disk' \in Disks
  <2>1. disk \in Disks /\ \A m \in Mutations : m.after \in Contents
    BY DEF AdoptInv, AdoptTypes, Mutations
  <2>2. \A p \in Adopt!Files : disk'[p] \in Contents
    BY <1>1, <1>2, <1>3, <1>4, <2>1 DEF Disks
  <2>. QED  BY <1>1, <2>2 DEF Disks
<1>6. AllAfter(disk', drifted, z)
  <2>1. ASSUME NEW m \in Members(z) PROVE disk'[m.path] = m.after
    <3>1. m.path \in Adopt!Files /\ \E o \in written : o.path = m.path
      BY <1>2, <1>3, <2>1
    <3>2. PICK o \in written : o = (CHOOSE q \in written : q.path = m.path) /\ o.path = m.path
      BY <3>1
    <3>3. o = m
      BY <1>2, <1>3, <3>2 DEF ReceiptFits, OnePath, Members
    <3>. QED  BY <1>1, <3>1, <3>2, <3>3
  <2>. QED  BY <2>1 DEF AllAfter, AsAfter, AsWritten, Members
<1>7. LockIsTrue(disk', drifted)
  BY <1>2, <1>6, TrueByReceipt
<1>8. run' \in RestingRuns
  BY <1>1 DEF RestingRuns
<1>. QED  BY <1>1, <1>2, <1>5, <1>7, <1>8, RestingStep

LEMMA EndAdopt == AdoptInv /\ Adopt!End => AdoptInv'
<1>. SUFFICES ASSUME AdoptInv, Adopt!End PROVE AdoptInv'
  OBVIOUS
<1>1. /\ cut' = (cut \/ (run.command = "recover" /\ debris # Adopt!Empty)) /\ run' = Adopt!Idle
      /\ UNCHANGED <<disk, staged, backup, debris, plan, receipt, drifted, standing>>
      /\ \/ UNCHANGED <<journal, undoing>>
         \/ journal' = Torn /\ UNCHANGED undoing
         \/ run.command = "rollback" /\ undoing' = Torn /\ UNCHANGED journal
  BY DEF Adopt!End, Adopt!At
<1>2. run' \in RestingRuns
  BY <1>1 DEF RestingRuns
<1>3. AdoptTypes'
  BY <1>1, <1>2 DEF AdoptInv, AdoptTypes, JournalValues
<1>4. PlanFits' /\ Receipts'
  BY <1>1, PlansKept DEF AdoptInv
<1>5. Journals' /\ NoJournal'
  <2>1. CASE UNCHANGED <<journal, undoing>>
    BY <1>1, <2>1 DEF AdoptInv, Journals, NoJournal
  <2>2. CASE journal' = Torn
    BY <2>2, NoText DEF Journals, NoJournal, Written
  <2>3. CASE run.command = "rollback" /\ undoing' = Torn /\ UNCHANGED journal
    <3>1. journal = None
      BY <2>3 DEF AdoptInv, RollingBack
    <3>. QED  BY <1>1, <2>3, <3>1, NoText DEF AdoptInv, Journals, NoJournal, Written
  <2>. QED  BY <1>1, <2>1, <2>2, <2>3
<1>6. Leftovers'
  BY <1>1 DEF AdoptInv, Leftovers
<1>7. Applying' /\ Closing' /\ Recovering' /\ RollingBack'
  BY <1>2, RestingFacts DEF Applying, Closing, Recovering, RollingBack
<1>. QED  BY <1>3, <1>4, <1>5, <1>6, <1>7 DEF AdoptInv

(* The owner edits a file: what holds of an edited file holds on.          *)
LEMMA EditAdopt == \A p \in Adopt!Files : AdoptInv /\ Adopt!Edit(p) => AdoptInv'
<1>. SUFFICES ASSUME NEW p \in Adopt!Files, AdoptInv, Adopt!Edit(p) PROVE AdoptInv'
  OBVIOUS
<1>1. /\ disk[p] # None
      /\ disk' = [disk EXCEPT ![p] = Edited] /\ drifted' = drifted \cup {p}
      /\ UNCHANGED <<staged, backup, debris, plan, journal, receipt, undoing, run, ends, cut, standing>>
  BY DEF Adopt!Edit
<1>2. disk \in Disks
  BY DEF AdoptInv, AdoptTypes
<1>3. /\ \A q \in Adopt!Files : \A v : AsWritten(disk, drifted, q, v) => AsWritten(disk', drifted', q, v)
      /\ \A f, q, v : AsWritten(f, drifted, q, v) => AsWritten(f, drifted', q, v)
      /\ \A m : m.path \in Adopt!Files /\ Accounted(drifted, m, disk[m.path]) => Accounted(drifted', m, disk'[m.path])
      /\ \A m, v : Accounted(drifted, m, v) => Accounted(drifted', m, v)
      /\ LockIsTrue(disk, drifted) => LockIsTrue(disk', drifted')
      /\ \A z : WasTrue(disk, drifted, z) => WasTrue(disk', drifted', z)
      /\ \A pl, z : LeavesOut(disk, drifted, pl, z) => LeavesOut(disk', drifted', pl, z)
      /\ \A z : ReceiptFits(z, drifted) => ReceiptFits(z, drifted')
  BY <1>1, <1>2, Edits
<1>4. /\ disk' \in Disks /\ \A q \in Adopt!Files : q # p => disk'[q] = disk[q]
      /\ drifted' \subseteq Adopt!Files
  <2>1. Edited \in Contents
    BY DEF Contents
  <2>. QED  BY <1>1, <1>2, <2>1 DEF Disks, AdoptInv, AdoptTypes
<1>5. \A z \in Seq(Mutations) : \A i \in 1 .. Len(z) : z[i].path \in Adopt!Files /\ z[i] \in Members(z)
  <2>1. \A m \in Mutations : m.path \in Adopt!Files
    BY DEF Mutations
  <2>. QED  BY <2>1, ElementOfSeq DEF Members
<1>6. \A z \in Seq(Mutations) : \A i \in 1 .. Len(z) :
         /\ AsBefore(disk, drifted, z[i]) => AsBefore(disk', drifted', z[i])
         /\ AsAfter(disk, drifted, z[i]) => AsAfter(disk', drifted', z[i])
         /\ Accounted(drifted, z[i], disk[z[i].path]) => Accounted(drifted', z[i], disk'[z[i].path])
  BY <1>3, <1>5 DEF AsBefore, AsAfter
<1>7. \A f, m : AsBefore(f, drifted, m) => AsBefore(f, drifted', m)
  BY <1>3 DEF AsBefore
<1>8. \A z \in Seq(Mutations) :
         /\ AllBefore(disk, drifted, z) => AllBefore(disk', drifted', z)
         /\ AllAfter(disk, drifted, z) => AllAfter(disk', drifted', z)
         /\ AllAccounted(disk, drifted, z) => AllAccounted(disk', drifted', z)
  BY <1>6 DEF AllBefore, AllAfter, AllAccounted
<1>9. Written(journal) => journal \in Seq(Mutations)
  BY DEF AdoptInv, AdoptTypes, JournalValues, Written
<1>10. AdoptTypes' /\ PlanFits' /\ Leftovers'
  BY <1>1, <1>4 DEF AdoptInv, AdoptTypes, PlanFits, Leftovers
<1>11. Receipts'
  BY <1>1, <1>3 DEF AdoptInv, Receipts
<1>12. Journals'
  BY <1>1, <1>3, <1>8, <1>9 DEF AdoptInv, Journals
<1>13. NoJournal'
  BY <1>1, <1>3 DEF AdoptInv, NoJournal
<1>14. Closing'
  BY <1>1, <1>8, <1>9 DEF AdoptInv, Closing
<1>15. Applying'
  <2>. SUFFICES ASSUME run.command = "apply" PROVE InApply'
    BY <1>1 DEF Applying
  <2>1. InApply /\ \A i \in 1 .. Len(run.todo) : run.todo[i] \in Adopt!Files
    BY ApplyFacts
  <2>2. \A k : k \in Nat /\ k <= Len(journal) /\ Written(journal) /\ Swapped(disk, backup, drifted, journal, k)
                 => Swapped(disk', backup, drifted', journal, k)
    <3>1. Written(journal) => Len(journal) \in Nat
      BY <1>9, LenProperties
    <3>2. ASSUME NEW k \in Nat, k <= Len(journal), Written(journal) PROVE \A i \in 1 .. k : i \in 1 .. Len(journal)
      BY <3>1, <3>2
    <3>. QED  BY <1>6, <1>7, <1>9, <3>2 DEF Swapped
  <2>3. run.at \in {"prepare", "stage", "away", "swap", "receipt", "undo"} => Written(journal) /\ Len(run.todo) \in Nat
    BY <2>1, ApplyFacts DEF InApply
  <2>4. run.at = "prepare" => Preparing'
    <3>. SUFFICES ASSUME run.at = "prepare" PROVE Preparing'
      OBVIOUS
    <3>1. Preparing /\ Written(journal) /\ run.n - 1 \in Nat /\ run.n - 1 <= Len(journal)
      BY <2>1, <2>3 DEF InApply, Preparing, Recorded
    <3>. QED  BY <1>1, <2>2, <3>1 DEF Preparing
  <2>5. run.at \in {"stage", "away"} => Staging'
    <3>. SUFFICES ASSUME run.at \in {"stage", "away"} PROVE Staging'
      OBVIOUS
    <3>1. Staging /\ Written(journal) /\ run.n - 1 \in Nat /\ run.n - 1 <= Len(journal) /\ run.n \in 1 .. Len(journal)
      BY <2>1, <2>3 DEF InApply, Staging, Recorded
    <3>2. AsBefore(disk', drifted', journal[run.n])
      BY <1>6, <1>9, <3>1 DEF Staging
    <3>. QED  BY <1>1, <2>2, <3>1, <3>2 DEF Staging
  <2>6. run.at = "swap" => Swapping'
    <3>. SUFFICES ASSUME run.at = "swap" PROVE Swapping'
      OBVIOUS
    <3>1. Swapping /\ Written(journal) /\ run.n - 1 \in Nat /\ run.n - 1 <= Len(journal) /\ run.n \in 1 .. Len(run.todo)
      BY <2>1, <2>3 DEF InApply, Swapping, Recorded
    <3>2. disk'[run.todo[run.n]] = None
      BY <1>1, <1>4, <2>1, <3>1 DEF Swapping
    <3>. QED  BY <1>1, <1>7, <2>2, <3>1, <3>2 DEF Swapping
  <2>7. run.at = "receipt" => Receipting'
    <3>. SUFFICES ASSUME run.at = "receipt" PROVE Receipting'
      OBVIOUS
    <3>1. Receipting /\ Written(journal) /\ run.n \in Nat /\ run.n <= Len(journal)
      BY <2>1, <2>3 DEF InApply, Receipting, Recorded
    <3>. QED  BY <1>1, <2>2, <3>1 DEF Receipting
  <2>8. run.at = "undo" => Undoing'
    <3>. SUFFICES ASSUME run.at = "undo" PROVE Undoing'
      OBVIOUS
    <3>1. Undoing /\ Written(journal) /\ Len(journal) \in Nat
      BY <1>9, <2>1, <2>3, LenProperties DEF InApply, Undoing
    <3>2. run.n \in Nat /\ run.n <= Len(journal) /\ \A i \in run.n + 1 .. Len(journal) : i \in 1 .. Len(journal)
      BY <3>1 DEF Undoing
    <3>3. \A i \in run.n + 1 .. Len(journal) : AsBefore(disk', drifted', journal[i])
      BY <1>6, <1>9, <3>1, <3>2 DEF Undoing
    <3>. QED  BY <1>1, <2>2, <3>1, <3>2, <3>3 DEF Undoing
  <2>. QED  BY <1>1, <1>3, <2>1, <2>4, <2>5, <2>6, <2>7, <2>8 DEF InApply
<1>16. Recovering'
  <2>. SUFFICES ASSUME run.command = "recover" PROVE Recovering'
    BY <1>1 DEF Recovering
  <2>1. Recovering /\ Written(journal) /\ journal \in Seq(Mutations)
    BY RecoverFacts DEF AdoptInv
  <2>2. InRestore => InRestore'
    <3>1. \A m \in Members(journal) : AsBefore(disk, drifted, m) => AsBefore(disk', drifted', m)
      BY <1>6, <2>1 DEF Members
    <3>. QED  BY <1>1, <1>3, <3>1 DEF InRestore
  <2>. QED  BY <1>1, <1>8, <2>1, <2>2 DEF Recovering
<1>17. RollingBack'
  <2>. SUFFICES ASSUME run.command = "rollback" PROVE RollingBack'
    BY <1>1 DEF RollingBack
  <2>1. RollingBack /\ run.todo \in Seq(Mutations) /\ Len(run.todo) \in Nat
    BY RollbackFacts, LenProperties DEF AdoptInv
  <2>2. run.n \in 0 .. Len(run.todo) => \A i \in 1 .. run.n : i \in 1 .. Len(run.todo)
    BY <2>1
  <2>. QED  BY <1>1, <1>6, <2>1, <2>2 DEF RollingBack
<1>. QED  BY <1>10, <1>11, <1>12, <1>13, <1>14, <1>15, <1>16, <1>17 DEF AdoptInv

LEMMA AdoptInit == Adopt!Init => AdoptInv
<1>. SUFFICES ASSUME Adopt!Init PROVE AdoptInv
  OBVIOUS
<1>1. /\ disk \in [Adopt!Files -> {None, Mine}] /\ disk[Lock] = None
      /\ staged = Adopt!Empty /\ backup = Adopt!Empty /\ debris = Adopt!Empty
      /\ plan = None /\ journal = None /\ undoing = None
      /\ receipt = [t \in 1 .. MaxRuns |-> None]
      /\ run = Adopt!Idle /\ drifted = {}
  BY DEF Adopt!Init
<1>2. run \in RestingRuns
  BY <1>1 DEF RestingRuns
<1>3. AdoptTypes
  <2>1. Adopt!Empty \in Disks /\ disk \in Disks
    BY <1>1 DEF Adopt!Empty, Disks, Contents
  <2>. QED  BY <1>1, <1>2, <2>1 DEF AdoptTypes, JournalValues, ReceiptValues
<1>4. PlanFits /\ Receipts /\ Journals /\ Leftovers
  BY <1>1 DEF PlanFits, Receipts, Journals, Written, Leftovers
<1>5. NoJournal
  BY <1>1 DEF NoJournal, LockIsTrue, Claims, Silent
<1>6. Applying /\ Closing /\ Recovering /\ RollingBack
  BY <1>2, RestingFacts DEF Applying, Closing, Recovering, RollingBack
<1>. QED  BY <1>3, <1>4, <1>5, <1>6 DEF AdoptInv

LEMMA AdoptStep == AdoptInv /\ [Adopt!Next]_(Adopt!vars) => AdoptInv'
<1>1. ASSUME AdoptInv, UNCHANGED Adopt!vars PROVE AdoptInv'
  BY <1>1 DEF Adopt!vars, AdoptInv, AdoptTypes, PlanFits, Receipts, Journals, NoJournal, Leftovers, Applying, InApply,
     Preparing, Staging, Swapping, Receipting, Undoing, Closing, Recovering, InRestore, RollingBack
<1>2. ASSUME AdoptInv, Adopt!Next PROVE AdoptInv'
  BY <1>2, MakePlanAdopt, StartApplyAdopt, WriteHeaderAdopt, PrepareAdopt, StageAdopt, AwayAdopt, SwapAdopt,
     WriteReceiptAdopt, DropBackupsAdopt, CloseJournalAdopt, FailApplyAdopt, UndoAdopt, StartRecoverAdopt,
     RestoreAwayAdopt, RestoreInAdopt, FailRecoverAdopt, TidyAdopt, StartRollbackAdopt, WriteUndoingAdopt,
     BackAdopt, FailRollbackAdopt, EndAdopt, EditAdopt
     DEF Adopt!Next
<1>. QED  BY <1>1, <1>2

(* What the adoption promises, from its invariant.                         *)
LEMMA AdoptPromises ==
    AdoptInv => Adopt!LockTellsTheTruth /\ Adopt!NothingIsLeftBehind /\ Adopt!RecoveryIsPossible
<1>. SUFFICES ASSUME AdoptInv PROVE Adopt!LockTellsTheTruth /\ Adopt!NothingIsLeftBehind /\ Adopt!RecoveryIsPossible
  OBVIOUS
<1>1. ASSUME Adopt!Settled PROVE LockIsTrue(disk, drifted) /\ staged = Adopt!Empty /\ backup = Adopt!Empty /\ (debris = Adopt!Empty \/ cut)
  BY <1>1 DEF Adopt!Settled, Adopt!Resting, AdoptInv, NoJournal, Leftovers
<1>2. Adopt!LockTellsTheTruth
  BY <1>1 DEF Adopt!LockTellsTheTruth, LockIsTrue, Claims, Silent, ManagedFiles
<1>3. Adopt!NothingIsLeftBehind
  BY <1>1 DEF Adopt!NothingIsLeftBehind
<1>4. Adopt!RecoveryIsPossible
  <2>. SUFFICES ASSUME Written(journal), drifted = {}
                PROVE IF receipt[plan.tx] # None THEN \A m \in Adopt!ToSet(journal) : disk[m.path] = m.after
                                                 ELSE Adopt!Drift(journal) = {}
    BY DEF Adopt!RecoveryIsPossible, Written
  <2>1. journal \in Seq(Mutations) /\ Adopt!ToSet(journal) = Members(journal)
    BY AdoptOperators DEF AdoptInv, AdoptTypes, JournalValues, Written
  <2>2. IF receipt[plan.tx] # None THEN AllAfter(disk, {}, journal) ELSE AllAccounted(disk, {}, journal)
    BY DEF AdoptInv, Journals
  <2>3. CASE receipt[plan.tx] # None
    BY <2>1, <2>2, <2>3 DEF Members, AllAfter, AsAfter, AsWritten
  <2>4. CASE receipt[plan.tx] = None
    BY <2>1, <2>2, <2>4 DEF Members, AllAccounted, Accounted, Adopt!Drift
  <2>. QED  BY <2>3, <2>4
<1>. QED  BY <1>2, <1>3, <1>4

(* The edits that a command finds are edits of files.                      *)
Stood == standing \subseteq Adopt!Files
LEMMA StoodHolds ==
    /\ Adopt!Init => Stood
    /\ Stood /\ [Adopt!Next]_(Adopt!vars) => Stood'
<1>1. ASSUME Adopt!Init PROVE Stood
  BY <1>1 DEF Adopt!Init, Stood
<1>2. ASSUME [Adopt!Next]_(Adopt!vars) PROVE standing' = standing \/ standing' = {p \in Adopt!Files : disk[p] = Edited}
  BY <1>2 DEF Adopt!Next, Adopt!vars, Adopt!Begin, Adopt!Refuse, Adopt!RestoreAway, Adopt!RestoreIn, Adopt!FailRecover, Adopt!Edit,
     Adopt!At, Adopt!Resting, Adopt!MakePlan, Adopt!StartApply, Adopt!WriteHeader, Adopt!Prepare, Adopt!Stage, Adopt!Away, Adopt!Swap,
     Adopt!WriteReceipt, Adopt!DropBackups, Adopt!CloseJournal, Adopt!FailApply, Adopt!Undo, Adopt!StartRecover, Adopt!Tidy,
     Adopt!StartRollback, Adopt!WriteUndoing, Adopt!Back, Adopt!FailRollback, Adopt!End
<1>. QED  BY <1>1, <1>2 DEF Stood

(* A step of a recovery leaves an edit that was there when it began.       *)
LEMMA AdoptSpares == AdoptInv /\ Stood /\ [Adopt!Next]_(Adopt!vars) => Adopt!RecoverySparesEdits
<1>. SUFFICES ASSUME AdoptInv, Stood, [Adopt!Next]_(Adopt!vars), run.command = "recover",
                     NEW p \in standing, disk[p] = Edited,
                     ~ \E m \in Adopt!ToSet(journal) : m.path = p /\ m.before = Edited
              PROVE  disk'[p] = Edited
  BY DEF Adopt!RecoverySparesEdits
<1>1. /\ run.todo \in Seq(Mutations) /\ Len(run.todo) \in Nat
      /\ \A m \in Members(journal) : m.path \in Adopt!Files
      /\ journal \in Seq(Mutations) /\ run.n \in Nat
      /\ run.at \in {"away", "in"} => InRestore
  BY RecoverFacts
<1>2. Adopt!ToSet(journal) = Members(journal)
  BY <1>1, AdoptOperators
<1>3. disk \in Disks
  BY DEF AdoptInv, AdoptTypes
<1>4. ASSUME run.at \in {"away", "in"}
      PROVE  /\ run.n \in 0 .. Len(run.todo)
             /\ \A i \in 1 .. Len(run.todo) : run.todo[i].path \in Adopt!Files /\ run.todo[i].path # p
  <2>1. /\ run.n \in 0 .. Len(run.todo) /\ Members(run.todo) \subseteq Members(journal)
        /\ \A m \in Members(journal) : m.path \in standing => m.before = Edited
    BY <1>1, <1>4 DEF InRestore
  <2>2. \A m \in Members(journal) : m.path # p
    BY <1>2, <2>1
  <2>. QED  BY <1>1, <2>1, <2>2 DEF Members
<1>5. CASE Adopt!RestoreAway
  <2>1. CASE run.n = Len(run.todo)
    BY <1>5, <2>1 DEF Adopt!RestoreAway
  <2>2. CASE run.n # Len(run.todo)
    <3>1. run.at = "away" /\ disk' = [disk EXCEPT ![run.todo[run.n + 1].path] = None]
      BY <1>5, <2>2 DEF Adopt!RestoreAway, Adopt!At
    <3>2. run.n + 1 \in 1 .. Len(run.todo)
      BY <1>1, <1>4, <2>2, <3>1
    <3>3. run.todo[run.n + 1].path # p
      BY <1>4, <3>1, <3>2
    <3>. QED  BY <1>3, <3>1, <3>3 DEF Disks
  <2>. QED  BY <2>1, <2>2
<1>6. CASE Adopt!RestoreIn
  <2>1. run.at = "in" /\ disk' = [disk EXCEPT ![run.todo[run.n].path] = run.todo[run.n].before]
    BY <1>6 DEF Adopt!RestoreIn, Adopt!At, Adopt!Current
  <2>2. run.n \in 1 .. Len(run.todo)
    BY <1>1, <1>4, <2>1 DEF InRestore
  <2>3. run.todo[run.n].path # p
    BY <1>4, <2>1, <2>2
  <2>. QED  BY <1>3, <2>1, <2>3 DEF Disks
<1>7. CASE Adopt!FailRecover
  <2>1. /\ run.at \in {"away", "in"}
        /\ disk' = [q \in Adopt!Files |-> IF q \in {run.todo[i].path : i \in 1 .. run.n} THEN debris[q] ELSE disk[q]]
    BY <1>7 DEF Adopt!FailRecover
  <2>2. p \notin {run.todo[i].path : i \in 1 .. run.n}
    BY <1>1, <1>4, <2>1
  <2>3. standing \subseteq Adopt!Files
    BY DEF Stood
  <2>. QED  BY <2>1, <2>2, <2>3
<1>8. CASE \E q \in Adopt!Files : Adopt!Edit(q)
  BY <1>3, <1>8 DEF Adopt!Edit, Disks
<1>9. CASE UNCHANGED disk
  BY <1>9
<1>10. Adopt!RestoreAway \/ Adopt!RestoreIn \/ Adopt!FailRecover \/ (\E q \in Adopt!Files : Adopt!Edit(q)) \/ UNCHANGED disk
  BY DEF Adopt!Next, Adopt!vars, Adopt!At, Adopt!Resting, Adopt!MakePlan, Adopt!StartApply, Adopt!WriteHeader, Adopt!Prepare, Adopt!Stage, Adopt!Away, Adopt!Swap,
     Adopt!WriteReceipt, Adopt!DropBackups, Adopt!CloseJournal, Adopt!FailApply, Adopt!Undo, Adopt!StartRecover, Adopt!Tidy,
     Adopt!StartRollback, Adopt!WriteUndoing, Adopt!Back, Adopt!FailRollback, Adopt!End
<1>. QED  BY <1>5, <1>6, <1>7, <1>8, <1>9, <1>10

-----------------------------------------------------------------------------
AdoptPart == part = "adoption" => AdoptInv /\ Stood

LEMMA AdoptPartHolds ==
    /\ AgentFlowInit => AdoptPart
    /\ AdoptPart /\ [AgentFlowNext]_all => AdoptPart'
<1>1. ASSUME AgentFlowInit PROVE AdoptPart
  <2>1. part = "adoption" => Adopt!Init
    BY <1>1 DEF AgentFlowInit
  <2>. QED  BY <2>1, AdoptInit, StoodHolds DEF AdoptPart
<1>2. ASSUME AdoptPart, [AgentFlowNext]_all PROVE AdoptPart'
  <2>. SUFFICES ASSUME part' = "adoption" PROVE (AdoptInv /\ Stood)'
    BY DEF AdoptPart
  <2>1. part = "adoption" /\ [Adopt!Next]_(Adopt!vars)
    BY <1>2 DEF AgentFlowNext, all, adoption, shared, Adopt!vars
  <2>. QED  BY <1>2, <2>1, AdoptStep, StoodHolds DEF AdoptPart
<1>. QED  BY <1>1, <1>2

(* When no journal of the adoption is left, whatever failed or ended on    *)
(* the way, each of the framework's files is what its lock says but for    *)
(* what the owner edited, and no file of a transaction lies about; and an  *)
(* interrupted apply that nobody edited can be recovered                   *)
(* (src/lib/adoption/transaction.mjs), for profiles of any length and any  *)
(* number of transactions, edits and ends.                                 *)
THEOREM LockTellsTheTruthHolds == AgentFlowSpec => []LockTellsTheTruth
<1>1. AdoptPart => LockTellsTheTruth
  BY AdoptPromises DEF AdoptPart, LockTellsTheTruth
<1>. QED  BY <1>1, AdoptPartHolds, PTL DEF AgentFlowSpec

(* A recovery replaces no edit that was there when it began, unless by     *)
(* the same edit, which the transaction had taken (restoreMutationSet of   *)
(* transaction.mjs).                                                       *)
THEOREM RecoveryKeepsEditsHolds == AgentFlowSpec => RecoveryKeepsEdits
<1>1. AdoptPart /\ [AgentFlowNext]_all => [part = "adoption" => Adopt!RecoverySparesEdits]_all
  <2>1. part = "adoption" /\ [AgentFlowNext]_all => [Adopt!Next]_(Adopt!vars)
    BY DEF AgentFlowNext, all, adoption, shared, Adopt!vars
  <2>. QED  BY <2>1, AdoptSpares DEF AdoptPart
<1>. QED  BY <1>1, AdoptPartHolds, PTL DEF AgentFlowSpec, RecoveryKeepsEdits
=============================================================================
