---------------------------- MODULE AgentLogProofs ----------------------------
(***************************************************************************)
(* Proofs about the parts of AgentFlow that processes share, for every     *)
(* value of the constants: the audit journal, the delegated operations,    *)
(* the run store on a branch and the operation lock of an adoption.  Any   *)
(* number of processes, writers, events, grants and operations, segments   *)
(* and chains of any size, ends at any step.                               *)
(***************************************************************************)
EXTENDS MCAgentFlow, Concatenations, FiniteSetTheorems

-----------------------------------------------------------------------------
(* The audit journal. *)
Kinds == Business \cup Safety
Journal == [entries : SUBSET Kinds, acks : SUBSET Kinds, retired : SUBSET Kinds]
Steps == {"idle", "reconcile", "put", "send", "sent", "done", "refused", "unknown"}
Jobs == [at : Steps, event : Kinds \cup {None}]
Bys == {"append", "replay"}
Had == {source[i] : i \in 1..Len(source)}
Tip == IF source = <<>> THEN None ELSE source[Len(source)]

JobTypes ==
    /\ job \in [Keepers -> Jobs]
    /\ \A p \in Keepers : job[p].at # "idle" => job[p].event # None

AuditTypes ==
    /\ source \in Seq(Kinds \cup {Foreign})
    /\ prev \in [Kinds -> Kinds \cup {Foreign, None, New}]
    /\ entries \in SUBSET Kinds /\ acks \in SUBSET Kinds /\ retired \in SUBSET Kinds
    /\ slots \in [Safety -> {"none", "written", "committed", "acknowledged"}]
    /\ stage \in Journal \cup {None}
    /\ JobTypes

(* What an event was derived to follow is in the source, and so is what it *)
(* does follow; no event is in the source twice.                           *)
Follows == \A e \in Kinds : prev[e] # New => prev[e] = None \/ prev[e] \in Had
Ordered ==
    \A i \in 1..Len(source) :
        source[i] \in Kinds => prev[source[i]] = IF i = 1 THEN None ELSE source[i - 1]
Once == \A i, j \in 1..Len(source) : source[i] = source[j] => i = j

(* The source has moved past the event for good; the journal has it; it is *)
(* on its way.                                                             *)
Stale(e) == prev[e] # New /\ prev[e] # Tip
Journaled(e) == e \in entries \cup acks \/ (e \in Safety /\ slots[e] \in {"committed", "acknowledged"})
Asked(e) == \E by \in Bys : <<e, by>> \in flying

(* No request leaves for an event that the journal does not have, unless   *)
(* the source can no longer take it.                                       *)
Requests == \A e \in Kinds : Asked(e) => prev[e] # New /\ (Journaled(e) \/ Stale(e))
Sending == \A p \in Keepers : job[p].at = "send" => Journaled(job[p].event) \/ Stale(job[p].event)

(* An event that has not been put into the journal is nowhere in it.       *)
Unsent(e) == prev[e] = New \/ \E p \in Keepers : job[p].event = e /\ job[p].at \in {"reconcile", "put"}
Blank(e) == e \notin entries /\ (e \in Safety => slots[e] = "none") /\ (stage # None => e \notin stage.entries)
Fresh == \A e \in Kinds : Unsent(e) => ~Asked(e) /\ Blank(e)
Owned ==
    \A p \in Keepers : job[p].event # None =>
        prev[job[p].event] # New /\ \A q \in Keepers : job[q].event = job[p].event => q = p

(* A stage that was not promoted follows the snapshot that it would        *)
(* replace, which no step takes further.                                   *)
StageFollows ==
    stage # None =>
        /\ acks \subseteq stage.acks /\ retired \subseteq stage.retired
        /\ entries \subseteq stage.entries \cup stage.acks \cup stage.retired
        /\ stage.retired \subseteq retired \cup entries
Settled == acks \subseteq Had /\ \A e \in retired : e \notin Had /\ Stale(e)
Sourced == \A e \in Had \ {Foreign} : Journaled(e)

AuditInv ==
    /\ AuditTypes /\ Follows /\ Ordered /\ Once
    /\ Requests /\ Sending /\ Fresh /\ Owned
    /\ StageFollows /\ Settled /\ Sourced

-----------------------------------------------------------------------------
(* The operators of the instance, in the terms above. *)
LEMMA Views ==
    ASSUME source \in Seq(Kinds \cup {Foreign})
    PROVE  /\ Audit!Events = Kinds /\ Audit!Revision = Tip
           /\ Audit!Range(source) = Had
           /\ \A e : Audit!In(e) <=> e \in Had
<1>1. Audit!Range(source) = Had
  BY DEF Audit!Range, Had
<1>2. Audit!Revision = Tip
  BY DEF Audit!Revision, Tip, Audit!Last
<1>. QED  BY <1>1, <1>2 DEF Audit!In, Audit!Events, Kinds

LEMMA TipIsHad ==
    ASSUME source \in Seq(Kinds \cup {Foreign})
    PROVE  /\ Tip = None \/ Tip \in Had
           /\ Tip \in Kinds \cup {Foreign, None} /\ Tip # New
           /\ Had \subseteq Kinds \cup {Foreign}
<1>1. Had \subseteq Kinds \cup {Foreign}
  BY ElementOfSeq DEF Had
<1>2. source # <<>> => Len(source) \in 1..Len(source)
  BY EmptySeq, LenProperties
<1>3. Tip = None \/ Tip \in Had
  BY <1>2 DEF Tip, Had
<1>. QED  BY <1>1, <1>3, JournalAssumption DEF Kinds

(* The source takes what it does not have and what follows it: then every  *)
(* event that was derived before is past.                                  *)
LEMMA SourceGrows ==
    ASSUME AuditTypes, Follows, Ordered, Once,
           NEW x \in Kinds \cup {Foreign}, x \in Kinds => prev[x] = Tip, x = Foreign => x \notin Had,
           source' = Append(source, x), UNCHANGED prev
    PROVE  /\ x \notin Had
           /\ source' \in Seq(Kinds \cup {Foreign}) /\ Had' = Had \cup {x} /\ Tip' = x
           /\ Follows' /\ Ordered' /\ Once'
           /\ \A e \in Kinds : prev[e] # New => Stale(e)'
<1>. DEFINE n == Len(source)
<1>0. /\ source \in Seq(Kinds \cup {Foreign}) /\ n \in Nat
      /\ source = <<>> <=> n = 0
      /\ \A i \in 1..n : source[i] \in Kinds \cup {Foreign}
  BY EmptySeq, LenProperties, ElementOfSeq DEF AuditTypes
<1>1. /\ source' \in Seq(Kinds \cup {Foreign}) /\ Len(source') = n + 1
      /\ \A i \in 1..n : source'[i] = source[i]
      /\ source'[n + 1] = x
  BY <1>0, AppendProperties
<1>2. x \notin Had
  <2>. SUFFICES ASSUME x \in Kinds, NEW i \in 1..n, source[i] = x
                PROVE  FALSE
    BY DEF Had
  <2>1. n # 0 /\ Tip = source[n]
    BY <1>0 DEF Tip
  <2>2. prev[x] = IF i = 1 THEN None ELSE source[i - 1]
    BY DEF Ordered
  <2>3. i # 1
    BY <1>0, <2>1, <2>2, JournalAssumption DEF Kinds
  <2>4. source[i - 1] = source[n] /\ i - 1 \in 1..n /\ n \in 1..n
    BY <1>0, <2>1, <2>2, <2>3
  <2>. QED  BY <2>4 DEF Once
<1>3. Had' = Had \cup {x}
  <2>1. 1..Len(source') = 1..n \cup {n + 1}
    BY <1>0, <1>1
  <2>. QED  BY <1>1, <2>1 DEF Had
<1>4. Tip' = x
  BY <1>0, <1>1, EmptySeq DEF Tip
<1>5. Follows'
  BY <1>3 DEF Follows
<1>6. Ordered'
  <2>. SUFFICES ASSUME NEW i \in 1..n + 1, source'[i] \in Kinds
                PROVE  prev[source'[i]] = IF i = 1 THEN None ELSE source'[i - 1]
    BY <1>1 DEF Ordered
  <2>1. CASE i \in 1..n
    <3>1. i # 1 => i - 1 \in 1..n
      BY <1>0, <2>1
    <3>. QED  BY <1>1, <2>1, <3>1 DEF Ordered
  <2>2. CASE i = n + 1
    <3>1. i # 1 => n \in 1..n /\ i - 1 = n /\ Tip = source[n]
      BY <1>0, <2>2 DEF Tip
    <3>2. i = 1 => Tip = None
      BY <1>0, <2>2 DEF Tip
    <3>. QED  BY <1>1, <2>2, <3>1, <3>2
  <2>. QED  BY <1>0, <2>1, <2>2
<1>7. Once'
  <2>. SUFFICES ASSUME NEW i \in 1..n + 1, NEW j \in 1..n + 1, source'[i] = source'[j]
                PROVE  i = j
    BY <1>1 DEF Once
  <2>1. \A k \in 1..n : source'[k] \in Had
    BY <1>1 DEF Had
  <2>2. CASE i \in 1..n /\ j \in 1..n
    BY <1>1, <2>2 DEF Once
  <2>3. CASE i = n + 1 \/ j = n + 1
    BY <1>0, <1>1, <1>2, <2>1, <2>3
  <2>. QED  BY <1>0, <2>2, <2>3
<1>8. \A e \in Kinds : prev[e] # New => Stale(e)'
  BY <1>2, <1>4, JournalAssumption DEF Follows, Stale, Kinds
<1>. QED  BY <1>1, <1>2, <1>3, <1>4, <1>5, <1>6, <1>7, <1>8

(* A step of one process with its job: onward with its event, or free. *)
LEMMA JobMoves ==
    ASSUME JobTypes, Owned, UNCHANGED prev,
           NEW p \in Keepers, NEW next \in Steps, next # "idle" => job[p].event # None,
           next \in {"reconcile", "put"} => job[p].at \in {"reconcile", "put"},
           Audit!Go(p, next) \/ Audit!Stop(p)
    PROVE  /\ JobTypes' /\ Owned'
           /\ \A q \in Keepers : q # p => job'[q] = job[q]
           /\ Audit!Go(p, next) => job'[p].at = next /\ job'[p].event = job[p].event
           /\ ~Audit!Go(p, next) => job'[p] = Audit!Free
           /\ \A e \in Kinds : Unsent(e)' => Unsent(e)
           /\ next \notin {"reconcile", "put"} => \A e \in Kinds : e = job[p].event => ~Unsent(e)'
<1>1. /\ \A q \in Keepers : q # p => job'[q] = job[q]
      /\ Audit!Go(p, next) => job'[p] = [job[p] EXCEPT !.at = next]
      /\ ~Audit!Go(p, next) => job'[p] = Audit!Free
      /\ job' \in [Keepers -> Jobs]
  BY DEF Audit!Go, Audit!Stop, Audit!Free, JobTypes, Jobs, Steps
<1>2. /\ Audit!Go(p, next) => job'[p].at = next /\ job'[p].event = job[p].event
      /\ ~Audit!Go(p, next) => job'[p].at = "idle" /\ job'[p].event = None
  BY <1>1 DEF Audit!Free, JobTypes, Jobs
<1>3. JobTypes'
  BY <1>1, <1>2 DEF JobTypes
<1>4. Owned'
  <2>. SUFFICES ASSUME NEW q \in Keepers, job'[q].event # None, NEW r \in Keepers, job'[r].event = job'[q].event
                PROVE  prev[job'[q].event] # New /\ r = q
    BY DEF Owned
  <2>1. job'[q].event = job[q].event /\ job'[r].event = job[r].event
    BY <1>1, <1>2
  <2>. QED  BY <2>1 DEF Owned
<1>5. \A e \in Kinds : Unsent(e)' => Unsent(e)
  BY <1>1, <1>2 DEF Unsent
<1>6. ASSUME next \notin {"reconcile", "put"}, NEW e \in Kinds, e = job[p].event, Unsent(e)'
      PROVE  FALSE
  <2>1. e # None
    BY JournalAssumption DEF Kinds
  <2>2. prev[e] # New /\ \A q \in Keepers : job[q].event = e => q = p
    BY <1>6, <2>1 DEF Owned
  <2>. QED  BY <1>1, <1>2, <1>6, <2>2 DEF Unsent
<1>. QED  BY <1>1, <1>2, <1>3, <1>4, <1>5, <1>6
-----------------------------------------------------------------------------
(* A step of the journal alone: what it had it has, or retires; what has   *)
(* not been put stays out; and its decisions agree with the source.        *)
LEMMA JournalSteps ==
    ASSUME AuditInv, UNCHANGED <<source, prev, flying>>,
           entries' \in SUBSET Kinds, acks' \in SUBSET Kinds, retired' \in SUBSET Kinds,
           slots' \in [Safety -> {"none", "written", "committed", "acknowledged"}],
           stage' \in Journal \cup {None}, JobTypes', Owned', StageFollows',
           acks' \subseteq Had, \A e \in retired' : e \notin Had /\ Stale(e),
           \A e \in Kinds : Journaled(e) => Journaled(e)' \/ (Stale(e) /\ e \notin Had),
           \A e \in Kinds : Unsent(e)' => Unsent(e) /\ Blank(e)',
           \A p \in Keepers : job'[p].at = "send" => job'[p] = job[p] \/ Journaled(job[p].event)'
    PROVE  AuditInv'
<1>. Had' = Had /\ Tip' = Tip /\ \A e : Stale(e)' <=> Stale(e)
  BY DEF Had, Tip, Stale
<1>. \A e : Asked(e)' <=> Asked(e)
  BY DEF Asked
<1>1. AuditTypes' /\ Follows' /\ Ordered' /\ Once'
  BY DEF AuditInv, AuditTypes, Follows, Ordered, Once
<1>2. Requests'
  BY DEF AuditInv, Requests
<1>3. Sending'
  <2>. SUFFICES ASSUME NEW p \in Keepers, job'[p].at = "send"
                PROVE  (Journaled(job[p].event) \/ Stale(job[p].event))'
    BY DEF Sending
  <2>1. CASE job'[p] = job[p]
    <3>. DEFINE e == job[p].event
    <3>1. e \in Kinds /\ (Journaled(e) \/ Stale(e)) /\ job'[p].event = e
      BY <2>1 DEF AuditInv, AuditTypes, JobTypes, Jobs, Sending
    <3>. QED  BY <2>1, <3>1 DEF Journaled, Stale
  <2>. QED  BY <2>1
<1>4. Fresh'
  BY DEF AuditInv, Fresh
<1>5. Settled'
  BY DEF Settled
<1>6. Sourced'
  BY TipIsHad DEF AuditInv, AuditTypes, Sourced
<1>. QED  BY <1>1, <1>2, <1>3, <1>4, <1>5, <1>6 DEF AuditInv

(* A snapshot that follows the journal, promoted, or staged by a process   *)
(* that then dies.                                                         *)
LEMMA Snapshots ==
    ASSUME AuditInv, UNCHANGED <<source, prev, flying, slots>>,
           NEW p \in Keepers, NEW next \in Steps, next # "idle" => job[p].event # None,
           next \in {"reconcile", "put"} => job[p].at \in {"reconcile", "put"},
           NEW v \in Journal, Audit!Save(p, v, next),
           acks \subseteq v.acks, retired \subseteq v.retired,
           entries \subseteq v.entries \cup v.acks \cup v.retired, v.retired \subseteq retired \cup entries,
           v.acks \subseteq Had, \A e \in v.retired : e \notin Had /\ Stale(e),
           \A e \in v.entries : e \in entries \/ (e = job[p].event /\ next \notin {"reconcile", "put"}),
           next = "send" => job[p].event \in v.entries
    PROVE  AuditInv'
<1>. DEFINE promoted == Audit!Promote(v) /\ UNCHANGED stage
            kept == UNCHANGED <<entries, acks, retired>> /\ stage' = v /\ Audit!Stop(p)
<1>1. stage = None /\ (Audit!Go(p, next) \/ Audit!Stop(p)) /\ (promoted \/ kept)
  BY DEF Audit!Save, Audit!Dies, Audit!journal
<1>2. /\ JobTypes' /\ Owned'
      /\ \A q \in Keepers : q # p => job'[q] = job[q]
      /\ Audit!Go(p, next) => job'[p].at = next /\ job'[p].event = job[p].event
      /\ ~Audit!Go(p, next) => job'[p] = Audit!Free
      /\ \A e \in Kinds : Unsent(e)' => Unsent(e)
      /\ next \notin {"reconcile", "put"} => \A e \in Kinds : e = job[p].event => ~Unsent(e)'
  BY <1>1, JobMoves DEF AuditInv, AuditTypes
<1>3. v.entries \in SUBSET Kinds /\ v.acks \in SUBSET Kinds /\ v.retired \in SUBSET Kinds
  BY DEF Journal
<1>4. \A e \in Kinds : Unsent(e)' => Unsent(e) /\ e \notin entries /\ e \notin v.entries /\ (e \in Safety => slots[e] = "none")
  BY <1>2 DEF AuditInv, Fresh, Blank
<1>5. CASE promoted
  <2>1. entries' = v.entries /\ acks' = v.acks /\ retired' = v.retired /\ stage' = None
    BY <1>1, <1>5 DEF Audit!Promote
  <2>2. \A e \in Kinds : Journaled(e) => Journaled(e)' \/ (Stale(e) /\ e \notin Had)
    BY <2>1 DEF Journaled
  <2>3. \A q \in Keepers : job'[q].at = "send" => job'[q] = job[q] \/ Journaled(job[q].event)'
    BY <1>2, <2>1 DEF Journaled, Audit!Free
  <2>4. \A e \in Kinds : Unsent(e)' => Unsent(e) /\ Blank(e)'
    BY <1>4, <2>1 DEF Blank
  <2>5. StageFollows'
    BY <2>1 DEF StageFollows
  <2>6. slots' \in [Safety -> {"none", "written", "committed", "acknowledged"}]
    BY DEF AuditInv, AuditTypes
  <2>. QED  BY <1>2, <1>3, <2>1, <2>2, <2>3, <2>4, <2>5, <2>6, JournalSteps
<1>6. CASE kept
  <2>1. stage' = v /\ \A q \in Keepers : job'[q].at = "send" => job'[q] = job[q]
    BY <1>2, <1>6 DEF Audit!Stop, Audit!Free, AuditInv, AuditTypes, JobTypes
  <2>2. \A e \in Kinds : Journaled(e) => Journaled(e)'
    BY <1>6 DEF Journaled
  <2>3. \A e \in Kinds : Unsent(e)' => Unsent(e) /\ Blank(e)'
    BY <1>4, <1>6 DEF Blank
  <2>4. StageFollows'
    BY <1>6 DEF StageFollows
  <2>5. /\ entries' \in SUBSET Kinds /\ acks' \in SUBSET Kinds /\ retired' \in SUBSET Kinds
        /\ slots' \in [Safety -> {"none", "written", "committed", "acknowledged"}]
    BY <1>6 DEF AuditInv, AuditTypes
  <2>6. acks' \subseteq Had /\ \A e \in retired' : e \notin Had /\ Stale(e)
    BY <1>6 DEF AuditInv, Settled
  <2>. QED  BY <1>2, <1>6, <2>1, <2>2, <2>3, <2>4, <2>5, <2>6, JournalSteps
<1>. QED  BY <1>1, <1>5, <1>6

(* A step that takes no snapshot: the slots of the reserve only advance,   *)
(* and none is taken for an event that has not been put.                   *)
LEMMA SlotsAdvance ==
    ASSUME AuditInv, UNCHANGED <<source, prev, flying, entries, acks, retired, stage>>,
           NEW p \in Keepers, NEW next \in Steps, next # "idle" => job[p].event # None,
           next \in {"reconcile", "put"} => job[p].at \in {"reconcile", "put"},
           Audit!Go(p, next) \/ Audit!Stop(p),
           slots' \in [Safety -> {"none", "written", "committed", "acknowledged"}],
           \A e \in Safety :
               /\ slots[e] \in {"committed", "acknowledged"} => slots'[e] \in {"committed", "acknowledged"}
               /\ slots'[e] # "none" => slots[e] # "none" \/ (e = job[p].event /\ next \notin {"reconcile", "put"}),
           Audit!Go(p, next) /\ next = "send" => Journaled(job[p].event)'
    PROVE  AuditInv'
<1>1. /\ JobTypes' /\ Owned'
      /\ \A q \in Keepers : q # p => job'[q] = job[q]
      /\ Audit!Go(p, next) => job'[p].at = next /\ job'[p].event = job[p].event
      /\ ~Audit!Go(p, next) => job'[p] = Audit!Free
      /\ \A e \in Kinds : Unsent(e)' => Unsent(e)
      /\ next \notin {"reconcile", "put"} => \A e \in Kinds : e = job[p].event => ~Unsent(e)'
  BY JobMoves DEF AuditInv, AuditTypes
<1>2. \A e \in Kinds : Unsent(e)' => Unsent(e) /\ Blank(e)'
  BY <1>1 DEF AuditInv, Fresh, Blank
<1>3. \A e \in Kinds : Journaled(e) => Journaled(e)'
  BY DEF Journaled
<1>4. \A q \in Keepers : job'[q].at = "send" => job'[q] = job[q] \/ Journaled(job[q].event)'
  BY <1>1 DEF Audit!Free
<1>5. /\ entries' \in SUBSET Kinds /\ acks' \in SUBSET Kinds /\ retired' \in SUBSET Kinds
      /\ stage' \in Journal \cup {None} /\ StageFollows'
  BY DEF AuditInv, AuditTypes, StageFollows
<1>6. acks' \subseteq Had /\ \A e \in retired' : e \notin Had /\ Stale(e)
  BY DEF AuditInv, Settled
<1>. QED  BY <1>1, <1>2, <1>3, <1>4, <1>5, <1>6, JournalSteps

LEMMA NoDecision ==
    ASSUME AuditInv, UNCHANGED <<source, prev, flying, entries, acks, retired, slots, stage>>,
           NEW p \in Keepers, NEW next \in Steps \ {"send"}, next # "idle" => job[p].event # None,
           next \in {"reconcile", "put"} => job[p].at \in {"reconcile", "put"},
           Audit!Go(p, next) \/ Audit!Stop(p)
    PROVE  AuditInv'
<1>1. slots' \in [Safety -> {"none", "written", "committed", "acknowledged"}]
  BY DEF AuditInv, AuditTypes
<1>. QED  BY <1>1, SlotsAdvance
-----------------------------------------------------------------------------
(* The steps of the journal, one lemma for each action. *)
LEMMA CompactAudit ==
    ASSUME AuditInv, UNCHANGED <<source, prev, flying>>,
           NEW p \in Keepers, NEW next \in {"reconcile", "idle"}, next # "idle" => job[p].event # None,
           next = "reconcile" => job[p].at = "reconcile",
           NEW e \in Kinds, Audit!In(e), Audit!Compact(p, e, next)
    PROVE  AuditInv'
<1>. next \in Steps /\ (next \in {"reconcile", "put"} => job[p].at \in {"reconcile", "put"}) /\ e \in Had
  BY Views DEF Steps, AuditInv, AuditTypes
<1>1. CASE e \in entries /\ UNCHANGED slots
           /\ Audit!Save(p, [Audit!Kept EXCEPT !.entries = @ \ {e}, !.acks = @ \cup {e}], next)
  <2>. DEFINE v == [Audit!Kept EXCEPT !.entries = @ \ {e}, !.acks = @ \cup {e}]
  <2>1. v.entries = entries \ {e} /\ v.acks = acks \cup {e} /\ v.retired = retired
    BY DEF Audit!Kept
  <2>2. v \in Journal
    BY DEF Audit!Kept, Journal, AuditInv, AuditTypes
  <2>3. v.acks \subseteq Had /\ \A f \in v.retired : f \notin Had /\ Stale(f)
    BY <2>1 DEF AuditInv, Settled
  <2>4. /\ acks \subseteq v.acks /\ retired \subseteq v.retired
        /\ entries \subseteq v.entries \cup v.acks \cup v.retired /\ v.retired \subseteq retired \cup entries
        /\ \A f \in v.entries : f \in entries
    BY <2>1
  <2>5. Audit!Save(p, v, next) /\ UNCHANGED slots
    BY <1>1
  <2>. HIDE DEF v
  <2>. QED  BY <2>2, <2>3, <2>4, <2>5, Snapshots
<1>2. CASE /\ e \in Safety /\ slots[e] = "committed"
           /\ slots' = [slots EXCEPT ![e] = "acknowledged"]
           /\ Audit!Go(p, next) \/ Audit!Dies(p)
           /\ UNCHANGED <<entries, acks, retired, stage>>
  <2>1. Audit!Go(p, next) \/ Audit!Stop(p)
    BY <1>2 DEF Audit!Dies
  <2>2. /\ slots' \in [Safety -> {"none", "written", "committed", "acknowledged"}]
        /\ \A f \in Safety : slots'[f] = IF f = e THEN "acknowledged" ELSE slots[f]
    BY <1>2 DEF AuditInv, AuditTypes
  <2>. QED  BY <1>2, <2>1, <2>2, SlotsAdvance
<1>. QED  BY <1>1, <1>2 DEF Audit!Compact, Audit!journal

LEMMA ReconcileAudit ==
    ASSUME AuditInv, NEW p \in Keepers, Audit!Reconcile(p)
    PROVE  AuditInv'
<1>1. job[p].at = "reconcile" /\ job[p].event # None /\ UNCHANGED <<source, prev, flying>>
  BY DEF Audit!Reconcile, Audit!At, Audit!remote, AuditInv, AuditTypes, JobTypes
<1>2. CASE \E e \in Audit!Undecided : Audit!In(e) /\ Audit!Compact(p, e, "reconcile")
  <2>1. \A e \in Audit!Undecided : e \in Kinds
    BY Views DEF Audit!Undecided, AuditInv, AuditTypes, Kinds
  <2>. QED  BY <1>1, <1>2, <2>1, CompactAudit
<1>3. CASE /\ Audit!Go(p, "put") \/ Audit!Stop(p)
           /\ UNCHANGED <<entries, acks, retired, slots, stage>>
  BY <1>1, <1>3, NoDecision DEF Steps
<1>. QED  BY <1>2, <1>3 DEF Audit!Reconcile, Audit!journal

LEMMA PutAudit ==
    ASSUME AuditInv, NEW p \in Keepers, Audit!Put(p)
    PROVE  AuditInv'
<1>. DEFINE e == job[p].event
            quiet == Audit!Stop(p) /\ UNCHANGED <<entries, acks, retired, slots, stage>>
            entered == /\ e \in Business /\ UNCHANGED slots
                       /\ Audit!Save(p, [Audit!Kept EXCEPT !.entries = @ \cup {e}], "send")
            reserved == /\ e \in Safety /\ UNCHANGED <<entries, acks, retired, stage>>
                        /\ \/ slots' = [slots EXCEPT ![e] = "committed"] /\ Audit!Go(p, "send")
                           \/ \E w \in {"written", "committed"} : slots' = [slots EXCEPT ![e] = w] /\ Audit!Stop(p)
<1>1. job[p].at = "put" /\ e # None /\ UNCHANGED <<source, prev, flying>>
  BY DEF Audit!Put, Audit!At, Audit!remote, AuditInv, AuditTypes, JobTypes
<1>2. quiet \/ entered \/ reserved
  BY DEF Audit!Put, Audit!journal, Audit!Dies
<1>3. CASE quiet
  BY <1>1, <1>3, NoDecision DEF Steps
<1>4. CASE entered
  <2>. DEFINE v == [Audit!Kept EXCEPT !.entries = @ \cup {e}]
  <2>1. v = [entries |-> entries \cup {e}, acks |-> acks, retired |-> retired]
    BY DEF Audit!Kept
  <2>2. v \in Journal /\ v.acks \subseteq Had /\ \A f \in v.retired : f \notin Had /\ Stale(f)
    BY <1>4, <2>1 DEF Journal, Kinds, AuditInv, AuditTypes, Settled
  <2>3. /\ acks \subseteq v.acks /\ retired \subseteq v.retired
        /\ entries \subseteq v.entries \cup v.acks \cup v.retired /\ v.retired \subseteq retired \cup entries
        /\ \A f \in v.entries : f \in entries \/ f = e
        /\ e \in v.entries
    BY <2>1
  <2>4. Audit!Save(p, v, "send") /\ UNCHANGED slots
    BY <1>4
  <2>. HIDE DEF v
  <2>. QED  BY <1>1, <2>2, <2>3, <2>4, Snapshots DEF Steps
<1>5. CASE reserved
  <2>1. Unsent(e)
    BY <1>1 DEF Unsent
  <2>2. slots[e] = "none"
    BY <1>5, <2>1 DEF AuditInv, Fresh, Blank, Kinds
  <2>3. PICK w \in {"written", "committed"} :
           slots' = [slots EXCEPT ![e] = w] /\ (Audit!Stop(p) \/ (w = "committed" /\ Audit!Go(p, "send")))
    BY <1>5
  <2>4. /\ slots' \in [Safety -> {"none", "written", "committed", "acknowledged"}]
        /\ \A f \in Safety : slots'[f] = IF f = e THEN w ELSE slots[f]
    BY <1>5, <2>3 DEF AuditInv, AuditTypes
  <2>5. ASSUME Audit!Go(p, "send") PROVE Journaled(job[p].event)'
    <3>1. job'[p].event = e /\ job'[p].at = "send"
      BY <2>5, <1>1 DEF Audit!Go, AuditInv, AuditTypes, JobTypes, Jobs
    <3>2. ~Audit!Stop(p)
      BY <3>1 DEF Audit!Stop, Audit!Free, AuditInv, AuditTypes, JobTypes
    <3>. QED  BY <1>5, <2>3, <2>4, <3>1, <3>2 DEF Journaled
  <2>. HIDE DEF e
  <2>6. e = job[p].event
    BY DEF e
  <2>. QED  BY <1>1, <1>5, <2>2, <2>3, <2>4, <2>5, <2>6, SlotsAdvance DEF Steps
<1>. QED  BY <1>2, <1>3, <1>4, <1>5

LEMMA AcknowledgeAudit ==
    ASSUME AuditInv, NEW p \in Keepers, Audit!Acknowledge(p)
    PROVE  AuditInv'
<1>1. job[p].at = "done" /\ job[p].event \in Kinds /\ UNCHANGED <<source, prev, flying>>
  BY DEF Audit!Acknowledge, Audit!At, Audit!remote, AuditInv, AuditTypes, JobTypes, Jobs
<1>2. CASE Audit!In(job[p].event) /\ Audit!Compact(p, job[p].event, "idle")
  BY <1>1, <1>2, CompactAudit
<1>3. CASE /\ Audit!Go(p, "idle") \/ Audit!Stop(p)
           /\ UNCHANGED <<entries, acks, retired, slots, stage>>
  BY <1>1, <1>3, NoDecision DEF Steps
<1>. QED  BY <1>2, <1>3 DEF Audit!Acknowledge, Audit!Refused, Audit!journal

LEMMA RetireAudit ==
    ASSUME AuditInv, NEW p \in Keepers, Audit!Retire(p)
    PROVE  AuditInv'
<1>. DEFINE e == job[p].event
            v == [Audit!Kept EXCEPT !.entries = @ \ {e}, !.retired = @ \cup {e}]
<1>1. UNCHANGED <<source, prev, flying, slots>>
  BY DEF Audit!Retire, Audit!remote
<1>2. CASE Audit!Stop(p) /\ UNCHANGED <<entries, acks, retired, stage>>
  BY <1>1, <1>2, NoDecision DEF Steps
<1>3. CASE e \in entries /\ Audit!Revision # prev[e] /\ ~Audit!In(e) /\ Audit!Save(p, v, "idle")
  <2>1. v.entries = entries \ {e} /\ v.acks = acks /\ v.retired = retired \cup {e}
    BY DEF Audit!Kept
  <2>2. e \in Kinds /\ e \notin Had /\ Tip # prev[e]
    BY <1>3, Views DEF AuditInv, AuditTypes
  <2>3. Stale(e)
    BY <1>3, <2>2 DEF Stale, AuditInv, Fresh, Unsent, Blank
  <2>4. v \in Journal
    BY <2>2 DEF Audit!Kept, Journal, AuditInv, AuditTypes
  <2>5. v.acks \subseteq Had /\ \A f \in v.retired : f \notin Had /\ Stale(f)
    BY <2>1, <2>2, <2>3 DEF AuditInv, Settled
  <2>6. /\ acks \subseteq v.acks /\ retired \subseteq v.retired
        /\ entries \subseteq v.entries \cup v.acks \cup v.retired /\ v.retired \subseteq retired \cup entries
        /\ \A f \in v.entries : f \in entries
    BY <1>3, <2>1
  <2>. HIDE DEF v
  <2>. QED  BY <1>1, <1>3, <2>4, <2>5, <2>6, Snapshots DEF Steps
<1>. QED  BY <1>2, <1>3 DEF Audit!Retire, Audit!journal

LEMMA NoAnswerAudit ==
    ASSUME AuditInv, NEW p \in Keepers, Audit!NoAnswer(p)
    PROVE  AuditInv'
<1>1. job[p].at = "sent" /\ job[p].event # None /\ (Audit!Go(p, "done") \/ Audit!Go(p, "unknown"))
  BY DEF Audit!NoAnswer, Audit!At, AuditInv, AuditTypes, JobTypes
<1>. QED  BY <1>1, NoDecision DEF Steps, Audit!NoAnswer, Audit!remote, Audit!journal

LEMMA EndAudit ==
    ASSUME AuditInv, NEW p \in Keepers, Audit!End(p)
    PROVE  AuditInv'
BY NoDecision DEF Steps, Audit!End, Audit!remote, Audit!journal
LEMMA RecoverLockAudit ==
    ASSUME AuditInv, NEW p \in Keepers, Audit!RecoverLock(p)
    PROVE  AuditInv'
<1>1. UNCHANGED <<source, prev, flying, entries, acks, retired, slots, stage>>
  BY DEF Audit!RecoverLock, Audit!remote, Audit!journal
<1>2. job[p].at = "idle"
  BY DEF Audit!RecoverLock, Audit!At
<1>3. CASE Audit!Stop(p)
  BY <1>1, <1>3, NoDecision DEF Steps
<1>4. CASE UNCHANGED job
  BY <1>1, <1>4 DEF AuditInv, AuditTypes, JobTypes, Follows, Ordered, Once, Requests, Sending, Fresh, Owned, StageFollows,
                    Settled, Sourced, Stale, Journaled, Asked, Unsent, Blank, Had, Tip
<1>. QED  BY <1>3, <1>4 DEF Audit!RecoverLock

LEMMA RecoverPhysicalAudit ==
    ASSUME AuditInv, NEW p \in Keepers, Audit!RecoverPhysical(p)
    PROVE  AuditInv'
<1>1. UNCHANGED <<source, prev, flying, job>> /\ JobTypes' /\ Owned'
  BY DEF Audit!RecoverPhysical, Audit!remote, AuditInv, AuditTypes, JobTypes, Owned
<1>2. /\ slots' \in [Safety -> {"none", "written", "committed", "acknowledged"}]
      /\ \A e \in Safety : slots'[e] = IF slots[e] = "written" THEN "committed" ELSE slots[e]
  BY DEF Audit!RecoverPhysical, AuditInv, AuditTypes
<1>3. \A e \in Kinds : Unsent(e)' => Unsent(e)
  BY <1>1 DEF Unsent
<1>4. CASE stage = None
  <2>1. UNCHANGED <<entries, acks, retired, stage>>
    BY <1>4 DEF Audit!RecoverPhysical, Audit!journal
  <2>2. \A e \in Kinds : Journaled(e) => Journaled(e)'
    BY <1>2, <2>1 DEF Journaled
  <2>3. \A e \in Kinds : Unsent(e)' => Unsent(e) /\ Blank(e)'
    BY <1>2, <1>3, <2>1 DEF AuditInv, Fresh, Blank
  <2>4. /\ entries' \in SUBSET Kinds /\ acks' \in SUBSET Kinds /\ retired' \in SUBSET Kinds
        /\ stage' \in Journal \cup {None} /\ StageFollows'
        /\ acks' \subseteq Had /\ \A e \in retired' : e \notin Had /\ Stale(e)
    BY <2>1 DEF AuditInv, AuditTypes, StageFollows, Settled
  <2>. QED  BY <1>1, <1>2, <2>2, <2>3, <2>4, JournalSteps
<1>5. CASE stage # None
  <2>1. /\ stage.entries \in SUBSET Kinds /\ stage.acks \in SUBSET Kinds /\ stage.retired \in SUBSET Kinds
    BY <1>5 DEF AuditInv, AuditTypes, Journal
  <2>2. entries' = stage.entries /\ acks' = stage.acks /\ retired' = stage.retired /\ stage' = None
    BY <1>5 DEF Audit!RecoverPhysical, Audit!Promote
  <2>3. /\ stage.acks \subseteq Had
        /\ \A e \in stage.retired : e \notin Had /\ (e \in entries => Tip # prev[e])
    BY <1>5, Views DEF Audit!RecoverPhysical, Audit!Promotable, AuditInv, AuditTypes
  <2>4. \A e \in stage.retired : e \notin Had /\ Stale(e)
    <3>. SUFFICES ASSUME NEW e \in stage.retired PROVE Stale(e)
      BY <2>3
    <3>1. CASE e \in retired
      BY <3>1 DEF AuditInv, Settled
    <3>2. CASE e \in entries
      BY <2>1, <2>3, <3>2 DEF AuditInv, Fresh, Unsent, Blank, Stale
    <3>. QED  BY <1>5, <3>1, <3>2 DEF AuditInv, StageFollows
  <2>5. \A e \in Kinds : Journaled(e) => Journaled(e)' \/ (Stale(e) /\ e \notin Had)
    BY <1>2, <1>5, <2>2, <2>4 DEF Journaled, AuditInv, StageFollows
  <2>6. \A e \in Kinds : Unsent(e)' => Unsent(e) /\ Blank(e)'
    BY <1>2, <1>3, <1>5, <2>2 DEF AuditInv, Fresh, Blank
  <2>7. StageFollows'
    BY <2>2 DEF StageFollows
  <2>. QED  BY <1>1, <1>2, <2>1, <2>2, <2>3, <2>4, <2>5, <2>6, <2>7, JournalSteps
<1>. QED  BY <1>4, <1>5

LEMMA DeriveAudit ==
    ASSUME AuditInv, NEW p \in Keepers, NEW e \in Kinds, Audit!Derive(p, e)
    PROVE  AuditInv'
<1>1. UNCHANGED <<source, flying, entries, acks, retired, slots, stage>> /\ prev[e] = New /\ job[p].at = "idle"
  BY DEF Audit!Derive, Audit!remote, Audit!journal, Audit!At
<1>2. /\ source \in Seq(Kinds \cup {Foreign})
      /\ Tip = None \/ Tip \in Had
      /\ Tip \in Kinds \cup {Foreign, None} /\ Tip # New
  BY TipIsHad DEF AuditInv, AuditTypes
<1>3. /\ prev' \in [Kinds -> Kinds \cup {Foreign, None, New}]
      /\ \A f \in Kinds : prev'[f] = IF f = e THEN Tip ELSE prev[f]
  BY <1>2, Views DEF Audit!Derive, AuditInv, AuditTypes
<1>4. /\ job' \in [Keepers -> Jobs]
      /\ job'[p].at = "reconcile" /\ job'[p].event = e
      /\ \A q \in Keepers : q # p => job'[q] = job[q]
  BY DEF Audit!Derive, AuditInv, AuditTypes, JobTypes, Jobs, Steps
<1>5. e # None
  BY JournalAssumption DEF Kinds
<1>6. Had' = Had /\ Tip' = Tip /\ \A f : (Asked(f)' <=> Asked(f)) /\ (Journaled(f)' <=> Journaled(f)) /\ (Blank(f)' <=> Blank(f))
  BY <1>1 DEF Had, Tip, Asked, Journaled, Blank
<1>7. \A f \in Kinds : Stale(f) => Stale(f)'
  BY <1>1, <1>3, <1>6 DEF Stale
<1>8. AuditTypes'
  BY <1>1, <1>3, <1>4, <1>5 DEF AuditInv, AuditTypes, JobTypes
<1>9. Follows' /\ Once'
  BY <1>1, <1>2, <1>3, <1>6 DEF AuditInv, Follows, Once
<1>10. Ordered'
  <2>1. \A i \in 1..Len(source) : source[i] \in Kinds => prev[source[i]] # New
    <3>1. \A i \in 1..Len(source) : source[i] \in Kinds \cup {Foreign}
      BY <1>2, ElementOfSeq
    <3>2. \A i \in 1..Len(source) : i # 1 => i - 1 \in 1..Len(source)
      BY <1>2, LenProperties
    <3>. QED  BY <3>1, <3>2, JournalAssumption DEF AuditInv, Ordered, Kinds
  <2>. QED  BY <1>1, <1>3, <2>1 DEF AuditInv, Ordered
<1>11. Requests'
  BY <1>1, <1>3, <1>6, <1>7 DEF AuditInv, Requests
<1>12. \A q \in Keepers : job[q].event # e
  BY <1>1, <1>5 DEF AuditInv, Owned
<1>13. Sending'
  <2>. SUFFICES ASSUME NEW q \in Keepers, job'[q].at = "send"
                PROVE  (Journaled(job[q].event) \/ Stale(job[q].event))'
    BY DEF Sending
  <2>. DEFINE f == job[q].event
  <2>1. f \in Kinds /\ (Journaled(f) \/ Stale(f)) /\ job'[q].event = f
    BY <1>4 DEF AuditInv, AuditTypes, JobTypes, Jobs, Sending
  <2>. QED  BY <1>1, <1>3, <1>6, <2>1 DEF Journaled, Stale
<1>14. \A f \in Kinds : Unsent(f)' => Unsent(f)
  BY <1>1, <1>3, <1>4 DEF Unsent
<1>15. Fresh'
  BY <1>6, <1>14 DEF AuditInv, Fresh
<1>16. Owned'
  <2>. SUFFICES ASSUME NEW q \in Keepers, job'[q].event # None, NEW r \in Keepers, job'[r].event = job'[q].event
                PROVE  prev'[job'[q].event] # New /\ r = q
    BY DEF Owned
  <2>1. job'[q].event \in Kinds
    BY <1>4 DEF Jobs
  <2>2. CASE job'[q].event = e
    BY <1>2, <1>3, <1>4, <1>12, <2>1, <2>2
  <2>3. CASE job'[q].event # e
    BY <1>3, <1>4, <2>1, <2>3 DEF AuditInv, Owned
  <2>. QED  BY <2>2, <2>3
<1>17. StageFollows' /\ Settled' /\ Sourced'
  <2>1. Settled'
    BY <1>1, <1>6, <1>7 DEF AuditInv, AuditTypes, Settled
  <2>. QED  BY <1>1, <1>6, <2>1 DEF AuditInv, StageFollows, Sourced
<1>. QED  BY <1>8, <1>9, <1>10, <1>11, <1>13, <1>15, <1>16, <1>17 DEF AuditInv

(* A request leaves, or is lost. *)
LEMMA Requested ==
    ASSUME AuditInv, UNCHANGED <<source, prev, entries, acks, retired, slots, stage>>,
           \A e \in Kinds : Asked(e)' => Asked(e) \/ (~Unsent(e) /\ (Journaled(e) \/ Stale(e))),
           JobTypes', Owned', \A e \in Kinds : Unsent(e)' => Unsent(e),
           \A p \in Keepers : job'[p].at = "send" => job'[p] = job[p]
    PROVE  AuditInv'
<1>1. Had' = Had /\ Tip' = Tip /\ \A e : (Stale(e)' <=> Stale(e)) /\ (Journaled(e)' <=> Journaled(e)) /\ (Blank(e)' <=> Blank(e))
  BY DEF Had, Tip, Stale, Journaled, Blank
<1>2. AuditTypes' /\ Follows' /\ Ordered' /\ Once' /\ StageFollows' /\ Settled' /\ Sourced'
  <2>1. Settled' /\ Sourced'
    BY <1>1 DEF AuditInv, Settled, Sourced
  <2>. QED  BY <1>1, <2>1 DEF AuditInv, AuditTypes, Follows, Ordered, Once, StageFollows
<1>3. Requests'
  BY <1>1 DEF AuditInv, Requests, Unsent
<1>4. Sending'
  <2>. SUFFICES ASSUME NEW p \in Keepers, job'[p].at = "send"
                PROVE  (Journaled(job[p].event) \/ Stale(job[p].event))'
    BY DEF Sending
  <2>. DEFINE e == job[p].event
  <2>1. e \in Kinds /\ (Journaled(e) \/ Stale(e)) /\ job'[p].event = e
    BY DEF AuditInv, AuditTypes, JobTypes, Jobs, Sending
  <2>. QED  BY <1>1, <2>1 DEF Journaled, Stale
<1>5. Fresh'
  BY <1>1 DEF AuditInv, Fresh
<1>. QED  BY <1>2, <1>3, <1>4, <1>5 DEF AuditInv

LEMMA SendAudit ==
    ASSUME AuditInv, NEW p \in Keepers, Audit!Send(p)
    PROVE  AuditInv'
<1>. DEFINE e == job[p].event
<1>1. /\ UNCHANGED <<source, prev, entries, acks, retired, slots, stage>>
      /\ job[p].at = "send" /\ e # None /\ e \in Kinds
  BY DEF Audit!Send, Audit!journal, Audit!At, AuditInv, AuditTypes, JobTypes, Jobs
<1>2. PICK next \in {"sent", "refused"} :
        /\ Audit!Go(p, next)
        /\ flying' = flying \cup {<<e, "append">>} \/ UNCHANGED flying
  BY DEF Audit!Send
<1>3. /\ JobTypes' /\ Owned'
      /\ \A q \in Keepers : q # p => job'[q] = job[q]
      /\ job'[p].at = next
      /\ \A f \in Kinds : Unsent(f)' => Unsent(f)
  BY <1>1, <1>2, JobMoves DEF AuditInv, AuditTypes, Steps
<1>4. ~Unsent(e) /\ (Journaled(e) \/ Stale(e))
  BY <1>1 DEF AuditInv, Sending, Unsent, Owned
<1>5. \A f \in Kinds : Asked(f)' => Asked(f) \/ f = e
  BY <1>2 DEF Asked
<1>. QED  BY <1>1, <1>2, <1>3, <1>4, <1>5, Requested

LEMMA BranchMovedAudit ==
    ASSUME AuditInv, NEW p \in Keepers, Audit!BranchMoved(p)
    PROVE  AuditInv'
<1>1. /\ UNCHANGED <<source, prev, entries, acks, retired, slots, stage>>
      /\ job[p].event # None /\ Audit!Go(p, "refused")
  BY DEF Audit!BranchMoved, Audit!journal, Audit!At, AuditInv, AuditTypes, JobTypes
<1>2. /\ JobTypes' /\ Owned'
      /\ \A q \in Keepers : q # p => job'[q] = job[q]
      /\ job'[p].at = "refused"
      /\ \A f \in Kinds : Unsent(f)' => Unsent(f)
  BY <1>1, JobMoves DEF AuditInv, AuditTypes, Steps
<1>3. \A f \in Kinds : Asked(f)' => Asked(f)
  BY DEF Audit!BranchMoved, Asked
<1>. QED  BY <1>1, <1>2, <1>3, Requested

LEMMA ReplayAudit ==
    ASSUME AuditInv, NEW p \in Keepers, NEW e \in Kinds, Audit!Replay(p, e)
    PROVE  AuditInv'
<1>1. UNCHANGED <<source, prev, entries, acks, retired, slots, stage, job>> /\ JobTypes' /\ Owned'
  BY DEF Audit!Replay, Audit!journal, AuditInv, AuditTypes, JobTypes, Owned
<1>2. Journaled(e) /\ ~Unsent(e)
  BY DEF Audit!Replay, Audit!Undecided, Journaled, AuditInv, Fresh, Blank
<1>3. \A f \in Kinds : Asked(f)' => Asked(f) \/ f = e
  BY DEF Audit!Replay, Asked
<1>4. \A f \in Kinds : Unsent(f)' => Unsent(f)
  BY <1>1 DEF Unsent
<1>. QED  BY <1>1, <1>2, <1>3, <1>4, Requested
(* The source takes an event, or one of another writer. *)
LEMMA SourceTakes ==
    ASSUME AuditInv, NEW x \in Kinds \cup {Foreign}, x \in Kinds => prev[x] = Tip /\ Journaled(x), x = Foreign => x \notin Had,
           source' = Append(source, x), UNCHANGED <<prev, entries, acks, retired, slots, stage>>,
           \A e \in Kinds : Asked(e)' => Asked(e),
           JobTypes', Owned', \A e \in Kinds : Unsent(e)' => Unsent(e),
           \A p \in Keepers : job'[p].at = "send" => job'[p] = job[p]
    PROVE  AuditInv'
<1>1. /\ x \notin Had
      /\ source' \in Seq(Kinds \cup {Foreign}) /\ Had' = Had \cup {x} /\ Tip' = x
      /\ Follows' /\ Ordered' /\ Once'
      /\ \A e \in Kinds : prev[e] # New => Stale(e)'
  BY SourceGrows DEF AuditInv
<1>2. \A e : (Journaled(e)' <=> Journaled(e)) /\ (Blank(e)' <=> Blank(e))
  BY DEF Journaled, Blank
<1>3. AuditTypes' /\ StageFollows'
  BY <1>1 DEF AuditInv, AuditTypes, StageFollows
<1>4. Requests'
  BY <1>1 DEF AuditInv, Requests
<1>5. Sending'
  <2>. SUFFICES ASSUME NEW p \in Keepers, job'[p].at = "send"
                PROVE  (Stale(job[p].event))'
    BY DEF Sending
  <2>. DEFINE e == job[p].event
  <2>1. e \in Kinds /\ prev[e] # New /\ job'[p].event = e
    BY DEF AuditInv, AuditTypes, JobTypes, Jobs, Owned
  <2>. QED  BY <1>1, <2>1 DEF Stale
<1>6. Fresh'
  BY <1>2 DEF AuditInv, Fresh
<1>7. Settled'
  BY <1>1, JournalAssumption DEF AuditInv, AuditTypes, Settled, Stale, Kinds
<1>8. Sourced'
  BY <1>1, <1>2 DEF AuditInv, Sourced
<1>. QED  BY <1>1, <1>3, <1>4, <1>5, <1>6, <1>7, <1>8 DEF AuditInv

LEMMA ArriveAudit ==
    ASSUME AuditInv, NEW e \in Kinds, NEW by \in Bys, Audit!Arrive(e, by)
    PROVE  AuditInv'
<1>1. /\ UNCHANGED <<prev, entries, acks, retired, slots, stage>>
      /\ Asked(e) /\ \A f \in Kinds : Asked(f)' => Asked(f)
  BY DEF Audit!Arrive, Audit!journal, Asked
<1>2. \A p \in Keepers : \/ job'[p] = job[p]
                         \/ /\ job[p].at = "sent"
                            /\ \E next \in {"done", "refused"} : job'[p] = [job[p] EXCEPT !.at = next]
  BY DEF Audit!Arrive
<1>3. /\ job' \in [Keepers -> Jobs]
      /\ \A p \in Keepers : /\ job'[p].event = job[p].event
                            /\ job'[p] = job[p] \/ (job[p].at = "sent" /\ job'[p].at \in {"done", "refused"})
  <2>1. \A p \in Keepers : /\ job'[p] \in Jobs /\ job'[p].event = job[p].event
                           /\ job'[p] = job[p] \/ (job[p].at = "sent" /\ job'[p].at \in {"done", "refused"})
    <3>. SUFFICES ASSUME NEW p \in Keepers
                  PROVE  /\ job'[p] \in Jobs /\ job'[p].event = job[p].event
                         /\ job'[p] = job[p] \/ (job[p].at = "sent" /\ job'[p].at \in {"done", "refused"})
      OBVIOUS
    <3>1. job[p] \in Jobs
      BY DEF AuditInv, AuditTypes, JobTypes
    <3>2. CASE job'[p] = job[p]
      BY <3>1, <3>2
    <3>3. ASSUME job[p].at = "sent", NEW next \in {"done", "refused"}, job'[p] = [job[p] EXCEPT !.at = next]
          PROVE  job'[p] \in Jobs /\ job'[p].event = job[p].event /\ job'[p].at = next
      BY <3>1, <3>3 DEF Jobs, Steps
    <3>. QED  BY <1>2, <3>2, <3>3
  <2>2. job' = [p \in Keepers |-> job'[p]]
    BY DEF Audit!Arrive
  <2>. QED  BY <2>1, <2>2
<1>4. JobTypes' /\ Owned'
  BY <1>1, <1>3 DEF AuditInv, AuditTypes, JobTypes, Owned
<1>5. /\ \A f \in Kinds : Unsent(f)' => Unsent(f)
      /\ \A p \in Keepers : job'[p].at = "send" => job'[p] = job[p]
  BY <1>1, <1>3 DEF Unsent
<1>6. CASE prev[e] = Tip
  <2>1. source' = Append(source, e)
    BY <1>6, Views DEF Audit!Arrive, AuditInv, AuditTypes
  <2>2. Journaled(e) /\ e # Foreign
    BY <1>1, <1>6, JournalAssumption DEF AuditInv, Requests, Stale, Kinds
  <2>. QED  BY <1>1, <1>4, <1>5, <1>6, <2>1, <2>2, SourceTakes
<1>7. CASE prev[e] # Tip
  <2>1. UNCHANGED source
    BY <1>7, Views DEF Audit!Arrive, AuditInv, AuditTypes
  <2>. QED  BY <1>1, <1>4, <1>5, <2>1, Requested
<1>. QED  BY <1>6, <1>7

LEMMA ElsewhereAudit ==
    ASSUME AuditInv, Audit!Elsewhere
    PROVE  AuditInv'
<1>1. /\ UNCHANGED <<prev, entries, acks, retired, slots, stage, job, flying>>
      /\ source' = Append(source, Foreign)
      /\ Foreign \notin Had /\ Foreign \notin Kinds
  BY Views, JournalAssumption DEF Audit!Elsewhere, Audit!journal, AuditInv, AuditTypes, Kinds
<1>2. JobTypes' /\ Owned' /\ \A e \in Kinds : (Unsent(e)' => Unsent(e)) /\ (Asked(e)' => Asked(e))
  BY <1>1 DEF AuditInv, AuditTypes, JobTypes, Owned, Unsent, Asked
<1>. QED  BY <1>1, <1>2, SourceTakes

LEMMA AuditInit ==
    ASSUME Audit!Init
    PROVE  AuditInv
<1>1. source = <<>> /\ Len(source) = 0 /\ Had = {}
  BY EmptySeq DEF Audit!Init, Had
<1>2. /\ \A e \in Kinds : prev[e] = New
      /\ \A p \in Keepers : job[p].at = "idle" /\ job[p].event = None
      /\ entries = {} /\ acks = {} /\ retired = {} /\ stage = None /\ flying = {}
      /\ \A e \in Safety : slots[e] = "none"
  BY DEF Audit!Init, Audit!Free, Audit!Events, Kinds
<1>3. AuditTypes
  BY <1>1, EmptySeq DEF Audit!Init, Audit!Free, Audit!Events, Kinds, AuditTypes, JobTypes, Jobs, Steps
<1>4. Follows /\ Ordered /\ Once
  BY <1>1, <1>2 DEF Follows, Ordered, Once
<1>. QED  BY <1>1, <1>2, <1>3, <1>4 DEF AuditInv, Requests, Sending, Fresh, Asked, Blank, Owned, StageFollows, Settled, Sourced

LEMMA AuditStep ==
    /\ Audit!Init => AuditInv
    /\ AuditInv /\ [Audit!Next]_(Audit!vars) => AuditInv'
<1>1. ASSUME AuditInv, UNCHANGED Audit!vars PROVE AuditInv'
  <2>. UNCHANGED <<source, prev, entries, acks, retired, slots, stage, job, flying>>
    BY <1>1 DEF Audit!vars
  <2>1. AuditTypes' /\ Follows' /\ Ordered' /\ Once' /\ Owned'
    BY <1>1 DEF AuditInv, AuditTypes, JobTypes, Follows, Ordered, Once, Owned, Had
  <2>2. \A e : (Asked(e)' <=> Asked(e)) /\ (Stale(e)' <=> Stale(e)) /\ (Journaled(e)' <=> Journaled(e))
    BY DEF Asked, Stale, Journaled, Tip
  <2>3. Requests' /\ Sending' /\ Settled' /\ Sourced'
    BY <1>1, <2>2 DEF AuditInv, Requests, Sending, Settled, Sourced, Had
  <2>4. Fresh' /\ StageFollows'
    BY <1>1 DEF AuditInv, Fresh, Unsent, Blank, Asked, StageFollows
  <2>. QED  BY <2>1, <2>3, <2>4 DEF AuditInv
<1>2. ASSUME AuditInv, Audit!Next PROVE AuditInv'
  <2>1. Audit!Events = Kinds
    BY DEF Audit!Events, Kinds
  <2>2. ASSUME NEW e \in Kinds, Audit!Arrive(e, "append") \/ Audit!Arrive(e, "replay") PROVE AuditInv'
    BY <1>2, <2>2, ArriveAudit DEF Bys
  <2>. QED  BY <1>2, <2>1, <2>2, DeriveAudit, ReplayAudit, ReconcileAudit, PutAudit, SendAudit, BranchMovedAudit, NoAnswerAudit,
               AcknowledgeAudit, RetireAudit, RecoverLockAudit, RecoverPhysicalAudit, EndAudit, ElsewhereAudit
            DEF Audit!Next
<1>. QED  BY AuditInit, <1>1, <1>2

-----------------------------------------------------------------------------
AuditPart == part = "audit" => AuditInv

LEMMA AuditPartHolds ==
    /\ AgentFlowInit => AuditPart
    /\ AuditPart /\ [AgentFlowNext]_all => AuditPart'
<1>1. ASSUME AgentFlowInit PROVE AuditPart
  <2>1. part = "audit" => Audit!Init
    BY <1>1 DEF AgentFlowInit
  <2>. QED  BY <2>1, AuditStep DEF AuditPart
<1>2. ASSUME AuditPart, [AgentFlowNext]_all PROVE AuditPart'
  <2>. SUFFICES ASSUME part' = "audit" PROVE AuditInv'
    BY DEF AuditPart
  <2>1. part = "audit" /\ [Audit!Next]_(Audit!vars)
    BY <1>2 DEF AgentFlowNext, all, audit, shared, Audit!vars
  <2>. QED  BY <1>2, <2>1, AuditStep DEF AuditPart
<1>. QED  BY <1>1, <1>2

(* AuditInv always holds of a journal: a request leaves only for an event  *)
(* that the journal has (put before append in journaled-run-store.mjs), an *)
(* event that was not put is nowhere in it, and a stage that its process   *)
(* did not promote follows the snapshot that it would replace              *)
(* (pending-audit-journal.mjs).                                            *)
THEOREM AuditInvHolds == AgentFlowSpec => []AuditPart
BY AuditPartHolds, PTL DEF AgentFlowSpec

LEMMA SameCardinality == \A S : Audit!Cardinality(S) = Cardinality(S)
BY DEF Audit!Cardinality, Cardinality

LEMMA AtMostOne ==
    ASSUME AuditTypes, Once, NEW e
    PROVE  Audit!Cardinality({i \in 1..Len(source) : source[i] = e}) <= 1
<1>. DEFINE S == {i \in 1..Len(source) : source[i] = e}
<1>1. S = {} \/ \E i : S = {i}
  <2>. SUFFICES ASSUME NEW i \in S PROVE S = {i}
    OBVIOUS
  <2>1. \A j \in S : j = i
    BY DEF Once
  <2>. QED  BY <2>1
<1>2. Cardinality(S) = 0 \/ Cardinality(S) = 1
  BY <1>1, FS_EmptySet, FS_Singleton
<1>3. Audit!Cardinality(S) = Cardinality(S)
  BY SameCardinality
<1>. QED  BY <1>2, <1>3

(* What the source has was journaled before, what the journal acknowledged *)
(* is in the source, what it retired never gets there, and no event is     *)
(* appended twice, for any number of processes and events, whoever dies at *)
(* whichever step and however late a request arrives                       *)
(* (journaled-run-store.mjs, pending-audit-journal.mjs).                   *)
THEOREM DecisionsAreFinal == AgentFlowSpec => []DecisionsStand
<1>1. AuditPart => DecisionsStand
  <2>. SUFFICES ASSUME AuditInv
                PROVE  Audit!WriteAhead /\ Audit!DecisionsStand /\ Audit!AppendedOnce
    BY DEF AuditPart, DecisionsStand
  <2>. /\ Audit!Range(source) = Had /\ Audit!Revision = Tip
       /\ \A e : Audit!In(e) <=> e \in Had
    BY Views DEF AuditInv, AuditTypes
  <2>1. Audit!WriteAhead
    BY DEF Audit!WriteAhead, AuditInv, Sourced, Journaled
  <2>2. Audit!DecisionsStand
    BY DEF Audit!DecisionsStand, AuditInv, Settled, Stale
  <2>3. Audit!AppendedOnce
    BY AtMostOne DEF Audit!AppendedOnce, AuditInv
  <2>. QED  BY <2>1, <2>2, <2>3
<1>. QED  BY <1>1, AuditInvHolds, PTL

-----------------------------------------------------------------------------
(* The delegated operations. *)
GrantRecords == [parent : Grants \cup {None}, status : {"active", "revoked"}, used : Nat, reserved : Nat]
GrantTypes == grant \in [Grants -> GrantRecords \cup {None}]
Parents == \A g \in Grants : grant[g] # None /\ grant[g].parent # None => grant[grant[g].parent] # None

Answers == UNION {[S -> {"confirmed", "failed"}] : S \in SUBSET Operations}
Issues == [grant : Grants, parent : Grants \cup {None}]
Stages == {"", "asked", "admitted", "planned", "submitted", "waiting", "interrupted", "noting", "asking",
           "confirmed", "failed", "resuming"}
Doings ==
    [kind : {"none", "issue", "revoke", "execute", "reconcile", "takeover"},
     arg : Operations \cup Grants \cup Issues \cup Answers \cup {None}, at : Stages, fresh : BOOLEAN]
Outcomes == {None, "planned", "submitted", "unknown", "confirmed", "failed"}

DelegationTypes ==
    /\ GrantTypes
    /\ admitted \subseteq Operations /\ op \in [Operations -> Outcomes]
    /\ job \in [Delegates -> Doings]
    /\ flying \subseteq Operations /\ effects \in [Operations -> Nat]
    /\ fenced \subseteq Operations /\ revoked \subseteq Operations

(* The call that a process is on, from its admission to its return. *)
Underway == {"admitted", "planned", "submitted", "waiting"}
Executes(c, o) == c.kind = "execute" /\ c.at \in Underway /\ c.arg = o
Sent(o) == o \in flying \/ effects[o] # 0

(* What a process is at fits the log, whoever has appended since.          *)
Lasting(c) ==
    /\ c.kind = "issue" => c.arg \in Issues
    /\ c.kind = "revoke" => c.arg \in Grants /\ grant[c.arg] # None
    /\ c.kind = "execute" =>
          /\ c.arg \in Operations /\ c.at \in {"asked"} \cup Underway
          /\ c.at \in Underway => c.arg \in admitted
          /\ c.at \in {"submitted", "waiting"} => op[c.arg] \notin {None, "planned"}
    /\ c.kind = "reconcile" => c.arg \in admitted /\ (c.at = "failed" => c.arg \in fenced)
    /\ c.kind = "takeover" =>
          /\ c.arg \in Answers
          /\ \A o \in DOMAIN c.arg : o \in admitted /\ (c.arg[o] = "failed" => o \in fenced)

(* And what it has read is so, if nobody has. *)
Reads(c) ==
    /\ c.kind = "issue" => grant[c.arg.grant] = None /\ (c.arg.parent # None => grant[c.arg.parent] # None)
    /\ c.kind = "execute" =>
          /\ c.at = "asked" => c.arg \notin admitted /\ \A o \in admitted : Delegated!Settled(o)
          /\ c.at = "admitted" => op[c.arg] = None
          /\ c.at = "planned" => op[c.arg] = "planned"
          /\ c.at \in {"submitted", "waiting"} => op[c.arg] = "submitted"
    /\ c.kind = "reconcile" =>
          /\ c.at = "interrupted" => op[c.arg] = None
          /\ c.at = "noting" => op[c.arg] = "planned"
JobsFit == \A p \in Delegates : Lasting(job[p]) /\ (job[p].fresh => Reads(job[p]))

(* One process at a time, and once, is on the call of an operation.        *)
OneCaller == \A p, q \in Delegates, o \in Operations : Executes(job[p], o) /\ Executes(job[q], o) => p = q
NotSent == \A p \in Delegates, o \in Operations : Executes(job[p], o) /\ job[p].at # "waiting" => ~Sent(o)
Calls ==
    \A o \in Operations :
        /\ effects[o] \in {0, 1} /\ (o \in flying => effects[o] = 0)
        /\ Sent(o) => op[o] \notin {None, "planned"}
        /\ op[o] # None => o \in admitted

(* What the provider has declared failed it has not carried out, and the   *)
(* log says failed of that alone.                                          *)
Fences ==
    /\ \A o \in fenced : effects[o] = 0
    /\ \A o \in Operations : op[o] = "failed" => o \in fenced

(* An operation that lost its grant is not on its way, and nobody can      *)
(* submit it any more.                                                     *)
Withdrawn(o) == \E g \in Delegated!Ancestors(Under[o]) : grant[g] # None /\ grant[g].status = "revoked"
Halted ==
    \A o \in revoked :
        /\ ~Sent(o) /\ Withdrawn(o)
        /\ \A p \in Delegates : Executes(job[p], o) => job[p].at \in {"admitted", "planned"} /\ ~job[p].fresh
OneOpen == \A o, r \in admitted : ~Delegated!Settled(o) /\ ~Delegated!Settled(r) => o = r

(* What a grant has spent and reserved is what was admitted under it, and  *)
(* the budgets of its children; a grant is not above itself.               *)
Direct(g) == {o \in admitted : Under[o] = g}
Children(g) == {c \in Grants : grant[c] # None /\ grant[c].parent = g}
Tickets(g) == UNION {{c} \X (1..Budgets[c]) : c \in Children(g)}
Accounts ==
    \A g \in Grants : grant[g] # None =>
        /\ grant[g].used = Cardinality(Direct(g)) /\ grant[g].reserved = Cardinality(Tickets(g))
        /\ grant[g].used + grant[g].reserved <= Budgets[g]
        /\ grant[g].parent # None => g \notin Delegated!Ancestors(grant[g].parent)
Granted == \A o \in admitted : grant[Under[o]] # None

DelegationInv ==
    /\ DelegationTypes /\ Parents /\ JobsFit
    /\ OneCaller /\ NotSent /\ Calls /\ Fences /\ Halted /\ OneOpen
    /\ Accounts /\ Granted

-----------------------------------------------------------------------------
(* The ancestors of a grant are the least closed set that it is in. *)
LEMMA Ancestry ==
    ASSUME GrantTypes, NEW g \in Grants
    PROVE  /\ Delegated!Ancestors(g) \subseteq Grants /\ g \in Delegated!Ancestors(g)
           /\ Delegated!Closed(Delegated!Ancestors(g))
           /\ \A S \in SUBSET Grants : g \in S /\ Delegated!Closed(S) => Delegated!Ancestors(g) \subseteq S
<1>1. Delegated!Closed(Delegated!Ancestors(g))
  <2>. SUFFICES ASSUME NEW h \in Delegated!Ancestors(g), grant[h] # None, grant[h].parent # None
                PROVE  grant[h].parent \in Delegated!Ancestors(g)
    BY DEF Delegated!Closed
  <2>1. h \in Grants /\ grant[h].parent \in Grants
    BY DEF Delegated!Ancestors, GrantTypes, GrantRecords
  <2>2. ASSUME NEW S \in SUBSET Grants, g \in S, Delegated!Closed(S) PROVE grant[h].parent \in S
    <3>1. h \in S
      BY <2>2 DEF Delegated!Ancestors
    <3>. QED  BY <2>2, <3>1 DEF Delegated!Closed
  <2>. QED  BY <2>1, <2>2 DEF Delegated!Ancestors
<1>. QED  BY <1>1 DEF Delegated!Ancestors

LEMMA ParentsAncestors ==
    ASSUME GrantTypes, NEW g \in Grants
    PROVE  /\ grant[g] = None \/ grant[g].parent = None => Delegated!Ancestors(g) = {g}
           /\ grant[g] # None /\ grant[g].parent # None =>
                /\ grant[g].parent \in Grants
                /\ Delegated!Ancestors(g) = {g} \cup Delegated!Ancestors(grant[g].parent)
<1>1. CASE grant[g] = None \/ grant[g].parent = None
  <2>1. Delegated!Closed({g}) /\ {g} \in SUBSET Grants
    BY <1>1 DEF Delegated!Closed
  <2>. QED  BY <1>1, <2>1, Ancestry
<1>2. CASE grant[g] # None /\ grant[g].parent # None
  <2>. DEFINE q == grant[g].parent
  <2>1. q \in Grants
    BY <1>2 DEF GrantTypes, GrantRecords
  <2>. HIDE DEF q
  <2>2. /\ Delegated!Ancestors(q) \subseteq Grants /\ q \in Delegated!Ancestors(q)
        /\ Delegated!Closed(Delegated!Ancestors(q))
    BY <2>1, Ancestry
  <2>3. Delegated!Closed({g} \cup Delegated!Ancestors(q))
    BY <2>2 DEF Delegated!Closed, q
  <2>4. Delegated!Ancestors(g) \subseteq {g} \cup Delegated!Ancestors(q)
    BY <2>2, <2>3, Ancestry
  <2>5. q \in Delegated!Ancestors(g)
    BY <1>2, Ancestry DEF Delegated!Closed, q
  <2>6. Delegated!Ancestors(q) \subseteq Delegated!Ancestors(g)
    BY <2>1, <2>5, Ancestry
  <2>. QED  BY <1>2, <2>1, <2>4, <2>6, Ancestry DEF q
<1>. QED  BY <1>1, <1>2

(* What is granted has granted ancestors only. *)
LEMMA GrantedAncestors ==
    ASSUME GrantTypes, Parents, NEW g \in Grants, grant[g] # None
    PROVE  \A h \in Delegated!Ancestors(g) : grant[h] # None
<1>. DEFINE S == {h \in Grants : grant[h] # None}
<1>1. Delegated!Closed(S)
  BY DEF Delegated!Closed, Parents, GrantTypes, GrantRecords
<1>. QED  BY <1>1, Ancestry

(* They stay as long as no parent changes. *)
LEMMA SameAncestors ==
    ASSUME GrantTypes, GrantTypes',
           \A g \in Grants : (grant'[g] = None <=> grant[g] = None) /\ (grant[g] # None => grant'[g].parent = grant[g].parent)
    PROVE  \A g \in Grants : (Delegated!Ancestors(g))' = Delegated!Ancestors(g)
<1>1. \A S \in SUBSET Grants : (Delegated!Closed(S))' <=> Delegated!Closed(S)
  BY DEF Delegated!Closed
<1>. QED  BY <1>1 DEF Delegated!Ancestors

(* A new grant is nobody's ancestor but its own. *)
LEMMA NewGrant ==
    ASSUME GrantTypes, GrantTypes', Parents, NEW g \in Grants, grant[g] = None,
           \A h \in Grants \ {g} : (grant'[h] = None <=> grant[h] = None) /\ (grant[h] # None => grant'[h].parent = grant[h].parent)
    PROVE  \A h \in Grants \ {g} : (Delegated!Ancestors(h))' = Delegated!Ancestors(h) /\ g \notin Delegated!Ancestors(h)
<1>. DEFINE Rest == Grants \ {g}
<1>1. \A h \in Grants : grant[h] # None => grant[h].parent # g
  BY DelegationAssumption DEF Parents
<1>2. Delegated!Closed(Rest) /\ (Delegated!Closed(Rest))'
  <2>1. Delegated!Closed(Rest)
    BY <1>1 DEF Delegated!Closed, GrantTypes, GrantRecords
  <2>2. (Delegated!Closed(Rest))'
    BY <1>1 DEF Delegated!Closed, GrantTypes, GrantRecords
  <2>. QED  BY <2>1, <2>2
<1>3. \A S \in SUBSET Rest : (Delegated!Closed(S))' <=> Delegated!Closed(S)
  BY DEF Delegated!Closed
<1>. SUFFICES ASSUME NEW h \in Rest
              PROVE  (Delegated!Ancestors(h))' = Delegated!Ancestors(h) /\ g \notin Delegated!Ancestors(h)
  OBVIOUS
<1>4. /\ Delegated!Ancestors(h) \subseteq Rest /\ h \in Delegated!Ancestors(h)
      /\ Delegated!Closed(Delegated!Ancestors(h))
  BY <1>2, Ancestry
<1>5. Delegated!Ancestors(h)' = {x \in Grants : \A S \in SUBSET Grants : h \in S /\ Delegated!Closed(S)' => x \in S}
  BY DEF Delegated!Ancestors
<1>6. Delegated!Ancestors(h)' \subseteq Delegated!Ancestors(h)
  BY <1>3, <1>4, <1>5
<1>7. ASSUME NEW x \in Delegated!Ancestors(h) PROVE x \in Delegated!Ancestors(h)'
  <2>. SUFFICES ASSUME NEW S \in SUBSET Grants, h \in S, Delegated!Closed(S)'
                PROVE  x \in S
    BY <1>4, <1>5
  <2>1. (Delegated!Closed(S \cap Rest))'
    BY <1>2 DEF Delegated!Closed
  <2>2. Delegated!Closed(S \cap Rest)
    BY <1>3, <2>1
  <2>. QED  BY <2>2, Ancestry
<1>. QED  BY <1>4, <1>6, <1>7

-----------------------------------------------------------------------------
(* The log only moves on; what a process is at stays fitting. *)
Onward ==
    /\ \A o \in Operations :
          (op[o] # None => op'[o] # None) /\ (op[o] \notin {None, "planned"} => op'[o] \notin {None, "planned"})
    /\ admitted \subseteq admitted' /\ fenced \subseteq fenced'
    /\ \A g \in Grants : grant[g] # None => grant'[g] # None

LEMMA StillFits ==
    ASSUME Onward, admitted \subseteq Operations,
           NEW c \in Doings, Lasting(c), NEW d, d.kind = c.kind, d.arg = c.arg, d.at = c.at
    PROVE  Lasting(d)'
<1>1. d.kind = "issue" => d.arg \in Issues
  BY DEF Lasting
<1>2. d.kind = "revoke" => d.arg \in Grants /\ grant'[d.arg] # None
  BY DEF Lasting, Onward
<1>3. d.kind = "execute" =>
          /\ d.arg \in Operations /\ d.at \in {"asked"} \cup Underway
          /\ d.at \in Underway => d.arg \in admitted'
          /\ d.at \in {"submitted", "waiting"} => op'[d.arg] \notin {None, "planned"}
  BY DEF Lasting, Onward
<1>4. d.kind = "reconcile" => d.arg \in admitted' /\ (d.at = "failed" => d.arg \in fenced')
  BY DEF Lasting, Onward
<1>5. d.kind = "takeover" =>
          /\ d.arg \in Answers
          /\ \A o \in DOMAIN d.arg : o \in admitted' /\ (d.arg[o] = "failed" => o \in fenced')
  BY DEF Lasting, Onward
<1>. QED  BY <1>1, <1>2, <1>3, <1>4, <1>5 DEF Lasting

(* An append: the process that has appended goes on as it says, and what   *)
(* the others have read is out of date.                                    *)
LEMMA Others ==
    ASSUME job \in [Delegates -> Doings], NEW p \in Delegates, NEW c \in Doings, Delegated!Append(p, c)
    PROVE  /\ job' \in [Delegates -> Doings] /\ job'[p] = c
           /\ \A q \in Delegates \ {p} :
                 /\ job'[q].kind = job[q].kind /\ job'[q].arg = job[q].arg /\ job'[q].at = job[q].at
                 /\ ~job'[q].fresh
<1>1. \A q \in Delegates \ {p} : job'[q] = [job[q] EXCEPT !.fresh = FALSE]
  BY DEF Delegated!Append
<1>2. job'[p] = c
  BY DEF Delegated!Append
<1>3. \A q \in Delegates \ {p} :
         /\ job'[q] \in Doings
         /\ job'[q].kind = job[q].kind /\ job'[q].arg = job[q].arg /\ job'[q].at = job[q].at
         /\ ~job'[q].fresh
  <2>. SUFFICES ASSUME NEW q \in Delegates \ {p}
                PROVE  /\ job'[q] \in Doings
                       /\ job'[q].kind = job[q].kind /\ job'[q].arg = job[q].arg /\ job'[q].at = job[q].at
                       /\ ~job'[q].fresh
    OBVIOUS
  <2>1. job[q] \in Doings
    OBVIOUS
  <2>2. ASSUME NEW d \in Doings, NEW e, e = [d EXCEPT !.fresh = FALSE]
        PROVE  e \in Doings /\ e.kind = d.kind /\ e.arg = d.arg /\ e.at = d.at /\ ~e.fresh
    BY <2>2 DEF Doings
  <2>. QED  BY <1>1, <2>1, <2>2
<1>4. job' = [q \in Delegates |-> job'[q]]
  BY DEF Delegated!Append
<1>. QED  BY <1>2, <1>3, <1>4

LEMMA OthersFit ==
    ASSUME DelegationInv, Onward, NEW p \in Delegates, NEW c \in Doings, Delegated!Append(p, c),
           Lasting(c)', c.fresh => Reads(c)'
    PROVE  JobsFit'
<1>1. /\ job' \in [Delegates -> Doings] /\ job'[p] = c
      /\ \A q \in Delegates \ {p} :
            /\ job'[q].kind = job[q].kind /\ job'[q].arg = job[q].arg /\ job'[q].at = job[q].at
            /\ ~job'[q].fresh
  BY Others DEF DelegationInv, DelegationTypes
<1>2. JobsFit' <=> \A q \in Delegates : (Lasting(job[q]) /\ (job[q].fresh => Reads(job[q])))'
  BY DEF JobsFit
<1>3. ASSUME NEW q \in Delegates \ {p} PROVE (Lasting(job[q]) /\ (job[q].fresh => Reads(job[q])))'
  <2>1. job[q] \in Doings /\ Lasting(job[q]) /\ admitted \subseteq Operations
    BY DEF DelegationInv, DelegationTypes, JobsFit
  <2>2. ASSUME NEW d, d.kind = job[q].kind, d.arg = job[q].arg, d.at = job[q].at PROVE Lasting(d)'
    BY <2>1, <2>2, StillFits
  <2>3. Lasting(job[q])'
    BY <1>1, <2>2 DEF Lasting
  <2>. QED  BY <1>1, <2>3
<1>4. (Lasting(job[p]) /\ (job[p].fresh => Reads(job[p])))'
  BY <1>1 DEF Lasting, Reads
<1>. QED  BY <1>2, <1>3, <1>4

LEMMA SameAccounts ==
    ASSUME Accounts, UNCHANGED <<grant, admitted>>
    PROVE  Accounts'
<1>1. \A g \in Grants : (Delegated!Ancestors(g))' = Delegated!Ancestors(g)
  BY DEF Delegated!Ancestors, Delegated!Closed
<1>2. \A g : Direct(g)' = Direct(g) /\ Children(g)' = Children(g)
  BY DEF Direct, Children
<1>3. \A g : Tickets(g)' = Tickets(g)
  BY <1>2 DEF Tickets
<1>4. \A g \in Grants : grant[g] # None /\ grant[g].parent # None =>
         (g \notin Delegated!Ancestors(grant[g].parent))'
  BY DEF Accounts, Delegated!Ancestors, Delegated!Closed
<1>. QED  BY <1>2, <1>3, <1>4 DEF Accounts

(* A step of one process that appends nothing; the provider may declare    *)
(* operations failed that it has not carried out.                          *)
LEMMA ByItself ==
    ASSUME DelegationInv, UNCHANGED <<grant, admitted, op, flying, effects, revoked>>,
           fenced \subseteq fenced', fenced' \subseteq Operations, \A o \in fenced' : effects[o] = 0,
           NEW p \in Delegates, NEW c \in Doings, job' = [job EXCEPT ![p] = c],
           Lasting(c)', c.fresh => Reads(c)', \A o \in Operations : ~Executes(c, o)
    PROVE  DelegationInv'
<1>1. /\ job' \in [Delegates -> Doings] /\ job'[p] = c
      /\ \A q \in Delegates \ {p} : job'[q] = job[q]
  BY DEF DelegationInv, DelegationTypes
<1>2. Onward
  BY DEF Onward
<1>3. JobsFit'
  <2>1. ASSUME NEW q \in Delegates \ {p} PROVE (Lasting(job[q]) /\ (job[q].fresh => Reads(job[q])))'
    <3>1. job[q] \in Doings /\ Lasting(job[q]) /\ (job[q].fresh => Reads(job[q])) /\ admitted \subseteq Operations
      BY DEF DelegationInv, DelegationTypes, JobsFit
    <3>2. ASSUME NEW d, d = job[q] PROVE Lasting(d)' /\ (d.fresh => Reads(d)')
      <4>1. Lasting(d)'
        BY <1>2, <3>1, <3>2, StillFits
      <4>. QED  BY <3>1, <3>2, <4>1 DEF Reads, Delegated!Settled
    <3>. QED  BY <1>1, <3>2 DEF Lasting, Reads
  <2>2. (Lasting(job[p]) /\ (job[p].fresh => Reads(job[p])))'
    BY <1>1 DEF Lasting, Reads
  <2>. QED  BY <2>1, <2>2 DEF JobsFit
<1>4. \A q \in Delegates, o \in Operations : Executes(job'[q], o) => q # p /\ job'[q] = job[q] /\ Executes(job[q], o)
  BY <1>1
<1>5. OneCaller' /\ NotSent'
  BY <1>4 DEF DelegationInv, OneCaller, NotSent, Executes, Sent
<1>6. Halted'
  BY <1>4 DEF DelegationInv, DelegationTypes, Halted, Executes, Sent, Withdrawn, Delegated!Ancestors, Delegated!Closed
<1>7. DelegationTypes' /\ Parents' /\ Calls' /\ Fences' /\ OneOpen' /\ Granted'
  BY <1>1 DEF DelegationInv, DelegationTypes, GrantTypes, Parents, Calls, Sent, Fences, OneOpen, Delegated!Settled, Granted
<1>8. Accounts'
  BY SameAccounts DEF DelegationInv
<1>. QED  BY <1>3, <1>5, <1>6, <1>7, <1>8 DEF DelegationInv

(* A process appends how it goes with an operation. *)
LEMMA Recorded ==
    ASSUME DelegationInv, UNCHANGED <<grant, admitted, flying, effects, fenced, revoked>>,
           NEW o \in admitted, NEW outcome \in Outcomes \ {None}, op' = [op EXCEPT ![o] = outcome],
           ~Delegated!Settled(o), outcome = "planned" => op[o] = None, outcome = "failed" => o \in fenced,
           NEW p \in Delegates, NEW c \in Doings, Delegated!Append(p, c),
           Lasting(c)', c.fresh => Reads(c)',
           \A r \in Operations : Executes(c, r) => Executes(job[p], r) /\ job[p].fresh /\ job[p].at # "waiting"
    PROVE  DelegationInv'
<1>1. /\ job' \in [Delegates -> Doings] /\ job'[p] = c
      /\ \A q \in Delegates \ {p} :
            /\ job'[q].kind = job[q].kind /\ job'[q].arg = job[q].arg /\ job'[q].at = job[q].at
            /\ ~job'[q].fresh
  BY Others DEF DelegationInv, DelegationTypes
<1>2. /\ o \in Operations /\ op' \in [Operations -> Outcomes]
      /\ \A r \in Operations : op'[r] = IF r = o THEN outcome ELSE op[r]
  BY DEF DelegationInv, DelegationTypes
<1>3. Onward
  BY <1>2 DEF Onward
<1>4. JobsFit'
  BY <1>3, OthersFit
<1>5. \A q \in Delegates, r \in Operations : Executes(job'[q], r) =>
         /\ Executes(job[q], r)
         /\ q # p => job'[q].at = job[q].at /\ ~job'[q].fresh
         /\ q = p => job[p].fresh /\ job[p].at # "waiting"
  BY <1>1 DEF Executes
<1>6. OneCaller'
  BY <1>5 DEF DelegationInv, OneCaller, Executes
<1>7. NotSent'
  BY <1>5 DEF DelegationInv, NotSent, Executes, Sent
<1>8. Halted'
  <2>. SUFFICES ASSUME NEW r \in revoked
                PROVE  /\ ~Sent(r)' /\ Withdrawn(r)'
                       /\ \A q \in Delegates : Executes(job'[q], r) => job'[q].at \in {"admitted", "planned"} /\ ~job'[q].fresh
    BY DEF Halted, Executes
  <2>1. ~Sent(r)' /\ Withdrawn(r)'
    BY DEF DelegationInv, Halted, Sent, Withdrawn, Delegated!Ancestors, Delegated!Closed
  <2>2. r \in Operations /\ \A q \in Delegates : Executes(job[q], r) => job[q].at \in {"admitted", "planned"} /\ ~job[q].fresh
    BY DEF DelegationInv, DelegationTypes, Halted
  <2>. QED  BY <1>5, <2>1, <2>2
<1>9. Calls' /\ Fences'
  BY <1>2 DEF DelegationInv, Calls, Fences, Sent
<1>10. OneOpen'
  BY <1>2 DEF DelegationInv, DelegationTypes, OneOpen, Delegated!Settled
<1>11. DelegationTypes' /\ Parents' /\ Granted'
  BY <1>1, <1>2 DEF DelegationInv, DelegationTypes, GrantTypes, Parents, Granted
<1>12. Accounts'
  BY SameAccounts DEF DelegationInv
<1>. QED  BY <1>4, <1>6, <1>7, <1>8, <1>9, <1>10, <1>11, <1>12 DEF DelegationInv
-----------------------------------------------------------------------------
(* The steps, one lemma for each action. *)
Data == <<grant, admitted, op, flying, effects, fenced, revoked>>

LEMMA FreeFits ==
    /\ Delegated!Free \in Doings /\ Lasting(Delegated!Free) /\ Lasting(Delegated!Free)'
    /\ Delegated!Free.fresh = FALSE
    /\ \A o \in Operations : ~Executes(Delegated!Free, o)
BY DEF Delegated!Free, Doings, Stages, Lasting, Executes

LEMMA StopDelegated ==
    ASSUME DelegationInv, UNCHANGED Data, NEW p \in Delegates, Delegated!Stop(p)
    PROVE  DelegationInv'
<1>1. /\ fenced \subseteq fenced' /\ fenced' \subseteq Operations /\ \A o \in fenced' : effects[o] = 0
      /\ UNCHANGED <<grant, admitted, op, flying, effects, revoked>>
  BY DEF Data, DelegationInv, DelegationTypes, Fences
<1>. QED  BY <1>1, FreeFits, ByItself DEF Delegated!Stop

LEMMA StartDelegated ==
    ASSUME DelegationInv, UNCHANGED Data, NEW p \in Delegates,
           NEW kind \in {"issue", "revoke", "execute", "reconcile"},
           NEW arg \in Operations \cup Grants \cup Issues, NEW place \in {"asked", "interrupted", "asking"},
           Delegated!Start(p, kind, arg, place),
           kind = "issue" => arg \in Issues /\ grant[arg.grant] = None /\ (arg.parent # None => grant[arg.parent] # None),
           kind = "revoke" => arg \in Grants /\ grant[arg] # None,
           kind = "execute" => arg \in Operations \ admitted /\ place = "asked" /\ \A o \in admitted : Delegated!Settled(o),
           kind = "reconcile" => arg \in admitted /\ (place = "interrupted" => op[arg] = None)
    PROVE  DelegationInv'
<1>. DEFINE c == [kind |-> kind, arg |-> arg, at |-> place, fresh |-> TRUE]
<1>1. /\ fenced \subseteq fenced' /\ fenced' \subseteq Operations /\ \A o \in fenced' : effects[o] = 0
      /\ UNCHANGED <<grant, admitted, op, flying, effects, revoked>>
  BY DEF Data, DelegationInv, DelegationTypes, Fences
<1>2. c \in Doings
  BY DEF Doings, Stages
<1>3. Lasting(c)' /\ Reads(c)' /\ \A o \in Operations : ~Executes(c, o)
  <2>1. c.kind = kind /\ c.arg = arg /\ c.at = place
    OBVIOUS
  <2>. HIDE DEF c
  <2>2. Lasting(c)'
    BY <1>1, <2>1 DEF Lasting, Underway
  <2>3. Reads(c)'
    BY <1>1, <2>1 DEF Reads, Delegated!Settled
  <2>. QED  BY <2>1, <2>2, <2>3 DEF Executes, Underway
<1>4. job' = [job EXCEPT ![p] = c]
  BY DEF Delegated!Start
<1>. HIDE DEF c
<1>. QED  BY <1>1, <1>2, <1>3, <1>4, ByItself

LEMMA StartsDelegated ==
    ASSUME DelegationInv, NEW p \in Delegates,
           \/ \E g \in Grants, q \in (Grants \cup {None}) : Delegated!StartIssue(p, g, q)
           \/ \E g \in Grants : Delegated!StartRevoke(p, g)
           \/ \E o \in Operations : Delegated!StartExecute(p, o) \/ Delegated!StartReconcile(p, o)
    PROVE  DelegationInv'
<1>1. UNCHANGED Data
  BY DEF Data, Delegated!StartIssue, Delegated!StartRevoke, Delegated!StartExecute, Delegated!StartReconcile, Delegated!provider
<1>2. ASSUME NEW g \in Grants, NEW q \in Grants \cup {None}, Delegated!StartIssue(p, g, q) PROVE DelegationInv'
  <2>. DEFINE arg == [grant |-> g, parent |-> q]
  <2>1. arg \in Issues /\ arg.grant = g /\ arg.parent = q
    BY DEF Issues
  <2>2. Delegated!Start(p, "issue", arg, "asked") /\ grant[g] = None /\ (q # None => grant[q] # None)
    BY <1>2 DEF Delegated!StartIssue
  <2>. HIDE DEF arg
  <2>. QED  BY <1>1, <2>1, <2>2, StartDelegated
<1>3. ASSUME NEW g \in Grants, Delegated!StartRevoke(p, g) PROVE DelegationInv'
  BY <1>1, <1>3, StartDelegated DEF Delegated!StartRevoke
<1>4. ASSUME NEW o \in Operations, Delegated!StartExecute(p, o) PROVE DelegationInv'
  BY <1>1, <1>4, StartDelegated DEF Delegated!StartExecute
<1>5. ASSUME NEW o \in Operations, Delegated!StartReconcile(p, o) PROVE DelegationInv'
  <2>1. CASE op[o] = None
    BY <1>1, <1>5, <2>1, StartDelegated DEF Delegated!StartReconcile
  <2>2. CASE op[o] # None
    BY <1>1, <1>5, <2>2, StartDelegated DEF Delegated!StartReconcile
  <2>. QED  BY <2>1, <2>2
<1>. QED  BY <1>2, <1>3, <1>4, <1>5

LEMMA AskProviderDelegated ==
    ASSUME DelegationInv, NEW p \in Delegates, Delegated!AskProvider(p)
    PROVE  DelegationInv'
<1>. PICK o : o = job[p].arg
  OBVIOUS
<1>1. /\ job[p] \in Doings /\ job[p].kind = "reconcile" /\ job[p].at = "asking" /\ o \in admitted
      /\ admitted \subseteq Operations /\ fenced \subseteq Operations
      /\ UNCHANGED <<grant, admitted, op, flying, effects, revoked>>
  BY DEF Delegated!AskProvider, Delegated!Doing, DelegationInv, DelegationTypes, JobsFit, Lasting
<1>2. fenced' = fenced \cup {r \in {o} : Delegated!Answer(r) = "failed"}
  BY DEF Delegated!AskProvider, Delegated!Answered
<1>3. Delegated!Answer(o) \in {"confirmed", "failed"} /\ (Delegated!Answer(o) = "failed" => effects[o] = 0)
  BY <1>1 DEF Delegated!Answer, DelegationInv, DelegationTypes
<1>4. fenced \subseteq fenced' /\ fenced' \subseteq Operations /\ \A r \in fenced' : effects[r] = 0
  BY <1>1, <1>2, <1>3 DEF DelegationInv, Fences
<1>5. PICK c : c = [job[p] EXCEPT !.at = Delegated!Answer(o)]
  OBVIOUS
<1>6. c \in Doings /\ c.kind = "reconcile" /\ c.arg = o /\ c.at = Delegated!Answer(o)
  BY <1>1, <1>3, <1>5 DEF Doings, Stages
<1>9. job' = [job EXCEPT ![p] = c]
  <2>1. job' = [job EXCEPT ![p].at = Delegated!Answer(o)]
    BY DEF Delegated!AskProvider, Delegated!Go
  <2>. QED  BY <1>5, <2>1
<1>7. Lasting(c)'
  BY <1>1, <1>2, <1>3, <1>6 DEF Lasting
<1>8. Reads(c)' /\ \A r \in Operations : ~Executes(c, r)
  BY <1>3, <1>6 DEF Reads, Executes
<1>. QED  BY <1>1, <1>4, <1>6, <1>7, <1>8, <1>9, ByItself

LEMMA StartTakeoverDelegated ==
    ASSUME DelegationInv, NEW p \in Delegates, Delegated!StartTakeover(p)
    PROVE  DelegationInv'
<1>. PICK arg : arg = [o \in Delegated!Pending |-> Delegated!Answer(o)]
  OBVIOUS
<1>. PICK c : c = [kind |-> "takeover", arg |-> arg, at |-> "resuming", fresh |-> TRUE]
  OBVIOUS
<1>1. /\ UNCHANGED <<grant, admitted, op, flying, effects, revoked>>
      /\ job' = [job EXCEPT ![p] = c]
      /\ fenced' = fenced \cup {o \in Delegated!Pending : Delegated!Answer(o) = "failed"}
      /\ fenced \subseteq Operations
  BY DEF Delegated!StartTakeover, Delegated!Start, Delegated!Answered, DelegationInv, DelegationTypes
<1>2. Delegated!Pending \in SUBSET Operations /\ \A o \in Delegated!Pending : o \in admitted
  BY DEF Delegated!Pending, DelegationInv, Calls
<1>3. \A o \in Operations :
         Delegated!Answer(o) \in {"confirmed", "failed"} /\ (Delegated!Answer(o) = "failed" => effects[o] = 0)
  BY DEF Delegated!Answer, DelegationInv, DelegationTypes
<1>4. fenced \subseteq fenced' /\ fenced' \subseteq Operations /\ \A o \in fenced' : effects[o] = 0
  BY <1>1, <1>2, <1>3 DEF DelegationInv, Fences
<1>5. arg \in Answers /\ DOMAIN arg = Delegated!Pending /\ \A o \in Delegated!Pending : arg[o] = Delegated!Answer(o)
  <2>1. arg \in [Delegated!Pending -> {"confirmed", "failed"}]
    BY <1>2, <1>3
  <2>. QED  BY <1>2, <2>1 DEF Answers
<1>6. c \in Doings /\ c.kind = "takeover" /\ c.arg = arg /\ c.at = "resuming"
  BY <1>5 DEF Doings, Stages
<1>7. Lasting(c)'
  BY <1>1, <1>2, <1>5, <1>6 DEF Lasting
<1>8. Reads(c)' /\ \A o \in Operations : ~Executes(c, o)
  BY <1>6 DEF Reads, Executes
<1>. QED  BY <1>1, <1>4, <1>6, <1>7, <1>8, ByItself

LEMMA IntendDelegated ==
    ASSUME DelegationInv, NEW p \in Delegates,
           Delegated!Intend(p, "admitted", "planned") \/ Delegated!Intend(p, "planned", "submitted")
    PROVE  DelegationInv'
<1>. DEFINE o == job[p].arg
<1>1. PICK step \in {<<"admitted", "planned">>, <<"planned", "submitted">>} : Delegated!Intend(p, step[1], step[2])
  OBVIOUS
<1>. DEFINE from == step[1]
            to == step[2]
<1>2. /\ job[p] \in Doings /\ job[p].kind = "execute" /\ job[p].at = from /\ o \in admitted
      /\ UNCHANGED <<grant, admitted, flying, effects, fenced, revoked>>
      /\ from \in {"admitted", "planned"}
  BY <1>1 DEF Delegated!Intend, Delegated!Doing, Delegated!provider, DelegationInv, DelegationTypes, JobsFit, Lasting, Underway
<1>3. CASE Delegated!Stop(p) /\ UNCHANGED op
  BY <1>2, <1>3, StopDelegated DEF Data
<1>4. CASE Delegated!Current(p) /\ \E c \in {[job[p] EXCEPT !.at = to], Delegated!Free} : Delegated!Record(p, o, to, c)
  <2>1. PICK c \in {[job[p] EXCEPT !.at = to], Delegated!Free} : Delegated!Record(p, o, to, c)
    BY <1>4
  <2>2. job[p].fresh /\ op[o] = IF from = "admitted" THEN None ELSE "planned"
    BY <1>1, <1>2, <1>4 DEF Delegated!Current, DelegationInv, JobsFit, Reads
  <2>3. op' = [op EXCEPT ![o] = to] /\ Delegated!Append(p, c)
    BY <2>1 DEF Delegated!Record
  <2>4. /\ to \in Outcomes \ {None} /\ ~Delegated!Settled(o) /\ (to = "planned" => op[o] = None) /\ to # "failed"
        /\ to \in {"planned", "submitted"} /\ (to = "submitted" <=> from = "planned")
    BY <1>1, <2>2, DelegationAssumption DEF Outcomes, Delegated!Settled
  <2>5. c \in Doings /\ (c # Delegated!Free => c.kind = "execute" /\ c.arg = o /\ c.at = to)
    <3>1. \A d \in Doings : LET e == [d EXCEPT !.at = to] IN e \in Doings /\ e.kind = d.kind /\ e.arg = d.arg /\ e.at = to
      BY <2>4, ZenonT(30) DEF Doings, Stages
    <3>. QED  BY <1>2, <2>1, <3>1, FreeFits
  <2>6. op'[o] = to
    BY <1>2, <2>3 DEF DelegationInv, DelegationTypes
  <2>7. Lasting(c)' /\ (c.fresh => Reads(c)')
    <3>1. CASE c = Delegated!Free
      BY <3>1, FreeFits
    <3>2. CASE c # Delegated!Free
      BY <1>2, <2>4, <2>5, <2>6, <3>2, DelegationAssumption DEF Lasting, Reads, Underway, DelegationInv, DelegationTypes
    <3>. QED  BY <3>1, <3>2
  <2>8. \A r \in Operations : Executes(c, r) => Executes(job[p], r) /\ job[p].fresh /\ job[p].at # "waiting"
    BY <1>1, <1>2, <2>2, <2>5, FreeFits DEF Executes, Underway
  <2>. QED  BY <1>2, <2>3, <2>4, <2>5, <2>7, <2>8, Recorded
<1>. QED  BY <1>1, <1>3, <1>4 DEF Delegated!Intend

LEMMA DispatchedDelegated ==
    ASSUME DelegationInv, NEW p \in Delegates, Delegated!Dispatched(p)
    PROVE  DelegationInv'
<1>. PICK o : o = job[p].arg
  OBVIOUS
<1>1. /\ job[p].kind = "execute" /\ job[p].at = "waiting" /\ o \in admitted
      /\ UNCHANGED <<grant, admitted, flying, effects, fenced, revoked>>
  BY DEF Delegated!Dispatched, Delegated!Doing, Delegated!provider, DelegationInv, JobsFit, Lasting, Underway
<1>2. CASE Delegated!Stop(p) /\ UNCHANGED op
  BY <1>1, <1>2, StopDelegated DEF Data
<1>3. CASE Delegated!Current(p) /\ Delegated!Record(p, o, "unknown", Delegated!Free)
  <2>1. op[o] = "submitted"
    BY <1>1, <1>3 DEF Delegated!Current, DelegationInv, JobsFit, Reads
  <2>2. ~Delegated!Settled(o) /\ "unknown" \in Outcomes \ {None}
    BY <2>1, DelegationAssumption DEF Delegated!Settled, Outcomes
  <2>. QED  BY <1>1, <1>3, <2>2, FreeFits, Recorded DEF Delegated!Record
<1>. QED  BY <1>2, <1>3 DEF Delegated!Dispatched

LEMMA InterruptedDelegated ==
    ASSUME DelegationInv, NEW p \in Delegates,
           \/ Delegated!Interrupted(p, "interrupted", "planned", "noting")
           \/ Delegated!Interrupted(p, "noting", "unknown", "asking")
    PROVE  DelegationInv'
<1>. PICK o : o = job[p].arg
  OBVIOUS
<1>1. PICK step \in {<<"interrupted", "planned", "noting">>, <<"noting", "unknown", "asking">>} :
         Delegated!Interrupted(p, step[1], step[2], step[3])
  OBVIOUS
<1>2. /\ job[p] \in Doings /\ job[p].kind = "reconcile" /\ job[p].at = step[1] /\ o \in admitted
      /\ o \in Operations
      /\ UNCHANGED <<grant, admitted, flying, effects, fenced, revoked>>
  BY <1>1 DEF Delegated!Interrupted, Delegated!Doing, Delegated!provider, DelegationInv, DelegationTypes, JobsFit, Lasting
<1>3. CASE Delegated!Stop(p) /\ UNCHANGED op
  BY <1>2, <1>3, StopDelegated DEF Data
<1>4. CASE Delegated!Current(p) /\ Delegated!Record(p, o, step[2], [job[p] EXCEPT !.at = step[3]])
  <2>1. PICK c : c = [job[p] EXCEPT !.at = step[3]]
    OBVIOUS
  <2>2. c \in Doings /\ c.kind = "reconcile" /\ c.arg = o /\ c.at = step[3] /\ step[3] \in {"noting", "asking"}
    <3>1. step[3] \in {"noting", "asking"}
      BY <1>1
    <3>. QED  BY <1>2, <2>1, <3>1 DEF Doings, Stages
  <2>3. op[o] = IF step[1] = "interrupted" THEN None ELSE "planned"
    BY <1>1, <1>2, <1>4 DEF Delegated!Current, DelegationInv, JobsFit, Reads
  <2>4. op' = [op EXCEPT ![o] = step[2]] /\ Delegated!Append(p, c) /\ op'[o] = step[2]
    BY <1>2, <1>4, <2>1 DEF Delegated!Record, DelegationInv, DelegationTypes
  <2>5. /\ step[2] \in Outcomes \ {None} /\ ~Delegated!Settled(o) /\ (step[2] = "planned" => op[o] = None) /\ step[2] # "failed"
    BY <1>1, <2>3, DelegationAssumption DEF Outcomes, Delegated!Settled
  <2>6. Lasting(c)'
    BY <1>2, <2>2 DEF Lasting
  <2>7. Reads(c)' /\ \A r \in Operations : ~Executes(c, r)
    BY <1>1, <1>2, <2>2, <2>4 DEF Reads, Executes
  <2>. QED  BY <1>2, <2>2, <2>4, <2>5, <2>6, <2>7, Recorded
<1>. QED  BY <1>1, <1>3, <1>4 DEF Delegated!Interrupted

LEMMA ReconcileDelegated ==
    ASSUME DelegationInv, NEW p \in Delegates, Delegated!Reconcile(p)
    PROVE  DelegationInv'
<1>. PICK o : o = job[p].arg
  OBVIOUS
<1>1. /\ job[p].kind = "reconcile" /\ job[p].at \in {"confirmed", "failed"}
      /\ o \in admitted /\ (job[p].at = "failed" => o \in fenced)
      /\ UNCHANGED <<grant, admitted, flying, effects, fenced, revoked>>
  BY DEF Delegated!Reconcile, Delegated!Doing, Delegated!provider, DelegationInv, JobsFit, Lasting
<1>2. CASE Delegated!Stop(p) /\ UNCHANGED op
  BY <1>1, <1>2, StopDelegated DEF Data
<1>3. CASE ~Delegated!Settled(o) /\ Delegated!Record(p, o, job[p].at, Delegated!Free)
  <2>1. job[p].at \in Outcomes \ {None}
    BY <1>1, DelegationAssumption DEF Outcomes
  <2>. QED  BY <1>1, <1>3, <2>1, FreeFits, Recorded DEF Delegated!Record
<1>. QED  BY <1>2, <1>3 DEF Delegated!Reconcile

LEMMA TakeoverReconcileDelegated ==
    ASSUME DelegationInv, NEW p \in Delegates, Delegated!TakeoverReconcile(p)
    PROVE  DelegationInv'
<1>. PICK c : c = job[p]
  OBVIOUS
<1>1. /\ c \in Doings /\ c.kind = "takeover" /\ c.arg \in Answers /\ Lasting(c)
      /\ admitted \subseteq Operations
      /\ UNCHANGED <<grant, admitted, flying, effects, fenced, revoked>>
  BY DEF Delegated!TakeoverReconcile, Delegated!Doing, Delegated!provider, DelegationInv, DelegationTypes, JobsFit, Lasting
<1>2. PICK o \in DOMAIN c.arg : ~Delegated!Settled(o) /\ Delegated!Record(p, o, c.arg[o], c)
  BY DEF Delegated!TakeoverReconcile
<1>3. o \in admitted /\ (c.arg[o] = "failed" => o \in fenced)
  BY <1>1 DEF Lasting
<1>4. c.arg[o] \in {"confirmed", "failed"}
  BY <1>1 DEF Answers
<1>5. c.arg[o] \in Outcomes \ {None}
  BY <1>4, DelegationAssumption DEF Outcomes
<1>6. Lasting(c)' /\ Reads(c)' /\ \A r \in Operations : ~Executes(c, r)
  BY <1>1 DEF Lasting, Reads, Executes
<1>. QED  BY <1>1, <1>2, <1>3, <1>4, <1>5, <1>6, Recorded DEF Delegated!Record

LEMMA ResumeDelegated ==
    ASSUME DelegationInv, NEW p \in Delegates, Delegated!Resume(p)
    PROVE  DelegationInv'
<1>1. UNCHANGED Data
  BY DEF Delegated!Resume, Delegated!provider, Data
<1>2. CASE Delegated!Stop(p)
  BY <1>1, <1>2, StopDelegated
<1>3. CASE Delegated!Append(p, Delegated!Free)
  <2>1. /\ job' \in [Delegates -> Doings] /\ job'[p] = Delegated!Free
        /\ \A q \in Delegates \ {p} :
              /\ job'[q].kind = job[q].kind /\ job'[q].arg = job[q].arg /\ job'[q].at = job[q].at
              /\ ~job'[q].fresh
    BY <1>3, FreeFits, Others DEF DelegationInv, DelegationTypes
  <2>2. Onward
    BY <1>1 DEF Data, Onward
  <2>3. JobsFit'
    BY <1>3, <2>2, FreeFits, OthersFit
  <2>4. \A q \in Delegates, o \in Operations : Executes(job'[q], o) =>
           q # p /\ Executes(job[q], o) /\ job'[q].at = job[q].at /\ ~job'[q].fresh
    BY <2>1, FreeFits DEF Executes
  <2>5. OneCaller' /\ NotSent'
    BY <1>1, <2>4 DEF Data, DelegationInv, OneCaller, NotSent, Executes, Sent
  <2>6. Halted'
    BY <1>1, <2>4 DEF Data, DelegationInv, DelegationTypes, Halted, Executes, Sent, Withdrawn, Delegated!Ancestors, Delegated!Closed
  <2>7. DelegationTypes' /\ Parents' /\ Calls' /\ Fences' /\ OneOpen' /\ Granted'
    BY <1>1, <2>1 DEF Data, DelegationInv, DelegationTypes, GrantTypes, Parents, Calls, Sent, Fences, OneOpen, Delegated!Settled, Granted
  <2>8. Accounts'
    BY <1>1, SameAccounts DEF Data, DelegationInv
  <2>. QED  BY <2>3, <2>5, <2>6, <2>7, <2>8 DEF DelegationInv
<1>. QED  BY <1>2, <1>3 DEF Delegated!Resume

LEMMA DispatchDelegated ==
    ASSUME DelegationInv, NEW p \in Delegates, Delegated!Dispatch(p)
    PROVE  DelegationInv'
<1>. PICK o : o = job[p].arg
  OBVIOUS
<1>. PICK c : c = [job[p] EXCEPT !.at = "waiting"]
  OBVIOUS
<1>1. /\ job[p] \in Doings /\ job[p].kind = "execute" /\ job[p].at = "submitted" /\ o \in admitted
      /\ o \in Operations /\ op[o] \notin {None, "planned"}
      /\ job[p].fresh => op[o] = "submitted"
      /\ UNCHANGED <<grant, admitted, op, effects, fenced, revoked>> /\ flying' = flying \cup {o}
  BY DEF Delegated!Dispatch, Delegated!Doing, DelegationInv, DelegationTypes, JobsFit, Lasting, Reads, Underway
<1>2. /\ c \in Doings /\ c.kind = "execute" /\ c.arg = o /\ c.at = "waiting" /\ c.fresh = job[p].fresh
  BY <1>1 DEF Doings, Stages
<1>3. /\ job' \in [Delegates -> Doings] /\ job'[p] = c /\ \A q \in Delegates \ {p} : job'[q] = job[q]
  BY <1>2 DEF Delegated!Dispatch, Delegated!Go, DelegationInv, DelegationTypes
<1>4. Executes(job[p], o) /\ ~Sent(o) /\ effects[o] = 0
  BY <1>1 DEF Executes, Underway, DelegationInv, NotSent, Sent
<1>5. \A q \in Delegates, r \in Operations : Executes(job'[q], r) =>
         Executes(job[q], r) /\ (q = p => r = o) /\ (q # p => job'[q] = job[q] /\ r # o)
  <2>. SUFFICES ASSUME NEW q \in Delegates, NEW r \in Operations, Executes(job'[q], r)
                PROVE  Executes(job[q], r) /\ (q = p => r = o) /\ (q # p => job'[q] = job[q] /\ r # o)
    OBVIOUS
  <2>1. CASE q = p
    BY <1>2, <1>3, <1>4, <2>1 DEF Executes
  <2>2. CASE q # p
    <3>1. job'[q] = job[q] /\ Executes(job[q], r)
      BY <1>3, <2>2
    <3>. QED  BY <1>1, <1>4, <2>2, <3>1 DEF DelegationInv, OneCaller
  <2>. QED  BY <2>1, <2>2
<1>6. JobsFit'
  <2>1. Lasting(c)' /\ (c.fresh => Reads(c)')
    BY <1>1, <1>2 DEF Lasting, Reads, Underway
  <2>2. ASSUME NEW d \in Doings, Lasting(d), d.fresh => Reads(d) PROVE Lasting(d)' /\ (d.fresh => Reads(d)')
    BY <1>1, <2>2 DEF Lasting, Reads, Delegated!Settled
  <2>3. ASSUME NEW q \in Delegates PROVE (Lasting(job[q]) /\ (job[q].fresh => Reads(job[q])))'
    <3>1. job[q] \in Doings /\ Lasting(job[q]) /\ (job[q].fresh => Reads(job[q]))
      BY DEF DelegationInv, DelegationTypes, JobsFit
    <3>2. ASSUME NEW d, d = job'[q] PROVE Lasting(d)' /\ (d.fresh => Reads(d)')
      BY <1>3, <2>1, <2>2, <3>1, <3>2
    <3>. QED  BY <3>2 DEF Lasting, Reads
  <2>. QED  BY <2>3 DEF JobsFit
<1>7. \A r \in Operations : Sent(r)' <=> Sent(r) \/ r = o
  BY <1>1 DEF Sent
<1>8. OneCaller'
  BY <1>5 DEF DelegationInv, OneCaller, Executes
<1>9. NotSent'
  <2>. SUFFICES ASSUME NEW q \in Delegates, NEW r \in Operations, Executes(job'[q], r), job'[q].at # "waiting"
                PROVE  ~Sent(r)'
    BY DEF NotSent, Executes
  <2>1. q # p /\ r # o /\ job'[q] = job[q] /\ Executes(job[q], r)
    BY <1>2, <1>3, <1>5
  <2>. QED  BY <1>7, <2>1 DEF DelegationInv, NotSent
<1>10. o \notin revoked
  BY <1>1, <1>4 DEF DelegationInv, Halted
<1>11. Halted'
  <2>. SUFFICES ASSUME NEW r \in revoked
                PROVE  /\ ~Sent(r)' /\ Withdrawn(r)'
                       /\ \A q \in Delegates : Executes(job'[q], r) => job'[q].at \in {"admitted", "planned"} /\ ~job'[q].fresh
    BY <1>1 DEF Halted, Executes
  <2>1. r \in Operations /\ r # o
    BY <1>10 DEF DelegationInv, DelegationTypes
  <2>2. ~Sent(r)' /\ Withdrawn(r)'
    BY <1>1, <1>7, <2>1 DEF DelegationInv, Halted, Withdrawn, Delegated!Ancestors, Delegated!Closed
  <2>. QED  BY <1>5, <2>1, <2>2 DEF DelegationInv, Halted
<1>12. Calls'
  BY <1>1, <1>4, <1>7 DEF DelegationInv, Calls
<1>13. DelegationTypes' /\ Parents' /\ Fences' /\ OneOpen' /\ Granted'
  BY <1>1, <1>3 DEF DelegationInv, DelegationTypes, GrantTypes, Parents, Fences, OneOpen, Delegated!Settled, Granted
<1>14. Accounts'
  BY <1>1, SameAccounts DEF DelegationInv
<1>. QED  BY <1>6, <1>8, <1>9, <1>11, <1>12, <1>13, <1>14 DEF DelegationInv

LEMMA LandDelegated ==
    ASSUME DelegationInv, NEW o \in Operations, Delegated!Land(o)
    PROVE  DelegationInv'
<1>1. /\ UNCHANGED <<grant, admitted, op, job, fenced, revoked>>
      /\ o \in flying /\ flying' = flying \ {o}
      /\ effects' \in [Operations -> Nat]
      /\ \A r \in Operations : effects'[r] = IF r = o /\ o \notin fenced THEN 1 ELSE effects[r]
  BY DEF Delegated!Land, DelegationInv, DelegationTypes, Calls
<1>2. \A r \in Operations : Sent(r)' => Sent(r)
  BY <1>1 DEF Sent
<1>3. JobsFit' /\ OneCaller' /\ OneOpen' /\ Granted' /\ Parents'
  BY <1>1 DEF DelegationInv, JobsFit, Lasting, Reads, OneCaller, Executes, OneOpen, Delegated!Settled, Granted, Parents
<1>4. NotSent'
  BY <1>1, <1>2 DEF DelegationInv, NotSent, Executes
<1>5. Halted'
  <2>1. \A r \in revoked : r \in Operations
    BY DEF DelegationInv, DelegationTypes
  <2>. QED  BY <1>1, <1>2, <2>1 DEF DelegationInv, Halted, Executes, Withdrawn, Delegated!Ancestors, Delegated!Closed
<1>6. Calls'
  BY <1>1, <1>2 DEF DelegationInv, DelegationTypes, Calls
<1>7. Fences' /\ DelegationTypes'
  BY <1>1 DEF DelegationInv, DelegationTypes, GrantTypes, Fences
<1>8. Accounts'
  BY <1>1, SameAccounts DEF DelegationInv
<1>. QED  BY <1>3, <1>4, <1>5, <1>6, <1>7, <1>8 DEF DelegationInv

LEMMA SameDelegated ==
    ASSUME DelegationInv, UNCHANGED <<Data, job>>
    PROVE  DelegationInv'
<1>1. DelegationTypes' /\ Parents' /\ JobsFit' /\ OneCaller' /\ NotSent' /\ Calls' /\ Fences' /\ OneOpen' /\ Granted'
  BY DEF Data, DelegationInv, DelegationTypes, GrantTypes, Parents, JobsFit, Lasting, Reads, OneCaller, NotSent, Executes,
         Calls, Sent, Fences, OneOpen, Delegated!Settled, Granted
<1>2. Halted'
  BY DEF Data, DelegationInv, DelegationTypes, Halted, Executes, Sent, Withdrawn, Delegated!Ancestors, Delegated!Closed
<1>3. Accounts'
  BY SameAccounts DEF Data, DelegationInv
<1>. QED  BY <1>1, <1>2, <1>3 DEF DelegationInv

LEMMA RevokeGrantDelegated ==
    ASSUME DelegationInv, NEW p \in Delegates, Delegated!RevokeGrant(p)
    PROVE  DelegationInv'
<1>. PICK g : g = job[p].arg
  OBVIOUS
<1>1. /\ g \in Grants /\ grant[g] # None
      /\ UNCHANGED <<admitted, op, flying, effects, fenced>>
  BY DEF Delegated!RevokeGrant, Delegated!Doing, Delegated!provider, DelegationInv, JobsFit, Lasting
<1>2. CASE Delegated!Stop(p) /\ UNCHANGED <<grant, revoked>>
  BY <1>1, <1>2, StopDelegated DEF Data
<1>3. CASE /\ grant' = [grant EXCEPT ![g].status = "revoked"]
           /\ revoked' = revoked \cup {o \in Operations : g \in Delegated!Ancestors(Under[o]) /\ op[o] \in {None, "planned"}}
           /\ Delegated!Append(p, Delegated!Free)
  <2>1. /\ job' \in [Delegates -> Doings] /\ job'[p] = Delegated!Free
        /\ \A q \in Delegates \ {p} :
              /\ job'[q].kind = job[q].kind /\ job'[q].arg = job[q].arg /\ job'[q].at = job[q].at
              /\ ~job'[q].fresh
    BY <1>3, FreeFits, Others DEF DelegationInv, DelegationTypes
  <2>2. /\ GrantTypes /\ grant'[g] \in GrantRecords /\ grant'[g].status = "revoked"
        /\ grant'[g].parent = grant[g].parent /\ grant'[g].used = grant[g].used /\ grant'[g].reserved = grant[g].reserved
        /\ \A h \in Grants \ {g} : grant'[h] = grant[h]
        /\ GrantTypes'
    <3>1. grant[g] \in GrantRecords /\ GrantTypes
      BY <1>1 DEF DelegationInv, DelegationTypes, GrantTypes
    <3>2. ASSUME NEW r \in GrantRecords, NEW e, e = [r EXCEPT !.status = "revoked"]
          PROVE  e \in GrantRecords /\ e.status = "revoked" /\ e.parent = r.parent /\ e.used = r.used /\ e.reserved = r.reserved
      BY <3>2 DEF GrantRecords
    <3>3. PICK e : e = [grant[g] EXCEPT !.status = "revoked"]
      OBVIOUS
    <3>4. grant' = [grant EXCEPT ![g] = e]
      BY <1>3, <3>3
    <3>. QED  BY <1>1, <3>1, <3>2, <3>3, <3>4 DEF GrantTypes
  <2>3. \A h \in Grants : /\ (grant'[h] = None <=> grant[h] = None)
                          /\ grant[h] # None => /\ grant'[h].parent = grant[h].parent
                                                /\ grant'[h].used = grant[h].used /\ grant'[h].reserved = grant[h].reserved
    BY <1>1, <2>2, DelegationAssumption DEF GrantRecords
  <2>4. \A h \in Grants : (Delegated!Ancestors(h))' = Delegated!Ancestors(h)
    BY <2>2, <2>3, SameAncestors
  <2>5. Onward
    BY <1>1, <2>3 DEF Onward
  <2>6. JobsFit'
    BY <1>3, <2>5, FreeFits, OthersFit
  <2>7. \A q \in Delegates, o \in Operations : Executes(job'[q], o) =>
           q # p /\ Executes(job[q], o) /\ job'[q].at = job[q].at /\ ~job'[q].fresh
    BY <2>1, FreeFits DEF Executes
  <2>8. OneCaller' /\ NotSent'
    BY <1>1, <2>7 DEF DelegationInv, OneCaller, NotSent, Executes, Sent
  <2>9. Halted'
    <3>. SUFFICES ASSUME NEW o \in revoked'
                  PROVE  /\ ~Sent(o)' /\ Withdrawn(o)'
                         /\ \A q \in Delegates : Executes(job'[q], o) => job'[q].at \in {"admitted", "planned"} /\ ~job'[q].fresh
      BY DEF Halted, Executes
    <3>1. o \in Operations /\ Under[o] \in Grants
      BY <1>3, DelegationAssumption DEF DelegationInv, DelegationTypes
    <3>2. Sent(o)' <=> Sent(o)
      BY <1>1 DEF Sent
    <3>3. Delegated!Ancestors(Under[o])' = Delegated!Ancestors(Under[o]) /\ Delegated!Ancestors(Under[o]) \subseteq Grants
      BY <2>2, <2>4, <3>1, Ancestry
    <3>4. Withdrawn(o)' <=> \E h \in Delegated!Ancestors(Under[o]) : grant'[h] # None /\ grant'[h].status = "revoked"
      BY <3>3 DEF Withdrawn
    <3>5. CASE o \in revoked
      <4>1. Withdrawn(o)'
        BY <2>2, <2>3, <3>3, <3>4, <3>5 DEF Withdrawn, DelegationInv, Halted
      <4>. QED  BY <2>7, <3>1, <3>2, <3>5, <4>1 DEF DelegationInv, Halted
    <3>6. CASE o \notin revoked
      <4>1. g \in Delegated!Ancestors(Under[o]) /\ op[o] \in {None, "planned"}
        BY <1>3, <3>6
      <4>2. Withdrawn(o)' /\ ~Sent(o)
        BY <1>1, <2>3, <2>2, <3>1, <3>4, <4>1 DEF DelegationInv, Calls
      <4>3. \A q \in Delegates : Executes(job[q], o) => job[q].at \in {"admitted", "planned"}
        BY <4>1 DEF Executes, Underway, DelegationInv, JobsFit, Lasting
      <4>. QED  BY <2>7, <3>1, <3>2, <4>2, <4>3
    <3>. QED  BY <3>5, <3>6
  <2>10. Calls' /\ Fences' /\ OneOpen'
    BY <1>1 DEF DelegationInv, Calls, Sent, Fences, OneOpen, Delegated!Settled
  <2>11. DelegationTypes'
    BY <1>1, <1>3, <2>1, <2>2 DEF DelegationInv, DelegationTypes
  <2>12. Parents' /\ Granted'
    <3>1. Parents'
      BY <2>3, <2>2 DEF DelegationInv, Parents, GrantTypes, GrantRecords
    <3>2. Granted'
      BY <1>1, <2>3, DelegationAssumption DEF DelegationInv, DelegationTypes, Granted
    <3>. QED  BY <3>1, <3>2
  <2>13. Accounts'
    <3>1. \A h : Direct(h)' = Direct(h)
      BY <1>1 DEF Direct
    <3>2. \A h : Children(h)' = Children(h)
      BY <2>3 DEF Children
    <3>3. \A h : Tickets(h)' = Tickets(h)
      BY <3>2 DEF Tickets
    <3>4. ASSUME NEW h \in Grants, grant[h] # None, grant[h].parent # None
          PROVE  (h \notin Delegated!Ancestors(grant[h].parent))'
      <4>1. PICK q : q = grant[h].parent /\ q = grant'[h].parent
        BY <2>3, <3>4
      <4>2. q \in Grants /\ h \notin Delegated!Ancestors(q)
        BY <2>2, <3>4, <4>1 DEF DelegationInv, Accounts, GrantTypes, GrantRecords
      <4>3. h \notin Delegated!Ancestors(q)'
        BY <2>4, <4>2
      <4>. QED  BY <4>1, <4>3 DEF Delegated!Ancestors, Delegated!Closed
    <3>. QED  BY <2>3, <3>1, <3>3, <3>4 DEF DelegationInv, Accounts
  <2>. QED  BY <2>6, <2>8, <2>9, <2>10, <2>11, <2>12, <2>13 DEF DelegationInv
<1>. QED  BY <1>2, <1>3 DEF Delegated!RevokeGrant

LEMMA AdmitDelegated ==
    ASSUME DelegationInv, NEW p \in Delegates, Delegated!Admit(p)
    PROVE  DelegationInv'
<1>. PICK o : o = job[p].arg
  OBVIOUS
<1>1. /\ job[p] \in Doings /\ job[p].kind = "execute" /\ job[p].at = "asked" /\ o \in Operations
      /\ UNCHANGED <<op, flying, effects, fenced, revoked>>
  BY DEF Delegated!Admit, Delegated!Doing, Delegated!provider, DelegationInv, DelegationTypes, JobsFit, Lasting
<1>2. CASE Delegated!Stop(p) /\ UNCHANGED <<admitted, grant>>
  BY <1>1, <1>2, StopDelegated DEF Data
<1>3. CASE /\ Delegated!Current(p) /\ Delegated!Valid(Under[o]) /\ Delegated!Room(Under[o], 1)
           /\ admitted' = admitted \cup {o}
           /\ grant' = [grant EXCEPT ![Under[o]].used = @ + 1]
           /\ Delegated!Then(p, "admitted") \/ Delegated!Append(p, Delegated!Free)
  <2>. PICK g : g = Under[o]
    OBVIOUS
  <2>1. /\ job[p].fresh /\ o \notin admitted /\ \A r \in admitted : Delegated!Settled(r)
        /\ op[o] = None /\ ~Delegated!Settled(o) /\ ~Sent(o)
    BY <1>1, <1>3, DelegationAssumption DEF Delegated!Current, DelegationInv, JobsFit, Reads, Calls, Delegated!Settled
  <2>2. g \in Grants /\ grant[g] # None /\ grant[g] \in GrantRecords /\ o \notin revoked
    <3>1. g \in Grants /\ g \in Delegated!Ancestors(g)
      BY <1>1, DelegationAssumption, Ancestry DEF DelegationInv, DelegationTypes
    <3>2. \A h \in Delegated!Ancestors(g) : grant[h] # None /\ grant[h].status = "active"
      BY <1>3 DEF Delegated!Valid
    <3>. QED  BY <3>1, <3>2 DEF DelegationInv, DelegationTypes, GrantTypes, Halted, Withdrawn
  <2>3. /\ GrantTypes /\ grant'[g] \in GrantRecords /\ grant'[g].status = grant[g].status
        /\ grant'[g].parent = grant[g].parent /\ grant'[g].used = grant[g].used + 1 /\ grant'[g].reserved = grant[g].reserved
        /\ \A h \in Grants \ {g} : grant'[h] = grant[h]
        /\ GrantTypes'
    <3>1. GrantTypes
      BY DEF DelegationInv, DelegationTypes
    <3>2. ASSUME NEW r \in GrantRecords, NEW e, e = [r EXCEPT !.used = @ + 1]
          PROVE  e \in GrantRecords /\ e.status = r.status /\ e.parent = r.parent /\ e.used = r.used + 1 /\ e.reserved = r.reserved
      BY <3>2 DEF GrantRecords
    <3>3. PICK e : e = [grant[g] EXCEPT !.used = @ + 1]
      OBVIOUS
    <3>4. grant' = [grant EXCEPT ![g] = e]
      BY <1>3, <3>3
    <3>. QED  BY <2>2, <3>1, <3>2, <3>3, <3>4 DEF GrantTypes
  <2>4. \A h \in Grants : /\ (grant'[h] = None <=> grant[h] = None)
                          /\ grant[h] # None => grant'[h].parent = grant[h].parent /\ grant'[h].status = grant[h].status
    BY <2>2, <2>3, DelegationAssumption DEF GrantRecords
  <2>5. \A h \in Grants : (Delegated!Ancestors(h))' = Delegated!Ancestors(h)
    BY <2>3, <2>4, SameAncestors
  <2>6. Onward
    BY <1>1, <1>3, <2>4 DEF Onward
  <2>7. PICK c \in {[job[p] EXCEPT !.at = "admitted", !.fresh = TRUE], Delegated!Free} : Delegated!Append(p, c)
    BY <1>3 DEF Delegated!Then
  <2>8. c \in Doings /\ (c # Delegated!Free => c.kind = "execute" /\ c.arg = o /\ c.at = "admitted")
    <3>1. \A d \in Doings : LET e == [d EXCEPT !.at = "admitted", !.fresh = TRUE]
                            IN  e \in Doings /\ e.kind = d.kind /\ e.arg = d.arg /\ e.at = "admitted"
      BY DEF Doings, Stages
    <3>. QED  BY <1>1, <2>7, <3>1, FreeFits
  <2>9. Lasting(c)' /\ (c.fresh => Reads(c)')
    <3>1. CASE c = Delegated!Free
      BY <3>1, FreeFits
    <3>2. CASE c # Delegated!Free
      <4>1. Lasting(c)'
        BY <1>1, <1>3, <2>8, <3>2 DEF Lasting, Underway
      <4>2. Reads(c)'
        BY <1>1, <2>1, <2>8, <3>2 DEF Reads
      <4>. QED  BY <4>1, <4>2
    <3>. QED  BY <3>1, <3>2
  <2>10. JobsFit'
    BY <2>6, <2>7, <2>8, <2>9, OthersFit
  <2>11. /\ job' \in [Delegates -> Doings] /\ job'[p] = c
         /\ \A q \in Delegates \ {p} :
               /\ job'[q].kind = job[q].kind /\ job'[q].arg = job[q].arg /\ job'[q].at = job[q].at
               /\ ~job'[q].fresh
    BY <2>7, <2>8, Others DEF DelegationInv, DelegationTypes
  <2>12. \A q \in Delegates, r \in Operations : Executes(job'[q], r) =>
            /\ q = p => r = o
            /\ q # p => r # o /\ Executes(job[q], r) /\ job'[q].at = job[q].at /\ ~job'[q].fresh
    <3>1. \A q \in Delegates : ~Executes(job[q], o)
      BY <2>1 DEF Executes, DelegationInv, JobsFit, Lasting
    <3>2. \A r \in Operations : Executes(c, r) => r = o
      BY <2>8, FreeFits DEF Executes
    <3>. QED  BY <2>11, <3>1, <3>2 DEF Executes
  <2>13. OneCaller'
    BY <2>12 DEF DelegationInv, OneCaller, Executes
  <2>14. NotSent'
    BY <1>1, <2>1, <2>12 DEF DelegationInv, NotSent, Executes, Sent
  <2>15. Halted'
    <3>. SUFFICES ASSUME NEW r \in revoked
                  PROVE  /\ ~Sent(r)' /\ Withdrawn(r)'
                         /\ \A q \in Delegates : Executes(job'[q], r) => job'[q].at \in {"admitted", "planned"} /\ ~job'[q].fresh
      BY <1>1 DEF Halted, Executes
    <3>1. r \in Operations /\ r # o /\ Under[r] \in Grants
      BY <2>2, DelegationAssumption DEF DelegationInv, DelegationTypes
    <3>2. Withdrawn(r)'
      <4>1. Delegated!Ancestors(Under[r])' = Delegated!Ancestors(Under[r]) /\ Delegated!Ancestors(Under[r]) \subseteq Grants
        BY <2>3, <2>5, <3>1, Ancestry
      <4>. QED  BY <2>4, <4>1 DEF DelegationInv, Halted, Withdrawn
    <3>. QED  BY <1>1, <2>12, <3>1, <3>2 DEF DelegationInv, Halted, Sent
  <2>16. Calls' /\ Fences' /\ OneOpen'
    BY <1>1, <1>3, <2>1 DEF DelegationInv, Calls, Sent, Fences, OneOpen, Delegated!Settled
  <2>17. DelegationTypes'
    BY <1>1, <1>3, <2>3, <2>11 DEF DelegationInv, DelegationTypes
  <2>18. Parents' /\ Granted'
    <3>1. Parents'
      BY <2>3, <2>4 DEF DelegationInv, Parents, GrantTypes, GrantRecords
    <3>2. Granted'
      BY <1>1, <1>3, <2>2, <2>4, DelegationAssumption DEF DelegationInv, DelegationTypes, Granted
    <3>. QED  BY <3>1, <3>2
  <2>19. Accounts'
    <3>1. \A h \in Grants \ {g} : Direct(h)' = Direct(h)
      BY <1>3 DEF Direct
    <3>2. Direct(g)' = Direct(g) \cup {o} /\ o \notin Direct(g)
      BY <1>3, <2>1 DEF Direct
    <3>3. IsFiniteSet(Direct(g))
      BY FS_Subset, DelegationAssumption DEF Direct, DelegationInv, DelegationTypes
    <3>4. Cardinality(Direct(g)') = Cardinality(Direct(g)) + 1
      <4>1. PICK D, E : D = Direct(g) /\ E = Direct(g)'
        OBVIOUS
      <4>2. E = D \cup {o} /\ o \notin D /\ IsFiniteSet(D)
        BY <3>2, <3>3, <4>1
      <4>3. Cardinality(E) = Cardinality(D) + 1
        BY <4>2, FS_AddElement
      <4>. QED  BY <4>1, <4>3
    <3>5. \A h : Children(h)' = Children(h)
      BY <2>4 DEF Children
    <3>6. \A h : Tickets(h)' = Tickets(h)
      BY <3>5 DEF Tickets
    <3>7. ASSUME NEW h \in Grants, grant[h] # None, grant[h].parent # None
          PROVE  (h \notin Delegated!Ancestors(grant[h].parent))'
      <4>1. PICK q : q = grant[h].parent /\ q = grant'[h].parent
        BY <2>4, <3>7
      <4>2. q \in Grants /\ h \notin Delegated!Ancestors(q)
        BY <2>3, <3>7, <4>1 DEF DelegationInv, Accounts, GrantTypes, GrantRecords
      <4>3. h \notin Delegated!Ancestors(q)'
        BY <2>5, <4>2
      <4>. QED  BY <4>1, <4>3 DEF Delegated!Ancestors, Delegated!Closed
    <3>8. grant[g].used + 1 + grant[g].reserved <= Budgets[g]
      BY <1>3, <2>2, DelegationAssumption DEF Delegated!Room, GrantRecords
    <3>9. \A h \in Grants : grant'[h] # None =>
             /\ grant'[h].used = Cardinality(Direct(h)') /\ grant'[h].reserved = Cardinality(Tickets(h)')
             /\ grant'[h].used + grant'[h].reserved <= Budgets[h]
      BY <2>2, <2>3, <3>1, <3>4, <3>6, <3>8 DEF DelegationInv, Accounts
    <3>. QED  BY <2>4, <3>7, <3>9 DEF Accounts
  <2>. QED  BY <2>10, <2>13, <2>14, <2>15, <2>16, <2>17, <2>18, <2>19 DEF DelegationInv
<1>. QED  BY <1>1, <1>2, <1>3 DEF Delegated!Admit

LEMMA FiniteTickets ==
    ASSUME NEW G \in SUBSET Grants
    PROVE  IsFiniteSet(UNION {{c} \X (1..Budgets[c]) : c \in G})
<1>. DEFINE f == [c \in G |-> {c} \X (1..Budgets[c])]
            T == {{c} \X (1..Budgets[c]) : c \in G}
<1>1. IsFiniteSet(G)
  BY FS_Subset, DelegationAssumption
<1>2. f \in Surjection(G, T)
  BY DEF Surjection
<1>3. IsFiniteSet(T)
  <2>. HIDE DEF f, T
  <2>. QED  BY <1>1, <1>2, FS_Surjection
<1>4. ASSUME NEW c \in G PROVE IsFiniteSet({c} \X (1..Budgets[c]))
  <2>1. PICK n \in Int : n = Budgets[c]
    BY DelegationAssumption
  <2>2. IsFiniteSet(1..n)
    BY FS_Interval
  <2>3. IsFiniteSet({c})
    BY FS_Singleton
  <2>. QED  BY <2>1, <2>2, <2>3, FS_Product
<1>. QED  BY <1>3, <1>4, FS_UNION

(* A child takes as many tickets of its parent as its own budget. *)
LEMMA NewTickets ==
    ASSUME NEW G \in SUBSET Grants, NEW g \in Grants \ G
    PROVE  Cardinality(UNION {{c} \X (1..Budgets[c]) : c \in G \cup {g}}) =
               Cardinality(UNION {{c} \X (1..Budgets[c]) : c \in G}) + Budgets[g]
<1>. DEFINE S == UNION {{c} \X (1..Budgets[c]) : c \in G}
            T == {g} \X (1..Budgets[g])
<1>1. UNION {{c} \X (1..Budgets[c]) : c \in G \cup {g}} = S \cup T
  OBVIOUS
<1>2. IsFiniteSet(S)
  BY FiniteTickets
<1>3. Budgets[g] \in Nat
  BY DelegationAssumption
<1>4. IsFiniteSet(T) /\ Cardinality(T) = Budgets[g]
  <2>1. IsFiniteSet({g}) /\ Cardinality({g}) = 1
    BY FS_Singleton
  <2>2. IsFiniteSet(1..Budgets[g]) /\ Cardinality(1..Budgets[g]) = Budgets[g]
    BY <1>3, FS_Interval, SMTT(15)
  <2>3. IsFiniteSet(T) /\ Cardinality(T) = Cardinality({g}) * Cardinality(1..Budgets[g])
    BY <2>1, <2>2, FS_Product
  <2>. QED  BY <1>3, <2>1, <2>2, <2>3
<1>5. S \cap T = {}
  OBVIOUS
<1>. HIDE DEF S, T
<1>6. Cardinality(S \cup T) = Cardinality(S) + Cardinality(T) - Cardinality(S \cap T)
  BY <1>2, <1>4, FS_Union
<1>7. Cardinality(S \cap T) = 0 /\ Cardinality(S) \in Nat
  BY <1>2, <1>5, FS_EmptySet, FS_CardinalityType
<1>8. Cardinality(S \cup T) = Cardinality(S) + Budgets[g]
  BY <1>3, <1>4, <1>6, <1>7
<1>. QED  BY <1>1, <1>8 DEF S

LEMMA IssueGrantDelegated ==
    ASSUME DelegationInv, NEW p \in Delegates, Delegated!IssueGrant(p)
    PROVE  DelegationInv'
<1>. PICK g, q : g = job[p].arg.grant /\ q = job[p].arg.parent
  OBVIOUS
<1>1. /\ job[p].kind = "issue" /\ job[p].at = "asked" /\ g \in Grants /\ q \in Grants \cup {None}
      /\ UNCHANGED <<admitted, op, flying, effects, fenced, revoked>>
  BY DEF Delegated!IssueGrant, Delegated!Doing, Delegated!provider, DelegationInv, JobsFit, Lasting, Issues
<1>2. CASE Delegated!Stop(p) /\ UNCHANGED grant
  BY <1>1, <1>2, StopDelegated DEF Data
<1>3. CASE /\ Delegated!Current(p) /\ (q # None => Delegated!Room(q, Budgets[g]))
           /\ grant' = [h \in Grants |->
                  IF h = g THEN [parent |-> q, status |-> "active", used |-> 0, reserved |-> 0]
                  ELSE IF h = q THEN [grant[q] EXCEPT !.reserved = @ + Budgets[g]] ELSE grant[h]]
           /\ Delegated!Append(p, Delegated!Free)
  <2>1. grant[g] = None /\ (q # None => q \in Grants /\ grant[q] # None /\ q # g) /\ Budgets[g] \in Nat
    BY <1>1, <1>3, DelegationAssumption DEF Delegated!Current, DelegationInv, JobsFit, Reads
  <2>2. GrantTypes /\ \A h \in Grants : grant[h] # None => grant[h] \in GrantRecords
    BY DEF DelegationInv, DelegationTypes, GrantTypes
  <2>3. /\ grant'[g] \in GrantRecords /\ grant'[g].parent = q /\ grant'[g].status = "active"
        /\ grant'[g].used = 0 /\ grant'[g].reserved = 0
    <3>1. grant'[g] = [parent |-> q, status |-> "active", used |-> 0, reserved |-> 0]
      BY <1>1, <1>3
    <3>. QED  BY <1>1, <3>1 DEF GrantRecords
  <2>4. q # None => /\ grant'[q] \in GrantRecords /\ grant'[q].parent = grant[q].parent /\ grant'[q].status = grant[q].status
                    /\ grant'[q].used = grant[q].used /\ grant'[q].reserved = grant[q].reserved + Budgets[g]
    <3>. SUFFICES ASSUME q # None
                  PROVE  /\ grant'[q] \in GrantRecords /\ grant'[q].parent = grant[q].parent /\ grant'[q].status = grant[q].status
                         /\ grant'[q].used = grant[q].used /\ grant'[q].reserved = grant[q].reserved + Budgets[g]
      OBVIOUS
    <3>1. ASSUME NEW r \in GrantRecords, NEW e, e = [r EXCEPT !.reserved = @ + Budgets[g]]
          PROVE  /\ e \in GrantRecords /\ e.status = r.status /\ e.parent = r.parent
                 /\ e.used = r.used /\ e.reserved = r.reserved + Budgets[g]
      BY <2>1, <3>1 DEF GrantRecords
    <3>2. PICK e : e = [grant[q] EXCEPT !.reserved = @ + Budgets[g]]
      OBVIOUS
    <3>3. grant'[q] = e
      BY <1>3, <2>1, <3>2
    <3>. QED  BY <2>1, <2>2, <3>1, <3>2, <3>3
  <2>5. \A h \in Grants \ {g, q} : grant'[h] = grant[h]
    BY <1>3
  <2>6. GrantTypes'
    <3>1. \A h \in Grants : grant'[h] \in GrantRecords \cup {None}
      BY <2>2, <2>3, <2>4, <2>5, DelegationAssumption DEF GrantTypes
    <3>2. grant' = [h \in Grants |-> grant'[h]]
      BY <1>3
    <3>. QED  BY <3>1, <3>2 DEF GrantTypes
  <2>7. \A h \in Grants \ {g} : /\ (grant'[h] = None <=> grant[h] = None)
                                /\ grant[h] # None => grant'[h].parent = grant[h].parent /\ grant'[h].status = grant[h].status
    BY <2>1, <2>4, <2>5, DelegationAssumption DEF GrantRecords
  <2>8. grant'[g] # None
    BY <2>3, DelegationAssumption DEF GrantRecords
  <2>9. \A h \in Grants \ {g} : (Delegated!Ancestors(h))' = Delegated!Ancestors(h) /\ g \notin Delegated!Ancestors(h)
    BY <1>1, <2>1, <2>2, <2>6, <2>7, NewGrant DEF DelegationInv
  <2>10. Onward
    BY <1>1, <2>7, <2>8 DEF Onward
  <2>11. JobsFit'
    BY <1>3, <2>10, FreeFits, OthersFit
  <2>12. /\ job' \in [Delegates -> Doings] /\ job'[p] = Delegated!Free
         /\ \A r \in Delegates \ {p} :
               /\ job'[r].kind = job[r].kind /\ job'[r].arg = job[r].arg /\ job'[r].at = job[r].at
               /\ ~job'[r].fresh
    BY <1>3, FreeFits, Others DEF DelegationInv, DelegationTypes
  <2>13. \A r \in Delegates, o \in Operations : Executes(job'[r], o) =>
            r # p /\ Executes(job[r], o) /\ job'[r].at = job[r].at /\ ~job'[r].fresh
    BY <2>12, FreeFits DEF Executes
  <2>14. OneCaller' /\ NotSent'
    BY <1>1, <2>13 DEF DelegationInv, OneCaller, NotSent, Executes, Sent
  <2>15. Halted'
    <3>. SUFFICES ASSUME NEW o \in revoked
                  PROVE  /\ ~Sent(o)' /\ Withdrawn(o)'
                         /\ \A r \in Delegates : Executes(job'[r], o) => job'[r].at \in {"admitted", "planned"} /\ ~job'[r].fresh
      BY <1>1 DEF Halted, Executes
    <3>1. o \in Operations /\ Under[o] \in Grants
      BY DelegationAssumption DEF DelegationInv, DelegationTypes
    <3>2. PICK h \in Delegated!Ancestors(Under[o]) : grant[h] # None /\ grant[h].status = "revoked"
      BY DEF DelegationInv, Halted, Withdrawn
    <3>3. Under[o] # g
      BY <1>1, <2>1, <2>2, <3>2, ParentsAncestors
    <3>4. Delegated!Ancestors(Under[o])' = Delegated!Ancestors(Under[o]) /\ h \in Grants /\ h # g
      BY <2>2, <2>9, <3>1, <3>2, <3>3, Ancestry
    <3>5. Withdrawn(o)'
      BY <2>7, <3>2, <3>4 DEF Withdrawn
    <3>. QED  BY <1>1, <2>13, <3>1, <3>5 DEF DelegationInv, Halted, Sent
  <2>16. Calls' /\ Fences' /\ OneOpen'
    BY <1>1 DEF DelegationInv, Calls, Sent, Fences, OneOpen, Delegated!Settled
  <2>17. DelegationTypes'
    BY <1>1, <2>6, <2>12 DEF DelegationInv, DelegationTypes
  <2>18. Parents'
    <3>. SUFFICES ASSUME NEW h \in Grants, grant'[h] # None, grant'[h].parent # None
                  PROVE  grant'[grant'[h].parent] # None
      BY DEF Parents
    <3>1. CASE h = g
      BY <2>1, <2>3, <2>7, <3>1
    <3>2. CASE h # g
      BY <1>1, <2>1, <2>2, <2>7, <2>8, <3>2 DEF DelegationInv, Parents, GrantRecords
    <3>. QED  BY <3>1, <3>2
  <2>19. Granted'
    BY <1>1, <2>7, <2>8, DelegationAssumption DEF DelegationInv, DelegationTypes, Granted
  <2>20. Accounts'
    <3>1. \A h : Direct(h)' = Direct(h)
      BY <1>1 DEF Direct
    <3>2. /\ \A h \in Grants \ {g} : grant[h] # None => grant[h].parent # g
          /\ g \notin Children(q) /\ q # g
      BY <1>1, <2>1, DelegationAssumption DEF DelegationInv, Parents, Children
    <3>3. \A h \in Grants : Children(h)' = IF h = q THEN Children(q) \cup {g} ELSE Children(h)
      BY <1>1, <2>1, <2>3, <2>7, <2>8 DEF Children
    <3>4. \A h \in Grants \ {q} : Tickets(h)' = Tickets(h)
      BY <3>3 DEF Tickets
    <3>5. q # None => Cardinality(Tickets(q)') = Cardinality(Tickets(q)) + Budgets[g]
      <4>. SUFFICES ASSUME q # None
                    PROVE  Cardinality(Tickets(q)') = Cardinality(Tickets(q)) + Budgets[g]
        OBVIOUS
      <4>1. PICK G : G = Children(q)
        OBVIOUS
      <4>2. Children(q)' = G \cup {g} /\ G \in SUBSET Grants /\ g \in Grants \ G
        BY <1>1, <2>1, <3>2, <3>3, <4>1 DEF Children
      <4>3. Tickets(q) = UNION {{c} \X (1..Budgets[c]) : c \in G}
        BY <4>1 DEF Tickets
      <4>4. Tickets(q)' = UNION {{c} \X (1..Budgets[c]) : c \in G \cup {g}}
        BY <4>2 DEF Tickets
      <4>. QED  BY <4>2, <4>3, <4>4, NewTickets
    <3>6. Direct(g) = {} /\ Children(g) = {} /\ Tickets(g) = {}
      <4>1. Direct(g) = {}
        BY <2>1 DEF Direct, DelegationInv, Granted
      <4>2. Children(g) = {}
        BY <2>1, <3>2 DEF Children
      <4>. QED  BY <4>1, <4>2 DEF Tickets
    <3>7. ASSUME NEW h \in Grants, grant'[h] # None
          PROVE  /\ grant'[h].used = Cardinality(Direct(h)') /\ grant'[h].reserved = Cardinality(Tickets(h)')
                 /\ grant'[h].used + grant'[h].reserved <= Budgets[h]
      <4>1. CASE h = g
        <5>1. Direct(g)' = {} /\ Tickets(g)' = {}
          BY <1>1, <3>1, <3>2, <3>4, <3>6
        <5>. QED  BY <2>1, <2>3, <4>1, <5>1, FS_EmptySet
      <4>2. CASE h = q
        <5>1. /\ grant[q] # None /\ q # None
              /\ grant[q].used = Cardinality(Direct(q)) /\ grant[q].reserved = Cardinality(Tickets(q))
          BY <2>1, <4>2, DelegationAssumption DEF DelegationInv, Accounts
        <5>2. grant[q].used + (grant[q].reserved + Budgets[g]) <= Budgets[q]
          BY <1>3, <2>1, <2>2, <5>1, DelegationAssumption DEF Delegated!Room, GrantRecords
        <5>. QED  BY <2>4, <3>1, <3>5, <4>2, <5>1, <5>2
      <4>3. CASE h \notin {g, q}
        BY <2>5, <3>1, <3>4, <3>7, <4>3 DEF DelegationInv, Accounts
      <4>. QED  BY <4>1, <4>2, <4>3
    <3>8. ASSUME NEW h \in Grants, NEW r, grant'[h] # None, r = grant'[h].parent, r # None
          PROVE  h \notin Delegated!Ancestors(r)'
      <4>1. CASE h = g
        BY <2>1, <2>3, <2>9, <3>8, <4>1
      <4>2. CASE h # g
        <5>1. r = grant[h].parent /\ grant[h] # None /\ r \in Grants \ {g}
          BY <2>2, <2>7, <3>2, <3>8, <4>2 DEF GrantRecords
        <5>. QED  BY <2>9, <3>8, <5>1 DEF DelegationInv, Accounts
      <4>. QED  BY <4>1, <4>2
    <3>9. \A h \in Grants : grant'[h] # None /\ grant'[h].parent # None => (h \notin Delegated!Ancestors(grant[h].parent))'
      BY <3>8 DEF Delegated!Ancestors, Delegated!Closed
    <3>. QED  BY <3>7, <3>9 DEF Accounts
  <2>. QED  BY <2>11, <2>14, <2>15, <2>16, <2>17, <2>18, <2>19, <2>20 DEF DelegationInv
<1>. QED  BY <1>1, <1>2, <1>3 DEF Delegated!IssueGrant

LEMMA DelegationInit ==
    ASSUME Delegated!Init
    PROVE  DelegationInv
<1>1. /\ \A g \in Grants : grant[g] = None
      /\ admitted = {} /\ flying = {} /\ fenced = {} /\ revoked = {}
      /\ \A o \in Operations : op[o] = None /\ effects[o] = 0
      /\ \A p \in Delegates : job[p] = Delegated!Free
  BY DEF Delegated!Init
<1>2. DelegationTypes
  BY FreeFits DEF Delegated!Init, DelegationTypes, GrantTypes, Outcomes
<1>3. JobsFit /\ OneCaller /\ NotSent
  BY <1>1, FreeFits DEF JobsFit, OneCaller, NotSent
<1>4. Parents /\ Calls /\ Fences /\ Halted /\ OneOpen /\ Accounts /\ Granted
  BY <1>1, DelegationAssumption DEF Parents, Calls, Sent, Fences, Halted, OneOpen, Accounts, Granted
<1>. QED  BY <1>2, <1>3, <1>4 DEF DelegationInv

LEMMA DelegationStep ==
    ASSUME DelegationInv, [Delegated!Next]_(Delegated!vars)
    PROVE  DelegationInv'
<1>1. CASE UNCHANGED Delegated!vars
  BY <1>1, SameDelegated DEF Delegated!vars, Data
<1>2. ASSUME NEW p \in Delegates, Delegated!ReconcileAdmission(p) PROVE DelegationInv'
  BY <1>2, SameDelegated DEF Delegated!ReconcileAdmission, Delegated!provider, Data
<1>3. ASSUME NEW p \in Delegates, Delegated!End(p) PROVE DelegationInv'
  BY <1>3, StopDelegated DEF Delegated!End, Delegated!provider, Data
<1>4. ASSUME NEW g \in Grants, Delegated!Expire(g) PROVE DelegationInv'
  BY <1>4, SameDelegated DEF Delegated!Expire, Delegated!provider, Data
<1>. QED  BY <1>1, <1>2, <1>3, <1>4, StartsDelegated, IssueGrantDelegated, RevokeGrantDelegated, AdmitDelegated,
             IntendDelegated, DispatchDelegated, DispatchedDelegated, InterruptedDelegated, AskProviderDelegated,
             ReconcileDelegated, StartTakeoverDelegated, TakeoverReconcileDelegated, ResumeDelegated, LandDelegated
          DEF Delegated!Next

DelegationPart == part = "operations" => DelegationInv

LEMMA DelegationPartHolds ==
    /\ AgentFlowInit => DelegationPart
    /\ DelegationPart /\ [AgentFlowNext]_all => DelegationPart'
<1>1. ASSUME AgentFlowInit PROVE DelegationPart
  <2>1. part = "operations" => Delegated!Init
    BY <1>1 DEF AgentFlowInit
  <2>. QED  BY <2>1, DelegationInit DEF DelegationPart
<1>2. ASSUME DelegationPart, [AgentFlowNext]_all PROVE DelegationPart'
  <2>. SUFFICES ASSUME part' = "operations" PROVE DelegationInv'
    BY DEF DelegationPart
  <2>1. part = "operations" /\ [Delegated!Next]_(Delegated!vars)
    BY <1>2 DEF AgentFlowNext, all, delegation, shared, Delegated!vars
  <2>. QED  BY <1>2, <2>1, DelegationStep DEF DelegationPart
<1>. QED  BY <1>1, <1>2

(* DelegationInv always holds of delegated operations: what a process acts *)
(* on is in the log unless another has appended since, one process is on   *)
(* the call of an operation, and what a grant has reserved is the budgets  *)
(* of its children (run-service.mjs, delegation-grant.mjs).                *)
THEOREM DelegationInvHolds == AgentFlowSpec => []DelegationPart
BY DelegationPartHolds, PTL DEF AgentFlowSpec

-----------------------------------------------------------------------------
(* The budgets: by induction along the children, the deepest grants first. *)
LEMMA SmallestSet ==
    ASSUME NEW S, IsFiniteSet(S), NEW T \in SUBSET (SUBSET S), T # {}
    PROVE  \E X \in T : \A Y \in T : Y \subseteq X => Y = X
<1>1. IsWellFoundedOn(StrictSubsetOrdering(S), SUBSET S)
  BY FS_StrictSubsetOrderingWellFounded, FS_FiniteSubsetsOfFinite
<1>2. \E X \in T : \A Y \in T : ~ (<<Y, X>> \in StrictSubsetOrdering(S))
  BY <1>1, WFMin
<1>. QED  BY <1>2 DEF StrictSubsetOrdering

LEMMA Numbered ==
    ASSUME NEW S, IsFiniteSet(S), NEW n \in Nat, Cardinality(S) <= n
    PROVE  \E f \in [S -> 1..n] : \A u, v \in S : f[u] = f[v] => u = v
<1>1. Cardinality(S) \in Nat /\ \E b : b \in Bijection(1..Cardinality(S), S)
  BY FS_CardinalityType DEF ExistsBijection
<1>2. PICK b : b \in Bijection(1..Cardinality(S), S)
  BY <1>1
<1>3. \A u \in S : \E i \in 1..Cardinality(S) : b[i] = u
  BY <1>2 DEF Bijection, Surjection
<1>. DEFINE f == [u \in S |-> CHOOSE i \in 1..Cardinality(S) : b[i] = u]
<1>4. \A u \in S : f[u] \in 1..Cardinality(S) /\ b[f[u]] = u
  BY <1>3
<1>5. f \in [S -> 1..n]
  <2>1. \A u \in S : f[u] \in 1..n
    BY <1>1, <1>4
  <2>. QED  BY <2>1
<1>6. \A u, v \in S : f[u] = f[v] => u = v
  BY <1>4
<1>. HIDE DEF f
<1>. QED  BY <1>5, <1>6

Below(h) == {o \in admitted : h \in Delegated!Ancestors(Under[o])}

(* What is admitted below a grant is its own or below a child. *)
LEMMA BelowAChild ==
    ASSUME DelegationInv, NEW h \in Grants, NEW o \in Below(h)
    PROVE  o \in Direct(h) \/ \E c \in Children(h) : o \in Below(c)
<1>. SUFFICES ASSUME Under[o] # h
              PROVE  \E c \in Children(h) : o \in Below(c)
  BY DEF Direct, Below
<1>. PICK g : g = Under[o]
  OBVIOUS
<1>1. GrantTypes /\ g \in Grants /\ h \in Delegated!Ancestors(g) /\ o \in admitted
  BY DelegationAssumption DEF DelegationInv, DelegationTypes, Below
<1>. DEFINE S == Delegated!Ancestors(g) \ {h}
<1>2. Delegated!Ancestors(g) \subseteq Grants /\ g \in S /\ S \in SUBSET Grants
  BY <1>1, Ancestry
<1>3. ~Delegated!Closed(S)
  BY <1>1, <1>2, Ancestry
<1>4. PICK c \in S : grant[c] # None /\ grant[c].parent \notin S \cup {None}
  BY <1>3 DEF Delegated!Closed
<1>5. grant[c].parent \in Delegated!Ancestors(g) \cup {None}
  BY <1>1, <1>4, Ancestry DEF Delegated!Closed
<1>6. c \in Children(h)
  BY <1>2, <1>4, <1>5 DEF Children
<1>. QED  BY <1>1, <1>2, <1>4, <1>6 DEF Below

LEMMA FitsIfChildrenFit ==
    ASSUME DelegationInv, NEW h \in Grants, grant[h] # None,
           \A c \in Children(h) : Cardinality(Below(c)) <= Budgets[c]
    PROVE  Cardinality(Below(h)) <= Budgets[h]
<1>1. \A c : IsFiniteSet(Below(c))
  BY FS_Subset, DelegationAssumption DEF Below, DelegationInv, DelegationTypes
<1>2. IsFiniteSet(Direct(h)) /\ IsFiniteSet(Tickets(h))
  BY FS_Subset, FiniteTickets, DelegationAssumption DEF Direct, Tickets, Children, DelegationInv, DelegationTypes
<1>. DEFINE Number(c) == {f \in [Below(c) -> 1..Budgets[c]] : \A u, v \in Below(c) : f[u] = f[v] => u = v}
            Rest == Below(h) \ Direct(h)
            via == [o \in Rest |-> CHOOSE c \in Children(h) : o \in Below(c)]
            number == [c \in Children(h) |-> CHOOSE f : f \in Number(c)]
            ticket == [o \in Rest |-> <<via[o], number[via[o]][o]>>]
<1>3. \A c \in Children(h) : Number(c) # {}
  <2>. SUFFICES ASSUME NEW c \in Children(h)
                PROVE  Number(c) # {}
    OBVIOUS
  <2>1. PICK n \in Nat : n = Budgets[c]
    BY DelegationAssumption DEF Children
  <2>2. IsFiniteSet(Below(c)) /\ Cardinality(Below(c)) <= n
    BY <1>1, <2>1
  <2>3. PICK S : S = Below(c)
    OBVIOUS
  <2>4. \E f \in [S -> 1..n] : \A u, v \in S : f[u] = f[v] => u = v
    BY <2>2, <2>3, Numbered
  <2>. QED  BY <2>1, <2>3, <2>4
<1>4. \A c \in Children(h) : number[c] \in Number(c)
  BY <1>3
<1>5. \A o \in Rest : via[o] \in Children(h) /\ o \in Below(via[o])
  BY BelowAChild
<1>. HIDE DEF via, number
<1>6. \A o \in Rest : number[via[o]][o] \in 1..Budgets[via[o]]
  BY <1>4, <1>5
<1>7. \A u, v \in Rest : via[u] = via[v] /\ number[via[u]][u] = number[via[v]][v] => u = v
  BY <1>4, <1>5
<1>8. \A o \in Rest : ticket[o] = <<via[o], number[via[o]][o]>> /\ ticket[o] \in Tickets(h)
  BY <1>5, <1>6 DEF Tickets
<1>9. ticket \in Injection(Rest, Tickets(h))
  <2>1. ticket \in [Rest -> Tickets(h)]
    BY <1>8
  <2>2. \A u, v \in Rest : ticket[u] = ticket[v] => u = v
    BY <1>7, <1>8
  <2>. QED  BY <2>1, <2>2 DEF Injection, IsInjective
<1>. HIDE DEF ticket
<1>10. IsFiniteSet(Rest) /\ Cardinality(Rest) <= Cardinality(Tickets(h))
  BY <1>2, <1>9, FS_Injection
<1>11. Below(h) \subseteq Direct(h) \cup Rest
  OBVIOUS
<1>. HIDE DEF Rest
<1>12. IsFiniteSet(Direct(h) \cup Rest) /\ Cardinality(Direct(h) \cup Rest) <= Cardinality(Direct(h)) + Cardinality(Rest)
  <2>1. PICK D, R : D = Direct(h) /\ R = Rest
    OBVIOUS
  <2>2. /\ IsFiniteSet(D \cup R)
        /\ Cardinality(D \cup R) = Cardinality(D) + Cardinality(R) - Cardinality(D \cap R)
    BY <1>2, <1>10, <2>1, FS_Union
  <2>3. Cardinality(D) \in Nat /\ Cardinality(R) \in Nat
    BY <1>2, <1>10, <2>1, FS_CardinalityType
  <2>4. Cardinality(D \cap R) \in Nat
    BY <1>2, <2>1, FS_Intersection, FS_CardinalityType
  <2>5. Cardinality(D \cup R) <= Cardinality(D) + Cardinality(R)
    BY <2>2, <2>3, <2>4
  <2>. QED  BY <2>1, <2>2, <2>5
<1>13. Cardinality(Below(h)) <= Cardinality(Direct(h) \cup Rest)
  BY <1>11, <1>12, FS_Subset
<1>14. Cardinality(Direct(h)) + Cardinality(Tickets(h)) <= Budgets[h]
  BY DEF DelegationInv, Accounts
<1>15. /\ Cardinality(Below(h)) \in Nat /\ Cardinality(Direct(h)) \in Nat /\ Cardinality(Rest) \in Nat
       /\ Cardinality(Tickets(h)) \in Nat /\ Cardinality(Direct(h) \cup Rest) \in Nat /\ Budgets[h] \in Nat
  BY <1>1, <1>2, <1>10, <1>12, FS_CardinalityType, DelegationAssumption
<1>. QED  BY <1>10, <1>12, <1>13, <1>14, <1>15

LEMMA BudgetsAreKept ==
    ASSUME DelegationInv, NEW g \in Grants, grant[g] # None
    PROVE  Cardinality(Below(g)) <= Budgets[g]
<1>. DEFINE Over == {h \in Grants : grant[h] # None /\ ~(Cardinality(Below(h)) <= Budgets[h])}
            Rest(h) == Grants \ Delegated!Ancestors(h)
<1>. SUFFICES ASSUME Over # {}
              PROVE  FALSE
  OBVIOUS
<1>1. PICK h \in Over : \A r \in Over : Rest(r) \subseteq Rest(h) => Rest(r) = Rest(h)
  <2>. DEFINE T == {Rest(r) : r \in Over}
  <2>1. T \in SUBSET (SUBSET Grants) /\ T # {}
    OBVIOUS
  <2>. HIDE DEF T
  <2>2. PICK X \in T : \A Y \in T : Y \subseteq X => Y = X
    BY <2>1, SmallestSet, DelegationAssumption
  <2>3. PICK h \in Over : X = Rest(h)
    BY DEF T
  <2>4. \A r \in Over : Rest(r) \in T
    BY DEF T
  <2>. HIDE DEF Over, Rest
  <2>5. \A r \in Over : Rest(r) \subseteq Rest(h) => Rest(r) = Rest(h)
    BY <2>2, <2>3, <2>4
  <2>. QED  BY <2>5
<1>2. PICK c \in Children(h) : c \in Over
  BY FitsIfChildrenFit DEF Children
<1>3. c \in Grants /\ grant[c] # None /\ grant[c].parent = h /\ h \in Grants /\ h # None /\ GrantTypes
  BY <1>2, DelegationAssumption DEF Children, DelegationInv, DelegationTypes
<1>4. Delegated!Ancestors(c) = {c} \cup Delegated!Ancestors(h)
  BY <1>3, ParentsAncestors
<1>5. c \notin Delegated!Ancestors(h)
  BY <1>3 DEF DelegationInv, Accounts
<1>6. Rest(c) \subseteq Rest(h) /\ c \in Rest(h) /\ c \notin Rest(c)
  BY <1>3, <1>4, <1>5
<1>. QED  BY <1>1, <1>2, <1>6

LEMMA DelegatedCardinality == \A S : Delegated!Cardinality(S) = Cardinality(S)
BY DEF Delegated!Cardinality, Cardinality

(* However often an operation is asked for and whatever is lost on the way,*)
(* it is carried out at most once and never after the log said it failed;  *)
(* a revoked one is not; and grants keep to their budgets, however deep    *)
(* they derive from one another.                                           *)
THEOREM OperationsCarriedOutOnce == AgentFlowSpec => []CarriedOutOnce
<1>1. ASSUME DelegationInv PROVE Delegated!CarriedOutOnce /\ Delegated!RevokedIsNotCarriedOut
  BY <1>1 DEF DelegationInv, DelegationTypes, Calls, Sent, Fences, Halted, Delegated!CarriedOutOnce, Delegated!RevokedIsNotCarriedOut
<1>2. ASSUME DelegationInv PROVE Delegated!BudgetsHold
  <2>. DEFINE Open == {o \in admitted : ~Delegated!Settled(o)}
  <2>1. IsFiniteSet(Open)
    BY <1>2, FS_Subset, DelegationAssumption DEF DelegationInv, DelegationTypes
  <2>2. Open = {} \/ \E o : Open = {o}
    BY <1>2 DEF DelegationInv, OneOpen
  <2>3. Cardinality(Open) <= 1
    <3>. HIDE DEF Open
    <3>1. Cardinality(Open) = 0 \/ Cardinality(Open) = 1
      BY <2>2, FS_EmptySet, FS_Singleton
    <3>. QED  BY <3>1
  <2>4. \A g \in Grants : grant[g] # None =>
           Cardinality({o \in admitted : g \in Delegated!Ancestors(Under[o])}) <= Budgets[g]
    BY <1>2, BudgetsAreKept DEF Below
  <2>. QED  BY <2>3, <2>4, DelegatedCardinality DEF Delegated!BudgetsHold
<1>3. DelegationPart => CarriedOutOnce
  BY <1>1, <1>2 DEF DelegationPart, CarriedOutOnce
<1>. QED  BY <1>3, DelegationInvHolds, PTL

-----------------------------------------------------------------------------
(* The run store.                                                          *)
Manifests == [segments : Seq(Nat), tail : Nat, snapshot : Nat \cup {None}]
Trees == [legacy : Seq(Logged) \cup {None, Marker}, manifest : Manifests \cup {None},
          segments : Seq(Seq(Logged)), tail : Seq(Logged), snapshot : Seq(Logged)]
BranchJobs == [at : {"idle", "derived", "built", "sent"}, event : Logged \cup {None}, seen : Seq(Logged),
               base : Nat, tree : Trees \cup {None}]
BranchMoves == [writer : Branchers, base : Nat, tree : Trees, event : Logged \cup {None}]

(* A tree that can be read, with every event once.                         *)
Whole(t) ==
    /\ t \in Trees
    /\ t.manifest # None <=> t.legacy = Marker
    /\ t.legacy # <<>>
    /\ Store!Reads(t)
EachOnce(t) ==
    /\ Store!IsFiniteSet(Store!Range(Store!Read(t)))
    /\ Store!Cardinality(Store!Range(Store!Read(t))) = Len(Store!Read(t))

(* What is built on a tree with the history h, for an event or to migrate. *)
Continues(t, e, h) ==
    /\ Whole(t) /\ EachOnce(t)
    /\ e = None => Store!Read(t) = h
    /\ e # None => Store!Read(t) = Append(h, e) /\ e \notin Store!Range(h)

StoreTypes ==
    /\ Whole(tree) /\ EachOnce(tree)
    /\ head \in Nat
    /\ job \in [Branchers -> BranchJobs]
    /\ flying \in SUBSET BranchMoves
    /\ answer \in [Branchers -> {None, "moved", "refused"}]
    /\ told \in [Logged -> {None, "acknowledged", "not-committed"}]

(* As long as the branch is where a commit was built, the commit follows   *)
(* what is on it, and that is what its event was derived from.             *)
Built(w) ==
    LET j == job[w] IN
    /\ j.at = "idle" => j.event = None
    /\ j.at = "derived" => j.event # None
    /\ j.at \in {"built", "sent"} =>
          /\ j.tree \in Trees /\ j.base <= head
          /\ j.base = head => Continues(j.tree, j.event, Store!Read(tree)) /\ (j.event # None => Store!Read(tree) = j.seen)
    /\ answer[w] = "refused" => j.at = "sent" /\ j.base < head

Flown(f) ==
    /\ f.base <= head
    /\ f.base = head => Continues(f.tree, f.event, Store!Read(tree))
    /\ f.event # None /\ job[f.writer].event = f.event =>
          /\ f.base = head => Store!Read(tree) = job[f.writer].seen
          /\ job[f.writer].at \in {"built", "sent"} => f.base <= job[f.writer].base

(* One writer works on an event, until it is told of it or gives it up.    *)
OneAuthor(e) ==
    /\ \A v, w \in Branchers : job[v].event = e /\ job[w].event = e => v = w
    /\ \A w \in Branchers : job[w].event = e =>
          told[e] = None /\ \A f \in flying : f.event = e => f.writer = w

Answered(e) ==
    /\ told[e] = "acknowledged" => e \in Store!Range(Store!Read(tree))
    /\ told[e] = "not-committed" =>
          e \notin Store!Range(Store!Read(tree)) /\ \A f \in flying : f.event = e => f.base # head

StoreInv ==
    /\ StoreTypes
    /\ \A w \in Branchers : Built(w)
    /\ \A f \in flying : Flown(f)
    /\ \A e \in Logged : OneAuthor(e) /\ Answered(e)

LEMMA StoreOperators ==
    /\ \A z : Store!FlattenSeq(z) = FlattenSeq(z)
    /\ \A z : Store!Range(z) = Range(z)
    /\ \A z : Store!Cardinality(z) = Cardinality(z)
    /\ \A z : Store!IsFiniteSet(z) = IsFiniteSet(z)
  BY DEF Store!FlattenSeq, FlattenSeq, Store!Range, Range, Store!Cardinality, Cardinality,
         Store!IsFiniteSet, IsFiniteSet

LEMMA RangeGrows ==
    ASSUME NEW h \in Seq(Logged), NEW e \in Logged
    PROVE  Append(h, e) \in Seq(Logged) /\ Store!Range(Append(h, e)) = Store!Range(h) \cup {e}
<1>1. Append(h, e) = h \o <<e>> /\ <<e>> \in Seq(Logged) /\ Append(h, e) \in Seq(Logged)
  BY AppendIsConcat, AppendProperties
<1>2. Range(h \o <<e>>) = Range(h) \cup Range(<<e>>)
  BY <1>1, RangeConcatenation, ZenonT(30)
<1>3. Range(<<e>>) = {e}
  BY DEF Range
<1> QED  BY <1>1, <1>2, <1>3, StoreOperators

(* What a tree that can be read consists of.                               *)
LEMMA WholeParts ==
    ASSUME NEW t, Whole(t)
    PROVE  /\ t.segments \in Seq(Seq(Logged)) /\ t.tail \in Seq(Logged) /\ t.snapshot \in Seq(Logged)
           /\ Store!Sealed(t) \in Seq(Logged)
           /\ t.manifest # None => Store!Read(t) = Cat(Store!Sealed(t), t.tail)
           /\ t.manifest = None => /\ t.legacy # Marker /\ (t.legacy # None => t.legacy \in Seq(Logged) \ {<<>>})
                                   /\ Store!Read(t) = Store!ReadOld(t)
           /\ Store!Read(t) \in Seq(Logged)
<1>1. t \in Trees
  BY DEF Whole
<1>2. /\ t.segments \in Seq(Seq(Logged)) /\ t.tail \in Seq(Logged) /\ t.snapshot \in Seq(Logged)
      /\ t.legacy \in Seq(Logged) \cup {None, Marker}
  BY <1>1 DEF Trees
<1>3. FlattenSeq(t.segments) \in Lists(Logged)
  BY <1>2, EmptySeq, FlattenAppended
<1>4. Store!Sealed(t) \in Seq(Logged)
  BY <1>3, StoreOperators DEF Store!Sealed, Lists
<1>5. t.manifest # None => Store!Read(t) = Cat(Store!Sealed(t), t.tail)
  BY DEF Store!Read, Cat
<1>6. t.manifest # None => Store!Read(t) \in Seq(Logged)
  <2>1. \A h, k \in Lists(Logged) : Cat(h, k) \in Lists(Logged)
    BY CatFacts
  <2> QED  BY <1>2, <1>4, <1>5, <2>1 DEF Lists
<1>7. t.manifest = None => /\ t.legacy # Marker /\ (t.legacy # None => t.legacy \in Seq(Logged) \ {<<>>})
                           /\ Store!Read(t) = Store!ReadOld(t)
  BY <1>2 DEF Whole, Store!Read, Store!ReadOld
<1>8. t.manifest = None => Store!Read(t) \in Seq(Logged)
  BY <1>7, EmptySeq DEF Store!ReadOld
<1> QED  BY <1>2, <1>4, <1>5, <1>6, <1>7, <1>8

LEMMA ManifestTyped ==
    ASSUME NEW pieces \in Seq(Seq(Logged)), NEW rest \in Seq(Logged), NEW n \in Nat \cup {None}
    PROVE  /\ Store!Manifest(pieces, rest, n) \in Manifests /\ Store!Manifest(pieces, rest, n) # None
           /\ Store!Manifest(pieces, rest, n).segments = [i \in 1 .. Len(pieces) |-> Len(pieces[i])]
           /\ Store!Manifest(pieces, rest, n).tail = Len(rest)
           /\ Store!Manifest(pieces, rest, n).snapshot = n
<1>1. /\ Store!Manifest(pieces, rest, n).segments = [i \in 1 .. Len(pieces) |-> Len(pieces[i])]
      /\ Store!Manifest(pieces, rest, n).tail = Len(rest)
      /\ Store!Manifest(pieces, rest, n).snapshot = n
  BY DEF Store!Manifest
<1>2. Len(pieces) \in Nat /\ Len(rest) \in Nat /\ \A i \in 1 .. Len(pieces) : Len(pieces[i]) \in Nat
  <2>1. Len(pieces) \in Nat /\ \A i \in 1 .. Len(pieces) : pieces[i] \in Seq(Logged)
    BY LenProperties, ElementOfSeq
  <2> QED  BY <2>1, LenProperties
<1>3. [i \in 1 .. Len(pieces) |-> Len(pieces[i])] \in Seq(Nat)
  BY <1>2, IsASeq
<1>4. Store!Manifest(pieces, rest, n) \in Manifests
  BY <1>2, <1>3 DEF Store!Manifest, Manifests
<1>5. None \notin Manifests
  BY StoreAssumption DEF Manifests
<1> QED  BY <1>1, <1>4, <1>5

(* A tree of the second version as its writers build it.                   *)
LEMMA WholeByManifest ==
    ASSUME NEW t, NEW pieces \in Seq(Seq(Logged)), NEW rest \in Seq(Logged), NEW snap \in Seq(Logged), NEW n \in Nat \cup {None},
           t = [legacy |-> Marker, segments |-> pieces, tail |-> rest, snapshot |-> snap,
                manifest |-> Store!Manifest(pieces, rest, n)],
           n = None => pieces = <<>>,
           n # None => n = Len(snap) /\ snap = FlattenSeq(pieces)
    PROVE  Whole(t) /\ Store!Read(t) = Cat(FlattenSeq(pieces), rest)
<1>1. /\ t.legacy = Marker /\ t.segments = pieces /\ t.tail = rest /\ t.snapshot = snap
      /\ t.manifest = Store!Manifest(pieces, rest, n)
  OBVIOUS
<1>2. /\ Store!Manifest(pieces, rest, n) \in Manifests /\ Store!Manifest(pieces, rest, n) # None
      /\ Store!Manifest(pieces, rest, n).segments = [i \in 1 .. Len(pieces) |-> Len(pieces[i])]
      /\ Store!Manifest(pieces, rest, n).tail = Len(rest)
      /\ Store!Manifest(pieces, rest, n).snapshot = n
  BY ManifestTyped
<1>3. t \in Trees
  BY <1>2 DEF Trees
<1>4. Store!Sealed(t) = FlattenSeq(pieces)
  BY <1>1, StoreOperators DEF Store!Sealed
<1>5. Store!Reads(t)
  BY <1>1, <1>2, <1>4 DEF Store!Reads
<1>6. Marker # <<>>
  BY StoreAssumption, EmptySeq
<1>7. Store!Read(t) = Cat(FlattenSeq(pieces), rest)
  BY <1>1, <1>2, <1>4 DEF Store!Read, Cat
<1> QED  BY <1>1, <1>2, <1>3, <1>5, <1>6, <1>7 DEF Whole

LEMMA AppendedReads ==
    ASSUME NEW t, Whole(t), NEW e \in Logged
    PROVE  Whole(Store!Appended(t, e)) /\ Store!Read(Store!Appended(t, e)) = Append(Store!Read(t), e)
<1> DEFINE sealed == IF t.manifest = None THEN <<>> ELSE t.segments
           rest == Append(IF t.manifest = None THEN Store!Read(t) ELSE t.tail, e)
           snap == IF t.manifest = None THEN None ELSE t.manifest.snapshot
<1>0. \A h \in Seq(Logged) : Append(h, e) = Cat(h, <<e>>) /\ Append(h, e) \in Seq(Logged) /\ <<e>> \in Lists(Logged)
  BY AppendIsConcat, AppendProperties DEF Cat, Lists
<1>1. sealed \in Seq(Seq(Logged)) /\ rest \in Seq(Logged)
  BY <1>0, WholeParts, EmptySeq
<1>2. /\ \A h, k, l \in Lists(Logged) : Cat(Cat(h, k), l) = Cat(h, Cat(k, l))
      /\ \A h \in Lists(Logged) : Cat(<<>>, h) = h /\ Cat(h, <<>>) = h
  BY CatFacts
<1>3. Cat(FlattenSeq(sealed), rest) = Append(Store!Read(t), e)
  <2>1. CASE t.manifest = None
    <3>1. FlattenSeq(sealed) = <<>>
      BY <2>1 DEF FlattenSeq
    <3>2. rest = Append(Store!Read(t), e)
      BY <2>1
    <3> QED  BY <1>1, <1>2, <3>1, <3>2 DEF Lists
  <2>2. CASE t.manifest # None
    <3>1. FlattenSeq(sealed) = Store!Sealed(t) /\ rest = Append(t.tail, e)
      BY <2>2, StoreOperators DEF Store!Sealed
    <3>2. Store!Sealed(t) \in Lists(Logged) /\ t.tail \in Lists(Logged) /\ Store!Read(t) \in Seq(Logged)
          /\ Store!Read(t) = Cat(Store!Sealed(t), t.tail)
      BY <2>2, WholeParts DEF Lists
    <3>3. Cat(Store!Sealed(t), Cat(t.tail, <<e>>)) = Cat(Cat(Store!Sealed(t), t.tail), <<e>>)
      <4>1. <<e>> \in Lists(Logged)
        BY <1>0, <3>2
      <4> QED  BY <1>2, <3>2, <4>1
    <3>4. rest = Cat(t.tail, <<e>>) /\ Append(Store!Read(t), e) = Cat(Store!Read(t), <<e>>)
      BY <1>0, <3>1, <3>2 DEF Lists
    <3> QED  BY <3>1, <3>2, <3>3, <3>4
  <2> QED  BY <2>1, <2>2
<1>4. CASE Len(rest) >= SegmentSize
  <2> DEFINE pieces == Append(sealed, rest)
  <2>1. Store!Appended(t, e) = [legacy |-> Marker, segments |-> pieces, tail |-> <<>>, snapshot |-> FlattenSeq(pieces),
                                manifest |-> Store!Manifest(pieces, <<>>, Len(FlattenSeq(pieces)))]
    BY <1>4, StoreOperators DEF Store!Appended
  <2> HIDE DEF sealed, rest
  <2>2. pieces \in Seq(Seq(Logged))
    BY <1>1, AppendProperties
  <2>3. FlattenSeq(pieces) = Cat(FlattenSeq(sealed), rest) /\ FlattenSeq(pieces) \in Seq(Logged)
    <3>1. FlattenSeq(pieces) = Cat(FlattenSeq(sealed), rest)
      BY <1>1, FlattenAppended
    <3>2. FlattenSeq(pieces) \in Lists(Logged)
      BY <2>2, EmptySeq, FlattenAppended
    <3> QED  BY <3>1, <3>2 DEF Lists
  <2> HIDE DEF pieces
  <2>4. Len(FlattenSeq(pieces)) \in Nat /\ Len(FlattenSeq(pieces)) # None /\ <<>> \in Seq(Logged)
    BY <2>3, LenProperties, StoreAssumption, EmptySeq
  <2>5. Whole(Store!Appended(t, e)) /\ Store!Read(Store!Appended(t, e)) = Cat(FlattenSeq(pieces), <<>>)
    BY <2>1, <2>2, <2>3, <2>4, WholeByManifest
  <2> QED  BY <1>2, <1>3, <2>3, <2>5 DEF Lists
<1>5. CASE ~ (Len(rest) >= SegmentSize)
  <2>1. Store!Appended(t, e) = [legacy |-> Marker, segments |-> sealed, tail |-> rest, snapshot |-> t.snapshot,
                                manifest |-> Store!Manifest(sealed, rest, snap)]
    BY <1>5 DEF Store!Appended
  <2>2. t.snapshot \in Seq(Logged) /\ snap \in Nat \cup {None}
    <3>1. t.manifest # None => t.manifest \in Manifests
      BY DEF Whole, Trees
    <3> QED  BY <3>1, WholeParts DEF Manifests
  <2>3. /\ snap = None => sealed = <<>>
        /\ snap # None => snap = Len(t.snapshot) /\ t.snapshot = FlattenSeq(sealed)
    BY StoreOperators DEF Whole, Store!Reads, Store!Sealed
  <2>4. Whole(Store!Appended(t, e)) /\ Store!Read(Store!Appended(t, e)) = Cat(FlattenSeq(sealed), rest)
    <3> HIDE DEF sealed, rest, snap
    <3> QED  BY <1>1, <2>1, <2>2, <2>3, WholeByManifest
  <2> QED  BY <1>3, <2>4
<1> QED  BY <1>4, <1>5

LEMMA AppendedOldReads ==
    ASSUME NEW t, Whole(t), t.manifest = None, NEW e \in Logged
    PROVE  Whole(Store!AppendedOld(t, e)) /\ Store!Read(Store!AppendedOld(t, e)) = Append(Store!Read(t), e)
<1>1. Store!Read(t) = Store!ReadOld(t) /\ Store!Read(t) \in Seq(Logged)
  BY WholeParts
<1>2. Append(Store!Read(t), e) \in Seq(Logged) /\ Append(Store!Read(t), e) # <<>>
  BY <1>1, AppendProperties
<1> DEFINE r == Store!AppendedOld(t, e)
<1>3. t \in Trees
  BY DEF Whole
<1>4. r = [t EXCEPT !.legacy = Append(Store!Read(t), e)]
  BY <1>1 DEF Store!AppendedOld
<1>5. r \in Trees /\ r.legacy = Append(Store!Read(t), e) /\ r.manifest = None
  BY <1>2, <1>3, <1>4 DEF Trees
<1>6. r.legacy # Marker /\ r.legacy # None
  BY <1>2, <1>5, StoreAssumption
<1>7. Whole(r)
  <2> HIDE DEF r
  <2> QED  BY <1>2, <1>5, <1>6 DEF Whole, Store!Reads
<1>8. Store!Read(r) = Append(Store!Read(t), e)
  <2>1. r.manifest = None /\ r.legacy # None
    BY <1>5, <1>6
  <2>2. Store!Read(r) = r.legacy
    <3> HIDE DEF r
    <3> QED  BY <2>1 DEF Store!Read
  <2> QED  BY <1>5, <2>2
<1> QED  BY <1>7, <1>8

(* Cutting a legacy file into segments.                                    *)
LEMMA Quotient ==
    ASSUME NEW m \in Nat, NEW n \in Nat \ {0}
    PROVE  m \div n \in Nat /\ (m \div n) * n <= m /\ m < (m \div n + 1) * n
  OBVIOUS

LEMMA ProductGrows ==
    ASSUME NEW m \in Nat, NEW k \in Nat, m <= k, NEW n \in Nat
    PROVE  m * n \in Nat /\ m * n <= k * n
  OBVIOUS

LEMMA ChunksJoin ==
    ASSUME NEW h \in Seq(Logged) \ {<<>>}
    PROVE  Store!Chunks(h) \in Seq(Seq(Logged)) /\ FlattenSeq(Store!Chunks(h)) = h
<1> DEFINE n == (Len(h) + SegmentSize - 1) \div SegmentSize
           end == [i \in 0 .. n |-> IF i * SegmentSize < Len(h) THEN i * SegmentSize ELSE Len(h)]
<1>1. SegmentSize \in Nat \ {0} /\ Len(h) \in Nat \ {0} /\ Len(h) + SegmentSize - 1 \in Nat
  <2>1. SegmentSize \in Nat \ {0} /\ Len(h) \in Nat \ {0}
    BY StoreAssumption, LenProperties, EmptySeq
  <2> QED  BY <2>1
<1>2. n \in Nat /\ n * SegmentSize <= Len(h) + SegmentSize - 1 /\ Len(h) + SegmentSize - 1 < (n + 1) * SegmentSize
  BY <1>1, Quotient
<1> HIDE DEF n
<1>3. n \in Nat \ {0} /\ Len(h) <= n * SegmentSize /\ (n - 1) * SegmentSize < Len(h)
  <2>1. (n + 1) * SegmentSize = n * SegmentSize + SegmentSize /\ (n - 1) * SegmentSize = n * SegmentSize - SegmentSize
    BY <1>1, <1>2
  <2>2. n * SegmentSize \in Nat
    BY <1>1, <1>2, ProductGrows
  <2>3. n # 0
    BY <1>1, <1>2, <2>1, <2>2
  <2> QED  BY <1>1, <1>2, <2>1, <2>2, <2>3
<1>4. \A i \in 0 .. n : i * SegmentSize \in Nat
  <2> SUFFICES ASSUME NEW i \in 0 .. n PROVE i * SegmentSize \in Nat
    OBVIOUS
  <2> QED  BY <1>1, <1>2, ProductGrows
<1>5. \A i \in 1 .. n : /\ i - 1 \in 0 .. n /\ i \in 0 .. n /\ (i - 1) * SegmentSize < Len(h)
                        /\ (i - 1) * SegmentSize <= i * SegmentSize
  <2> SUFFICES ASSUME NEW i \in 1 .. n
               PROVE  /\ i - 1 \in 0 .. n /\ i \in 0 .. n /\ (i - 1) * SegmentSize < Len(h)
                      /\ (i - 1) * SegmentSize <= i * SegmentSize
    OBVIOUS
  <2>1. i - 1 \in Nat /\ i \in Nat /\ n - 1 \in Nat /\ i - 1 <= n - 1 /\ i - 1 <= i /\ SegmentSize \in Nat
    BY <1>1, <1>3
  <2>2. (i - 1) * SegmentSize <= (n - 1) * SegmentSize /\ (i - 1) * SegmentSize <= i * SegmentSize
    BY <2>1, ProductGrows
  <2>3. (i - 1) * SegmentSize \in Nat /\ (n - 1) * SegmentSize \in Nat
    BY <2>1, ProductGrows
  <2> QED  BY <1>1, <1>3, <2>2, <2>3
<1>6. end \in [0 .. n -> 0 .. Len(h)]
  BY <1>1, <1>4
<1>7. end[0] = 0 /\ end[n] = Len(h)
  <2>1. 0 \in 0 .. n /\ n \in 0 .. n /\ 0 * SegmentSize = 0
    BY <1>1, <1>2
  <2> QED  BY <1>1, <1>3, <1>4, <2>1
<1>8. \A i \in 1 .. n : end[i - 1] <= end[i] /\ end[i - 1] = (i - 1) * SegmentSize
  BY <1>1, <1>4, <1>5
<1>9. Store!Chunks(h) = [i \in 1 .. n |-> SubSeq(h, end[i - 1] + 1, end[i])]
  <2>1. \A i \in 1 .. n : end[i] = (IF i * SegmentSize < Len(h) THEN i * SegmentSize ELSE Len(h))
    BY <1>5
  <2>2. \A i \in 1 .. n : SubSeq(h, (i - 1) * SegmentSize + 1, IF i * SegmentSize < Len(h) THEN i * SegmentSize ELSE Len(h))
                          = SubSeq(h, end[i - 1] + 1, end[i])
    <3> HIDE DEF end
    <3> QED  BY <1>8, <2>1
  <2>3. Store!Chunks(h) = [i \in 1 .. n |-> SubSeq(h, (i - 1) * SegmentSize + 1,
                              IF i * SegmentSize < Len(h) THEN i * SegmentSize ELSE Len(h))]
    BY DEF Store!Chunks, n
  <2> HIDE DEF end
  <2> QED  BY <2>2, <2>3
<1> HIDE DEF end
<1>10. \A i \in 1 .. n : SubSeq(h, end[i - 1] + 1, end[i]) \in Seq(Logged)
  <2> SUFFICES ASSUME NEW i \in 1 .. n PROVE SubSeq(h, end[i - 1] + 1, end[i]) \in Seq(Logged)
    OBVIOUS
  <2>1. end[i - 1] \in 0 .. Len(h) /\ end[i] \in 0 .. Len(h)
    BY <1>5, <1>6
  <2>2. end[i - 1] + 1 \in 1 .. Len(h) + 1 /\ end[i] \in 0 .. Len(h)
    BY <1>1, <2>1
  <2> QED  BY <2>2, SubSeqProperties
<1>11. Store!Chunks(h) \in [1 .. n -> Seq(Logged)]
  BY <1>9, <1>10
<1>12. Store!Chunks(h) \in Parts(Logged, n)
  BY <1>11 DEF Parts, Lists
<1>13. FlattenSeq(Store!Chunks(h)) = h
  <2>1. \A i \in 1 .. n : Store!Chunks(h)[i] = SubSeq(h, end[i - 1] + 1, end[i])
    BY <1>9
  <2>2. \A i \in 1 .. n : end[i - 1] <= end[i]
    BY <1>8
  <2>3. h \in Seq(Logged) /\ n \in Nat \ {0} /\ end \in [0 .. n -> 0 .. Len(h)]
    BY <1>3, <1>6
  <2> DEFINE parts == Store!Chunks(h)
  <2>4. parts \in Parts(Logged, n) /\ \A i \in 1 .. n : parts[i] = SubSeq(h, end[i - 1] + 1, end[i])
    BY <1>12, <2>1
  <2> HIDE DEF parts
  <2>5. CutAt(Logged, h, n, end, parts)
    BY <1>7, <2>2, <2>3, <2>4 DEF CutAt
  <2>6. FlattenSeq(parts) = h
    BY <2>5, FlattenCut
  <2> QED  BY <2>6 DEF parts
<1>14. Store!Chunks(h) \in Seq(Seq(Logged))
  BY <1>3, <1>11, SeqDef
<1> QED  BY <1>13, <1>14

LEMMA MigratedReads ==
    ASSUME NEW t, Whole(t), t.legacy \notin {None, Marker}
    PROVE  Whole(Store!Migrated(t)) /\ Store!Read(Store!Migrated(t)) = Store!Read(t)
<1>1. t.manifest = None /\ t.legacy \in Seq(Logged) \ {<<>>} /\ Store!Read(t) = t.legacy
  <2>1. t.manifest = None
    BY DEF Whole
  <2> QED  BY <2>1, WholeParts DEF Store!ReadOld
<1> DEFINE pieces == Store!Chunks(t.legacy)
<1>2. pieces \in Seq(Seq(Logged)) /\ FlattenSeq(pieces) = t.legacy
  BY <1>1, ChunksJoin
<1>3. Store!Migrated(t) = [legacy |-> Marker, segments |-> pieces, tail |-> <<>>, snapshot |-> t.legacy,
                           manifest |-> Store!Manifest(pieces, <<>>, Len(t.legacy))]
  BY DEF Store!Migrated
<1>4. Len(t.legacy) \in Nat /\ Len(t.legacy) # None /\ <<>> \in Seq(Logged)
  BY <1>1, LenProperties, StoreAssumption, EmptySeq
<1>5. Whole(Store!Migrated(t)) /\ Store!Read(Store!Migrated(t)) = Cat(FlattenSeq(pieces), <<>>)
  <2> DEFINE r == Store!Migrated(t)
             old == t.legacy
             n == Len(t.legacy)
  <2>1. r = [legacy |-> Marker, segments |-> pieces, tail |-> <<>>, snapshot |-> old,
             manifest |-> Store!Manifest(pieces, <<>>, n)]
    BY <1>3
  <2>2. old \in Seq(Logged) /\ n \in Nat /\ n # None /\ n = Len(old) /\ old = FlattenSeq(pieces)
    BY <1>1, <1>2, <1>4
  <2> HIDE DEF pieces, r, old, n
  <2>3. Whole(r) /\ Store!Read(r) = Cat(FlattenSeq(pieces), <<>>)
    BY <1>2, <1>4, <2>1, <2>2, WholeByManifest
  <2> QED  BY <2>3 DEF r
<1>6. Cat(FlattenSeq(pieces), <<>>) = Store!Read(t)
  <2>1. t.legacy \in Lists(Logged)
    BY <1>1 DEF Lists
  <2> HIDE DEF pieces
  <2> QED  BY <1>1, <1>2, <2>1, CatFacts
<1> QED  BY <1>5, <1>6

-----------------------------------------------------------------------------
(* Commits that are built on what is there.                                *)
LEMMA OnceMore ==
    ASSUME NEW t, Whole(t), EachOnce(t), NEW u, Whole(u), NEW e \in Logged, Store!Read(u) = Append(Store!Read(t), e),
           e \notin Store!Range(Store!Read(t))
    PROVE  EachOnce(u)
<1>1. /\ Store!Range(Store!Read(u)) = Store!Range(Store!Read(t)) \cup {e}
      /\ Len(Store!Read(u)) = Len(Store!Read(t)) + 1
  BY WholeParts, RangeGrows, AppendProperties
<1>2. /\ IsFiniteSet(Store!Range(Store!Read(t)))
      /\ Cardinality(Store!Range(Store!Read(t))) = Len(Store!Read(t))
  BY StoreOperators DEF EachOnce
<1>3. /\ IsFiniteSet(Store!Range(Store!Read(u)))
      /\ Cardinality(Store!Range(Store!Read(u))) = Len(Store!Read(u))
  BY <1>1, <1>2, FS_AddElement
<1> QED  BY <1>3, StoreOperators DEF EachOnce

LEMMA AppendFollows ==
    ASSUME NEW t, Whole(t), EachOnce(t), NEW e \in Logged, e \notin Store!Range(Store!Read(t))
    PROVE  /\ Continues(Store!Appended(t, e), e, Store!Read(t))
           /\ t.manifest = None => Continues(Store!AppendedOld(t, e), e, Store!Read(t))
<1>1. e # None
  BY StoreAssumption
<1> QED  BY <1>1, AppendedReads, AppendedOldReads, OnceMore DEF Continues

LEMMA MigrationFollows ==
    ASSUME NEW t, Whole(t), EachOnce(t), t.legacy \notin {None, Marker}
    PROVE  Continues(Store!Migrated(t), None, Store!Read(t))
  BY MigratedReads DEF Continues, EachOnce

(* Writers of both versions read the same from what they can read.         *)
LEMMA ReadAlike ==
    ASSUME NEW t, Whole(t), NEW w \in Branchers, Store!CanRead(w, t)
    PROVE  Store!ReadBy(w, t) = Store!Read(t) /\ (w \in FirstVersion => t.manifest = None)
<1>1. w \in FirstVersion => t.manifest = None
  BY DEF Store!CanRead, Store!ReadsOld, Whole
<1> QED  BY <1>1, WholeParts DEF Store!ReadBy

-----------------------------------------------------------------------------
(* The steps that leave the branch and what is on its way alone: a writer  *)
(* goes on to what j says, and may be told of the event it gives up.       *)
GoesOn(w, j) ==
    /\ job' = [job EXCEPT ![w] = j]
    /\ answer' \in {answer, [answer EXCEPT ![w] = None]}
    /\ UNCHANGED <<tree, head, other, flying>>

MayAuthor(w, e) ==
    \/ e = None
    \/ e = job[w].event
    \/ /\ e \in Logged /\ told[e] = None
       /\ \A v \in Branchers : job[v].event # e
       /\ \A f \in flying : f.event # e

MayGoOn(w, j) ==
    /\ j.at = "idle" => j.event = None
    /\ j.at = "derived" => j.event # None
    /\ j.at = "built" =>
          /\ j.tree \in Trees /\ j.base = head
          /\ Continues(j.tree, j.event, Store!Read(tree)) /\ (j.event # None => Store!Read(tree) = j.seen)
    /\ j.at # "sent"
    /\ MayAuthor(w, j.event)
    /\ j.event # None /\ j.event = job[w].event => j.seen = job[w].seen
    /\ answer'[w] # "refused"

LEMMA GoesOnKeeps ==
    ASSUME StoreInv, NEW w \in Branchers, NEW j \in BranchJobs, GoesOn(w, j), MayGoOn(w, j),
           told' = told \/ \E e \in Logged :
                                /\ e = job[w].event /\ j.event = None
                                /\ told' \in {[told EXCEPT ![e] = "acknowledged"], [told EXCEPT ![e] = "not-committed"]}
                                /\ Answered(e)'
    PROVE  StoreInv'
<1>0. /\ tree' = tree /\ head' = head /\ flying' = flying /\ job \in [Branchers -> BranchJobs]
      /\ job'[w] = j /\ \A v \in Branchers : v # w => job'[v] = job[v]
      /\ answer'[w] # "refused" /\ \A v \in Branchers : v # w => answer'[v] = answer[v]
  BY DEF StoreInv, StoreTypes, GoesOn, MayGoOn
<1>1. StoreTypes'
  <2>1. job' \in [Branchers -> BranchJobs] /\ answer' \in [Branchers -> {None, "moved", "refused"}]
    BY DEF StoreInv, StoreTypes, GoesOn
  <2>2. told' \in [Logged -> {None, "acknowledged", "not-committed"}]
    BY DEF StoreInv, StoreTypes
  <2> QED  BY <1>0, <2>1, <2>2 DEF StoreInv, StoreTypes
<1>2. ASSUME NEW v \in Branchers PROVE Built(v)'
  <2>1. CASE v = w
    <3>1. j.at \in {"idle", "derived", "built", "sent"} /\ head \in Nat
      BY DEF BranchJobs, StoreInv, StoreTypes
    <3> QED  BY <1>0, <2>1, <3>1 DEF Built, MayGoOn
  <2>2. CASE v # w
    <3>1. Built(v)
      BY DEF StoreInv
    <3> QED  BY <1>0, <2>2, <3>1 DEF Built
  <2> QED  BY <2>1, <2>2
<1>3. ASSUME NEW f \in flying' PROVE Flown(f)'
  <2>1. f \in flying /\ Flown(f) /\ f \in BranchMoves
    BY <1>0, <1>3 DEF StoreInv, StoreTypes
  <2>2. f.writer \in Branchers /\ f.base \in Nat /\ f.base <= head /\ head \in Nat
    BY <2>1 DEF BranchMoves, Flown, StoreInv, StoreTypes
  <2>3. CASE f.writer # w
    BY <1>0, <2>1, <2>2, <2>3 DEF Flown
  <2>4. CASE f.writer = w
    <3>1. f.event # None /\ j.event = f.event => job[w].event = f.event
      BY <2>1, <2>4 DEF MayGoOn, MayAuthor
    <3>2. j.at \in {"built", "sent"} => j.base = head
      BY DEF MayGoOn
    <3> QED  BY <1>0, <2>1, <2>2, <2>4, <3>1, <3>2 DEF Flown, MayGoOn
  <2> QED  BY <2>3, <2>4
<1>4. ASSUME NEW e \in Logged PROVE OneAuthor(e)'
  <2>1. OneAuthor(e) /\ e # None /\ job[w].event \in Logged \cup {None}
    BY <1>0, StoreAssumption DEF StoreInv, BranchJobs
  <2>2. \A v \in Branchers : job'[v].event = e => job[v].event = e \/ (v = w /\ j.event = e)
    BY <1>0
  <2>3. CASE j.event = e /\ job[w].event # e
    <3>1. told[e] = None /\ (\A v \in Branchers : job[v].event # e) /\ \A f \in flying : f.event # e
      BY <2>1, <2>3 DEF MayGoOn, MayAuthor
    <3>2. told' = told
      BY <2>1, <2>3
    <3> QED  BY <1>0, <3>1, <3>2 DEF OneAuthor
  <2>4. CASE j.event = e /\ job[w].event = e
    <3>1. told' = told
      BY <2>1, <2>4
    <3> QED  BY <1>0, <2>1, <2>4, <3>1 DEF OneAuthor
  <2>5. CASE j.event # e /\ job[w].event = e
    <3>1. \A v \in Branchers : job'[v].event # e
      BY <1>0, <2>1, <2>5 DEF OneAuthor
    <3> QED  BY <3>1 DEF OneAuthor
  <2>6. CASE j.event # e /\ job[w].event # e
    <3>1. told'[e] = told[e]
      BY <2>6 DEF StoreInv, StoreTypes
    <3> QED  BY <1>0, <2>1, <2>6, <3>1 DEF OneAuthor
  <2> QED  BY <2>3, <2>4, <2>5, <2>6
<1>5. ASSUME NEW e \in Logged PROVE Answered(e)'
  <2>1. Answered(e)
    BY DEF StoreInv
  <2>2. CASE told'[e] = told[e]
    BY <1>0, <2>1, <2>2 DEF Answered
  <2>3. CASE told'[e] # told[e]
    <3>1. PICK o \in Logged : Answered(o)' /\ told' \in {[told EXCEPT ![o] = "acknowledged"], [told EXCEPT ![o] = "not-committed"]}
      BY <2>3
    <3>2. e = o
      BY <2>3, <3>1 DEF StoreInv, StoreTypes
    <3> QED  BY <3>1, <3>2
  <2> QED  BY <2>2, <2>3
<1> QED  BY <1>1, <1>2, <1>3, <1>4, <1>5 DEF StoreInv

LEMMA StoreParts ==
    ASSUME StoreInv, NEW w \in Branchers
    PROVE  /\ Whole(tree) /\ EachOnce(tree) /\ head \in Nat
           /\ job[w] \in BranchJobs /\ Built(w)
           /\ job[w].at \in {"idle", "derived", "built", "sent"} /\ job[w].event \in Logged \cup {None}
           /\ job[w].seen \in Seq(Logged) /\ job[w].base \in Nat /\ job[w].tree \in Trees \cup {None}
           /\ Store!Free \in BranchJobs
           /\ Store!Free.at = "idle" /\ Store!Free.event = None
           /\ answer[w] = "refused" => job[w].at = "sent"
  BY EmptySeq DEF StoreInv, StoreTypes, BranchJobs, Built, Store!Free

(* A writer that lets go of its event, told of it or not.                  *)
LEMMA LetsGo ==
    ASSUME StoreInv, NEW w \in Branchers, GoesOn(w, Store!Free), answer'[w] # "refused",
           told' = told \/ \E e \in Logged :
                                /\ e = job[w].event
                                /\ told' \in {[told EXCEPT ![e] = "acknowledged"], [told EXCEPT ![e] = "not-committed"]}
                                /\ Answered(e)'
    PROVE  StoreInv'
<1>1. Store!Free \in BranchJobs /\ Store!Free.at = "idle" /\ Store!Free.event = None
  BY StoreParts
<1>2. MayGoOn(w, Store!Free)
  BY <1>1 DEF MayGoOn, MayAuthor
<1> QED  BY <1>1, <1>2, GoesOnKeeps

LEMMA DeriveKeeps ==
    ASSUME StoreInv, NEW w \in Branchers, NEW e \in Logged, Store!Derive(w, e)
    PROVE  StoreInv'
<1> DEFINE j == [Store!Free EXCEPT !.at = "derived", !.event = e, !.seen = Store!ReadBy(w, tree)]
<1>1. Whole(tree) /\ job[w] \in BranchJobs /\ answer[w] # "refused" /\ job[w].at = "idle"
  BY StoreParts DEF Store!Derive
<1>2. Store!ReadBy(w, tree) \in Seq(Logged)
  BY <1>1, ReadAlike, WholeParts DEF Store!Derive
<1>3. /\ j.at = "derived" /\ j.event = e /\ j.seen = Store!ReadBy(w, tree)
      /\ j \in BranchJobs /\ e # None
  BY <1>2, StoreAssumption DEF Store!Free, BranchJobs
<1>4. GoesOn(w, j)
  BY DEF Store!Derive, GoesOn
<1>5. MayGoOn(w, j)
  <2>1. told[e] = None /\ (\A v \in Branchers : job[v].event # e) /\ \A f \in flying : f.event # e
    BY DEF Store!Derive
  <2>2. answer'[w] # "refused"
    BY <1>1 DEF Store!Derive
  <2> HIDE DEF j
  <2> QED  BY <1>3, <2>1, <2>2 DEF MayGoOn, MayAuthor
<1>6. told' = told
  BY DEF Store!Derive
<1> HIDE DEF j
<1> QED  BY <1>3, <1>4, <1>5, <1>6, GoesOnKeeps

LEMMA StartAppendKeeps ==
    ASSUME StoreInv, NEW w \in Branchers, Store!StartAppend(w)
    PROVE  StoreInv'
<1>0. PICK e \in Logged : e = job[w].event
  BY StoreParts, StoreAssumption DEF Store!StartAppend, Built
<1> DEFINE now == Store!ReadBy(w, tree)
           built == IF w \in FirstVersion THEN Store!AppendedOld(tree, e) ELSE Store!Appended(tree, e)
           j == [job[w] EXCEPT !.at = "built", !.base = head, !.tree = built]
<1>1. /\ Whole(tree) /\ EachOnce(tree) /\ head \in Nat /\ job[w] \in BranchJobs /\ answer[w] # "refused"
      /\ job[w].at = "derived" /\ e # None
  BY <1>0, StoreParts, StoreAssumption DEF Store!StartAppend, Built
<1>2. /\ UNCHANGED <<tree, head, other, flying>> /\ answer' = answer
  BY DEF Store!StartAppend
<1>3. CASE job' = [job EXCEPT ![w] = Store!Free] /\ told' = told
  BY <1>1, <1>2, <1>3, LetsGo DEF GoesOn
<1>4. CASE /\ Store!CanRead(w, tree) /\ e \in Store!Range(now)
           /\ job' = [job EXCEPT ![w] = Store!Free] /\ told' = [told EXCEPT ![e] = "acknowledged"]
  <2>1. told'[e] = "acknowledged"
    BY <1>1, <1>4 DEF StoreInv, StoreTypes
  <2>2. Answered(e)'
    BY <1>1, <1>2, <1>4, <2>1, ReadAlike DEF Answered
  <2>3. GoesOn(w, Store!Free)
    BY <1>2, <1>4 DEF GoesOn
  <2> QED  BY <1>0, <1>1, <1>2, <1>4, <2>2, <2>3, LetsGo
<1>5. CASE /\ Store!CanRead(w, tree) /\ e \notin Store!Range(now) /\ now # job[w].seen
           /\ job' = [job EXCEPT ![w] = Store!Free] /\ told' = [told EXCEPT ![e] = "not-committed"]
  <2>1. told'[e] = "not-committed"
    BY <1>1, <1>5 DEF StoreInv, StoreTypes
  <2>2. now = Store!Read(tree)
    BY <1>1, <1>5, ReadAlike
  <2>3. ASSUME NEW f \in flying, f.event = e PROVE f.base # head
    <3>1. f.writer = w /\ Flown(f)
      BY <1>0, <1>1, <2>3 DEF StoreInv, OneAuthor
    <3> QED  BY <1>0, <1>1, <1>5, <2>2, <2>3, <3>1 DEF Flown
  <2>4. Answered(e)'
    BY <1>1, <1>2, <1>5, <2>1, <2>2, <2>3 DEF Answered
  <2>5. GoesOn(w, Store!Free)
    BY <1>2, <1>5 DEF GoesOn
  <2> QED  BY <1>0, <1>1, <1>2, <1>5, <2>4, <2>5, LetsGo
<1>6. CASE /\ Store!CanRead(w, tree) /\ e \notin Store!Range(now) /\ now = job[w].seen
           /\ job' = [job EXCEPT ![w] = j] /\ told' = told
  <2>1. now = Store!Read(tree) /\ (w \in FirstVersion => tree.manifest = None)
    BY <1>1, <1>6, ReadAlike
  <2>2. Continues(built, e, Store!Read(tree))
    BY <1>1, <1>6, <2>1, AppendFollows
  <2>3. built \in Trees
    BY <2>2 DEF Continues, Whole
  <2> HIDE DEF built
  <2>4. /\ j.at = "built" /\ j.event = e /\ j.seen = job[w].seen /\ j.base = head /\ j.tree = built
        /\ j \in BranchJobs
    BY <1>0, <1>1, <2>3 DEF BranchJobs
  <2> HIDE DEF j
  <2>5. MayGoOn(w, j)
    BY <1>0, <1>1, <1>2, <1>6, <2>1, <2>2, <2>3, <2>4 DEF MayGoOn, MayAuthor
  <2>6. GoesOn(w, j)
    BY <1>2, <1>6 DEF GoesOn
  <2> QED  BY <1>6, <2>4, <2>5, <2>6, GoesOnKeeps
<1> QED
  <2>1. job[w] \in BranchJobs /\ job \in [Branchers -> BranchJobs]
    BY <1>1 DEF StoreInv, StoreTypes
  <2>2. [job EXCEPT ![w].at = "built", ![w].base = head, ![w].tree = built] = [job EXCEPT ![w] = j]
    BY <2>1 DEF BranchJobs
  <2> HIDE DEF built, j
  <2> QED  BY <1>0, <1>3, <1>4, <1>5, <1>6, <2>2 DEF Store!StartAppend, built

LEMMA StartMigrateKeeps ==
    ASSUME StoreInv, NEW w \in Branchers, Store!StartMigrate(w)
    PROVE  StoreInv'
<1> DEFINE new == Store!Migrated(tree)
           j == [Store!Free EXCEPT !.at = "built", !.base = head, !.tree = new]
<1>1. /\ Whole(tree) /\ EachOnce(tree) /\ head \in Nat /\ answer[w] # "refused" /\ Store!Free \in BranchJobs
      /\ tree.legacy \notin {None, Marker}
  BY StoreParts DEF Store!StartMigrate
<1>2. Continues(new, None, Store!Read(tree))
  BY <1>1, MigrationFollows
<1>3. new \in Trees
  BY <1>2 DEF Continues, Whole
<1>4. GoesOn(w, j) /\ told' = told /\ answer' = answer
  BY DEF Store!StartMigrate, GoesOn
<1> HIDE DEF new
<1>5. j.at = "built" /\ j.event = None /\ j.base = head /\ j.tree = new /\ j \in BranchJobs
  BY <1>1, <1>3, EmptySeq DEF BranchJobs, Store!Free
<1> HIDE DEF j
<1>6. MayGoOn(w, j)
  BY <1>1, <1>2, <1>3, <1>4, <1>5 DEF MayGoOn, MayAuthor
<1> QED  BY <1>4, <1>5, <1>6, GoesOnKeeps

LEMMA GiveUpKeeps ==
    ASSUME StoreInv, NEW w \in Branchers, Store!GiveUp(w)
    PROVE  StoreInv'
<1>1. answer[w] # "refused" /\ job[w].at = "derived"
  BY StoreParts DEF Store!GiveUp
<1>2. GoesOn(w, Store!Free) /\ told' = told /\ answer' = answer
  BY DEF Store!GiveUp, GoesOn
<1> QED  BY <1>1, <1>2, LetsGo

LEMMA FinishKeeps ==
    ASSUME StoreInv, NEW w \in Branchers, Store!Finish(w)
    PROVE  StoreInv'
<1>1. /\ Whole(tree) /\ EachOnce(tree) /\ head \in Nat /\ job[w] \in BranchJobs /\ job[w].event \in Logged \cup {None}
      /\ job[w].at = "sent" /\ Built(w) /\ answer \in [Branchers -> {None, "moved", "refused"}]
  BY StoreParts DEF Store!Finish, StoreInv, StoreTypes
<1>2. /\ UNCHANGED <<tree, head, other, flying>> /\ answer' = [answer EXCEPT ![w] = None]
      /\ answer'[w] # "refused"
  BY <1>1, StoreAssumption DEF Store!Finish
<1>3. CASE job' = [job EXCEPT ![w] = Store!Free] /\ told' = told
  <2>1. GoesOn(w, Store!Free)
    BY <1>2, <1>3 DEF GoesOn
  <2> QED  BY <1>2, <1>3, <2>1, LetsGo
<1>4. ASSUME NEW e \in Logged, e = job[w].event, Store!CanRead(w, tree), e \in Store!Range(Store!ReadBy(w, tree)),
             job' = [job EXCEPT ![w] = Store!Free], told' = [told EXCEPT ![e] = "acknowledged"]
      PROVE  StoreInv'
  <2>1. told'[e] = "acknowledged"
    BY <1>4 DEF StoreInv, StoreTypes
  <2>2. Answered(e)'
    BY <1>1, <1>2, <1>4, <2>1, ReadAlike DEF Answered
  <2>3. GoesOn(w, Store!Free)
    BY <1>2, <1>4 DEF GoesOn
  <2> QED  BY <1>2, <1>4, <2>2, <2>3, LetsGo
<1>5. ASSUME NEW e \in Logged, e = job[w].event, Store!CanRead(w, tree), e \notin Store!Range(Store!ReadBy(w, tree)),
             answer[w] = "refused", job' = [job EXCEPT ![w] = Store!Free], told' = [told EXCEPT ![e] = "not-committed"]
      PROVE  StoreInv'
  <2>1. told'[e] = "not-committed"
    BY <1>5 DEF StoreInv, StoreTypes
  <2>2. Store!ReadBy(w, tree) = Store!Read(tree)
    BY <1>1, <1>5, ReadAlike
  <2>3. job[w].base < head /\ job[w].base \in Nat
    BY <1>1, <1>5, StoreParts DEF Built
  <2>4. ASSUME NEW f \in flying, f.event = e PROVE f.base # head
    <3>1. f.writer = w /\ Flown(f) /\ f \in BranchMoves
      BY <1>5, <2>4 DEF StoreInv, StoreTypes, OneAuthor
    <3>2. f.base <= job[w].base /\ f.base \in Nat
      BY <1>1, <1>5, <2>4, <3>1, StoreAssumption DEF Flown, BranchMoves
    <3> QED  BY <1>1, <2>3, <3>2
  <2>5. Answered(e)'
    BY <1>2, <1>5, <2>1, <2>2, <2>4 DEF Answered
  <2>6. GoesOn(w, Store!Free)
    BY <1>2, <1>5 DEF GoesOn
  <2> QED  BY <1>2, <1>5, <2>5, <2>6, LetsGo
<1>6. ASSUME NEW e \in Logged, e = job[w].event, told' = told,
             job' = [job EXCEPT ![w] = [Store!Free EXCEPT !.at = "derived", !.event = e, !.seen = job[w].seen]]
      PROVE  StoreInv'
  <2> DEFINE j == [Store!Free EXCEPT !.at = "derived", !.event = e, !.seen = job[w].seen]
  <2>1. j.at = "derived" /\ j.event = e /\ j.seen = job[w].seen /\ j \in BranchJobs /\ e # None
    BY <1>1, StoreAssumption DEF BranchJobs, Store!Free
  <2>2. job' = [job EXCEPT ![w] = j]
    BY <1>6
  <2> HIDE DEF j
  <2>3. GoesOn(w, j)
    BY <1>2, <2>2 DEF GoesOn
  <2>4. MayGoOn(w, j)
    BY <1>2, <1>6, <2>1 DEF MayGoOn, MayAuthor
  <2> QED  BY <1>6, <2>1, <2>3, <2>4, GoesOnKeeps
<1> QED
  <2>1. CASE job[w].event = None
    BY <1>3, <2>1 DEF Store!Finish
  <2>2. CASE job[w].event # None
    <3>1. PICK e \in Logged : e = job[w].event
      BY <1>1, <2>2
    <3> QED  BY <1>3, <1>4, <1>5, <1>6, <3>1 DEF Store!Finish
  <2> QED  BY <2>1, <2>2

LEMMA SendKeeps ==
    ASSUME StoreInv, NEW w \in Branchers, Store!Send(w)
    PROVE  StoreInv'
<1> DEFINE sent == [writer |-> w, base |-> job[w].base, tree |-> job[w].tree, event |-> job[w].event]
<1>1. /\ job \in [Branchers -> BranchJobs] /\ job[w] \in BranchJobs /\ Built(w) /\ job[w].at = "built"
      /\ flying' = flying \cup {sent}
      /\ job' = [job EXCEPT ![w].at = "sent"] /\ answer' = [answer EXCEPT ![w] = None]
      /\ UNCHANGED <<tree, head, other, told>>
  BY StoreParts DEF Store!Send, StoreInv, StoreTypes
<1>2. /\ job'[w].at = "sent" /\ \A v \in Branchers : v # w => job'[v] = job[v]
      /\ \A v \in Branchers : job'[v].event = job[v].event /\ job'[v].seen = job[v].seen
                              /\ job'[v].base = job[v].base /\ job'[v].tree = job[v].tree
      /\ job' \in [Branchers -> BranchJobs]
  BY <1>1 DEF BranchJobs
<1>3. /\ sent.writer = w /\ sent.base = job[w].base /\ sent.tree = job[w].tree /\ sent.event = job[w].event
      /\ sent \in BranchMoves
  BY <1>1 DEF Built, BranchJobs, BranchMoves
<1> HIDE DEF sent
<1>4. StoreTypes'
  <2>1. answer' \in [Branchers -> {None, "moved", "refused"}] /\ flying' \in SUBSET BranchMoves
    BY <1>1, <1>3 DEF StoreInv, StoreTypes
  <2> QED  BY <1>1, <1>2, <2>1 DEF StoreInv, StoreTypes
<1>5. ASSUME NEW v \in Branchers PROVE Built(v)'
  <2>1. Built(v) /\ answer \in [Branchers -> {None, "moved", "refused"}]
    BY DEF StoreInv, StoreTypes
  <2>2. CASE v = w
    <3>1. answer'[v] # "refused"
      BY <1>1, <2>1, <2>2, StoreAssumption
    <3> QED  BY <1>1, <1>2, <2>1, <2>2, <3>1 DEF Built
  <2>3. CASE v # w
    <3>1. answer'[v] = answer[v]
      BY <1>1, <2>1, <2>3
    <3> QED  BY <1>1, <1>2, <2>1, <2>3, <3>1 DEF Built
  <2> QED  BY <2>2, <2>3
<1>6. ASSUME NEW f \in flying' PROVE Flown(f)'
  <2>1. CASE f \in flying
    <3>1. Flown(f) /\ f.writer \in Branchers
      BY <2>1 DEF StoreInv, StoreTypes, BranchMoves
    <3>2. CASE f.writer = w
      BY <1>1, <1>2, <3>1, <3>2 DEF Flown
    <3>3. CASE f.writer # w
      BY <1>1, <1>2, <3>1, <3>3 DEF Flown
    <3> QED  BY <3>2, <3>3
  <2>2. CASE f = sent
    <3>1. job[w].base \in Nat
      BY <1>1 DEF BranchJobs
    <3> QED  BY <1>1, <1>2, <1>3, <2>2, <3>1 DEF Built, Flown
  <2> QED  BY <1>1, <1>6, <2>1, <2>2
<1>7. ASSUME NEW e \in Logged PROVE OneAuthor(e)' /\ Answered(e)'
  <2>1. OneAuthor(e) /\ Answered(e)
    BY DEF StoreInv
  <2>2. job[w].event = e => told[e] = None
    BY <2>1 DEF OneAuthor
  <2>3. told[e] # "not-committed" \/ sent.event # e
    BY <1>3, <2>2, StoreAssumption
  <2>4. OneAuthor(e)'
    BY <1>1, <1>2, <1>3, <2>1 DEF OneAuthor
  <2> QED  BY <1>1, <2>1, <2>3, <2>4 DEF Answered
<1> QED  BY <1>4, <1>5, <1>6, <1>7 DEF StoreInv

(* A request arrives where the branch has moved on.                        *)
LEMMA RefusalKeeps ==
    ASSUME StoreInv, NEW f \in flying, Store!Arrive(f), f.base # head
    PROVE  StoreInv'
<1>1. /\ f \in BranchMoves /\ f.base <= head /\ head \in Nat /\ f.base \in Nat /\ f.writer \in Branchers
  BY DEF StoreInv, StoreTypes, Flown, BranchMoves
<1>2. /\ flying' = flying \ {f} /\ UNCHANGED <<tree, head, other, job, told>>
      /\ answer' = [answer EXCEPT ![f.writer] = IF Store!Awaits(f) THEN "refused" ELSE @]
  BY DEF Store!Arrive
<1>3. StoreTypes'
  BY <1>1, <1>2 DEF StoreInv, StoreTypes
<1>4. ASSUME NEW v \in Branchers PROVE Built(v)'
  <2>1. Built(v) /\ answer \in [Branchers -> {None, "moved", "refused"}]
    BY DEF StoreInv, StoreTypes
  <2>2. CASE v = f.writer /\ Store!Awaits(f)
    <3>1. job[v].at = "sent" /\ job[v].base < head
      BY <1>1, <2>2 DEF Store!Awaits
    <3> QED  BY <1>2, <2>1, <3>1 DEF Built
  <2>3. CASE ~(v = f.writer /\ Store!Awaits(f))
    <3>1. answer'[v] = answer[v]
      BY <1>1, <1>2, <2>1, <2>3
    <3> QED  BY <1>2, <2>1, <3>1 DEF Built
  <2> QED  BY <2>2, <2>3
<1>5. ASSUME NEW g \in flying' PROVE Flown(g)'
  BY <1>2, <1>5 DEF StoreInv, Flown
<1>6. ASSUME NEW e \in Logged PROVE OneAuthor(e)' /\ Answered(e)'
  BY <1>2 DEF StoreInv, OneAuthor, Answered
<1> QED  BY <1>3, <1>4, <1>5, <1>6 DEF StoreInv

(* The branch moves: to a tree that follows what was on it, or for a       *)
(* commit of another run.                                                  *)
Moved ==
    /\ head' = head + 1 /\ UNCHANGED <<job, told>>
    /\ Whole(tree)' /\ EachOnce(tree)'
    /\ answer' \in [Branchers -> {None, "moved", "refused"}]
    /\ \A v \in Branchers : answer'[v] = "refused" => answer[v] = "refused"
    /\ flying' \subseteq flying
    /\ \A e \in Logged : e \in Store!Range(Store!Read(tree)) => e \in Store!Range(Store!Read(tree'))
    /\ \A e \in Logged : e \in Store!Range(Store!Read(tree')) =>
            \/ e \in Store!Range(Store!Read(tree))
            \/ \E f \in flying : f.event = e /\ f.base = head

LEMMA MoveKeeps ==
    ASSUME StoreInv, Moved
    PROVE  StoreInv'
<1>1. head \in Nat /\ head' = head + 1
  BY DEF StoreInv, StoreTypes, Moved
<1>2. StoreTypes'
  BY <1>1 DEF StoreInv, StoreTypes, Moved
<1>3. ASSUME NEW v \in Branchers PROVE Built(v)'
  <2>1. Built(v) /\ job' = job /\ (answer'[v] = "refused" => answer[v] = "refused") /\ job[v].base \in Nat
    BY DEF StoreInv, StoreTypes, Moved, BranchJobs
  <2>2. job[v].base <= head => job[v].base < head' /\ job[v].base <= head'
    BY <1>1, <2>1
  <2>3. job[v].base < head => job[v].base < head'
    BY <1>1, <2>1
  <2> QED  BY <2>1, <2>2, <2>3 DEF Built
<1>4. ASSUME NEW f \in flying' PROVE Flown(f)' /\ f.base < head' /\ f \in flying
  <2>1. f \in flying /\ Flown(f) /\ f.base \in Nat /\ job' = job
    BY <1>4 DEF StoreInv, StoreTypes, Moved, BranchMoves
  <2>2. f.base < head' /\ f.base <= head'
    BY <1>1, <2>1 DEF Flown
  <2> QED  BY <2>1, <2>2 DEF Flown
<1>5. ASSUME NEW e \in Logged PROVE OneAuthor(e)' /\ Answered(e)'
  <2>1. OneAuthor(e) /\ Answered(e) /\ job' = job /\ told' = told
    BY DEF StoreInv, Moved
  <2>2. OneAuthor(e)'
    BY <1>4, <2>1 DEF OneAuthor
  <2>3. told[e] = "acknowledged" => e \in Store!Range(Store!Read(tree'))
    BY <2>1 DEF Answered, Moved
  <2>4. told[e] = "not-committed" => e \notin Store!Range(Store!Read(tree'))
    BY <2>1 DEF Answered, Moved
  <2>5. \A f \in flying' : f.base # head'
    <3>1. SUFFICES ASSUME NEW f \in flying' PROVE f.base # head'
      OBVIOUS
    <3>2. f.base < head' /\ f.base \in Nat
      BY <1>4 DEF StoreInv, StoreTypes, BranchMoves
    <3> QED  BY <1>1, <3>2
  <2> QED  BY <2>1, <2>2, <2>3, <2>4, <2>5 DEF Answered
<1> QED  BY <1>2, <1>3, <1>4, <1>5 DEF StoreInv

(* Where the branch is what the request was built on, it moves.            *)
LEMMA ArrivalMoves ==
    ASSUME StoreInv, NEW f \in flying, Store!Arrive(f), f.base = head
    PROVE  Moved /\ Continues(tree', f.event, Store!Read(tree)) /\ f.event \in Logged \cup {None}
<1>1. /\ f \in BranchMoves /\ f.writer \in Branchers /\ f.event \in Logged \cup {None}
      /\ Continues(f.tree, f.event, Store!Read(tree)) /\ Whole(tree)
      /\ answer \in [Branchers -> {None, "moved", "refused"}]
  BY DEF StoreInv, StoreTypes, Flown, BranchMoves
<1>2. /\ flying' = flying \ {f} /\ tree' = f.tree /\ head' = head + 1 /\ UNCHANGED <<other, job, told>>
      /\ answer' = [answer EXCEPT ![f.writer] = IF Store!Awaits(f) THEN "moved" ELSE @]
  BY DEF Store!Arrive
<1>3. Whole(f.tree) /\ EachOnce(f.tree)
  BY <1>1 DEF Continues
<1>4. Whole(tree)' /\ EachOnce(tree)'
  BY <1>2, <1>3 DEF Whole, EachOnce
<1>5. /\ answer' \in [Branchers -> {None, "moved", "refused"}]
      /\ \A v \in Branchers : answer'[v] = "refused" => answer[v] = "refused"
  BY <1>1, <1>2
<1>6. f.event = None \/ /\ f.event \in Logged
                        /\ Store!Range(Store!Read(f.tree)) = Store!Range(Store!Read(tree)) \cup {f.event}
  BY <1>1, WholeParts, RangeGrows DEF Continues
<1>7. f.event = None => Store!Read(f.tree) = Store!Read(tree)
  BY <1>1 DEF Continues
<1> HIDE DEF Moved
<1> QED  BY <1>1, <1>2, <1>4, <1>5, <1>6, <1>7 DEF Moved

LEMMA OtherRunMoves ==
    ASSUME StoreInv, Store!OtherRun
    PROVE  Moved
<1>1. Whole(tree) /\ EachOnce(tree) /\ UNCHANGED <<tree, job, flying, answer, told>> /\ head' = head + 1
  BY DEF StoreInv, StoreTypes, Store!OtherRun
<1> QED  BY <1>1 DEF Moved, Whole, EachOnce, StoreInv, StoreTypes

LEMMA StoreInitInv == Store!Init => StoreInv
<1> SUFFICES ASSUME Store!Init PROVE StoreInv
  OBVIOUS
<1>1. /\ tree = Store!Empty /\ head = 1 /\ job = [w \in Branchers |-> Store!Free] /\ flying = {}
      /\ answer = [w \in Branchers |-> None] /\ told = [e \in Logged |-> None]
  BY DEF Store!Init
<1>2. /\ tree.legacy = None /\ tree.manifest = None /\ tree \in Trees /\ None # Marker /\ None # <<>>
  <2>1. <<>> \in Seq(Logged) /\ <<>> \in Seq(Seq(Logged)) /\ None \notin Seq(Logged)
    BY EmptySeq, StoreAssumption
  <2> QED  BY <1>1, <2>1, StoreAssumption DEF Trees, Store!Empty
<1>3. Whole(tree) /\ Store!Read(tree) = <<>>
  BY <1>2 DEF Whole, Store!Reads, Store!Read
<1>4. Store!Range(<<>>) = {}
  BY DEF Store!Range
<1>5. EachOnce(tree)
  BY <1>3, <1>4, FS_EmptySet, StoreOperators DEF EachOnce
<1>6. Store!Free \in BranchJobs /\ Store!Free.at = "idle" /\ Store!Free.event = None
  BY EmptySeq DEF BranchJobs, Store!Free
<1>7. StoreTypes
  BY <1>1, <1>3, <1>5, <1>6 DEF StoreTypes
<1>8. \A w \in Branchers : Built(w)
  BY <1>1, <1>6, StoreAssumption DEF Built
<1>9. \A e \in Logged : OneAuthor(e) /\ Answered(e)
  <2> SUFFICES ASSUME NEW e \in Logged PROVE OneAuthor(e) /\ Answered(e)
    OBVIOUS
  <2>1. e # None /\ told[e] = None /\ None \notin {"acknowledged", "not-committed"} /\ \A w \in Branchers : job[w].event = None
    BY <1>1, <1>6, StoreAssumption
  <2> QED  BY <1>1, <2>1 DEF OneAuthor, Answered
<1> QED  BY <1>1, <1>7, <1>8, <1>9 DEF StoreInv

LEMMA StoreNextInv == StoreInv /\ Store!Next => StoreInv'
<1>1. ASSUME StoreInv, NEW f \in flying, Store!Arrive(f) PROVE StoreInv'
  BY <1>1, ArrivalMoves, MoveKeeps, RefusalKeeps
<1> QED  BY <1>1, DeriveKeeps, StartAppendKeeps, StartMigrateKeeps, SendKeeps, FinishKeeps, GiveUpKeeps,
            OtherRunMoves, MoveKeeps DEF Store!Next

LEMMA StoreNextGrows == StoreInv /\ Store!Next => Store!CommitAppends
<1>1. ASSUME StoreInv PROVE Store!Read(tree) \in Lists(Logged)
  BY <1>1, WholeParts DEF StoreInv, StoreTypes, Lists
<1>2. \A u, v : Store!IsPrefix(u, v) = IsPrefix(u, v)
  BY DEF Store!IsPrefix, IsPrefix
<1>3. ASSUME StoreInv, tree' = tree PROVE Store!CommitAppends
  BY <1>1, <1>2, <1>3, PrefixOfItself DEF Store!CommitAppends
<1>4. ASSUME StoreInv, NEW f \in flying, Store!Arrive(f), f.base = head PROVE Store!CommitAppends
  <2>1. Continues(tree', f.event, Store!Read(tree)) /\ f.event \in Logged \cup {None}
    BY <1>4, ArrivalMoves
  <2>2. Store!Read(tree) \in Lists(Logged)
    BY <1>1, <1>4
  <2>3. CASE f.event = None
    BY <1>2, <2>1, <2>2, <2>3, PrefixOfItself DEF Store!CommitAppends, Continues
  <2>4. CASE f.event # None
    <3>1. <<f.event>> \in Lists(Logged)
      BY <2>1, <2>4 DEF Lists
    <3>2. Append(Store!Read(tree), f.event) = Cat(Store!Read(tree), <<f.event>>)
      BY <2>1, <2>2, <2>4, AppendIsConcat DEF Lists, Cat
    <3> QED  BY <1>2, <2>1, <2>2, <2>4, <3>1, <3>2, PrefixOfItself DEF Store!CommitAppends, Continues
  <2> QED  BY <2>3, <2>4
<1>5. ASSUME StoreInv, NEW f \in flying, Store!Arrive(f), f.base # head PROVE Store!CommitAppends
  BY <1>3, <1>5 DEF Store!Arrive
<1> QED  BY <1>3, <1>4, <1>5 DEF Store!Next, Store!Derive, Store!StartAppend, Store!StartMigrate, Store!Send,
            Store!Finish, Store!GiveUp, Store!OtherRun

LEMMA StoreStays == StoreInv /\ UNCHANGED <<tree, head, job, flying, answer, told>> => StoreInv'
BY DEF StoreInv, StoreTypes, Whole, EachOnce, Built, Flown, OneAuthor, Answered

-----------------------------------------------------------------------------
StorePart == part = "store" => StoreInv

LEMMA StorePartHolds == /\ AgentFlowInit => StorePart
                        /\ StorePart /\ [AgentFlowNext]_all => StorePart'
<1>1. AgentFlowInit => StorePart
  BY StoreInitInv DEF AgentFlowInit, StorePart
<1>2. ASSUME StorePart, [AgentFlowNext]_all PROVE StorePart'
  <2>1. CASE part = "store" /\ AgentFlowNext
    <3>1. StoreInv /\ Store!Next /\ part' = part
      BY <1>2, <2>1 DEF StorePart, AgentFlowNext
    <3> QED  BY <3>1, StoreNextInv DEF StorePart
  <2>2. CASE part # "store" /\ AgentFlowNext
    <3>1. part' = part
      BY <2>2 DEF AgentFlowNext, all, shared
    <3> QED  BY <2>2, <3>1 DEF StorePart
  <2>3. CASE UNCHANGED all
    <3>1. part' = part /\ UNCHANGED <<tree, head, job, flying, answer, told>>
      BY <2>3 DEF all, store, shared
    <3> QED  BY <1>2, <3>1, StoreStays DEF StorePart
  <2> QED  BY <1>2, <2>1, <2>2, <2>3
<1> QED  BY <1>1, <1>2

(* StoreInv always holds of a branch: the run on it can be read and has no *)
(* event twice, and a commit that is built or on its way follows what is   *)
(* on the branch as long as the branch is where the commit was built       *)
(* (segmented-run-store.mjs, github-run-store.mjs).                        *)
THEOREM StoreInvHolds == AgentFlowSpec => []StorePart
BY StorePartHolds, PTL DEF AgentFlowSpec

(* Whichever version writes, whatever is sealed or migrated meanwhile, and *)
(* whichever answer is lost or request late, the run on the branch can be  *)
(* read and has no event twice; an event that was acknowledged is in it,   *)
(* and one that was reported as not committed is not and cannot get there  *)
(* (append of both stores, migrateRunStore).                               *)
THEOREM StoreAnswersStand == AgentFlowSpec => []AnswersStand
<1>1. StorePart => AnswersStand
  <2> SUFFICES ASSUME StoreInv PROVE Store!AlwaysReads /\ Store!AnswersStand
    BY DEF StorePart, AnswersStand
  <2>1. Store!AlwaysReads
    BY DEF StoreInv, StoreTypes, Whole, EachOnce, Store!AlwaysReads
  <2>2. Store!AnswersStand
    BY DEF StoreInv, Answered, Store!AnswersStand
  <2> QED  BY <2>1, <2>2
<1> QED  BY <1>1, StoreInvHolds, PTL

(* No commit takes from the history of a run or changes it: not an append  *)
(* of either version, not a seal, not the migration, not a late request.   *)
THEOREM StoreHistoryGrows == AgentFlowSpec => HistoryOnlyGrows
<1>1. StorePart /\ [AgentFlowNext]_all => [part = "store" => Store!CommitAppends]_all
  <2> SUFFICES ASSUME StorePart, AgentFlowNext, part = "store" PROVE Store!CommitAppends
    OBVIOUS
  <2>1. StoreInv /\ Store!Next
    BY DEF StorePart, AgentFlowNext
  <2> QED  BY <2>1, StoreNextGrows
<1> QED  BY <1>1, StoreInvHolds, PTL DEF AgentFlowSpec, HistoryOnlyGrows

-----------------------------------------------------------------------------
(* The operation lock. *)
Claiming == {"claiming", "checking", "removing"}
Holding == {"checking", "removing", "closing", "giving up"}
Behind == {"closing", "sweeping"}
LockPlaces == {"start", "linking", "writing", "refused", "done", "claiming", "checking", "removing", "closing", "giving up",
               "sweeping"}

LockTypes ==
    /\ at \in [Contenders -> LockPlaces] /\ alive \subseteq Contenders /\ path \in Contenders \cup {None}
    /\ key \in [Contenders -> Seq(Contenders)]
    /\ \A k \in DOMAIN claims : claims[k] \in Contenders

(* What a recovery has read is of the dead, who never come back. *)
Keyed ==
    \A w \in Contenders : at[w] \in Claiming \cup Holding \cup Behind =>
        key[w] # <<>> /\ \A i \in 1..Len(key[w]) : key[w][i] \notin alive

(* A live claimant's claim is its own. *)
Holds == \A w \in alive : at[w] \in Holding => key[w] \in DOMAIN claims /\ claims[key[w]] = w

(* Each dead claim that a recovery went past is still there, until the     *)
(* lock it is for has gone.                                                *)
Linked(k, taken) ==
    \A i \in 1..(Len(k) - 1) : SubSeq(k, 1, i) \in DOMAIN taken /\ taken[SubSeq(k, 1, i)] = k[i + 1]
Chains ==
    \A w \in alive : (at[w] \in Claiming /\ path = key[w][1]) \/ at[w] \in Behind => Linked(key[w], claims)

(* Who works has the lock; who is about to remove a lock is about to       *)
(* remove the one it looked at, which is gone behind it.                   *)
Paths ==
    \A w \in alive : /\ at[w] = "writing" => path = w
                     /\ at[w] = "removing" => path = key[w][1]
                     /\ at[w] \in Behind => path # key[w][1]

(* Each lock is removed by one. *)
Removes(w) == at[w] = "removing" \/ at[w] \in Behind
Alone == \A v, w \in alive : Removes(v) /\ Removes(w) /\ key[v][1] = key[w][1] => v = w

LockInv == LockTypes /\ Keyed /\ Holds /\ Chains /\ Paths /\ Alone

(* Two chains of claims that begin with the same lock go the same way, and *)
(* neither goes past the other's end.                                      *)
LEMMA OneChain ==
    ASSUME NEW k \in Seq(Contenders), NEW m \in Seq(Contenders), NEW taken,
           k # <<>>, m # <<>>, k[1] = m[1], Linked(k, taken), Linked(m, taken),
           \A i \in 1..Len(m) : m[i] # taken[k],
           \A i \in 1..Len(k) : k[i] # taken[m]
    PROVE  k = m
<1>. Len(k) \in Nat /\ Len(m) \in Nat /\ Len(k) >= 1 /\ Len(m) >= 1
  BY EmptySeq, LenProperties
<1>. DEFINE Differ == {n \in Nat : n \in 1..Len(k) /\ n \in 1..Len(m) /\ k[n] # m[n]}
<1>1. Differ = {}
  <2>. SUFFICES ASSUME Differ # {} PROVE FALSE
    OBVIOUS
  <2>1. PICK n \in Differ : \A l \in Differ : ~(<<l, n>> \in OpToRel(<, Nat))
    BY NatLessThanWellFounded, WFMin
  <2>2. \A l \in Differ : l >= n
    <3>. SUFFICES ASSUME NEW l \in Differ, l < n PROVE FALSE
      OBVIOUS
    <3>1. <<l, n>> \in Nat \X Nat /\ <<l, n>>[1] = l /\ <<l, n>>[2] = n
      OBVIOUS
    <3>2. <<l, n>> \in OpToRel(<, Nat)
      BY <3>1, Zenon DEF OpToRel
    <3>. QED  BY <2>1, <3>2
  <2>3. n > 1
    OBVIOUS
  <2>4. SubSeq(k, 1, n - 1) = SubSeq(m, 1, n - 1)
    <3>1. \A i \in 1..(n - 1) : k[i] = m[i]
      BY <2>2
    <3>. QED  BY <3>1, <2>3
  <2>5. k[n] = taken[SubSeq(k, 1, n - 1)] /\ m[n] = taken[SubSeq(m, 1, n - 1)]
    BY <2>3 DEF Linked
  <2>. QED  BY <2>4, <2>5
<1>. HIDE DEF Differ
<1>2. \A i \in 1..Len(k) : i <= Len(m) => k[i] = m[i]
  BY <1>1 DEF Differ
<1>3. ~(Len(k) < Len(m))
  <2>. SUFFICES ASSUME Len(k) < Len(m) PROVE FALSE
    OBVIOUS
  <2>1. k = SubSeq(m, 1, Len(k))
    BY <1>2
  <2>2. taken[SubSeq(m, 1, Len(k))] = m[Len(k) + 1]
    BY DEF Linked
  <2>3. taken[k] = m[Len(k) + 1]
    BY <2>1, <2>2, Zenon
  <2>4. Len(k) + 1 \in 1..Len(m)
    OBVIOUS
  <2>. QED  BY <2>3, <2>4
<1>4. ~(Len(m) < Len(k))
  <2>. SUFFICES ASSUME Len(m) < Len(k) PROVE FALSE
    OBVIOUS
  <2>1. m = SubSeq(k, 1, Len(m))
    BY <1>2
  <2>2. taken[SubSeq(k, 1, Len(m))] = k[Len(m) + 1]
    BY DEF Linked
  <2>3. taken[m] = k[Len(m) + 1]
    BY <2>1, <2>2, Zenon
  <2>4. Len(m) + 1 \in 1..Len(k)
    OBVIOUS
  <2>. QED  BY <2>3, <2>4
<1>. QED  BY <1>2, <1>3, <1>4, SeqEqual

(* The root of a chain is a dead process. *)
Recovers(w) == at[w] \in {"claiming", "checking", "removing", "closing", "giving up", "sweeping"}

LEMMA Roots ==
    ASSUME LockInv, NEW v \in Contenders, Recovers(v)
    PROVE  /\ key[v] \in Seq(Contenders) /\ Len(key[v]) \in Nat /\ Len(key[v]) >= 1
           /\ key[v][1] \in Contenders \ alive /\ key[v][1] # None
<1>1. key[v] \in Seq(Contenders) /\ key[v] # <<>> /\ \A i \in 1..Len(key[v]) : key[v][i] \notin alive
  BY DEF LockInv, LockTypes, Keyed, Recovers, Claiming, Holding, Behind
<1>2. Len(key[v]) \in Nat /\ Len(key[v]) >= 1
  BY <1>1, EmptySeq, LenProperties
<1>3. key[v][1] \in Contenders
  BY <1>1, <1>2
<1>. QED  BY <1>1, <1>2, <1>3, LockAssumption

(* Each step keeps the invariant.  A check finds nobody else about to      *)
(* remove the same lock: both would hold the end of one chain of claims.   *)
LEMMA CheckLock ==
    ASSUME LockInv, NEW w \in Contenders, OpLock!Check(w)
    PROVE  LockInv'
<1>0. \A v \in Contenders : Recovers(v) => key[v][1] \in Contenders \ alive /\ key[v][1] # None
  BY Roots
<1>. USE <1>0 DEF Recovers
<1>1. LockTypes'
  BY LockAssumption DEF OpLock!Check, OpLock!At, OpLock!Go, OpLock!Held, OpLock!Without, LockInv, LockTypes, LockPlaces
<1>2. Keyed'
  BY DEF OpLock!Check, OpLock!At, OpLock!Go, LockInv, LockTypes, Keyed, Claiming, Holding, Behind
<1>3. Holds'
  BY DEF OpLock!Check, OpLock!At, OpLock!Go, OpLock!Without, LockInv, LockTypes, Holds, Holding
<1>4. Chains'
  <2>. SUFFICES ASSUME NEW v \in alive', (at'[v] \in Claiming /\ path' = key'[v][1]) \/ at'[v] \in Behind
                PROVE  Linked(key'[v], claims')
    BY DEF Chains
  <2>1. Linked(key[v], claims)
    BY <1>0 DEF OpLock!Check, OpLock!At, OpLock!Go, LockInv, LockTypes, Chains, Paths, Claiming, Behind
  <2>. QED  BY <2>1 DEF OpLock!Check
<1>5. Paths'
  BY <1>0, LockAssumption DEF OpLock!Check, OpLock!At, OpLock!Go, LockInv, LockTypes, Paths, Alone, Removes, Behind
<1>6. Alone'
  <2>. SUFFICES ASSUME NEW v \in alive', NEW u \in alive', Removes(v)', Removes(u)', key'[v][1] = key'[u][1], v # u
                PROVE  FALSE
    BY DEF Alone
  <2>1. key' = key /\ alive' = alive /\ w \in alive /\ at[w] = "checking" /\ alive \subseteq Contenders
    BY DEF OpLock!Check, OpLock!At, LockInv, LockTypes
  <2>2. ASSUME NEW x \in alive \ {w}, Removes(x), at'[w] = "removing", key[x][1] = key[w][1]
        PROVE  FALSE
    <3>1. path = key[w][1] /\ at[x] = "removing"
      BY <2>1, <2>2 DEF OpLock!Check, OpLock!Go, LockInv, LockTypes, Paths, Removes
    <3>2. /\ Linked(key[x], claims) /\ claims[key[x]] = x
          /\ Linked(key[w], claims) /\ claims[key[w]] = w
      BY <2>1, <2>2, <3>1 DEF LockInv, Chains, Holds, Claiming, Holding
    <3>3. /\ \A i \in 1..Len(key[x]) : key[x][i] # claims[key[w]]
          /\ \A i \in 1..Len(key[w]) : key[w][i] # claims[key[x]]
      BY <2>1, <2>2, <3>1, <3>2 DEF LockInv, Keyed, Holding
    <3>4. key[x] \in Seq(Contenders) /\ key[w] \in Seq(Contenders) /\ key[x] # <<>> /\ key[w] # <<>>
      BY <2>1, <2>2, <3>1 DEF LockInv, LockTypes, Keyed, Holding
    <3>5. key[x] = key[w]
      BY <2>2, <3>2, <3>3, <3>4, OneChain
    <3>. QED  BY <2>2, <3>2, <3>5
  <2>3. \A x \in alive \ {w} : Removes(x)' => Removes(x)
    BY <2>1 DEF OpLock!Check, OpLock!Go, LockInv, LockTypes, Removes
  <2>4. Removes(w)' => at'[w] = "removing"
    BY <2>1 DEF OpLock!Check, OpLock!Go, LockInv, LockTypes, Removes, Behind
  <2>5. CASE v # w /\ u # w
    BY <2>1, <2>3, <2>5 DEF LockInv, Alone
  <2>. QED  BY <2>1, <2>2, <2>3, <2>4, <2>5
<1>. QED  BY <1>1, <1>2, <1>3, <1>4, <1>5, <1>6 DEF LockInv

LEMMA ReclaimLock ==
    ASSUME LockInv, NEW w \in Contenders, OpLock!Reclaim(w)
    PROVE  LockInv'
<1>0. \A v \in Contenders : Recovers(v) => key[v][1] \in Contenders \ alive /\ key[v][1] # None
  BY Roots
<1>. USE <1>0 DEF Recovers
<1>1. LockTypes'
  BY LockAssumption DEF OpLock!Reclaim, OpLock!At, OpLock!Go, OpLock!Held, OpLock!Without, LockInv, LockTypes, LockPlaces
<1>2. Keyed'
  BY DEF OpLock!Reclaim, OpLock!At, OpLock!Go, LockInv, LockTypes, Keyed, Claiming, Holding, Behind
<1>3. Holds'
  BY DEF OpLock!Reclaim, OpLock!At, OpLock!Go, OpLock!Without, LockInv, LockTypes, Holds, Holding
<1>4. Chains'
  <2>. SUFFICES ASSUME NEW v \in alive', (at'[v] \in Claiming /\ path' = key'[v][1]) \/ at'[v] \in Behind
                PROVE  Linked(key'[v], claims')
    BY DEF Chains
  <2>1. Linked(key[v], claims)
    BY <1>0 DEF OpLock!Reclaim, OpLock!At, OpLock!Go, LockInv, LockTypes, Chains, Paths, Claiming, Behind
  <2>. QED  BY <2>1 DEF OpLock!Reclaim
<1>5. Paths'
  <2>. SUFFICES ASSUME NEW v \in alive'
                PROVE  /\ at'[v] = "writing" => path' = v
                       /\ at'[v] = "removing" => path' = key'[v][1]
                       /\ at'[v] \in Behind => path' # key'[v][1]
    BY DEF Paths
  <2>1. /\ v \in Contenders /\ v \in alive /\ key'[v] = key[v]
        /\ at[v] = "writing" => path = v
        /\ at[v] = "removing" => path = key[v][1]
        /\ at[v] \in Behind => path # key[v][1]
    BY DEF OpLock!Reclaim, LockInv, LockTypes, Paths
  <2>2. at[v] \in Behind \cup {"removing"} => key[v][1] \in Contenders \ alive /\ key[v][1] # None
    BY <2>1 DEF Behind
  <2>3. CASE v # w
    <3>1. at'[v] = at[v]
      BY <2>1, <2>3 DEF OpLock!Reclaim, OpLock!At, OpLock!Go, LockInv, LockTypes
    <3>. QED
      BY <2>1, <2>2, <2>3, <3>1, LockAssumption
         DEF OpLock!Reclaim, OpLock!At, LockInv, LockTypes, Paths, Alone, Removes, Behind
  <2>4. CASE v = w
    BY <2>1, <2>2, <2>4, LockAssumption DEF OpLock!Reclaim, OpLock!At, OpLock!Go, LockInv, LockTypes, Behind
  <2>. QED  BY <2>3, <2>4
<1>6. Alone'
  <2>. SUFFICES ASSUME NEW v \in alive', NEW u \in alive', Removes(v)', Removes(u)', key'[v][1] = key'[u][1]
                PROVE  v = u
    BY DEF Alone
  <2>1. key' = key /\ v \in alive /\ u \in alive
    BY DEF OpLock!Reclaim
  <2>2. Removes(v) /\ Removes(u)
    BY <2>1 DEF OpLock!Reclaim, OpLock!At, OpLock!Go, LockInv, LockTypes, Removes, Behind
  <2>. QED  BY <2>1, <2>2 DEF LockInv, Alone
<1>. QED  BY <1>1, <1>2, <1>3, <1>4, <1>5, <1>6 DEF LockInv

LEMMA LinkLock ==
    ASSUME LockInv, NEW w \in Contenders, OpLock!Link(w)
    PROVE  LockInv'
<1>0. \A v \in Contenders : Recovers(v) => key[v][1] \in Contenders \ alive /\ key[v][1] # None
  BY Roots
<1>. USE <1>0 DEF Recovers
<1>1. LockTypes'
  BY LockAssumption DEF OpLock!Link, OpLock!At, OpLock!Go, OpLock!Held, OpLock!Without, LockInv, LockTypes, LockPlaces
<1>2. Keyed'
  BY DEF OpLock!Link, OpLock!At, OpLock!Go, LockInv, LockTypes, Keyed, Claiming, Holding, Behind
<1>3. Holds'
  BY DEF OpLock!Link, OpLock!At, OpLock!Go, OpLock!Without, LockInv, LockTypes, Holds, Holding
<1>4. Chains'
  <2>. SUFFICES ASSUME NEW v \in alive', (at'[v] \in Claiming /\ path' = key'[v][1]) \/ at'[v] \in Behind
                PROVE  Linked(key'[v], claims')
    BY DEF Chains
  <2>1. /\ v \in alive /\ v \in Contenders /\ w \in alive /\ key' = key /\ claims' = claims
        /\ at'[v] \in Claiming \cup Behind => v # w /\ at'[v] = at[v]
    BY DEF OpLock!Link, OpLock!At, OpLock!Go, LockInv, LockTypes, Claiming, Behind
  <2>2. path' = path \/ path' = w
    BY DEF OpLock!Link
  <2>3. at[v] \in Claiming => key[v][1] # w
    BY <2>1 DEF Claiming
  <2>. QED  BY <2>1, <2>2, <2>3 DEF LockInv, Chains
<1>5. Paths'
  <2>. SUFFICES ASSUME NEW v \in alive'
                PROVE  /\ at'[v] = "writing" => path' = v
                       /\ at'[v] = "removing" => path' = key'[v][1]
                       /\ at'[v] \in Behind => path' # key'[v][1]
    BY DEF Paths
  <2>1. /\ v \in Contenders /\ v \in alive /\ key'[v] = key[v]
        /\ at[v] = "writing" => path = v
        /\ at[v] = "removing" => path = key[v][1]
        /\ at[v] \in Behind => path # key[v][1]
    BY DEF OpLock!Link, LockInv, LockTypes, Paths
  <2>2. at[v] \in Behind \cup {"removing"} => key[v][1] \in Contenders \ alive /\ key[v][1] # None
    BY <2>1 DEF Behind
  <2>3. CASE v # w
    <3>1. at'[v] = at[v]
      BY <2>1, <2>3 DEF OpLock!Link, OpLock!At, OpLock!Go, LockInv, LockTypes
    <3>. QED
      BY <2>1, <2>2, <2>3, <3>1, LockAssumption
         DEF OpLock!Link, OpLock!At, LockInv, LockTypes, Paths, Alone, Removes, Behind
  <2>4. CASE v = w
    BY <2>1, <2>2, <2>4, LockAssumption DEF OpLock!Link, OpLock!At, OpLock!Go, LockInv, LockTypes, Behind
  <2>. QED  BY <2>3, <2>4
<1>6. Alone'
  <2>. SUFFICES ASSUME NEW v \in alive', NEW u \in alive', Removes(v)', Removes(u)', key'[v][1] = key'[u][1]
                PROVE  v = u
    BY DEF Alone
  <2>1. key' = key /\ v \in alive /\ u \in alive
    BY DEF OpLock!Link
  <2>2. Removes(v) /\ Removes(u)
    BY <2>1 DEF OpLock!Link, OpLock!At, OpLock!Go, LockInv, LockTypes, Removes, Behind
  <2>. QED  BY <2>1, <2>2 DEF LockInv, Alone
<1>. QED  BY <1>1, <1>2, <1>3, <1>4, <1>5, <1>6 DEF LockInv

LEMMA ReleaseLock ==
    ASSUME LockInv, NEW w \in Contenders, OpLock!Release(w)
    PROVE  LockInv'
<1>0. \A v \in Contenders : Recovers(v) => key[v][1] \in Contenders \ alive /\ key[v][1] # None
  BY Roots
<1>. USE <1>0 DEF Recovers
<1>1. LockTypes'
  BY LockAssumption DEF OpLock!Release, OpLock!At, OpLock!Go, OpLock!Held, OpLock!Without, LockInv, LockTypes, LockPlaces
<1>2. Keyed'
  BY DEF OpLock!Release, OpLock!At, OpLock!Go, LockInv, LockTypes, Keyed, Claiming, Holding, Behind
<1>3. Holds'
  BY DEF OpLock!Release, OpLock!At, OpLock!Go, OpLock!Without, LockInv, LockTypes, Holds, Holding
<1>4. Chains'
  <2>. SUFFICES ASSUME NEW v \in alive', (at'[v] \in Claiming /\ path' = key'[v][1]) \/ at'[v] \in Behind
                PROVE  Linked(key'[v], claims')
    BY DEF Chains
  <2>1. Linked(key[v], claims)
    BY <1>0 DEF OpLock!Release, OpLock!At, OpLock!Go, LockInv, LockTypes, Chains, Paths, Claiming, Behind
  <2>. QED  BY <2>1 DEF OpLock!Release
<1>5. Paths'
  <2>. SUFFICES ASSUME NEW v \in alive'
                PROVE  /\ at'[v] = "writing" => path' = v
                       /\ at'[v] = "removing" => path' = key'[v][1]
                       /\ at'[v] \in Behind => path' # key'[v][1]
    BY DEF Paths
  <2>1. /\ v \in Contenders /\ v \in alive /\ key'[v] = key[v]
        /\ at[v] = "writing" => path = v
        /\ at[v] = "removing" => path = key[v][1]
        /\ at[v] \in Behind => path # key[v][1]
    BY DEF OpLock!Release, LockInv, LockTypes, Paths
  <2>2. at[v] \in Behind \cup {"removing"} => key[v][1] \in Contenders \ alive /\ key[v][1] # None
    BY <2>1 DEF Behind
  <2>3. CASE v # w
    <3>1. at'[v] = at[v]
      BY <2>1, <2>3 DEF OpLock!Release, OpLock!At, OpLock!Go, LockInv, LockTypes
    <3>. QED
      BY <2>1, <2>2, <2>3, <3>1, LockAssumption
         DEF OpLock!Release, OpLock!At, LockInv, LockTypes, Paths, Alone, Removes, Behind
  <2>4. CASE v = w
    BY <2>1, <2>2, <2>4, LockAssumption DEF OpLock!Release, OpLock!At, OpLock!Go, LockInv, LockTypes, Behind
  <2>. QED  BY <2>3, <2>4
<1>6. Alone'
  <2>. SUFFICES ASSUME NEW v \in alive', NEW u \in alive', Removes(v)', Removes(u)', key'[v][1] = key'[u][1]
                PROVE  v = u
    BY DEF Alone
  <2>1. key' = key /\ v \in alive /\ u \in alive
    BY DEF OpLock!Release
  <2>2. Removes(v) /\ Removes(u)
    BY <2>1 DEF OpLock!Release, OpLock!At, OpLock!Go, LockInv, LockTypes, Removes, Behind
  <2>. QED  BY <2>1, <2>2 DEF LockInv, Alone
<1>. QED  BY <1>1, <1>2, <1>3, <1>4, <1>5, <1>6 DEF LockInv

LEMMA EndLock ==
    ASSUME LockInv, NEW w \in Contenders, OpLock!End(w)
    PROVE  LockInv'
<1>0. \A v \in Contenders : Recovers(v) => key[v][1] \in Contenders \ alive /\ key[v][1] # None
  BY Roots
<1>. USE <1>0 DEF Recovers
<1>1. LockTypes'
  BY LockAssumption DEF OpLock!End, OpLock!At, OpLock!Go, OpLock!Held, OpLock!Without, LockInv, LockTypes, LockPlaces
<1>2. Keyed'
  BY DEF OpLock!End, OpLock!At, OpLock!Go, LockInv, LockTypes, Keyed, Claiming, Holding, Behind
<1>3. Holds'
  BY DEF OpLock!End, OpLock!At, OpLock!Go, OpLock!Without, LockInv, LockTypes, Holds, Holding
<1>4. Chains'
  <2>. SUFFICES ASSUME NEW v \in alive', (at'[v] \in Claiming /\ path' = key'[v][1]) \/ at'[v] \in Behind
                PROVE  Linked(key'[v], claims')
    BY DEF Chains
  <2>1. Linked(key[v], claims)
    BY <1>0 DEF OpLock!End, OpLock!At, OpLock!Go, LockInv, LockTypes, Chains, Paths, Claiming, Behind
  <2>. QED  BY <2>1 DEF OpLock!End
<1>5. Paths'
  <2>. SUFFICES ASSUME NEW v \in alive'
                PROVE  /\ at'[v] = "writing" => path' = v
                       /\ at'[v] = "removing" => path' = key'[v][1]
                       /\ at'[v] \in Behind => path' # key'[v][1]
    BY DEF Paths
  <2>1. /\ v \in Contenders /\ v \in alive /\ key'[v] = key[v]
        /\ at[v] = "writing" => path = v
        /\ at[v] = "removing" => path = key[v][1]
        /\ at[v] \in Behind => path # key[v][1]
    BY DEF OpLock!End, LockInv, LockTypes, Paths
  <2>2. at[v] \in Behind \cup {"removing"} => key[v][1] \in Contenders \ alive /\ key[v][1] # None
    BY <2>1 DEF Behind
  <2>3. CASE v # w
    <3>1. at'[v] = at[v]
      BY <2>1, <2>3 DEF OpLock!End, OpLock!At, OpLock!Go, LockInv, LockTypes
    <3>. QED
      BY <2>1, <2>2, <2>3, <3>1, LockAssumption
         DEF OpLock!End, OpLock!At, LockInv, LockTypes, Paths, Alone, Removes, Behind
  <2>4. CASE v = w
    BY <2>1, <2>2, <2>4, LockAssumption DEF OpLock!End, OpLock!At, OpLock!Go, LockInv, LockTypes, Behind
  <2>. QED  BY <2>3, <2>4
<1>6. Alone'
  <2>. SUFFICES ASSUME NEW v \in alive', NEW u \in alive', Removes(v)', Removes(u)', key'[v][1] = key'[u][1]
                PROVE  v = u
    BY DEF Alone
  <2>1. key' = key /\ v \in alive /\ u \in alive
    BY DEF OpLock!End
  <2>2. Removes(v) /\ Removes(u)
    BY <2>1 DEF OpLock!End, OpLock!At, OpLock!Go, LockInv, LockTypes, Removes, Behind
  <2>. QED  BY <2>1, <2>2 DEF LockInv, Alone
<1>. QED  BY <1>1, <1>2, <1>3, <1>4, <1>5, <1>6 DEF LockInv

(* What is dropped is one's own, or dead and of a lock that has gone. *)
LEMMA DropClaimLock ==
    ASSUME LockInv, NEW w \in Contenders, OpLock!DropClaim(w)
    PROVE  LockInv'
<1>1. /\ w \in alive /\ at[w] \in {"closing", "giving up"} /\ alive' = alive /\ path' = path /\ key' = key
      /\ claims' = [k \in DOMAIN claims \ {key[w]} |-> claims[k]]
      /\ at' = [at EXCEPT ![w] = IF at[w] = "closing" THEN "sweeping" ELSE "refused"]
      /\ claims[key[w]] = w
  BY DEF OpLock!DropClaim, OpLock!At, OpLock!Go, OpLock!Without, LockInv, Holds, Holding
<1>2. LockTypes'
  BY <1>1 DEF LockInv, LockTypes, LockPlaces
<1>3. Keyed'
  BY <1>1 DEF LockInv, LockTypes, Keyed, Claiming, Holding, Behind
<1>4. Holds'
  BY <1>1 DEF LockInv, LockTypes, Holds, Holding
<1>5. Chains'
  <2>. SUFFICES ASSUME NEW v \in alive, (at'[v] \in Claiming /\ path = key[v][1]) \/ at'[v] \in Behind
                PROVE  Linked(key[v], claims')
    BY <1>1 DEF Chains
  <2>1. v \in Contenders /\ ((at[v] \in Claiming /\ path = key[v][1]) \/ at[v] \in Behind)
    BY <1>1 DEF LockInv, LockTypes, Claiming, Behind
  <2>2. Linked(key[v], claims) /\ key[v] \in Seq(Contenders) /\ \A i \in 1..Len(key[v]) : key[v][i] # w
    BY <1>1, <2>1 DEF LockInv, LockTypes, Chains, Keyed
  <2>3. ASSUME NEW i \in 1..(Len(key[v]) - 1)
        PROVE  SubSeq(key[v], 1, i) \in DOMAIN claims' /\ claims'[SubSeq(key[v], 1, i)] = key[v][i + 1]
    <3>1. SubSeq(key[v], 1, i) \in DOMAIN claims /\ claims[SubSeq(key[v], 1, i)] = key[v][i + 1]
      BY <2>2 DEF Linked
    <3>2. i + 1 \in 1..Len(key[v])
      BY <2>2
    <3>3. SubSeq(key[v], 1, i) # key[w]
      BY <1>1, <2>2, <3>1, <3>2
    <3>. QED  BY <1>1, <3>1, <3>3, Zenon
  <2>. QED  BY <2>3 DEF Linked
<1>6. Paths'
  BY <1>1 DEF LockInv, LockTypes, Paths, Behind
<1>7. Alone'
  <2>1. \A v \in alive : Removes(v)' => Removes(v)
    BY <1>1 DEF LockInv, LockTypes, Removes, Behind
  <2>. QED  BY <1>1, <2>1 DEF LockInv, Alone
<1>. QED  BY <1>2, <1>3, <1>4, <1>5, <1>6, <1>7 DEF LockInv

LEMMA DropAbandonedLock ==
    ASSUME LockInv, NEW w \in Contenders, OpLock!DropAbandoned(w)
    PROVE  LockInv'
<1>. DEFINE Swept == {SubSeq(key[w], 1, n) : n \in 1..(Len(key[w]) - 1)}
<1>1. /\ w \in alive /\ at[w] = "sweeping" /\ alive' = alive /\ path' = path /\ key' = key
      /\ claims' = [k \in DOMAIN claims \ Swept |-> claims[k]]
      /\ at' = [at EXCEPT ![w] = "linking"]
      /\ Linked(key[w], claims) /\ path # key[w][1]
  BY DEF OpLock!DropAbandoned, OpLock!At, OpLock!Go, OpLock!Without, OpLock!Chain, LockInv, Chains, Paths, Behind
<1>2. key[w] \in Seq(Contenders) /\ Recovers(w) /\ \A i \in 1..Len(key[w]) : key[w][i] \notin alive
  BY <1>1 DEF LockInv, LockTypes, Keyed, Behind, Recovers
<1>3. \A k \in Swept : k \in DOMAIN claims /\ claims[k] \notin alive
  <2>. SUFFICES ASSUME NEW n \in 1..(Len(key[w]) - 1)
                PROVE  SubSeq(key[w], 1, n) \in DOMAIN claims /\ claims[SubSeq(key[w], 1, n)] \notin alive
    OBVIOUS
  <2>1. SubSeq(key[w], 1, n) \in DOMAIN claims /\ claims[SubSeq(key[w], 1, n)] = key[w][n + 1]
    BY <1>1 DEF Linked
  <2>2. n + 1 \in 1..Len(key[w])
    BY <1>2
  <2>. QED  BY <1>2, <2>1, <2>2
<1>4. \A k \in Swept : k[1] = key[w][1]
  BY <1>2
<1>. HIDE DEF Swept
<1>5. LockTypes'
  BY <1>1 DEF LockInv, LockTypes, LockPlaces
<1>6. Keyed'
  BY <1>1 DEF LockInv, LockTypes, Keyed, Claiming, Holding, Behind
<1>7. Holds'
  <2>. SUFFICES ASSUME NEW v \in alive, at'[v] \in Holding
                PROVE  key[v] \in DOMAIN claims' /\ claims'[key[v]] = v
    BY <1>1 DEF Holds
  <2>1. key[v] \in DOMAIN claims /\ claims[key[v]] = v
    BY <1>1 DEF LockInv, LockTypes, Holds, Holding
  <2>. QED  BY <1>1, <1>3, <2>1
<1>8. Chains'
  <2>. SUFFICES ASSUME NEW v \in alive, (at'[v] \in Claiming /\ path = key[v][1]) \/ at'[v] \in Behind
                PROVE  Linked(key[v], claims')
    BY <1>1 DEF Chains
  <2>1. v # w /\ v \in Contenders /\ ((at[v] \in Claiming /\ path = key[v][1]) \/ at[v] \in Behind)
    BY <1>1 DEF LockInv, LockTypes, Claiming, Behind
  <2>2. key[v][1] # key[w][1]
    BY <1>1, <2>1 DEF LockInv, Alone, Removes, Behind
  <2>3. Linked(key[v], claims) /\ key[v] \in Seq(Contenders)
    BY <2>1 DEF LockInv, LockTypes, Chains
  <2>4. ASSUME NEW i \in 1..(Len(key[v]) - 1)
        PROVE  SubSeq(key[v], 1, i) \in DOMAIN claims' /\ claims'[SubSeq(key[v], 1, i)] = key[v][i + 1]
    <3>1. SubSeq(key[v], 1, i) \in DOMAIN claims /\ claims[SubSeq(key[v], 1, i)] = key[v][i + 1]
      BY <2>3 DEF Linked
    <3>2. SubSeq(key[v], 1, i)[1] = key[v][1]
      BY <2>3
    <3>3. SubSeq(key[v], 1, i) \notin Swept
      BY <1>4, <2>2, <3>2
    <3>. QED  BY <1>1, <3>1, <3>3, Zenon
  <2>. QED  BY <2>4 DEF Linked
<1>9. Paths'
  BY <1>1 DEF LockInv, LockTypes, Paths, Behind
<1>10. Alone'
  <2>1. \A v \in alive : Removes(v)' => Removes(v)
    BY <1>1 DEF LockInv, LockTypes, Removes, Behind
  <2>. QED  BY <1>1, <2>1 DEF LockInv, Alone
<1>. QED  BY <1>5, <1>6, <1>7, <1>8, <1>9, <1>10 DEF LockInv

(* A recovery that reads the lock of a dead process begins a chain. *)
LEMMA StartLock ==
    ASSUME LockInv, NEW w \in Contenders, OpLock!Start(w)
    PROVE  LockInv'
<1>1. PICK to \in {"linking", "claiming", "refused"} :
         /\ w \in alive /\ at[w] = "start" /\ alive' = alive /\ path' = path /\ claims' = claims
         /\ at' = [at EXCEPT ![w] = to]
         /\ IF to = "claiming" THEN path # None /\ path \notin alive /\ key' = [key EXCEPT ![w] = <<path>>] ELSE key' = key
  BY DEF OpLock!Start, OpLock!At, OpLock!Go
<1>0. at \in [Contenders -> LockPlaces] /\ key \in [Contenders -> Seq(Contenders)] /\ path \in Contenders \cup {None}
  BY DEF LockInv, LockTypes
<1>3. to = "claiming" => key'[w] = <<path>> /\ path \in Contenders
  BY <1>1, <1>0
<1>2. key' \in [Contenders -> Seq(Contenders)] /\ \A v \in Contenders \ {w} : key'[v] = key[v] /\ at'[v] = at[v]
  <2>1. CASE to = "claiming"
    <3>1. key' = [key EXCEPT ![w] = <<path>>] /\ at' = [at EXCEPT ![w] = to]
      BY <1>1, <2>1
    <3>2. <<path>> \in Seq(Contenders)
      BY <1>3, <2>1
    <3>3. key' \in [Contenders -> Seq(Contenders)]
      BY <1>0, <3>1, <3>2
    <3>. QED  BY <1>0, <3>1, <3>3
  <2>2. CASE to # "claiming"
    BY <1>1, <1>0, <2>2
  <2>. QED  BY <2>1, <2>2
<1>4. at'[w] = to /\ w \in Contenders
  BY <1>1 DEF LockInv, LockTypes
<1>5. LockTypes'
  BY <1>1, <1>2 DEF LockInv, LockTypes, LockPlaces
<1>6. Keyed'
  <2>. SUFFICES ASSUME NEW v \in Contenders, at'[v] \in Claiming \cup Holding \cup Behind
                PROVE  key'[v] # <<>> /\ \A i \in 1..Len(key'[v]) : key'[v][i] \notin alive'
    BY DEF Keyed
  <2>1. CASE v = w
    <3>1. to = "claiming"
      BY <1>4, <2>1 DEF Claiming, Holding, Behind
    <3>2. key'[v] = <<path>> /\ path \notin alive /\ alive' = alive
      BY <1>1, <1>3, <2>1, <3>1
    <3>. HIDE DEF Keyed
    <3>. QED  BY <3>2
  <2>2. CASE v # w
    BY <1>1, <1>2, <2>2 DEF LockInv, Keyed
  <2>. QED  BY <2>1, <2>2
<1>7. Holds'
  <2>. SUFFICES ASSUME NEW v \in alive, at'[v] \in Holding
                PROVE  key'[v] \in DOMAIN claims /\ claims[key'[v]] = v
    BY <1>1 DEF Holds
  <2>1. v # w
    BY <1>4 DEF Holding
  <2>2. v \in Contenders \ {w}
    BY <2>1 DEF LockInv, LockTypes
  <2>. QED  BY <1>2, <2>2 DEF LockInv, Holds
<1>8. Chains'
  <2>. SUFFICES ASSUME NEW v \in alive, (at'[v] \in Claiming /\ path = key'[v][1]) \/ at'[v] \in Behind
                PROVE  Linked(key'[v], claims)
    BY <1>1 DEF Chains
  <2>1. CASE v = w
    <3>1. to = "claiming"
      BY <1>4, <2>1 DEF Claiming, Behind
    <3>2. key'[v] = <<path>>
      BY <1>3, <2>1, <3>1
    <3>. QED  BY <3>2 DEF Linked
  <2>2. CASE v # w
    <3>1. v \in Contenders \ {w}
      BY <2>2 DEF LockInv, LockTypes
    <3>. QED  BY <1>2, <3>1 DEF LockInv, Chains
  <2>. QED  BY <2>1, <2>2
<1>9. Paths'
  BY <1>1, <1>2, <1>4 DEF LockInv, LockTypes, Paths, Behind
<1>10. Alone'
  <2>1. \A v \in alive : Removes(v)' => Removes(v) /\ key'[v] = key[v]
    BY <1>1, <1>2, <1>4 DEF LockInv, LockTypes, Removes, Behind
  <2>. QED  BY <1>1, <2>1 DEF LockInv, Alone
<1>. QED  BY <1>5, <1>6, <1>7, <1>8, <1>9, <1>10 DEF LockInv

(* A claim that is free is taken; a dead one makes the chain longer. *)
LEMMA ClaimLock ==
    ASSUME LockInv, NEW w \in Contenders, OpLock!Claim(w)
    PROVE  LockInv'
<1>0. /\ w \in alive /\ at[w] = "claiming" /\ alive' = alive /\ path' = path
      /\ key[w] \in Seq(Contenders) /\ Len(key[w]) \in Nat /\ Len(key[w]) >= 1
  BY Roots DEF OpLock!Claim, OpLock!At, Recovers
<1>1. CASE key[w] \notin DOMAIN claims
  <2>1. /\ claims' = [c \in DOMAIN claims \cup {key[w]} |-> IF c = key[w] THEN w ELSE claims[c]]
        /\ at' = [at EXCEPT ![w] = "checking"] /\ key' = key
    BY <1>1 DEF OpLock!Claim, OpLock!Go, OpLock!Held
  <2>2. \A k \in DOMAIN claims : k \in DOMAIN claims' /\ claims'[k] = claims[k]
    BY <1>1, <2>1
  <2>3. LockTypes'
    BY <1>0, <2>1 DEF LockInv, LockTypes, LockPlaces
  <2>4. Keyed'
    BY <1>0, <2>1 DEF LockInv, LockTypes, Keyed, Claiming, Holding, Behind
  <2>5. Holds'
    <3>. SUFFICES ASSUME NEW v \in alive, at'[v] \in Holding
                  PROVE  key[v] \in DOMAIN claims' /\ claims'[key[v]] = v
      BY <1>0, <2>1 DEF Holds
    <3>1. CASE v = w
      BY <2>1, <3>1
    <3>2. CASE v # w
      BY <2>1, <2>2, <3>2 DEF LockInv, LockTypes, Holds
    <3>. QED  BY <3>1, <3>2
  <2>6. Chains'
    <3>. SUFFICES ASSUME NEW v \in alive, (at'[v] \in Claiming /\ path = key[v][1]) \/ at'[v] \in Behind
                  PROVE  Linked(key[v], claims')
      BY <1>0, <2>1 DEF Chains
    <3>1. Linked(key[v], claims)
      BY <1>0, <2>1 DEF LockInv, LockTypes, Chains, Claiming, Behind
    <3>. QED  BY <2>2, <3>1 DEF Linked
  <2>7. Paths'
    BY <1>0, <2>1 DEF LockInv, LockTypes, Paths, Behind
  <2>8. Alone'
    <3>1. \A v \in alive : Removes(v)' => Removes(v)
      BY <1>0, <2>1 DEF LockInv, LockTypes, Removes, Behind
    <3>. QED  BY <1>0, <2>1, <3>1 DEF LockInv, Alone
  <2>. QED  BY <2>3, <2>4, <2>5, <2>6, <2>7, <2>8 DEF LockInv
<1>2. CASE key[w] \in DOMAIN claims /\ at' = [at EXCEPT ![w] = "refused"] /\ UNCHANGED <<claims, key>>
  <2>1. LockTypes' /\ Keyed'
    BY <1>0, <1>2 DEF LockInv, LockTypes, LockPlaces, Keyed, Claiming, Holding, Behind
  <2>2. Holds' /\ Paths'
    BY <1>0, <1>2 DEF LockInv, LockTypes, Holds, Holding, Paths, Behind
  <2>3. Chains'
    BY <1>0, <1>2 DEF LockInv, LockTypes, Chains, Claiming, Behind, Linked
  <2>4. Alone'
    <3>1. \A v \in alive : Removes(v)' => Removes(v)
      BY <1>0, <1>2 DEF LockInv, LockTypes, Removes, Behind
    <3>. QED  BY <1>0, <1>2, <3>1 DEF LockInv, Alone
  <2>. QED  BY <2>1, <2>2, <2>3, <2>4 DEF LockInv
<1>3. CASE /\ key[w] \in DOMAIN claims /\ claims[key[w]] \notin alive /\ at' = at /\ claims' = claims
           /\ key' = [key EXCEPT ![w] = Append(@, claims[key[w]])]
  <2>. DEFINE longer == Append(key[w], claims[key[w]])
  <2>1. claims[key[w]] \in Contenders
    BY <1>3 DEF LockInv, LockTypes
  <2>2. /\ longer \in Seq(Contenders) /\ longer # <<>> /\ Len(longer) = Len(key[w]) + 1
        /\ longer[Len(key[w]) + 1] = claims[key[w]]
        /\ \A i \in 1..Len(key[w]) : longer[i] = key[w][i]
    BY <1>0, <2>1
  <2>. HIDE DEF longer
  <2>3. key'[w] = longer /\ key' \in [Contenders -> Seq(Contenders)] /\ \A v \in Contenders \ {w} : key'[v] = key[v]
    BY <1>3, <2>2 DEF LockInv, LockTypes, longer
  <2>4. LockTypes'
    BY <1>0, <1>3, <2>3 DEF LockInv, LockTypes
  <2>5. Keyed'
    <3>. SUFFICES ASSUME NEW v \in Contenders, at[v] \in Claiming \cup Holding \cup Behind
                  PROVE  key'[v] # <<>> /\ \A i \in 1..Len(key'[v]) : key'[v][i] \notin alive
      BY <1>0, <1>3 DEF Keyed
    <3>1. key[v] # <<>> /\ \A i \in 1..Len(key[v]) : key[v][i] \notin alive
      BY DEF LockInv, Keyed
    <3>2. CASE v = w
      BY <1>0, <1>3, <2>2, <2>3, <3>1, <3>2
    <3>3. CASE v # w
      BY <2>3, <3>1, <3>3
    <3>. QED  BY <3>2, <3>3
  <2>6. Holds'
    BY <1>0, <1>3, <2>3 DEF LockInv, LockTypes, Holds, Holding
  <2>7. Chains'
    <3>. SUFFICES ASSUME NEW v \in alive, (at[v] \in Claiming /\ path = key'[v][1]) \/ at[v] \in Behind
                  PROVE  Linked(key'[v], claims)
      BY <1>0, <1>3 DEF Chains
    <3>1. CASE v # w
      BY <2>3, <3>1 DEF LockInv, LockTypes, Chains
    <3>2. CASE v = w
      <4>1. Linked(key[w], claims)
        <5>1. at[w] \in Claiming /\ at[w] \notin Behind
          BY <1>0 DEF Claiming, Behind
        <5>2. longer[1] = key[w][1]
          BY <1>0, <2>2
        <5>3. path = key[w][1]
          BY <2>3, <3>2, <5>1, <5>2
        <5>. QED  BY <1>0, <5>1, <5>3 DEF LockInv, Chains
      <4>2. ASSUME NEW i \in 1..Len(key[w])
            PROVE  SubSeq(longer, 1, i) = SubSeq(key[w], 1, i)
        BY <1>0, <2>2
      <4>3. ASSUME NEW i \in 1..Len(key[w])
            PROVE  SubSeq(key[w], 1, i) \in DOMAIN claims /\ claims[SubSeq(key[w], 1, i)] = longer[i + 1]
        <5>1. CASE i = Len(key[w])
          <6>1. SubSeq(key[w], 1, i) = key[w]
            BY <1>0, <5>1
          <6>. QED  BY <1>3, <2>2, <5>1, <6>1, Zenon
        <5>2. CASE i # Len(key[w])
          <6>1. i \in 1..(Len(key[w]) - 1) /\ i + 1 \in 1..Len(key[w])
            BY <1>0, <5>2
          <6>. QED  BY <2>2, <4>1, <6>1 DEF Linked
        <5>. QED  BY <5>1, <5>2
      <4>4. ASSUME NEW i \in 1..Len(key[w])
            PROVE  SubSeq(longer, 1, i) \in DOMAIN claims /\ claims[SubSeq(longer, 1, i)] = longer[i + 1]
        BY <4>2, <4>3, Zenon
      <4>5. 1..(Len(longer) - 1) = 1..Len(key[w])
        BY <1>0, <2>2
      <4>. QED  BY <2>3, <3>2, <4>4, <4>5 DEF Linked
    <3>. QED  BY <3>1, <3>2
  <2>8. Paths'
    BY <1>0, <1>3, <2>3 DEF LockInv, LockTypes, Paths, Behind
  <2>9. Alone'
    <3>1. \A v \in alive : Removes(v)' => Removes(v) /\ key'[v] = key[v]
      BY <1>0, <1>3, <2>3 DEF LockInv, LockTypes, Removes, Behind
    <3>. QED  BY <1>0, <3>1 DEF LockInv, Alone
  <2>. QED  BY <2>4, <2>5, <2>6, <2>7, <2>8, <2>9 DEF LockInv
<1>. QED
  BY <1>1, <1>2, <1>3 DEF OpLock!Claim, OpLock!Go

LEMMA LockStep ==
    /\ OpLock!Init => LockInv
    /\ LockInv /\ [OpLock!Next]_(OpLock!vars) => LockInv'
<1>1. ASSUME OpLock!Init PROVE LockInv
  BY <1>1 DEF OpLock!Init, LockInv, LockTypes, LockPlaces, Keyed, Holds, Chains, Paths, Alone, Removes, Claiming, Holding, Behind
<1>2. ASSUME LockInv, UNCHANGED OpLock!vars PROVE LockInv'
  BY <1>2 DEF OpLock!vars, LockInv, LockTypes, Keyed, Holds, Chains, Paths, Alone, Removes
<1>3. ASSUME LockInv, OpLock!Next PROVE LockInv'
  BY <1>3, StartLock, ClaimLock, CheckLock, ReclaimLock, DropClaimLock, DropAbandonedLock, LinkLock, ReleaseLock, EndLock
     DEF OpLock!Next
<1>. QED  BY <1>1, <1>2, <1>3

-----------------------------------------------------------------------------
LockPart == part = "lock" => LockInv

LEMMA LockPartHolds ==
    /\ AgentFlowInit => LockPart
    /\ LockPart /\ [AgentFlowNext]_all => LockPart'
<1>1. ASSUME AgentFlowInit PROVE LockPart
  <2>1. part = "lock" => OpLock!Init
    BY <1>1 DEF AgentFlowInit
  <2>. QED  BY <2>1, LockStep DEF LockPart
<1>2. ASSUME LockPart, [AgentFlowNext]_all PROVE LockPart'
  <2>. SUFFICES ASSUME part' = "lock" PROVE LockInv'
    BY DEF LockPart
  <2>1. part = "lock" /\ [OpLock!Next]_(OpLock!vars)
    BY <1>2 DEF AgentFlowNext, all, locking, OpLock!vars
  <2>. QED  BY <1>2, <2>1, LockStep DEF LockPart
<1>. QED  BY <1>1, <1>2

(* One live process at a time works under the adoption lock, which is its  *)
(* own for as long, and at most one is about to remove a dead writer's     *)
(* (the claims of operation-lock.mjs), for any number of processes, chains *)
(* of any length and ends at any step.                                     *)
THEOREM OneWriterHolds == AgentFlowSpec => []OneWriter
<1>1. LockPart => OneWriter
  BY DEF LockPart, OneWriter, LockInv, LockTypes, Paths, Alone, Removes, OpLock!OneWriter, OpLock!OneReclaims, OpLock!At
<1>. QED  BY <1>1, LockPartHolds, PTL DEF AgentFlowSpec
=============================================================================
