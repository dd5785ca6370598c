--------------------------- MODULE SelfFilesProofs ---------------------------
(***************************************************************************)
(* The files of a self that several processes write, proved for any plans  *)
(* and requests, of any length and kind, over any documents, and any       *)
(* number of processes.                                                    *)
(*                                                                         *)
(* Plans are applied whole or not at all, with a receipt for good; replays *)
(* are true; what others have saved stays.  The lock can be taken from a   *)
(* live applier, so the argument has a part that never needs it (Receipts) *)
(* and a part that holds until a lock is taken from its holder             *)
(* (Undisturbed).  The Workbench follows, with its own invariant, and then *)
(* the reviews: one reviewer at a time decides under the lock, and what it *)
(* was shown tells, item by item, what the documents are (ReviewInv).      *)
(***************************************************************************)
EXTENDS MCSelfFiles, FiniteSetTheorems, NaturalsInduction, WellFoundedInduction, TLAPS

(* Who is past the creation of the lock file and before its removal. *)
Holding == Inside \ {"failing"}

Types ==
    /\ ownerWaits \in BOOLEAN
    /\ lock \in Procs \cup {Nobody}
    /\ at \in [Procs -> Active \cup Ended \cup {"idle"}]
    /\ \A p \in Appliers : at[p] \notin {"calling", "holding", "planned", "finishing"}
    /\ \A u \in Callers : at[u] \in {"idle", "calling", "holding", "planned", "finishing"} \cup Ended
    /\ plan \in [Appliers -> Plans \cup {Nobody}]
    /\ done \in [Appliers -> Nat]
    /\ made \in SUBSET Appliers
    /\ doc \in [Files -> Writers]
    /\ receipt \in [Plans -> {"none", "empty", "whole"}]
    /\ torn \in SUBSET Plans
    /\ robbed \in BOOLEAN

(* An applier at work has a plan and has not done more than its steps. *)
Busy(p) == at[p] \in Writing \cup {"locking", "freeing", "failing", "closing", "applied"}

Progress(p) ==
    /\ at[p] \in Writing => done[p] <= Len(Steps[plan[p]])
    /\ at[p] \in {"checking", "writing"} => done[p] < Len(Steps[plan[p]])
    /\ at[p] \in {"recording", "filling"} => done[p] = Len(Steps[plan[p]])
    /\ at[p] \in {"idle", "locking"} => done[p] = 0

AtWork == \A p \in Appliers : (Busy(p) => plan[p] \in Plans) /\ Progress(p)

(* The receipt of a plan is one applier's, from its creation on. *)
Owns(p) == at[p] = "applied" \/ (p \in made /\ at[p] \in {"filling", "undoing", "closing"})

Receipts ==
    /\ \A p \in made : at[p] \in {"filling", "undoing", "closing", "freeing", "failing"}
    /\ \A p \in Appliers : at[p] \in {"filling", "closing"} => p \in made
    /\ \A p \in made : at[p] \in {"filling", "undoing"} => receipt[plan[p]] = "empty"
    /\ \A p \in Appliers : at[p] \in {"closing", "applied"} => receipt[plan[p]] = "whole"
    /\ \A p, q \in Appliers : Owns(p) /\ Owns(q) /\ plan[p] = plan[q] => p = q

(* The documents of the operations of p that stand. *)
Stand(p) == {Steps[plan[p]][i] : i \in 1 .. done[p]}

OneHolder == \A p \in Procs : at[p] \in Holding => lock = p

(* A plan with a receipt has changed all its documents, ... *)
Recorded == \A x \in Plans : receipt[x] = "whole" => \A f \in Touches(x) : doc[f] # Orig

Written ==
    \A p \in Appliers :
        at[p] \in Writing \ {"undoing"} => \A f \in Stand(p) : doc[f] # Orig

(* ... and nobody undoes one of them, as it was no original to begin with. *)
Spared ==
    \A p \in Appliers : at[p] \in Writing =>
        \A x \in Plans : receipt[x] = "whole" =>
            /\ \A f \in Stand(p) : f \notin Touches(x)
            /\ at[p] = "writing" => Next1(p) \notin Touches(x)

(* A plan without a receipt, that nothing cut, is somebody's who works. *)
Accounted ==
    \A x \in Plans, f \in Files : x \notin torn /\ receipt[x] # "whole" /\ doc[f] = x =>
        \E p \in Appliers : plan[p] = x /\ at[p] \in Writing /\ f \in Stand(p)

(* If the owner waits, nobody writes to what a plan has checked. *)
Checked ==
    ownerWaits => \A p \in Appliers : at[p] \in Writing =>
        /\ at[p] = "writing" => doc[Next1(p)] = Orig
        /\ \A f \in Stand(p) : doc[f] \notin Callers \cup {Owner}

Undisturbed == OneHolder /\ Recorded /\ Written /\ Spared /\ Accounted /\ Checked

Inv == Types /\ AtWork /\ Receipts /\ (~robbed => Undisturbed)

Base == Types /\ AtWork /\ Receipts

-----------------------------------------------------------------------------
LEMMA StepsAreFiles ==
    ASSUME NEW x \in Plans
    PROVE  /\ Len(Steps[x]) \in Nat \ {0} /\ DOMAIN Steps[x] = 1 .. Len(Steps[x])
           /\ \A i \in 1 .. Len(Steps[x]) : Steps[x][i] \in Files
<1>1. Steps[x] \in Seq(Files) /\ Steps[x] # <<>>
  BY StepsAssumption
<1> QED BY <1>1

LEMMA InitInv == Init => Inv
<1> SUFFICES ASSUME Init PROVE Inv
  OBVIOUS
<1> USE DEF Init
<1>1. Types
  BY DEF Types, Procs, Writers, Active, Inside, Writing, Ended
<1>2. AtWork /\ Receipts
  BY NamesAssumption DEF AtWork, Busy, Progress, Receipts, Owns, Writing, Procs
<1>3. Undisturbed
  BY NamesAssumption
     DEF Undisturbed, OneHolder, Recorded, Written, Spared, Accounted, Checked, Holding, Inside,
         Writing, Procs
<1> QED BY <1>1, <1>2, <1>3 DEF Inv

(* What an applier does keeps the types, ... *)
LEMMA ApplyTypes ==
    ASSUME Types, AtWork, NEW p \in Appliers,
           Apply(p) \/ UnrecordFails(p) \/ \E x \in Plans : Look(p, x)
    PROVE  Types'
<1> USE NamesAssumption
    DEF Types, AtWork, Busy, Progress, Active, Inside, Writing, Ended, Procs, Writers, Go, End,
        RemoveLock, files, history
<1>1. ASSUME NEW x \in Plans, Look(p, x) PROVE Types'
  BY <1>1 DEF Look, Verdict
<1>2. CASE Take(p)
  BY <1>2 DEF Take
<1>3. CASE TakeFails(p)
  BY <1>3 DEF TakeFails
<1>4. CASE Check(p)
  BY <1>4 DEF Check
<1>5. CASE Write(p)
  <2>1. plan[p] \in Plans
    BY <1>5 DEF Write
  <2>2. doc' \in [Files -> Writers]
    BY <1>5, <2>1 DEF Write
  <2> QED BY <1>5, <2>2 DEF Write
<1>6. CASE Record(p)
  BY <1>6 DEF Record
<1>7. CASE Fill(p)
  BY <1>7 DEF Fill
<1>8. CASE Error(p)
  BY <1>8 DEF Error
<1>9. CASE Undo(p)
  <2>1. doc' \in [Files -> Writers]
    BY <1>9 DEF Undo
  <2> QED BY <1>9, <2>1 DEF Undo
<1>10. CASE UndoFails(p)
  BY <1>10 DEF UndoFails
<1>11. CASE Unrecord(p)
  BY <1>11 DEF Unrecord
<1>12. CASE UnrecordFails(p)
  BY <1>12 DEF UnrecordFails
<1>13. CASE Free(p)
  BY <1>13 DEF Free
<1>14. CASE Close(p)
  BY <1>14 DEF Close
<1> QED BY <1>1, <1>2, <1>3, <1>4, <1>5, <1>6, <1>7, <1>8, <1>9, <1>10, <1>11, <1>12, <1>13, <1>14
        DEF Apply

(* ... its progress through its plan ... *)
LEMMA ApplyAtWork ==
    ASSUME Types, AtWork, NEW p \in Appliers,
           Apply(p) \/ UnrecordFails(p) \/ \E x \in Plans : Look(p, x)
    PROVE  AtWork'
<1> USE NamesAssumption
    DEF Types, AtWork, Busy, Progress, Active, Inside, Writing, Ended, Procs, Writers, Go, End,
        RemoveLock, files, history
<1>1. ASSUME NEW x \in Plans, Look(p, x) PROVE AtWork'
  BY <1>1, StepsAreFiles DEF Look, Verdict
<1>2. CASE Take(p)
  BY <1>2, StepsAreFiles DEF Take
<1>3. CASE TakeFails(p)
  BY <1>3, StepsAreFiles DEF TakeFails
<1>4. CASE Check(p)
  BY <1>4, StepsAreFiles DEF Check
<1>5. CASE Write(p)
  BY <1>5, StepsAreFiles DEF Write
<1>6. CASE Record(p)
  BY <1>6, StepsAreFiles DEF Record
<1>7. CASE Fill(p)
  BY <1>7, StepsAreFiles DEF Fill
<1>8. CASE Error(p)
  BY <1>8, StepsAreFiles DEF Error
<1>9. CASE Undo(p)
  BY <1>9, StepsAreFiles DEF Undo
<1>10. CASE UndoFails(p)
  BY <1>10, StepsAreFiles DEF UndoFails
<1>11. CASE Unrecord(p)
  BY <1>11, StepsAreFiles DEF Unrecord
<1>12. CASE UnrecordFails(p)
  BY <1>12, StepsAreFiles DEF UnrecordFails
<1>13. CASE Free(p)
  BY <1>13, StepsAreFiles DEF Free
<1>14. CASE Close(p)
  BY <1>14, StepsAreFiles DEF Close
<1> QED BY <1>1, <1>2, <1>3, <1>4, <1>5, <1>6, <1>7, <1>8, <1>9, <1>10, <1>11, <1>12, <1>13, <1>14
        DEF Apply

(* ... and whose receipt is whose. *)
LEMMA ApplyReceipts ==
    ASSUME Types, AtWork, Receipts, NEW p \in Appliers,
           Apply(p) \/ UnrecordFails(p) \/ \E x \in Plans : Look(p, x)
    PROVE  Receipts'
<1> USE NamesAssumption
    DEF Types, AtWork, Busy, Progress, Active, Inside, Writing, Ended, Procs, Writers, Go, End,
        RemoveLock, files, history, Receipts, Owns
<1>1. ASSUME NEW x \in Plans, Look(p, x) PROVE Receipts'
  BY <1>1 DEF Look, Verdict
<1>2. CASE Take(p)
  BY <1>2 DEF Take
<1>3. CASE TakeFails(p)
  BY <1>3 DEF TakeFails
<1>4. CASE Check(p)
  BY <1>4 DEF Check
<1>5. CASE Write(p)
  BY <1>5 DEF Write
<1>6. CASE Record(p)
  BY <1>6 DEF Record
<1>7. CASE Fill(p)
  BY <1>7 DEF Fill
<1>8. CASE Error(p)
  BY <1>8 DEF Error
<1>9. CASE Undo(p)
  BY <1>9 DEF Undo
<1>10. CASE UndoFails(p)
  BY <1>10 DEF UndoFails
<1>11. CASE Unrecord(p)
  BY <1>11 DEF Unrecord
<1>12. CASE UnrecordFails(p)
  BY <1>12 DEF UnrecordFails
<1>13. CASE Free(p)
  BY <1>13 DEF Free
<1>14. CASE Close(p)
  BY <1>14 DEF Close
<1> QED BY <1>1, <1>2, <1>3, <1>4, <1>5, <1>6, <1>7, <1>8, <1>9, <1>10, <1>11, <1>12, <1>13, <1>14
        DEF Apply


(* A call under the registry lock, the owner and a crash do, too. *)
Beside ==
    \/ \E u \in Callers : Call(u) \/ Acquire(u) \/ Break(u) \/ GiveUp(u) \/ Read(u) \/ Save(u) \/ Leave(u)
    \/ \E f \in Files : OwnerSave(f)
    \/ \E p \in Procs : Crash(p)

LEMMA OtherBase ==
    ASSUME Base, Beside
    PROVE  Base'
<1> USE NamesAssumption
    DEF Base, Types, AtWork, Receipts, Owns, Busy, Progress, Active, Inside, Writing, Ended, Procs,
        Writers, Go, End, RemoveLock, files, history
<1>1. ASSUME NEW u \in Callers, Call(u) PROVE Base'
  BY <1>1 DEF Call
<1>2. ASSUME NEW u \in Callers, Acquire(u) PROVE Base'
  BY <1>2 DEF Acquire
<1>3. ASSUME NEW u \in Callers, Break(u) PROVE Base'
  BY <1>3 DEF Break
<1>4. ASSUME NEW u \in Callers, GiveUp(u) PROVE Base'
  BY <1>4 DEF GiveUp
<1>5. ASSUME NEW u \in Callers, Read(u) PROVE Base'
  BY <1>5 DEF Read
<1>6. ASSUME NEW u \in Callers, Save(u) PROVE Base'
  <2>1. doc' \in [Files -> Writers]
    BY <1>6 DEF Save
  <2> QED BY <1>6, <2>1 DEF Save
<1>7. ASSUME NEW u \in Callers, Leave(u) PROVE Base'
  BY <1>7 DEF Leave
<1>8. ASSUME NEW f \in Files, OwnerSave(f) PROVE Base'
  BY <1>8 DEF OwnerSave
<1>9. ASSUME NEW p \in Procs, Crash(p) PROVE Base'
  BY <1>9 DEF Crash
<1> QED BY <1>1, <1>2, <1>3, <1>4, <1>5, <1>6, <1>7, <1>8, <1>9 DEF Beside

-----------------------------------------------------------------------------
(* What stands when one more operation stands, or one less. *)
LEMMA StandFacts ==
    ASSUME Types, AtWork, NEW p \in Appliers, at[p] \in Writing
    PROVE  /\ plan[p] \in Plans
           /\ Stand(p) \subseteq Touches(plan[p])
           /\ Touches(plan[p]) \subseteq Files
           /\ at[p] \in {"checking", "writing"} => Next1(p) \in Touches(plan[p])
           /\ done[p] > 0 => LastDone(p) \in Stand(p)
           /\ at[p] \in {"recording", "filling"} => Stand(p) = Touches(plan[p])
<1>1. plan[p] \in Plans /\ done[p] \in Nat /\ done[p] <= Len(Steps[plan[p]])
  BY DEF Types, AtWork, Busy, Progress
<1>2. /\ Len(Steps[plan[p]]) \in Nat \ {0} /\ DOMAIN Steps[plan[p]] = 1 .. Len(Steps[plan[p]])
      /\ \A i \in 1 .. Len(Steps[plan[p]]) : Steps[plan[p]][i] \in Files
  BY <1>1, StepsAreFiles
<1>3. at[p] \in {"checking", "writing"} => done[p] < Len(Steps[plan[p]])
  BY DEF AtWork, Progress
<1>4. at[p] \in {"recording", "filling"} => done[p] = Len(Steps[plan[p]])
  BY DEF AtWork, Progress
<1> QED BY <1>1, <1>2, <1>3, <1>4 DEF Stand, Touches, Next1, LastDone

(* As long as no lock is taken from its holder, there is one holder. *)
LEMMA ApplyOneHolder ==
    ASSUME Base, Undisturbed, ~robbed, ~robbed', NEW p \in Appliers,
           Apply(p) \/ UnrecordFails(p) \/ \E x \in Plans : Look(p, x)
    PROVE  OneHolder'
<1> USE NamesAssumption
    DEF Base, Types, AtWork, Busy, Inside, Writing, Holding, Procs, Go, End, RemoveLock, files,
        history, Undisturbed, OneHolder
<1>1. ASSUME NEW x \in Plans, Look(p, x) PROVE OneHolder'
  BY <1>1 DEF Look, Verdict
<1>2. CASE Take(p)
  BY <1>2 DEF Take
<1>3. CASE TakeFails(p)
  BY <1>3 DEF TakeFails
<1>4. CASE Check(p)
  BY <1>4 DEF Check
<1>5. CASE Write(p)
  BY <1>5 DEF Write
<1>6. CASE Record(p)
  BY <1>6 DEF Record
<1>7. CASE Fill(p)
  BY <1>7 DEF Fill
<1>8. CASE Error(p)
  BY <1>8 DEF Error
<1>9. CASE Undo(p)
  BY <1>9 DEF Undo
<1>10. CASE UndoFails(p)
  BY <1>10 DEF UndoFails
<1>11. CASE Unrecord(p)
  BY <1>11 DEF Unrecord
<1>12. CASE UnrecordFails(p)
  BY <1>12 DEF UnrecordFails
<1>13. CASE Free(p)
  BY <1>13 DEF Free
<1>14. CASE Close(p)
  BY <1>14 DEF Close
<1> QED BY <1>1, <1>2, <1>3, <1>4, <1>5, <1>6, <1>7, <1>8, <1>9, <1>10, <1>11, <1>12, <1>13, <1>14
        DEF Apply

LEMMA OtherOneHolder ==
    ASSUME Base, Undisturbed, ~robbed, ~robbed', Beside
    PROVE  OneHolder'
<1> USE NamesAssumption
    DEF Base, Types, AtWork, Busy, Inside, Writing, Holding, Procs, Go, End, RemoveLock, files,
        history, Undisturbed, OneHolder
<1>1. ASSUME NEW u \in Callers, Call(u) \/ Acquire(u) \/ GiveUp(u) \/ Read(u) \/ Save(u) PROVE OneHolder'
  BY <1>1 DEF Call, Acquire, GiveUp, Read, Save
<1>2. ASSUME NEW u \in Callers, Break(u) PROVE OneHolder'
  BY <1>2 DEF Break
<1>3. ASSUME NEW u \in Callers, Leave(u) PROVE OneHolder'
  BY <1>3 DEF Leave
<1>4. ASSUME NEW f \in Files, OwnerSave(f) PROVE OneHolder'
  BY <1>4 DEF OwnerSave
<1>5. ASSUME NEW p \in Procs, Crash(p) PROVE OneHolder'
  BY <1>5 DEF Crash
<1> QED BY <1>1, <1>2, <1>3, <1>4, <1>5 DEF Beside

(***************************************************************************)
(* A quiet step changes no document and no whole receipt.  It leaves what  *)
(* an applier has done, unless nothing stands or it cuts the plan; and a   *)
(* document that is to be written next was found to be the original.       *)
(***************************************************************************)
Stays(q) ==
    at[q] \in Writing =>
        \/ at'[q] \in Writing /\ plan'[q] = plan[q] /\ Stand(q)' = Stand(q)
        \/ Stand(q) = {}
        \/ plan[q] \in torn'

Grows(q) ==
    at'[q] \in Writing =>
        /\ Stand(q)' = {} \/ (at[q] \in Writing /\ Stand(q)' \subseteq Stand(q))
        /\ at'[q] # "undoing" => Stand(q)' = {} \/ at[q] # "undoing"
        /\ at'[q] = "writing" => \/ at[q] = "writing" /\ Next1(q)' = Next1(q)
                                 \/ doc[Next1(q)'] = Orig

Quiet ==
    /\ doc' = doc /\ ownerWaits' = ownerWaits /\ torn \subseteq torn'
    /\ \A x \in Plans : receipt'[x] = "whole" <=> receipt[x] = "whole"
    /\ \A q \in Appliers : Stays(q) /\ Grows(q)

LEMMA QuietUndisturbed ==
    ASSUME Undisturbed, Quiet, OneHolder'
    PROVE  Undisturbed'
<1> USE DEF Undisturbed, Quiet
<1>1. Recorded'
  BY DEF Recorded, Touches
<1>2. Written'
  BY DEF Written, Grows
<1>3. Spared'
  BY DEF Spared, Grows, Recorded, Touches
<1>4. Accounted'
  BY DEF Accounted, Stays
<1>5. Checked'
  BY DEF Checked, Grows
<1> QED BY <1>1, <1>2, <1>3, <1>4, <1>5

LEMMA ApplyQuiet ==
    ASSUME Base, NEW p \in Appliers,
           \/ \E x \in Plans : Look(p, x)
           \/ Take(p) \/ TakeFails(p) \/ Check(p) \/ Record(p) \/ Error(p) \/ UndoFails(p)
           \/ Unrecord(p) \/ UnrecordFails(p) \/ Free(p) \/ Close(p)
    PROVE  Quiet
<1> USE NamesAssumption
    DEF Base, Types, AtWork, Busy, Progress, Receipts, Inside, Active, Ended, Writing, Procs, Go, End,
        RemoveLock, files, history, Quiet, Stays, Grows, Stand, Next1
<1>1. ASSUME NEW x \in Plans, Look(p, x) PROVE Quiet
  BY <1>1 DEF Look, Verdict
<1>2. CASE Take(p)
  BY <1>2 DEF Take
<1>3. CASE TakeFails(p)
  BY <1>3 DEF TakeFails
<1>4. CASE Check(p)
  BY <1>4 DEF Check
<1>5. CASE Record(p)
  BY <1>5 DEF Record
<1>6. CASE Error(p)
  BY <1>6 DEF Error
<1>7. CASE UndoFails(p)
  BY <1>7 DEF UndoFails
<1>8. CASE Unrecord(p)
  BY <1>8 DEF Unrecord
<1>9. CASE UnrecordFails(p)
  BY <1>9 DEF UnrecordFails
<1>10. CASE Free(p)
  BY <1>10 DEF Free
<1>11. CASE Close(p)
  BY <1>11 DEF Close
<1> QED BY <1>1, <1>2, <1>3, <1>4, <1>5, <1>6, <1>7, <1>8, <1>9, <1>10, <1>11

LEMMA OtherQuiet ==
    ASSUME Base,
           \/ \E u \in Callers : Call(u) \/ Acquire(u) \/ Break(u) \/ GiveUp(u) \/ Read(u) \/ Leave(u)
           \/ \E p \in Procs : Crash(p)
    PROVE  Quiet
<1> USE NamesAssumption
    DEF Base, Types, AtWork, Busy, Progress, Receipts, Inside, Active, Ended, Writing, Procs, Go, End,
        RemoveLock, files, history, Quiet, Stays, Grows, Stand, Next1
<1>1. ASSUME NEW u \in Callers, Call(u) \/ Acquire(u) \/ Break(u) \/ GiveUp(u) \/ Read(u) \/ Leave(u)
      PROVE  Quiet
  BY <1>1 DEF Call, Acquire, Break, GiveUp, Read, Leave
<1>2. ASSUME NEW p \in Procs, Crash(p) PROVE Quiet
  BY <1>2 DEF Crash
<1> QED BY <1>1, <1>2

(* The holder of the lock is the only one at work. *)
LEMMA AloneAtWork ==
    ASSUME Base, Undisturbed, NEW p \in Procs, at[p] \in Holding, NEW q \in Appliers, q # p
    PROVE  at[q] \notin Writing
BY NamesAssumption DEF Base, Types, Undisturbed, OneHolder, Holding, Inside, Writing, Procs

LEMMA WriteUndisturbed ==
    ASSUME Base, Undisturbed, OneHolder', NEW p \in Appliers, Write(p)
    PROVE  Undisturbed'
<1> DEFINE n == Next1(p)
           x == plan[p]
<1>1. /\ at[p] = "writing" /\ at[p] \in Writing /\ at[p] \in Holding /\ x \in Plans
      /\ at'[p] \in {"checking", "recording"} /\ plan' = plan /\ receipt' = receipt
      /\ ownerWaits' = ownerWaits /\ torn' = torn
      /\ \A q \in Appliers : q # p => at'[q] = at[q]
  BY DEF Write, Go, Base, Types, AtWork, Busy, Writing, Holding, Inside, Procs, files, history
<1>2. n \in Files /\ n \in Touches(x)
  BY <1>1, StandFacts DEF Base
<1>3. Stand(p)' = Stand(p) \cup {n}
  BY <1>1 DEF Write, Stand, Next1, Base, Types
<1>4. \A f \in Files : f # n => doc'[f] = doc[f]
  BY <1>1, <1>2 DEF Write, Base, Types, Next1
<1>5. doc'[n] = x \/ (doc'[n] = doc[n] /\ doc[n] # Orig)
  BY <1>1, <1>2 DEF Write, Base, Types, Next1
<1>6. \A q \in Appliers : q # p => at[q] \notin Writing /\ at'[q] \notin Writing
  BY <1>1, AloneAtWork DEF Procs
<1>7. x # Orig /\ x \notin Callers \cup {Owner}
  BY <1>1, NamesAssumption
<1> HIDE DEF n, x
<1>8. \A y \in Plans : Touches(y) \subseteq Files
  BY StepsAreFiles DEF Touches
<1>9. Recorded'
  BY <1>1, <1>4, <1>5, <1>7, <1>8 DEF Undisturbed, Recorded, Touches
<1>10. Stand(p) \subseteq Files
  BY <1>1, StandFacts DEF Base
<1>11. Written'
  BY <1>1, <1>3, <1>4, <1>5, <1>6, <1>7, <1>10 DEF Undisturbed, Written, Writing
<1>12. Spared'
  BY <1>1, <1>3, <1>6 DEF Undisturbed, Spared, Writing, Touches, n
<1>13. Accounted'
  <2> SUFFICES ASSUME NEW y \in Plans, NEW f \in Files,
                      y \notin torn, receipt[y] # "whole", doc'[f] = y
               PROVE  plan[p] = y /\ at'[p] \in Writing /\ f \in Stand(p)'
    BY <1>1 DEF Accounted
  <2>1. doc[f] = y \/ (f = n /\ y = x)
    BY <1>4, <1>5
  <2>2. doc[f] = y => plan[p] = y /\ f \in Stand(p)
    BY <1>6 DEF Undisturbed, Accounted
  <2> QED BY <1>1, <1>3, <2>1, <2>2 DEF Writing, x
<1>14. Checked'
  BY <1>1, <1>3, <1>4, <1>5, <1>6, <1>7, <1>10 DEF Undisturbed, Checked, n
<1> QED BY <1>9, <1>11, <1>12, <1>13, <1>14 DEF Undisturbed

LEMMA UndoUndisturbed ==
    ASSUME Base, Undisturbed, OneHolder', NEW p \in Appliers, Undo(p)
    PROVE  Undisturbed'
<1> DEFINE l == LastDone(p)
<1>1. /\ at[p] = "undoing" /\ at[p] \in Writing /\ at[p] \in Holding /\ plan[p] \in Plans
      /\ at' = at /\ plan' = plan /\ receipt' = receipt
      /\ ownerWaits' = ownerWaits /\ torn' = torn /\ done[p] > 0
  BY DEF Undo, Base, Types, AtWork, Busy, Writing, Holding, Inside, Procs, files, history
<1>2. l \in Files /\ l \in Stand(p)
  BY <1>1, StandFacts DEF Base
<1>3. Stand(p)' \subseteq Stand(p) /\ Stand(p) \subseteq Stand(p)' \cup {l}
  BY <1>1 DEF Undo, Stand, LastDone, Base, Types
<1>4. doc'[l] = Orig /\ \A f \in Files : f # l => doc'[f] = doc[f]
  BY <1>2 DEF Undo, Base, Types
<1>5. \A q \in Appliers : q # p => at[q] \notin Writing
  BY <1>1, AloneAtWork DEF Procs
<1> HIDE DEF l
<1>6. \A y \in Plans : Touches(y) \subseteq Files /\ y # Orig
  BY StepsAreFiles, NamesAssumption DEF Touches
<1>7. Recorded'
  BY <1>1, <1>2, <1>4, <1>6 DEF Undisturbed, Recorded, Spared, Touches
<1>8. Written'
  BY <1>1, <1>5 DEF Written
<1>9. Spared'
  BY <1>1, <1>3, <1>5 DEF Undisturbed, Spared, Touches
<1>10. Accounted'
  <2> SUFFICES ASSUME NEW y \in Plans, NEW f \in Files,
                      y \notin torn, receipt[y] # "whole", doc'[f] = y
               PROVE  plan[p] = y /\ at'[p] \in Writing /\ f \in Stand(p)'
    BY <1>1 DEF Accounted
  <2>1. doc[f] = y /\ f # l
    BY <1>4, <1>6
  <2>2. plan[p] = y /\ f \in Stand(p)
    BY <1>5, <2>1 DEF Undisturbed, Accounted
  <2> QED BY <1>1, <1>3, <2>1, <2>2
<1>11. Checked'
  <2>1. Stand(p) \subseteq Files /\ Orig \notin Callers \cup {Owner}
    BY <1>1, StandFacts, NamesAssumption DEF Base
  <2> QED BY <1>1, <1>3, <1>4, <1>5, <2>1 DEF Undisturbed, Checked
<1> QED BY <1>7, <1>8, <1>9, <1>10, <1>11 DEF Undisturbed

LEMMA FillUndisturbed ==
    ASSUME Base, Undisturbed, OneHolder', NEW p \in Appliers, Fill(p)
    PROVE  Undisturbed'
<1>1. /\ at[p] = "filling" /\ at[p] \in Writing /\ at[p] \in Holding /\ plan[p] \in Plans
      /\ at'[p] = "closing" /\ doc' = doc /\ torn' = torn
      /\ \A q \in Appliers : q # p => at'[q] = at[q]
      /\ \A y \in Plans : receipt'[y] = IF y = plan[p] THEN "whole" ELSE receipt[y]
  BY DEF Fill, Go, Base, Types, AtWork, Busy, Writing, Holding, Inside, Procs, files, history
<1>2. \A q \in Appliers : at'[q] \notin Writing /\ (q # p => at[q] \notin Writing)
  BY <1>1, AloneAtWork DEF Procs, Writing
<1>3. Stand(p) = Touches(plan[p])
  BY <1>1, StandFacts DEF Base
<1>4. Recorded'
  BY <1>1, <1>3 DEF Undisturbed, Recorded, Written, Touches
<1>5. Written' /\ Spared' /\ Checked'
  BY <1>2 DEF Written, Spared, Checked
<1>6. Accounted'
  BY <1>1, <1>2 DEF Undisturbed, Accounted
<1> QED BY <1>4, <1>5, <1>6 DEF Undisturbed

(* Somebody else saves a document. *)
LEMMA SavedUndisturbed ==
    ASSUME Base, Undisturbed, OneHolder', NEW w \in Callers \cup {Owner}, NEW f,
           doc' = [doc EXCEPT ![f] = w], plan' = plan, done' = done, receipt' = receipt,
           torn' = torn, ownerWaits' = ownerWaits,
           \A q \in Appliers : at'[q] = at[q],
           ownerWaits \/ w # Owner => \A q \in Appliers : at[q] \notin Writing
    PROVE  Undisturbed'
<1>1. w # Orig /\ w \notin Plans
  BY NamesAssumption
<1>2. \A g \in Files : doc'[g] = doc[g] \/ doc'[g] = w
  BY DEF Base, Types
<1>3. \A q \in Appliers : Stand(q)' = Stand(q) /\ Next1(q)' = Next1(q)
  BY DEF Stand, Next1
<1>4. \A x \in Plans : Touches(x) \subseteq Files
  BY StepsAreFiles DEF Touches
<1>5. Recorded'
  BY <1>1, <1>2, <1>4 DEF Undisturbed, Recorded, Touches
<1>6. Written'
  BY <1>1, <1>2, <1>3, <1>4, StandFacts DEF Undisturbed, Written, Base
<1>7. Spared'
  BY <1>3 DEF Undisturbed, Spared, Touches
<1>8. Accounted'
  BY <1>1, <1>2, <1>3 DEF Undisturbed, Accounted
<1>9. Checked'
  BY DEF Undisturbed, Checked
<1> QED BY <1>5, <1>6, <1>7, <1>8, <1>9 DEF Undisturbed

LEMMA SaveUndisturbed ==
    ASSUME Base, Undisturbed, OneHolder', NEW u \in Callers, Save(u)
    PROVE  Undisturbed'
<1>1. at[u] \in Holding /\ u \in Procs /\ \A q \in Appliers : q # u /\ at'[q] = at[q]
  BY NamesAssumption DEF Save, Go, Holding, Inside, Procs, Base, Types
<1>2. \A q \in Appliers : at[q] \notin Writing
  BY <1>1, AloneAtWork
<1>3. /\ doc' = [doc EXCEPT ![target[u]] = u] /\ plan' = plan /\ done' = done
      /\ receipt' = receipt /\ torn' = torn /\ ownerWaits' = ownerWaits
  BY DEF Save, history
<1> QED BY <1>1, <1>2, <1>3, SavedUndisturbed

LEMMA OwnerSaveUndisturbed ==
    ASSUME Base, Undisturbed, OneHolder', NEW f \in Files, OwnerSave(f)
    PROVE  Undisturbed'
<1>1. /\ doc' = [doc EXCEPT ![f] = Owner] /\ plan' = plan /\ done' = done /\ at' = at
      /\ receipt' = receipt /\ torn' = torn /\ ownerWaits' = ownerWaits
      /\ ownerWaits => lock = Nobody
  BY DEF OwnerSave, history
<1>2. ownerWaits => \A q \in Appliers : at[q] \notin Writing
  BY <1>1, NamesAssumption DEF Undisturbed, OneHolder, Holding, Inside, Writing, Procs
<1> QED BY <1>1, <1>2, SavedUndisturbed

-----------------------------------------------------------------------------
LEMMA StepUndisturbed ==
    ASSUME Base, Undisturbed, ~robbed, ~robbed', Next
    PROVE  Undisturbed'
<1>1. CASE \E p \in Appliers : Apply(p) \/ UnrecordFails(p) \/ \E x \in Plans : Look(p, x)
  <2>1. PICK p \in Appliers : Apply(p) \/ UnrecordFails(p) \/ \E x \in Plans : Look(p, x)
    BY <1>1
  <2>2. OneHolder'
    BY <2>1, ApplyOneHolder
  <2>3. CASE Write(p) \/ Undo(p) \/ Fill(p)
    BY <2>2, <2>3, WriteUndisturbed, UndoUndisturbed, FillUndisturbed
  <2>4. CASE ~(Write(p) \/ Undo(p) \/ Fill(p))
    <3>1. Quiet
      BY <2>1, <2>4, ApplyQuiet DEF Apply
    <3> QED BY <2>2, <3>1, QuietUndisturbed
  <2> QED BY <2>3, <2>4
<1>2. CASE Beside
  <2>1. OneHolder'
    BY <1>2, OtherOneHolder
  <2>2. CASE \E u \in Callers : Save(u)
    BY <2>1, <2>2, SaveUndisturbed
  <2>3. CASE \E f \in Files : OwnerSave(f)
    BY <2>1, <2>3, OwnerSaveUndisturbed
  <2>4. CASE \/ \E u \in Callers : Call(u) \/ Acquire(u) \/ Break(u) \/ GiveUp(u) \/ Read(u) \/ Leave(u)
             \/ \E p \in Procs : Crash(p)
    BY <2>1, <2>4, OtherQuiet, QuietUndisturbed
  <2> QED BY <1>2, <2>2, <2>3, <2>4 DEF Beside
<1> QED BY <1>1, <1>2 DEF Next, Beside

(* A lock that was taken from its holder stays so remembered. *)
LEMMA RobbedStays == Next => (robbed => robbed')
BY DEF Next, Apply, Look, Take, TakeFails, Check, Write, Record, Fill, Error, Undo, UndoFails, Unrecord,
       UnrecordFails, Free, Close, Call, Acquire, Break, GiveUp, Read, Save, Leave, OwnerSave, Crash,
       RemoveLock, history

LEMMA NextInv == Inv /\ [Next]_vars => Inv'
<1> SUFFICES ASSUME Inv, [Next]_vars PROVE Inv'
  OBVIOUS
<1>1. CASE Next
  <2>1. Base
    BY DEF Inv, Base
  <2>2. Base'
    <3>1. ASSUME NEW p \in Appliers, Apply(p) \/ UnrecordFails(p) \/ \E x \in Plans : Look(p, x)
          PROVE  Base'
      BY <2>1, <3>1, ApplyTypes, ApplyAtWork, ApplyReceipts DEF Base
    <3> QED BY <1>1, <2>1, <3>1, OtherBase DEF Next, Beside
  <2>3. ASSUME ~robbed' PROVE Undisturbed'
    <3>1. ~robbed /\ Undisturbed
      BY <1>1, <2>3, RobbedStays DEF Inv
    <3> QED BY <1>1, <2>1, <2>3, <3>1, StepUndisturbed
  <2> QED BY <2>2, <2>3 DEF Inv, Base
<1>2. CASE UNCHANGED vars
  <2>1. UNCHANGED <<ownerWaits, lock, at, plan, done, made, doc, receipt, torn, robbed>>
    BY <1>2 DEF vars, files, history
  <2> QED BY <2>1
          DEF Inv, Types, AtWork, Busy, Progress, Receipts, Owns, Undisturbed, OneHolder, Recorded,
              Written, Spared, Accounted, Checked, Stand, Next1
<1> QED BY <1>1, <1>2

(* Inv always holds of the appliers of maintenance.mjs, cleanup.mjs and    *)
(* validate-fix.mjs: receipts are for good, and until a lock is taken from *)
(* its holder every document is accounted for by a plan.                   *)
THEOREM InvHolds == Spec => []Inv
BY InitInv, NextInv, PTL DEF Spec

(* Unless a lock is taken from its holder, a crash cuts a plan or undoing  *)
(* it fails, a plan has changed all its documents, with a receipt, or      *)
(* none; and the receipt of a plan that was reported as applied is there   *)
(* for good, whatever becomes of the lock.                                 *)
THEOREM AppliedWhole == Spec => []PlansAreWhole
<1>1. Inv => PlanIsWhole
  <2> SUFFICES ASSUME Inv, ~robbed, NEW x \in Plans, Settled(x)
               PROVE  IF receipt[x] = "whole" THEN \A f \in Touches(x) : doc[f] # Orig
                                              ELSE \A f \in Touches(x) : doc[f] # x
    BY DEF PlanIsWhole
  <2>1. Touches(x) \subseteq Files
    BY StepsAreFiles DEF Touches
  <2> QED BY <2>1 DEF Inv, Undisturbed, Recorded, Accounted, Settled
<1>2. Inv => AppliedHasReceipt
  BY DEF Inv, Receipts, AppliedHasReceipt
<1> QED BY <1>1, <1>2, InvHolds, PTL DEF PlansAreWhole

(* A plan that is reported as applied before stands in every document it   *)
(* names; and if the owner waits while the lock file is there, no step     *)
(* writes over what the owner or a reviewed change has saved.              *)
THEOREM NothingOverwritten == Spec => PlansKeepOthers
<1>1. Inv /\ [Next]_vars =>
        [\A p \in Appliers : at'[p] = "replayed" /\ at[p] # "replayed" =>
            \A f \in Touches(plan'[p]) : doc[f] = plan'[p]]_vars
  <2> SUFFICES ASSUME Inv, Next, NEW p \in Appliers, at'[p] = "replayed", at[p] # "replayed"
               PROVE  \A f \in Touches(plan'[p]) : doc[f] = plan'[p]
    OBVIOUS
  <2>1. at \in [Procs -> Active \cup Ended \cup {"idle"}] /\ plan \in [Appliers -> Plans \cup {Nobody}]
    BY DEF Inv, Types
  <2>2. PICK x \in Plans : Look(p, x)
    <3>1. ~\E q \in Procs : Crash(q)
      BY <2>1 DEF Crash, End, Go, Procs
    <3>2. ~\E u \in Callers : Call(u) \/ Acquire(u) \/ Break(u) \/ GiveUp(u) \/ Read(u) \/ Save(u) \/ Leave(u)
      BY <2>1 DEF Call, Acquire, Break, GiveUp, Read, Save, Leave, End, Go, Procs
    <3>3. ~\E f \in Files : OwnerSave(f)
      BY <2>1 DEF OwnerSave
    <3>4. \A q \in Appliers : ~Apply(q) /\ ~UnrecordFails(q)
      BY <2>1 DEF Apply, Take, TakeFails, Check, Write, Record, Fill, Error, Undo, UndoFails, Unrecord,
                  UnrecordFails, Free, Close, End, Go, Procs
    <3>5. PICK q \in Appliers : \E x \in Plans : Look(q, x)
      BY <3>1, <3>2, <3>3, <3>4 DEF Next
    <3>6. q = p
      BY <2>1, <3>5 DEF Look, Go, Procs
    <3> QED BY <3>5, <3>6
  <2>3. Verdict(x) = "replayed"
    BY <2>1, <2>2 DEF Look, Go, Procs
  <2>4. plan'[p] = x
    BY <2>1, <2>2, <2>3 DEF Look
  <2> QED BY <2>3, <2>4 DEF Verdict
<1>2. Inv /\ [Next]_vars =>
        [ownerWaits /\ ~robbed' =>
            \A f \in Files : doc[f] \in Callers \cup {Owner} => doc'[f] \in Callers \cup {Owner}]_vars
  <2> SUFFICES ASSUME Inv, Next, ownerWaits, ~robbed', NEW f \in Files, doc[f] \in Callers \cup {Owner}
               PROVE  doc'[f] \in Callers \cup {Owner}
    OBVIOUS
  <2>1. Checked /\ Base
    BY RobbedStays DEF Inv, Undisturbed, Base
  <2>2. doc \in [Files -> Writers]
    BY DEF Inv, Types
  <2>3. CASE \E p \in Appliers : Write(p)
    <3>1. PICK p \in Appliers : Write(p)
      BY <2>3
    <3>2. doc[Next1(p)] = Orig
      BY <2>1, <3>1 DEF Checked, Write, Writing
    <3> QED BY <2>2, <3>1, <3>2, NamesAssumption DEF Write
  <2>4. CASE \E p \in Appliers : Undo(p)
    <3>1. PICK p \in Appliers : Undo(p)
      BY <2>4
    <3>2. LastDone(p) \in Stand(p) /\ at[p] \in Writing
      BY <2>1, <3>1, StandFacts DEF Base, Types, Undo, Writing
    <3>3. f # LastDone(p)
      BY <2>1, <3>2 DEF Checked
    <3> QED BY <2>2, <3>1, <3>3 DEF Undo
  <2>5. CASE \E u \in Callers : Save(u)
    BY <2>2, <2>5 DEF Save
  <2>6. CASE \E g \in Files : OwnerSave(g)
    BY <2>2, <2>6 DEF OwnerSave
  <2>7. CASE /\ \A p \in Appliers : ~Write(p) /\ ~Undo(p)
             /\ \A u \in Callers : ~Save(u)
             /\ \A g \in Files : ~OwnerSave(g)
    <3>1. doc' = doc
      <4>1. ASSUME NEW p \in Appliers, Apply(p) \/ UnrecordFails(p) \/ \E x \in Plans : Look(p, x)
            PROVE  doc' = doc
        BY <2>7, <4>1 DEF Apply, Look, Take, TakeFails, Check, Record, Fill, Error, UndoFails, Unrecord,
                          UnrecordFails, Free, Close, files
      <4>2. CASE Beside
        BY <2>7, <4>2 DEF Beside, Call, Acquire, Break, GiveUp, Read, Leave, Crash, files
      <4> QED BY <4>1, <4>2 DEF Next, Beside
    <3> QED BY <3>1
  <2> QED BY <2>3, <2>4, <2>5, <2>6, <2>7
<1>3. Spec => ReplayIsTrue
  BY <1>1, InvHolds, PTL DEF Spec, ReplayIsTrue
<1>4. Spec => OthersStay
  BY <1>2, InvHolds, PTL DEF Spec, OthersStay
<1> QED BY <1>3, <1>4 DEF PlansKeepOthers

-----------------------------------------------------------------------------
(***************************************************************************)
(* The Workbench.  The invariant says where a request can be by its type,  *)
(* what a plan's owner has reviewed of the files that are still to be      *)
(* written, what is in the texts, and what the lock of a session keeps.    *)
(***************************************************************************)
BenchFiles == Bench!HostFiles \cup {"document"}
Texts == [BenchFiles -> Seq(Requests)]
Event == [by : Requests, of : Nat]
Stages ==
    {"absent", "reviewing", "asked", "locking", "checking", "writing", "restoring", "saving", "validating",
     "revising", "recording", "unlocking", "done", "failed", "refused", "incomplete", "lost"}

BenchTypes ==
    /\ where \in [Requests -> Stages]
    /\ disk \in Texts
    /\ DOMAIN seen = Requests
    /\ DOMAIN found = Requests
    /\ wrote \in [Requests -> Nat]
    /\ session \in Seq(Event)
    /\ strange \in [Requests -> SUBSET BenchFiles]
    /\ undone \in BOOLEAN
    /\ crossed \subseteq Requests

(* Which request can be where, and what it has kept there. *)
StageOf(r) ==
    /\ where[r] \in {"locking", "checking", "writing", "restoring"} => r \in Bench!Actions
    /\ where[r] \in {"saving", "validating"} => r \in Bench!Saves /\ seen[r]["document"] = found[r]["document"]
    /\ where[r] \in {"revising", "recording", "unlocking"} => r \in Bench!Notes
    /\ where[r] = "failed" /\ r \in Bench!Actions => found[r] \in Texts
    /\ where[r] \in {"writing", "restoring", "saving", "validating"} => found[r] \in Texts
    /\ where[r] \in {"absent", "reviewing", "asked", "locking", "checking"} => wrote[r] = 0

(* The registry's lock is with the one action that configures. *)
Locked(r) ==
    where[r] \in {"checking", "writing", "restoring"} /\ Type[r] = "configure" => mutex = r

(* A text holds each action at most once, and only once it was written. *)
HasWritten(r, f) == \E i \in 1 .. wrote[r] : i <= Len(Bench!Plan(r)) /\ Bench!Plan(r)[i] = f

WellWritten(text) ==
    \A f \in Bench!HostFiles :
        /\ \A i, j \in 1 .. Len(text[f]) : text[f][i] = text[f][j] => i = j
        /\ \A i \in 1 .. Len(text[f]) : text[f][i] \in Bench!Actions /\ HasWritten(text[f][i], f)

(* What is still to be written is as it was reviewed, unless another       *)
(* process has written the host's files; and what was written is there.    *)
ToBeWritten(r) ==
    r \in Bench!Actions /\ where[r] = "writing" =>
        /\ \A i \in 1 .. Len(Bench!Plan(r)) : i > wrote[r] =>
              LET f == Bench!Plan(r)[i] IN disk[f] = seen[r][f] \/ (f = "host" /\ f \in strange[r])
        /\ HasWritten(r, "host") /\ "host" \notin strange[r] =>
              \E i \in 1 .. Len(disk["host"]) : disk["host"][i] = r

(* A saved text is there unless it was overtaken. *)
SavedText(r) ==
    r \in Bench!Saves /\ where[r] \in {"validating", "done"} /\ ~Bench!Overtaken(r) =>
        \E i \in 1 .. Len(disk["document"]) : disk["document"][i] = r

(* Under its lock a session is as it was read, and only grows. *)
SessionOf(r) ==
    /\ where[r] \in {"revising", "recording", "unlocking"} => busy = r
    /\ where[r] = "recording" =>
          \E n \in Bench!Subjects(r) : found[r] = Append(session, [by |-> r, of |-> n])
    /\ r \in Bench!Notes /\ where[r] \in {"unlocking", "done"} =>
          /\ found[r] \in Seq(Event) /\ Len(found[r]) <= Len(session)
          /\ \A i \in 1 .. Len(found[r]) : found[r][i] = session[i]

AnsweredOnce(events) ==
    \A n \in 1 .. Len(events) :
        /\ Type[events[n].by] \in {"choose", "review"} =>
              \A m \in 1 .. Len(events) :
                  Type[events[m].by] = Type[events[n].by] /\ events[m].of = events[n].of => m = n
        /\ Type[events[n].by] = "review" =>
              \E c \in 1 .. (n - 1) : Type[events[c].by] = "choose" /\ events[c].of = events[n].of

(* What a failed action has put back, as long as nobody writes there. *)
PutBackAgain(r) ==
    r \in Bench!Actions /\ where[r] = "failed" =>
        \A i \in 1 .. Len(Bench!Plan(r)) :
            Bench!Plan(r)[i] \in strange[r] \/ disk[Bench!Plan(r)[i]] = found[r][Bench!Plan(r)[i]]

BenchPart(r) ==
    /\ StageOf(r) /\ Locked(r) /\ ToBeWritten(r) /\ SavedText(r) /\ SessionOf(r) /\ PutBackAgain(r)
    /\ r \in Bench!Actions /\ where[r] \in {"writing", "restoring"} => WellWritten(found[r])

BenchInv ==
    /\ BenchTypes
    /\ WellWritten(disk)
    /\ AnsweredOnce(session)
    /\ \A r \in Requests : BenchPart(r)

-----------------------------------------------------------------------------
LEMMA PlanOf ==
    ASSUME NEW r \in Requests
    PROVE  /\ Len(Bench!Plan(r)) \in Nat /\ Len(Bench!Plan(r)) >= 1
           /\ DOMAIN Bench!Plan(r) = 1 .. Len(Bench!Plan(r))
           /\ \A i \in 1 .. Len(Bench!Plan(r)) :
                /\ Bench!Plan(r)[i] \in Bench!HostFiles
                /\ Type[r] # "configure" => Bench!Plan(r)[i] = "host"
                /\ \A j \in 1 .. Len(Bench!Plan(r)) : Bench!Plan(r)[i] = Bench!Plan(r)[j] => i = j
<1>1. CASE Type[r] = "configure"
  <2>1. Bench!Plan(r) = <<"link", "registry", "host">>
    BY <1>1 DEF Bench!Plan
  <2> HIDE DEF Bench!Plan
  <2>2. Len(Bench!Plan(r)) = 3 /\ DOMAIN Bench!Plan(r) = 1 .. 3
    BY <2>1
  <2>3. \A i \in 1 .. 3 : i = 1 \/ i = 2 \/ i = 3
    OBVIOUS
  <2>4. Bench!Plan(r)[1] = "link" /\ Bench!Plan(r)[2] = "registry" /\ Bench!Plan(r)[3] = "host"
    BY <2>1
  <2> QED  BY <1>1, <2>2, <2>3, <2>4 DEF Bench!HostFiles
<1>2. CASE Type[r] # "configure"
  <2>1. Bench!Plan(r) = <<"host">>
    BY <1>2 DEF Bench!Plan
  <2> QED  BY <2>1 DEF Bench!HostFiles
<1> QED  BY <1>1, <1>2

LEMMA TypesOf ==
    ASSUME NEW r \in Requests
    PROVE  /\ r \in Bench!Actions => r \notin Bench!Saves /\ r \notin Bench!Notes
           /\ r \in Bench!Saves => r \notin Bench!Notes
           /\ r \in Bench!Actions \/ r \in Bench!Saves \/ r \in Bench!Notes
           /\ r \in Bench!Actions <=> Type[r] \in {"configure", "activate"}
BY BenchAssumption DEF Bench!Actions, Bench!Saves, Bench!Notes, Bench!Kinds

(* What is written stays written. *)
LEMMA WrittenStays ==
    ASSUME wrote \in [Requests -> Nat], wrote' \in [Requests -> Nat],
           \A r \in Requests : wrote[r] <= wrote'[r],
           NEW text, \A f \in Bench!HostFiles : text[f] \in Seq(Requests), WellWritten(text)
    PROVE  WellWritten(text)'
<1>1. \A r \in Requests : \A f : HasWritten(r, f) => HasWritten(r, f)'
  BY DEF HasWritten, Bench!Plan
<1>2. ASSUME NEW f \in Bench!HostFiles
      PROVE  /\ \A i, j \in 1 .. Len(text[f]) : text[f][i] = text[f][j] => i = j
             /\ \A i \in 1 .. Len(text[f]) : text[f][i] \in Bench!Actions /\ HasWritten(text[f][i], f)'
  <2>1. \A i \in 1 .. Len(text[f]) : text[f][i] \in Requests
    OBVIOUS
  <2> QED  BY <1>1, <2>1 DEF WellWritten
<1> QED  BY <1>2 DEF WellWritten

(* A step of one request leaves another one's part, if it leaves what that *)
(* one works on.                                                           *)
LEMMA BenchFrame ==
    ASSUME BenchInv, BenchTypes', NEW q \in Requests,
           where'[q] = where[q], found'[q] = found[q], seen'[q] = seen[q], wrote'[q] = wrote[q],
           \A r \in Requests : wrote[r] <= wrote'[r],
           mutex = q => mutex' = q, busy = q => busy' = q,
           strange[q] \subseteq strange'[q],
           \A f \in Bench!HostFiles : disk'[f] = disk[f] \/ (f \in strange'[q] /\ (f = "host" \/ mutex # q)),
           ~Bench!Overtaken(q)' => ~Bench!Overtaken(q) /\ (q \in Bench!Saves /\ where[q] \in {"validating", "done"} =>
               \A i \in 1 .. Len(disk["document"]) :
                   disk["document"][i] = q => \E j \in 1 .. Len(disk'["document"]) : disk'["document"][j] = q),
           session' = session \/ (busy # q /\ Len(session) <= Len(session')
                                   /\ \A i \in 1 .. Len(session) : session'[i] = session[i])
    PROVE  BenchPart(q)'
<1>0. /\ StageOf(q) /\ Locked(q) /\ ToBeWritten(q) /\ SavedText(q) /\ SessionOf(q) /\ PutBackAgain(q)
      /\ q \in Bench!Actions /\ where[q] \in {"writing", "restoring"} => WellWritten(found[q])
      /\ wrote \in [Requests -> Nat] /\ wrote' \in [Requests -> Nat]
  BY DEF BenchInv, BenchTypes, BenchPart
<1>p. Bench!Plan(q)' = Bench!Plan(q)
  BY DEF Bench!Plan
<1>1. StageOf(q)' /\ Locked(q)'
  BY <1>0 DEF StageOf, Locked
<1>2. ToBeWritten(q)'
  <2> SUFFICES ASSUME q \in Bench!Actions, where[q] = "writing" PROVE ToBeWritten(q)'
    BY DEF ToBeWritten
  <2>1. Type[q] = "configure" => mutex = q
    BY <1>0 DEF Locked
  <2>2. ASSUME NEW i \in 1 .. Len(Bench!Plan(q)), i > wrote[q]
        PROVE  LET f == Bench!Plan(q)[i] IN disk'[f] = seen'[q][f] \/ (f = "host" /\ f \in strange'[q])
    <3> DEFINE f == Bench!Plan(q)[i]
    <3>1. disk[f] = seen[q][f] \/ (f = "host" /\ f \in strange[q])
      BY <1>0, <2>2 DEF ToBeWritten
    <3>2. f \in Bench!HostFiles /\ (f # "host" => Type[q] = "configure")
      BY PlanOf
    <3> QED  BY <2>1, <3>1, <3>2
  <2>3. ASSUME HasWritten(q, "host"), "host" \notin strange'[q]
        PROVE  \E i \in 1 .. Len(disk'["host"]) : disk'["host"][i] = q
    <3>1. "host" \in Bench!HostFiles
      BY DEF Bench!HostFiles
    <3>2. disk'["host"] = disk["host"] /\ "host" \notin strange[q]
      BY <2>3, <3>1
    <3>3. \E i \in 1 .. Len(disk["host"]) : disk["host"][i] = q
      BY <1>0, <2>3, <3>2 DEF ToBeWritten
    <3> QED  BY <3>2, <3>3
  <2>4. HasWritten(q, "host")' <=> HasWritten(q, "host")
    BY <1>p DEF HasWritten
  <2> QED  BY <1>p, <2>2, <2>3, <2>4 DEF ToBeWritten
<1>3. SavedText(q)'
  BY <1>0 DEF SavedText
<1>4. SessionOf(q)'
  <2>1. session' = session => Bench!Subjects(q)' = Bench!Subjects(q)
    BY DEF Bench!Subjects, Bench!Sequences, Bench!Answered
  <2>2. where[q] \in {"revising", "recording", "unlocking"} => busy' = q /\ busy = q
    BY <1>0 DEF SessionOf
  <2>3. where[q] = "recording" =>
          \E n \in Bench!Subjects(q)' : found'[q] = Append(session', [by |-> q, of |-> n])
    <3> SUFFICES ASSUME where[q] = "recording"
                 PROVE  \E n \in Bench!Subjects(q)' : found'[q] = Append(session', [by |-> q, of |-> n])
      OBVIOUS
    <3>1. session' = session
      BY <2>2
    <3>2. PICK n \in Bench!Subjects(q) : found[q] = Append(session, [by |-> q, of |-> n])
      BY <1>0 DEF SessionOf
    <3>3. n \in Bench!Subjects(q)'
      BY <2>1, <3>1
    <3> QED  BY <3>1, <3>2, <3>3
  <2>4. ASSUME q \in Bench!Notes, where[q] \in {"unlocking", "done"}
        PROVE  /\ found'[q] \in Seq(Event) /\ Len(found'[q]) <= Len(session')
               /\ \A i \in 1 .. Len(found'[q]) : found'[q][i] = session'[i]
    <3>1. /\ found[q] \in Seq(Event) /\ Len(found[q]) <= Len(session)
          /\ \A i \in 1 .. Len(found[q]) : found[q][i] = session[i]
      BY <1>0, <2>4 DEF SessionOf
    <3>2. session \in Seq(Event) /\ session' \in Seq(Event)
      BY DEF BenchInv, BenchTypes
    <3> QED  BY <3>1, <3>2
  <2> QED  BY <2>2, <2>3, <2>4 DEF SessionOf
<1>5. PutBackAgain(q)'
  <2> SUFFICES ASSUME q \in Bench!Actions, where[q] = "failed", NEW i \in 1 .. Len(Bench!Plan(q))
               PROVE  Bench!Plan(q)[i] \in strange'[q] \/ disk'[Bench!Plan(q)[i]] = found'[q][Bench!Plan(q)[i]]
    BY <1>p DEF PutBackAgain
  <2>1. Bench!Plan(q)[i] \in Bench!HostFiles
    BY PlanOf
  <2> QED  BY <1>0, <2>1 DEF PutBackAgain
<1>6. q \in Bench!Actions /\ where[q] \in {"writing", "restoring"} => WellWritten(found[q])'
  <2> SUFFICES ASSUME q \in Bench!Actions, where[q] \in {"writing", "restoring"} PROVE WellWritten(found[q])'
    OBVIOUS
  <2>1. found[q] \in Texts
    BY <1>0 DEF StageOf
  <2>2. \A f \in Bench!HostFiles : found[q][f] \in Seq(Requests)
    BY <2>1 DEF Texts, BenchFiles
  <2> QED  BY <1>0, <2>2, WrittenStays
<1> QED  BY <1>1, <1>2, <1>3, <1>4, <1>5, <1>6 DEF BenchPart

(* What a step of one request leaves to the others. *)
SparesOthers(r) ==
    /\ \A q \in Requests : wrote[q] <= wrote'[q]
    /\ \A q \in Requests : q # r =>
        /\ where'[q] = where[q] /\ found'[q] = found[q] /\ seen'[q] = seen[q] /\ wrote'[q] = wrote[q]
        /\ mutex = q => mutex' = q
        /\ busy = q => busy' = q
        /\ strange[q] \subseteq strange'[q]
        /\ \A f \in Bench!HostFiles : disk'[f] = disk[f] \/ (f \in strange'[q] /\ (f = "host" \/ mutex # q))
        /\ ~Bench!Overtaken(q)' => ~Bench!Overtaken(q) /\ (q \in Bench!Saves /\ where[q] \in {"validating", "done"} =>
               \A i \in 1 .. Len(disk["document"]) :
                   disk["document"][i] = q => \E j \in 1 .. Len(disk'["document"]) : disk'["document"][j] = q)
        /\ session' = session \/ (busy # q /\ Len(session) <= Len(session')
                                   /\ \A i \in 1 .. Len(session) : session'[i] = session[i])

LEMMA BenchStepOf ==
    ASSUME BenchInv, BenchTypes', NEW r \in Requests, BenchPart(r)', SparesOthers(r),
           WellWritten(disk)', AnsweredOnce(session)'
    PROVE  BenchInv'
<1>1. ASSUME NEW q \in Requests, q # r PROVE BenchPart(q)'
  BY <1>1, BenchFrame DEF SparesOthers
<1> QED  BY <1>1 DEF BenchInv

(* Steps that write no file and no session. *)
LEMMA QuietStep ==
    ASSUME BenchInv, BenchTypes', NEW r \in Requests,
           UNCHANGED <<disk, wrote, session, undone, crossed>>,
           where' = [where EXCEPT ![r] = where'[r]],
           \A q \in Requests : q # r =>
               /\ found'[q] = found[q] /\ seen'[q] = seen[q] /\ strange'[q] = strange[q]
               /\ mutex = q => mutex' = q
               /\ busy = q => busy' = q,
           BenchPart(r)'
    PROVE  BenchInv'
<1>0. BenchTypes /\ WellWritten(disk) /\ AnsweredOnce(session)
  BY DEF BenchInv
<1>1. SparesOthers(r)
  BY <1>0 DEF SparesOthers, BenchTypes, Bench!Overtaken
<1>2. WellWritten(disk)'
  <2>1. \A f \in Bench!HostFiles : disk[f] \in Seq(Requests)
    BY <1>0 DEF BenchTypes, Texts, BenchFiles
  <2> QED  BY <1>0, <2>1, WrittenStays DEF BenchTypes
<1>3. AnsweredOnce(session)'
  BY <1>0 DEF AnsweredOnce
<1> QED  BY <1>1, <1>2, <1>3, BenchStepOf

LEMMA ReviewStep ==
    ASSUME BenchInv, NEW r \in Requests, Bench!Review(r)
    PROVE  BenchInv'
<1>1. BenchTypes
  BY DEF BenchInv
<1>2. BenchTypes'
  BY <1>1 DEF Bench!Review, Bench!Go, BenchTypes, Stages
<1>3. BenchPart(r) /\ where[r] = "reviewing" /\ where'[r] = "asked"
  BY <1>1 DEF BenchInv, Bench!Review, Bench!Go, BenchTypes
<1>4. BenchPart(r)'
  BY <1>1, <1>3 DEF BenchPart, StageOf, Locked, ToBeWritten, SavedText, Bench!Overtaken, SessionOf, PutBackAgain, Bench!Review
<1> QED  BY <1>1, <1>2, <1>4, QuietStep DEF Bench!Review, Bench!Go, BenchTypes

LEMMA StartStep ==
    ASSUME BenchInv, NEW r \in Requests, Bench!Start(r)
    PROVE  BenchInv'
<1>1. BenchTypes
  BY DEF BenchInv
<1>2. BenchTypes'
  BY <1>1 DEF Bench!Start, Bench!Go, BenchTypes, Stages
<1>3. /\ BenchPart(r) /\ where[r] = "asked" /\ r \in Bench!Actions
      /\ where'[r] \in {"locking", "checking", "refused"} /\ (where'[r] = "checking" => Type[r] # "configure")
  BY <1>1 DEF BenchInv, Bench!Start, Bench!Go, BenchTypes
<1>4. BenchPart(r)'
  BY <1>1, <1>3 DEF BenchPart, StageOf, Locked, ToBeWritten, SavedText, Bench!Overtaken, SessionOf, PutBackAgain, Bench!Start
<1> QED  BY <1>1, <1>2, <1>4, QuietStep DEF Bench!Start, Bench!Go, BenchTypes

LEMMA LockStep ==
    ASSUME BenchInv, NEW r \in Requests, Bench!Lock(r)
    PROVE  BenchInv'
<1>1. BenchTypes
  BY DEF BenchInv
<1>2. BenchTypes'
  BY <1>1 DEF Bench!Lock, Bench!Go, BenchTypes, Stages
<1>3. BenchPart(r) /\ where[r] = "locking" /\ where'[r] = "checking" /\ mutex' = r /\ mutex = None
  BY <1>1 DEF BenchInv, Bench!Lock, Bench!Go, BenchTypes
<1>4. BenchPart(r)'
  BY <1>1, <1>3 DEF BenchPart, StageOf, Locked, ToBeWritten, SavedText, Bench!Overtaken, SessionOf, PutBackAgain, Bench!Lock
<1> QED  BY <1>1, <1>2, <1>3, <1>4, QuietStep, BenchAssumption DEF Bench!Lock, Bench!Go, BenchTypes

LEMMA FinishStep ==
    ASSUME BenchInv, NEW r \in Requests, Bench!Finish(r) \/ Bench!Fail(r) \/ Bench!Valid(r)
    PROVE  BenchInv'
<1>1. BenchTypes
  BY DEF BenchInv
<1>2. BenchTypes'
  BY <1>1 DEF Bench!Finish, Bench!Fail, Bench!Valid, Bench!Leave, Bench!Go, BenchTypes, Stages
<1>3. /\ BenchPart(r)
      /\ \/ where[r] = "writing" /\ where'[r] = "done"
         \/ where[r] = "writing" /\ where'[r] = "restoring" /\ mutex' = mutex
         \/ where[r] = "validating" /\ where'[r] = "done"
  BY <1>1 DEF BenchInv, Bench!Finish, Bench!Fail, Bench!Valid, Bench!Leave, Bench!Go, BenchTypes
<1>4. UNCHANGED <<disk, seen, found, wrote, session, busy, strange, undone, crossed>>
  BY DEF Bench!Finish, Bench!Fail, Bench!Valid
<1>5. r \in Bench!Actions /\ where[r] \in {"writing", "restoring"} => WellWritten(found[r])'
  <2>1. where[r] = "writing" => \A f \in Bench!HostFiles : found[r][f] \in Seq(Requests)
    BY <1>3 DEF BenchPart, StageOf, Texts, BenchFiles
  <2> QED  BY <1>1, <1>3, <1>4, <2>1, WrittenStays DEF BenchPart, BenchTypes
<1>6. BenchPart(r)'
  BY <1>1, <1>3, <1>4, <1>5, TypesOf DEF BenchPart, StageOf, Locked, ToBeWritten, SavedText, Bench!Overtaken, SessionOf, PutBackAgain
<1>7. /\ where' = [where EXCEPT ![r] = where'[r]]
      /\ \A q \in Requests : q # r => (mutex = q => mutex' = q)
  BY <1>1 DEF Bench!Finish, Bench!Fail, Bench!Valid, Bench!Leave, Bench!Go, BenchTypes
<1> QED  BY <1>1, <1>2, <1>4, <1>6, <1>7, QuietStep

LEMMA PerformStep ==
    ASSUME BenchInv, NEW r \in Requests, Bench!Perform(r)
    PROVE  BenchInv'
<1>1. BenchTypes
  BY DEF BenchInv
<1>2. BenchPart(r) /\ where[r] = "checking" /\ r \in Bench!Actions /\ wrote[r] = 0
  BY DEF BenchInv, Bench!Perform, BenchPart, StageOf
<1>3. UNCHANGED <<wrote, disk, seen, session, busy, undone, crossed>>
  BY DEF Bench!Perform
<1>4. CASE Bench!Same(r)
  <2>1. /\ where' = [where EXCEPT ![r] = "writing"] /\ found' = [found EXCEPT ![r] = disk]
        /\ strange' = [strange EXCEPT ![r] = {}] /\ UNCHANGED <<queue, mutex>>
    BY <1>4 DEF Bench!Perform, Bench!Go
  <2>2. BenchTypes'
    BY <1>1, <1>3, <2>1 DEF BenchTypes, Stages
  <2>3. where'[r] = "writing" /\ found'[r] = disk /\ strange'[r] = {}
    BY <1>1, <2>1 DEF BenchTypes
  <2>4. StageOf(r)' /\ Locked(r)' /\ SavedText(r)' /\ SessionOf(r)' /\ PutBackAgain(r)'
    BY <1>1, <1>2, <1>3, <2>1, <2>3, TypesOf
       DEF BenchTypes, BenchPart, StageOf, Locked, SavedText, Bench!Overtaken, SessionOf, PutBackAgain
  <2>5. ToBeWritten(r)'
    <3>1. ~HasWritten(r, "host")'
      BY <1>2, <1>3 DEF HasWritten
    <3>2. \A i \in 1 .. Len(Bench!Plan(r)) : disk'[Bench!Plan(r)[i]] = seen'[r][Bench!Plan(r)[i]]
      BY <1>3, <1>4, PlanOf DEF Bench!Same
    <3>3. Bench!Plan(r)' = Bench!Plan(r)
      BY DEF Bench!Plan
    <3> QED  BY <3>1, <3>2, <3>3 DEF ToBeWritten
  <2>6. WellWritten(found[r])'
    <3>1. WellWritten(disk) /\ \A f \in Bench!HostFiles : disk[f] \in Seq(Requests)
      BY <1>1 DEF BenchInv, BenchTypes, Texts, BenchFiles
    <3>2. wrote \in [Requests -> Nat]
      BY <1>1 DEF BenchTypes
    <3> QED  BY <1>3, <2>3, <3>1, <3>2, WrittenStays
  <2>7. BenchPart(r)'
    BY <2>4, <2>5, <2>6 DEF BenchPart
  <2> QED  BY <1>1, <1>3, <2>1, <2>2, <2>7, QuietStep DEF BenchTypes
<1>5. CASE ~Bench!Same(r)
  <2>1. where' = [where EXCEPT ![r] = "refused"] /\ UNCHANGED <<found, strange>>
        /\ mutex' = IF mutex = r THEN None ELSE mutex
    BY <1>5 DEF Bench!Perform, Bench!Go, Bench!Leave
  <2>2. BenchTypes' /\ where'[r] = "refused"
    BY <1>1, <1>3, <2>1 DEF BenchTypes, Stages
  <2>3. BenchPart(r)'
    BY <1>1, <1>2, <1>3, <2>1, <2>2 DEF BenchPart, StageOf, Locked, ToBeWritten, SavedText, Bench!Overtaken, SessionOf, PutBackAgain
  <2> QED  BY <1>1, <1>3, <2>1, <2>2, <2>3, QuietStep DEF BenchTypes
<1> QED  BY <1>4, <1>5

LEMMA WellWrittenNext ==
    ASSUME NEW text, text = disk',
           \A g \in Bench!HostFiles :
               /\ \A i, j \in 1 .. Len(text[g]) : text[g][i] = text[g][j] => i = j
               /\ \A i \in 1 .. Len(text[g]) : text[g][i] \in Bench!Actions /\ HasWritten(text[g][i], g)'
    PROVE  WellWritten(disk)'
<1>1. WellWritten(text)'
  BY DEF WellWritten
<1> QED  BY <1>1

LEMMA WriteStep ==
    ASSUME BenchInv, NEW r \in Requests, Bench!Write(r)
    PROVE  BenchInv'
<1> PICK n, f, text : n = wrote[r] + 1 /\ f = Bench!Plan(r)[n] /\ text = disk'
  OBVIOUS
<1>1. BenchTypes /\ WellWritten(disk) /\ AnsweredOnce(session)
  BY DEF BenchInv
<1>2. BenchPart(r) /\ where[r] = "writing" /\ r \in Bench!Actions /\ wrote[r] < Len(Bench!Plan(r))
  BY DEF BenchInv, Bench!Write, BenchPart, StageOf
<1>3. UNCHANGED <<where, seen, found, queue, mutex, session, busy, undone, crossed>>
  BY DEF Bench!Write
<1>4. wrote' = [wrote EXCEPT ![r] = n] /\ wrote'[r] = n /\ n \in 1 .. Len(Bench!Plan(r)) /\ f \in Bench!HostFiles
  BY <1>1, <1>2, PlanOf DEF Bench!Write, BenchTypes
<1>5. /\ disk' = [disk EXCEPT ![f] = Append(disk[f], r)]
      /\ strange' = [q \in Requests |-> IF q # r THEN strange[q] \cup {f} ELSE strange[q]]
  BY <1>4 DEF Bench!Write, Bench!Put
<1>6. f \in BenchFiles /\ disk[f] \in Seq(Requests) /\ f # "document"
  BY <1>1, <1>4 DEF BenchTypes, Texts, BenchFiles, Bench!HostFiles
<1>7. BenchTypes'
  BY <1>1, <1>3, <1>4, <1>5, <1>6 DEF BenchTypes, Texts
<1>8. ~HasWritten(r, f)
  <2>1. ASSUME NEW i \in 1 .. wrote[r], i <= Len(Bench!Plan(r)), Bench!Plan(r)[i] = f PROVE FALSE
    <3>1. i \in 1 .. Len(Bench!Plan(r)) /\ i # n
      BY <1>1, <2>1 DEF BenchTypes
    <3> QED  BY <1>4, <2>1, <3>1, PlanOf
  <2> QED  BY <2>1 DEF HasWritten
<1>9. HasWritten(r, f)'
  BY <1>4 DEF HasWritten, Bench!Plan
<1>10. \A q \in Requests : wrote[q] <= wrote'[q]
  BY <1>1, <1>4 DEF BenchTypes
<1>11. \A g \in BenchFiles : g # f => disk'[g] = disk[g]
  BY <1>1, <1>5, <1>6 DEF BenchTypes, Texts
<1>12. disk'[f] = Append(disk[f], r)
  BY <1>1, <1>5, <1>6 DEF BenchTypes, Texts
<1>13. \A g \in Bench!HostFiles : g \in BenchFiles
  BY DEF BenchFiles
<1>14. WellWritten(disk)'
  <2>1. WellWritten(disk) /\ \A g \in Bench!HostFiles : disk[g] \in Seq(Requests)
    BY <1>1 DEF BenchTypes, Texts, BenchFiles
  <2>2. \A q \in Requests : \A g : HasWritten(q, g) => HasWritten(q, g)'
    <3>1. wrote \in [Requests -> Nat] /\ wrote' \in [Requests -> Nat]
      BY <1>1, <1>7 DEF BenchTypes
    <3> QED  BY <1>10, <3>1 DEF HasWritten, Bench!Plan
  <2>3. ASSUME NEW g \in Bench!HostFiles
        PROVE  /\ \A i, j \in 1 .. Len(text[g]) : text[g][i] = text[g][j] => i = j
               /\ \A i \in 1 .. Len(text[g]) : text[g][i] \in Bench!Actions /\ HasWritten(text[g][i], g)'
    <3>1. /\ \A i, j \in 1 .. Len(disk[g]) : disk[g][i] = disk[g][j] => i = j
          /\ \A i \in 1 .. Len(disk[g]) :
                disk[g][i] \in Bench!Actions /\ disk[g][i] \in Requests /\ HasWritten(disk[g][i], g)
      BY <2>1 DEF WellWritten
    <3>2. CASE g # f
      BY <1>11, <1>13, <2>2, <3>1, <3>2
    <3>3. CASE g = f
      <4>1. \A i \in 1 .. Len(disk[f]) : disk[f][i] # r
        BY <1>8, <3>1, <3>3
      <4>2. /\ Len(text[f]) = Len(disk[f]) + 1 /\ text[f][Len(disk[f]) + 1] = r
            /\ \A i \in 1 .. Len(disk[f]) : text[f][i] = disk[f][i]
        BY <1>6, <1>12
      <4>3. \A i \in 1 .. Len(text[f]) : i \in 1 .. Len(disk[f]) \/ i = Len(disk[f]) + 1
        BY <1>6, <4>2
      <4>4. \A i \in 1 .. Len(text[f]) : text[f][i] \in Bench!Actions /\ HasWritten(text[f][i], f)'
        <5> SUFFICES ASSUME NEW i \in 1 .. Len(text[f])
                     PROVE  text[f][i] \in Bench!Actions /\ HasWritten(text[f][i], f)'
          OBVIOUS
        <5>1. CASE i \in 1 .. Len(disk[f])
          BY <2>2, <3>1, <3>3, <4>2, <5>1
        <5>2. CASE i = Len(disk[f]) + 1
          BY <1>2, <1>9, <4>2, <5>2
        <5> QED  BY <4>3, <5>1, <5>2
      <4>5. \A i, j \in 1 .. Len(text[f]) : text[f][i] = text[f][j] => i = j
        <5> SUFFICES ASSUME NEW i \in 1 .. Len(text[f]), NEW j \in 1 .. Len(text[f]), text[f][i] = text[f][j]
                     PROVE  i = j
          OBVIOUS
        <5>1. CASE i \in 1 .. Len(disk[f]) /\ j \in 1 .. Len(disk[f])
          BY <3>1, <3>3, <4>2, <5>1
        <5>2. CASE i = Len(disk[f]) + 1 /\ j \in 1 .. Len(disk[f])
          <6>1. text[f][i] = r /\ text[f][j] # r
            BY <4>1, <4>2, <5>2
          <6> QED  BY <6>1
        <5>3. CASE i \in 1 .. Len(disk[f]) /\ j = Len(disk[f]) + 1
          <6>1. text[f][i] # r /\ text[f][j] = r
            BY <4>1, <4>2, <5>3
          <6> QED  BY <6>1
        <5> QED  BY <4>3, <5>1, <5>2, <5>3
      <4> QED  BY <3>3, <4>4, <4>5
    <3> QED  BY <3>2, <3>3
  <2> QED  BY <2>3, WellWrittenNext
<1>15. ToBeWritten(r)'
  <2>1. Bench!Plan(r)' = Bench!Plan(r)
    BY DEF Bench!Plan
  <2>2. ASSUME NEW i \in 1 .. Len(Bench!Plan(r)), i > n
        PROVE  LET g == Bench!Plan(r)[i] IN disk'[g] = seen'[r][g] \/ (g = "host" /\ g \in strange'[r])
    <3> DEFINE g == Bench!Plan(r)[i]
    <3>1. g # f /\ g \in Bench!HostFiles
      BY <1>4, <2>2, PlanOf
    <3>2. disk[g] = seen[r][g] \/ (g = "host" /\ g \in strange[r])
      BY <1>1, <1>2, <2>2 DEF BenchPart, ToBeWritten, BenchTypes
    <3> QED  BY <1>3, <1>5, <1>11, <1>13, <3>1, <3>2
  <2>3. ASSUME HasWritten(r, "host")', "host" \notin strange'[r]
        PROVE  \E i \in 1 .. Len(disk'["host"]) : disk'["host"][i] = r
    <3>1. CASE f = "host"
      BY <1>6, <1>12, <3>1
    <3>2. CASE f # "host"
      <4>1. HasWritten(r, "host")
        <5>1. PICK i \in 1 .. n : i <= Len(Bench!Plan(r)) /\ Bench!Plan(r)[i] = "host"
          BY <1>4, <2>1, <2>3 DEF HasWritten
        <5>2. i # n /\ wrote[r] \in Nat
          BY <1>1, <3>2, <5>1 DEF BenchTypes
        <5> QED  BY <5>1, <5>2 DEF HasWritten
      <4>2. "host" \notin strange[r]
        BY <1>5, <2>3
      <4>3. \E i \in 1 .. Len(disk["host"]) : disk["host"][i] = r
        BY <1>2, <4>1, <4>2 DEF BenchPart, ToBeWritten
      <4>4. disk'["host"] = disk["host"]
        BY <1>11, <3>2 DEF BenchFiles, Bench!HostFiles
      <4> QED  BY <4>3, <4>4
    <3> QED  BY <3>1, <3>2
  <2> QED  BY <1>4, <2>1, <2>2, <2>3 DEF ToBeWritten
<1>16. WellWritten(found[r])'
  <2>1. \A g \in Bench!HostFiles : found[r][g] \in Seq(Requests)
    BY <1>2 DEF BenchPart, StageOf, Texts, BenchFiles
  <2> QED  BY <1>1, <1>2, <1>3, <1>7, <1>10, <2>1, WrittenStays DEF BenchPart, BenchTypes
<1>17. BenchPart(r)'
  BY <1>1, <1>2, <1>3, <1>15, <1>16, TypesOf DEF BenchPart, StageOf, Locked, SavedText, Bench!Overtaken, SessionOf, PutBackAgain
<1>18. SparesOthers(r)
  <2>1. f # "host" => mutex = r
    BY <1>2, <1>4, PlanOf DEF BenchPart, Locked
  <2>2. disk'["document"] = disk["document"]
    BY <1>6, <1>11 DEF BenchFiles
  <2>3. \A q \in Requests : q # r => wrote'[q] = wrote[q] /\ strange'[q] = strange[q] \cup {f}
    BY <1>1, <1>4, <1>5 DEF BenchTypes
  <2>4. \A q \in Requests : Bench!Overtaken(q)' <=> Bench!Overtaken(q)
    BY <1>3 DEF Bench!Overtaken
  <2>5. \A g \in Bench!HostFiles : g # f => disk'[g] = disk[g]
    BY <1>11, <1>13
  <2>6. \A q \in Requests : q # r => (f = "host" \/ mutex # q)
    BY <2>1
  <2> QED  BY <1>3, <1>10, <2>2, <2>3, <2>4, <2>5, <2>6 DEF SparesOthers
<1>19. AnsweredOnce(session)'
  BY <1>1, <1>3 DEF AnsweredOnce
<1> QED  BY <1>7, <1>14, <1>17, <1>18, <1>19, BenchStepOf

LEMMA RestoreStep ==
    ASSUME BenchInv, NEW r \in Requests, Bench!Restore(r)
    PROVE  BenchInv'
<1> DEFINE own == Bench!ToSet(Bench!Plan(r))
<1>1. BenchTypes /\ WellWritten(disk) /\ AnsweredOnce(session)
  BY DEF BenchInv
<1>2. BenchPart(r) /\ where[r] = "restoring" /\ r \in Bench!Actions
  BY DEF BenchInv, Bench!Restore, BenchPart, StageOf
<1>3. found[r] \in Texts /\ WellWritten(found[r])
  BY <1>2 DEF BenchPart, StageOf
<1>4. UNCHANGED <<wrote, seen, found, session, busy, undone, crossed>>
  BY DEF Bench!Restore
<1>5. PICK broken \in SUBSET own :
        /\ Bench!PutBack(r, own \ broken)
        /\ Bench!Leave(r, IF broken = {} THEN "failed" ELSE "incomplete")
  BY DEF Bench!Restore
<1>6. own \subseteq Bench!HostFiles /\ \A f \in own : f # "host" => Type[r] = "configure"
  BY PlanOf DEF Bench!ToSet
<1>7. \A f \in BenchFiles : disk'[f] = IF f \in own \ broken THEN found[r][f] ELSE disk[f]
  BY <1>1, <1>5 DEF Bench!PutBack, BenchTypes, Texts
<1>8. /\ strange' = [q \in Requests |-> IF q # r THEN strange[q] \cup {f \in own \ broken : disk[f] # found[r][f]}
                                               ELSE strange[q]]
      /\ where' = [where EXCEPT ![r] = IF broken = {} THEN "failed" ELSE "incomplete"]
      /\ mutex' = IF mutex = r THEN None ELSE mutex
  BY <1>5 DEF Bench!PutBack, Bench!Leave, Bench!Go
<1>9. Bench!HostFiles \subseteq BenchFiles /\ "document" \in BenchFiles /\ "document" \notin Bench!HostFiles
  BY DEF BenchFiles, Bench!HostFiles
<1>10. BenchTypes'
  <2>1. disk' \in Texts
    BY <1>1, <1>3, <1>5, <1>7 DEF Bench!PutBack, BenchTypes, Texts
  <2>2. strange' \in [Requests -> SUBSET BenchFiles]
    BY <1>1, <1>6, <1>8, <1>9 DEF BenchTypes
  <2> QED  BY <1>1, <1>4, <1>8, <2>1, <2>2 DEF BenchTypes, Stages
<1>11. WellWritten(disk)'
  <2> PICK text : text = disk'
    OBVIOUS
  <2>1. \A q \in Requests : \A g : HasWritten(q, g) => HasWritten(q, g)'
    BY <1>4 DEF HasWritten, Bench!Plan
  <2>2. ASSUME NEW g \in Bench!HostFiles
        PROVE  /\ \A i, j \in 1 .. Len(text[g]) : text[g][i] = text[g][j] => i = j
               /\ \A i \in 1 .. Len(text[g]) : text[g][i] \in Bench!Actions /\ HasWritten(text[g][i], g)'
    <3>1. text[g] = found[r][g] \/ text[g] = disk[g]
      BY <1>7, <1>9
    <3>2. text[g] \in Seq(Requests)
      BY <1>9, <1>10 DEF BenchTypes, Texts
    <3>3. /\ \A i, j \in 1 .. Len(text[g]) : text[g][i] = text[g][j] => i = j
          /\ \A i \in 1 .. Len(text[g]) : text[g][i] \in Bench!Actions /\ HasWritten(text[g][i], g)
      BY <1>1, <1>3, <3>1 DEF WellWritten
    <3> QED  BY <2>1, <3>2, <3>3
  <2> QED  BY <2>2, WellWrittenNext
<1>12. where'[r] \in {"failed", "incomplete"} /\ (where'[r] = "failed" => broken = {}) /\ strange'[r] = strange[r]
  BY <1>1, <1>8 DEF BenchTypes
<1>13. PutBackAgain(r)'
  <2>1. Bench!Plan(r)' = Bench!Plan(r)
    BY DEF Bench!Plan
  <2>2. \A i \in 1 .. Len(Bench!Plan(r)) : Bench!Plan(r)[i] \in own
    BY PlanOf DEF Bench!ToSet
  <2> QED  BY <1>4, <1>6, <1>7, <1>9, <1>12, <2>1, <2>2 DEF PutBackAgain
<1>14. BenchPart(r)'
  BY <1>2, <1>3, <1>4, <1>12, <1>13, TypesOf DEF BenchPart, StageOf, Locked, ToBeWritten, SavedText, Bench!Overtaken, SessionOf
<1>15. SparesOthers(r)
  <2>1. Type[r] = "configure" => mutex = r
    BY <1>2 DEF BenchPart, Locked
  <2>2. disk'["document"] = disk["document"]
    BY <1>6, <1>7, <1>9
  <2>3. \A q \in Requests : q # r =>
          where'[q] = where[q] /\ strange'[q] = strange[q] \cup {f \in own \ broken : disk[f] # found[r][f]}
    BY <1>1, <1>8 DEF BenchTypes
  <2>4. \A q \in Requests : q # r => \A f \in Bench!HostFiles :
          disk'[f] = disk[f] \/ (f \in strange'[q] /\ (f = "host" \/ mutex # q))
    BY <1>6, <1>7, <1>9, <2>1, <2>3
  <2> QED  BY <1>1, <1>4, <1>8, <2>2, <2>3, <2>4 DEF SparesOthers, BenchTypes, Bench!Overtaken
<1>16. AnsweredOnce(session)'
  BY <1>1, <1>4 DEF AnsweredOnce
<1> QED  BY <1>10, <1>11, <1>14, <1>15, <1>16, BenchStepOf

LEMMA CompareStep ==
    ASSUME BenchInv, NEW r \in Requests, Bench!Compare(r)
    PROVE  BenchInv'
<1>1. BenchTypes
  BY DEF BenchInv
<1>2. BenchPart(r) /\ where[r] = "asked" /\ r \in Bench!Saves
  BY DEF BenchInv, Bench!Compare
<1>3. UNCHANGED <<wrote, disk, seen, queue, mutex, session, busy, strange, undone, crossed>>
  BY DEF Bench!Compare
<1>4. /\ where' = [where EXCEPT ![r] = where'[r]]
      /\ \/ where'[r] = "saving" /\ found' = [found EXCEPT ![r] = disk] /\ disk["document"] = seen[r]["document"]
         \/ where'[r] = "refused" /\ found' = found
  BY <1>1 DEF Bench!Compare, Bench!Go, BenchTypes
<1>5. BenchTypes'
  BY <1>1, <1>3, <1>4 DEF BenchTypes, Stages
<1>6. BenchPart(r)'
  BY <1>1, <1>2, <1>3, <1>4, TypesOf
     DEF BenchTypes, BenchPart, StageOf, Locked, ToBeWritten, SavedText, Bench!Overtaken, SessionOf, PutBackAgain
<1> QED  BY <1>1, <1>3, <1>4, <1>5, <1>6, QuietStep DEF BenchTypes

(* A save of the same process that is there when one is compared stays     *)
(* known to it: the two run in one turn.                                   *)
Knows(q, r) ==
    /\ where[q] = "saving" /\ r # q /\ r \in Bench!Saves /\ Server[r] = Server[q]
    /\ where[r] \in {"validating", "done"} /\ ~Bench!Overtaken(r)
    => \E i \in 1 .. Len(found[q]["document"]) : found[q]["document"][i] = r

SavesKnow == \A q, r \in Requests : Knows(q, r)

LEMMA SaveStep ==
    ASSUME BenchInv, SavesKnow, NEW r \in Requests, Bench!Save(r)
    PROVE  BenchInv'
<1>1. BenchTypes /\ WellWritten(disk) /\ AnsweredOnce(session)
  BY DEF BenchInv
<1>2. /\ BenchPart(r) /\ where[r] = "saving" /\ r \in Bench!Saves /\ found[r] \in Texts
      /\ seen[r]["document"] = found[r]["document"]
  BY DEF BenchInv, Bench!Save, BenchPart, StageOf
<1>3. UNCHANGED <<wrote, seen, found, queue, mutex, session, busy, undone>>
  BY DEF Bench!Save
<1>4. "document" \in BenchFiles /\ Bench!HostFiles \subseteq BenchFiles /\ "document" \notin Bench!HostFiles
  BY DEF BenchFiles, Bench!HostFiles
<1>5. /\ where' = [where EXCEPT ![r] = "validating"]
      /\ disk' = [disk EXCEPT !["document"] = Append(found[r]["document"], r)]
      /\ strange' = [q \in Requests |-> IF q # r THEN strange[q] \cup {"document"} ELSE strange[q]]
      /\ crossed' = IF disk["document"] = found[r]["document"] THEN crossed ELSE crossed \cup {r}
  BY <1>2 DEF Bench!Save, Bench!Put, Bench!Go, Bench!Saved
<1>6. found[r]["document"] \in Seq(Requests)
  BY <1>2, <1>4 DEF Texts
<1>7. BenchTypes'
  <2>1. disk' \in Texts
    BY <1>1, <1>4, <1>5, <1>6 DEF BenchTypes, Texts
  <2> QED  BY <1>1, <1>3, <1>4, <1>5, <2>1 DEF BenchTypes, Stages
<1>8. where'[r] = "validating"
  BY <1>1, <1>5 DEF BenchTypes
<1>9. (\A f \in Bench!HostFiles : disk'[f] = disk[f]) /\ disk'["document"] = Append(found[r]["document"], r)
  BY <1>1, <1>4, <1>5 DEF BenchTypes, Texts
<1>10. /\ Len(disk'["document"]) = Len(found[r]["document"]) + 1
       /\ disk'["document"][Len(disk'["document"])] = r
       /\ \A i \in 1 .. Len(found[r]["document"]) : disk'["document"][i] = found[r]["document"][i]
       /\ Len(found[r]["document"]) \in Nat
  BY <1>6, <1>9
<1>11. BenchPart(r)'
  <2>1. SavedText(r)'
    BY <1>10 DEF SavedText
  <2> QED
    BY <1>2, <1>3, <1>8, <2>1, TypesOf DEF BenchPart, StageOf, Locked, ToBeWritten, SessionOf, PutBackAgain
<1>12. SparesOthers(r)
  <2>1. \A q \in Requests : q # r => where'[q] = where[q] /\ strange[q] \subseteq strange'[q]
    BY <1>1, <1>5 DEF BenchTypes
  <2>2. ASSUME NEW q \in Requests, q # r, ~Bench!Overtaken(q)'
        PROVE  ~Bench!Overtaken(q)
    BY <1>3, <1>5, <2>2 DEF Bench!Overtaken
  <2>3. ASSUME NEW q \in Requests, q # r, ~Bench!Overtaken(q)',
               q \in Bench!Saves, where[q] \in {"validating", "done"},
               NEW i \in 1 .. Len(disk["document"]), disk["document"][i] = q
        PROVE  \E j \in 1 .. Len(disk'["document"]) : disk'["document"][j] = q
    <3>1. \E j \in 1 .. Len(found[r]["document"]) : found[r]["document"][j] = q
      <4>1. CASE Server[q] = Server[r]
        BY <1>2, <2>2, <2>3, <4>1 DEF SavesKnow, Knows
      <4>2. CASE Server[q] # Server[r]
        <5>1. r \notin crossed'
          BY <2>3, <4>2 DEF Bench!Overtaken
        <5>2. disk["document"] = found[r]["document"]
          BY <1>5, <5>1
        <5> QED  BY <2>3, <5>2
      <4> QED  BY <4>1, <4>2
    <3> QED  BY <1>10, <3>1
  <2>4. \A q \in Requests : q # r =>
          (~Bench!Overtaken(q)' => ~Bench!Overtaken(q) /\ (q \in Bench!Saves /\ where[q] \in {"validating", "done"} =>
              \A i \in 1 .. Len(disk["document"]) :
                  disk["document"][i] = q => \E j \in 1 .. Len(disk'["document"]) : disk'["document"][j] = q))
    BY <2>2, <2>3
  <2> QED  BY <1>1, <1>3, <1>9, <2>1, <2>4 DEF SparesOthers, BenchTypes
<1>13. WellWritten(disk)'
  <2> PICK text : text = disk'
    OBVIOUS
  <2>1. \A f \in Bench!HostFiles : text[f] \in Seq(Requests) /\ text[f] = disk[f]
    BY <1>1, <1>4, <1>9 DEF BenchTypes, Texts
  <2>2. WellWritten(text)
    BY <1>1, <2>1 DEF WellWritten
  <2>3. WellWritten(text)'
    BY <1>1, <1>3, <2>1, <2>2, WrittenStays DEF BenchTypes
  <2> QED  BY <2>3
<1>14. AnsweredOnce(session)'
  BY <1>1, <1>3 DEF AnsweredOnce
<1> QED  BY <1>7, <1>11, <1>12, <1>13, <1>14, BenchStepOf

LEMMA InvalidStep ==
    ASSUME BenchInv, NEW r \in Requests, Bench!Invalid(r)
    PROVE  BenchInv'
<1>1. BenchTypes /\ WellWritten(disk) /\ AnsweredOnce(session)
  BY DEF BenchInv
<1>2. /\ BenchPart(r) /\ where[r] \in {"saving", "validating"} /\ r \in Bench!Saves /\ found[r] \in Texts
      /\ seen[r]["document"] = found[r]["document"]
  BY DEF BenchInv, Bench!Invalid, BenchPart, StageOf
<1>3. UNCHANGED <<wrote, seen, found, queue, mutex, session, busy, crossed>>
  BY DEF Bench!Invalid
<1>4. "document" \in BenchFiles /\ Bench!HostFiles \subseteq BenchFiles /\ "document" \notin Bench!HostFiles
  BY DEF BenchFiles, Bench!HostFiles
<1>5. /\ where' = [where EXCEPT ![r] = "failed"]
      /\ disk' = [disk EXCEPT !["document"] = found[r]["document"]]
      /\ strange' = [q \in Requests |-> IF q # r THEN strange[q] \cup {"document"} ELSE strange[q]]
      /\ undone' = (undone \/ disk["document"] \notin {found[r]["document"], Append(found[r]["document"], r)})
  BY <1>2 DEF Bench!Invalid, Bench!Put, Bench!Go, Bench!Saved
<1>6. found[r]["document"] \in Seq(Requests)
  BY <1>2, <1>4 DEF Texts
<1>7. BenchTypes'
  <2>1. disk' \in Texts
    BY <1>1, <1>4, <1>5, <1>6 DEF BenchTypes, Texts
  <2> QED  BY <1>1, <1>3, <1>4, <1>5, <2>1 DEF BenchTypes, Stages
<1>8. where'[r] = "failed"
  BY <1>1, <1>5 DEF BenchTypes
<1>9. (\A f \in Bench!HostFiles : disk'[f] = disk[f]) /\ disk'["document"] = found[r]["document"]
  BY <1>1, <1>4, <1>5 DEF BenchTypes, Texts
<1>10. BenchPart(r)'
  BY <1>2, <1>3, <1>8, TypesOf
     DEF BenchPart, StageOf, Locked, ToBeWritten, SavedText, SessionOf, PutBackAgain
<1>11. SparesOthers(r)
  <2>1. \A q \in Requests : q # r => where'[q] = where[q] /\ strange[q] \subseteq strange'[q]
    BY <1>1, <1>5 DEF BenchTypes
  <2>2. ASSUME NEW q \in Requests, q # r, ~Bench!Overtaken(q)'
        PROVE  ~Bench!Overtaken(q) /\ \A i \in 1 .. Len(disk["document"]) :
                 disk["document"][i] = q => \E j \in 1 .. Len(disk'["document"]) : disk'["document"][j] = q
    <3>1. ~Bench!Overtaken(q) /\ ~undone'
      BY <1>3, <1>5, <2>2 DEF Bench!Overtaken
    <3>2. disk["document"] = found[r]["document"] \/ disk["document"] = Append(found[r]["document"], r)
      BY <1>5, <3>1
    <3>3. \A i \in 1 .. Len(disk["document"]) :
            disk["document"][i] = q => i \in 1 .. Len(found[r]["document"]) /\ found[r]["document"][i] = q
      BY <1>6, <2>2, <3>2
    <3> QED  BY <1>9, <3>1, <3>3
  <2> QED  BY <1>1, <1>3, <1>9, <2>1, <2>2 DEF SparesOthers, BenchTypes
<1>12. WellWritten(disk)'
  <2> PICK text : text = disk'
    OBVIOUS
  <2>1. \A f \in Bench!HostFiles : text[f] \in Seq(Requests) /\ text[f] = disk[f]
    BY <1>1, <1>4, <1>9 DEF BenchTypes, Texts
  <2>2. WellWritten(text)
    BY <1>1, <2>1 DEF WellWritten
  <2>3. WellWritten(text)'
    BY <1>1, <1>3, <2>1, <2>2, WrittenStays DEF BenchTypes
  <2> QED  BY <2>3
<1>13. AnsweredOnce(session)'
  BY <1>1, <1>3 DEF AnsweredOnce
<1> QED  BY <1>7, <1>10, <1>11, <1>12, <1>13, BenchStepOf

LEMMA OpenStep ==
    ASSUME BenchInv, NEW r \in Requests, Bench!Open(r) \/ Bench!Close(r)
    PROVE  BenchInv'
<1>1. BenchTypes /\ BenchPart(r) /\ r \in Bench!Notes
  BY DEF BenchInv, Bench!Open, Bench!Close, BenchPart, StageOf
<1>2. UNCHANGED <<wrote, disk, seen, found, queue, mutex, session, strange, undone, crossed>>
  BY DEF Bench!Open, Bench!Close
<1>3. /\ where' = [where EXCEPT ![r] = where'[r]]
      /\ \/ where[r] = "asked" /\ where'[r] = "revising" /\ busy = None /\ busy' = r
         \/ where[r] = "asked" /\ where'[r] = "refused" /\ busy' = busy
         \/ where[r] = "unlocking" /\ where'[r] = "done" /\ busy' = None
  BY <1>1 DEF Bench!Open, Bench!Close, Bench!Go, BenchTypes
<1>4. BenchTypes'
  BY <1>1, <1>2, <1>3 DEF BenchTypes, Stages
<1>5. SessionOf(r)'
  BY <1>1, <1>2, <1>3 DEF BenchPart, SessionOf
<1>6. BenchPart(r)'
  BY <1>1, <1>2, <1>3, <1>5, TypesOf DEF BenchPart, StageOf, Locked, ToBeWritten, SavedText, Bench!Overtaken, PutBackAgain
<1>7. \A q \in Requests : q # r => (busy = q => busy' = q)
  BY <1>1, <1>3, BenchAssumption DEF BenchPart, SessionOf
<1> QED  BY <1>1, <1>2, <1>3, <1>4, <1>6, <1>7, QuietStep

LEMMA LoadStep ==
    ASSUME BenchInv, NEW r \in Requests, Bench!Load(r)
    PROVE  BenchInv'
<1>1. BenchTypes /\ BenchPart(r) /\ r \in Bench!Notes /\ where[r] = "revising" /\ busy = r
  BY DEF BenchInv, Bench!Load, BenchPart, StageOf, SessionOf
<1>2. UNCHANGED <<wrote, disk, seen, queue, mutex, session, strange, undone, crossed>>
  BY DEF Bench!Load
<1>3. CASE \E n \in Bench!Subjects(r) :
             /\ found' = [found EXCEPT ![r] = Append(session, [by |-> r, of |-> n])]
             /\ where' = [where EXCEPT ![r] = "recording"] /\ busy' = busy
  <2>1. PICK n \in Bench!Subjects(r) :
             /\ found' = [found EXCEPT ![r] = Append(session, [by |-> r, of |-> n])]
             /\ where' = [where EXCEPT ![r] = "recording"] /\ busy' = busy
    BY <1>3
  <2>2. BenchTypes'
    BY <1>1, <1>2, <2>1 DEF BenchTypes, Stages
  <2>3. where'[r] = "recording" /\ found'[r] = Append(session, [by |-> r, of |-> n])
    BY <1>1, <2>1 DEF BenchTypes
  <2>4. Bench!Subjects(r)' = Bench!Subjects(r)
    BY <1>2 DEF Bench!Subjects, Bench!Sequences, Bench!Answered
  <2>5. SessionOf(r)'
    <3>1. n \in Bench!Subjects(r)'
      BY <2>4
    <3> QED  BY <1>1, <1>2, <2>1, <2>3, <3>1 DEF SessionOf
  <2>6. BenchPart(r)'
    BY <1>1, <1>2, <2>3, <2>5, TypesOf DEF BenchPart, StageOf, Locked, ToBeWritten, SavedText, Bench!Overtaken, PutBackAgain
  <2> QED  BY <1>1, <1>2, <2>1, <2>2, <2>6, QuietStep DEF BenchTypes
<1>4. CASE /\ where' = [where EXCEPT ![r] = "refused"] /\ busy' = None /\ UNCHANGED found
  <2>1. BenchTypes' /\ where'[r] = "refused"
    BY <1>1, <1>2, <1>4 DEF BenchTypes, Stages
  <2>2. BenchPart(r)'
    BY <1>1, <1>2, <1>4, <2>1, TypesOf DEF BenchPart, StageOf, Locked, ToBeWritten, SavedText, Bench!Overtaken, SessionOf, PutBackAgain
  <2> QED  BY <1>1, <1>2, <1>4, <2>1, <2>2, QuietStep DEF BenchTypes
<1> QED  BY <1>3, <1>4 DEF Bench!Load, Bench!Go

(* A nonempty set of numbers up to k has a greatest one. *)
LEMMA GreatestOf ==
    ASSUME NEW k \in Nat, NEW S \in SUBSET (1 .. k), S # {}
    PROVE  \E m \in S : \A n \in S : m >= n
<1> DEFINE R == OpToRel(<, Nat)
           T == {k - n : n \in S}
<1>1. PICK t \in T : \A u \in T : ~(<<u, t>> \in R)
  <2>1. IsWellFoundedOn(R, Nat)
    BY NatLessThanWellFounded
  <2>2. T \in SUBSET Nat /\ T # {}
    <3>1. \A n \in S : n \in 1 .. k
      OBVIOUS
    <3>2. \A n \in S : k - n \in Nat
      BY <3>1
    <3> QED  BY <3>2
  <2> HIDE DEF R, T
  <2> QED  BY <2>1, <2>2, WFMin
<1>2. \A u \in T : ~(u < t)
  <2>1. \A u \in T : u \in Nat /\ t \in Nat
    OBVIOUS
  <2> QED  BY <1>1, <2>1 DEF OpToRel
<1>3. PICK m \in S : t = k - m
  OBVIOUS
<1>4. \A n \in S : ~(k - n < k - m)
  BY <1>2, <1>3
<1> QED  BY <1>3, <1>4

(* What a request may answer has not been answered yet. *)
LEMMA SubjectsFit ==
    ASSUME session \in Seq(Event), NEW r \in Bench!Notes, NEW n \in Bench!Subjects(r)
    PROVE  /\ n \in Nat
           /\ Type[r] \in {"choose", "review"} =>
                 \A m \in 1 .. Len(session) : Type[session[m].by] = Type[r] => session[m].of # n
           /\ Type[r] = "review" => \E c \in 1 .. Len(session) : Type[session[c].by] = "choose" /\ session[c].of = n
<1>1. CASE Type[r] = "choose"
  <2>1. n \in 1 .. Len(session) /\ n \notin Bench!Answered("choose")
    BY <1>1 DEF Bench!Subjects, Bench!Sequences
  <2> QED  BY <1>1, <2>1 DEF Bench!Answered, Bench!Sequences
<1>2. CASE Type[r] = "review"
  <2> DEFINE chosen == {c \in Bench!Sequences("choose") : session[c].of \notin Bench!Answered("review")}
  <2>1. chosen # {} /\ n = session[Bench!Max(chosen)].of
    BY <1>2 DEF Bench!Subjects
  <2>2. chosen \in SUBSET (1 .. Len(session)) /\ Len(session) \in Nat
    BY DEF Bench!Sequences
  <2>3. Bench!Max(chosen) \in chosen
    <3> HIDE DEF chosen
    <3>1. \E m \in chosen : \A c \in chosen : m >= c
      BY <2>1, <2>2, GreatestOf
    <3> QED  BY <3>1 DEF Bench!Max
  <2>4. PICK c \in chosen : n = session[c].of
    BY <2>1, <2>3
  <2>5. c \in 1 .. Len(session) /\ Type[session[c].by] = "choose" /\ n \notin Bench!Answered("review") /\ n \in Nat
    <3>1. c \in 1 .. Len(session) /\ Type[session[c].by] = "choose" /\ n \notin Bench!Answered("review")
      BY <2>4 DEF Bench!Sequences
    <3>2. session[c] \in Event
      BY <3>1
    <3> QED  BY <2>4, <3>1, <3>2 DEF Event
  <2> QED  BY <1>2, <2>4, <2>5 DEF Bench!Answered, Bench!Sequences
<1>3. CASE Type[r] \notin {"choose", "review"}
  BY <1>3 DEF Bench!Subjects
<1> QED  BY <1>1, <1>2, <1>3

LEMMA RecordStep ==
    ASSUME BenchInv, NEW r \in Requests, Bench!Record(r)
    PROVE  BenchInv'
<1>1. /\ BenchTypes /\ WellWritten(disk) /\ AnsweredOnce(session)
      /\ BenchPart(r) /\ where[r] = "recording" /\ r \in Bench!Notes /\ busy = r
  BY DEF BenchInv, Bench!Record, BenchPart, StageOf, SessionOf
<1>2. UNCHANGED <<wrote, disk, seen, found, queue, mutex, busy, strange, undone, crossed>>
  BY DEF Bench!Record
<1>3. where' = [where EXCEPT ![r] = "unlocking"] /\ where'[r] = "unlocking" /\ session' = found[r]
  BY <1>1 DEF Bench!Record, Bench!Go, BenchTypes
<1>4. PICK n \in Bench!Subjects(r) : session' = Append(session, [by |-> r, of |-> n])
  BY <1>1, <1>3 DEF BenchPart, SessionOf
<1> DEFINE e == [by |-> r, of |-> n]
           k == Len(session)
<1>5. /\ n \in Nat
      /\ Type[r] \in {"choose", "review"} =>
            \A m \in 1 .. k : Type[session[m].by] = Type[r] => session[m].of # n
      /\ Type[r] = "review" => \E c \in 1 .. k : Type[session[c].by] = "choose" /\ session[c].of = n
  BY <1>1, SubjectsFit DEF BenchTypes
<1>6. e \in Event /\ session \in Seq(Event) /\ k \in Nat
  BY <1>1, <1>5 DEF Event, BenchTypes
<1>7. /\ session' \in Seq(Event) /\ Len(session') = k + 1 /\ session'[k + 1] = e
      /\ \A m \in 1 .. k : session'[m] = session[m]
  BY <1>4, <1>6
<1>8. BenchTypes'
  BY <1>1, <1>2, <1>3, <1>7 DEF BenchTypes, Stages
<1>9. AnsweredOnce(session)'
  <2> SUFFICES ASSUME NEW i \in 1 .. (k + 1)
               PROVE  /\ Type[session'[i].by] \in {"choose", "review"} =>
                           \A m \in 1 .. (k + 1) :
                               Type[session'[m].by] = Type[session'[i].by] /\ session'[m].of = session'[i].of => m = i
                      /\ Type[session'[i].by] = "review" =>
                           \E c \in 1 .. (i - 1) : Type[session'[c].by] = "choose" /\ session'[c].of = session'[i].of
    BY <1>7 DEF AnsweredOnce
  <2>1. \A m \in 1 .. (k + 1) : m \in 1 .. k \/ m = k + 1
    BY <1>6
  <2>2. session'[k + 1].by = r /\ session'[k + 1].of = n
    BY <1>7
  <2>3. CASE i \in 1 .. k
    <3>1. /\ Type[session[i].by] \in {"choose", "review"} =>
                \A m \in 1 .. k : Type[session[m].by] = Type[session[i].by] /\ session[m].of = session[i].of => m = i
          /\ Type[session[i].by] = "review" =>
                \E c \in 1 .. (i - 1) : Type[session[c].by] = "choose" /\ session[c].of = session[i].of
      BY <1>1, <2>3 DEF AnsweredOnce
    <3>2. Type[session[i].by] \in {"choose", "review"} =>
            ~(Type[r] = Type[session[i].by] /\ n = session[i].of)
      BY <1>5, <2>3
    <3>3. session'[i] = session[i] /\ \A c \in 1 .. (i - 1) : session'[c] = session[c]
      BY <1>6, <1>7, <2>3
    <3> QED  BY <1>7, <2>1, <2>2, <3>1, <3>2, <3>3
  <2>4. CASE i = k + 1
    <3>1. i - 1 = k
      BY <1>6, <2>4
    <3> QED  BY <1>5, <1>7, <2>1, <2>2, <2>4, <3>1
  <2> QED  BY <2>1, <2>3, <2>4
<1>10. SessionOf(r)'
  BY <1>1, <1>2, <1>3, <1>7 DEF SessionOf
<1>11. BenchPart(r)'
  BY <1>1, <1>2, <1>3, <1>10, TypesOf DEF BenchPart, StageOf, Locked, ToBeWritten, SavedText, Bench!Overtaken, PutBackAgain
<1>12. SparesOthers(r)
  <2>1. \A q \in Requests : q # r => where'[q] = where[q] /\ busy # q
    BY <1>1, <1>3 DEF BenchTypes
  <2>2. Len(session) <= Len(session') /\ \A m \in 1 .. Len(session) : session'[m] = session[m]
    BY <1>6, <1>7
  <2>3. \A q \in Requests : wrote[q] <= wrote'[q]
    BY <1>1, <1>2 DEF BenchTypes
  <2>4. \A q \in Requests : Bench!Overtaken(q)' <=> Bench!Overtaken(q)
    BY <1>2 DEF Bench!Overtaken
  <2> QED  BY <1>2, <2>1, <2>2, <2>3, <2>4 DEF SparesOthers
<1>13. WellWritten(disk)'
  <2>1. \A f \in Bench!HostFiles : disk[f] \in Seq(Requests)
    BY <1>1 DEF BenchTypes, Texts, BenchFiles
  <2> QED  BY <1>1, <1>2, <2>1, WrittenStays DEF BenchTypes
<1> QED  BY <1>8, <1>9, <1>11, <1>12, <1>13, BenchStepOf

(* A crash changes no file and frees no lock of a request that lives. *)
LEMMA BenchCrashStep ==
    ASSUME BenchInv, NEW c, Bench!Crash(c)
    PROVE  BenchInv'
<1>1. BenchTypes /\ WellWritten(disk) /\ AnsweredOnce(session)
  BY DEF BenchInv
<1>2. UNCHANGED <<wrote, disk, seen, found, session, busy, strange, undone, crossed>>
  BY DEF Bench!Crash
<1>3. \A q \in Requests : where'[q] = "lost" \/ (where'[q] = where[q] /\ (mutex = q => mutex' = q))
  BY DEF Bench!Crash
<1>4. BenchTypes'
  BY <1>1, <1>2 DEF Bench!Crash, BenchTypes, Stages
<1>5. WellWritten(disk)'
  <2>1. \A f \in Bench!HostFiles : disk[f] \in Seq(Requests)
    BY <1>1 DEF BenchTypes, Texts, BenchFiles
  <2> QED  BY <1>1, <1>2, <2>1, WrittenStays DEF BenchTypes
<1>6. AnsweredOnce(session)'
  BY <1>1, <1>2 DEF AnsweredOnce
<1>7. ASSUME NEW q \in Requests PROVE BenchPart(q)'
  <2>1. BenchPart(q)
    BY DEF BenchInv
  <2>2. CASE where'[q] = "lost"
    BY <2>1, <2>2 DEF BenchPart, StageOf, Locked, ToBeWritten, SavedText, Bench!Overtaken, SessionOf, PutBackAgain
  <2>3. CASE where'[q] = where[q] /\ (mutex = q => mutex' = q)
    <3>1. Bench!Overtaken(q)' <=> Bench!Overtaken(q)
      BY <1>2 DEF Bench!Overtaken
    <3>2. \A r \in Requests : wrote[r] <= wrote'[r]
      BY <1>1, <1>2 DEF BenchTypes
    <3> QED  BY <1>2, <1>4, <2>3, <3>1, <3>2, BenchFrame
  <2> QED  BY <1>3, <2>2, <2>3
<1> QED  BY <1>4, <1>5, <1>6, <1>7 DEF BenchInv

LEMMA BenchInvInit == ASSUME Bench!Init PROVE BenchInv
<1> USE DEF Bench!Init
<1>1. BenchTypes
  <2>1. where \in [Requests -> Stages]
    BY DEF Stages
  <2>2. disk \in Texts
    BY DEF Texts, BenchFiles
  <2>3. DOMAIN seen = Requests /\ DOMAIN found = Requests /\ wrote \in [Requests -> Nat]
    OBVIOUS
  <2>4. session \in Seq(Event)
    OBVIOUS
  <2>5. strange \in [Requests -> SUBSET BenchFiles] /\ undone \in BOOLEAN /\ crossed \subseteq Requests
    OBVIOUS
  <2> QED  BY <2>1, <2>2, <2>3, <2>4, <2>5 DEF BenchTypes
<1>2. WellWritten(disk) /\ AnsweredOnce(session)
  <2>1. \A f \in Bench!HostFiles : disk[f] = <<>>
    OBVIOUS
  <2> QED  BY <2>1 DEF WellWritten, AnsweredOnce
<1>3. ASSUME NEW r \in Requests PROVE BenchPart(r)
  <2>1. where[r] \in {"reviewing", "absent"} /\ wrote[r] = 0
    OBVIOUS
  <2> QED  BY <2>1 DEF BenchPart, StageOf, Locked, ToBeWritten, SavedText, Bench!Overtaken, SessionOf, PutBackAgain
<1> QED  BY <1>1, <1>2, <1>3 DEF BenchInv

LEMMA BenchNext == ASSUME BenchInv, SavesKnow, Bench!Next PROVE BenchInv'
<1>1. CASE \E c \in Bench!Processes : Bench!Crash(c)
  BY <1>1, BenchCrashStep
<1>2. ASSUME NEW r \in Requests,
             \/ Bench!Review(r) \/ Bench!Start(r) \/ Bench!Lock(r) \/ Bench!Perform(r) \/ Bench!Write(r)
             \/ Bench!Finish(r) \/ Bench!Fail(r) \/ Bench!Restore(r) \/ Bench!Compare(r) \/ Bench!Save(r)
             \/ Bench!Valid(r) \/ Bench!Invalid(r) \/ Bench!Open(r) \/ Bench!Load(r) \/ Bench!Record(r)
             \/ Bench!Close(r)
      PROVE  BenchInv'
  BY <1>2, ReviewStep, StartStep, LockStep, PerformStep, WriteStep, FinishStep, RestoreStep, CompareStep, SaveStep,
     InvalidStep, OpenStep, LoadStep, RecordStep
<1> QED  BY <1>1, <1>2 DEF Bench!Next

(* Only a comparison begins a save, and only a save, in its own turn, puts *)
(* one more text there.                                                    *)
LEMMA KnowsStep ==
    ASSUME BenchTypes,
           NEW q \in Requests, NEW r \in Requests, Knows(q, r),
           where'[q] = "saving" => where[q] = "saving" /\ found'[q] = found[q],
           where'[r] \in {"validating", "done"} /\ r \in Bench!Saves /\ where[q] = "saving" /\ Server[r] = Server[q]
               => where[r] \in {"validating", "done"} \/ r = q,
           ~Bench!Overtaken(r)' => ~Bench!Overtaken(r)
    PROVE  Knows(q, r)'
BY DEF Knows

LEMMA KnowsNext == ASSUME BenchInv, SavesKnow, Bench!Next PROVE SavesKnow'
<1>1. BenchTypes
  BY DEF BenchInv
<1> SUFFICES ASSUME NEW q \in Requests, NEW r \in Requests PROVE Knows(q, r)'
  BY DEF SavesKnow
<1>2. Knows(q, r)
  BY DEF SavesKnow
<1>3. ASSUME NEW c \in Bench!Processes, Bench!Crash(c) PROVE Knows(q, r)'
  <2>1. UNCHANGED <<found, undone, crossed>> /\ \A x \in Requests : where'[x] = "lost" \/ where'[x] = where[x]
    BY <1>3 DEF Bench!Crash
  <2> QED  BY <1>1, <1>2, <2>1, KnowsStep DEF Bench!Overtaken
<1>4. ASSUME NEW p \in Requests, Bench!Compare(p) PROVE Knows(q, r)'
  <2>1. /\ where' = [where EXCEPT ![p] = where'[p]] /\ p \in Bench!Saves /\ where[p] = "asked"
        /\ \/ where'[p] = "saving" /\ found' = [found EXCEPT ![p] = disk]
           \/ where'[p] = "refused" /\ found' = found
        /\ UNCHANGED <<disk, undone, crossed>>
    BY <1>1, <1>4 DEF Bench!Compare, Bench!Go, BenchTypes
  <2>2. CASE p = q /\ where'[p] = "saving"
    <3>1. found'[q] = disk
      BY <1>1, <2>1, <2>2 DEF BenchTypes
    <3>2. SavedText(r)
      BY DEF BenchInv, BenchPart
    <3>3. r # q => where'[r] = where[r]
      BY <1>1, <2>1, <2>2 DEF BenchTypes
    <3> QED  BY <2>1, <3>1, <3>2, <3>3 DEF Knows, SavedText, Bench!Overtaken
  <2>3. CASE ~(p = q /\ where'[p] = "saving")
    BY <1>1, <1>2, <2>1, <2>3, KnowsStep DEF BenchTypes, Bench!Overtaken
  <2> QED  BY <2>2, <2>3
<1>5. ASSUME NEW p \in Requests, Bench!Turn(p), Bench!Save(p) PROVE Knows(q, r)'
  <2>1. /\ where' = [where EXCEPT ![p] = "validating"] /\ found' = found /\ undone' = undone
        /\ crossed \subseteq crossed'
    BY <1>5 DEF Bench!Save, Bench!Go
  <2>2. p # q /\ Server[p] = Server[q] => where[q] # "saving"
    BY <1>5 DEF Bench!Turn
  <2> QED  BY <1>1, <1>2, <2>1, <2>2, KnowsStep DEF BenchTypes, Bench!Overtaken
<1>6. ASSUME NEW p \in Requests, Bench!Invalid(p) PROVE Knows(q, r)'
  <2>1. /\ where' = [where EXCEPT ![p] = "failed"] /\ found' = found /\ (undone => undone') /\ crossed' = crossed
    BY <1>6 DEF Bench!Invalid, Bench!Go
  <2>2. ~Bench!Overtaken(r)' => ~Bench!Overtaken(r)
    BY <2>1 DEF Bench!Overtaken
  <2> QED  BY <1>1, <1>2, <2>1, <2>2, KnowsStep DEF BenchTypes
<1>7. ASSUME NEW p \in Requests, Bench!Valid(p) PROVE Knows(q, r)'
  <2>1. /\ where' = [where EXCEPT ![p] = "done"] /\ where[p] = "validating" /\ UNCHANGED <<found, undone, crossed>>
    BY <1>7 DEF Bench!Valid, Bench!Go
  <2> QED  BY <1>1, <1>2, <2>1, KnowsStep DEF BenchTypes, Bench!Overtaken
<1>8. ASSUME NEW p \in Requests,
             \/ Bench!Review(p) \/ Bench!Start(p) \/ Bench!Lock(p) \/ Bench!Perform(p) \/ Bench!Write(p)
             \/ Bench!Finish(p) \/ Bench!Fail(p) \/ Bench!Restore(p)
             \/ Bench!Open(p) \/ Bench!Load(p) \/ Bench!Record(p) \/ Bench!Close(p)
      PROVE  Knows(q, r)'
  <2>1. UNCHANGED <<undone, crossed>>
    BY <1>8 DEF Bench!Review, Bench!Start, Bench!Lock, Bench!Perform, Bench!Write, Bench!Finish, Bench!Fail,
         Bench!Restore, Bench!Open, Bench!Load, Bench!Record, Bench!Close
  <2>2. /\ \A x \in Requests : x # p => where'[x] = where[x] /\ found'[x] = found[x]
        /\ where'[p] # "saving" /\ where'[p] # "validating"
        /\ where'[p] = "done" => p \notin Bench!Saves
    <3>1. BenchPart(p)
      BY DEF BenchInv
    <3>2. CASE Bench!Review(p)
      BY <1>1, <3>2 DEF Bench!Review, Bench!Go, BenchTypes
    <3>3. CASE Bench!Start(p) \/ Bench!Lock(p)
      BY <1>1, <3>3 DEF Bench!Start, Bench!Lock, Bench!Go, BenchTypes
    <3>4. CASE Bench!Perform(p)
      BY <1>1, <3>4 DEF Bench!Perform, Bench!Leave, Bench!Go, BenchTypes
    <3>5. CASE Bench!Write(p)
      BY <1>1, <3>5 DEF Bench!Write
    <3>6. CASE Bench!Finish(p) \/ Bench!Fail(p)
      BY <1>1, <3>1, <3>6, TypesOf DEF Bench!Finish, Bench!Fail, Bench!Leave, Bench!Go, BenchTypes, BenchPart, StageOf
    <3>7. CASE Bench!Restore(p)
      BY <1>1, <3>7 DEF Bench!Restore, Bench!Leave, Bench!Go, BenchTypes
    <3>8. CASE Bench!Open(p) \/ Bench!Record(p)
      BY <1>1, <3>8 DEF Bench!Open, Bench!Record, Bench!Go, BenchTypes
    <3>9. CASE Bench!Load(p)
      BY <1>1, <3>9 DEF Bench!Load, Bench!Go, BenchTypes
    <3>10. CASE Bench!Close(p)
      BY <1>1, <3>1, <3>10, TypesOf DEF Bench!Close, Bench!Go, BenchTypes, BenchPart, StageOf
    <3> QED  BY <1>8, <3>2, <3>3, <3>4, <3>5, <3>6, <3>7, <3>8, <3>9, <3>10
  <2> QED  BY <1>1, <1>2, <2>1, <2>2, KnowsStep DEF Bench!Overtaken
<1> QED  BY <1>3, <1>4, <1>5, <1>6, <1>7, <1>8 DEF Bench!Next

LEMMA BenchStutter == ASSUME BenchInv, UNCHANGED bench PROVE BenchInv'
<1>1. UNCHANGED <<where, disk, seen, found, wrote, queue, mutex, session, busy, strange, undone, crossed>>
  BY DEF bench
<1>2. BenchTypes'
  BY <1>1 DEF BenchInv, BenchTypes
<1>3. WellWritten(disk)'
  <2>1. \A f \in Bench!HostFiles : disk[f] \in Seq(Requests)
    BY DEF BenchInv, BenchTypes, Texts, BenchFiles
  <2> QED  BY <1>1, <2>1, WrittenStays DEF BenchInv, BenchTypes
<1>4. AnsweredOnce(session)'
  BY <1>1 DEF AnsweredOnce, BenchInv
<1>5. ASSUME NEW q \in Requests PROVE BenchPart(q)'
  <2>1. Bench!Overtaken(q)' <=> Bench!Overtaken(q)
    BY <1>1 DEF Bench!Overtaken
  <2>2. \A r \in Requests : wrote[r] <= wrote'[r]
    BY <1>1 DEF BenchInv, BenchTypes
  <2> QED  BY <1>1, <1>2, <2>1, <2>2, BenchFrame
<1> QED  BY <1>2, <1>3, <1>4, <1>5 DEF BenchInv

BenchHolds == part = "bench" => BenchInv /\ SavesKnow

LEMMA BenchHoldsAlways == FilesSpec => []BenchHolds
<1>1. FilesInit => BenchHolds
  <2>1. Bench!Init => SavesKnow
    BY DEF Bench!Init, SavesKnow, Knows
  <2> QED  BY <2>1, BenchInvInit DEF FilesInit, BenchHolds
<1>2. BenchHolds /\ [FilesNext]_all => BenchHolds'
  <2> SUFFICES ASSUME BenchInv, SavesKnow, part = "bench", [FilesNext]_all PROVE BenchInv' /\ SavesKnow'
    BY DEF BenchHolds, FilesNext, all
  <2>1. CASE FilesNext
    BY <2>1, BenchNext, KnowsNext DEF FilesNext
  <2>2. CASE UNCHANGED all
    <3>1. SavesKnow'
      BY <2>2 DEF all, bench, SavesKnow, Knows, Bench!Overtaken
    <3> QED  BY <2>2, <3>1, BenchStutter DEF all
  <2> QED  BY <2>1, <2>2
<1> QED  BY <1>1, <1>2, PTL DEF FilesSpec

(* An action that fails has put everything back that nobody else has       *)
(* written since, or says that it has not (restore); a session keeps what  *)
(* it has acknowledged, a saved text stays unless an undo has run over one *)
(* or a save of another process, compared before, has replaced one; and of *)
(* actions each is chosen once and reviewed once, after it was chosen.     *)
THEOREM AcknowledgedStays == FilesSpec => []AcknowledgedIsKept
<1>1. BenchHolds => AcknowledgedIsKept
  <2> SUFFICES ASSUME BenchInv
               PROVE  Bench!FailedActionRestores /\ Bench!AcknowledgedIsKept /\ Bench!ActionsAreAnsweredOnce
    BY DEF BenchHolds, AcknowledgedIsKept
  <2>1. Bench!FailedActionRestores
    <3> SUFFICES ASSUME NEW r \in Bench!Actions, where[r] = "failed",
                        strange[r] \cap Bench!ToSet(Bench!Plan(r)) = {}, NEW f \in Bench!ToSet(Bench!Plan(r))
                 PROVE  disk[f] = found[r][f]
      BY DEF Bench!FailedActionRestores
    <3>1. PutBackAgain(r) /\ r \in Requests
      BY DEF BenchInv, BenchPart, Bench!Actions
    <3>2. PICK i \in 1 .. Len(Bench!Plan(r)) : f = Bench!Plan(r)[i]
      BY <3>1, PlanOf DEF Bench!ToSet
    <3> QED  BY <3>1, <3>2 DEF PutBackAgain
  <2>2. ASSUME NEW r \in Bench!Notes, where[r] \in {"unlocking", "done"}
        PROVE  found[r] = SubSeq(session, 1, Len(found[r]))
    <3>1. /\ found[r] \in Seq(Event) /\ Len(found[r]) <= Len(session)
          /\ \A i \in 1 .. Len(found[r]) : found[r][i] = session[i]
      BY <2>2 DEF BenchInv, BenchPart, SessionOf, Bench!Notes
    <3>2. session \in Seq(Event)
      BY DEF BenchInv, BenchTypes
    <3> QED  BY <3>1, <3>2
  <2>3. ASSUME NEW r \in Bench!Saves, where[r] = "done", ~Bench!Overtaken(r)
        PROVE  r \in Bench!ToSet(disk["document"])
    <3>1. \E i \in 1 .. Len(disk["document"]) : disk["document"][i] = r
      BY <2>3 DEF BenchInv, BenchPart, SavedText, Bench!Saves
    <3>2. disk["document"] \in Seq(Requests)
      BY DEF BenchInv, BenchTypes, Texts, BenchFiles
    <3> QED  BY <3>1, <3>2 DEF Bench!ToSet
  <2>4. Bench!ActionsAreAnsweredOnce
    BY DEF BenchInv, AnsweredOnce, Bench!ActionsAreAnsweredOnce
  <2> QED  BY <2>1, <2>2, <2>3, <2>4 DEF Bench!AcknowledgedIsKept
<1> QED  BY <1>1, BenchHoldsAlways, PTL

(* Who changes a host file: the action that writes it, or that puts it back. *)
LEMMA HostFileChanges ==
    ASSUME BenchInv, Bench!Next, NEW f \in Bench!HostFiles, disk'[f] # disk[f]
    PROVE  \E q \in Requests :
              \/ Bench!Write(q) /\ f = Bench!Plan(q)[wrote[q] + 1] /\ disk'[f] = Append(disk[f], q)
              \/ Bench!Restore(q) /\ f \in Bench!ToSet(Bench!Plan(q)) /\ disk'[f] = found[q][f]
<1>1. /\ BenchTypes /\ f \in BenchFiles /\ f # "document"
  BY DEF BenchInv, BenchFiles, Bench!HostFiles
<1>2. PICK q \in Requests : Bench!Write(q) \/ Bench!Restore(q) \/ Bench!Save(q) \/ Bench!Invalid(q)
  BY DEF Bench!Next, Bench!Compare, Bench!Review, Bench!Start, Bench!Lock, Bench!Perform, Bench!Finish, Bench!Fail, Bench!Valid,
         Bench!Open, Bench!Load, Bench!Record, Bench!Close, Bench!Crash
<1>3. CASE Bench!Write(q)
  <2>1. wrote'[q] = wrote[q] + 1
    BY <1>1, <1>3 DEF Bench!Write, BenchTypes
  <2> QED  BY <1>1, <1>3, <2>1 DEF Bench!Write, Bench!Put, BenchTypes, Texts
<1>4. CASE Bench!Restore(q)
  BY <1>1, <1>4 DEF Bench!Restore, Bench!PutBack, BenchTypes, Texts
<1>5. CASE Bench!Save(q) \/ Bench!Invalid(q)
  BY <1>1, <1>5 DEF Bench!Save, Bench!Invalid, Bench!Put, BenchTypes, Texts
<1> QED  BY <1>2, <1>3, <1>4, <1>5

(* What an action replaces is what its owner has reviewed, also after it   *)
(* has waited for the queue and the lock (applySpaceAction), except host   *)
(* files that the other process has written since.                         *)
THEOREM ReviewedOnlyReplaced == FilesSpec => ReviewedIsReplaced
<1>1. BenchHolds /\ [FilesNext]_all => [part = "bench" => Bench!ReplacesTheReviewed]_all
  <2> SUFFICES ASSUME BenchInv, Bench!Next, NEW r \in Bench!Actions, NEW f \in Bench!HostFiles,
                      where[r] = "writing", where'[r] = "writing", disk'[f] = Append(disk[f], r)
               PROVE  disk[f] = seen[r][f] \/ (f = "host" /\ "host" \in strange[r])
    BY DEF FilesNext, BenchHolds, Bench!ReplacesTheReviewed
  <2>1. /\ BenchTypes /\ BenchPart(r) /\ r \in Requests /\ disk[f] \in Seq(Requests)
        /\ Len(disk'[f]) = Len(disk[f]) + 1 /\ disk'[f][Len(disk[f]) + 1] = r /\ Len(disk[f]) \in Nat
        /\ \A i \in 1 .. Len(disk[f]) : disk'[f][i] = disk[f][i]
    BY DEF BenchInv, BenchTypes, Texts, BenchFiles, Bench!Actions
  <2>2. PICK q \in Requests :
              \/ Bench!Write(q) /\ f = Bench!Plan(q)[wrote[q] + 1] /\ disk'[f] = Append(disk[f], q)
              \/ Bench!Restore(q) /\ f \in Bench!ToSet(Bench!Plan(q)) /\ disk'[f] = found[q][f]
    BY <2>1, HostFileChanges
  <2>3. CASE Bench!Write(q) /\ f = Bench!Plan(q)[wrote[q] + 1] /\ disk'[f] = Append(disk[f], q)
    <3>1. q = r
      BY <2>1, <2>3
    <3>2. wrote[r] + 1 \in 1 .. Len(Bench!Plan(r)) /\ wrote[r] + 1 > wrote[r]
      BY <2>1, <2>3, <3>1, PlanOf DEF Bench!Write, BenchTypes
    <3> QED  BY <2>1, <2>3, <3>1, <3>2 DEF BenchPart, ToBeWritten
  <2>4. CASE Bench!Restore(q) /\ f \in Bench!ToSet(Bench!Plan(q)) /\ disk'[f] = found[q][f]
    <3>1. q # r /\ BenchPart(q) /\ q \in Bench!Actions /\ where[q] = "restoring" /\ WellWritten(found[q])
      BY <2>4 DEF BenchInv, Bench!Restore, BenchPart, StageOf
    <3>2. HasWritten(r, f)
      BY <2>1, <2>4, <3>1 DEF WellWritten
    <3>3. f = "host"
      <4>1. Type[r] = "configure" => mutex = r
        BY <2>1 DEF BenchPart, Locked
      <4>2. Type[q] = "configure" => mutex = q
        BY <3>1 DEF BenchPart, Locked
      <4>3. f # "host" => Type[q] = "configure"
        BY <2>4, PlanOf DEF Bench!ToSet
      <4>4. f # "host" => Type[r] = "configure"
        BY <2>1, <3>2, PlanOf DEF HasWritten, BenchTypes
      <4> QED  BY <3>1, <4>1, <4>2, <4>3, <4>4
    <3>4. ~ \E i \in 1 .. Len(disk[f]) : disk[f][i] = r
      <4> SUFFICES ASSUME NEW i \in 1 .. Len(disk[f]), disk[f][i] = r PROVE FALSE
        OBVIOUS
      <4>1. i \in 1 .. Len(found[q][f]) /\ Len(disk[f]) + 1 \in 1 .. Len(found[q][f])
        BY <2>1, <2>4
      <4>2. found[q][f][i] = found[q][f][Len(disk[f]) + 1]
        BY <2>1, <2>4
      <4>3. i = Len(disk[f]) + 1
        BY <3>1, <4>1, <4>2 DEF WellWritten
      <4> QED  BY <2>1, <4>3
    <3> QED  BY <2>1, <3>2, <3>3, <3>4 DEF BenchPart, ToBeWritten
  <2> QED  BY <2>2, <2>3, <2>4
<1> QED  BY <1>1, BenchHoldsAlways, PTL DEF FilesSpec, ReviewedIsReplaced

-----------------------------------------------------------------------------
(***************************************************************************)
(* The reviews.  A reviewer is firm if it decides under the lock; what it  *)
(* may change is then told from what it was shown, item by item.           *)
(***************************************************************************)
Firm(r) == review[r].way \in {"alone", "batch"}
Working(r) == Firm(r) /\ review[r].at \in Reviews!Inside
Approves(r) == Working(r) /\ review[r].act = "approved"
Undoing == {"restore", "unrecord"}

(* Decisions that are made under the lock. *)
FirmRecord(p, d) == (p \in Inbox /\ d = "approved") \/ (p \in Project /\ d # "superseded")

Places == Reviews!Inside \cup Reviews!Ended \cup {"idle", "asked", "waiting", "check"}
Slips == [proposal : Reviews!Proposals, decision : Reviews!Decisions, by : Reviewers]
Entries == Reviews!Proposals \X Reviews!Decisions
Reviewing ==
    [at : Places, way : {"none", "alone", "loose", "batch"}, act : {"none"} \cup Reviews!Decisions,
     items : Seq(Reviews!Proposals), k : Nat,
     shown : [Files -> Reviews!Documents], base : [Files -> Reviews!Documents],
     todo : SUBSET Files, written : SUBSET Files, old : [Reviews!Proposals -> Reviews!Statuses],
     found : [archives : SUBSET Entries, receipts : SUBSET Slips]]

ReviewTypes ==
    /\ setting \in Settings
    /\ canon \in [Files -> Reviews!Documents]
    /\ status \in [Reviews!Proposals -> Reviews!Statuses]
    /\ archives \subseteq Entries
    /\ receipts \subseteq Slips
    /\ cut \subseteq Reviews!Proposals
    /\ review \in [Reviewers -> Reviewing]

(* What is asked, and where each way through the code can lead. *)
WayOf(r) ==
    /\ review[r].at # "idle" =>
          /\ review[r].way # "none" /\ review[r].act # "none"
          /\ Reviews!Offered(review[r].way, review[r].act, review[r].items)
          /\ review[r].k \in DOMAIN review[r].items
    /\ review[r].way = "loose" =>
          review[r].at \in {"asked", "record"} \cup Reviews!Recording \cup Reviews!Ended
    /\ review[r].at \in {"asked", "waiting", "check"} =>
          review[r].k = 1 /\ review[r].written = {} /\ review[r].todo = {}
    /\ review[r].way = "alone" => review[r].found.archives = {} /\ review[r].found.receipts = {}
    /\ review[r].at \in {"write", "validate"} => review[r].act = "approved"
    /\ review[r].at = "validate" => review[r].k = Len(review[r].items)
    /\ Firm(r) /\ review[r].act # "approved" => review[r].written = {}
    /\ Firm(r) /\ review[r].at \in Reviews!Inside \cup {"check"} => holder = r

(* In a document are proposals that change it, and no rivals. *)
Fine(claims, f) ==
    /\ \A p \in claims : f \in Targets[p]
    /\ \A p, q \in claims : {p, q} \notin Rivals

Affected(r) == UNION {Targets[p] : p \in Reviews!Items(r)}

ShownOf(r) ==
    review[r].at \notin Reviews!Ended \cup {"idle"} /\ review[r].act = "approved" =>
        \A f \in Files :
            /\ Fine(review[r].shown[f].claims, f)
            /\ review[r].shown[f].claims \cap Reviews!Items(r) = {}
            /\ \A p \in Reviews!Items(r) : f \in Targets[p] => Reviews!Plannable(p, review[r].shown[f].claims)

(* The documents of the current item that have it, and what an approval   *)
(* has put into a document so far.                                         *)
Reached(r) == IF review[r].at = "plan" THEN {} ELSE Targets[Reviews!Item(r)]
Changed(r) == Reached(r) \ review[r].todo
Before(r, f) == {p \in Reviews!Earlier(r) : f \in Targets[p]}
Put(r, f) == Before(r, f) \cup {p \in {Reviews!Item(r)} : f \in Changed(r)}

AsShown(r, text, f) ==
    text[f].claims = review[r].shown[f].claims /\ (setting.ownerWaits => text[f] = review[r].shown[f])

DocumentsOf(r) ==
    Approves(r) =>
        /\ setting.ownerWaits /\ review[r].at # "unrecord" =>
              \A f \in Affected(r) : canon[f].edits = review[r].shown[f].edits
        /\ review[r].at \notin Undoing =>
              /\ review[r].written = Reviews!Touched(r) \cup Changed(r)
              /\ \A f \in Affected(r) : canon[f].claims = review[r].shown[f].claims \cup Put(r, f)
              /\ \A f \in Reviews!Touched(r) \cup Reached(r) : AsShown(r, review[r].base, f)
              /\ review[r].at # "write" => review[r].todo = {}
              /\ review[r].todo \subseteq Targets[Reviews!Item(r)]
        /\ review[r].at = "write" =>
              \A f \in Targets[Reviews!Item(r)] :
                  Reviews!Plannable(Reviews!Item(r), review[r].shown[f].claims \cup Before(r, f))
        /\ review[r].at = "restore" =>
              /\ Reviews!Restorable(r) \subseteq Affected(r)
              /\ \A f \in Reviews!Restorable(r) : AsShown(r, review[r].base, f)
              /\ \A f \in Affected(r) :
                    /\ review[r].shown[f].claims \subseteq canon[f].claims
                    /\ canon[f].claims \subseteq review[r].shown[f].claims \cup Reviews!Items(r)
                    /\ f \notin Reviews!Restorable(r) => canon[f].claims = review[r].shown[f].claims
        /\ review[r].at = "unrecord" =>
              \A p \in Reviews!Items(r) \ cut, f \in Files : p \notin canon[f].claims

(* The receipts a reviewer has written, and those of its items. *)
By(r) == {x.proposal : x \in {y \in receipts : y.by = r}}
Decided(r) ==
    Reviews!Earlier(r) \cup {p \in {Reviews!Item(r)} : review[r].at \in {"save", "validate"}}

ReceiptsOf(r) ==
    Firm(r) =>
        /\ review[r].at \in {"asked", "waiting", "check"} => By(r) = {}
        /\ review[r].at \in Reviews!Inside \ (Undoing \cup {"cleanup"}) => By(r) = Decided(r)
        /\ Reviews!Items(r) \cap cut = {} =>
              /\ review[r].at = "failed" => By(r) = {}
              /\ review[r].at = "done" => By(r) = Reviews!Items(r)

Steady(r) == review[r].at \notin Undoing \cup {"cleanup"}
ItemOf(r, p) ==
    /\ \A x \in receipts : x.proposal = p /\ FirmRecord(p, x.decision) => x.by = r
    /\ \A x \in review[r].found.receipts : x.proposal = p => x.decision # review[r].act /\ x.by # r
    /\ review[r].act = "approved" => <<p, "approved">> \notin review[r].found.archives
    /\ review[r].act = "approved" /\ Steady(r) =>
          (<<p, "approved">> \in archives <=>
              \/ p \in Reviews!Earlier(r)
              \/ p = Reviews!Item(r) /\ review[r].at \in {"receipt", "save", "validate"})
    /\ p \in Project /\ Steady(r) =>
          (p \in Reviews!Earlier(r) \/ (p = Reviews!Item(r) /\ review[r].at = "validate") => status[p] # "pending")
ItemsOf(r) == Working(r) => \A p \in Reviews!Items(r) \ cut : ItemOf(r, p)

(* A receipt is of its writer's decision; outside of a review that works   *)
(* on it, what has been decided is not pending; it is decided once.        *)
ReceiptsStand ==
    /\ \A x \in receipts :
          /\ x.proposal \in Reviews!Items(x.by) /\ x.decision = review[x.by].act /\ review[x.by].at # "idle"
          /\ x.proposal \in Project \ cut /\ x.decision # "superseded" =>
                status[x.proposal] # "pending" \/ \E r \in Reviewers : Working(r) /\ x.proposal \in Reviews!Items(r)
    /\ \A x, y \in receipts :
          x.proposal = y.proposal /\ x.proposal \in Project \ cut
              /\ x.decision # "superseded" /\ y.decision # "superseded" => x = y

ReviewPart(r) == WayOf(r) /\ ShownOf(r) /\ DocumentsOf(r) /\ ReceiptsOf(r) /\ ItemsOf(r)

ReviewInv ==
    /\ ReviewTypes
    /\ \A f \in Files : Fine(canon[f].claims, f)
    /\ Reviews!ApprovedIffApplied
    /\ ReceiptsStand
    /\ \A r \in Reviewers : ReviewPart(r)

-----------------------------------------------------------------------------
(* What a step leaves of a review: its task, and what it remembers. *)
SameTask(r) ==
    /\ review'[r].way = review[r].way /\ review'[r].act = review[r].act
    /\ review'[r].items = review[r].items
SameMemory(r) ==
    /\ review'[r].k = review[r].k /\ review'[r].shown = review[r].shown /\ review'[r].base = review[r].base
    /\ review'[r].todo = review[r].todo /\ review'[r].written = review[r].written
    /\ review'[r].found = review[r].found
OnlyReview(r) ==
    review' \in [Reviewers -> Reviewing] /\ \A q \in Reviewers \ {r} : review'[q] = review[q]

LEMMA GotoFields ==
    ASSUME ReviewTypes, NEW r \in Reviewers, NEW next \in Places, Reviews!Goto(r, next)
    PROVE  OnlyReview(r) /\ SameTask(r) /\ SameMemory(r) /\ review'[r].at = next
<1>1. review[r] \in Reviewing
  BY DEF ReviewTypes
<1>2. [review[r] EXCEPT !.at = next] \in Reviewing
  BY <1>1 DEF Reviewing
<1>3. /\ review' = [review EXCEPT ![r] = [review[r] EXCEPT !.at = next]]
      /\ review \in [Reviewers -> Reviewing]
  BY DEF Reviews!Goto, ReviewTypes
<1>4. OnlyReview(r) /\ review'[r] = [review[r] EXCEPT !.at = next]
  BY <1>2, <1>3 DEF OnlyReview
<1> QED  BY <1>1, <1>4 DEF SameTask, SameMemory, Reviewing

LEMMA BlankType == Reviews!Blank \in [Files -> Reviews!Documents]
  BY ReviewsAssumption DEF Reviews!Blank, Reviews!Documents

LEMMA FreshType == Reviews!Fresh \in Reviewing
  BY BlankType DEF Reviews!Fresh, Reviewing, Places, Reviews!Statuses, Reviews!Decisions

LEMMA LeaveFields ==
    ASSUME ReviewTypes, NEW r \in Reviewers, NEW next \in Places, Reviews!Leave(r, next)
    PROVE  /\ OnlyReview(r) /\ SameTask(r) /\ review'[r].at = next
           /\ review'[r].k = 1 /\ review'[r].written = {}
           /\ review'[r].found.archives = {} /\ review'[r].found.receipts = {}
           /\ holder' = IF holder = r THEN None ELSE holder
<1>1. review[r] \in Reviewing
  BY DEF ReviewTypes
<1> DEFINE new == [Reviews!Fresh EXCEPT !.at = next, !.way = review[r].way, !.act = review[r].act,
                                       !.items = review[r].items]
<1>2. new \in Reviewing
  BY <1>1, FreshType DEF Reviewing
<1>3. /\ new.at = next /\ new.way = review[r].way /\ new.act = review[r].act /\ new.items = review[r].items
      /\ new.k = 1 /\ new.written = {} /\ new.found.archives = {} /\ new.found.receipts = {}
  BY DEF Reviews!Fresh
<1>4. review' = [review EXCEPT ![r] = new] /\ review \in [Reviewers -> Reviewing]
  BY DEF Reviews!Leave, ReviewTypes
<1> HIDE DEF new
<1>5. OnlyReview(r) /\ review'[r] = new
  BY <1>2, <1>4 DEF OnlyReview
<1> QED  BY <1>3, <1>5 DEF SameTask, Reviews!Leave

LEMMA DerivedFields ==
    ASSUME NEW r \in Reviewers, SameTask(r)
    PROVE  /\ Reviews!Items(r)' = Reviews!Items(r) /\ Affected(r)' = Affected(r) /\ Firm(r)' = Firm(r)
           /\ review'[r].k = review[r].k =>
                 /\ Reviews!Item(r)' = Reviews!Item(r) /\ Reviews!Earlier(r)' = Reviews!Earlier(r)
                 /\ Reviews!Touched(r)' = Reviews!Touched(r)
                 /\ \A f \in Files : Before(r, f)' = Before(r, f)
  BY DEF SameTask, Reviews!Items, Affected, Firm, Reviews!Item, Reviews!Earlier, Reviews!Touched, Before

LEMMA ItemsFit ==
    ASSUME ReviewTypes, NEW r \in Reviewers, WayOf(r), review[r].at # "idle"
    PROVE  /\ Len(review[r].items) \in Nat /\ DOMAIN review[r].items = 1 .. Len(review[r].items)
           /\ review[r].k \in 1 .. Len(review[r].items)
           /\ Reviews!Item(r) \in Reviews!Items(r) /\ Reviews!Earlier(r) \subseteq Reviews!Items(r)
           /\ Reviews!Items(r) \subseteq Reviews!Proposals
           /\ Reviews!Item(r) \notin Reviews!Earlier(r)
           /\ Reviews!Touched(r) \subseteq Affected(r) /\ Targets[Reviews!Item(r)] \subseteq Affected(r)
           /\ Affected(r) \subseteq Files
           /\ \A p \in Reviews!Items(r) : FirmRecord(p, review[r].act) <=> Firm(r)
           /\ \A f \in Files : Before(r, f) \subseteq Reviews!Items(r)
           /\ \A f \in Files : Before(r, f) # {} <=> f \in Reviews!Touched(r)
           /\ review[r].k = 1 => Reviews!Earlier(r) = {} /\ Reviews!Touched(r) = {}
           /\ review[r].way = "alone" => Affected(r) = Targets[Reviews!Item(r)] /\ review[r].k = 1 /\ review[r].act = "approved"
           /\ review[r].k = Len(review[r].items) => Reviews!Items(r) = Reviews!Earlier(r) \cup {Reviews!Item(r)}
           /\ review[r].way # "batch" => Len(review[r].items) = 1
<1>1. /\ review[r].items \in Seq(Reviews!Proposals) /\ review[r].k \in Nat
      /\ review[r].way \in {"none", "alone", "loose", "batch"} /\ review[r].act \in {"none"} \cup Reviews!Decisions
  BY DEF ReviewTypes, Reviewing
<1>2. /\ review[r].way # "none" /\ review[r].act # "none"
      /\ Reviews!Offered(review[r].way, review[r].act, review[r].items)
      /\ review[r].k \in DOMAIN review[r].items
  BY DEF WayOf
<1>3. /\ Len(review[r].items) \in Nat /\ DOMAIN review[r].items = 1 .. Len(review[r].items)
      /\ review[r].k \in 1 .. Len(review[r].items)
  BY <1>1, <1>2
<1>4. Reviews!Item(r) \in Reviews!Items(r) /\ Reviews!Earlier(r) \subseteq Reviews!Items(r)
  BY <1>3 DEF Reviews!Item, Reviews!Items, Reviews!Earlier
<1>5. Reviews!Items(r) \subseteq Reviews!Proposals
  BY <1>1 DEF Reviews!Items
<1>6. review[r].way # "batch" => Len(review[r].items) = 1 /\ review[r].k = 1
  <2>1. review[r].way # "batch" => Len(review[r].items) = 1
    <3>1. CASE review[r].way = "alone"
      BY <1>2, <3>1 DEF Reviews!Offered
    <3>2. CASE review[r].way = "loose"
      BY <1>2, <3>2 DEF Reviews!Offered
    <3> QED  BY <1>1, <1>2, <3>1, <3>2
  <2>2. \A n \in 1 .. 1 : n = 1
    OBVIOUS
  <2> QED  BY <1>3, <2>1, <2>2
<1>7. Reviews!Item(r) \notin Reviews!Earlier(r)
  <2>1. CASE review[r].way = "batch"
    BY <1>2, <1>3, <2>1 DEF Reviews!Offered, Reviews!Distinct, Reviews!Item, Reviews!Earlier
  <2>2. CASE review[r].way # "batch"
    BY <1>3, <1>6, <2>2 DEF Reviews!Earlier
  <2> QED  BY <2>1, <2>2
<1>8. Reviews!Touched(r) \subseteq Affected(r) /\ Targets[Reviews!Item(r)] \subseteq Affected(r)
  BY <1>4 DEF Reviews!Touched, Affected
<1>9. Affected(r) \subseteq Files
  BY <1>5, ReviewsAssumption DEF Affected, Reviews!Proposals
<1>10. \A p \in Reviews!Items(r) : FirmRecord(p, review[r].act) <=> Firm(r)
  <2> SUFFICES ASSUME NEW n \in DOMAIN review[r].items
               PROVE  FirmRecord(review[r].items[n], review[r].act) <=> Firm(r)
    BY DEF Reviews!Items
  <2>1. CASE review[r].way = "batch"
    BY <1>2, <2>1 DEF Reviews!Offered, FirmRecord, Firm
  <2>2. CASE review[r].way = "alone"
    <3>1. n \in 1 .. 1
      BY <1>3, <1>6, <2>2
    <3> QED  BY <1>2, <2>2, <3>1 DEF Reviews!Offered, FirmRecord, Firm
  <2>3. CASE review[r].way = "loose"
    <3>1. n \in 1 .. 1
      BY <1>3, <1>6, <2>3
    <3> QED  BY <1>2, <2>3, <3>1, ReviewsAssumption DEF Reviews!Offered, FirmRecord, Firm
  <2> QED  BY <1>1, <1>2, <2>1, <2>2, <2>3
<1>11. \A f \in Files : Before(r, f) \subseteq Reviews!Items(r) /\ (Before(r, f) # {} <=> f \in Reviews!Touched(r))
  BY <1>4 DEF Before, Reviews!Touched
<1>12. review[r].k = 1 => Reviews!Earlier(r) = {} /\ Reviews!Touched(r) = {}
  BY DEF Reviews!Earlier, Reviews!Touched
<1>13. review[r].k = Len(review[r].items) => Reviews!Items(r) = Reviews!Earlier(r) \cup {Reviews!Item(r)}
  BY <1>3 DEF Reviews!Items, Reviews!Earlier, Reviews!Item
<1>14. review[r].way = "alone" => Affected(r) = Targets[Reviews!Item(r)] /\ review[r].k = 1 /\ review[r].act = "approved"
  <2> HAVE review[r].way = "alone"
  <2>1. review[r].k = 1 /\ Len(review[r].items) = 1 /\ review[r].act = "approved"
    BY <1>2, <1>6 DEF Reviews!Offered
  <2>2. Reviews!Items(r) = {Reviews!Item(r)}
    BY <1>12, <1>13, <2>1
  <2> QED  BY <2>1, <2>2 DEF Affected
<1> QED  BY <1>3, <1>4, <1>5, <1>6, <1>7, <1>8, <1>9, <1>10, <1>11, <1>12, <1>13, <1>14

(* What no step of a reviewer does to the others: it leaves their reviews   *)
(* alone, writes documents and approvals only under the lock and only of    *)
(* its own items, removes only records of its own decision, and writes one  *)
(* receipt of it.                                                           *)
SameOf(p) ==
    /\ \A f \in Files : p \in canon'[f].claims <=> p \in canon[f].claims
    /\ <<p, "approved">> \in archives' <=> <<p, "approved">> \in archives
    /\ Reviews!HasReceipt(p, "approved")' <=> Reviews!HasReceipt(p, "approved")

Effect(r) ==
    /\ ReviewTypes' /\ \A f \in Files : Fine(canon'[f].claims, f)
    /\ setting' = setting /\ cut \subseteq cut'
    /\ \A q \in Reviewers \ {r} : review'[q] = review[q] /\ (holder = q => holder' = q)
    /\ review[r].at # "idle" => SameTask(r) /\ review'[r].at # "idle"
    /\ Working(r) \/ canon' = canon
    /\ \A p \in Reviews!Proposals : (Approves(r) /\ p \in Reviews!Items(r)) \/ SameOf(p)
    /\ \A p \in Project :
          (Working(r) /\ p \in Reviews!Items(r)) \/ (status[p] # "pending" => status'[p] # "pending")
    /\ \A x \in receipts \ receipts' :
          /\ review[r].at # "idle" /\ (Firm(r) => Working(r))
          /\ x.proposal \in Reviews!Items(r) /\ x.decision = review[r].act
    /\ \A x \in receipts' \ receipts :
          /\ x = [proposal |-> Reviews!Item(r), decision |-> review[r].act, by |-> r]
          /\ review[r].at = "receipt"

LEMMA OneWorks ==
    ASSUME ReviewInv, NEW q \in Reviewers, NEW r \in Reviewers, Working(q), Firm(r),
           review[r].at \in Reviews!Inside \cup {"check"}
    PROVE  q = r
<1>1. WayOf(q) /\ WayOf(r)
  BY DEF ReviewInv, ReviewPart
<1> QED  BY <1>1 DEF WayOf, Working

LEMMA SlipOf ==
    ASSUME ReviewInv, NEW x \in receipts
    PROVE  /\ x \in Slips /\ x.by \in Reviewers /\ x.proposal \in Reviews!Items(x.by)
           /\ x.decision = review[x.by].act /\ review[x.by].at # "idle"
           /\ FirmRecord(x.proposal, x.decision) <=> Firm(x.by)
<1>1. x \in Slips /\ x.by \in Reviewers
  BY DEF ReviewInv, ReviewTypes, Slips
<1>2. x.proposal \in Reviews!Items(x.by) /\ x.decision = review[x.by].act /\ review[x.by].at # "idle"
  BY DEF ReviewInv, ReceiptsStand
<1>3. WayOf(x.by)
  BY <1>1 DEF ReviewInv, ReviewPart
<1> QED  BY <1>1, <1>2, <1>3, ItemsFit DEF ReviewInv

LEMMA ReceiptsOfOther ==
    ASSUME ReviewInv, NEW r \in Reviewers, Effect(r), NEW q \in Reviewers \ {r}
    PROVE  ReceiptsOf(q)'
<1>1. review'[q] = review[q] /\ cut \subseteq cut'
  BY DEF Effect
<1>2. ReceiptsOf(q)
  BY DEF ReviewInv, ReviewPart
<1>3. \A x \in receipts' : x.by = q => x \in receipts
  BY DEF Effect
<1>4. ASSUME Firm(q), NEW x \in receipts, x.by = q, x \notin receipts' PROVE Working(r) /\ x.proposal \in Reviews!Items(q) \cap cut
  <2>1. /\ x.proposal \in Reviews!Items(r) /\ x.decision = review[r].act
        /\ review[r].at # "idle" /\ (Firm(r) => Working(r))
    BY <1>4 DEF Effect
  <2>2. x.proposal \in Reviews!Items(q) /\ FirmRecord(x.proposal, x.decision)
    BY <1>4, SlipOf
  <2>3. WayOf(r) /\ ItemsOf(r) /\ ReviewTypes
    BY DEF ReviewInv, ReviewPart
  <2>4. Firm(r)
    BY <2>1, <2>2, <2>3, ItemsFit
  <2> QED  BY <1>4, <2>1, <2>2, <2>3, <2>4 DEF ItemsOf, ItemOf
<1>5. CASE ~Firm(q)
  BY <1>1, <1>5 DEF ReceiptsOf, Firm
<1>6. CASE Firm(q) /\ Working(q)
  <2>1. ~Working(r)
    BY <1>6, OneWorks DEF Working
  <2>2. By(q)' = By(q)
    BY <1>3, <1>4, <1>6, <2>1 DEF By
  <2> QED  BY <1>1, <1>2, <1>6, <2>2 DEF ReceiptsOf, Working, Decided, Reviews!Earlier, Reviews!Item,
                                         Reviews!Inside, Reviews!Recording, Firm
<1>7. CASE Firm(q) /\ ~Working(q)
  <2>1. review[q].at \notin Reviews!Inside
    BY <1>7 DEF Working
  <2>2. By(q)' \subseteq By(q)
    BY <1>3 DEF By
  <2>3. Reviews!Items(q)' = Reviews!Items(q)
    BY <1>1 DEF Reviews!Items
  <2>4. Reviews!Items(q) \cap cut = {} => By(q)' = By(q)
    BY <1>3, <1>4, <1>7 DEF By
  <2> QED  BY <1>1, <1>2, <1>7, <2>1, <2>2, <2>3, <2>4 DEF ReceiptsOf, Firm
<1> QED  BY <1>5, <1>6, <1>7

LEMMA OthersKept ==
    ASSUME ReviewInv, NEW r \in Reviewers, Effect(r), NEW q \in Reviewers \ {r}
    PROVE  ReviewPart(q)'
<1>1. review'[q] = review[q] /\ (holder = q => holder' = q) /\ setting' = setting /\ cut \subseteq cut'
  BY DEF Effect
<1>2. WayOf(q) /\ ShownOf(q) /\ DocumentsOf(q) /\ ItemsOf(q) /\ ReviewTypes
  BY DEF ReviewInv, ReviewPart
<1>3. WayOf(q)'
  BY <1>1, <1>2 DEF WayOf, Firm
<1>4. ShownOf(q)'
  BY <1>1, <1>2 DEF ShownOf, Reviews!Items, Fine, Reviews!Plannable
<1>5. Working(q)' = Working(q) /\ Approves(q)' = Approves(q) /\ Reviews!Items(q)' = Reviews!Items(q)
  BY <1>1 DEF Working, Approves, Firm, Reviews!Items
<1>6. Working(q) => ~Working(r)
  BY OneWorks DEF Working
<1>7. DocumentsOf(q)'
  <2>1. CASE ~Approves(q)
    BY <1>5, <2>1 DEF DocumentsOf
  <2>2. CASE Approves(q)
    <3>1. canon' = canon
      BY <1>6, <2>2 DEF Approves, Effect
    <3> QED  BY <1>1, <1>2, <2>2, <3>1
      DEF DocumentsOf, Affected, Changed, Reached, Before, Put, AsShown, Reviews!Items, Reviews!Item,
          Reviews!Earlier, Reviews!Touched, Reviews!Restorable, Reviews!Plannable, Approves, Working, Firm
  <2> QED  BY <2>1, <2>2
<1>8. ItemsOf(q)'
  <2> SUFFICES ASSUME Working(q), NEW p \in Reviews!Items(q) \ cut'
               PROVE  ItemOf(q, p)'
    BY <1>5 DEF ItemsOf
  <2>1. ~Working(r) /\ p \in Reviews!Items(q) \ cut /\ p \in Reviews!Proposals
    BY <1>1, <1>2, <1>6, ItemsFit DEF Working, Reviews!Inside, Reviews!Recording
  <2>2. SameOf(p) /\ (p \in Project /\ status[p] # "pending" => status'[p] # "pending")
    BY <2>1 DEF Effect, Approves
  <2>3. ASSUME NEW x \in receipts', x.proposal = p, FirmRecord(p, x.decision) PROVE x.by = q
    <3>1. CASE x \in receipts
      BY <1>2, <2>1, <2>3, <3>1 DEF ItemsOf, ItemOf
    <3>2. CASE x \notin receipts
      <4>1. /\ x = [proposal |-> Reviews!Item(r), decision |-> review[r].act, by |-> r]
            /\ review[r].at = "receipt"
        BY <3>2 DEF Effect
      <4>2. WayOf(r)
        BY DEF ReviewInv, ReviewPart
      <4>3. Firm(r)
        BY <1>2, <2>3, <4>1, <4>2, ItemsFit
      <4> QED  BY <2>1, <4>1, <4>3 DEF Working, Reviews!Inside, Reviews!Recording
    <3> QED  BY <3>1, <3>2
  <2>4. ItemOf(q, p)
    BY <1>2, <2>1 DEF ItemsOf
  <2>5. Reviews!Item(q)' = Reviews!Item(q) /\ Reviews!Earlier(q)' = Reviews!Earlier(q) /\ Steady(q)' = Steady(q)
    BY <1>1 DEF Reviews!Item, Reviews!Earlier, Steady
  <2> QED  BY <1>1, <2>2, <2>3, <2>4, <2>5 DEF SameOf, ItemOf
<1> QED  BY <1>3, <1>4, <1>7, <1>8, ReceiptsOfOther DEF ReviewPart

Applied(p) ==
    /\ \A f \in Targets[p] : p \in canon[f].claims
    /\ <<p, "approved">> \in archives /\ Reviews!HasReceipt(p, "approved")
NotApplied(p) ==
    /\ \A f \in Files : p \notin canon[f].claims
    /\ <<p, "approved">> \notin archives /\ ~Reviews!HasReceipt(p, "approved")

LEMMA ApprovalIsFirm ==
    ASSUME ReviewInv, NEW r \in Reviewers, review[r].at \in Reviews!Inside, review[r].act = "approved"
    PROVE  Approves(r)
<1>1. WayOf(r) /\ ReviewTypes
  BY DEF ReviewInv, ReviewPart
<1>2. review[r].way \in {"none", "alone", "loose", "batch"} /\ review[r].at # "idle"
  BY <1>1 DEF ReviewTypes, Reviewing, Reviews!Inside, Reviews!Recording
<1>3. review[r].way # "loose"
  BY <1>1, <1>2 DEF WayOf, Reviews!Offered
<1> QED  BY <1>1, <1>2, <1>3 DEF WayOf, Approves, Working, Firm

LEMMA WholeKept ==
    ASSUME ReviewInv, NEW r \in Reviewers, Effect(r),
           \A p \in Reviews!Items(r) \ cut' : Approves(r) => Approves(r)' \/ Applied(p)' \/ NotApplied(p)'
    PROVE  Reviews!ApprovedIffApplied'
<1> SUFFICES ASSUME NEW p \in Reviews!Proposals, p \notin cut', ~Reviews!Approving(p)'
             PROVE  Applied(p)' \/ NotApplied(p)'
  BY DEF Reviews!ApprovedIffApplied, Reviews!Whole, Applied, NotApplied
<1>1. CASE Approves(r) /\ p \in Reviews!Items(r)
  <2>1. Reviews!Items(r)' = Reviews!Items(r)
    BY <1>1 DEF Effect, SameTask, Approves, Working, Reviews!Inside, Reviews!Recording, Reviews!Items
  <2>2. ~Approves(r)'
    BY <1>1, <2>1 DEF Reviews!Approving, Reviews!At, Approves, Working
  <2> QED  BY <1>1, <2>2
<1>2. CASE ~(Approves(r) /\ p \in Reviews!Items(r))
  <2>1. SameOf(p) /\ p \notin cut
    BY <1>2 DEF Effect
  <2>2. ASSUME NEW q \in Reviewers, review[q].at \in Reviews!Inside, review[q].act = "approved", p \in Reviews!Items(q)
        PROVE  FALSE
    <3>1. q # r
      BY <1>2, <2>2, ApprovalIsFirm
    <3>2. review'[q] = review[q]
      BY <3>1 DEF Effect
    <3> QED  BY <2>2, <3>2 DEF Reviews!Approving, Reviews!At, Reviews!Items
  <2>3. ~Reviews!Approving(p)
    BY <2>2 DEF Reviews!Approving, Reviews!At
  <2>4. Applied(p) \/ NotApplied(p)
    BY <2>1, <2>3 DEF ReviewInv, Reviews!ApprovedIffApplied, Reviews!Whole, Applied, NotApplied
  <2>5. Targets[p] \subseteq Files
    BY ReviewsAssumption DEF Reviews!Proposals
  <2> QED  BY <2>1, <2>4, <2>5 DEF SameOf, Applied, NotApplied
<1> QED  BY <1>1, <1>2

LEMMA ReceiptsKept ==
    ASSUME ReviewInv, NEW r \in Reviewers, Effect(r),
           \A x \in receipts' :
               Working(r) /\ x.proposal \in Reviews!Items(r) /\ x.proposal \in Project \ cut' /\ x.decision # "superseded" =>
                   Working(r)' \/ status'[x.proposal] # "pending"
    PROVE  ReceiptsStand'
<1> DEFINE new == [proposal |-> Reviews!Item(r), decision |-> review[r].act, by |-> r]
<1>1. \A x \in receipts' : x \in receipts \/ (x = new /\ review[r].at = "receipt")
  BY DEF Effect
<1>2. review[r].at # "idle" => SameTask(r) /\ review'[r].at # "idle" /\ Reviews!Items(r)' = Reviews!Items(r)
  BY DEF Effect, SameTask, Reviews!Items
<1>3. WayOf(r) /\ ReviewTypes /\ ItemsOf(r) /\ ReceiptsOf(r)
  BY DEF ReviewInv, ReviewPart
<1>4. \A q \in Reviewers \ {r} : review'[q] = review[q] /\ Reviews!Items(q)' = Reviews!Items(q) /\ Working(q)' = Working(q)
  BY DEF Effect, Reviews!Items, Working, Firm
<1>5. ASSUME NEW x \in receipts'
      PROVE  /\ x.proposal \in Reviews!Items(x.by)' /\ x.decision = review'[x.by].act /\ review'[x.by].at # "idle"
             /\ x.proposal \in Project \ cut' /\ x.decision # "superseded" =>
                   status'[x.proposal] # "pending" \/ \E q \in Reviewers : Working(q)' /\ x.proposal \in Reviews!Items(q)'
  <2>1. CASE x \in receipts
    <3>1. x.by \in Reviewers /\ x.proposal \in Reviews!Items(x.by) /\ x.decision = review[x.by].act /\ review[x.by].at # "idle"
      BY <2>1, SlipOf
    <3>2. x.proposal \in Reviews!Items(x.by)' /\ x.decision = review'[x.by].act /\ review'[x.by].at # "idle"
      BY <1>2, <1>4, <3>1 DEF SameTask
    <3>3. ASSUME x.proposal \in Project \ cut', x.decision # "superseded"
          PROVE  status'[x.proposal] # "pending" \/ \E q \in Reviewers : Working(q)' /\ x.proposal \in Reviews!Items(q)'
      <4>1. CASE Working(r) /\ x.proposal \in Reviews!Items(r)
        <5>1. review[r].at # "idle"
          BY <4>1 DEF Working, Reviews!Inside, Reviews!Recording
        <5> QED  BY <1>2, <3>3, <4>1, <5>1
      <4>2. CASE ~(Working(r) /\ x.proposal \in Reviews!Items(r))
        <5>1. status[x.proposal] # "pending" \/ \E q \in Reviewers \ {r} : Working(q) /\ x.proposal \in Reviews!Items(q)
          BY <2>1, <3>3, <4>2 DEF ReviewInv, ReceiptsStand, Effect
        <5>2. status[x.proposal] # "pending" => status'[x.proposal] # "pending"
          BY <3>3, <4>2 DEF Effect
        <5> QED  BY <1>4, <5>1, <5>2
      <4> QED  BY <4>1, <4>2
    <3> QED  BY <3>2, <3>3
  <2>2. CASE x = new /\ review[r].at = "receipt"
    <3>1. x.by = r /\ x.proposal = Reviews!Item(r) /\ x.decision = review[r].act
      BY <2>2
    <3>2. Reviews!Item(r) \in Reviews!Items(r)
      BY <1>3, <2>2, ItemsFit
    <3>3. ASSUME x.proposal \in Project, x.decision # "superseded" PROVE Working(r)
      <4>1. FirmRecord(Reviews!Item(r), review[r].act)
        BY <3>1, <3>3 DEF FirmRecord
      <4> QED  BY <1>3, <2>2, <3>2, <4>1, ItemsFit DEF Working, Reviews!Inside, Reviews!Recording
    <3> QED  BY <1>2, <2>2, <3>1, <3>2, <3>3 DEF SameTask
  <2> QED  BY <1>1, <2>1, <2>2
<1>6. ASSUME NEW y \in receipts, new.proposal = y.proposal, y.proposal \in Project \ cut', review[r].at = "receipt",
             new.decision # "superseded", y.decision # "superseded"
      PROVE  FALSE
  <2>1. FirmRecord(y.proposal, y.decision) /\ FirmRecord(Reviews!Item(r), review[r].act)
    BY <1>6 DEF FirmRecord
  <2>2. Reviews!Item(r) \in Reviews!Items(r) \ cut
    BY <1>3, <1>6, ItemsFit DEF Effect
  <2>3. Working(r)
    BY <1>3, <1>6, <2>1, <2>2, ItemsFit DEF Working, Reviews!Inside, Reviews!Recording
  <2>4. y.by = r
    BY <1>3, <1>6, <2>1, <2>2, <2>3 DEF ItemsOf, ItemOf
  <2>5. Reviews!Item(r) \in By(r)
    BY <1>6, <2>4 DEF By
  <2>6. By(r) = Decided(r)
    BY <1>3, <1>6, <2>3 DEF ReceiptsOf, Working, Reviews!Inside, Reviews!Recording, Undoing
  <2> QED  BY <1>3, <1>6, <2>5, <2>6, ItemsFit DEF Decided
<1>7. ASSUME NEW x \in receipts', NEW y \in receipts', x.proposal = y.proposal, x.proposal \in Project \ cut',
             x.decision # "superseded", y.decision # "superseded"
      PROVE  x = y
  <2>1. CASE x \in receipts /\ y \in receipts
    BY <1>7, <2>1 DEF ReviewInv, ReceiptsStand, Effect
  <2>2. CASE x \notin receipts \/ y \notin receipts
    BY <1>1, <1>6, <1>7, <2>2
  <2> QED  BY <2>1, <2>2
<1> QED  BY <1>5, <1>7 DEF ReceiptsStand

LEMMA ReviewStepOf ==
    ASSUME ReviewInv, NEW r \in Reviewers, Effect(r), ReviewPart(r)',
           \A p \in Reviews!Items(r) \ cut' : Approves(r) => Approves(r)' \/ Applied(p)' \/ NotApplied(p)',
           \A x \in receipts' :
               Working(r) /\ x.proposal \in Reviews!Items(r) /\ x.proposal \in Project \ cut' /\ x.decision # "superseded" =>
                   Working(r)' \/ status'[x.proposal] # "pending"
    PROVE  ReviewInv'
<1>1. Reviews!ApprovedIffApplied' /\ ReceiptsStand'
  BY WholeKept, ReceiptsKept
<1>2. \A q \in Reviewers : ReviewPart(q)'
  BY OthersKept
<1> QED  BY <1>1, <1>2 DEF ReviewInv, Effect

LEMMA QuietEffect ==
    ASSUME ReviewInv, NEW r \in Reviewers, OnlyReview(r), UNCHANGED <<setting, canon, status, archives, receipts>>,
           cut \subseteq cut', cut' \subseteq Reviews!Proposals,
           \A q \in Reviewers \ {r} : holder = q => holder' = q,
           review[r].at # "idle" => SameTask(r) /\ review'[r].at # "idle"
    PROVE  Effect(r)
<1>1. ReviewTypes'
  BY DEF ReviewInv, ReviewTypes, OnlyReview
<1>2. \A f \in Files : Fine(canon'[f].claims, f)
  BY DEF ReviewInv
<1>3. \A p : SameOf(p)
  BY DEF SameOf, Reviews!HasReceipt
<1> QED  BY <1>1, <1>2, <1>3 DEF Effect, OnlyReview

LEMMA LeavePart ==
    ASSUME ReviewInv, NEW r \in Reviewers, NEW next \in Reviews!Ended, Reviews!Leave(r, next), review[r].at # "idle",
           Firm(r) /\ Reviews!Items(r) \cap cut' = {} =>
               (next = "failed" => By(r)' = {}) /\ (next = "done" => By(r)' = Reviews!Items(r))
    PROVE  ReviewPart(r)'
<1>1. ReviewTypes /\ WayOf(r) /\ next \in Places
  BY DEF ReviewInv, ReviewPart, Places
<1>2. /\ SameTask(r) /\ review'[r].at = next /\ review'[r].k = 1 /\ review'[r].written = {}
      /\ review'[r].found.archives = {} /\ review'[r].found.receipts = {}
  BY <1>1, LeaveFields
<1>3. Reviews!Items(r)' = Reviews!Items(r) /\ Firm(r)' = Firm(r)
  BY <1>2, DerivedFields
<1>4. next \notin Reviews!Inside \cup {"idle", "asked", "waiting", "check"} /\ next \in {"done", "failed", "dead"}
  BY DEF Reviews!Ended, Reviews!Inside, Reviews!Recording
<1>5. 1 \in DOMAIN review[r].items
  BY <1>1, ItemsFit
<1>6. WayOf(r)'
  BY <1>1, <1>2, <1>3, <1>4, <1>5 DEF WayOf, SameTask, Reviews!Ended
<1>7. ShownOf(r)' /\ DocumentsOf(r)' /\ ItemsOf(r)'
  BY <1>2, <1>4 DEF ShownOf, DocumentsOf, ItemsOf, Approves, Working
<1>8. ReceiptsOf(r)'
  BY <1>2, <1>3, <1>4 DEF ReceiptsOf
<1> QED  BY <1>6, <1>7, <1>8 DEF ReviewPart

(* A review ends, before or after it worked, and nothing else changes. *)
LEMMA LeaveStep ==
    ASSUME ReviewInv, NEW r \in Reviewers, NEW next \in Reviews!Ended, Reviews!Leave(r, next), review[r].at # "idle",
           UNCHANGED <<setting, canon, status, archives, receipts>>, cut \subseteq cut', cut' \subseteq Reviews!Proposals,
           Working(r) => Reviews!Items(r) \subseteq cut',
           next = "done" => ~Firm(r), next = "failed" /\ Firm(r) /\ ~Working(r) => By(r) = {}
    PROVE  ReviewInv'
<1>1. ReviewTypes /\ WayOf(r) /\ next \in Places
  BY DEF ReviewInv, ReviewPart, Places
<1>2. OnlyReview(r) /\ SameTask(r) /\ review'[r].at = next /\ holder' = IF holder = r THEN None ELSE holder
  BY <1>1, LeaveFields
<1>3. Effect(r)
  BY <1>2, QuietEffect DEF Reviews!Ended
<1>4. Working(r) => Reviews!Items(r) \cap cut' # {}
  BY <1>1, ItemsFit
<1>5. By(r)' = By(r)
  BY DEF By
<1>6. ReviewPart(r)'
  BY <1>4, <1>5, LeavePart
<1> QED  BY <1>3, <1>6, ReviewStepOf DEF Approves

LEMMA LookStep ==
    ASSUME ReviewInv, NEW r \in Reviewers, setting' = setting, NEW way \in {"alone", "loose", "batch"},
           NEW act \in {"approved"} \cup setting.declines, NEW items \in setting.requests, Reviews!Look(r, way, act, items)
    PROVE  ReviewInv'
<1>1. ReviewTypes /\ WayOf(r)
  BY DEF ReviewInv, ReviewPart
<1>2. items \in Seq(Reviews!Proposals) /\ items # <<>> /\ act \in Reviews!Decisions
  BY <1>1, ReviewsAssumption DEF ReviewTypes, Reviews!Proposals, Reviews!Decisions
<1>3. 1 \in DOMAIN items
  BY <1>2
<1> DEFINE new == [Reviews!Fresh EXCEPT
            !.at = "asked", !.way = way, !.act = act, !.items = items,
            !.shown = IF act = "approved" THEN canon ELSE Reviews!Blank]
<1>4. new \in Reviewing
  BY <1>1, <1>2, FreshType, BlankType DEF Reviewing, ReviewTypes, Places
<1>5. /\ new.at = "asked" /\ new.way = way /\ new.act = act /\ new.items = items /\ new.k = 1 /\ new.written = {} /\ new.todo = {}
      /\ new.found.archives = {} /\ new.found.receipts = {}
      /\ act = "approved" => new.shown = canon
  BY DEF Reviews!Fresh
<1>6. /\ review[r].at = "idle" /\ Reviews!Offered(way, act, items)
      /\ act = "approved" => \A n \in DOMAIN items : \A f \in Targets[items[n]] : Reviews!Plannable(items[n], canon[f].claims)
      /\ review' = [review EXCEPT ![r] = new]
      /\ UNCHANGED <<canon, status, archives, receipts, holder, cut>>
  BY DEF Reviews!Look, Reviews!At
<1> HIDE DEF new
<1>7. OnlyReview(r) /\ review'[r] = new
  BY <1>1, <1>4, <1>6 DEF OnlyReview, ReviewTypes
<1>8. Effect(r)
  BY <1>1, <1>6, <1>7, QuietEffect DEF ReviewTypes
<1>9. WayOf(r)'
  BY <1>2, <1>3, <1>5, <1>6, <1>7 DEF WayOf, Reviews!Inside, Reviews!Recording, Reviews!Decisions
<1>10. ShownOf(r)'
  <2> SUFFICES ASSUME act = "approved", NEW f \in Files
               PROVE  /\ Fine(canon[f].claims, f)
                      /\ canon[f].claims \cap Reviews!Items(r)' = {}
                      /\ \A p \in Reviews!Items(r)' : f \in Targets[p] => Reviews!Plannable(p, canon[f].claims)
    BY <1>5, <1>7 DEF ShownOf, Reviews!Plannable, Fine
  <2>1. Fine(canon[f].claims, f)
    BY DEF ReviewInv
  <2>2. ASSUME NEW p \in Reviews!Items(r)', f \in Targets[p] PROVE Reviews!Plannable(p, canon[f].claims)
    <3>1. PICK n \in DOMAIN items : p = items[n]
      BY <1>5, <1>7 DEF Reviews!Items
    <3> QED  BY <1>6, <2>2, <3>1
  <2> QED  BY <2>1, <2>2 DEF Fine, Reviews!Plannable
<1>11. By(r)' = {}
  <2>1. \A x \in receipts : x.by # r
    BY <1>6, SlipOf
  <2> QED  BY <1>6, <2>1 DEF By
<1>12. ReviewPart(r)'
  BY <1>5, <1>7, <1>9, <1>10, <1>11
  DEF ReviewPart, DocumentsOf, ReceiptsOf, ItemsOf, Approves, Working, Reviews!Inside, Reviews!Recording
<1>13. ~Working(r)
  BY <1>6 DEF Working, Reviews!Inside, Reviews!Recording
<1> QED  BY <1>8, <1>12, <1>13, ReviewStepOf DEF Approves

LEMMA ShownKept ==
    ASSUME NEW r \in Reviewers, SameTask(r), review'[r].shown = review[r].shown,
           review[r].at \notin Reviews!Ended \cup {"idle"}, ShownOf(r)
    PROVE  ShownOf(r)'
<1>1. Reviews!Items(r)' = Reviews!Items(r)
  BY DerivedFields
<1> QED  BY <1>1 DEF ShownOf, SameTask, Fine, Reviews!Plannable

LEMMA ConfirmStep ==
    ASSUME ReviewInv, NEW r \in Reviewers, setting' = setting, Reviews!Confirm(r)
    PROVE  ReviewInv'
<1>1. ReviewTypes /\ WayOf(r) /\ ShownOf(r) /\ ReceiptsOf(r)
  BY DEF ReviewInv, ReviewPart
<1> DEFINE next == IF review[r].way = "loose" THEN "record" ELSE "waiting"
           kept == IF review[r].way = "alone" THEN status[Reviews!Item(r)] ELSE review[r].old[Reviews!Item(r)]
           new == [review[r] EXCEPT !.at = next, !.old[Reviews!Item(r)] = kept]
<1>2. review[r].at = "asked" /\ UNCHANGED <<canon, status, archives, receipts, holder, cut>> /\ review' = [review EXCEPT ![r] = new]
  BY DEF Reviews!Confirm, Reviews!At
<1>3. review[r] \in Reviewing /\ review \in [Reviewers -> Reviewing]
  BY <1>1 DEF ReviewTypes
<1>4. new \in Reviewing
  <2>1. Reviews!Item(r) \in Reviews!Proposals
    BY <1>1, <1>2, ItemsFit
  <2>2. kept \in Reviews!Statuses
    BY <1>1, <1>3, <2>1 DEF ReviewTypes, Reviewing
  <2>3. next \in Places
    BY DEF Places, Reviews!Inside
  <2> HIDE DEF kept, next
  <2> QED  BY <1>3, <2>1, <2>2, <2>3 DEF Reviewing
<1>5. /\ new.at = next /\ new.way = review[r].way /\ new.act = review[r].act /\ new.items = review[r].items
      /\ new.k = review[r].k /\ new.shown = review[r].shown /\ new.base = review[r].base
      /\ new.todo = review[r].todo /\ new.written = review[r].written /\ new.found = review[r].found
  BY <1>3 DEF Reviewing
<1> HIDE DEF new
<1>6. OnlyReview(r) /\ review'[r] = new
  BY <1>2, <1>3, <1>4 DEF OnlyReview
<1>7. SameTask(r) /\ SameMemory(r) /\ review'[r].at = next
  BY <1>5, <1>6 DEF SameTask, SameMemory
<1>8. next \in {"record", "waiting"} /\ (next = "record" <=> review[r].way = "loose")
  OBVIOUS
<1> HIDE DEF next
<1>9. Effect(r)
  BY <1>1, <1>2, <1>6, <1>7, <1>8, QuietEffect DEF ReviewTypes
<1>10. ~Working(r) /\ By(r)' = By(r) /\ Firm(r)' = Firm(r)
  BY <1>2, <1>7, DerivedFields DEF Working, Reviews!Inside, Reviews!Recording, By
<1>11. WayOf(r)'
  BY <1>1, <1>2, <1>7, <1>8, <1>10 DEF WayOf, SameTask, SameMemory, Firm, Reviews!Inside, Reviews!Recording
<1>12. ShownOf(r)'
  BY <1>1, <1>2, <1>7, ShownKept DEF SameMemory, Reviews!Ended
<1>13. Working(r)' = FALSE /\ ReceiptsOf(r)'
  BY <1>1, <1>2, <1>7, <1>8, <1>10 DEF Working, ReceiptsOf, Firm, Reviews!Inside, Reviews!Recording
<1> QED  BY <1>9, <1>10, <1>11, <1>12, <1>13, ReviewStepOf DEF ReviewPart, DocumentsOf, ItemsOf, Approves

LEMMA RegistryLockStep ==
    ASSUME ReviewInv, NEW r \in Reviewers, setting' = setting, Reviews!Lock(r)
    PROVE  ReviewInv'
<1>1. ReviewTypes /\ WayOf(r) /\ ShownOf(r) /\ ReceiptsOf(r)
  BY DEF ReviewInv, ReviewPart
<1>2. review[r].at = "waiting" /\ holder = None /\ holder' = r /\ UNCHANGED <<canon, status, archives, receipts, cut>>
  BY DEF Reviews!Lock, Reviews!At
<1>3. OnlyReview(r) /\ SameTask(r) /\ SameMemory(r) /\ review'[r].at = "check"
  BY <1>1, GotoFields DEF Reviews!Lock, Places
<1>4. Effect(r)
  BY <1>1, <1>2, <1>3, QuietEffect, ReviewsAssumption DEF ReviewTypes
<1>5. ~Working(r) /\ By(r)' = By(r) /\ Firm(r)' = Firm(r)
  BY <1>2, <1>3, DerivedFields DEF Working, Reviews!Inside, Reviews!Recording, By
<1>6. WayOf(r)'
  BY <1>1, <1>2, <1>3, <1>5 DEF WayOf, SameTask, SameMemory, Reviews!Inside, Reviews!Recording, Reviews!Ended
<1>7. ShownOf(r)'
  BY <1>1, <1>2, <1>3, ShownKept DEF SameMemory, Reviews!Ended
<1>8. Working(r)' = FALSE /\ ReceiptsOf(r)'
  BY <1>1, <1>2, <1>3, <1>5 DEF Working, ReceiptsOf, Reviews!Inside, Reviews!Recording
<1> QED  BY <1>4, <1>5, <1>6, <1>7, <1>8, ReviewStepOf DEF ReviewPart, DocumentsOf, ItemsOf, Approves

LEMMA GiveUpStep ==
    ASSUME ReviewInv, NEW r \in Reviewers, setting' = setting, Reviews!GiveUp(r)
    PROVE  ReviewInv'
<1>1. review[r].at \in {"asked", "waiting", "check"} /\ Reviews!Leave(r, "failed") /\ UNCHANGED <<canon, status, archives, receipts, cut>>
  BY DEF Reviews!GiveUp, Reviews!At
<1>2. ReceiptsOf(r) /\ ReviewTypes
  BY DEF ReviewInv, ReviewPart
<1>3. ~Working(r) /\ (Firm(r) => By(r) = {})
  BY <1>1, <1>2 DEF ReceiptsOf, Working, Reviews!Inside, Reviews!Recording
<1> QED  BY <1>1, <1>2, <1>3, LeaveStep DEF Reviews!Ended, ReviewTypes

LEMMA ReviewCrashStep ==
    ASSUME ReviewInv, NEW r \in Reviewers, setting' = setting, Reviews!Crash(r)
    PROVE  ReviewInv'
<1>1. /\ review[r].at \notin Reviews!Ended \cup {"idle"} /\ Reviews!Leave(r, "dead") /\ UNCHANGED <<canon, status, archives, receipts>>
      /\ cut' = IF review[r].at \in Reviews!Inside /\ (review[r].way = "loose" => review[r].at \in Reviews!Recording)
                THEN cut \cup Reviews!Items(r) ELSE cut
  BY DEF Reviews!Crash, Reviews!At
<1>2. ReviewTypes /\ WayOf(r)
  BY DEF ReviewInv, ReviewPart
<1>3. Reviews!Items(r) \subseteq Reviews!Proposals
  BY <1>1, <1>2, ItemsFit
<1>4. cut \subseteq cut' /\ cut' \subseteq Reviews!Proposals /\ (Working(r) => Reviews!Items(r) \subseteq cut')
  BY <1>1, <1>2, <1>3 DEF ReviewTypes, Working, Firm
<1> QED  BY <1>1, <1>4, LeaveStep DEF Reviews!Ended

LEMMA CheckStep ==
    ASSUME ReviewInv, NEW r \in Reviewers, setting' = setting, Reviews!Check(r)
    PROVE  ReviewInv'
<1>1. ReviewTypes /\ WayOf(r) /\ ShownOf(r) /\ ReceiptsOf(r)
  BY DEF ReviewInv, ReviewPart
<1>2. review[r].at = "check" /\ UNCHANGED <<canon, status, archives, receipts, cut>>
  BY DEF Reviews!Check, Reviews!At
<1>3. Firm(r) /\ By(r) = {} /\ holder = r /\ review[r].k = 1 /\ review[r].written = {} /\ review[r].todo = {}
  <2>1. review[r] \in Reviewing
    BY <1>1 DEF ReviewTypes
  <2>2. Firm(r)
    BY <1>1, <1>2, <2>1 DEF WayOf, Firm, Reviewing, Reviews!Ended, Reviews!Recording
  <2> QED  BY <1>1, <1>2, <2>2 DEF WayOf, ReceiptsOf
<1>4. ~Working(r)
  BY <1>2 DEF Working, Reviews!Inside, Reviews!Recording
<1>5. CASE Reviews!CheckPassed(r)
  <2> DEFINE seenNow == IF review[r].way = "alone" THEN review[r].found ELSE [archives |-> archives, receipts |-> receipts]
             new == [review[r] EXCEPT !.at = "plan", !.found = seenNow]
  <2>1. review' = [review EXCEPT ![r] = new] /\ holder' = holder
    BY <1>5 DEF Reviews!Check
  <2>2. review[r] \in Reviewing /\ review \in [Reviewers -> Reviewing]
    BY <1>1 DEF ReviewTypes
  <2>3. new \in Reviewing
    BY <1>1, <2>2 DEF Reviewing, ReviewTypes, Places, Reviews!Inside
  <2>4. /\ new.at = "plan" /\ new.way = review[r].way /\ new.act = review[r].act /\ new.items = review[r].items
        /\ new.k = review[r].k /\ new.shown = review[r].shown /\ new.base = review[r].base
        /\ new.todo = review[r].todo /\ new.written = review[r].written /\ new.found = seenNow
    BY <2>2 DEF Reviewing
  <2> HIDE DEF new
  <2>5. OnlyReview(r) /\ review'[r] = new
    BY <2>1, <2>2, <2>3 DEF OnlyReview
  <2>6. SameTask(r) /\ review'[r].at = "plan" /\ review'[r].k = 1
    BY <1>3, <2>4, <2>5 DEF SameTask
  <2>7. /\ Reviews!Items(r)' = Reviews!Items(r) /\ Affected(r)' = Affected(r) /\ Firm(r)'
        /\ Reviews!Item(r)' = Reviews!Item(r) /\ Reviews!Earlier(r)' = {} /\ Reviews!Touched(r)' = {}
        /\ \A f \in Files : Before(r, f)' = {}
    <3>1. Reviews!Earlier(r) = {} /\ Reviews!Touched(r) = {} /\ \A f \in Files : Before(r, f) = {}
      BY <1>1, <1>2, <1>3, ItemsFit
    <3> QED  BY <1>3, <2>6, <3>1, DerivedFields
  <2>8. Effect(r)
    BY <1>1, <1>2, <2>1, <2>5, <2>6, QuietEffect DEF ReviewTypes
  <2>9. ASSUME NEW p \in Reviews!Items(r) \ cut, review[r].act = "approved" PROVE NotApplied(p)
    <3>1. p \in Reviews!Proposals
      BY <1>1, <1>2, ItemsFit
    <3>2. ~Reviews!Approving(p)
      <4>1. ASSUME NEW q \in Reviewers, review[q].at \in Reviews!Inside, review[q].act = "approved" PROVE FALSE
        BY <1>2, <1>3, <1>4, <4>1, ApprovalIsFirm, OneWorks DEF Approves
      <4> QED  BY <4>1 DEF Reviews!Approving, Reviews!At
    <3>3. PICK f \in Targets[p] : f \in Files
      BY <3>1, ReviewsAssumption DEF Reviews!Proposals
    <3>4. canon[f] = review[r].shown[f]
      BY <1>5, <2>9 DEF Reviews!CheckPassed, Reviews!Unchanged
    <3>5. p \notin canon[f].claims
      BY <1>1, <1>2, <2>9, <3>3, <3>4 DEF ShownOf, Reviews!Ended
    <3> QED  BY <3>1, <3>2, <3>3, <3>5 DEF ReviewInv, Reviews!ApprovedIffApplied, Reviews!Whole, NotApplied
  <2>10. ASSUME NEW p \in Reviews!Items(r) \ cut, NEW x \in receipts, x.proposal = p, FirmRecord(p, x.decision) PROVE FALSE
    <3>1. CASE review[r].way = "alone"
      <4>1. review[r].act = "approved"
        BY <1>1, <1>2, <3>1, ItemsFit
      <4>2. FirmRecord(p, "approved") /\ p \in Inbox
        <5>1. Reviews!Offered("alone", review[r].act, review[r].items)
          BY <1>1, <1>2, <3>1 DEF WayOf
        <5>2. Reviews!Items(r) = {Reviews!Item(r)} /\ Reviews!Item(r) = review[r].items[1]
          BY <1>1, <1>2, <1>3, <3>1, ItemsFit DEF Reviews!Item
        <5> QED  BY <5>1, <5>2 DEF Reviews!Offered, FirmRecord
      <4>3. x.decision = "approved"
        BY <2>10, <4>2, ReviewsAssumption DEF FirmRecord
      <4> QED  BY <2>9, <2>10, <4>1, <4>3 DEF NotApplied, Reviews!HasReceipt
    <3>2. CASE review[r].way = "batch"
      <4>1. status[p] = "pending"
        BY <1>5, <3>2 DEF Reviews!CheckPassed
      <4>2. p \in Project
        <5>1. PICK n \in DOMAIN review[r].items : p = review[r].items[n]
          BY DEF Reviews!Items
        <5> QED  BY <1>1, <1>2, <3>2, <5>1 DEF WayOf, Reviews!Offered
      <4>3. x.decision # "superseded"
        BY <2>10, <4>2, ReviewsAssumption DEF FirmRecord
      <4>4. PICK q \in Reviewers : Working(q)
        BY <2>10, <4>1, <4>2, <4>3 DEF ReviewInv, ReceiptsStand
      <4> QED  BY <1>2, <1>3, <1>4, <4>4, OneWorks
    <3> QED  BY <1>3, <3>1, <3>2 DEF Firm
  <2>11. WayOf(r)'
    BY <1>1, <1>2, <1>3, <2>1, <2>4, <2>5, <2>6, <2>7
    DEF WayOf, SameTask, Firm, Reviews!Inside, Reviews!Recording, Reviews!Ended
  <2>12. ShownOf(r)'
    BY <1>1, <1>2, <2>4, <2>5, <2>6, ShownKept DEF Reviews!Ended
  <2>13. DocumentsOf(r)'
    <3> SUFFICES ASSUME review[r].act = "approved" PROVE DocumentsOf(r)'
      BY <2>6 DEF DocumentsOf, Approves, SameTask
    <3>1. \A f \in Affected(r) : canon[f] = review[r].shown[f]
      BY <1>5 DEF Affected, Reviews!CheckPassed, Reviews!Unchanged
    <3>2. Reached(r)' = {} /\ Changed(r)' = {} /\ \A f \in Files : Put(r, f)' = {}
      BY <2>6, <2>7 DEF Reached, Changed, Put
    <3>3. Affected(r) \subseteq Files
      BY <1>1, <1>2, ItemsFit
    <3>4. /\ review'[r].written = {} /\ review'[r].todo = {} /\ review'[r].shown = review[r].shown
      BY <1>3, <2>4, <2>5
    <3> QED  BY <1>2, <2>6, <2>7, <3>1, <3>2, <3>3, <3>4 DEF DocumentsOf, Undoing
  <2>14. ReceiptsOf(r)'
    BY <1>2, <1>3, <2>6, <2>7 DEF ReceiptsOf, By, Decided
  <2>15. ItemsOf(r)'
    <3> SUFFICES ASSUME NEW p \in Reviews!Items(r) \ cut PROVE ItemOf(r, p)'
      BY <1>2, <2>7 DEF ItemsOf
    <3>1. \A x \in receipts : x.by # r
      BY <1>3 DEF By
    <3>2. FirmRecord(p, review[r].act)
      BY <1>1, <1>2, <1>3, ItemsFit
    <3>3. /\ review'[r].found = seenNow /\ review'[r].act = review[r].act /\ review'[r].at = "plan"
      BY <2>4, <2>5
    <3>4. \A x \in review'[r].found.receipts : x.proposal = p => x.decision # review[r].act /\ x.by # r
      BY <1>1, <2>10, <3>1, <3>2, <3>3 DEF WayOf
    <3>5. review[r].act = "approved" => <<p, "approved">> \notin archives /\ <<p, "approved">> \notin review'[r].found.archives
      BY <1>1, <2>9, <3>3 DEF NotApplied, WayOf
    <3> QED  BY <1>2, <2>7, <2>10, <3>3, <3>4, <3>5 DEF ItemOf
  <2> QED  BY <1>4, <2>8, <2>11, <2>12, <2>13, <2>14, <2>15, ReviewStepOf DEF ReviewPart, Approves
<1>6. CASE ~Reviews!CheckPassed(r)
  <2>1. Reviews!Leave(r, "failed")
    BY <1>6 DEF Reviews!Check
  <2> QED  BY <1>1, <1>2, <1>3, <1>4, <2>1, LeaveStep DEF Reviews!Ended, ReviewTypes
<1> QED  BY <1>5, <1>6

(* The steps that write or remove the record of the current decision. *)
RecordOnly(r) ==
    /\ UNCHANGED <<setting, canon, cut>>
    /\ archives' \subseteq Entries /\ receipts' \subseteq Slips /\ status' \in [Reviews!Proposals -> Reviews!Statuses]
    /\ \A e \in Entries : e # Reviews!Record(r) => (e \in archives' <=> e \in archives)
    /\ \A x \in receipts' \ receipts :
          /\ x = [proposal |-> Reviews!Item(r), decision |-> review[r].act, by |-> r]
          /\ review[r].at = "receipt"
    /\ \A x \in receipts \ receipts' : x.proposal = Reviews!Item(r) /\ x.decision = review[r].act
    /\ \A p \in Reviews!Proposals :
          status'[p] = status[p] \/ (p = Reviews!Item(r) /\ status'[p] = review[r].act)

LEMMA RecordEffect ==
    ASSUME ReviewInv, NEW r \in Reviewers, review[r].at \in Reviews!Inside, RecordOnly(r), OnlyReview(r), SameTask(r),
           review'[r].at # "idle", \A q \in Reviewers \ {r} : holder = q => holder' = q
    PROVE  Effect(r)
<1>1. ReviewTypes /\ WayOf(r) /\ review[r].at # "idle"
  BY DEF ReviewInv, ReviewPart, Reviews!Inside, Reviews!Recording
<1>2. Reviews!Item(r) \in Reviews!Items(r) /\ Reviews!Items(r) \subseteq Reviews!Proposals
  BY <1>1, ItemsFit
<1>3. ReviewTypes'
  BY <1>1 DEF ReviewTypes, RecordOnly, OnlyReview
<1>4. ASSUME NEW p \in Reviews!Proposals, ~(Approves(r) /\ p \in Reviews!Items(r)) PROVE SameOf(p)
  <2>1. p # Reviews!Item(r) \/ review[r].act # "approved"
    BY <1>2, <1>4, ApprovalIsFirm
  <2>2. <<p, "approved">> \in archives' <=> <<p, "approved">> \in archives
    BY <2>1 DEF RecordOnly, Reviews!Record, Entries, Reviews!Decisions
  <2>3. ASSUME NEW x, x.proposal = p, x.decision = "approved" PROVE x \in receipts' <=> x \in receipts
    BY <2>1, <2>3 DEF RecordOnly
  <2> QED  BY <2>2, <2>3 DEF SameOf, Reviews!HasReceipt, RecordOnly
<1>5. ASSUME NEW p \in Project, ~(Working(r) /\ p \in Reviews!Items(r)), status[p] # "pending" PROVE status'[p] # "pending"
  <2>1. review[r].act # "pending" /\ p \in Reviews!Proposals
    BY <1>1 DEF ReviewTypes, Reviewing, Reviews!Decisions, Reviews!Proposals
  <2> QED  BY <1>5, <2>1 DEF RecordOnly
<1>6. \A f \in Files : Fine(canon'[f].claims, f)
  BY DEF ReviewInv, RecordOnly
<1>7. \A x \in receipts \ receipts' :
          /\ (Firm(r) => Working(r))
          /\ x.proposal \in Reviews!Items(r) /\ x.decision = review[r].act
  BY <1>2 DEF RecordOnly, Working
<1> QED  BY <1>1, <1>3, <1>4, <1>5, <1>6, <1>7 DEF Effect, OnlyReview, RecordOnly

(* What is decided without the lock is no approval, and no decision that    *)
(* is made under the lock.                                                  *)
LEMMA LoosePart ==
    ASSUME NEW r \in Reviewers, WayOf(r)', review'[r].way = "loose", review'[r].at # "idle"
    PROVE  ReviewPart(r)'
<1>1. ~Firm(r)' /\ review'[r].act # "approved"
  BY DEF WayOf, Reviews!Offered, Firm
<1> QED  BY <1>1 DEF ReviewPart, ShownOf, DocumentsOf, ReceiptsOf, ItemsOf, Approves, Working

LEMMA LooseStep ==
    ASSUME ReviewInv, NEW r \in Reviewers, review[r].way = "loose", review[r].at \in Reviews!Inside,
           RecordOnly(r), OnlyReview(r), SameTask(r), review'[r].at \in Reviews!Recording \cup Reviews!Ended,
           \/ SameMemory(r)
           \/ review'[r].k = 1,
           \A q \in Reviewers \ {r} : holder = q => holder' = q
    PROVE  ReviewInv'
<1>1. WayOf(r) /\ ReviewTypes /\ review[r].at # "idle"
  BY DEF ReviewInv, ReviewPart, Reviews!Inside, Reviews!Recording
<1>2. ~Firm(r) /\ Firm(r)' = Firm(r)
  BY DerivedFields DEF Firm
<1>3. review'[r].k \in DOMAIN review[r].items
  <2>1. 1 \in DOMAIN review[r].items
    BY <1>1, ItemsFit
  <2> QED  BY <1>1, <2>1 DEF WayOf, SameMemory
<1>4. review'[r].at \notin {"idle", "asked", "waiting", "check", "write", "validate"}
  BY DEF Reviews!Recording, Reviews!Ended
<1>5. WayOf(r)'
  BY <1>1, <1>2, <1>3, <1>4 DEF WayOf, SameTask
<1>6. Effect(r)
  BY <1>4, RecordEffect
<1>7. ReviewPart(r)'
  BY <1>4, <1>5, LoosePart DEF SameTask
<1> QED  BY <1>2, <1>6, <1>7, ReviewStepOf DEF Approves, Working

-----------------------------------------------------------------------------
(* Under the lock, from one place to the next. *)
Deciding == Reviews!Recording \cup {"record", "validate"}

LEMMA DocumentsStay ==
    ASSUME NEW r \in Reviewers, DocumentsOf(r), SameTask(r), SameMemory(r), UNCHANGED <<setting, canon>>,
           review[r].at \in Deciding, review'[r].at \in Deciding
    PROVE  DocumentsOf(r)'
<1> SUFFICES ASSUME Approves(r)' PROVE DocumentsOf(r)'
  BY DEF DocumentsOf
<1>1. Approves(r)
  BY DEF Approves, Working, Firm, SameTask, Deciding, Reviews!Inside
<1>2. /\ Reviews!Items(r)' = Reviews!Items(r) /\ Affected(r)' = Affected(r)
      /\ Reviews!Item(r)' = Reviews!Item(r) /\ Reviews!Earlier(r)' = Reviews!Earlier(r)
      /\ Reviews!Touched(r)' = Reviews!Touched(r)
  BY DerivedFields DEF SameMemory
<1>3. /\ review[r].at \notin Undoing \cup {"plan", "write"} /\ review'[r].at \notin Undoing \cup {"plan", "write"}
      /\ review[r].at # "unrecord"
  BY DEF Deciding, Reviews!Recording, Undoing
<1>4. Reached(r)' = Reached(r) /\ Changed(r)' = Changed(r) /\ \A f : Before(r, f)' = Before(r, f) /\ Put(r, f)' = Put(r, f)
  BY <1>2, <1>3 DEF Reached, Changed, Before, Put, SameMemory
<1>5. \A f : AsShown(r, review[r].base, f)' <=> AsShown(r, review[r].base, f)
  BY DEF AsShown, SameMemory
<1> QED  BY <1>1, <1>2, <1>3, <1>4, <1>5 DEF DocumentsOf, SameMemory, Undoing

LEMMA DocumentsToRestore ==
    ASSUME ReviewTypes, NEW r \in Reviewers, WayOf(r), Working(r), DocumentsOf(r), ShownOf(r), SameTask(r), SameMemory(r), UNCHANGED <<setting, canon>>,
           review[r].at \notin Undoing, review'[r].at = "restore", review[r].way = "alone" => review[r].at # "plan"
    PROVE  DocumentsOf(r)'
<1> SUFFICES ASSUME Approves(r)' PROVE DocumentsOf(r)'
  BY DEF DocumentsOf
<1>1. Approves(r) /\ review[r].at # "idle" /\ review[r].at \notin Reviews!Ended
  BY DEF Approves, Working, Firm, SameTask, Reviews!Inside, Reviews!Recording, Reviews!Ended
<1>2. Affected(r)' = Affected(r) /\ Reviews!Items(r)' = Reviews!Items(r) /\ Reviews!Item(r)' = Reviews!Item(r)
  BY DerivedFields DEF SameMemory
<1>3. /\ review[r].written = Reviews!Touched(r) \cup Changed(r)
      /\ \A f \in Affected(r) : canon[f].claims = review[r].shown[f].claims \cup Put(r, f)
      /\ \A f \in Reviews!Touched(r) \cup Reached(r) : AsShown(r, review[r].base, f)
      /\ setting.ownerWaits => \A f \in Affected(r) : canon[f].edits = review[r].shown[f].edits
  BY <1>1 DEF DocumentsOf, Undoing
<1>4. Reached(r) \subseteq Affected(r) /\ Reviews!Touched(r) \subseteq Affected(r) /\ Affected(r) \subseteq Files
  BY <1>1, ItemsFit DEF Reached
<1>5. Reviews!Restorable(r)' = IF review[r].way = "alone" THEN Affected(r) ELSE review[r].written
  BY <1>1, <1>2, ItemsFit DEF Reviews!Restorable, SameTask, SameMemory
<1>6. review[r].way = "alone" => Affected(r) = Reached(r)
  BY <1>1, ItemsFit DEF Reached
<1>7. Reviews!Restorable(r)' \subseteq Affected(r) /\ Reviews!Restorable(r)' \subseteq Reviews!Touched(r) \cup Reached(r)
  BY <1>3, <1>4, <1>5, <1>6 DEF Changed
<1>8. \A f \in Reviews!Restorable(r)' : AsShown(r, review[r].base, f)'
  BY <1>3, <1>7 DEF AsShown, SameMemory
<1>9. ASSUME NEW f \in Affected(r)
      PROVE  /\ review[r].shown[f].claims \subseteq canon[f].claims
             /\ canon[f].claims \subseteq review[r].shown[f].claims \cup Reviews!Items(r)
             /\ f \notin Reviews!Restorable(r)' => canon[f].claims = review[r].shown[f].claims
  <2>1. Put(r, f) \subseteq Reviews!Items(r)
    BY <1>1, <1>4, ItemsFit DEF Put
  <2>2. f \notin Reviews!Touched(r) \cup Changed(r) => Put(r, f) = {}
    BY <1>1, <1>4, ItemsFit DEF Put
  <2>3. Reviews!Touched(r) \cup Changed(r) \subseteq Reviews!Restorable(r)'
    BY <1>3, <1>4, <1>5 DEF Changed
  <2> QED  BY <1>3, <2>1, <2>2, <2>3
<1> QED  BY <1>2, <1>3, <1>7, <1>8, <1>9 DEF DocumentsOf, Undoing, SameMemory

LEMMA WayStays ==
    ASSUME NEW r \in Reviewers, WayOf(r), Working(r), SameTask(r), SameMemory(r), holder' = holder,
           review'[r].at \in Reviews!Inside, review'[r].at \in {"write", "validate"} => review[r].act = "approved",
           review'[r].at = "validate" => review[r].k = Len(review[r].items)
    PROVE  WayOf(r)'
<1>1. Firm(r)' = Firm(r) /\ review[r].at # "idle" /\ holder = r /\ review[r].way # "loose"
  BY DerivedFields DEF Working, WayOf, Reviews!Inside, Reviews!Recording, Firm
<1> QED  BY <1>1 DEF WayOf, SameTask, SameMemory, Reviews!Inside, Reviews!Recording

(* The current record is whole, or something goes wrong with it. *)
LEMMA FirmRecordStep ==
    ASSUME ReviewInv, NEW r \in Reviewers, Working(r), review[r].at \notin Undoing, RecordOnly(r), OnlyReview(r), SameTask(r), SameMemory(r), holder' = holder,
           review'[r].at \in Reviews!Inside \ {"unrecord"}, DocumentsOf(r)',
           review'[r].at \in {"write", "validate"} => review[r].act = "approved",
           review'[r].at = "validate" => review[r].k = Len(review[r].items),
           Steady(r)' => By(r)' = Decided(r)',
           \A p \in Reviews!Items(r) \ cut : ItemOf(r, p)'
    PROVE  ReviewInv'
<1>1. WayOf(r) /\ ShownOf(r) /\ review[r].at \notin Reviews!Ended \cup {"idle"}
  BY DEF ReviewInv, ReviewPart, Working, Reviews!Ended, Reviews!Inside, Reviews!Recording
<1>2. Reviews!Items(r)' = Reviews!Items(r) /\ Firm(r)' = Firm(r)
  BY DerivedFields
<1>3. Working(r)' /\ (Approves(r) => Approves(r)')
  BY <1>2 DEF Working, Approves, SameTask
<1>4. WayOf(r)'
  BY <1>1, WayStays
<1>5. ShownOf(r)'
  BY <1>1, ShownKept DEF SameMemory
<1>6. ReceiptsOf(r)'
  BY DEF ReceiptsOf, Steady, Reviews!Inside, Reviews!Recording, Undoing
<1>7. ItemsOf(r)'
  BY <1>2 DEF ItemsOf, RecordOnly
<1>8. Effect(r)
  BY RecordEffect DEF Working, Reviews!Inside, Reviews!Recording
<1> QED  BY <1>3, <1>4, <1>5, <1>6, <1>7, <1>8, ReviewStepOf DEF ReviewPart

(* The record of one decision: what was there, and what is written of it. *)
LEMMA ItemUnsettled ==
    ASSUME NEW r \in Reviewers, NEW p, ItemOf(r, p), SameTask(r), review'[r].found = review[r].found,
           \A x \in receipts' : x \in receipts \/ x.by = r, ~Steady(r)'
    PROVE  ItemOf(r, p)'
  BY DEF ItemOf, SameTask

LEMMA ReviewAtWork ==
    ASSUME ReviewInv, NEW r \in Reviewers, review[r].at \in Reviews!Inside
    PROVE  /\ ReviewTypes /\ WayOf(r) /\ ShownOf(r) /\ DocumentsOf(r) /\ ReceiptsOf(r) /\ ItemsOf(r)
           /\ review[r].at # "idle" /\ review[r].at \notin Reviews!Ended
           /\ review[r].act \in Reviews!Decisions /\ Reviews!Item(r) \in Reviews!Proposals
           /\ Reviews!Record(r) = <<Reviews!Item(r), review[r].act>> /\ Reviews!Record(r) \in Entries
           /\ review[r].way = "loose" \/ (Working(r) /\ review[r].way # "loose" /\ holder = r)
           /\ review[r].way = "loose" => ~Firm(r) /\ ~Working(r) /\ Len(review[r].items) = 1 /\ review[r].k = 1
<1>1. /\ ReviewTypes /\ WayOf(r) /\ ShownOf(r) /\ DocumentsOf(r) /\ ReceiptsOf(r) /\ ItemsOf(r)
      /\ review[r].at # "idle" /\ review[r].at \notin Reviews!Ended
  BY DEF ReviewInv, ReviewPart, Reviews!Inside, Reviews!Recording, Reviews!Ended
<1>2. /\ review[r].act \in {"none"} \cup Reviews!Decisions /\ review[r].way \in {"none", "alone", "loose", "batch"}
  BY <1>1 DEF ReviewTypes, Reviewing
<1>3. review[r].act # "none" /\ review[r].way # "none"
  BY <1>1 DEF WayOf
<1>4. Reviews!Item(r) \in Reviews!Proposals
  BY <1>1, ItemsFit
<1>5. review[r].way = "loose" => Len(review[r].items) = 1 /\ review[r].k = 1
  <2>1. \A n \in 1 .. 1 : n = 1
    OBVIOUS
  <2> QED  BY <1>1, <2>1, ItemsFit
<1>6. review[r].way = "loose" \/ (Working(r) /\ review[r].way # "loose" /\ holder = r)
  BY <1>1, <1>2, <1>3 DEF Working, Firm, WayOf
<1> QED  BY <1>1, <1>2, <1>3, <1>4, <1>5, <1>6 DEF Reviews!Record, Entries, Firm, Working

LEMMA NothingRecorded ==
    ASSUME ReviewTypes, NEW r \in Reviewers, UNCHANGED <<setting, canon, cut, archives, receipts, status>>
    PROVE  RecordOnly(r)
  BY DEF RecordOnly, ReviewTypes

(* A reviewer that has no lock gives up; one that has it rolls back. *)
LEMMA FailStep ==
    ASSUME ReviewInv, NEW r \in Reviewers, review[r].at \in {"record", "cleanup"}, RecordOnly(r), Reviews!Fail(r),
           receipts' \subseteq receipts
    PROVE  ReviewInv'
<1>1. review[r].at \in Reviews!Inside \ Undoing /\ review[r].at \in Deciding /\ review[r].at # "plan"
  BY DEF Reviews!Inside, Reviews!Recording, Undoing, Deciding
<1> USE ReviewAtWork
<1>2. CASE review[r].way = "loose"
  <2>1. Reviews!Leave(r, "failed")
    BY <1>2 DEF Reviews!Fail
  <2>2. OnlyReview(r) /\ SameTask(r) /\ review'[r].at = "failed" /\ review'[r].k = 1 /\ holder' = IF holder = r THEN None ELSE holder
    BY <1>1, <2>1, LeaveFields DEF Places, Reviews!Ended
  <2> QED  BY <1>1, <1>2, <2>2, LooseStep DEF Reviews!Ended
<1>3. CASE review[r].way # "loose"
  <2>1. Reviews!Goto(r, "restore") /\ holder' = holder
    BY <1>3 DEF Reviews!Fail
  <2>2. OnlyReview(r) /\ SameTask(r) /\ SameMemory(r) /\ review'[r].at = "restore"
    BY <1>1, <2>1, GotoFields DEF Places, Reviews!Inside
  <2>3. DocumentsOf(r)'
    BY <1>1, <1>3, <2>2, DocumentsToRestore DEF RecordOnly
  <2>4. \A p \in Reviews!Items(r) \ cut : ItemOf(r, p)'
    BY <1>1, <1>3, <2>2, ItemUnsettled DEF ItemsOf, Steady, Undoing, SameMemory
  <2> QED  BY <1>1, <1>3, <2>1, <2>2, <2>3, <2>4, FirmRecordStep DEF Reviews!Inside, Steady, Undoing
<1> QED  BY <1>2, <1>3

LEMMA BeginStep ==
    ASSUME ReviewInv, NEW r \in Reviewers, setting' = setting, Reviews!Begin(r)
    PROVE  ReviewInv'
<1>1. review[r].at = "record" /\ UNCHANGED <<canon, status, archives, receipts, cut>>
  BY DEF Reviews!Begin, Reviews!At
<1>2. review[r].at \in Reviews!Inside \ (Undoing \cup {"cleanup"}) /\ review[r].at \in Deciding
  BY <1>1 DEF Reviews!Inside, Undoing, Deciding
<1> USE ReviewAtWork
<1>3. RecordOnly(r)
  BY <1>1, <1>2, NothingRecorded
<1>4. CASE Reviews!Collides(r)
  BY <1>1, <1>3, <1>4, FailStep DEF Reviews!Begin
<1>5. CASE ~Reviews!Collides(r)
  <2>1. Reviews!Goto(r, "archive") /\ holder' = holder
    BY <1>5 DEF Reviews!Begin
  <2>2. OnlyReview(r) /\ SameTask(r) /\ SameMemory(r) /\ review'[r].at = "archive"
    BY <1>2, <2>1, GotoFields DEF Places, Reviews!Inside, Reviews!Recording
  <2>3. CASE review[r].way = "loose"
    BY <1>2, <1>3, <2>1, <2>2, <2>3, LooseStep DEF Reviews!Recording
  <2>4. CASE review[r].way # "loose"
    <3>1. DocumentsOf(r)'
      BY <1>1, <1>2, <2>2, <2>4, DocumentsStay DEF Deciding, Reviews!Recording
    <3>2. /\ Reviews!Item(r)' = Reviews!Item(r) /\ Reviews!Earlier(r)' = Reviews!Earlier(r)
          /\ By(r)' = By(r) /\ By(r) = Reviews!Earlier(r)
      BY <1>1, <1>2, <2>2, <2>4, DerivedFields DEF By, ReceiptsOf, Working, Decided, SameMemory
    <3>3. By(r)' = Decided(r)'
      BY <2>2, <3>2 DEF Decided
    <3>4. ASSUME NEW p \in Reviews!Items(r) \ cut PROVE ItemOf(r, p)'
      <4>1. ItemOf(r, p)
        BY <1>2, <2>4 DEF ItemsOf
      <4> QED  BY <1>1, <2>2, <3>2, <4>1 DEF ItemOf, SameTask, SameMemory, Steady, Undoing
    <3> QED  BY <1>2, <1>3, <2>1, <2>2, <2>4, <3>1, <3>3, <3>4, FirmRecordStep DEF Reviews!Inside, Reviews!Recording
  <2> QED  BY <2>3, <2>4
<1> QED  BY <1>4, <1>5

(* Somewhere else in the record; its own archive or receipt is there.       *)
LEMMA StepBack ==
    ASSUME ReviewInv, NEW r \in Reviewers, UNCHANGED <<setting, canon, cut, archives, receipts, status, holder>>,
           review[r].at \in {"archive", "receipt", "save"}, Reviews!Goto(r, "cleanup")
    PROVE  ReviewInv'
<1>1. review[r].at \in Reviews!Inside \ (Undoing \cup {"cleanup"}) /\ review[r].at \in Deciding
  BY DEF Reviews!Inside, Reviews!Recording, Undoing, Deciding
<1> USE ReviewAtWork
<1>2. OnlyReview(r) /\ SameTask(r) /\ SameMemory(r) /\ review'[r].at = "cleanup"
  BY <1>1, GotoFields DEF Places, Reviews!Inside, Reviews!Recording
<1>3. RecordOnly(r)
  BY <1>1, NothingRecorded
<1>4. CASE review[r].way = "loose"
  BY <1>1, <1>2, <1>3, <1>4, LooseStep DEF Reviews!Recording
<1>5. CASE review[r].way # "loose"
  <2>1. DocumentsOf(r)'
    BY <1>1, <1>2, <1>5, DocumentsStay DEF Deciding, Reviews!Recording
  <2>2. \A p \in Reviews!Items(r) \ cut : ItemOf(r, p)'
    BY <1>1, <1>2, <1>5, ItemUnsettled DEF ItemsOf, Steady, SameMemory
  <2> QED  BY <1>1, <1>2, <1>3, <1>5, <2>1, <2>2, FirmRecordStep DEF Reviews!Inside, Reviews!Recording, Steady
<1> QED  BY <1>4, <1>5

LEMMA ArchiveStep ==
    ASSUME ReviewInv, NEW r \in Reviewers, setting' = setting, Reviews!Archive(r)
    PROVE  ReviewInv'
<1>1. review[r].at = "archive" /\ UNCHANGED <<canon, status, receipts, holder, cut>>
  BY DEF Reviews!Archive, Reviews!At
<1>2. review[r].at \in Reviews!Inside \ (Undoing \cup {"cleanup"}) /\ review[r].at \in Deciding
  BY <1>1 DEF Reviews!Inside, Reviews!Recording, Undoing, Deciding
<1> USE ReviewAtWork
<1>3. CASE Reviews!Record(r) \in archives
  BY <1>1, <1>3, StepBack DEF Reviews!Archive
<1>4. CASE Reviews!Record(r) \notin archives
  <2>1. Reviews!Goto(r, "receipt") /\ archives' = archives \cup {Reviews!Record(r)}
    BY <1>4 DEF Reviews!Archive
  <2>2. OnlyReview(r) /\ SameTask(r) /\ SameMemory(r) /\ review'[r].at = "receipt"
    BY <1>2, <2>1, GotoFields DEF Places, Reviews!Inside, Reviews!Recording
  <2>3. RecordOnly(r)
    BY <1>1, <1>2, <2>1 DEF RecordOnly, ReviewTypes
  <2>4. CASE review[r].way = "loose"
    BY <1>1, <1>2, <2>2, <2>3, <2>4, LooseStep DEF Reviews!Recording
  <2>5. CASE review[r].way # "loose"
    <3>1. DocumentsOf(r)'
      BY <1>1, <1>2, <2>2, <2>5, DocumentsStay DEF Deciding, Reviews!Recording
    <3>2. /\ Reviews!Item(r)' = Reviews!Item(r) /\ Reviews!Earlier(r)' = Reviews!Earlier(r)
          /\ By(r)' = By(r) /\ By(r) = Reviews!Earlier(r)
      BY <1>1, <1>2, <2>2, <2>5, DerivedFields DEF By, ReceiptsOf, Working, Decided, SameMemory
    <3>3. By(r)' = Decided(r)'
      BY <2>2, <3>2 DEF Decided
    <3>4. ASSUME NEW p \in Reviews!Items(r) \ cut PROVE ItemOf(r, p)'
      <4>1. ItemOf(r, p)
        BY <1>2, <2>5 DEF ItemsOf
      <4>2. review[r].act = "approved" => (<<p, "approved">> \in archives' <=> <<p, "approved">> \in archives \/ p = Reviews!Item(r))
        BY <1>2, <2>1
      <4> QED  BY <1>1, <2>2, <3>2, <4>1, <4>2 DEF ItemOf, SameTask, SameMemory, Steady, Undoing
    <3> QED  BY <1>1, <1>2, <2>2, <2>3, <2>5, <3>1, <3>3, <3>4, FirmRecordStep DEF Reviews!Inside, Reviews!Recording
  <2> QED  BY <2>4, <2>5
<1> QED  BY <1>3, <1>4

LEMMA ReceiptStep ==
    ASSUME ReviewInv, NEW r \in Reviewers, setting' = setting, Reviews!Receipt(r)
    PROVE  ReviewInv'
<1>1. review[r].at = "receipt" /\ UNCHANGED <<canon, status, archives, holder, cut>>
  BY DEF Reviews!Receipt, Reviews!At
<1>2. review[r].at \in Reviews!Inside \ (Undoing \cup {"cleanup"}) /\ review[r].at \in Deciding
  BY <1>1 DEF Reviews!Inside, Reviews!Recording, Undoing, Deciding
<1> USE ReviewAtWork
<1>3. CASE Reviews!HasReceipt(Reviews!Item(r), review[r].act)
  BY <1>1, <1>3, StepBack DEF Reviews!Receipt
<1>4. CASE ~Reviews!HasReceipt(Reviews!Item(r), review[r].act)
  <2> DEFINE new == [proposal |-> Reviews!Item(r), decision |-> review[r].act, by |-> r]
  <2>1. Reviews!Goto(r, "save") /\ receipts' = receipts \cup {new}
    BY <1>4 DEF Reviews!Receipt
  <2>2. OnlyReview(r) /\ SameTask(r) /\ SameMemory(r) /\ review'[r].at = "save"
    BY <1>2, <2>1, GotoFields DEF Places, Reviews!Inside, Reviews!Recording
  <2>3. RecordOnly(r)
    BY <1>1, <1>2, <2>1 DEF RecordOnly, ReviewTypes, Slips
  <2>4. CASE review[r].way = "loose"
    BY <1>1, <1>2, <2>2, <2>3, <2>4, LooseStep DEF Reviews!Recording
  <2>5. CASE review[r].way # "loose"
    <3>1. DocumentsOf(r)'
      BY <1>1, <1>2, <2>2, <2>5, DocumentsStay DEF Deciding, Reviews!Recording
    <3>2. /\ Reviews!Item(r)' = Reviews!Item(r) /\ Reviews!Earlier(r)' = Reviews!Earlier(r)
          /\ By(r) = Reviews!Earlier(r)
      BY <1>1, <1>2, <2>2, <2>5, DerivedFields DEF ReceiptsOf, Working, Decided, SameMemory
    <3>3. By(r)' = By(r) \cup {Reviews!Item(r)}
      <4>1. new.proposal = Reviews!Item(r) /\ new.by = r /\ new \in receipts'
        BY <2>1
      <4> HIDE DEF new
      <4> QED  BY <2>1, <4>1 DEF By
    <3>4. By(r)' = Decided(r)'
      BY <2>2, <3>2, <3>3 DEF Decided
    <3>5. ASSUME NEW p \in Reviews!Items(r) \ cut PROVE ItemOf(r, p)'
      <4>1. ItemOf(r, p)
        BY <1>2, <2>5 DEF ItemsOf
      <4>2. \A x \in receipts' : x \in receipts \/ x.by = r
        BY <2>1
      <4> QED  BY <1>1, <2>2, <3>2, <4>1, <4>2 DEF ItemOf, SameTask, SameMemory, Steady, Undoing
    <3> QED  BY <1>1, <1>2, <2>2, <2>3, <2>5, <3>1, <3>4, <3>5, FirmRecordStep DEF Reviews!Inside, Reviews!Recording
  <2> QED  BY <2>4, <2>5
<1> QED  BY <1>3, <1>4

LEMMA CleanupStep ==
    ASSUME ReviewInv, NEW r \in Reviewers, setting' = setting, Reviews!Cleanup(r)
    PROVE  ReviewInv'
<1>1. /\ review[r].at = "cleanup" /\ UNCHANGED <<canon, status, cut>> /\ Reviews!Fail(r)
      /\ archives' = archives \ {Reviews!Record(r)}
      /\ receipts' = {x \in receipts : <<x.proposal, x.decision>> # Reviews!Record(r)}
  BY DEF Reviews!Cleanup, Reviews!At
<1>2. review[r].at \in Reviews!Inside
  BY <1>1 DEF Reviews!Inside, Reviews!Recording
<1>3. ReviewTypes /\ Reviews!Record(r) = <<Reviews!Item(r), review[r].act>>
  BY <1>2, ReviewAtWork
<1>4. RecordOnly(r)
  BY <1>1, <1>3 DEF RecordOnly, ReviewTypes
<1> QED  BY <1>1, <1>4, FailStep

LEMMA ErrorStep ==
    ASSUME ReviewInv, NEW r \in Reviewers, setting' = setting, Reviews!Error(r)
    PROVE  ReviewInv'
<1>1. UNCHANGED <<canon, status, archives, receipts, holder, cut>>
  BY DEF Reviews!Error
<1>2. CASE review[r].at \in Reviews!Recording \ {"cleanup"} /\ Reviews!Goto(r, "cleanup")
  BY <1>1, <1>2, StepBack DEF Reviews!Recording
<1>3. CASE review[r].at \in {"write", "validate"} /\ Reviews!Goto(r, "restore")
  <2>1. review[r].at \in Reviews!Inside \ Undoing /\ review[r].at # "plan"
    BY <1>3 DEF Reviews!Inside, Undoing
  <2> USE ReviewAtWork
  <2>2. OnlyReview(r) /\ SameTask(r) /\ SameMemory(r) /\ review'[r].at = "restore"
    BY <1>3, <2>1, GotoFields DEF Places, Reviews!Inside
  <2>3. review[r].way # "loose"
    BY <1>3, <2>1 DEF WayOf, Reviews!Recording, Reviews!Ended
  <2>4. DocumentsOf(r)'
    BY <1>1, <2>1, <2>2, <2>3, DocumentsToRestore
  <2>5. \A p \in Reviews!Items(r) \ cut : ItemOf(r, p)'
    BY <1>1, <2>1, <2>2, <2>3, ItemUnsettled DEF ItemsOf, Steady, Undoing, SameMemory
  <2> QED  BY <1>1, <2>1, <2>2, <2>3, <2>4, <2>5, FirmRecordStep, NothingRecorded DEF Reviews!Inside, Steady, Undoing
<1> QED  BY <1>2, <1>3 DEF Reviews!Error, Reviews!At

LEMMA ReviewSaveStep ==
    ASSUME ReviewInv, NEW r \in Reviewers, setting' = setting, Reviews!Save(r)
    PROVE  ReviewInv'
<1>1. /\ review[r].at = "save" /\ UNCHANGED <<canon, archives, receipts, cut>>
      /\ status' = [status EXCEPT ![Reviews!Item(r)] = review[r].act]
  BY DEF Reviews!Save, Reviews!At
<1>2. review[r].at \in Reviews!Inside \ (Undoing \cup {"cleanup"}) /\ review[r].at \in Deciding /\ review[r].at # "write"
  BY <1>1 DEF Reviews!Inside, Reviews!Recording, Undoing, Deciding
<1> USE ReviewAtWork
<1>3. RecordOnly(r)
  BY <1>1, <1>2 DEF RecordOnly, ReviewTypes, Reviews!Statuses
<1>4. status'[Reviews!Item(r)] # "pending" /\ \A p \in Reviews!Proposals : status[p] # "pending" => status'[p] # "pending"
  BY <1>1, <1>2 DEF ReviewTypes, Reviews!Decisions
<1>5. Working(r) => By(r) = Reviews!Earlier(r) \cup {Reviews!Item(r)} /\ By(r)' = By(r)
  BY <1>1, <1>2 DEF ReceiptsOf, Decided, By, Working
<1>6. /\ Len(review[r].items) \in Nat /\ DOMAIN review[r].items = 1 .. Len(review[r].items)
      /\ review[r].k \in 1 .. Len(review[r].items) /\ Reviews!Items(r) \subseteq Reviews!Proposals
      /\ review[r].k = Len(review[r].items) => Reviews!Items(r) = Reviews!Earlier(r) \cup {Reviews!Item(r)}
      /\ Affected(r) \subseteq Files
  BY <1>2, ItemsFit
<1>7. CASE review[r].k < Len(review[r].items)
  <2> DEFINE new == [review[r] EXCEPT !.at = "plan", !.k = @ + 1]
  <2>1. review' = [review EXCEPT ![r] = new] /\ holder' = holder
    BY <1>7 DEF Reviews!Save
  <2>2. review[r] \in Reviewing /\ review \in [Reviewers -> Reviewing]
    BY <1>2 DEF ReviewTypes
  <2>3. new \in Reviewing
    <3>1. "plan" \in Places /\ review[r].k + 1 \in Nat
      BY <1>6 DEF Places, Reviews!Inside
    <3>2. new = [review[r] EXCEPT !.at = "plan", !.k = review[r].k + 1]
      BY <2>2 DEF Reviewing
    <3> HIDE DEF new
    <3> QED  BY <2>2, <3>1, <3>2 DEF Reviewing
  <2>4. /\ new.at = "plan" /\ new.way = review[r].way /\ new.act = review[r].act /\ new.items = review[r].items
        /\ new.k = review[r].k + 1 /\ new.shown = review[r].shown /\ new.base = review[r].base
        /\ new.todo = review[r].todo /\ new.written = review[r].written /\ new.found = review[r].found
    BY <2>2 DEF Reviewing
  <2> HIDE DEF new
  <2>5. OnlyReview(r) /\ review'[r] = new
    BY <2>1, <2>2, <2>3 DEF OnlyReview
  <2>6. SameTask(r) /\ Working(r) /\ review[r].way # "loose"
    <3>1. review[r].way # "loose"
      <4> SUFFICES ASSUME review[r].way = "loose" PROVE FALSE
        OBVIOUS
      <4>1. Len(review[r].items) = 1 /\ review[r].k = 1
        BY <1>2
      <4> QED  BY <1>7, <4>1
    <3> QED  BY <1>2, <2>4, <2>5, <3>1 DEF SameTask
  <2>7. Reviews!Items(r)' = Reviews!Items(r) /\ Affected(r)' = Affected(r) /\ Firm(r)' = Firm(r)
    BY <2>6, DerivedFields
  <2>8. Reviews!Earlier(r)' = Reviews!Earlier(r) \cup {Reviews!Item(r)}
    <3>1. 1 .. (review[r].k + 1) - 1 = (1 .. review[r].k - 1) \cup {review[r].k}
      BY <1>6
    <3> QED  BY <2>4, <2>5, <3>1 DEF Reviews!Earlier, Reviews!Item
  <2>9. Effect(r)
    BY <1>2, <1>3, <2>1, <2>4, <2>5, <2>6, RecordEffect
  <2>10. WayOf(r)'
    BY <1>2, <1>6, <1>7, <2>1, <2>4, <2>5, <2>6, <2>7
    DEF WayOf, SameTask, Reviews!Inside, Reviews!Recording, Reviews!Ended
  <2>11. ShownOf(r)'
    BY <1>2, <2>4, <2>5, <2>6, ShownKept
  <2>12. DocumentsOf(r)'
    <3> SUFFICES ASSUME Approves(r) PROVE DocumentsOf(r)'
      BY <2>6 DEF DocumentsOf, Approves, SameTask
    <3>1. /\ setting.ownerWaits => \A f \in Affected(r) : canon[f].edits = review[r].shown[f].edits
          /\ review[r].written = Reviews!Touched(r) \cup Changed(r) /\ review[r].todo = {}
          /\ \A f \in Affected(r) : canon[f].claims = review[r].shown[f].claims \cup Put(r, f)
          /\ \A f \in Reviews!Touched(r) \cup Reached(r) : AsShown(r, review[r].base, f)
      BY <1>1, <1>2 DEF DocumentsOf, Undoing
    <3>2. Changed(r) = Targets[Reviews!Item(r)] /\ Reached(r) = Targets[Reviews!Item(r)]
      BY <1>1, <3>1 DEF Changed, Reached
    <3>3. Reached(r)' = {} /\ Changed(r)' = {}
      BY <2>4, <2>5 DEF Reached, Changed
    <3>4. Reviews!Touched(r)' = Reviews!Touched(r) \cup Targets[Reviews!Item(r)]
      BY <2>8 DEF Reviews!Touched
    <3>5. \A f : Put(r, f)' = Put(r, f)
      BY <2>8, <3>2, <3>3 DEF Put, Before
    <3>6. \A f : AsShown(r, review[r].base, f)' <=> AsShown(r, review[r].base, f)
      BY <1>1, <2>4, <2>5 DEF AsShown
    <3> QED  BY <1>1, <2>4, <2>5, <2>7, <3>1, <3>2, <3>3, <3>4, <3>5, <3>6 DEF DocumentsOf, Undoing
  <2>13. ReceiptsOf(r)'
    BY <1>5, <2>4, <2>5, <2>6, <2>8 DEF ReceiptsOf, Decided, Reviews!Ended
  <2>14. ItemsOf(r)'
    <3> SUFFICES ASSUME NEW p \in Reviews!Items(r) \ cut PROVE ItemOf(r, p)'
      BY <1>1, <2>7 DEF ItemsOf
    <3>1. ItemOf(r, p) /\ p \in Reviews!Proposals
      BY <1>2, <1>6, <2>6 DEF ItemsOf
    <3> QED  BY <1>1, <1>4, <2>4, <2>5, <2>8, <3>1 DEF ItemOf, Steady, Undoing
  <2>15. Working(r)' /\ (Approves(r) => Approves(r)')
    BY <2>4, <2>5, <2>6, <2>7 DEF Working, Approves, Reviews!Inside
  <2> QED  BY <2>9, <2>10, <2>11, <2>12, <2>13, <2>14, <2>15, ReviewStepOf DEF ReviewPart
<1>8. CASE review[r].k = Len(review[r].items) /\ review[r].act = "approved"
  <2>1. Reviews!Goto(r, "validate") /\ holder' = holder
    BY <1>8 DEF Reviews!Save
  <2>2. OnlyReview(r) /\ SameTask(r) /\ SameMemory(r) /\ review'[r].at = "validate"
    BY <1>2, <2>1, GotoFields DEF Places, Reviews!Inside
  <2>3. Working(r)
    BY <1>2, <1>8, ApprovalIsFirm DEF Approves
  <2>4. DocumentsOf(r)'
    BY <1>1, <1>2, <2>2, <2>3, DocumentsStay DEF Deciding, RecordOnly
  <2>5. Reviews!Item(r)' = Reviews!Item(r) /\ Reviews!Earlier(r)' = Reviews!Earlier(r)
    BY <2>2, DerivedFields DEF SameMemory
  <2>6. By(r)' = Decided(r)'
    BY <1>5, <2>2, <2>3, <2>5 DEF Decided
  <2>7. ASSUME NEW p \in Reviews!Items(r) \ cut PROVE ItemOf(r, p)'
    <3>1. ItemOf(r, p) /\ p \in Reviews!Proposals
      BY <1>2, <1>6, <2>3 DEF ItemsOf
    <3> QED  BY <1>1, <1>4, <2>2, <2>5, <3>1 DEF ItemOf, Steady, Undoing, SameTask, SameMemory
  <2> QED  BY <1>2, <1>3, <1>8, <2>1, <2>2, <2>3, <2>4, <2>6, <2>7, FirmRecordStep DEF Reviews!Inside
<1>9. CASE review[r].k = Len(review[r].items) /\ review[r].act # "approved"
  <2>1. Reviews!Leave(r, "done")
    BY <1>9 DEF Reviews!Save
  <2>2. OnlyReview(r) /\ SameTask(r) /\ review'[r].at = "done" /\ review'[r].k = 1 /\ holder' = IF holder = r THEN None ELSE holder
    BY <1>2, <2>1, LeaveFields DEF Places, Reviews!Ended
  <2>3. CASE review[r].way = "loose"
    BY <1>2, <1>3, <2>2, <2>3, LooseStep DEF Reviews!Ended
  <2>4. CASE review[r].way # "loose"
    <3>1. Effect(r)
      BY <1>2, <1>3, <2>2, RecordEffect
    <3>2. By(r)' = Reviews!Items(r)
      BY <1>2, <1>5, <1>6, <1>9, <2>4
    <3>3. ReviewPart(r)'
      BY <1>2, <2>1, <3>2, LeavePart DEF Reviews!Ended
    <3>4. ASSUME NEW x \in receipts', x.proposal \in Reviews!Items(r), x.proposal \in Project \ cut'
          PROVE  status'[x.proposal] # "pending"
      <4>1. CASE x.proposal = Reviews!Item(r)
        BY <1>4, <4>1
      <4>2. CASE x.proposal \in Reviews!Earlier(r)
        <5>1. status[x.proposal] # "pending"
          BY <1>1, <1>2, <2>4, <3>4, <4>2 DEF ItemsOf, ItemOf, Steady
        <5> QED  BY <1>4, <1>6, <3>4, <5>1
      <4> QED  BY <1>6, <1>9, <3>4, <4>1, <4>2
    <3> QED  BY <1>9, <3>1, <3>3, <3>4, ReviewStepOf DEF Approves
  <2> QED  BY <2>3, <2>4
<1> QED  BY <1>6, <1>7, <1>8, <1>9

(* The text of a document after the earlier items. *)
LEMMA CurrentFields ==
    ASSUME NEW r \in Reviewers, NEW text \in [Files -> Reviews!Documents], NEW f \in Files
    PROVE  /\ Reviews!Current(r, text, f).claims = text[f].claims \cup Before(r, f)
           /\ Reviews!Current(r, text, f).edits = text[f].edits
<1>1. text[f] \in Reviews!Documents
  OBVIOUS
<1> QED  BY <1>1 DEF Reviews!Current, Reviews!Documents, Before

LEMMA SameDocument ==
    ASSUME NEW a \in Reviews!Documents, NEW b \in Reviews!Documents, a.claims = b.claims, a.edits = b.edits
    PROVE  a = b
  BY DEF Reviews!Documents

LEMMA PlanStep ==
    ASSUME ReviewInv, NEW r \in Reviewers, setting' = setting, Reviews!Plan(r)
    PROVE  ReviewInv'
<1>1. review[r].at = "plan" /\ UNCHANGED <<canon, status, archives, receipts, holder, cut>>
  BY DEF Reviews!Plan, Reviews!At
<1>2. review[r].at \in Reviews!Inside \ (Undoing \cup {"cleanup"}) /\ review[r].at # "write"
  BY <1>1 DEF Reviews!Inside, Reviews!Recording, Undoing
<1> USE ReviewAtWork
<1>3. Working(r)
  BY <1>1, <1>2 DEF WayOf, Reviews!Recording, Reviews!Ended
<1>4. RecordOnly(r)
  BY <1>1, <1>2, NothingRecorded
<1>5. /\ Affected(r) \subseteq Files /\ Reviews!Item(r) \in Reviews!Items(r) /\ Targets[Reviews!Item(r)] \subseteq Affected(r)
      /\ Reviews!Touched(r) \subseteq Affected(r)
      /\ \A f \in Files : f \notin Reviews!Touched(r) => Before(r, f) = {}
      /\ review[r].way = "alone" => Reviews!Touched(r) = {}
  BY <1>2, ItemsFit
<1>6. /\ canon \in [Files -> Reviews!Documents] /\ review \in [Reviewers -> Reviewing] /\ review[r] \in Reviewing
      /\ review[r].base \in [Files -> Reviews!Documents] /\ review[r].shown \in [Files -> Reviews!Documents]
  BY <1>2 DEF ReviewTypes, Reviewing
<1>7. CASE review[r].act # "approved"
  <2>1. Reviews!Goto(r, "record")
    BY <1>7 DEF Reviews!Plan
  <2>2. OnlyReview(r) /\ SameTask(r) /\ SameMemory(r) /\ review'[r].at = "record"
    BY <1>2, <2>1, GotoFields DEF Places, Reviews!Inside
  <2>3. DocumentsOf(r)'
    BY <1>7, <2>2 DEF DocumentsOf, Approves, SameTask
  <2>4. Reviews!Item(r)' = Reviews!Item(r) /\ Reviews!Earlier(r)' = Reviews!Earlier(r)
    BY <2>2, DerivedFields DEF SameMemory
  <2>5. By(r)' = Decided(r)'
    BY <1>1, <1>2, <1>3, <2>2, <2>4 DEF Decided, ReceiptsOf, By, Working
  <2>6. ASSUME NEW p \in Reviews!Items(r) \ cut PROVE ItemOf(r, p)'
    <3>1. ItemOf(r, p)
      BY <1>2, <1>3 DEF ItemsOf
    <3> QED  BY <1>1, <1>7, <2>2, <2>4, <3>1 DEF ItemOf, Steady, Undoing, SameTask, SameMemory
  <2> QED  BY <1>1, <1>2, <1>3, <1>4, <2>2, <2>3, <2>5, <2>6, FirmRecordStep DEF Reviews!Inside
<1>8. CASE review[r].act = "approved"
  <2> DEFINE base == Reviews!Base(r)
             fits == \A f \in Targets[Reviews!Item(r)] :
                         Reviews!Plannable(Reviews!Item(r), Reviews!Current(r, base, f).claims)
  <2>1. Approves(r)
    BY <1>3, <1>8 DEF Approves
  <2>2. /\ setting.ownerWaits => \A f \in Affected(r) : canon[f].edits = review[r].shown[f].edits
        /\ review[r].written = Reviews!Touched(r) \cup Changed(r)
        /\ \A f \in Affected(r) : canon[f].claims = review[r].shown[f].claims \cup Put(r, f)
        /\ \A f \in Reviews!Touched(r) \cup Reached(r) : AsShown(r, review[r].base, f)
    BY <1>2, <2>1 DEF DocumentsOf, Undoing
  <2>3. Reached(r) = {} /\ Changed(r) = {} /\ \A f : Put(r, f) = Before(r, f)
    BY <1>1 DEF Reached, Changed, Put
  <2>4. base \in [Files -> Reviews!Documents]
    BY <1>6, BlankType DEF Reviews!Base
  <2>5. ASSUME NEW f \in Reviews!Touched(r) \cup Targets[Reviews!Item(r)] PROVE AsShown(r, base, f)
    <3>1. f \in Files
      BY <1>5
    <3>2. CASE f \in Reviews!Touched(r)
      <4>1. base[f] = review[r].base[f]
        BY <3>1, <3>2 DEF Reviews!Base
      <4> QED  BY <2>2, <3>2, <4>1 DEF AsShown
    <3>3. CASE f \notin Reviews!Touched(r) /\ review[r].way = "alone"
      <4>1. base[f] = review[r].shown[f]
        BY <2>5, <3>1, <3>3 DEF Reviews!Base
      <4> QED  BY <4>1 DEF AsShown
    <3>4. CASE f \notin Reviews!Touched(r) /\ review[r].way # "alone"
      <4>1. base[f] = canon[f]
        BY <2>5, <3>1, <3>4 DEF Reviews!Base
      <4>2. f \in Affected(r) /\ canon[f].claims = review[r].shown[f].claims
        <5>1. f \in Affected(r) /\ Before(r, f) = {}
          BY <1>5, <2>5, <3>1, <3>4
        <5>2. Put(r, f) = {}
          BY <2>3, <5>1
        <5>3. canon[f].claims = review[r].shown[f].claims \cup Put(r, f)
          BY <2>2, <5>1
        <5> QED  BY <5>1, <5>2, <5>3
      <4>3. setting.ownerWaits => canon[f] = review[r].shown[f]
        <5>1. canon[f] \in Reviews!Documents /\ review[r].shown[f] \in Reviews!Documents
          BY <1>6, <3>1
        <5> QED  BY <2>2, <4>2, <5>1, SameDocument
      <4> QED  BY <4>1, <4>2, <4>3 DEF AsShown
    <3> QED  BY <3>2, <3>3, <3>4
  <2>6. \A f \in Targets[Reviews!Item(r)] : Reviews!Current(r, base, f).claims = review[r].shown[f].claims \cup Before(r, f)
    BY <1>5, <2>4, <2>5, CurrentFields DEF AsShown
  <2>7. CASE fits
    <3> DEFINE new == [review[r] EXCEPT !.at = "write", !.base = base, !.todo = Targets[Reviews!Item(r)]]
    <3>1. review' = [review EXCEPT ![r] = new]
      BY <1>8, <2>7 DEF Reviews!Plan
    <3> HIDE DEF base
    <3>2. new \in Reviewing
      BY <1>5, <1>6, <2>4 DEF Reviewing, Places, Reviews!Inside
    <3>3. /\ new.at = "write" /\ new.way = review[r].way /\ new.act = review[r].act /\ new.items = review[r].items
          /\ new.k = review[r].k /\ new.shown = review[r].shown /\ new.base = base
          /\ new.todo = Targets[Reviews!Item(r)] /\ new.written = review[r].written /\ new.found = review[r].found
      BY <1>6 DEF Reviewing
    <3> HIDE DEF new
    <3>4. OnlyReview(r) /\ review'[r] = new
      BY <1>6, <3>1, <3>2 DEF OnlyReview
    <3>5. SameTask(r) /\ review'[r].k = review[r].k
      BY <3>3, <3>4 DEF SameTask
    <3>6. /\ Reviews!Items(r)' = Reviews!Items(r) /\ Affected(r)' = Affected(r) /\ Firm(r)' = Firm(r)
          /\ Reviews!Item(r)' = Reviews!Item(r) /\ Reviews!Earlier(r)' = Reviews!Earlier(r)
          /\ Reviews!Touched(r)' = Reviews!Touched(r)
      BY <3>5, DerivedFields
    <3>7. \A f : Before(r, f)' = Before(r, f)
      BY <3>6 DEF Before
    <3>8. Effect(r)
      BY <1>1, <1>2, <1>4, <3>3, <3>4, <3>5, RecordEffect
    <3>9. WayOf(r)'
      BY <1>1, <1>2, <1>3, <1>8, <3>3, <3>4, <3>5, <3>6
      DEF WayOf, SameTask, Working, Reviews!Inside, Reviews!Recording, Reviews!Ended
    <3>10. ShownOf(r)'
      BY <1>2, <3>3, <3>4, <3>5, ShownKept
    <3>11. DocumentsOf(r)'
      <4>1. Reached(r)' = Targets[Reviews!Item(r)] /\ Changed(r)' = {} /\ \A f : Put(r, f)' = Put(r, f)
        BY <2>3, <3>3, <3>4, <3>6, <3>7 DEF Reached, Changed, Put
      <4>2. \A f \in Reviews!Touched(r) \cup Targets[Reviews!Item(r)] : AsShown(r, review[r].base, f)'
        BY <2>5, <3>3, <3>4 DEF AsShown
      <4>3. \A f \in Targets[Reviews!Item(r)] : Reviews!Plannable(Reviews!Item(r), review[r].shown[f].claims \cup Before(r, f))'
        BY <2>6, <2>7, <3>3, <3>4, <3>6, <3>7 DEF Reviews!Plannable
      <4> QED  BY <1>1, <2>2, <2>3, <3>3, <3>4, <3>6, <3>7, <4>1, <4>2, <4>3 DEF DocumentsOf, Undoing
    <3>12. ReceiptsOf(r)'
      <4>1. By(r)' = By(r) /\ By(r) = Reviews!Earlier(r)
        BY <1>1, <1>2, <1>3 DEF By, ReceiptsOf, Decided, Working
      <4> QED  BY <3>3, <3>4, <3>6, <4>1 DEF ReceiptsOf, Decided, Reviews!Ended
    <3>13. ItemsOf(r)'
      <4> SUFFICES ASSUME NEW p \in Reviews!Items(r) \ cut PROVE ItemOf(r, p)'
        BY <1>1, <3>6 DEF ItemsOf
      <4>1. ItemOf(r, p)
        BY <1>2, <1>3 DEF ItemsOf
      <4> QED  BY <1>1, <3>3, <3>4, <3>6, <4>1 DEF ItemOf, Steady, Undoing
    <3>14. Working(r)' /\ Approves(r)'
      BY <1>3, <1>8, <3>3, <3>4, <3>6 DEF Working, Approves, Reviews!Inside
    <3> QED  BY <3>8, <3>9, <3>10, <3>11, <3>12, <3>13, <3>14, ReviewStepOf DEF ReviewPart
  <2>8. CASE ~fits
    <3>1. Reviews!Goto(r, "restore")
      BY <1>8, <2>8 DEF Reviews!Plan
    <3>2. OnlyReview(r) /\ SameTask(r) /\ SameMemory(r) /\ review'[r].at = "restore"
      BY <1>2, <3>1, GotoFields DEF Places, Reviews!Inside
    <3>3. review[r].way # "alone"
      <4> SUFFICES ASSUME review[r].way = "alone", NEW f \in Targets[Reviews!Item(r)]
                   PROVE  Reviews!Plannable(Reviews!Item(r), Reviews!Current(r, base, f).claims)
        BY <2>8
      <4>1. f \in Files /\ Before(r, f) = {}
        BY <1>5
      <4>2. Reviews!Plannable(Reviews!Item(r), review[r].shown[f].claims)
        BY <1>2, <1>5, <1>8, <4>1 DEF ShownOf
      <4> QED  BY <2>6, <4>1, <4>2
    <3>4. DocumentsOf(r)'
      BY <1>1, <1>2, <1>3, <3>2, <3>3, DocumentsToRestore
    <3>5. \A p \in Reviews!Items(r) \ cut : ItemOf(r, p)'
      BY <1>1, <1>2, <1>3, <3>2, ItemUnsettled DEF ItemsOf, Steady, Undoing, SameMemory
    <3> QED  BY <1>1, <1>2, <1>3, <1>4, <3>2, <3>4, <3>5, FirmRecordStep DEF Reviews!Inside, Steady, Undoing
  <2> QED  BY <2>7, <2>8
<1> QED  BY <1>7, <1>8

LEMMA ClaimsReplaced ==
    ASSUME NEW d \in Reviews!Documents, NEW S
    PROVE  [d EXCEPT !.claims = S] = [claims |-> S, edits |-> d.edits]
  BY DEF Reviews!Documents

(* The document that is written next. *)
LEMMA DocumentWritten ==
    ASSUME ReviewInv, NEW r \in Reviewers, review[r].at = "write", NEW f \in review[r].todo,
           canon' = [canon EXCEPT ![f] =
               [Reviews!Current(r, review[r].base, f) EXCEPT !.claims = @ \cup {Reviews!Item(r)}]]
    PROVE  /\ Approves(r) /\ f \in Targets[Reviews!Item(r)] /\ f \in Affected(r) /\ f \in Files
           /\ canon' \in [Files -> Reviews!Documents] /\ \A g \in Files \ {f} : canon'[g] = canon[g]
           /\ canon'[f].claims = canon[f].claims \cup {Reviews!Item(r)}
           /\ canon'[f].edits = review[r].base[f].edits
           /\ canon[f].claims = review[r].shown[f].claims \cup Before(r, f)
           /\ AsShown(r, review[r].base, f) /\ Put(r, f) = Before(r, f)
<1>1. review[r].at = "write"
  OBVIOUS
<1>2. review[r].at \in Reviews!Inside \ (Undoing \cup {"cleanup"})
  BY DEF Reviews!Inside, Reviews!Recording, Undoing
<1> USE ReviewAtWork
<1>4. review[r].act = "approved" /\ Approves(r) /\ Working(r)
  <2>1. review[r].act = "approved"
    BY <1>1, <1>2 DEF WayOf
  <2> QED  BY <1>2, <2>1, ApprovalIsFirm DEF Approves
<1>5. /\ Affected(r) \subseteq Files /\ Reviews!Item(r) \in Reviews!Items(r) /\ Targets[Reviews!Item(r)] \subseteq Affected(r)
      /\ Reviews!Items(r) \subseteq Reviews!Proposals
      /\ \A g \in Files : Before(r, g) \subseteq Reviews!Items(r)
  BY <1>2, ItemsFit
<1>6. /\ canon \in [Files -> Reviews!Documents] /\ review \in [Reviewers -> Reviewing] /\ review[r] \in Reviewing
      /\ review[r].base \in [Files -> Reviews!Documents]
  BY <1>2 DEF ReviewTypes, Reviewing
<1>7. /\ setting.ownerWaits => \A g \in Affected(r) : canon[g].edits = review[r].shown[g].edits
      /\ review[r].written = Reviews!Touched(r) \cup Changed(r)
      /\ \A g \in Affected(r) : canon[g].claims = review[r].shown[g].claims \cup Put(r, g)
      /\ \A g \in Reviews!Touched(r) \cup Reached(r) : AsShown(r, review[r].base, g)
      /\ review[r].todo \subseteq Targets[Reviews!Item(r)]
      /\ \A g \in Targets[Reviews!Item(r)] :
             Reviews!Plannable(Reviews!Item(r), review[r].shown[g].claims \cup Before(r, g))
  BY <1>1, <1>2, <1>4 DEF DocumentsOf, Undoing
<1>8. f \in Targets[Reviews!Item(r)] /\ f \in Affected(r) /\ f \in Files
  BY <1>5, <1>7
<1>9. AsShown(r, review[r].base, f) /\ Put(r, f) = Before(r, f)
  BY <1>1, <1>7, <1>8 DEF Reached, Changed, Put
(* The document as it is written. *)
<1> DEFINE text == [Reviews!Current(r, review[r].base, f) EXCEPT !.claims = @ \cup {Reviews!Item(r)}]
<1>10. /\ text \in Reviews!Documents
       /\ text.claims = canon[f].claims \cup {Reviews!Item(r)} /\ text.edits = review[r].base[f].edits
  <2>1. review[r].base[f] \in Reviews!Documents
    BY <1>6, <1>8
  <2>2. text = [claims |-> review[r].base[f].claims \cup Before(r, f) \cup {Reviews!Item(r)}, edits |-> review[r].base[f].edits]
    <3> DEFINE current == Reviews!Current(r, review[r].base, f)
    <3>1. current = [claims |-> review[r].base[f].claims \cup Before(r, f), edits |-> review[r].base[f].edits]
      BY <2>1, ClaimsReplaced DEF Reviews!Current, Before
    <3> HIDE DEF current
    <3>2. text = [current EXCEPT !.claims = @ \cup {Reviews!Item(r)}]
      BY DEF current
    <3>3. Before(r, f) \subseteq Reviews!Proposals
      BY <1>5, <1>8
    <3>4. current \in Reviews!Documents
      BY <2>1, <3>1, <3>3 DEF Reviews!Documents
    <3>5. text = [claims |-> current.claims \cup {Reviews!Item(r)}, edits |-> current.edits]
      BY <3>2, <3>4, ClaimsReplaced
    <3> QED  BY <3>1, <3>5
  <2> HIDE DEF text
  <2>3. Before(r, f) \subseteq Reviews!Proposals /\ Reviews!Item(r) \in Reviews!Proposals
    BY <1>5, <1>8
  <2>4. review[r].base[f].claims \cup Before(r, f) = canon[f].claims
    BY <1>7, <1>8, <1>9 DEF AsShown
  <2> QED  BY <2>1, <2>2, <2>3, <2>4 DEF Reviews!Documents
<1>11. canon' = [canon EXCEPT ![f] = text]
  OBVIOUS
<1> HIDE DEF text
<1>12. canon' \in [Files -> Reviews!Documents] /\ canon'[f] = text /\ \A g \in Files \ {f} : canon'[g] = canon[g]
  BY <1>6, <1>8, <1>10, <1>11
<1> QED  BY <1>4, <1>7, <1>8, <1>9, <1>10, <1>12

LEMMA ReviewWriteStep ==
    ASSUME ReviewInv, NEW r \in Reviewers, setting' = setting, Reviews!Write(r)
    PROVE  ReviewInv'
<1>1. review[r].at = "write" /\ UNCHANGED <<status, archives, receipts, holder, cut>>
  BY DEF Reviews!Write, Reviews!At
<1>2. review[r].at \in Reviews!Inside \ (Undoing \cup {"cleanup"})
  BY <1>1 DEF Reviews!Inside, Reviews!Recording, Undoing
<1> USE ReviewAtWork
<1>3. PICK f \in review[r].todo :
         /\ canon' = [canon EXCEPT ![f] =
                [Reviews!Current(r, review[r].base, f) EXCEPT !.claims = @ \cup {Reviews!Item(r)}]]
         /\ review' = [review EXCEPT
                ![r].todo = @ \ {f}, ![r].written = @ \cup {f},
                ![r].at = IF review[r].todo = {f} THEN "record" ELSE "write"]
  BY DEF Reviews!Write
<1>4. review[r].act = "approved" /\ Approves(r) /\ Working(r)
  <2>1. review[r].act = "approved"
    BY <1>1, <1>2 DEF WayOf
  <2> QED  BY <1>2, <2>1, ApprovalIsFirm DEF Approves
<1>5. /\ Affected(r) \subseteq Files /\ Reviews!Item(r) \in Reviews!Items(r) /\ Targets[Reviews!Item(r)] \subseteq Affected(r)
      /\ Reviews!Items(r) \subseteq Reviews!Proposals
      /\ \A g \in Files : Before(r, g) \subseteq Reviews!Items(r)
  BY <1>2, ItemsFit
<1>6. /\ canon \in [Files -> Reviews!Documents] /\ review \in [Reviewers -> Reviewing] /\ review[r] \in Reviewing
      /\ review[r].base \in [Files -> Reviews!Documents]
  BY <1>2 DEF ReviewTypes, Reviewing
<1>7. /\ setting.ownerWaits => \A g \in Affected(r) : canon[g].edits = review[r].shown[g].edits
      /\ review[r].written = Reviews!Touched(r) \cup Changed(r)
      /\ \A g \in Affected(r) : canon[g].claims = review[r].shown[g].claims \cup Put(r, g)
      /\ \A g \in Reviews!Touched(r) \cup Reached(r) : AsShown(r, review[r].base, g)
      /\ review[r].todo \subseteq Targets[Reviews!Item(r)]
      /\ \A g \in Targets[Reviews!Item(r)] :
             Reviews!Plannable(Reviews!Item(r), review[r].shown[g].claims \cup Before(r, g))
  BY <1>1, <1>2, <1>4 DEF DocumentsOf, Undoing
<1>8. /\ f \in Targets[Reviews!Item(r)] /\ f \in Affected(r) /\ f \in Files
       /\ AsShown(r, review[r].base, f) /\ Put(r, f) = Before(r, f)
       /\ canon'[f].claims = canon[f].claims \cup {Reviews!Item(r)}
       /\ canon'[f].edits = review[r].base[f].edits
       /\ canon' \in [Files -> Reviews!Documents] /\ \A g \in Files \ {f} : canon'[g] = canon[g]
  BY <1>1, <1>3, DocumentWritten
<1> DEFINE next == IF review[r].todo = {f} THEN "record" ELSE "write"
           new == [review[r] EXCEPT !.todo = @ \ {f}, !.written = @ \cup {f}, !.at = next]
<1>9. review' = [review EXCEPT ![r] = new]
  BY <1>3
<1>10. next \in {"record", "write"} /\ (next = "record" => review[r].todo = {f})
  OBVIOUS
<1> HIDE DEF next
<1>11. new \in Reviewing
  BY <1>6, <1>8, <1>10 DEF Reviewing, Places, Reviews!Inside
<1>12. /\ new.at = next /\ new.way = review[r].way /\ new.act = review[r].act /\ new.items = review[r].items
       /\ new.k = review[r].k /\ new.shown = review[r].shown /\ new.base = review[r].base
       /\ new.todo = review[r].todo \ {f} /\ new.written = review[r].written \cup {f} /\ new.found = review[r].found
  BY <1>6 DEF Reviewing
<1> HIDE DEF new
<1>13. OnlyReview(r) /\ review'[r] = new
  BY <1>6, <1>9, <1>11 DEF OnlyReview
<1>14. SameTask(r) /\ review'[r].k = review[r].k
  BY <1>12, <1>13 DEF SameTask
<1>15. /\ Reviews!Items(r)' = Reviews!Items(r) /\ Affected(r)' = Affected(r) /\ Firm(r)' = Firm(r)
       /\ Reviews!Item(r)' = Reviews!Item(r) /\ Reviews!Earlier(r)' = Reviews!Earlier(r)
       /\ Reviews!Touched(r)' = Reviews!Touched(r)
  BY <1>14, DerivedFields
<1>16. \A g : Before(r, g)' = Before(r, g)
  BY <1>15 DEF Before
<1>17. Effect(r)
  <2>1. ReviewTypes'
    BY <1>1, <1>2, <1>8, <1>13 DEF ReviewTypes, OnlyReview
  <2>2. ASSUME NEW g \in Files PROVE Fine(canon'[g].claims, g)
    <3>1. Fine(canon[g].claims, g)
      BY DEF ReviewInv
    <3>2. CASE g # f
      BY <1>8, <3>1, <3>2
    <3>3. CASE g = f
      <4>1. canon'[f].claims = canon[f].claims \cup {Reviews!Item(r)}
        BY <1>8
      <4>2. Reviews!Plannable(Reviews!Item(r), canon[f].claims)
        <5>1. canon[f].claims = review[r].shown[f].claims \cup Before(r, f)
          BY <1>7, <1>8
        <5> QED  BY <1>7, <1>8, <5>1
      <4>3. \A p \in canon[f].claims : {Reviews!Item(r), p} \notin Rivals /\ {p, Reviews!Item(r)} \notin Rivals
        <5>1. \A p : {p, Reviews!Item(r)} = {Reviews!Item(r), p}
          OBVIOUS
        <5> QED  BY <4>2, <5>1 DEF Reviews!Plannable
      <4>4. {Reviews!Item(r), Reviews!Item(r)} \notin Rivals
        <5>1. {Reviews!Item(r), Reviews!Item(r)} = {Reviews!Item(r)} /\ Reviews!Item(r) \in Inbox \cup Project
          BY <1>5 DEF Reviews!Proposals
        <5> QED  BY <5>1, ReviewsAssumption
      <4> QED  BY <1>8, <3>1, <3>3, <4>1, <4>3, <4>4 DEF Fine
    <3> QED  BY <3>2, <3>3
  <2>3. ASSUME NEW p \in Reviews!Proposals, p \notin Reviews!Items(r) PROVE SameOf(p)
    BY <1>1, <1>5, <1>8, <2>3 DEF SameOf, Reviews!HasReceipt
  <2>4. review'[r].at # "idle"
    BY <1>10, <1>12, <1>13
  <2> QED  BY <1>1, <1>4, <1>13, <1>14, <2>1, <2>2, <2>3, <2>4 DEF Effect, OnlyReview
<1>18. WayOf(r)'
  BY <1>1, <1>2, <1>4, <1>10, <1>12, <1>13, <1>14, <1>15
  DEF WayOf, SameTask, Working, Reviews!Inside, Reviews!Recording, Reviews!Ended
<1>19. ShownOf(r)'
  BY <1>2, <1>12, <1>13, <1>14, ShownKept
<1>20. DocumentsOf(r)'
  <2>1. Reached(r)' = Targets[Reviews!Item(r)] /\ Reached(r) = Targets[Reviews!Item(r)]
    BY <1>1, <1>10, <1>12, <1>13, <1>15 DEF Reached
  <2>2. Changed(r)' = Changed(r) \cup {f} /\ f \notin Changed(r)
    BY <1>8, <1>12, <1>13, <2>1 DEF Changed
  <2>3. ASSUME NEW g \in Affected(r)
        PROVE  /\ canon'[g].claims = review[r].shown[g].claims \cup Put(r, g)'
               /\ setting.ownerWaits => canon'[g].edits = review[r].shown[g].edits
    <3>1. CASE g = f
      <4>1. Put(r, f)' = Put(r, f) \cup {Reviews!Item(r)}
        BY <1>8, <1>15, <1>16, <2>2 DEF Put
      <4>2. canon'[f].claims = canon[f].claims \cup {Reviews!Item(r)}
        BY <1>8
      <4>3. canon[f].claims = review[r].shown[f].claims \cup Put(r, f)
        BY <1>7, <1>8
      <4>4. setting.ownerWaits => canon'[f].edits = review[r].shown[f].edits
        BY <1>8 DEF AsShown
      <4> QED  BY <3>1, <4>1, <4>2, <4>3, <4>4
    <3>2. CASE g # f
      <4>1. Put(r, g)' = Put(r, g)
        BY <1>15, <1>16, <2>2, <3>2 DEF Put
      <4>2. canon'[g] = canon[g]
        BY <1>5, <1>8, <2>3, <3>2
      <4> QED  BY <1>7, <2>3, <4>1, <4>2
    <3> QED  BY <3>1, <3>2
  <2>4. \A g : AsShown(r, review[r].base, g)' <=> AsShown(r, review[r].base, g)
    BY <1>12, <1>13 DEF AsShown
  <2>5. \A g \in Targets[Reviews!Item(r)] : Reviews!Plannable(Reviews!Item(r), review[r].shown[g].claims \cup Before(r, g))'
    BY <1>7, <1>12, <1>13, <1>15, <1>16 DEF Reviews!Plannable
  <2>6. /\ review'[r].written = Reviews!Touched(r)' \cup Changed(r)'
        /\ review'[r].at # "write" => review'[r].todo = {}
        /\ review'[r].todo \subseteq Targets[Reviews!Item(r)]
    BY <1>7, <1>10, <1>12, <1>13, <1>15, <2>2
  <2>7. review'[r].at \notin Undoing /\ review'[r].shown = review[r].shown
    BY <1>10, <1>12, <1>13 DEF Undoing
  <2> QED  BY <1>7, <1>15, <2>1, <2>3, <2>4, <2>5, <2>6, <2>7 DEF DocumentsOf, Undoing
<1>21. ReceiptsOf(r)'
  <2>1. By(r)' = By(r) /\ By(r) = Reviews!Earlier(r)
    BY <1>1, <1>2, <1>4 DEF By, ReceiptsOf, Decided, Working
  <2> QED  BY <1>10, <1>12, <1>13, <1>15, <2>1 DEF ReceiptsOf, Decided, Reviews!Ended
<1>22. ItemsOf(r)'
  <2> SUFFICES ASSUME NEW p \in Reviews!Items(r) \ cut PROVE ItemOf(r, p)'
    BY <1>1, <1>15 DEF ItemsOf
  <2>1. ItemOf(r, p)
    BY <1>2, <1>4 DEF ItemsOf
  <2> QED  BY <1>1, <1>10, <1>12, <1>13, <1>15, <2>1 DEF ItemOf, Steady, Undoing
<1>23. Working(r)' /\ Approves(r)'
  BY <1>4, <1>10, <1>12, <1>13, <1>15 DEF Working, Approves, Reviews!Inside
<1> QED  BY <1>17, <1>18, <1>19, <1>20, <1>21, <1>22, <1>23, ReviewStepOf DEF ReviewPart

LEMMA ValidatedStep ==
    ASSUME ReviewInv, NEW r \in Reviewers, setting' = setting, Reviews!Validated(r)
    PROVE  ReviewInv'
<1>1. review[r].at = "validate" /\ Reviews!Leave(r, "done") /\ UNCHANGED <<canon, status, archives, receipts, cut>>
  BY DEF Reviews!Validated, Reviews!At
<1>2. review[r].at \in Reviews!Inside \ (Undoing \cup {"cleanup"})
  BY <1>1 DEF Reviews!Inside, Reviews!Recording, Undoing
<1> USE ReviewAtWork
<1>3. review[r].act = "approved" /\ Approves(r) /\ Working(r)
  <2>1. review[r].act = "approved"
    BY <1>1, <1>2 DEF WayOf
  <2> QED  BY <1>2, <2>1, ApprovalIsFirm DEF Approves
<1>4. /\ Reviews!Items(r) = Reviews!Earlier(r) \cup {Reviews!Item(r)} /\ Reviews!Items(r) \subseteq Reviews!Proposals
      /\ Affected(r) \subseteq Files
  BY <1>1, <1>2, ItemsFit DEF WayOf
<1>5. By(r) = Reviews!Items(r) /\ By(r)' = By(r)
  BY <1>1, <1>2, <1>3, <1>4 DEF ReceiptsOf, Decided, By, Working
<1>6. OnlyReview(r) /\ SameTask(r) /\ review'[r].at = "done" /\ holder' = IF holder = r THEN None ELSE holder
  BY <1>1, <1>2, LeaveFields DEF Places, Reviews!Ended
<1>7. Effect(r)
  BY <1>1, <1>2, <1>6, QuietEffect DEF ReviewTypes
<1>8. ReviewPart(r)'
  BY <1>1, <1>2, <1>5, LeavePart DEF Reviews!Ended
<1>9. ASSUME NEW p \in Reviews!Items(r) \ cut PROVE Applied(p) /\ (p \in Project => status[p] # "pending")
  <2>1. ItemOf(r, p) /\ Steady(r)
    BY <1>1, <1>2, <1>3 DEF ItemsOf, Steady, Undoing
  <2>2. <<p, "approved">> \in archives
    BY <1>1, <1>3, <1>4, <2>1 DEF ItemOf
  <2>3. Reviews!HasReceipt(p, "approved")
    <3>1. PICK x \in receipts : x.by = r /\ x.proposal = p
      BY <1>5 DEF By
    <3>2. x.decision = "approved"
      BY <1>3, <3>1, SlipOf
    <3> QED  BY <3>1, <3>2 DEF Reviews!HasReceipt
  <2>4. ASSUME NEW f \in Targets[p] PROVE p \in canon[f].claims
    <3>1. f \in Affected(r)
      BY <1>9 DEF Affected
    <3>2. canon[f].claims = review[r].shown[f].claims \cup Put(r, f) /\ review[r].todo = {}
      BY <1>1, <1>2, <1>3, <3>1 DEF DocumentsOf, Undoing
    <3>3. p \in Put(r, f)
      BY <1>1, <1>4, <2>4, <3>2 DEF Put, Before, Changed, Reached
    <3> QED  BY <3>2, <3>3
  <2>5. p \in Project => status[p] # "pending"
    BY <1>1, <1>4, <2>1 DEF ItemOf
  <2> QED  BY <2>2, <2>3, <2>4, <2>5 DEF Applied
<1>10. \A p \in Reviews!Items(r) \ cut' : Applied(p)'
  <2>1. \A p : Applied(p)' <=> Applied(p)
    BY <1>1 DEF Applied, Reviews!HasReceipt
  <2> QED  BY <1>1, <1>9, <2>1
<1> QED  BY <1>1, <1>7, <1>8, <1>9, <1>10, ReviewStepOf

(* Nothing has been written when proposals are declined. *)
LEMMA DeclineRestored ==
    ASSUME ReviewInv, NEW r \in Reviewers, UNCHANGED <<setting, canon, cut, archives, receipts, status>>,
           review[r].at = "restore", Working(r), review[r].act # "approved",
           OnlyReview(r), SameTask(r), SameMemory(r), review'[r].at = "unrecord", holder' = holder
    PROVE  ReviewInv'
<1>1. review[r].at \in Reviews!Inside
  BY DEF Reviews!Inside
<1>2. Reviews!Items(r)' = Reviews!Items(r) /\ Firm(r)' = Firm(r)
  BY DerivedFields
<1>3. Effect(r)
  BY <1>1, ReviewAtWork, NothingRecorded, RecordEffect
<1>4. WayOf(r)'
  BY <1>1, ReviewAtWork, WayStays DEF Reviews!Inside
<1>5. ShownOf(r)'
  BY <1>1, ReviewAtWork, ShownKept DEF SameMemory
<1>6. DocumentsOf(r)' /\ ReceiptsOf(r)'
  BY DEF DocumentsOf, Approves, SameTask, ReceiptsOf, Undoing
<1>7. ItemsOf(r)'
  BY <1>1, <1>2, ReviewAtWork, ItemUnsettled DEF ItemsOf, Steady, Undoing, SameMemory
<1>8. Working(r)' /\ ~Approves(r)
  BY <1>2 DEF Working, Approves, Reviews!Inside
<1> QED  BY <1>3, <1>4, <1>5, <1>6, <1>7, <1>8, ReviewStepOf DEF ReviewPart

(* A rollback has put the documents back, as they were shown. *)
LEMMA ReviewRestoreStep ==
    ASSUME ReviewInv, NEW r \in Reviewers, setting' = setting, Reviews!Restore(r)
    PROVE  ReviewInv'
<1>1. review[r].at = "restore" /\ UNCHANGED <<status, archives, receipts>>
  BY DEF Reviews!Restore, Reviews!At
<1>2. review[r].at \in Reviews!Inside /\ review[r].at \notin Deciding
  BY <1>1 DEF Reviews!Inside, Reviews!Recording, Deciding
<1> USE ReviewAtWork
<1>3. PICK bad \in SUBSET Reviews!Restorable(r) :
         /\ canon' = [f \in Files |->
                IF f \in Reviews!Restorable(r) \ bad THEN review[r].base[f] ELSE canon[f]]
         /\ cut' = IF bad = {} THEN cut ELSE cut \cup Reviews!Items(r)
         /\ IF review[r].way = "alone" /\ bad # {} THEN Reviews!Leave(r, "failed")
            ELSE Reviews!Goto(r, "unrecord") /\ holder' = holder
  BY DEF Reviews!Restore, Reviews!Spoil
<1>4. Working(r)
  BY <1>1, <1>2 DEF WayOf, Reviews!Recording, Reviews!Ended
<1>5. /\ Affected(r) \subseteq Files /\ Reviews!Items(r) \subseteq Reviews!Proposals /\ Reviews!Item(r) \in Reviews!Items(r)
      /\ review[r].way = "alone" => review[r].act = "approved"
  BY <1>2, ItemsFit
<1>6. /\ canon \in [Files -> Reviews!Documents] /\ review \in [Reviewers -> Reviewing] /\ review[r] \in Reviewing
      /\ review[r].base \in [Files -> Reviews!Documents] /\ cut \subseteq Reviews!Proposals
  BY <1>2 DEF ReviewTypes, Reviewing
<1>7. /\ OnlyReview(r) /\ SameTask(r) /\ review'[r].at \in {"failed", "unrecord"}
      /\ review'[r].at = "unrecord" => SameMemory(r) /\ holder' = holder
      /\ \A q \in Reviewers \ {r} : holder = q => holder' = q
  <2>1. CASE review[r].way = "alone" /\ bad # {}
    BY <1>2, <1>3, <2>1, LeaveFields DEF Places, Reviews!Ended
  <2>2. CASE ~(review[r].way = "alone" /\ bad # {})
    BY <1>2, <1>3, <2>2, GotoFields DEF Places, Reviews!Inside
  <2> QED  BY <2>1, <2>2
<1>8. CASE review[r].act # "approved"
  <2>1. Reviews!Restorable(r) = {}
    BY <1>2, <1>4, <1>5, <1>8 DEF Reviews!Restorable, WayOf, Working
  <2>2. canon' = canon /\ cut' = cut
    BY <1>3, <1>6, <2>1
  <2>3. review'[r].at = "unrecord"
    <3>1. Reviews!Goto(r, "unrecord")
      BY <1>3, <2>1
    <3> QED  BY <1>2, <3>1, GotoFields DEF Places, Reviews!Inside
  <2> QED  BY <1>1, <1>4, <1>7, <1>8, <2>2, <2>3, DeclineRestored
<1>9. CASE review[r].act = "approved"
  <2>1. Approves(r)
    BY <1>4, <1>9 DEF Approves
  <2>2. /\ Reviews!Restorable(r) \subseteq Affected(r)
        /\ \A f \in Reviews!Restorable(r) : review[r].base[f].claims = review[r].shown[f].claims
        /\ \A f \in Affected(r) :
              /\ review[r].shown[f].claims \subseteq canon[f].claims
              /\ canon[f].claims \subseteq review[r].shown[f].claims \cup Reviews!Items(r)
              /\ f \notin Reviews!Restorable(r) => canon[f].claims = review[r].shown[f].claims
    BY <1>1, <1>2, <2>1 DEF DocumentsOf, AsShown
  <2>3. \A f \in Files :
           /\ Fine(review[r].shown[f].claims, f)
           /\ review[r].shown[f].claims \cap Reviews!Items(r) = {}
    BY <1>1, <1>2, <1>9 DEF ShownOf
  <2>4. ASSUME NEW f \in Files
        PROVE  /\ canon'[f] \in Reviews!Documents /\ Fine(canon'[f].claims, f)
               /\ \A p : p \notin Reviews!Items(r) => (p \in canon'[f].claims <=> p \in canon[f].claims)
    <3>1. canon'[f] = IF f \in Reviews!Restorable(r) \ bad THEN review[r].base[f] ELSE canon[f]
      BY <1>3
    <3>2. CASE f \in Reviews!Restorable(r) \ bad
      <4>1. canon'[f] = review[r].base[f] /\ canon'[f].claims = review[r].shown[f].claims
        BY <2>2, <3>1, <3>2
      <4>2. f \in Affected(r)
        BY <2>2, <3>2
      <4> QED  BY <1>6, <2>2, <2>3, <4>1, <4>2
    <3>3. CASE f \notin Reviews!Restorable(r) \ bad
      BY <1>6, <3>1, <3>3 DEF ReviewInv
    <3> QED  BY <3>2, <3>3
  <2>5. cut \subseteq cut' /\ cut' \subseteq Reviews!Proposals
    BY <1>3, <1>5, <1>6
  <2>6. ReviewTypes'
    <3>1. canon' \in [Files -> Reviews!Documents]
      BY <1>3, <2>4
    <3> QED  BY <1>1, <1>2, <1>7, <2>5, <3>1 DEF ReviewTypes, OnlyReview
  <2>7. ASSUME NEW p \in Reviews!Proposals, p \notin Reviews!Items(r) PROVE SameOf(p)
    BY <1>1, <2>4, <2>7 DEF SameOf, Reviews!HasReceipt
  <2>8. Effect(r)
    BY <1>1, <1>4, <1>7, <2>1, <2>4, <2>5, <2>6, <2>7 DEF Effect, OnlyReview
  <2>9. ASSUME bad = {}, NEW p \in Reviews!Items(r), NEW f \in Files PROVE p \notin canon'[f].claims
    <3>1. CASE f \in Affected(r)
      <4>1. canon'[f].claims = review[r].shown[f].claims
        BY <1>3, <2>2, <2>9, <3>1
      <4> QED  BY <2>3, <4>1
    <3>2. CASE f \notin Affected(r)
      <4>1. f \notin Targets[p]
        BY <3>2 DEF Affected
      <4> QED  BY <2>4, <4>1 DEF Fine
    <3> QED  BY <3>1, <3>2
  <2>10. CASE review'[r].at = "failed"
    <3>1. review[r].way = "alone" /\ bad # {} /\ Reviews!Leave(r, "failed")
      <4>1. ASSUME Reviews!Goto(r, "unrecord") PROVE review'[r].at = "unrecord"
        BY <1>2, <4>1, GotoFields DEF Places, Reviews!Inside
      <4> QED  BY <1>3, <2>10, <4>1
    <3>2. Reviews!Items(r) \subseteq cut' /\ Reviews!Items(r) \cap cut' # {}
      BY <1>3, <1>5, <3>1
    <3>3. ReviewPart(r)'
      BY <1>2, <3>1, <3>2, LeavePart DEF Reviews!Ended
    <3> QED  BY <2>8, <3>2, <3>3, ReviewStepOf
  <2>11. CASE review'[r].at = "unrecord"
    <3>1. SameMemory(r) /\ holder' = holder
      BY <1>7, <2>11
    <3>2. Reviews!Items(r)' = Reviews!Items(r) /\ Firm(r)' = Firm(r)
      BY <1>7, DerivedFields
    <3>3. WayOf(r)'
      BY <1>2, <1>4, <1>7, <2>11, <3>1, WayStays DEF Reviews!Inside
    <3>4. ShownOf(r)'
      BY <1>2, <1>7, <3>1, ShownKept DEF SameMemory
    <3>5. \A p \in Reviews!Items(r) \ cut', f \in Files : p \notin canon'[f].claims
      BY <1>3, <2>9
    <3>6. DocumentsOf(r)'
      BY <2>11, <3>2, <3>5 DEF DocumentsOf, Undoing
    <3>7. ReceiptsOf(r)'
      BY <2>11 DEF ReceiptsOf, Undoing
    <3>8. ItemsOf(r)'
      BY <1>1, <1>2, <1>4, <1>7, <2>5, <2>11, <3>1, <3>2, ItemUnsettled DEF ItemsOf, Steady, Undoing, SameMemory
    <3>9. Working(r)' /\ Approves(r)'
      BY <1>4, <1>7, <1>9, <2>11, <3>2 DEF Working, Approves, Reviews!Inside, SameTask
    <3> QED  BY <2>8, <3>3, <3>4, <3>6, <3>7, <3>8, <3>9, ReviewStepOf DEF ReviewPart
  <2> QED  BY <1>7, <2>10, <2>11
<1> QED  BY <1>8, <1>9

(* A rollback has put the proposals back. *)
LEMMA UnrecordStep ==
    ASSUME ReviewInv, NEW r \in Reviewers, setting' = setting, Reviews!Unrecord(r)
    PROVE  ReviewInv'
<1>1. review[r].at = "unrecord" /\ canon' = canon /\ Reviews!Leave(r, "failed")
  BY DEF Reviews!Unrecord, Reviews!At
<1>2. review[r].at \in Reviews!Inside
  BY <1>1 DEF Reviews!Inside
<1> USE ReviewAtWork
<1> DEFINE taken(bad) == {<<p, review[r].act>> : p \in Reviews!Items(r) \ bad}
<1>3. PICK bad \in SUBSET Reviews!Items(r) :
         /\ status' = [p \in Reviews!Proposals |->
                IF p \in Reviews!Items(r) \ bad THEN review[r].old[p] ELSE status[p]]
         /\ archives' = archives \ (taken(bad) \ review[r].found.archives)
         /\ receipts' = {x \in receipts :
                <<x.proposal, x.decision>> \in taken(bad) => x \in review[r].found.receipts}
         /\ cut' = IF bad = {} THEN cut ELSE cut \cup Reviews!Items(r)
  BY DEF Reviews!Unrecord, Reviews!Spoil
<1>4. Working(r)
  BY <1>1, <1>2 DEF WayOf, Reviews!Recording, Reviews!Ended
<1>5. Reviews!Items(r) \subseteq Reviews!Proposals /\ \A p \in Reviews!Items(r) : FirmRecord(p, review[r].act)
  BY <1>2, <1>4, ItemsFit DEF Working
<1>6. /\ review[r] \in Reviewing /\ review[r].old \in [Reviews!Proposals -> Reviews!Statuses]
      /\ status \in [Reviews!Proposals -> Reviews!Statuses] /\ cut \subseteq Reviews!Proposals
  BY <1>2 DEF ReviewTypes, Reviewing
<1>7. /\ OnlyReview(r) /\ SameTask(r) /\ review'[r].at = "failed" /\ holder' = IF holder = r THEN None ELSE holder
  BY <1>1, <1>2, LeaveFields DEF Places, Reviews!Ended
<1>8. \A p, d : <<p, d>> \in taken(bad) <=> p \in Reviews!Items(r) \ bad /\ d = review[r].act
  OBVIOUS
<1> HIDE DEF taken
<1>9. cut \subseteq cut' /\ cut' \subseteq Reviews!Proposals /\ (Reviews!Items(r) \ cut' # {} => bad = {} /\ cut' = cut)
  BY <1>3, <1>5, <1>6
<1>10. Effect(r)
  <2>1. status' \in [Reviews!Proposals -> Reviews!Statuses]
    BY <1>3, <1>6
  <2>2. archives' \subseteq Entries /\ receipts' \subseteq receipts /\ receipts' \subseteq Slips
    BY <1>2, <1>3 DEF ReviewTypes
  <2>3. ReviewTypes'
    BY <1>1, <1>2, <1>7, <1>9, <2>1, <2>2 DEF ReviewTypes, OnlyReview
  <2>4. \A f \in Files : Fine(canon'[f].claims, f)
    BY <1>1 DEF ReviewInv
  <2>5. ASSUME NEW p \in Reviews!Proposals, ~(Approves(r) /\ p \in Reviews!Items(r)) PROVE SameOf(p)
    <3>1. <<p, "approved">> \notin taken(bad)
      BY <1>4, <1>8, <2>5 DEF Approves
    <3>2. <<p, "approved">> \in archives' <=> <<p, "approved">> \in archives
      BY <1>3, <3>1
    <3>3. ASSUME NEW x, x.proposal = p, x.decision = "approved" PROVE x \in receipts' <=> x \in receipts
      BY <1>3, <3>1, <3>3
    <3> QED  BY <1>1, <3>2, <3>3 DEF SameOf, Reviews!HasReceipt
  <2>6. ASSUME NEW p \in Project, p \notin Reviews!Items(r) PROVE status'[p] = status[p]
    BY <1>3, <2>6 DEF Reviews!Proposals
  <2>7. \A x \in receipts \ receipts' : x.proposal \in Reviews!Items(r) /\ x.decision = review[r].act
    BY <1>3, <1>8
  <2> QED  BY <1>1, <1>2, <1>4, <1>7, <1>9, <2>2, <2>3, <2>4, <2>5, <2>6, <2>7 DEF Effect, OnlyReview
<1>11. ASSUME NEW p \in Reviews!Items(r) \ cut', NEW x \in receipts', x.proposal = p
       PROVE  x.decision # review[r].act /\ ~FirmRecord(p, x.decision) /\ x.by # r
  <2>1. bad = {} /\ p \in Reviews!Items(r) \ cut /\ x \in receipts
    BY <1>3, <1>9
  <2>2. ItemOf(r, p)
    BY <1>2, <1>4, <2>1 DEF ItemsOf
  <2>3. x.decision # review[r].act
    BY <1>3, <1>8, <1>11, <2>1, <2>2 DEF ItemOf
  <2>4. x.by # r
    BY <2>1, <2>3, SlipOf
  <2> QED  BY <1>11, <2>1, <2>2, <2>3, <2>4 DEF ItemOf
<1>12. Reviews!Items(r) \cap cut' = {} => By(r)' = {}
  <2> SUFFICES ASSUME Reviews!Items(r) \cap cut' = {}, NEW x \in receipts', x.by = r PROVE FALSE
    BY DEF By
  <2>1. x \in receipts
    BY <1>3
  <2>2. x.proposal \in Reviews!Items(r)
    BY <2>1, SlipOf
  <2> QED  BY <1>11, <2>2
<1>13. ReviewPart(r)'
  BY <1>1, <1>2, <1>12, LeavePart DEF Reviews!Ended
<1>14. ASSUME NEW p \in Reviews!Items(r) \ cut', Approves(r) PROVE NotApplied(p)'
  <2>1. bad = {} /\ p \in Reviews!Items(r) \ cut
    BY <1>9
  <2>2. \A f \in Files : p \notin canon'[f].claims
    BY <1>1, <1>2, <1>14, <2>1 DEF DocumentsOf
  <2>3. ItemOf(r, p) /\ review[r].act = "approved"
    BY <1>2, <1>4, <1>14, <2>1 DEF ItemsOf, Approves
  <2>4. <<p, "approved">> \notin archives'
    BY <1>3, <1>8, <2>1, <2>3 DEF ItemOf
  <2>5. ~Reviews!HasReceipt(p, "approved")'
    BY <1>11, <2>3 DEF Reviews!HasReceipt
  <2> QED  BY <2>2, <2>4, <2>5 DEF NotApplied
<1>15. ASSUME NEW x \in receipts', x.proposal \in Reviews!Items(r), x.proposal \in Project \ cut', x.decision # "superseded"
       PROVE  FALSE
  BY <1>11, <1>15 DEF FirmRecord
<1> QED  BY <1>10, <1>13, <1>14, <1>15, ReviewStepOf

(* The owner waits, or the reviewer has not counted on it. *)
LEMMA OwnerEditStep ==
    ASSUME ReviewInv, NEW f \in Files, setting' = setting, Reviews!OwnerEdit(f)
    PROVE  ReviewInv'
<1>1. /\ canon[f].edits < MaxEdits /\ (setting.ownerWaits => holder = None)
      /\ canon' = [canon EXCEPT ![f].edits = @ + 1]
      /\ UNCHANGED <<status, archives, receipts, holder, review, cut>>
  BY DEF Reviews!OwnerEdit
<1>2. ReviewTypes /\ canon \in [Files -> Reviews!Documents]
  BY DEF ReviewInv, ReviewTypes
<1>3. /\ canon' \in [Files -> Reviews!Documents]
      /\ \A g \in Files : canon'[g].claims = canon[g].claims
  <2> DEFINE text == [canon[f] EXCEPT !.edits = @ + 1]
  <2>1. canon[f] \in Reviews!Documents
    BY <1>2
  <2>2. text \in Reviews!Documents /\ text.claims = canon[f].claims
    BY <1>1, <2>1, ReviewsAssumption DEF Reviews!Documents
  <2>3. canon' = [canon EXCEPT ![f] = text]
    BY <1>1
  <2> HIDE DEF text
  <2> QED  BY <1>2, <2>2, <2>3
<1>4. ReviewTypes'
  BY <1>1, <1>2, <1>3 DEF ReviewTypes
<1>5. \A g \in Files : Fine(canon'[g].claims, g)
  BY <1>3 DEF ReviewInv
<1>6. \A p \in Reviews!Proposals : Targets[p] \subseteq Files
  BY ReviewsAssumption DEF Reviews!Proposals
<1>7. Reviews!ApprovedIffApplied'
  <2> SUFFICES ASSUME NEW p \in Reviews!Proposals, Reviews!Whole(p)'
               PROVE  Applied(p)' \/ NotApplied(p)'
    BY DEF Reviews!ApprovedIffApplied, Applied, NotApplied
  <2>1. Reviews!Whole(p)
    BY <1>1 DEF Reviews!Whole, Reviews!Approving, Reviews!At, Reviews!Items
  <2>2. Applied(p) \/ NotApplied(p)
    BY <2>1 DEF ReviewInv, Reviews!ApprovedIffApplied, Applied, NotApplied
  <2> QED  BY <1>1, <1>3, <1>6, <2>2 DEF Applied, NotApplied, Reviews!HasReceipt
<1>8. ReceiptsStand'
  BY <1>1 DEF ReviewInv, ReceiptsStand, Reviews!Items, Working, Firm
<1>9. ASSUME NEW r \in Reviewers PROVE ReviewPart(r)'
  <2>1. ReviewPart(r)
    BY DEF ReviewInv
  <2>2. /\ review'[r] = review[r] /\ holder' = holder /\ Reviews!Items(r)' = Reviews!Items(r)
        /\ Reviews!Item(r)' = Reviews!Item(r) /\ Reviews!Earlier(r)' = Reviews!Earlier(r)
        /\ By(r)' = By(r) /\ Decided(r)' = Decided(r) /\ Firm(r)' = Firm(r) /\ Steady(r)' = Steady(r)
    BY <1>1 DEF Reviews!Items, Reviews!Item, Reviews!Earlier, By, Decided, Firm, Steady
  <2>3. /\ WayOf(r)' /\ ShownOf(r)' /\ ReceiptsOf(r)' /\ ItemsOf(r)'
    <3>1. WayOf(r) /\ ShownOf(r) /\ ReceiptsOf(r) /\ ItemsOf(r)
      BY <2>1 DEF ReviewPart
    <3>2. WayOf(r)'
      BY <2>2, <3>1 DEF WayOf
    <3>3. ShownOf(r)'
      BY <2>2, <3>1 DEF ShownOf, Fine, Reviews!Plannable
    <3>4. ReceiptsOf(r)'
      BY <1>1, <2>2, <3>1 DEF ReceiptsOf
    <3>5. ItemsOf(r)'
      BY <1>1, <2>2, <3>1 DEF ItemsOf, ItemOf, Working
    <3> QED  BY <3>2, <3>3, <3>4, <3>5
  <2>4. DocumentsOf(r)'
    <3> SUFFICES ASSUME Approves(r) PROVE DocumentsOf(r)'
      BY <1>1 DEF DocumentsOf, Approves, Working, Firm
    <3>1. ~setting.ownerWaits
      BY <1>1, <2>1, ReviewsAssumption DEF Approves, Working, ReviewPart, WayOf
    <3>2. Affected(r) \subseteq Files
      BY <1>2, <2>1, ItemsFit DEF ReviewPart, Approves, Working, Reviews!Inside, Reviews!Recording
    <3>3. DocumentsOf(r)
      BY <2>1 DEF ReviewPart
    <3>4. Affected(r)' = Affected(r) /\ Reviews!Items(r)' = Reviews!Items(r) /\ Reviews!Item(r)' = Reviews!Item(r)
          /\ Reviews!Touched(r)' = Reviews!Touched(r) /\ Reached(r)' = Reached(r) /\ Changed(r)' = Changed(r)
          /\ Reviews!Restorable(r)' = Reviews!Restorable(r)
      BY <1>1 DEF Affected, Reviews!Items, Reviews!Item, Reviews!Touched, Reviews!Earlier, Reached, Changed, Reviews!Restorable
    <3>5. \A g : Before(r, g)' = Before(r, g) /\ Put(r, g)' = Put(r, g) /\ (AsShown(r, review[r].base, g)' <=> AsShown(r, review[r].base, g))
      BY <1>1, <3>4 DEF Before, Put, AsShown, Reviews!Earlier
    <3> QED  BY <1>1, <1>3, <3>1, <3>2, <3>3, <3>4, <3>5 DEF DocumentsOf, Reviews!Plannable
  <2> QED  BY <2>3, <2>4 DEF ReviewPart
<1> QED  BY <1>4, <1>5, <1>7, <1>8, <1>9 DEF ReviewInv

LEMMA ReviewInit == Reviews!Init => ReviewInv
<1> SUFFICES ASSUME Reviews!Init PROVE ReviewInv
  OBVIOUS
<1>1. /\ setting \in Settings /\ canon = Reviews!Blank /\ status = [p \in Reviews!Proposals |-> "pending"]
      /\ archives = {} /\ receipts = {} /\ cut = {}
      /\ review = [r \in Reviewers |-> Reviews!Fresh]
  BY DEF Reviews!Init
<1>2. ReviewTypes
  BY <1>1, BlankType, FreshType DEF ReviewTypes, Reviews!Statuses
<1>3. \A f \in Files : canon[f].claims = {}
  BY <1>1 DEF Reviews!Blank
<1>4. Reviews!ApprovedIffApplied
  BY <1>1, <1>3 DEF Reviews!ApprovedIffApplied, Reviews!HasReceipt
<1>5. ASSUME NEW r \in Reviewers PROVE ReviewPart(r)
  <2>1. /\ review[r].at = "idle" /\ review[r].way = "none" /\ review[r].found.archives = {} /\ review[r].found.receipts = {}
        /\ review[r].written = {}
    BY <1>1 DEF Reviews!Fresh
  <2> QED  BY <2>1 DEF ReviewPart, WayOf, ShownOf, DocumentsOf, ReceiptsOf, ItemsOf, Approves, Working, Firm
<1> QED  BY <1>1, <1>2, <1>3, <1>4, <1>5 DEF ReviewInv, Fine, ReceiptsStand

LEMMA ReviewNext ==
    ASSUME ReviewInv, Reviews!Next
    PROVE  ReviewInv'
<1>1. setting' = setting
  BY DEF Reviews!Next
<1>2. ASSUME NEW r \in Reviewers, NEW way \in {"alone", "loose", "batch"}, NEW act \in {"approved"} \cup setting.declines,
             NEW items \in setting.requests, Reviews!Look(r, way, act, items)
      PROVE  ReviewInv'
  BY <1>1, <1>2, LookStep
<1>3. ASSUME NEW r \in Reviewers,
             Reviews!Confirm(r) \/ Reviews!GiveUp(r) \/ Reviews!Proceed(r) \/ Reviews!Error(r) \/ Reviews!Crash(r)
      PROVE  ReviewInv'
  <2>1. CASE Reviews!Confirm(r)
    BY <1>1, <2>1, ConfirmStep
  <2>2. CASE Reviews!GiveUp(r)
    BY <1>1, <2>2, GiveUpStep
  <2>3. CASE Reviews!Lock(r)
    BY <1>1, <2>3, RegistryLockStep
  <2>4. CASE Reviews!Check(r)
    BY <1>1, <2>4, CheckStep
  <2>5. CASE Reviews!Plan(r)
    BY <1>1, <2>5, PlanStep
  <2>6. CASE Reviews!Write(r)
    BY <1>1, <2>6, ReviewWriteStep
  <2>7. CASE Reviews!Begin(r)
    BY <1>1, <2>7, BeginStep
  <2>8. CASE Reviews!Archive(r)
    BY <1>1, <2>8, ArchiveStep
  <2>9. CASE Reviews!Receipt(r)
    BY <1>1, <2>9, ReceiptStep
  <2>10. CASE Reviews!Save(r)
    BY <1>1, <2>10, ReviewSaveStep
  <2>11. CASE Reviews!Cleanup(r)
    BY <1>1, <2>11, CleanupStep
  <2>12. CASE Reviews!Validated(r)
    BY <1>1, <2>12, ValidatedStep
  <2>13. CASE Reviews!Restore(r)
    BY <1>1, <2>13, ReviewRestoreStep
  <2>14. CASE Reviews!Unrecord(r)
    BY <1>1, <2>14, UnrecordStep
  <2>15. CASE Reviews!Error(r)
    BY <1>1, <2>15, ErrorStep
  <2>16. CASE Reviews!Crash(r)
    BY <1>1, <2>16, ReviewCrashStep
  <2> QED
    BY <1>3, <2>1, <2>2, <2>3, <2>4, <2>5, <2>6, <2>7, <2>8, <2>9, <2>10, <2>11, <2>12, <2>13, <2>14, <2>15, <2>16
    DEF Reviews!Proceed
<1>4. ASSUME NEW f \in Files, Reviews!OwnerEdit(f) PROVE ReviewInv'
  BY <1>1, <1>4, OwnerEditStep
<1> QED  BY <1>2, <1>3, <1>4 DEF Reviews!Next

LEMMA ReviewStutter ==
    ASSUME ReviewInv, UNCHANGED reviewing
    PROVE  ReviewInv'
<1>1. UNCHANGED <<setting, canon, status, archives, receipts, holder, review, cut>>
  BY DEF reviewing
<1>2. ReviewTypes'
  BY <1>1 DEF ReviewInv, ReviewTypes
<1>3. Reviews!ApprovedIffApplied'
  BY <1>1 DEF ReviewInv, Reviews!ApprovedIffApplied, Reviews!Whole, Reviews!Approving, Reviews!At, Reviews!Items,
              Reviews!HasReceipt
<1>4. ReceiptsStand'
  BY <1>1 DEF ReviewInv, ReceiptsStand, Reviews!Items, Working, Firm
<1>5. ASSUME NEW r \in Reviewers PROVE ReviewPart(r)'
  <2>1. WayOf(r) /\ ShownOf(r) /\ DocumentsOf(r) /\ ReceiptsOf(r) /\ ItemsOf(r)
    BY DEF ReviewInv, ReviewPart
  <2>2. WayOf(r)'
    BY <1>1, <2>1 DEF WayOf, Firm
  <2>3. ShownOf(r)'
    BY <1>1, <2>1 DEF ShownOf, Reviews!Items, Fine, Reviews!Plannable
  <2>4. DocumentsOf(r)'
    BY <1>1, <2>1
    DEF DocumentsOf, Affected, Changed, Reached, Before, Put, AsShown, Reviews!Items, Reviews!Item,
        Reviews!Earlier, Reviews!Touched, Reviews!Restorable, Reviews!Plannable, Approves, Working, Firm
  <2>5. ReceiptsOf(r)'
    BY <1>1, <2>1 DEF ReceiptsOf, By, Decided, Firm, Reviews!Items, Reviews!Item, Reviews!Earlier
  <2>6. ItemsOf(r)'
    <3>1. /\ Reviews!Items(r)' = Reviews!Items(r) /\ Reviews!Item(r)' = Reviews!Item(r)
          /\ Reviews!Earlier(r)' = Reviews!Earlier(r) /\ Steady(r)' = Steady(r) /\ Working(r)' = Working(r)
      BY <1>1 DEF Reviews!Items, Reviews!Item, Reviews!Earlier, Steady, Working, Firm
    <3> QED  BY <1>1, <2>1, <3>1 DEF ItemsOf, ItemOf
  <2> QED  BY <2>2, <2>3, <2>4, <2>5, <2>6 DEF ReviewPart
<1> QED  BY <1>1, <1>2, <1>3, <1>4, <1>5 DEF ReviewInv

ReviewHolds == part = "reviews" => ReviewInv

LEMMA ReviewHoldsAlways == FilesSpec => []ReviewHolds
<1>1. FilesInit => ReviewHolds
  BY ReviewInit DEF FilesInit, ReviewHolds
<1>2. ReviewHolds /\ [FilesNext]_all => ReviewHolds'
  <2> SUFFICES ASSUME ReviewInv, part = "reviews", [FilesNext]_all PROVE ReviewInv'
    BY DEF ReviewHolds, FilesNext, all
  <2>1. CASE FilesNext
    BY <2>1, ReviewNext DEF FilesNext
  <2>2. CASE UNCHANGED all
    BY <2>2, ReviewStutter DEF all
  <2> QED  BY <2>1, <2>2
<1> QED  BY <1>1, <1>2, PTL DEF FilesSpec

(* Outside a running approval, and save for a crash or a failed rollback,  *)
(* a proposal is in all of its documents with an archive and a receipt of  *)
(* the approval, or in none and has neither (applyInboxBatch,              *)
(* approveInboxItem), however reviewers and the owner interleave.          *)
THEOREM DecisionsAreApplied == FilesSpec => []DecidedAsApplied
<1>1. ReviewHolds => DecidedAsApplied
  BY DEF ReviewHolds, ReviewInv, DecidedAsApplied
<1> QED  BY <1>1, ReviewHoldsAlways, PTL

(* A review under the lock decides all of its proposals, and reports so,   *)
(* or none; a project proposal is decided at most once, however many       *)
(* reviewers have it on the screen (the check under the lock); and of two  *)
(* proposals that compete for a claim at most one is in a document.        *)
THEOREM BatchesStayWhole == FilesSpec => []BatchesAreWhole
<1>1. ReviewHolds => BatchesAreWhole
  <2> SUFFICES ASSUME ReviewInv
               PROVE  Reviews!AllOrNothing /\ Reviews!BatchDecidesOnce /\ Reviews!OneWinsPerClaim
    BY DEF ReviewHolds, BatchesAreWhole
  <2>1. Reviews!AllOrNothing
    <3> SUFFICES ASSUME NEW r \in Reviewers, review[r].at \in {"done", "failed"}, review[r].way # "loose",
                        Reviews!Items(r) \cap cut = {}
                 PROVE  By(r) = IF review[r].at = "done" THEN Reviews!Items(r) ELSE {}
      BY DEF Reviews!AllOrNothing, Reviews!At, By
    <3>1. WayOf(r) /\ ReceiptsOf(r) /\ review[r].way \in {"none", "alone", "loose", "batch"}
      BY DEF ReviewInv, ReviewPart, ReviewTypes, Reviewing
    <3>2. Firm(r)
      BY <3>1 DEF WayOf, Firm
    <3> QED  BY <3>1, <3>2 DEF ReceiptsOf
  <2>2. Reviews!BatchDecidesOnce
    <3> SUFFICES ASSUME NEW p \in Project \ cut
                 PROVE  Cardinality({x \in receipts : x.proposal = p /\ x.decision # "superseded"}) <= 1
      BY DEF Reviews!BatchDecidesOnce, Reviews!Cardinality, Cardinality
    <3> DEFINE S == {x \in receipts : x.proposal = p /\ x.decision # "superseded"}
    <3>1. \A x, y \in S : x = y
      BY DEF ReviewInv, ReceiptsStand
    <3> HIDE DEF S
    <3>2. CASE S = {}
      BY <3>2, FS_EmptySet DEF S
    <3>3. CASE S # {}
      <4>1. PICK x : x \in S
        BY <3>3
      <4>2. S = {x}
        BY <3>1, <4>1
      <4>3. Cardinality(S) = 1
        BY <4>2, FS_Singleton
      <4> QED  BY <4>3 DEF S
    <3> QED  BY <3>2, <3>3
  <2>3. Reviews!OneWinsPerClaim
    BY DEF Reviews!OneWinsPerClaim, ReviewInv, Fine
  <2> QED  BY <2>1, <2>2, <2>3
<1> QED  BY <1>1, ReviewHoldsAlways, PTL

(* Who changes a document: a review that writes or restores it, the owner. *)
LEMMA WhoWrites ==
    ASSUME Reviews!Next
    PROVE  \/ canon' = canon
           \/ \E r \in Reviewers : Reviews!Write(r) \/ Reviews!Restore(r)
           \/ \E f \in Files : Reviews!OwnerEdit(f)
  BY DEF Reviews!Next, Reviews!Proceed, Reviews!Look, Reviews!Confirm, Reviews!GiveUp, Reviews!Lock, Reviews!Check,
         Reviews!Plan, Reviews!Begin, Reviews!Archive, Reviews!Receipt, Reviews!Save, Reviews!Cleanup,
         Reviews!Error, Reviews!Validated, Reviews!Unrecord, Reviews!Crash

LEMMA WriteShows ==
    ASSUME ReviewInv, setting.ownerWaits, NEW r \in Reviewers, Reviews!Write(r)
    PROVE  Reviews!WritesTheShown /\ Reviews!KeepsEdits
<1>1. review[r].at = "write" /\ review[r].at \in Reviews!Inside /\ review[r].at \notin Undoing
  BY DEF Reviews!Write, Reviews!At, Reviews!Inside, Undoing
<1>2. PICK f \in review[r].todo :
         canon' = [canon EXCEPT ![f] =
             [Reviews!Current(r, review[r].base, f) EXCEPT !.claims = @ \cup {Reviews!Item(r)}]]
  BY DEF Reviews!Write
<1>3. /\ Approves(r) /\ f \in Affected(r) /\ f \in Files /\ \A g \in Files \ {f} : canon'[g] = canon[g]
      /\ canon'[f].claims = canon[f].claims \cup {Reviews!Item(r)}
      /\ canon'[f].edits = review[r].base[f].edits
      /\ canon[f].claims = review[r].shown[f].claims \cup Before(r, f)
      /\ AsShown(r, review[r].base, f)
  BY <1>1, <1>2, DocumentWritten
<1>4. /\ ReviewTypes /\ ShownOf(r) /\ DocumentsOf(r) /\ review[r].at # "idle" /\ review[r].at \notin Reviews!Ended
      /\ WayOf(r)
  BY <1>1, ReviewAtWork
<1>5. canon[f] \in Reviews!Documents /\ review[r].shown[f] \in Reviews!Documents
  BY <1>3, <1>4 DEF ReviewTypes, Reviewing
<1>6. canon[f].edits = review[r].shown[f].edits /\ canon'[f].edits = canon[f].edits
  BY <1>1, <1>3, <1>4 DEF DocumentsOf, AsShown, Undoing
<1>7. Before(r, f) \subseteq Reviews!Items(r) /\ review[r].shown[f].claims \cap Reviews!Items(r) = {}
      /\ Reviews!Item(r) \in Reviews!Items(r)
  BY <1>3, <1>4, ItemsFit DEF ShownOf, Approves
<1>8. [canon[f] EXCEPT !.claims = @ \ Reviews!Items(r)] = review[r].shown[f]
  <2>1. canon[f].claims \ Reviews!Items(r) = review[r].shown[f].claims
    BY <1>3, <1>7
  <2>2. review[r].shown[f] = [claims |-> review[r].shown[f].claims, edits |-> review[r].shown[f].edits]
    BY <1>5 DEF Reviews!Documents
  <2> QED  BY <1>5, <1>6, <2>1, <2>2, ClaimsReplaced
<1>9. Reviews!WritesTheShown
  <2> SUFFICES ASSUME NEW g \in Files, NEW p \in canon'[g].claims \ canon[g].claims
               PROVE  \E q \in Reviewers :
                        /\ review[q].at = "write" /\ p \in Reviews!Items(q)
                        /\ [canon[g] EXCEPT !.claims = @ \ Reviews!Items(q)] = review[q].shown[g]
    BY DEF Reviews!WritesTheShown, Reviews!At
  <2>1. g = f /\ p = Reviews!Item(r)
    BY <1>3
  <2> QED  BY <1>1, <1>7, <1>8, <2>1
<1>10. Reviews!KeepsEdits
  <2>1. \A g \in Files : canon'[g].edits = canon[g].edits /\ canon[g].edits \in Int
    <3>1. \A g \in Files : canon[g].edits \in Int
      BY <1>4, ReviewsAssumption DEF ReviewTypes, Reviews!Documents
    <3> QED  BY <1>3, <1>6, <3>1
  <2>2. \A g \in Files : canon[g].claims \ canon'[g].claims = {}
    BY <1>3
  <2> QED  BY <2>1, <2>2 DEF Reviews!KeepsEdits
<1> QED  BY <1>9, <1>10

LEMMA RestoreShows ==
    ASSUME ReviewInv, setting.ownerWaits, NEW r \in Reviewers, Reviews!Restore(r)
    PROVE  Reviews!WritesTheShown /\ Reviews!KeepsEdits
<1>1. review[r].at = "restore" /\ review[r].at \in Reviews!Inside
  BY DEF Reviews!Restore, Reviews!At, Reviews!Inside
<1>2. PICK bad \in SUBSET Reviews!Restorable(r) :
         canon' = [f \in Files |->
             IF f \in Reviews!Restorable(r) \ bad THEN review[r].base[f] ELSE canon[f]]
  BY DEF Reviews!Restore
<1>3. /\ ReviewTypes /\ DocumentsOf(r) /\ WayOf(r) /\ review[r].at # "idle"
      /\ review[r].way = "loose" \/ Working(r)
  BY <1>1, ReviewAtWork
<1>4. Working(r)
  BY <1>1, <1>3 DEF WayOf, Reviews!Recording, Reviews!Ended
<1>5. /\ canon \in [Files -> Reviews!Documents] /\ review[r].shown \in [Files -> Reviews!Documents]
  BY <1>3 DEF ReviewTypes, Reviewing
<1>6. ASSUME NEW f \in Reviews!Restorable(r)
      PROVE  /\ f \in Affected(r) /\ f \in Files /\ review[r].base[f] = review[r].shown[f]
             /\ canon[f].edits = review[r].shown[f].edits
             /\ review[r].shown[f].claims \subseteq canon[f].claims
             /\ canon[f].claims \subseteq review[r].shown[f].claims \cup Reviews!Items(r)
  <2>1. review[r].act = "approved"
    BY <1>3, <1>4, <1>6, ItemsFit DEF Reviews!Restorable, WayOf, Working
  <2>2. Approves(r)
    BY <1>4, <2>1 DEF Approves
  <2>3. f \in Affected(r) /\ AsShown(r, review[r].base, f)
    BY <1>1, <1>3, <2>2 DEF DocumentsOf
  <2>4. f \in Files
    BY <1>3, <2>3, ItemsFit
  <2> QED  BY <1>1, <1>3, <2>2, <2>3, <2>4 DEF DocumentsOf, AsShown
<1>7. ASSUME NEW f \in Files
      PROVE  /\ canon'[f].claims \subseteq canon[f].claims /\ canon[f].claims \ canon'[f].claims \subseteq Reviews!Items(r)
             /\ canon'[f].edits = canon[f].edits /\ canon[f].edits \in Int
  <2>1. canon'[f] = IF f \in Reviews!Restorable(r) \ bad THEN review[r].base[f] ELSE canon[f]
    BY <1>2
  <2>2. canon[f].edits \in Int
    BY <1>5, ReviewsAssumption DEF Reviews!Documents
  <2> QED  BY <1>6, <2>1, <2>2
<1>8. Reviews!WritesTheShown
  BY <1>7 DEF Reviews!WritesTheShown
<1>9. Reviews!KeepsEdits
  <2>1. \A f \in Files : \A p \in canon[f].claims \ canon'[f].claims : review[r].at = "restore" /\ p \in Reviews!Items(r)
    BY <1>1, <1>7
  <2>2. \A f \in Files : canon'[f].edits >= canon[f].edits
    BY <1>7
  <2> QED  BY <2>1, <2>2 DEF Reviews!KeepsEdits, Reviews!At
<1> QED  BY <1>8, <1>9

(* If the owner saves nothing while a review holds the lock, what enters a *)
(* document was shown as it enters, but for the other items of the batch;  *)
(* no edit of the owner is lost, and a claim goes only in the rollback of  *)
(* the review that put it there.                                           *)
THEOREM WrittenAsShown == FilesSpec => WritesWhatWasShown
<1> DEFINE Shows == Reviews!WritesTheShown /\ Reviews!KeepsEdits
<1>1. ASSUME ReviewInv, setting.ownerWaits, \A f \in Files : canon'[f].claims = canon[f].claims /\ canon'[f].edits >= canon[f].edits
      PROVE  Shows
  BY <1>1 DEF Reviews!WritesTheShown, Reviews!KeepsEdits
<1>2. ASSUME ReviewInv, setting.ownerWaits PROVE \A f \in Files : canon[f] \in Reviews!Documents /\ canon[f].edits \in Int
  BY <1>2, ReviewsAssumption DEF ReviewInv, ReviewTypes, Reviews!Documents
<1>3. ASSUME ReviewInv, setting.ownerWaits, canon' = canon PROVE Shows
  <2>1. \A f \in Files : canon[f].edits >= canon[f].edits
    BY <1>2, <1>3
  <2> QED  BY <1>1, <1>3, <2>1
<1>4. ASSUME ReviewInv, setting.ownerWaits, NEW f \in Files, Reviews!OwnerEdit(f) PROVE Shows
  <2>1. \A g \in Files : canon[g] \in Reviews!Documents /\ canon[g].edits \in Int
    BY <1>2, <1>4
  <2>2. canon' = [canon EXCEPT ![f].edits = @ + 1] /\ canon \in [Files -> Reviews!Documents]
    BY <1>4 DEF Reviews!OwnerEdit, ReviewInv, ReviewTypes
  <2>3. \A g \in Files : canon'[g].claims = canon[g].claims /\ canon'[g].edits >= canon[g].edits
    <3>1. canon'[f].claims = canon[f].claims /\ canon'[f].edits = canon[f].edits + 1
      <4>1. canon'[f] = [canon[f] EXCEPT !.edits = canon[f].edits + 1]
        BY <2>2
      <4> QED  BY <2>1, <4>1 DEF Reviews!Documents
    <3>2. \A g \in Files \ {f} : canon'[g] = canon[g]
      BY <2>2
    <3> QED  BY <2>1, <3>1, <3>2
  <2> QED  BY <1>1, <1>4, <2>3
<1>5. ReviewHolds /\ [FilesNext]_all => (part = "reviews" /\ setting.ownerWaits => Shows)
  <2> SUFFICES ASSUME ReviewInv, part = "reviews", setting.ownerWaits, [FilesNext]_all PROVE Shows
    BY DEF ReviewHolds
  <2>1. CASE FilesNext
    <3>1. Reviews!Next
      BY <2>1 DEF FilesNext
    <3> QED  BY <1>3, <1>4, <3>1, WhoWrites, WriteShows, RestoreShows
  <2>2. CASE UNCHANGED all
    BY <1>3, <2>2 DEF all, reviewing
  <2> QED  BY <2>1, <2>2
<1> QED  BY <1>5, ReviewHoldsAlways, PTL DEF FilesSpec, WritesWhatWasShown
=============================================================================
