--------------------------- MODULE RenamedLockProofs ---------------------------
(***************************************************************************)
(* The locks that are broken by a rename, and what is done under them,     *)
(* proved for any number of processes, any cap of the inbox and any number *)
(* of ledger files that are kept.                                          *)
(*                                                                         *)
(* As long as nobody's file is renamed aside by mistake, the creator of a  *)
(* file that was judged stale has ended, so that a file is never put back  *)
(* over another one, and one process at a time works under the lock        *)
(* (RenamedInv).  For the inbox the .break file is shown to rule the       *)
(* mistake out.  The rotation of the ledger is an argument about           *)
(* concatenations (Concatenations: FlattenWithoutFirst, FlattenMoved and    *)
(* FlattenGrown).                                                          *)
(***************************************************************************)
EXTENDS MCSelfFiles, Concatenations, FiniteSetTheorems

Holders == Renamers \cup {Other}
GuardFile == [by : Renamers, old : BOOLEAN]
Spots == {"trying"} \cup Renamed!Breaking \cup Renamed!AtWork \cup Renamed!Ended

RenamedTypes ==
    /\ kind \in {"inbox", "ledger", "map", "id"}
    /\ prompt = TRUE
    /\ place \in [Renamers -> Spots]
    /\ file \in Renamed!File \cup {None}
    /\ aside \in [Renamers -> Renamed!File \cup {None}]
    /\ judged \in [Renamers -> Renamed!File \cup {None}]
    /\ guard \in GuardFile \cup {None}
    /\ data \in SUBSET Holders
    /\ known \in [Renamers -> SUBSET Holders]
    /\ slots \in [0 .. Keep -> Seq(Holders)]
    /\ turn \in [Renamers -> 0 .. Keep]
    /\ gone \in Seq(Holders)
    /\ mistaken \in BOOLEAN
    /\ unguarded \in BOOLEAN

(* Who is at work has its own file at the path, which does not grow old.   *)
HasLock(p) ==
    place[p] \in Renamed!AtWork =>
        file # None /\ file.by = p /\ ~file.old /\ (place[p] # "filling" => file.full)

(* A file is judged for good: its creator has ended, nothing will be       *)
(* written into it, and it stays stale.                                    *)
SameFile(f, j) == f.by = j.by /\ f.full = j.full /\ (j.old => f.old)
JudgedWell(p) ==
    /\ place[p] \in Renamed!Breaking => judged[p] # None
    /\ judged[p] # None =>
          /\ place[judged[p].by] \in Renamed!Ended
          /\ judged[p].old \/ (judged[p].full /\ place[judged[p].by] = "dead")
          /\ file # None /\ file.by = judged[p].by => SameFile(file, judged[p])
    /\ place[p] = "verifying" => aside[p] # None /\ SameFile(aside[p], judged[p])

Excluding ==
    /\ file # None => place[file.by] \in Renamed!AtWork \cup Renamed!Ended
    /\ \A p \in Renamers : HasLock(p) /\ JudgedWell(p)

(* The .break file is the breaker's, and while it is there nobody else     *)
(* touches a file that was judged.                                         *)
Guarded == {"comparing", "renaming", "verifying", "cleaning"}
GuardHolds ==
    /\ guard # None => place[guard.by] \in Guarded /\ ~guard.old
    /\ file # None => file.full \/ place[file.by] = "filling"
    /\ \A p \in Renamers :
        /\ place[p] \in Guarded => guard # None /\ guard.by = p
        /\ judged[p] # None => judged[p].full
        /\ place[p] \notin {"unguarding", "again"}
        /\ place[p] = "renaming" => file # None /\ file.by = judged[p].by

(* What is done under the lock. *)
Told == {"releasing", "removing", "done"}
WorkStands ==
    /\ IsFiniteSet(data)
    /\ kind = "inbox" => Cardinality(data) <= Cap
    /\ kind = "id" => data = {} \/ \E p \in Renamers : data = {p}
    /\ \A p \in Renamers :
        /\ place[p] = "read" => known[p] = data
        /\ place[p] \in Told /\ kind = "map" =>
              (p \in known[p] => p \in data) /\ (Other \in known[p] => Other \notin data)
        /\ place[p] \in Told /\ kind = "id" => known[p] \in {{}, data}
        /\ place[p] \in {"rotating", "appending"} => kind = "ledger"
        /\ place[p] = "rotating" /\ turn[p] < Keep => slots[turn[p] + 1] = <<>>

RenamedInv ==
    /\ RenamedTypes
    /\ ~mistaken => Excluding /\ WorkStands
    /\ kind = "inbox" /\ ~unguarded => ~mistaken /\ GuardHolds


-----------------------------------------------------------------------------
LEMMA SpotNames ==
    /\ Renamed!Breaking \subseteq Spots /\ Renamed!AtWork \subseteq Spots /\ Renamed!Ended \subseteq Spots
    /\ "trying" \in Spots
    /\ Renamed!Breaking \cap Renamed!AtWork = {} /\ Renamed!Breaking \cap Renamed!Ended = {}
    /\ Renamed!AtWork \cap Renamed!Ended = {} /\ "trying" \notin Renamed!Breaking \cup Renamed!AtWork \cup Renamed!Ended
  BY DEF Spots, Renamed!Breaking, Renamed!AtWork, Renamed!Inside, Renamed!Ended

LEMMA RenamedTypesInit == Renamed!Init /\ prompt => RenamedTypes
  BY RenamedAssumption DEF Renamed!Init, RenamedTypes, Spots, Holders

(* A process moves; a file is written, judged or renamed.                  *)
LEMMA FileTyped ==
    ASSUME NEW f \in Renamed!File \cup {None}, f # None
    PROVE  /\ f.by \in Renamers /\ f.full \in BOOLEAN /\ f.old \in BOOLEAN
           /\ [f EXCEPT !.full = TRUE] \in Renamed!File /\ [f EXCEPT !.old = TRUE] \in Renamed!File
           /\ [f EXCEPT !.full = TRUE].by = f.by /\ [f EXCEPT !.full = TRUE].full
           /\ [f EXCEPT !.full = TRUE].old = f.old
           /\ [f EXCEPT !.old = TRUE].by = f.by /\ [f EXCEPT !.old = TRUE].full = f.full
           /\ [f EXCEPT !.old = TRUE].old
           /\ [f EXCEPT !.full = TRUE] # None /\ [f EXCEPT !.old = TRUE] # None
  BY RenamedAssumption DEF Renamed!File

LEMMA NewFile ==
    ASSUME NEW p \in Renamers
    PROVE  /\ [by |-> p, full |-> FALSE, old |-> FALSE] \in Renamed!File
           /\ [by |-> p, full |-> FALSE, old |-> FALSE] # None
           /\ [by |-> p, old |-> FALSE] \in GuardFile /\ [by |-> p, old |-> FALSE] # None
<1>1. [by |-> p, full |-> FALSE, old |-> FALSE] \in Renamed!File /\ [by |-> p, old |-> FALSE] \in GuardFile
  BY DEF Renamed!File, GuardFile
<1>2. None \notin Renamed!File /\ None \notin GuardFile
  BY RenamedAssumption DEF GuardFile
<1> QED  BY <1>1, <1>2

LEMMA FileFields ==
    ASSUME NEW f \in Renamed!File
    PROVE  f # None /\ f.by \in Renamers /\ f.full \in BOOLEAN /\ f.old \in BOOLEAN
<1>1. None \notin Renamed!File
  BY RenamedAssumption
<1> QED  BY <1>1 DEF Renamed!File

LEMMA GuardTyped ==
    ASSUME NEW f \in GuardFile \cup {None}, f # None
    PROVE  /\ f.by \in Renamers /\ f.old \in BOOLEAN
           /\ [f EXCEPT !.old = TRUE] \in GuardFile
           /\ [f EXCEPT !.old = TRUE] # None /\ [f EXCEPT !.old = TRUE].by = f.by
<1>1. f \in [by : Renamers, old : BOOLEAN]
  BY DEF GuardFile
<1>2. [f EXCEPT !.old = TRUE] \in [by : Renamers, old : BOOLEAN] /\ [f EXCEPT !.old = TRUE].by = f.by
  BY <1>1
<1> QED  BY <1>1, <1>2, RenamedAssumption DEF GuardFile

LEMMA WrittenTyped ==
    ASSUME NEW f \in Renamed!File \cup {None}, NEW p \in Renamers
    PROVE  Renamed!Written(f, p) \in Renamed!File \cup {None}
  BY FileTyped DEF Renamed!Written

(* What lies under the lock, and what the lock consists of.                *)
LockOnly == UNCHANGED <<kind, prompt, data, known, slots, turn, gone>>
WorkOnly == UNCHANGED <<kind, prompt, file, aside, judged, guard, mistaken, unguarded>>

LEMMA RenamedLockTypes ==
    ASSUME RenamedTypes, NEW p \in Renamers,
           \/ Renamed!Create(p) \/ Renamed!Fill(p) \/ Renamed!FillFails(p) \/ Renamed!GiveUp(p) \/ Renamed!Judge(p)
           \/ Renamed!GuardInbox(p) \/ Renamed!UnguardInbox(p) \/ Renamed!CompareInbox(p) \/ Renamed!Rename(p)
           \/ Renamed!VerifyInbox(p) \/ Renamed!CleanInbox(p) \/ Renamed!LookAgain(p) \/ Renamed!VerifyLedger(p)
           \/ Renamed!VerifyMap(p)
    PROVE  RenamedTypes' /\ LockOnly
<1>. USE DEF Renamed!Go, Renamed!Forget, Renamed!locking, Renamed!work, Renamed!history, LockOnly
<1>1. CASE Renamed!Create(p)
  BY <1>1, NewFile DEF Renamed!Create, RenamedTypes, Spots, Renamed!AtWork
<1>2. CASE Renamed!Fill(p)
  BY <1>2, WrittenTyped DEF Renamed!Fill, RenamedTypes, Spots, Renamed!AtWork, Renamed!Inside
<1>3. CASE Renamed!FillFails(p)
  BY <1>3 DEF Renamed!FillFails, RenamedTypes, Spots, Renamed!Ended
<1>4. CASE Renamed!GiveUp(p)
  BY <1>4 DEF Renamed!GiveUp, RenamedTypes, Spots, Renamed!Ended
<1>5. CASE Renamed!Judge(p)
  BY <1>5 DEF Renamed!Judge, RenamedTypes, Spots, Renamed!Breaking
<1>6. CASE Renamed!GuardInbox(p)
  BY <1>6, NewFile DEF Renamed!GuardInbox, RenamedTypes, Spots, Renamed!Breaking
<1>7. CASE Renamed!UnguardInbox(p)
  BY <1>7 DEF Renamed!UnguardInbox, RenamedTypes, Spots
<1>8. CASE Renamed!CompareInbox(p)
  BY <1>8 DEF Renamed!CompareInbox, RenamedTypes, Spots, Renamed!Breaking
<1>9. CASE Renamed!Rename(p)
  BY <1>9 DEF Renamed!Rename, RenamedTypes, Spots, Renamed!Breaking
<1>10. CASE Renamed!VerifyInbox(p)
  BY <1>10 DEF Renamed!VerifyInbox, RenamedTypes, Spots, Renamed!Breaking
<1>11. CASE Renamed!CleanInbox(p)
  BY <1>11 DEF Renamed!CleanInbox, RenamedTypes, Spots
<1>12. CASE Renamed!LookAgain(p)
  BY <1>12 DEF Renamed!LookAgain, RenamedTypes, Spots, Renamed!Breaking
<1>13. CASE Renamed!VerifyLedger(p)
  BY <1>13 DEF Renamed!VerifyLedger, RenamedTypes, Spots
<1>14. CASE Renamed!VerifyMap(p)
  BY <1>14 DEF Renamed!VerifyMap, RenamedTypes, Spots
<1> QED  BY <1>1, <1>2, <1>3, <1>4, <1>5, <1>6, <1>7, <1>8, <1>9, <1>10, <1>11, <1>12, <1>13, <1>14


LEMMA RenamedWorkTypes ==
    ASSUME RenamedTypes, NEW p \in Renamers,
           \/ Renamed!Read(p) \/ Renamed!CreateProposal(p) \/ Renamed!RegisterSelf(p) \/ Renamed!ForgetSelf(p)
           \/ Renamed!EnsureSelfId(p) \/ Renamed!Measure(p) \/ Renamed!Rotate(p) \/ Renamed!AppendLine(p)
           \/ Renamed!WorkFails(p) \/ Renamed!CheckOwn(p)
    PROVE  /\ RenamedTypes' /\ WorkOnly
           /\ place[p] \in Renamed!AtWork \ {"filling"}
           /\ \E s \in (Renamed!AtWork \ {"filling"}) \cup {"done"} : place' = [place EXCEPT ![p] = s]
<1>. USE DEF Renamed!Go, Renamed!locking, Renamed!work, Renamed!history, WorkOnly,
             Renamed!AtWork, Renamed!Inside, Renamed!Ended
<1>1. CASE Renamed!Read(p)
  BY <1>1 DEF Renamed!Read, RenamedTypes, Spots
<1>2. CASE Renamed!CreateProposal(p)
  BY <1>2 DEF Renamed!CreateProposal, RenamedTypes, Spots, Holders
<1>3. CASE Renamed!RegisterSelf(p)
  BY <1>3 DEF Renamed!RegisterSelf, RenamedTypes, Spots, Holders
<1>4. CASE Renamed!ForgetSelf(p)
  BY <1>4 DEF Renamed!ForgetSelf, RenamedTypes, Spots, Holders
<1>5. CASE Renamed!EnsureSelfId(p)
  BY <1>5 DEF Renamed!EnsureSelfId, RenamedTypes, Spots, Holders
<1>6. CASE Renamed!Measure(p)
  <2>1. Keep \in 0 .. Keep
    BY RenamedAssumption
  <2> QED  BY <1>6, <2>1 DEF Renamed!Measure, RenamedTypes, Spots
<1>7. CASE Renamed!Rotate(p)
  <2>1. turn[p] \in 0 .. Keep /\ Keep \in Nat /\ (turn[p] < Keep => turn[p] + 1 \in 0 .. Keep)
    BY RenamedAssumption DEF RenamedTypes
  <2>2. slots[turn[p]] \in Seq(Holders) /\ slots[Keep] \in Seq(Holders) /\ <<>> \in Seq(Holders)
        /\ (turn[p] < Keep => slots[turn[p] + 1] \in Seq(Holders))
    BY <2>1 DEF RenamedTypes
  <2>3. slots' \in [0 .. Keep -> Seq(Holders)]
    BY <1>7, <2>1, <2>2 DEF Renamed!Rotate, RenamedTypes
  <2>4. gone' \in Seq(Holders)
    <3>1. PICK s \in Seq(Holders) : gone' = gone \o s
      BY <1>7, <2>1, <2>2 DEF Renamed!Rotate
    <3> QED  BY <3>1, ConcatProperties DEF RenamedTypes
  <2>5. turn' \in [Renamers -> 0 .. Keep]
    BY <1>7, <2>1 DEF Renamed!Rotate, RenamedTypes
  <2> QED  BY <1>7, <2>3, <2>4, <2>5 DEF Renamed!Rotate, RenamedTypes, Spots
<1>8. CASE Renamed!AppendLine(p)
  <2>1. 0 \in 0 .. Keep
    BY RenamedAssumption
  <2>2. slots[0] \in Seq(Holders) /\ p \in Holders
    BY <2>1 DEF RenamedTypes, Holders
  <2>3. Append(slots[0], p) \in Seq(Holders)
    BY <2>2, AppendProperties
  <2> QED  BY <1>8, <2>3 DEF Renamed!AppendLine, RenamedTypes, Spots
<1>9. CASE Renamed!WorkFails(p)
  BY <1>9 DEF Renamed!WorkFails, RenamedTypes, Spots, Holders
<1>10. CASE Renamed!CheckOwn(p)
  BY <1>10 DEF Renamed!CheckOwn, RenamedTypes, Spots
<1> QED  BY <1>1, <1>2, <1>3, <1>4, <1>5, <1>6, <1>7, <1>8, <1>9, <1>10

LEMMA RenamedLeaveTypes ==
    ASSUME RenamedTypes, NEW p \in Renamers, Renamed!Unlink(p) \/ Renamed!ReleaseLedger(p) \/ Renamed!Crash(p)
    PROVE  RenamedTypes' /\ LockOnly
<1>. USE DEF Renamed!Go, Renamed!Forget, Renamed!locking, Renamed!work, Renamed!history, LockOnly, RenamedTypes, Spots,
             Renamed!Ended
<1>1. CASE Renamed!Unlink(p)
  BY <1>1 DEF Renamed!Unlink
<1>2. CASE Renamed!ReleaseLedger(p)
  BY <1>2 DEF Renamed!ReleaseLedger
<1>3. CASE Renamed!Crash(p)
  BY <1>3 DEF Renamed!Crash
<1> QED  BY <1>1, <1>2, <1>3

LEMMA RenamedAgeTypes ==
    ASSUME RenamedTypes, Renamed!LockAges \/ Renamed!GuardAges
    PROVE  RenamedTypes' /\ LockOnly
<1>1. CASE Renamed!LockAges
  <2>1. file' \in Renamed!File
    BY <1>1, FileTyped DEF Renamed!LockAges, RenamedTypes
  <2> QED  BY <1>1, <2>1 DEF Renamed!LockAges, Renamed!work, Renamed!history, RenamedTypes, LockOnly
<1>2. CASE Renamed!GuardAges
  <2>1. guard' \in GuardFile
    BY <1>2, GuardTyped DEF Renamed!GuardAges, RenamedTypes
  <2> QED  BY <1>2, <2>1 DEF Renamed!GuardAges, Renamed!work, Renamed!history, RenamedTypes, LockOnly
<1> QED  BY <1>1, <1>2

-----------------------------------------------------------------------------
(* Under the exclusion one process is at work.                             *)
LEMMA OneAtWork ==
    ASSUME Excluding, NEW p \in Renamers, NEW q \in Renamers,
           place[p] \in Renamed!AtWork, place[q] \in Renamed!AtWork
    PROVE  p = q
  BY DEF Excluding, HasLock

(* Who has ended stays where it is.                                        *)
LEMMA EndedStays ==
    ASSUME RenamedTypes, NEW p \in Renamers, place[p] \notin Renamed!Ended, NEW s \in Spots,
           place' = [place EXCEPT ![p] = s], NEW f \in Renamed!File, place[f.by] \in Renamed!Ended
    PROVE  place'[f.by] = place[f.by] /\ f.by # p
<1>1. f.by \in Renamers
  BY FileFields
<1> QED  BY <1>1 DEF RenamedTypes

(* What a step of p leaves of what q has judged.                           *)
LEMMA JudgedKept ==
    ASSUME RenamedTypes, NEW p \in Renamers, place[p] \notin Renamed!Ended, NEW s \in Spots,
           place' = [place EXCEPT ![p] = s], NEW q \in Renamers, JudgedWell(q),
           judged'[q] # None => judged'[q] = judged[q],
           file' # None => file'.by = p \/ file' = file,
           place'[q] \in Renamed!Breaking => place[q] \in Renamed!Breaking /\ judged'[q] = judged[q],
           place'[q] = "verifying" =>
               place[q] = "verifying" /\ (aside'[q] = aside[q] \/ aside[q].by = p)
    PROVE  JudgedWell(q)'
<1>1. judged[q] # None => judged[q] \in Renamed!File /\ place[judged[q].by] \in Renamed!Ended
  BY DEF JudgedWell, RenamedTypes
<1>2. judged[q] # None => place'[judged[q].by] = place[judged[q].by] /\ judged[q].by # p
  BY <1>1, EndedStays
<1>3. CASE judged'[q] # None
  <2>1. judged'[q] = judged[q] /\ judged[q] # None
    BY <1>3
  <2>2. place'[judged'[q].by] \in Renamed!Ended
        /\ (judged'[q].old \/ (judged'[q].full /\ place'[judged'[q].by] = "dead"))
    BY <1>2, <2>1 DEF JudgedWell
  <2>3. file' # None /\ file'.by = judged'[q].by => SameFile(file', judged'[q])
    BY <1>2, <2>1 DEF JudgedWell
  <2>4. place'[q] = "verifying" => aside'[q] # None /\ SameFile(aside'[q], judged'[q])
    BY <1>2, <2>1 DEF JudgedWell, SameFile
  <2> QED  BY <2>1, <2>2, <2>3, <2>4 DEF JudgedWell, SameFile
<1>4. CASE judged'[q] = None
  BY <1>4 DEF JudgedWell, Renamed!Breaking
<1> QED  BY <1>3, <1>4

(* A step that moves p but none of the files.                              *)
LEMMA SteppedAside ==
    ASSUME RenamedTypes, Excluding, NEW p \in Renamers, place[p] \notin Renamed!Ended, NEW s \in Spots,
           place' = [place EXCEPT ![p] = s], file' = file, aside' = aside,
           judged' = judged \/ judged' = [judged EXCEPT ![p] = None],
           s \in Renamed!AtWork => place[p] \in Renamed!AtWork /\ (place[p] = "filling" => s = "filling"),
           s \in Renamed!Breaking => place[p] \in Renamed!Breaking /\ judged' = judged,
           s # "verifying",
           s = "trying" => place[p] \in Renamed!Breaking
    PROVE  Excluding'
<1>1. file # None => file \in Renamed!File /\ file.by \in Renamers
  <2>1. file \in Renamed!File \cup {None}
    BY DEF RenamedTypes
  <2> QED  BY <2>1, FileFields
<1>2. file # None => place'[file.by] \in Renamed!AtWork \cup Renamed!Ended
  <2>1. CASE file # None /\ file.by = p
    BY <1>1, <2>1, SpotNames DEF Excluding, RenamedTypes, Spots
  <2>2. CASE file # None /\ file.by # p
    BY <1>1, <2>2 DEF Excluding, RenamedTypes
  <2> QED  BY <2>1, <2>2
<1>3. ASSUME NEW q \in Renamers PROVE HasLock(q)'
  <2>1. HasLock(q)
    BY DEF Excluding
  <2>2. CASE q = p
    BY <2>1, <2>2 DEF HasLock, RenamedTypes
  <2>3. CASE q # p
    BY <2>1, <2>3 DEF HasLock, RenamedTypes
  <2> QED  BY <2>2, <2>3
<1>4. ASSUME NEW q \in Renamers PROVE JudgedWell(q)'
  <2>1. JudgedWell(q) /\ (judged'[q] # None => judged'[q] = judged[q])
    BY DEF Excluding, RenamedTypes
  <2>2. place'[q] \in Renamed!Breaking => place[q] \in Renamed!Breaking /\ judged'[q] = judged[q]
    BY SpotNames DEF RenamedTypes
  <2>3. place'[q] = "verifying" => place[q] = "verifying"
    BY DEF RenamedTypes
  <2> QED  BY <2>1, <2>2, <2>3, JudgedKept
<1> QED  BY <1>2, <1>3, <1>4 DEF Excluding


(* The steps of the lock under the exclusion.                              *)
LEMMA CreateExcludes ==
    ASSUME RenamedTypes, Excluding, NEW p \in Renamers, Renamed!Create(p)
    PROVE  Excluding'
<1>1. /\ place[p] = "trying" /\ file = None /\ place' = [place EXCEPT ![p] = "filling"] /\ kind' = kind
      /\ file' = [by |-> p, full |-> FALSE, old |-> FALSE] /\ aside' = aside /\ judged' = judged
  BY DEF Renamed!Create, Renamed!Go
<1>2. file'.by = p /\ ~file'.old /\ file' # None /\ place'[p] = "filling"
  BY <1>1, NewFile DEF RenamedTypes
<1>3. place'[file'.by] \in Renamed!AtWork
  BY <1>2 DEF Renamed!AtWork
<1>4. ASSUME NEW q \in Renamers PROVE HasLock(q)'
  <2>1. CASE q = p
    BY <1>2, <2>1 DEF HasLock
  <2>2. CASE q # p
    BY <1>1, <2>2 DEF HasLock, Excluding, RenamedTypes
  <2> QED  BY <2>1, <2>2
<1>5. ASSUME NEW q \in Renamers PROVE JudgedWell(q)'
  <2>1. JudgedWell(q) /\ place[p] \notin Renamed!Ended /\ "filling" \in Spots
    BY <1>1 DEF Excluding, Renamed!Ended, Spots, Renamed!AtWork
  <2>2. (place'[q] \in Renamed!Breaking => place[q] \in Renamed!Breaking) /\ (place'[q] = "verifying" => place[q] = "verifying")
    BY <1>1 DEF RenamedTypes, Renamed!Breaking
  <2> QED  BY <1>1, <1>2, <2>1, <2>2, JudgedKept
<1> QED  BY <1>3, <1>4, <1>5 DEF Excluding

LEMMA FillExcludes ==
    ASSUME RenamedTypes, Excluding, NEW p \in Renamers, Renamed!Fill(p)
    PROVE  Excluding'
<1>1. /\ place[p] = "filling" /\ place' = [place EXCEPT ![p] = "entered"] /\ judged' = judged
      /\ file' = Renamed!Written(file, p) /\ aside' = [q \in Renamers |-> Renamed!Written(aside[q], p)]
  BY DEF Renamed!Fill, Renamed!Go
<1>2. place[p] \in Renamed!AtWork \ Renamed!Ended /\ "entered" \in Renamed!AtWork /\ "entered" \in Spots
      /\ "entered" \notin Renamed!Breaking
  BY <1>1 DEF Renamed!AtWork, Renamed!Inside, Renamed!Ended, Spots, Renamed!Breaking
<1>3. file # None /\ file.by = p /\ ~file.old /\ file \in Renamed!File
  BY <1>2 DEF Excluding, HasLock, RenamedTypes
<1>4. file' # None /\ file'.by = p /\ ~file'.old /\ file'.full
  BY <1>1, <1>3, FileTyped DEF Renamed!Written
<1>5. ASSUME NEW q \in Renamers PROVE HasLock(q)'
  <2>1. CASE q = p
    BY <1>4, <2>1 DEF HasLock
  <2>2. CASE q # p
    <3>1. place[q] \notin Renamed!AtWork
      BY <1>2, <2>2, OneAtWork
    <3> QED  BY <1>1, <2>2, <3>1 DEF HasLock, RenamedTypes
  <2> QED  BY <2>1, <2>2
<1>6. ASSUME NEW q \in Renamers PROVE JudgedWell(q)'
  <2>1. JudgedWell(q)
    BY DEF Excluding
  <2>2. place'[q] \in Renamed!Breaking => place[q] \in Renamed!Breaking
    BY <1>1, <1>2 DEF RenamedTypes
  <2>3. place'[q] = "verifying" => place[q] = "verifying"
    BY <1>1 DEF RenamedTypes
  <2>4. aside'[q] = aside[q] \/ aside[q].by = p
    BY <1>1 DEF Renamed!Written
  <2> QED  BY <1>1, <1>2, <1>4, <2>1, <2>2, <2>3, <2>4, JudgedKept
<1>7. place'[file'.by] \in Renamed!AtWork
  BY <1>1, <1>2, <1>4 DEF RenamedTypes
<1> QED  BY <1>5, <1>6, <1>7 DEF Excluding

LEMMA JudgeExcludes ==
    ASSUME RenamedTypes, Excluding, NEW p \in Renamers, Renamed!Judge(p)
    PROVE  Excluding'
<1>1. /\ place[p] = "trying" /\ file # None /\ Renamed!Stale(file) /\ file' = file /\ aside' = aside
      /\ judged' = [judged EXCEPT ![p] = file]
  BY DEF Renamed!Judge
<1>2. PICK s \in {"guarding", "again", "renaming"} : place' = [place EXCEPT ![p] = s]
  BY DEF Renamed!Judge, Renamed!Go
<1>3. /\ s \in Spots /\ s \in Renamed!Breaking /\ s \notin Renamed!AtWork /\ s # "verifying"
      /\ place[p] \notin Renamed!Ended /\ place[p] \notin Renamed!AtWork
  BY <1>1, SpotNames DEF Spots, Renamed!Breaking, Renamed!AtWork, Renamed!Inside
<1>4. file \in Renamed!File /\ file.by \in Renamers /\ file.by # p /\ place'[file.by] = place[file.by]
  BY <1>1, <1>2, <1>3, FileFields DEF Excluding, RenamedTypes
<1>5. ASSUME NEW q \in Renamers PROVE HasLock(q)'
  BY <1>1, <1>2, <1>3 DEF Excluding, HasLock, RenamedTypes
<1>6. ASSUME NEW q \in Renamers PROVE JudgedWell(q)'
  <2>1. JudgedWell(q)
    BY DEF Excluding
  <2>2. CASE q # p
    <3>1. judged'[q] = judged[q] /\ place'[q] = place[q]
      BY <1>1, <1>2, <2>2 DEF RenamedTypes
    <3> QED  BY <1>1, <1>2, <1>3, <2>1, <3>1, JudgedKept
  <2>3. CASE q = p
    <3>1. judged'[p] = file /\ place'[p] = s
      BY <1>1, <1>2 DEF RenamedTypes
    <3>2. file.old \/ (file.full /\ place[file.by] = "dead")
      BY <1>1 DEF Renamed!Stale, Renamed!StaleInbox, Renamed!StaleLedger, Renamed!StaleMap
    <3>3. place[file.by] \in Renamed!Ended
      <4>1. CASE place[file.by] \in Renamed!AtWork
        BY <1>1, <1>4, <3>2, <4>1, SpotNames DEF Excluding, HasLock, Renamed!Ended
      <4> QED  BY <1>1, <4>1 DEF Excluding
    <3> QED  BY <1>1, <1>3, <1>4, <2>3, <3>1, <3>2, <3>3 DEF JudgedWell, SameFile
  <2> QED  BY <2>2, <2>3
<1> QED  BY <1>1, <1>4, <1>5, <1>6 DEF Excluding


(* A file that is renamed aside was judged, if nothing was mistaken: so it *)
(* is of nobody who is at work, and it is not put back.                    *)
LEMMA NobodyAtWork ==
    ASSUME RenamedTypes, Excluding, file = None \/ place[file.by] \notin Renamed!AtWork, NEW q \in Renamers
    PROVE  place[q] \notin Renamed!AtWork
  BY DEF Excluding, HasLock

LEMMA RenameExcludes ==
    ASSUME RenamedTypes, Excluding, NEW p \in Renamers, Renamed!Rename(p), ~mistaken'
    PROVE  Excluding'
<1>1. /\ place[p] = "renaming" /\ file' = None /\ aside' = [aside EXCEPT ![p] = file]
      /\ file # None => file.by = judged[p].by
  BY DEF Renamed!Rename
<1>2. /\ place[p] \in Renamed!Breaking /\ judged[p] # None /\ judged[p] \in Renamed!File /\ JudgedWell(p)
      /\ place[judged[p].by] \in Renamed!Ended
  BY <1>1 DEF Excluding, JudgedWell, RenamedTypes, Renamed!Breaking
<1>3. \A q \in Renamers : place[q] \notin Renamed!AtWork
  BY <1>1, <1>2, NobodyAtWork, SpotNames
<1>4. PICK s \in {"verifying", "cleaning", "trying"} :
         /\ place' = [place EXCEPT ![p] = s]
         /\ s \in {"verifying", "cleaning"} => judged' = judged
         /\ s = "verifying" => file # None
         /\ s = "trying" => judged' = [judged EXCEPT ![p] = None]
  BY DEF Renamed!Rename, Renamed!Go, Renamed!Forget
<1>5. s \in Spots /\ s \notin Renamed!AtWork /\ place[p] \notin Renamed!Ended
  BY <1>1 DEF Spots, Renamed!Breaking, Renamed!AtWork, Renamed!Inside, Renamed!Ended
<1>6. ASSUME NEW q \in Renamers PROVE HasLock(q)'
  BY <1>3, <1>4, <1>5 DEF HasLock, RenamedTypes
<1>7. ASSUME NEW q \in Renamers PROVE JudgedWell(q)'
  <2>1. JudgedWell(q) /\ (judged'[q] # None => judged'[q] = judged[q])
    BY <1>4 DEF Excluding, RenamedTypes
  <2>2. CASE q # p
    <3>1. judged'[q] = judged[q] /\ place'[q] = place[q] /\ aside'[q] = aside[q]
      BY <1>1, <1>4, <2>2 DEF RenamedTypes
    <3> QED  BY <1>1, <1>4, <1>5, <2>1, <3>1, JudgedKept
  <2>3. CASE q = p /\ s # "verifying"
    <3>1. place'[q] = s /\ (s = "cleaning" => judged'[q] = judged[q])
      BY <1>4, <2>3 DEF RenamedTypes
    <3>2. place'[q] \in Renamed!Breaking => place[q] \in Renamed!Breaking /\ judged'[q] = judged[q]
      BY <1>2, <1>4, <2>3, <3>1, SpotNames
    <3> QED  BY <1>1, <1>4, <1>5, <2>1, <2>3, <3>1, <3>2, JudgedKept
  <2>4. CASE q = p /\ s = "verifying"
    <3>1. judged' = judged /\ file # None /\ aside'[p] = file /\ place'[judged[p].by] = place[judged[p].by]
      BY <1>1, <1>2, <1>4, <1>5, <2>4, EndedStays DEF RenamedTypes
    <3>2. SameFile(file, judged[p])
      BY <1>1, <1>2, <3>1 DEF JudgedWell
    <3> QED  BY <1>1, <1>2, <2>4, <3>1, <3>2 DEF JudgedWell, SameFile
  <2> QED  BY <1>4, <2>2, <2>3, <2>4
<1> QED  BY <1>1, <1>6, <1>7 DEF Excluding

LEMMA VerifyPutsNothingBack ==
    ASSUME RenamedTypes, Excluding, NEW p \in Renamers,
           Renamed!VerifyInbox(p) \/ Renamed!VerifyLedger(p) \/ Renamed!VerifyMap(p)
    PROVE  file' = file
<1>1. /\ place[p] = "verifying" /\ judged[p] # None /\ aside[p] # None /\ SameFile(aside[p], judged[p])
      /\ judged[p].old \/ (judged[p].full /\ place[judged[p].by] = "dead")
      /\ judged[p] \in Renamed!File /\ aside[p] \in Renamed!File
  BY DEF Renamed!VerifyInbox, Renamed!VerifyLedger, Renamed!VerifyMap, Excluding, JudgedWell, RenamedTypes, Renamed!Breaking
<1>2. CASE Renamed!VerifyInbox(p)
  BY <1>1, <1>2 DEF Renamed!VerifyInbox, Renamed!SameInbox, SameFile
<1>3. CASE Renamed!VerifyLedger(p)
  BY <1>1, <1>3 DEF Renamed!VerifyLedger, Renamed!Stale, Renamed!StaleLedger, SameFile
<1>4. CASE Renamed!VerifyMap(p)
  BY <1>1, <1>4 DEF Renamed!VerifyMap, SameFile
<1> QED  BY <1>2, <1>3, <1>4

LEMMA VerifyExcludes ==
    ASSUME RenamedTypes, Excluding, NEW p \in Renamers,
           Renamed!VerifyInbox(p) \/ Renamed!VerifyLedger(p) \/ Renamed!VerifyMap(p)
    PROVE  Excluding'
<1>1. /\ place[p] = "verifying" /\ file' = file /\ aside' = [aside EXCEPT ![p] = None]
  BY VerifyPutsNothingBack DEF Renamed!VerifyInbox, Renamed!VerifyLedger, Renamed!VerifyMap
<1>2. PICK s \in {"cleaning", "trying"} :
         /\ place' = [place EXCEPT ![p] = s]
         /\ s = "cleaning" => judged' = judged
         /\ s = "trying" => judged' = [judged EXCEPT ![p] = None]
  BY DEF Renamed!VerifyInbox, Renamed!VerifyLedger, Renamed!VerifyMap, Renamed!Go, Renamed!Forget
<1>3. s \in Spots /\ s \notin Renamed!AtWork /\ place[p] \notin Renamed!Ended /\ place[p] \notin Renamed!AtWork
      /\ place[p] \in Renamed!Breaking /\ (s \in Renamed!Breaking => s = "cleaning")
  BY <1>1 DEF Spots, Renamed!Breaking, Renamed!AtWork, Renamed!Inside, Renamed!Ended
<1>4. ASSUME NEW q \in Renamers PROVE HasLock(q)'
  BY <1>1, <1>2, <1>3 DEF Excluding, HasLock, RenamedTypes
<1>5. ASSUME NEW q \in Renamers PROVE JudgedWell(q)'
  <2>1. JudgedWell(q) /\ (judged'[q] # None => judged'[q] = judged[q])
    BY <1>2 DEF Excluding, RenamedTypes
  <2>2. place'[q] \in Renamed!Breaking => place[q] \in Renamed!Breaking /\ judged'[q] = judged[q]
    BY <1>2, <1>3 DEF RenamedTypes
  <2>3. place'[q] = "verifying" => place[q] = "verifying" /\ aside'[q] = aside[q]
    BY <1>1, <1>2 DEF RenamedTypes
  <2> QED  BY <1>1, <1>2, <1>3, <2>1, <2>2, <2>3, JudgedKept
<1>6. file # None => place'[file.by] \in Renamed!AtWork \cup Renamed!Ended
  <2>1. file # None => file.by \in Renamers /\ file.by # p
    BY <1>3, FileFields DEF Excluding, RenamedTypes
  <2> QED  BY <1>2, <2>1 DEF Excluding, RenamedTypes
<1> QED  BY <1>1, <1>4, <1>5, <1>6 DEF Excluding

LEMMA RemoveExcludes ==
    ASSUME RenamedTypes, Excluding, NEW p \in Renamers, Renamed!Unlink(p) \/ Renamed!ReleaseLedger(p)
    PROVE  Excluding' /\ file # None /\ file.by = p
<1>1. /\ place[p] \in {"removing", "releasing"} /\ file' = None /\ place' = [place EXCEPT ![p] = "done"]
      /\ aside' = aside /\ judged' = judged
  BY DEF Renamed!Unlink, Renamed!ReleaseLedger, Renamed!Go
<1>2. place[p] \in Renamed!AtWork /\ place[p] \notin Renamed!Ended
  BY <1>1 DEF Renamed!AtWork, Renamed!Ended
<1>3. /\ "done" \in Spots /\ "done" \notin Renamed!AtWork /\ "done" \notin Renamed!Breaking
  BY DEF Spots, Renamed!Ended, Renamed!AtWork, Renamed!Inside, Renamed!Breaking
<1>4. ASSUME NEW q \in Renamers PROVE HasLock(q)'
  <2>1. q # p => place[q] \notin Renamed!AtWork
    BY <1>2, OneAtWork
  <2> QED  BY <1>1, <1>3, <2>1 DEF HasLock, RenamedTypes
<1>5. ASSUME NEW q \in Renamers PROVE JudgedWell(q)'
  <2>1. JudgedWell(q)
    BY DEF Excluding
  <2>2. (place'[q] \in Renamed!Breaking => place[q] \in Renamed!Breaking) /\ (place'[q] = "verifying" => place[q] = "verifying")
    BY <1>1, <1>3 DEF RenamedTypes
  <2> QED  BY <1>1, <1>2, <1>3, <2>1, <2>2, JudgedKept
<1> QED  BY <1>1, <1>2, <1>4, <1>5 DEF Excluding, HasLock

LEMMA AgeExcludes ==
    ASSUME RenamedTypes, Excluding, Renamed!LockAges \/ Renamed!GuardAges
    PROVE  Excluding'
<1>1. CASE Renamed!LockAges
  <2>1. /\ file # None /\ file' = [file EXCEPT !.old = TRUE] /\ aside' = aside /\ judged' = judged /\ place' = place
        /\ place[file.by] \notin Renamed!AtWork
    BY <1>1 DEF Renamed!LockAges, RenamedTypes
  <2>2. file'.by = file.by /\ file'.full = file.full /\ file'.old /\ file' # None
    BY <2>1, FileTyped DEF RenamedTypes
  <2>3. ASSUME NEW q \in Renamers PROVE HasLock(q)'
    BY <2>1, NobodyAtWork DEF HasLock
  <2>4. ASSUME NEW q \in Renamers PROVE JudgedWell(q)'
    BY <2>1, <2>2 DEF Excluding, JudgedWell, SameFile
  <2> QED  BY <2>1, <2>2, <2>3, <2>4 DEF Excluding
<1>2. CASE Renamed!GuardAges
  BY <1>2 DEF Renamed!GuardAges, Excluding, HasLock, JudgedWell
<1> QED  BY <1>1, <1>2


LEMMA RenamedLockExcludes ==
    ASSUME RenamedTypes, Excluding, ~mistaken', NEW p \in Renamers,
           \/ Renamed!Create(p) \/ Renamed!Fill(p) \/ Renamed!FillFails(p) \/ Renamed!GiveUp(p) \/ Renamed!Judge(p)
           \/ Renamed!GuardInbox(p) \/ Renamed!UnguardInbox(p) \/ Renamed!CompareInbox(p) \/ Renamed!Rename(p)
           \/ Renamed!VerifyInbox(p) \/ Renamed!CleanInbox(p) \/ Renamed!LookAgain(p) \/ Renamed!VerifyLedger(p)
           \/ Renamed!VerifyMap(p) \/ Renamed!Unlink(p) \/ Renamed!ReleaseLedger(p) \/ Renamed!Crash(p)
    PROVE  Excluding'
<1> DEFINE Steps7 ==
        \/ Renamed!FillFails(p) \/ Renamed!GiveUp(p) \/ Renamed!GuardInbox(p) \/ Renamed!UnguardInbox(p)
        \/ Renamed!CompareInbox(p) \/ Renamed!CleanInbox(p) \/ Renamed!LookAgain(p) \/ Renamed!Crash(p)
<1>1. CASE Steps7
  <2>1. /\ file' = file /\ aside' = aside /\ place[p] \notin Renamed!Ended
        /\ judged' = judged \/ judged' = [judged EXCEPT ![p] = None]
    BY <1>1 DEF Renamed!FillFails, Renamed!GiveUp, Renamed!GuardInbox, Renamed!UnguardInbox, Renamed!CompareInbox,
                Renamed!CleanInbox, Renamed!LookAgain, Renamed!Crash, Renamed!locking, Renamed!Ended, Renamed!Forget
  <2>2. CASE Renamed!FillFails(p) \/ Renamed!GiveUp(p) \/ Renamed!Crash(p)
    <3>1. PICK s \in Renamed!Ended : place' = [place EXCEPT ![p] = s]
      BY <2>2 DEF Renamed!FillFails, Renamed!GiveUp, Renamed!Crash, Renamed!Go, Renamed!Ended
    <3>2. s \in Spots /\ s \notin Renamed!AtWork /\ s \notin Renamed!Breaking /\ s # "verifying" /\ s # "trying"
      BY SpotNames DEF Renamed!Ended
    <3> QED  BY <2>1, <3>1, <3>2, SteppedAside
  <2>3. CASE \/ Renamed!GuardInbox(p) \/ Renamed!UnguardInbox(p) \/ Renamed!CompareInbox(p)
             \/ Renamed!CleanInbox(p) \/ Renamed!LookAgain(p)
    <3>1. place[p] \in Renamed!Breaking
      BY <2>3 DEF Renamed!GuardInbox, Renamed!UnguardInbox, Renamed!CompareInbox, Renamed!CleanInbox, Renamed!LookAgain,
                  Renamed!Breaking
    <3>2. PICK s \in {"comparing", "unguarding", "trying", "renaming", "cleaning"} :
             place' = [place EXCEPT ![p] = s] /\ (s # "trying" => judged' = judged)
      BY <2>3 DEF Renamed!GuardInbox, Renamed!UnguardInbox, Renamed!CompareInbox, Renamed!CleanInbox, Renamed!LookAgain,
                  Renamed!Go, Renamed!locking
    <3>3. s \in Spots /\ s \notin Renamed!AtWork /\ s # "verifying"
      BY SpotNames DEF Renamed!Breaking, Renamed!AtWork, Renamed!Inside
    <3>4. s \in Renamed!Breaking => s # "trying"
      BY SpotNames
    <3> QED  BY <2>1, <3>1, <3>2, <3>3, <3>4, SteppedAside
  <2> QED  BY <1>1, <2>2, <2>3
<1> QED  BY <1>1, CreateExcludes, FillExcludes, JudgeExcludes, RenameExcludes, VerifyExcludes, RemoveExcludes

LEMMA RenamedWorkExcludes ==
    ASSUME RenamedTypes, Excluding, NEW p \in Renamers, WorkOnly, place[p] \in Renamed!AtWork \ {"filling"},
           NEW s \in (Renamed!AtWork \ {"filling"}) \cup {"done"}, place' = [place EXCEPT ![p] = s]
    PROVE  Excluding'
<1>1. s \in Spots /\ s \notin Renamed!Breaking /\ s # "verifying" /\ s # "trying" /\ place[p] \notin Renamed!Ended
  BY SpotNames DEF Renamed!AtWork, Renamed!Inside, Renamed!Breaking, Renamed!Ended, Spots
<1> QED  BY <1>1, SteppedAside DEF WorkOnly

-----------------------------------------------------------------------------
(* The .break file.                                                        *)
LEMMA GuardKept ==
    ASSUME RenamedTypes, GuardHolds, NEW p \in Renamers, place[p] \notin Guarded, place[p] # "filling",
           NEW s \in Spots, s \notin Guarded, s \notin {"unguarding", "again"}, place' = [place EXCEPT ![p] = s],
           guard' = guard, file' = file, \A q \in Renamers : judged'[q] # None => judged'[q] = judged[q] /\ judged[q] # None,
           \A q \in Renamers : q # p => judged'[q] = judged[q]
    PROVE  GuardHolds'
<1>1. \A q \in Renamers : q # p => place'[q] = place[q]
  BY DEF RenamedTypes
<1>2. place'[p] = s
  BY DEF RenamedTypes
<1>3. guard # None => guard.by \in Renamers /\ guard.by # p /\ place'[guard.by] = place[guard.by]
  <2>1. guard # None => guard.by \in Renamers
    BY GuardTyped DEF RenamedTypes
  <2> QED  BY <1>1, <2>1 DEF GuardHolds
<1>4. file # None => file.full \/ place'[file.by] = "filling"
  <2>1. file # None => file.by \in Renamers
    BY FileFields DEF RenamedTypes
  <2> QED  BY <1>1, <2>1 DEF GuardHolds
<1>5. ASSUME NEW q \in Renamers
      PROVE  /\ place'[q] \in Guarded => guard' # None /\ guard'.by = q
             /\ judged'[q] # None => judged'[q].full
             /\ place'[q] \notin {"unguarding", "again"}
             /\ place'[q] = "renaming" => file' # None /\ file'.by = judged'[q].by
  BY <1>1, <1>2 DEF GuardHolds, Guarded
<1> QED  BY <1>3, <1>4, <1>5 DEF GuardHolds

LEMMA CreateGuards ==
    ASSUME RenamedTypes, Excluding, GuardHolds, NEW p \in Renamers, Renamed!Create(p)
    PROVE  GuardHolds'
<1>1. /\ place[p] = "trying" /\ file = None /\ place' = [place EXCEPT ![p] = "filling"]
      /\ file' = [by |-> p, full |-> FALSE, old |-> FALSE] /\ guard' = guard /\ judged' = judged
  BY DEF Renamed!Create, Renamed!Go
<1>2. file'.by = p /\ place'[p] = "filling"
  BY <1>1 DEF RenamedTypes
<1>3. guard # None => guard.by \in Renamers /\ guard.by # p /\ place'[guard.by] = place[guard.by]
  BY <1>1, GuardTyped DEF RenamedTypes, GuardHolds, Guarded
<1>4. ASSUME NEW q \in Renamers
      PROVE  /\ place'[q] \in Guarded => guard' # None /\ guard'.by = q
             /\ judged'[q] # None => judged'[q].full
             /\ place'[q] \notin {"unguarding", "again"}
             /\ place'[q] # "renaming"
  BY <1>1 DEF GuardHolds, Guarded, RenamedTypes
<1> QED  BY <1>1, <1>2, <1>3, <1>4 DEF GuardHolds

LEMMA FillGuards ==
    ASSUME RenamedTypes, Excluding, GuardHolds, NEW p \in Renamers, Renamed!Fill(p)
    PROVE  GuardHolds'
<1>1. /\ place[p] = "filling" /\ place' = [place EXCEPT ![p] = "entered"]
      /\ file' = Renamed!Written(file, p) /\ guard' = guard /\ judged' = judged
  BY DEF Renamed!Fill, Renamed!Go
<1>2. file # None /\ file.by = p
  BY <1>1 DEF Excluding, HasLock, Renamed!AtWork
<1>3. file' # None /\ file'.by = p /\ file'.full
  BY <1>1, <1>2, FileTyped DEF Renamed!Written, RenamedTypes
<1>4. guard # None => guard.by \in Renamers /\ guard.by # p /\ place'[guard.by] = place[guard.by]
  BY <1>1, GuardTyped DEF RenamedTypes, GuardHolds, Guarded
<1>5. ASSUME NEW q \in Renamers
      PROVE  /\ place'[q] \in Guarded => guard' # None /\ guard'.by = q
             /\ judged'[q] # None => judged'[q].full
             /\ place'[q] \notin {"unguarding", "again"}
             /\ place'[q] = "renaming" => file' # None /\ file'.by = judged'[q].by
  BY <1>1, <1>2, <1>3 DEF GuardHolds, Guarded, RenamedTypes
<1> QED  BY <1>1, <1>3, <1>4, <1>5 DEF GuardHolds

LEMMA JudgeGuards ==
    ASSUME RenamedTypes, Excluding, GuardHolds, kind = "inbox", NEW p \in Renamers, Renamed!Judge(p)
    PROVE  GuardHolds'
<1>1. /\ place[p] = "trying" /\ file # None /\ Renamed!StaleInbox(file) /\ file' = file /\ guard' = guard
      /\ judged' = [judged EXCEPT ![p] = file] /\ place' = [place EXCEPT ![p] = "guarding"]
  BY DEF Renamed!Judge, Renamed!Go, Renamed!Stale
<1>2. file.by \in Renamers /\ file.by # p /\ place'[file.by] = place[file.by]
  BY <1>1, FileFields, SpotNames DEF Excluding, RenamedTypes
<1>3. file.full
  <2>1. CASE place[file.by] = "filling"
    BY <1>1, <1>2, <2>1 DEF Excluding, HasLock, Renamed!AtWork, Renamed!StaleInbox
  <2> QED  BY <1>1, <2>1 DEF GuardHolds
<1>4. guard # None => guard.by \in Renamers /\ guard.by # p /\ place'[guard.by] = place[guard.by]
  BY <1>1, GuardTyped DEF RenamedTypes, GuardHolds, Guarded
<1>5. ASSUME NEW q \in Renamers
      PROVE  /\ place'[q] \in Guarded => guard' # None /\ guard'.by = q
             /\ judged'[q] # None => judged'[q].full
             /\ place'[q] \notin {"unguarding", "again"}
             /\ place'[q] = "renaming" => file' # None /\ file'.by = judged'[q].by
  BY <1>1, <1>3 DEF GuardHolds, Guarded, RenamedTypes
<1> QED  BY <1>1, <1>3, <1>4, <1>5 DEF GuardHolds


LEMMA BreakGuards ==
    ASSUME RenamedTypes, Excluding, GuardHolds, NEW p \in Renamers,
           Renamed!GuardInbox(p) \/ Renamed!UnguardInbox(p) \/ Renamed!CompareInbox(p) \/ Renamed!CleanInbox(p)
    PROVE  GuardHolds'
<1>1. file' = file /\ \A q \in Renamers \ {p} : place'[q] = place[q] /\ judged'[q] = judged[q]
  BY DEF Renamed!GuardInbox, Renamed!UnguardInbox, Renamed!CompareInbox, Renamed!CleanInbox, Renamed!Go, Renamed!Forget,
         Renamed!locking, RenamedTypes
<1>2. file # None => file.full \/ place'[file.by] = "filling"
  <2>1. file # None => file.by \in Renamers
    BY FileFields DEF RenamedTypes
  <2>2. place[p] # "filling"
    BY DEF Renamed!GuardInbox, Renamed!UnguardInbox, Renamed!CompareInbox, Renamed!CleanInbox
  <2> QED  BY <1>1, <2>1, <2>2 DEF GuardHolds
<1>3. guard # None => guard.by \in Renamers /\ guard.old \in BOOLEAN
  BY GuardTyped DEF RenamedTypes
<1>4. CASE Renamed!GuardInbox(p) /\ guard = None
  <2>1. /\ guard' = [by |-> p, old |-> FALSE] /\ place' = [place EXCEPT ![p] = "comparing"] /\ judged' = judged
    BY <1>4 DEF Renamed!GuardInbox, Renamed!Go
  <2>2. guard'.by = p /\ ~guard'.old /\ guard' # None /\ place'[p] = "comparing"
    BY <2>1, NewFile DEF RenamedTypes
  <2>3. \A q \in Renamers : place[q] \notin Guarded
    BY <1>4 DEF GuardHolds
  <2> QED  BY <1>1, <1>2, <2>1, <2>2, <2>3 DEF GuardHolds, Guarded
<1>5. CASE Renamed!GuardInbox(p) /\ guard # None
  <2>1. guard' = guard /\ place[p] = "guarding" /\ place'[p] = "trying" /\ judged'[p] = None
    BY <1>3, <1>5 DEF Renamed!GuardInbox, Renamed!Go, Renamed!Forget, GuardHolds, RenamedTypes
  <2>2. guard.by # p
    BY <1>5, <2>1 DEF GuardHolds, Guarded
  <2> QED  BY <1>1, <1>2, <1>3, <2>1, <2>2 DEF GuardHolds, Guarded
<1>6. CASE Renamed!UnguardInbox(p)
  BY <1>6 DEF Renamed!UnguardInbox, GuardHolds
<1>7. CASE Renamed!CompareInbox(p)
  <2>1. /\ place[p] = "comparing" /\ guard' = guard /\ judged' = judged
        /\ place'[p] \in {"renaming", "cleaning"}
        /\ place'[p] = "renaming" => file # None /\ Renamed!SameInbox(file, judged[p])
    BY <1>7 DEF Renamed!CompareInbox, Renamed!Go, Renamed!locking, RenamedTypes
  <2>2. judged[p].full
    BY <2>1 DEF GuardHolds, Excluding, JudgedWell, Renamed!Breaking
  <2>3. place'[p] = "renaming" => file # None /\ file.by = judged[p].by
    BY <2>1, <2>2 DEF Renamed!SameInbox
  <2>4. guard # None /\ guard.by = p
    BY <2>1 DEF GuardHolds, Guarded
  <2>5. \A q \in Renamers \ {p} : place'[q] \notin Guarded /\ place'[q] \notin {"unguarding", "again"}
    BY <1>1, <2>4 DEF GuardHolds
  <2> QED  BY <1>1, <1>2, <2>1, <2>3, <2>4, <2>5 DEF GuardHolds, Guarded
<1>8. CASE Renamed!CleanInbox(p)
  <2>1. place[p] = "cleaning" /\ guard' = None /\ place'[p] = "trying" /\ judged'[p] = None
    BY <1>8 DEF Renamed!CleanInbox, Renamed!Go, Renamed!Forget, RenamedTypes
  <2>2. \A q \in Renamers : place[q] \in Guarded => q = p
    BY <2>1 DEF GuardHolds, Guarded
  <2> QED  BY <1>1, <1>2, <2>1, <2>2 DEF GuardHolds, Guarded
<1> QED  BY <1>4, <1>5, <1>6, <1>7, <1>8

LEMMA RenameGuards ==
    ASSUME RenamedTypes, Excluding, GuardHolds, kind = "inbox", NEW p \in Renamers, Renamed!Rename(p)
    PROVE  GuardHolds' /\ mistaken' = mistaken
<1>1. /\ place[p] = "renaming" /\ file # None /\ file.by = judged[p].by
  BY DEF Renamed!Rename, GuardHolds
<1>2. /\ file' = None /\ place' = [place EXCEPT ![p] = "verifying"] /\ judged' = judged /\ guard' = guard
      /\ mistaken' = mistaken
  BY <1>1 DEF Renamed!Rename, Renamed!Go, RenamedTypes
<1>3. guard # None /\ guard.by = p /\ ~guard.old
  BY <1>1 DEF GuardHolds, Guarded
<1>4. \A q \in Renamers : place'[q] \in Guarded => q = p
  BY <1>1, <1>2, <1>3 DEF GuardHolds, Guarded, RenamedTypes
<1>5. place'[p] = "verifying" /\ \A q \in Renamers : place'[q] \notin {"unguarding", "again"}
  BY <1>2 DEF GuardHolds, RenamedTypes
<1> QED  BY <1>2, <1>3, <1>4, <1>5 DEF GuardHolds, Guarded

LEMMA VerifyGuards ==
    ASSUME RenamedTypes, Excluding, GuardHolds, NEW p \in Renamers, Renamed!VerifyInbox(p)
    PROVE  GuardHolds'
<1>1. /\ place[p] = "verifying" /\ file' = file /\ place' = [place EXCEPT ![p] = "cleaning"] /\ judged' = judged
      /\ guard' = guard
  BY VerifyPutsNothingBack DEF Renamed!VerifyInbox, Renamed!Go
<1>2. guard # None /\ guard.by = p /\ ~guard.old
  BY <1>1 DEF GuardHolds, Guarded
<1>3. \A q \in Renamers : place'[q] \in Guarded => q = p
  BY <1>1, <1>2 DEF GuardHolds, Guarded, RenamedTypes
<1>4. place'[p] = "cleaning" /\ \A q \in Renamers : place'[q] \notin {"unguarding", "again"}
  BY <1>1 DEF GuardHolds, RenamedTypes
<1>5. file # None => file.full \/ place'[file.by] = "filling"
  <2>1. file # None => file.by \in Renamers
    BY FileFields DEF RenamedTypes
  <2> QED  BY <1>1, <2>1 DEF GuardHolds, RenamedTypes
<1> QED  BY <1>1, <1>2, <1>3, <1>4, <1>5 DEF GuardHolds, Guarded

LEMMA UnlinkGuards ==
    ASSUME RenamedTypes, Excluding, GuardHolds, NEW p \in Renamers, Renamed!Unlink(p)
    PROVE  GuardHolds'
<1>1. /\ place[p] = "removing" /\ file' = None /\ place' = [place EXCEPT ![p] = "done"] /\ judged' = judged
      /\ guard' = guard /\ file # None /\ file.by = p
  BY RemoveExcludes DEF Renamed!Unlink, Renamed!Go
<1>2. ASSUME NEW q \in Renamers PROVE place[q] # "renaming"
  <2>1. place[q] = "renaming" => judged[q] # None /\ place[judged[q].by] \in Renamed!Ended /\ file.by = judged[q].by
    BY DEF Excluding, JudgedWell, GuardHolds, Renamed!Breaking
  <2> QED  BY <1>1, <2>1 DEF Renamed!Ended
<1>3. guard # None => guard.by \in Renamers /\ guard.by # p /\ place'[guard.by] = place[guard.by]
  BY <1>1, GuardTyped DEF RenamedTypes, GuardHolds, Guarded
<1>4. ASSUME NEW q \in Renamers
      PROVE  /\ place'[q] \in Guarded => guard' # None /\ guard'.by = q
             /\ judged'[q] # None => judged'[q].full
             /\ place'[q] \notin {"unguarding", "again"} /\ place'[q] # "renaming"
  BY <1>1, <1>2 DEF GuardHolds, Guarded, RenamedTypes
<1> QED  BY <1>1, <1>3, <1>4 DEF GuardHolds

LEMMA AgeGuards ==
    ASSUME RenamedTypes, Excluding, GuardHolds, Renamed!LockAges \/ Renamed!GuardAges
    PROVE  GuardHolds'
<1>1. CASE Renamed!LockAges
  <2>1. /\ file # None /\ file' = [file EXCEPT !.old = TRUE] /\ judged' = judged /\ place' = place /\ guard' = guard
    BY <1>1 DEF Renamed!LockAges
  <2>2. file'.by = file.by /\ file'.full = file.full /\ file' # None
    BY <2>1, FileTyped DEF RenamedTypes
  <2> QED  BY <2>1, <2>2 DEF GuardHolds
<1>2. CASE Renamed!GuardAges
  <2>1. guard # None /\ place[guard.by] \notin Renamed!Breaking
    BY <1>2 DEF Renamed!GuardAges, RenamedTypes
  <2> QED  BY <2>1 DEF GuardHolds, Guarded, Renamed!Breaking
<1> QED  BY <1>1, <1>2

LEMMA OtherGuards ==
    ASSUME RenamedTypes, Excluding, GuardHolds, ~unguarded', NEW p \in Renamers,
           \/ Renamed!FillFails(p) \/ Renamed!GiveUp(p) \/ Renamed!Crash(p)
    PROVE  GuardHolds'
<1>1. /\ place[p] # "filling" /\ place[p] \notin Guarded
  <2>1. CASE Renamed!Crash(p)
    BY <2>1 DEF Renamed!Crash, GuardHolds
  <2>2. CASE Renamed!GiveUp(p)
    BY <2>2 DEF Renamed!GiveUp, Guarded
  <2>3. ~Renamed!FillFails(p)
    BY DEF Renamed!FillFails
  <2> QED  BY <2>1, <2>2, <2>3
<1>2. /\ guard' = guard /\ file' = file
      /\ judged' = judged \/ judged' = [judged EXCEPT ![p] = None]
  BY DEF Renamed!FillFails, Renamed!GiveUp, Renamed!Crash, Renamed!Forget, Renamed!locking
<1>3. PICK s \in {"failed", "dead"} : place' = [place EXCEPT ![p] = s]
  BY DEF Renamed!FillFails, Renamed!GiveUp, Renamed!Crash, Renamed!Go
<1>4. s \in Spots /\ s \notin Guarded /\ s \notin {"unguarding", "again"}
  BY DEF Spots, Guarded, Renamed!Ended
<1>5. \A q \in Renamers : (judged'[q] # None => judged'[q] = judged[q] /\ judged[q] # None) /\ (q # p => judged'[q] = judged[q])
  BY <1>2 DEF RenamedTypes
<1> QED  BY <1>1, <1>2, <1>3, <1>4, <1>5, GuardKept


-----------------------------------------------------------------------------
(* What is done under the lock is done by one.                             *)
LEMMA LockKeepsWork ==
    ASSUME RenamedTypes, WorkStands, LockOnly, NEW p \in Renamers, NEW s \in Spots,
           place' = [place EXCEPT ![p] = s], s \notin {"read", "rotating", "appending"}, s \in Told => place[p] \in Told
    PROVE  WorkStands'
<1>1. \A q \in Renamers : /\ place'[q] \in {"read", "rotating", "appending"} => place'[q] = place[q]
                          /\ place'[q] \in Told => place[q] \in Told
  BY DEF RenamedTypes
<1>2. ASSUME NEW q \in Renamers
      PROVE  /\ place'[q] = "read" => known'[q] = data'
             /\ place'[q] \in Told /\ kind' = "map" =>
                   (q \in known'[q] => q \in data') /\ (Other \in known'[q] => Other \notin data')
             /\ place'[q] \in Told /\ kind' = "id" => known'[q] \in {{}, data'}
             /\ place'[q] \in {"rotating", "appending"} => kind' = "ledger"
             /\ place'[q] = "rotating" /\ turn'[q] < Keep => slots'[turn'[q] + 1] = <<>>
  BY <1>1 DEF WorkStands, LockOnly
<1> QED  BY <1>2 DEF WorkStands, LockOnly

LEMMA RenamedLockKeepsWork ==
    ASSUME RenamedTypes, WorkStands, LockOnly, NEW p \in Renamers,
           \/ Renamed!Create(p) \/ Renamed!Fill(p) \/ Renamed!FillFails(p) \/ Renamed!GiveUp(p) \/ Renamed!Judge(p)
           \/ Renamed!GuardInbox(p) \/ Renamed!UnguardInbox(p) \/ Renamed!CompareInbox(p) \/ Renamed!Rename(p)
           \/ Renamed!VerifyInbox(p) \/ Renamed!CleanInbox(p) \/ Renamed!LookAgain(p) \/ Renamed!VerifyLedger(p)
           \/ Renamed!VerifyMap(p) \/ Renamed!Unlink(p) \/ Renamed!ReleaseLedger(p) \/ Renamed!Crash(p)
    PROVE  WorkStands'
<1>1. PICK s \in {"filling", "entered", "failed", "trying", "dead"} \cup Renamed!Breaking \cup {"done"} :
         place' = [place EXCEPT ![p] = s] /\ (s = "done" => place[p] \in {"removing", "releasing"})
  BY DEF Renamed!Create, Renamed!Fill, Renamed!FillFails, Renamed!GiveUp, Renamed!Judge, Renamed!GuardInbox,
         Renamed!UnguardInbox, Renamed!CompareInbox, Renamed!Rename, Renamed!VerifyInbox, Renamed!CleanInbox,
         Renamed!LookAgain, Renamed!VerifyLedger, Renamed!VerifyMap, Renamed!Unlink, Renamed!ReleaseLedger,
         Renamed!Crash, Renamed!Go, Renamed!Breaking
<1>2. s \in Spots /\ s \notin {"read", "rotating", "appending"} /\ (s \in Told => s = "done")
  BY DEF Spots, Renamed!Breaking, Renamed!AtWork, Renamed!Inside, Renamed!Ended, Told
<1> QED  BY <1>1, <1>2, LockKeepsWork DEF Told

LEMMA AgeKeepsWork ==
    ASSUME WorkStands, LockOnly, place' = place
    PROVE  WorkStands'
  BY DEF WorkStands, LockOnly

(* One at work: the others have been told, or have not yet looked.         *)
LEMMA WorkStep ==
    ASSUME RenamedTypes, Excluding, WorkStands, WorkOnly, NEW p \in Renamers,
           place[p] \in Renamed!AtWork \ {"filling"}, NEW s \in (Renamed!AtWork \ {"filling"}) \cup {"done"},
           place' = [place EXCEPT ![p] = s], \A q \in Renamers \ {p} : known'[q] = known[q],
           IsFiniteSet(data'), kind = "inbox" => Cardinality(data') <= Cap,
           kind = "id" => (data' = {} \/ \E q \in Renamers : data' = {q}) /\ (data # {} => data' = data),
           kind = "map" => \A q \in Renamers \ {p} : (q \in data => q \in data') /\ (Other \notin data => Other \notin data'),
           s = "read" => known'[p] = data',
           s \in Told /\ kind = "map" => (p \in known'[p] => p \in data') /\ (Other \in known'[p] => Other \notin data'),
           s \in Told /\ kind = "id" => known'[p] \in {{}, data'},
           s \in {"rotating", "appending"} => kind = "ledger",
           s = "rotating" /\ turn'[p] < Keep => slots'[turn'[p] + 1] = <<>>
    PROVE  WorkStands'
<1>1. kind' = kind
  BY DEF WorkOnly
<1>2. ASSUME NEW q \in Renamers
      PROVE  /\ place'[q] = "read" => known'[q] = data'
             /\ place'[q] \in Told /\ kind' = "map" =>
                   (q \in known'[q] => q \in data') /\ (Other \in known'[q] => Other \notin data')
             /\ place'[q] \in Told /\ kind' = "id" => known'[q] \in {{}, data'}
             /\ place'[q] \in {"rotating", "appending"} => kind' = "ledger"
             /\ place'[q] = "rotating" /\ turn'[q] < Keep => slots'[turn'[q] + 1] = <<>>
  <2>1. CASE q = p
    <3>1. place'[q] = s
      BY <2>1 DEF RenamedTypes
    <3> QED  BY <1>1, <2>1, <3>1
  <2>2. CASE q # p
    <3>1. place'[q] = place[q] /\ place[q] \notin Renamed!AtWork
      BY <2>2, OneAtWork DEF RenamedTypes
    <3>2. place'[q] \notin {"read", "rotating", "appending"} /\ (place'[q] \in Told => place[q] \in Told)
      BY <3>1 DEF Renamed!AtWork, Renamed!Inside
    <3>3. ASSUME kind = "id", place[q] \in Told PROVE known'[q] \in {{}, data'}
      <4>1. known'[q] = known[q] /\ known[q] \in {{}, data}
        BY <2>2, <3>3 DEF WorkStands
      <4> QED  BY <3>3, <4>1
    <3>4. ASSUME kind = "map", place[q] \in Told
          PROVE  (q \in known'[q] => q \in data') /\ (Other \in known'[q] => Other \notin data')
      BY <2>2, <3>4 DEF WorkStands
    <3> QED  BY <1>1, <3>2, <3>3, <3>4
  <2> QED  BY <2>1, <2>2
<1> QED  BY <1>1, <1>2 DEF WorkStands

LEMMA RenamedWorkStands ==
    ASSUME RenamedTypes, Excluding, WorkStands, WorkOnly, NEW p \in Renamers,
           \/ Renamed!Read(p) \/ Renamed!CreateProposal(p) \/ Renamed!RegisterSelf(p) \/ Renamed!ForgetSelf(p)
           \/ Renamed!EnsureSelfId(p) \/ Renamed!Measure(p) \/ Renamed!Rotate(p) \/ Renamed!AppendLine(p)
           \/ Renamed!WorkFails(p) \/ Renamed!CheckOwn(p)
    PROVE  WorkStands'
<1>1. /\ place[p] \in Renamed!AtWork \ {"filling"}
      /\ known \in [Renamers -> SUBSET Holders] /\ turn \in [Renamers -> 0 .. Keep]
      /\ slots \in [0 .. Keep -> Seq(Holders)] /\ Keep \in Nat /\ Cap \in Nat /\ Other \notin Renamers
  BY RenamedWorkTypes, RenamedAssumption DEF RenamedTypes
<1>2. /\ IsFiniteSet(data)
      /\ kind = "inbox" => Cardinality(data) <= Cap
      /\ kind = "id" => data = {} \/ \E q \in Renamers : data = {q}
      /\ place[p] = "read" => known[p] = data
      /\ place[p] \in Told /\ kind = "map" =>
            (p \in known[p] => p \in data) /\ (Other \in known[p] => Other \notin data)
      /\ place[p] \in Told /\ kind = "id" => known[p] \in {{}, data}
      /\ place[p] \in {"rotating", "appending"} => kind = "ledger"
      /\ place[p] = "rotating" /\ turn[p] < Keep => slots[turn[p] + 1] = <<>>
  BY DEF WorkStands
<1>3. CASE Renamed!Read(p)
  <2>1. /\ place' = [place EXCEPT ![p] = "read"] /\ data' = data /\ known' = [known EXCEPT ![p] = data]
    BY <1>3 DEF Renamed!Read, Renamed!Go
  <2>2. "read" \in Renamed!AtWork \ {"filling"} /\ "read" \notin Told
    BY DEF Renamed!AtWork, Renamed!Inside, Told
  <2>3. known'[p] = data /\ \A q \in Renamers \ {p} : known'[q] = known[q]
    BY <1>1, <2>1
  <2> QED  BY <1>1, <1>2, <2>1, <2>2, <2>3, WorkStep
<1> DEFINE Ends == place' = [place EXCEPT ![p] = "releasing"]
<1>4. "releasing" \in Renamed!AtWork \ {"filling"}
  BY DEF Renamed!AtWork
<1>5. CASE Renamed!CreateProposal(p)
  <2>1. /\ place[p] = "read" /\ kind = "inbox" /\ Ends /\ known' = known
        /\ data' = IF Cardinality(known[p]) < Cap THEN data \cup {p} ELSE data
    BY <1>5 DEF Renamed!CreateProposal, Renamed!Go, Renamed!Cardinality, Cardinality
  <2>2. IsFiniteSet(data') /\ Cardinality(data') <= Cap
    <3>1. Cardinality(data) \in Nat
      BY <1>2, FS_CardinalityType
    <3>2. IsFiniteSet(data \cup {p}) /\ (Cardinality(data \cup {p}) = Cardinality(data) \/ Cardinality(data \cup {p}) = Cardinality(data) + 1)
      BY <1>2, FS_AddElement
    <3> QED  BY <1>1, <1>2, <2>1, <3>1, <3>2
  <2> QED  BY <1>1, <1>4, <2>1, <2>2, WorkStep
<1>6. CASE Renamed!RegisterSelf(p)
  <2>1. /\ place[p] = "read" /\ kind = "map" /\ Ends /\ data' = known[p] \cup {p}
        /\ known' = [known EXCEPT ![p] = {p}]
    BY <1>6 DEF Renamed!RegisterSelf, Renamed!Go
  <2>2. data' = data \cup {p} /\ IsFiniteSet(data')
    BY <1>2, <2>1, FS_AddElement
  <2>3. known'[p] = {p} /\ \A q \in Renamers \ {p} : known'[q] = known[q]
    BY <1>1, <2>1
  <2> QED  BY <1>1, <1>2, <1>4, <2>1, <2>2, <2>3, WorkStep
<1>7. CASE Renamed!ForgetSelf(p)
  <2>1. /\ place[p] = "read" /\ kind = "map" /\ Ends /\ data' = known[p] \ {Other}
        /\ known' = [known EXCEPT ![p] = {Other}]
    BY <1>7 DEF Renamed!ForgetSelf, Renamed!Go
  <2>2. data' = data \ {Other} /\ IsFiniteSet(data')
    BY <1>2, <2>1, FS_RemoveElement
  <2>3. known'[p] = {Other} /\ \A q \in Renamers \ {p} : known'[q] = known[q]
    BY <1>1, <2>1
  <2> QED  BY <1>1, <1>2, <1>4, <2>1, <2>2, <2>3, WorkStep
<1>8. CASE Renamed!EnsureSelfId(p)
  <2>1. /\ place[p] = "read" /\ kind = "id" /\ Ends /\ data' = (IF known[p] = {} THEN {p} ELSE data)
        /\ known' = [known EXCEPT ![p] = IF known[p] = {} THEN {p} ELSE known[p]]
    BY <1>8 DEF Renamed!EnsureSelfId, Renamed!Go
  <2>2. data' = (IF data = {} THEN {p} ELSE data) /\ IsFiniteSet(data')
    BY <1>2, <2>1, FS_Singleton
  <2>3. known'[p] = data' /\ \A q \in Renamers \ {p} : known'[q] = known[q]
    BY <1>1, <1>2, <2>1, <2>2
  <2>4. (data' = {} \/ \E q \in Renamers : data' = {q}) /\ (data # {} => data' = data)
    BY <1>2, <2>1, <2>2
  <2> QED  BY <1>1, <1>4, <2>1, <2>2, <2>3, <2>4, WorkStep
<1>9. CASE Renamed!Measure(p)
  <2>1. /\ kind = "ledger" /\ data' = data /\ known' = known /\ turn' = [turn EXCEPT ![p] = Keep]
    BY <1>9 DEF Renamed!Measure
  <2>2. PICK s \in {"rotating", "appending"} : place' = [place EXCEPT ![p] = s]
    BY <1>9 DEF Renamed!Measure, Renamed!Go
  <2>3. s \in Renamed!AtWork \ {"filling"} /\ s # "read" /\ s \notin Told /\ turn'[p] = Keep /\ ~(turn'[p] < Keep)
    BY <1>1, <2>1 DEF Renamed!AtWork, Renamed!Inside, Told
  <2> QED  BY <1>1, <1>2, <2>1, <2>2, <2>3, WorkStep
<1>10. CASE Renamed!Rotate(p)
  <2>1. /\ kind = "ledger" /\ data' = data /\ known' = known
        /\ turn' = [turn EXCEPT ![p] = IF turn[p] = 0 THEN 0 ELSE turn[p] - 1]
    BY <1>1, <1>2, <1>10 DEF Renamed!Rotate
  <2>2. PICK s \in {"rotating", "appending"} :
           place' = [place EXCEPT ![p] = s] /\ (s = "rotating" => turn[p] # 0)
    BY <1>10 DEF Renamed!Rotate, Renamed!Go
  <2>3. s \in Renamed!AtWork \ {"filling"} /\ s # "read" /\ s \notin Told
    BY DEF Renamed!AtWork, Renamed!Inside, Told
  <2>4. ASSUME s = "rotating" PROVE slots'[turn'[p] + 1] = <<>>
    <3>1. turn'[p] + 1 = turn[p] /\ turn[p] \in 0 .. Keep
      BY <1>1, <2>1, <2>2, <2>4
    <3>2. slots'[turn[p]] = <<>>
      BY <1>1, <1>10, <3>1 DEF Renamed!Rotate
    <3> QED  BY <3>1, <3>2
  <2> QED  BY <1>1, <1>2, <2>1, <2>2, <2>3, <2>4, WorkStep
<1>11. CASE Renamed!AppendLine(p)
  <2>1. kind = "ledger" /\ data' = data /\ known' = known /\ Ends
    BY <1>2, <1>11 DEF Renamed!AppendLine, Renamed!Go
  <2> QED  BY <1>1, <1>2, <1>4, <2>1, WorkStep
<1>12. CASE Renamed!WorkFails(p)
  <2>1. /\ data' = data /\ known' = [known EXCEPT ![p] = {}] /\ Ends
    BY <1>12 DEF Renamed!WorkFails, Renamed!Go
  <2>2. known'[p] = {} /\ \A q \in Renamers \ {p} : known'[q] = known[q]
    BY <1>1, <2>1
  <2> QED  BY <1>1, <1>2, <1>4, <2>1, <2>2, WorkStep
<1>13. CASE Renamed!CheckOwn(p)
  <2>1. /\ place[p] = "releasing" /\ data' = data /\ known' = known
    BY <1>13 DEF Renamed!CheckOwn, Renamed!work
  <2>2. PICK s \in {"removing", "done"} : place' = [place EXCEPT ![p] = s]
    BY <1>13 DEF Renamed!CheckOwn, Renamed!Go
  <2>3. s \in (Renamed!AtWork \ {"filling"}) \cup {"done"} /\ s \notin {"read", "rotating", "appending"} /\ place[p] \in Told
    BY <2>1 DEF Renamed!AtWork, Renamed!Inside, Told
  <2> QED  BY <1>1, <1>2, <2>1, <2>2, <2>3, WorkStep
<1> QED  BY <1>3, <1>5, <1>6, <1>7, <1>8, <1>9, <1>10, <1>11, <1>12, <1>13


-----------------------------------------------------------------------------
LEMMA RenamedInit == Renamed!Init /\ prompt => RenamedInv
<1> SUFFICES ASSUME Renamed!Init, prompt PROVE RenamedInv
  OBVIOUS
<1>1. RenamedTypes
  BY RenamedTypesInit
<1>2. /\ place = [p \in Renamers |-> "trying"] /\ file = None /\ judged = [p \in Renamers |-> None] /\ guard = None
      /\ data = IF kind = "map" THEN {Other} ELSE {}
  BY DEF Renamed!Init
<1>3. \A p \in Renamers : /\ place[p] = "trying" /\ judged[p] = None
                          /\ place[p] \notin Renamed!AtWork /\ place[p] \notin Renamed!Breaking
  BY <1>2, SpotNames
<1>4. Excluding
  BY <1>2, <1>3 DEF Excluding, HasLock, JudgedWell
<1>5. WorkStands
  <2>1. IsFiniteSet(data) /\ (kind # "map" => Cardinality(data) = 0)
    BY <1>2, FS_EmptySet, FS_Singleton
  <2> QED  BY <1>2, <1>3, <2>1, RenamedAssumption DEF WorkStands, Told
<1>6. GuardHolds
  BY <1>2, <1>3 DEF GuardHolds, Guarded
<1>7. ~mistaken
  BY DEF Renamed!Init
<1> QED  BY <1>1, <1>4, <1>5, <1>6, <1>7 DEF RenamedInv

RenamedLockStep(p) ==
    \/ Renamed!Create(p) \/ Renamed!Fill(p) \/ Renamed!FillFails(p) \/ Renamed!GiveUp(p) \/ Renamed!Judge(p)
    \/ Renamed!GuardInbox(p) \/ Renamed!UnguardInbox(p) \/ Renamed!CompareInbox(p) \/ Renamed!Rename(p)
    \/ Renamed!VerifyInbox(p) \/ Renamed!CleanInbox(p) \/ Renamed!LookAgain(p) \/ Renamed!VerifyLedger(p)
    \/ Renamed!VerifyMap(p) \/ Renamed!Unlink(p) \/ Renamed!ReleaseLedger(p) \/ Renamed!Crash(p)
UnderLock(p) ==
    \/ Renamed!Read(p) \/ Renamed!CreateProposal(p) \/ Renamed!RegisterSelf(p) \/ Renamed!ForgetSelf(p)
    \/ Renamed!EnsureSelfId(p) \/ Renamed!Measure(p) \/ Renamed!Rotate(p) \/ Renamed!AppendLine(p)
    \/ Renamed!WorkFails(p) \/ Renamed!CheckOwn(p)

LEMMA RenamedSteps ==
    ASSUME Renamed!Next
    PROVE  \/ \E p \in Renamers : RenamedLockStep(p) \/ UnderLock(p)
           \/ Renamed!LockAges \/ Renamed!GuardAges
  BY DEF Renamed!Next, RenamedLockStep, UnderLock

(* A mistake is not taken back, nor is what a crash leaves.                *)
LEMMA MistakesStay ==
    ASSUME RenamedTypes, Renamed!Next
    PROVE  (~mistaken' => ~mistaken) /\ (~unguarded' => ~unguarded)
<1>1. ASSUME NEW p \in Renamers, RenamedLockStep(p) PROVE (mistaken => mistaken') /\ (unguarded => unguarded')
  <2>1. CASE Renamed!Rename(p)
    BY <2>1 DEF Renamed!Rename
  <2>2. CASE Renamed!FillFails(p)
    BY <2>2 DEF Renamed!FillFails
  <2>3. CASE Renamed!Crash(p)
    BY <2>3 DEF Renamed!Crash
  <2> QED
    BY <1>1, <2>1, <2>2, <2>3
    DEF RenamedLockStep, Renamed!Create, Renamed!Fill, Renamed!GiveUp, Renamed!Judge, Renamed!GuardInbox,
        Renamed!UnguardInbox, Renamed!CompareInbox, Renamed!VerifyInbox, Renamed!CleanInbox,
        Renamed!LookAgain, Renamed!VerifyLedger, Renamed!VerifyMap, Renamed!Unlink, Renamed!ReleaseLedger,
        Renamed!history
<1>2. ASSUME NEW p \in Renamers, UnderLock(p) PROVE (mistaken => mistaken') /\ (unguarded => unguarded')
  BY <1>2, RenamedWorkTypes DEF UnderLock, WorkOnly
<1>3. ASSUME Renamed!LockAges \/ Renamed!GuardAges PROVE (mistaken => mistaken') /\ (unguarded => unguarded')
  BY <1>3 DEF Renamed!LockAges, Renamed!GuardAges, Renamed!history
<1> QED  BY <1>1, <1>2, <1>3, RenamedSteps

LEMMA RenamedTypesNext ==
    ASSUME RenamedTypes, Renamed!Next
    PROVE  RenamedTypes' /\ kind' = kind
<1>1. ASSUME NEW p \in Renamers, RenamedLockStep(p) PROVE RenamedTypes' /\ LockOnly
  BY <1>1, RenamedLockTypes, RenamedLeaveTypes DEF RenamedLockStep
<1>2. ASSUME NEW p \in Renamers, UnderLock(p) PROVE RenamedTypes' /\ WorkOnly
  BY <1>2, RenamedWorkTypes DEF UnderLock
<1> QED  BY <1>1, <1>2, RenamedAgeTypes, RenamedSteps DEF LockOnly, WorkOnly

LEMMA ExcludingNext ==
    ASSUME RenamedTypes, Excluding, WorkStands, Renamed!Next, ~mistaken'
    PROVE  Excluding' /\ WorkStands'
<1>1. ASSUME NEW p \in Renamers, RenamedLockStep(p) PROVE Excluding' /\ WorkStands'
  <2>1. LockOnly
    BY <1>1, RenamedLockTypes, RenamedLeaveTypes DEF RenamedLockStep
  <2> QED  BY <1>1, <2>1, RenamedLockExcludes, RenamedLockKeepsWork DEF RenamedLockStep
<1>2. ASSUME NEW p \in Renamers, UnderLock(p) PROVE Excluding' /\ WorkStands'
  <2>1. /\ WorkOnly /\ place[p] \in Renamed!AtWork \ {"filling"}
        /\ \E s \in (Renamed!AtWork \ {"filling"}) \cup {"done"} : place' = [place EXCEPT ![p] = s]
    BY <1>2, RenamedWorkTypes DEF UnderLock
  <2>2. Excluding'
    BY <2>1, RenamedWorkExcludes
  <2>3. WorkStands'
    BY <1>2, <2>1, RenamedWorkStands DEF UnderLock
  <2> QED  BY <2>2, <2>3
<1>3. ASSUME Renamed!LockAges \/ Renamed!GuardAges PROVE Excluding' /\ WorkStands'
  <2>1. LockOnly /\ place' = place
    BY <1>3, RenamedAgeTypes DEF Renamed!LockAges, Renamed!GuardAges
  <2> QED  BY <1>3, <2>1, AgeExcludes, AgeKeepsWork
<1> QED  BY <1>1, <1>2, <1>3, RenamedSteps

LEMMA GuardNext ==
    ASSUME RenamedTypes, Excluding, GuardHolds, kind = "inbox", ~mistaken, Renamed!Next, ~unguarded'
    PROVE  GuardHolds' /\ ~mistaken'
<1>1. ASSUME NEW p \in Renamers, RenamedLockStep(p) PROVE GuardHolds' /\ ~mistaken'
  <2>1. CASE Renamed!Rename(p)
    BY <2>1, RenameGuards
  <2>2. CASE ~Renamed!Rename(p)
    <3>1. mistaken' = mistaken
      BY <1>1, <2>2 DEF RenamedLockStep, Renamed!Create, Renamed!Fill, Renamed!FillFails, Renamed!GiveUp, Renamed!Judge,
             Renamed!GuardInbox, Renamed!UnguardInbox, Renamed!CompareInbox, Renamed!VerifyInbox, Renamed!CleanInbox,
             Renamed!LookAgain, Renamed!VerifyLedger, Renamed!VerifyMap, Renamed!Unlink, Renamed!ReleaseLedger,
             Renamed!Crash, Renamed!history
    <3>2. ~Renamed!VerifyLedger(p) /\ ~Renamed!VerifyMap(p) /\ ~Renamed!ReleaseLedger(p)
      BY DEF Renamed!VerifyLedger, Renamed!VerifyMap, Renamed!ReleaseLedger
    <3>3. ~Renamed!LookAgain(p)
      BY DEF Renamed!LookAgain, GuardHolds
    <3> QED
      BY <1>1, <2>2, <3>1, <3>2, <3>3, CreateGuards, FillGuards, JudgeGuards, BreakGuards, VerifyGuards, UnlinkGuards,
         OtherGuards DEF RenamedLockStep
  <2> QED  BY <2>1, <2>2
<1>2. ASSUME NEW p \in Renamers, UnderLock(p) PROVE GuardHolds' /\ ~mistaken'
  <2>1. /\ WorkOnly /\ place[p] \in Renamed!AtWork \ {"filling"}
    BY <1>2, RenamedWorkTypes DEF UnderLock
  <2>2. PICK s \in (Renamed!AtWork \ {"filling"}) \cup {"done"} : place' = [place EXCEPT ![p] = s]
    BY <1>2, RenamedWorkTypes DEF UnderLock
  <2>3. s \in Spots /\ s \notin Guarded /\ s \notin {"unguarding", "again"} /\ place[p] \notin Guarded /\ place[p] # "filling"
    BY <2>1 DEF Spots, Renamed!AtWork, Renamed!Inside, Renamed!Ended, Guarded
  <2> QED  BY <2>1, <2>2, <2>3, GuardKept DEF WorkOnly
<1>3. ASSUME Renamed!LockAges \/ Renamed!GuardAges PROVE GuardHolds' /\ ~mistaken'
  BY <1>3, AgeGuards DEF Renamed!LockAges, Renamed!GuardAges, Renamed!history
<1> QED  BY <1>1, <1>2, <1>3, RenamedSteps

LEMMA RenamedNext ==
    ASSUME RenamedInv, Renamed!Next
    PROVE  RenamedInv'
<1>1. RenamedTypes' /\ kind' = kind /\ (~mistaken' => ~mistaken) /\ (~unguarded' => ~unguarded)
  BY RenamedTypesNext, MistakesStay DEF RenamedInv
<1>2. ~mistaken' => Excluding' /\ WorkStands'
  BY <1>1, ExcludingNext DEF RenamedInv
<1>3. kind' = "inbox" /\ ~unguarded' => ~mistaken' /\ GuardHolds'
  BY <1>1, GuardNext DEF RenamedInv
<1> QED  BY <1>1, <1>2, <1>3 DEF RenamedInv

RenamedHolds == part = "renamed" => RenamedInv

LEMMA RenamedHoldsAlways == FilesSpec => []RenamedHolds
<1>1. FilesInit => RenamedHolds
  BY RenamedInit DEF FilesInit, RenamedHolds
<1>2. RenamedHolds /\ [FilesNext]_all => RenamedHolds'
  <2> SUFFICES ASSUME RenamedInv, part = "renamed", [FilesNext]_all PROVE RenamedInv'
    BY DEF RenamedHolds, FilesNext, all
  <2>1. CASE FilesNext
    BY <2>1, RenamedNext DEF FilesNext
  <2>2. CASE UNCHANGED all
    <3>1. UNCHANGED <<kind, prompt, place, file, aside, judged, guard, data, known, slots, turn, gone, mistaken, unguarded>>
      BY <2>2 DEF all, renaming
    <3> QED  BY <3>1 DEF RenamedInv, RenamedTypes, Excluding, HasLock, JudgedWell, GuardHolds, WorkStands
  <2> QED  BY <2>1, <2>2
<1> QED  BY <1>1, <1>2, PTL DEF FilesSpec

(* The .break file of the inbox rules out that a process takes a lock away *)
(* which nobody had judged stale (breakStaleLock), unless one died at the  *)
(* wrong place; and while no lock is taken so, nothing that is done under  *)
(* it is lost: the cap of the inbox, the self map, the self_id.            *)
THEOREM NothingIsLost == FilesSpec => []NoLostUpdate
<1>1. RenamedHolds => NoLostUpdate
  <2> SUFFICES ASSUME RenamedInv PROVE Renamed!GuardPreventsRobbery /\ Renamed!NoLostUpdate
    BY DEF RenamedHolds, NoLostUpdate
  <2>1. Renamed!GuardPreventsRobbery
    BY DEF RenamedInv, Renamed!GuardPreventsRobbery
  <2>2. ASSUME ~mistaken
        PROVE  LET finished == {p \in Renamers : place[p] = "done"} IN
               /\ kind = "inbox" => Cardinality(data) <= Cap
               /\ kind = "map" => \A p \in finished :
                      (p \in known[p] => p \in data) /\ (Other \in known[p] => Other \notin data)
               /\ kind = "id" => Cardinality(data) <= 1 /\ \A p \in finished : known[p] \in {{}, data}
    <3>1. WorkStands
      BY <2>2 DEF RenamedInv
    <3>2. kind = "id" => Cardinality(data) <= 1
      <4>1. \A p \in Renamers : Cardinality({p}) = 1
        BY FS_Singleton
      <4>2. Cardinality({}) = 0
        BY FS_EmptySet
      <4> QED  BY <3>1, <4>1, <4>2 DEF WorkStands
    <3> QED  BY <3>1, <3>2 DEF WorkStands, Told
  <2>3. Renamed!NoLostUpdate
    BY <2>2 DEF Renamed!NoLostUpdate, Renamed!Cardinality, Cardinality
  <2> QED  BY <2>1, <2>3
<1> QED  BY <1>1, RenamedHoldsAlways, PTL


-----------------------------------------------------------------------------
(* What a rotation drops. *)
LEMMA LedgerOperators ==
    /\ \A z : Renamed!FlattenSeq(z) = FlattenSeq(z)
    /\ \A u, v : Renamed!IsPrefix(u, v) = IsPrefix(u, v)
  BY DEF Renamed!FlattenSeq, FlattenSeq, Renamed!IsPrefix, IsPrefix

(* The ledger as it is read, from the oldest file to the active one.       *)
Shelf(kept) == [i \in 1 .. Keep + 1 |-> kept[Keep + 1 - i]]

LEMMA ShelfTyped ==
    ASSUME NEW kept \in [0 .. Keep -> Seq(Holders)]
    PROVE  Shelf(kept) \in Parts(Holders, Keep + 1) /\ Keep + 1 \in Nat \ {0}
<1>1. Keep \in Nat
  BY RenamedAssumption
<1>2. \A i \in 1 .. Keep + 1 : Keep + 1 - i \in 0 .. Keep
  BY <1>1
<1> QED  BY <1>1, <1>2 DEF Shelf, Parts, Lists

Ledger == FlattenSeq(Shelf(slots))

LEMMA LedgerTyped ==
    ASSUME RenamedTypes
    PROVE  /\ Ledger \in Lists(Holders) /\ gone \in Lists(Holders)
           /\ Shelf(slots) \in Parts(Holders, Keep + 1) /\ Keep + 1 \in Nat \ {0}
<1>1. Shelf(slots) \in Parts(Holders, Keep + 1) /\ Keep + 1 \in Nat \ {0} /\ gone \in Lists(Holders)
  BY ShelfTyped DEF RenamedTypes, Lists
<1> QED  BY <1>1, FlattenTyped DEF Ledger

LEMMA DeletesTheLast ==
    ASSUME RenamedTypes, RenamedTypes', slots' = [slots EXCEPT ![Keep] = <<>>]
    PROVE  Ledger = Cat(slots[Keep], Ledger')
<1>1. /\ Keep \in Nat /\ slots \in [0 .. Keep -> Seq(Holders)] /\ slots' \in [0 .. Keep -> Seq(Holders)]
  BY RenamedAssumption DEF RenamedTypes
<1>2. Shelf(slots)[1] = slots[Keep] /\ Shelf(slots')[1] = <<>>
  BY <1>1 DEF Shelf
<1>3. Agree(Shelf(slots), Shelf(slots'), 2, Keep + 1)
  <2> SUFFICES ASSUME NEW i \in 2 .. Keep + 1 PROVE Shelf(slots)[i] = Shelf(slots')[i]
    BY DEF Agree
  <2>1. i \in 1 .. Keep + 1 /\ Keep + 1 - i \in 0 .. Keep /\ Keep + 1 - i # Keep
    BY <1>1
  <2> QED  BY <1>1, <2>1 DEF Shelf
<1>4. /\ Shelf(slots) \in Parts(Holders, Keep + 1) /\ Keep + 1 \in Nat \ {0}
      /\ Shelf(slots') \in Parts(Holders, Keep + 1)
  BY <1>1, ShelfTyped
<1>5. FlattenSeq(Shelf(slots)) = Cat(Shelf(slots)[1], FlattenSeq(Shelf(slots')))
  BY <1>2, <1>3, <1>4, FlattenWithoutFirst
<1> QED  BY <1>2, <1>5 DEF Ledger

LEMMA MovesUp ==
    ASSUME RenamedTypes, RenamedTypes', NEW i \in 0 .. Keep, i < Keep, slots[i + 1] = <<>>,
           slots' = [slots EXCEPT ![i + 1] = slots[i], ![i] = <<>>]
    PROVE  Ledger = Ledger'
<1>1. /\ Keep \in Nat /\ slots \in [0 .. Keep -> Seq(Holders)] /\ slots' \in [0 .. Keep -> Seq(Holders)]
  BY RenamedAssumption DEF RenamedTypes
<1> DEFINE k == Keep - i
<1>2. k \in 1 .. Keep + 1 /\ k + 1 \in 1 .. Keep + 1 /\ Keep + 1 - k = i + 1 /\ Keep + 1 - (k + 1) = i /\ i + 1 \in 0 .. Keep
  BY <1>1
<1>3. /\ Shelf(slots)[k] = slots[i + 1] /\ Shelf(slots)[k + 1] = slots[i]
      /\ Shelf(slots')[k] = slots'[i + 1] /\ Shelf(slots')[k + 1] = slots'[i]
  <2> HIDE DEF k
  <2> QED  BY <1>2 DEF Shelf
<1>4. slots'[i + 1] = slots[i] /\ slots'[i] = <<>>
  BY <1>1, <1>2
<1>5. ASSUME NEW j \in 1 .. Keep + 1, j # k, j # k + 1 PROVE Shelf(slots)[j] = Shelf(slots')[j]
  <2>1. Keep + 1 - j \in 0 .. Keep /\ Keep + 1 - j # i /\ Keep + 1 - j # i + 1
    BY <1>1, <1>5
  <2>2. slots'[Keep + 1 - j] = slots[Keep + 1 - j]
    BY <1>1, <2>1
  <2> QED  BY <2>2 DEF Shelf
<1>6. Agree(Shelf(slots), Shelf(slots'), 1, k - 1) /\ Agree(Shelf(slots), Shelf(slots'), k + 2, Keep + 1)
  <2>1. \A j \in 1 .. k - 1 : j \in 1 .. Keep + 1 /\ j # k /\ j # k + 1
    BY <1>1, <1>2
  <2>2. \A j \in k + 2 .. Keep + 1 : j \in 1 .. Keep + 1 /\ j # k /\ j # k + 1
    BY <1>1, <1>2
  <2> HIDE DEF k
  <2> QED  BY <1>5, <2>1, <2>2 DEF Agree
<1>7. /\ Shelf(slots) \in Parts(Holders, Keep + 1) /\ Keep + 1 \in Nat \ {0}
      /\ Shelf(slots') \in Parts(Holders, Keep + 1)
  BY <1>1, ShelfTyped
<1>8. FlattenSeq(Shelf(slots)) = FlattenSeq(Shelf(slots'))
  <2> HIDE DEF k
  <2> QED  BY <1>2, <1>3, <1>4, <1>6, <1>7, FlattenMoved
<1> QED  BY <1>8 DEF Ledger

LEMMA LedgerGrows ==
    ASSUME RenamedTypes, RenamedTypes', NEW p \in Renamers, slots' = [slots EXCEPT ![0] = Append(@, p)]
    PROVE  <<p>> \in Lists(Holders) /\ Ledger' = Cat(Ledger, <<p>>)
<1>1. /\ Keep \in Nat /\ slots \in [0 .. Keep -> Seq(Holders)] /\ slots' \in [0 .. Keep -> Seq(Holders)]
      /\ 0 \in 0 .. Keep
  BY RenamedAssumption DEF RenamedTypes
<1>2. slots[0] \in Seq(Holders) /\ p \in Holders
  BY <1>1 DEF Holders
<1>3. <<p>> \in Seq(Holders) /\ Append(slots[0], p) = slots[0] \o <<p>>
  <2>1. <<p>> \in Seq(Holders)
    BY <1>2
  <2>2. Append(slots[0], p) = slots[0] \o <<p>>
    BY <1>2, AppendIsConcat
  <2> QED  BY <2>1, <2>2
<1>4. /\ Shelf(slots)[Keep + 1] = slots[0] /\ Shelf(slots')[Keep + 1] = slots'[0]
  BY <1>1 DEF Shelf
<1>5. Shelf(slots')[Keep + 1] = Cat(Shelf(slots)[Keep + 1], <<p>>)
  BY <1>1, <1>3, <1>4 DEF Cat
<1>6. Agree(Shelf(slots), Shelf(slots'), 1, (Keep + 1) - 1)
  <2> SUFFICES ASSUME NEW i \in 1 .. (Keep + 1) - 1 PROVE Shelf(slots)[i] = Shelf(slots')[i]
    BY DEF Agree
  <2>1. i \in 1 .. Keep + 1 /\ Keep + 1 - i \in 0 .. Keep /\ Keep + 1 - i # 0
    BY <1>1
  <2> QED  BY <1>1, <2>1 DEF Shelf
<1>7. /\ Shelf(slots) \in Parts(Holders, Keep + 1) /\ Keep + 1 \in Nat \ {0}
      /\ Shelf(slots') \in Parts(Holders, Keep + 1)
  BY <1>1, ShelfTyped
<1>8. <<p>> \in Lists(Holders)
  BY <1>3 DEF Lists
<1>9. FlattenSeq(Shelf(slots')) = Cat(FlattenSeq(Shelf(slots)), <<p>>)
  BY <1>5, <1>6, <1>7, <1>8, FlattenGrown
<1> QED  BY <1>8, <1>9 DEF Ledger

(* What a step leaves of the ledger: it drops what was in the last file,   *)
(* and adds at the end.                                                    *)
LEMMA LedgerStep ==
    ASSUME RenamedInv, RenamedTypes', ~mistaken, Renamed!Next
    PROVE  /\ IsPrefix(Cat(gone, Ledger), Cat(gone', Ledger'))
           /\ gone' = gone \/ gone' = gone \o slots[Keep]
<1>1. RenamedTypes /\ WorkStands
  BY DEF RenamedInv
<1>2. /\ Ledger \in Lists(Holders) /\ gone \in Lists(Holders) /\ Ledger' \in Lists(Holders)
      /\ <<>> \in Lists(Holders) /\ Keep \in 0 .. Keep
      /\ \A u \in Lists(Holders) : Cat(u, <<>>) = u
      /\ \A u, v \in Lists(Holders) : Cat(u, v) \in Lists(Holders)
      /\ \A u, v, w \in Lists(Holders) : Cat(Cat(u, v), w) = Cat(u, Cat(v, w))
  <2>1. Ledger' \in Lists(Holders)
    BY <1>1, FlattenTyped, ShelfTyped DEF Ledger, RenamedTypes
  <2>2. /\ <<>> \in Lists(Holders)
        /\ \A u \in Lists(Holders) : Cat(u, <<>>) = u
        /\ \A u, v \in Lists(Holders) : Cat(u, v) \in Lists(Holders)
        /\ \A u, v, w \in Lists(Holders) : Cat(Cat(u, v), w) = Cat(u, Cat(v, w))
    BY CatFacts
  <2>3. Ledger \in Lists(Holders) /\ gone \in Lists(Holders)
    BY <1>1, LedgerTyped
  <2>4. Keep \in 0 .. Keep
    BY RenamedAssumption
  <2> QED  BY <2>1, <2>2, <2>3, <2>4
<1>3. ASSUME slots' = slots, gone' = gone
      PROVE  IsPrefix(Cat(gone, Ledger), Cat(gone', Ledger'))
  <2>1. Ledger' = Ledger
    BY <1>3 DEF Ledger
  <2> QED  BY <1>2, <1>3, <2>1, PrefixOfItself
<1>4. ASSUME NEW p \in Renamers, Renamed!Rotate(p)
      PROVE  /\ IsPrefix(Cat(gone, Ledger), Cat(gone', Ledger'))
             /\ gone' = gone \/ gone' = gone \o slots[Keep]
  <2>1. turn[p] \in 0 .. Keep /\ place[p] = "rotating" /\ (turn[p] < Keep => slots[turn[p] + 1] = <<>>)
    BY <1>1, <1>4 DEF RenamedTypes, WorkStands, Renamed!Rotate
  <2>2. slots[Keep] \in Lists(Holders)
    BY <1>1, <1>2 DEF RenamedTypes, Lists
  <2>3. CASE turn[p] = Keep
    <3>1. slots' = [slots EXCEPT ![Keep] = <<>>] /\ gone' = gone \o slots[Keep]
      BY <1>4, <2>3 DEF Renamed!Rotate
    <3>2. Ledger = Cat(slots[Keep], Ledger')
      BY <1>1, <3>1, DeletesTheLast
    <3>3. gone' = Cat(gone, slots[Keep])
      BY <3>1 DEF Cat
    <3>4. Cat(gone', Ledger') = Cat(gone, Ledger)
      <4>1. Cat(Cat(gone, slots[Keep]), Ledger') = Cat(gone, Cat(slots[Keep], Ledger'))
        <5>1. \A u, v, w \in Lists(Holders) : Cat(Cat(u, v), w) = Cat(u, Cat(v, w))
          BY CatFacts
        <5>2. gone \in Lists(Holders) /\ slots[Keep] \in Lists(Holders) /\ Ledger' \in Lists(Holders)
          BY <1>2, <2>2
        <5> QED  BY <5>1, <5>2
      <4> QED  BY <4>1, <3>2, <3>3
    <3> QED  BY <1>2, <3>1, <3>4, PrefixOfItself
  <2>4. CASE turn[p] < Keep /\ slots[turn[p]] # <<>>
    <3>0. turn[p] # Keep /\ slots[turn[p] + 1] = <<>>
      BY <2>1, <2>4, RenamedAssumption
    <3>1. slots' = [slots EXCEPT ![turn[p] + 1] = slots[turn[p]], ![turn[p]] = <<>>] /\ gone' = gone \o <<>>
      BY <1>4, <2>4, <3>0 DEF Renamed!Rotate
    <3>2. Ledger = Ledger'
      BY <1>1, <2>1, <2>4, <3>1, MovesUp
    <3>3. gone' = gone
      BY <1>2, <3>1 DEF Cat
    <3> QED  BY <1>2, <3>2, <3>3, PrefixOfItself
  <2>5. CASE turn[p] < Keep /\ slots[turn[p]] = <<>>
    <3>0. turn[p] # Keep
      BY <2>1, <2>5, RenamedAssumption
    <3>1. slots' = slots /\ gone' = gone \o <<>>
      BY <1>4, <2>5, <3>0 DEF Renamed!Rotate
    <3>2. gone' = gone
      BY <1>2, <3>1 DEF Cat
    <3> QED  BY <1>3, <3>1, <3>2
  <2>6. turn[p] = Keep \/ turn[p] < Keep
    BY <2>1, RenamedAssumption
  <2> QED  BY <2>3, <2>4, <2>5, <2>6
<1>5. ASSUME NEW p \in Renamers, Renamed!AppendLine(p)
      PROVE  IsPrefix(Cat(gone, Ledger), Cat(gone', Ledger')) /\ gone' = gone
  <2>1. slots' = [slots EXCEPT ![0] = Append(@, p)] /\ gone' = gone
    BY <1>5 DEF Renamed!AppendLine
  <2>2. <<p>> \in Lists(Holders) /\ Ledger' = Cat(Ledger, <<p>>)
    BY <1>1, <2>1, LedgerGrows
  <2>3. Cat(gone', Ledger') = Cat(Cat(gone, Ledger), <<p>>)
    BY <1>2, <2>1, <2>2
  <2> QED  BY <1>2, <2>1, <2>2, <2>3, PrefixOfItself
<1>6. ASSUME NEW p \in Renamers, UnderLock(p), ~Renamed!Rotate(p), ~Renamed!AppendLine(p)
      PROVE  slots' = slots /\ gone' = gone
  BY <1>6 DEF UnderLock, Renamed!Read, Renamed!CreateProposal, Renamed!RegisterSelf, Renamed!ForgetSelf,
              Renamed!EnsureSelfId, Renamed!Measure, Renamed!WorkFails, Renamed!CheckOwn, Renamed!work
<1>7. ASSUME NEW p \in Renamers, RenamedLockStep(p) PROVE slots' = slots /\ gone' = gone
  BY <1>1, <1>7, RenamedLockTypes, RenamedLeaveTypes DEF RenamedLockStep, LockOnly
<1>8. ASSUME Renamed!LockAges \/ Renamed!GuardAges PROVE slots' = slots /\ gone' = gone
  BY <1>1, <1>8, RenamedAgeTypes DEF LockOnly
<1> QED  BY <1>3, <1>4, <1>5, <1>6, <1>7, <1>8, RenamedSteps

(* A rotation of the ledger (rotateLedger), also one that follows one that *)
(* was cut short, deletes the last rotated file and nothing else: whatever *)
(* is deleted was served before whatever is kept.                          *)
THEOREM RotationKeepsNewest == FilesSpec => NewestKept
<1>1. RenamedHolds /\ [FilesNext]_all => (part = "renamed" => Renamed!RotationDropsOldest)
  <2> SUFFICES ASSUME RenamedInv, part = "renamed", [FilesNext]_all, ~mistaken'
               PROVE  /\ Renamed!IsPrefix(gone \o Renamed!Entries, gone' \o Renamed!Entries')
                      /\ gone' \in {gone, gone \o slots[Keep]}
    BY DEF RenamedHolds, Renamed!RotationDropsOldest
  <2>1. CASE FilesNext
    <3>1. Renamed!Next
      BY <2>1 DEF FilesNext
    <3>2. RenamedTypes' /\ ~mistaken
      BY <3>1, RenamedTypesNext, MistakesStay DEF RenamedInv
    <3>3. Renamed!Entries = Ledger /\ Renamed!Entries' = Ledger'
      BY LedgerOperators DEF Renamed!Entries, Ledger, Shelf
    <3> QED  BY <3>1, <3>2, <3>3, LedgerStep, LedgerOperators DEF Cat
  <2>2. CASE UNCHANGED all
    <3>1. gone' = gone /\ slots' = slots
      BY <2>2 DEF all, renaming
    <3>2. Ledger' = Ledger /\ Renamed!Entries = Ledger /\ Renamed!Entries' = Ledger'
      BY <3>1, LedgerOperators DEF Renamed!Entries, Ledger, Shelf
    <3>3. Cat(gone, Ledger) \in Lists(Holders)
      BY LedgerTyped, CatFacts DEF RenamedInv
    <3> QED  BY <3>1, <3>2, <3>3, PrefixOfItself, LedgerOperators DEF Cat
  <2> QED  BY <2>1, <2>2
<1> QED  BY <1>1, RenamedHoldsAlways, PTL DEF FilesSpec, NewestKept
=============================================================================
