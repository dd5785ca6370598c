---------------------------- MODULE RegistriesProofs ----------------------------
(***************************************************************************)
(* Proofs about the registries.                                            *)
(*                                                                         *)
(* The registry of clients, for any number of calls, names and lenses:     *)
(* where the registry lock is prompt, what a call reported stands, and a   *)
(* revoked client never comes back.                                        *)
(*                                                                         *)
(* The migration of one document's metadata, for all lenses, tasks and     *)
(* registries: the exact mapping is exact, and what a migration writes is  *)
(* never wider than what it found.  And a migration for any documents,     *)
(* plans and requests: what it writes is never wider if the owner plans    *)
(* again after an edit of the policy, and it can be undone if the owner    *)
(* leaves alone what a running command has written.                        *)
(***************************************************************************)
EXTENDS MCRegistries, SequenceTheorems, TLAPS

-----------------------------------------------------------------------------
(***************************************************************************)
(* The invariant.  Excluded is what the lock gives where it is prompt; the *)
(* rest speaks of the calls between two steps of their function.           *)
(***************************************************************************)
LockTypes ==
    /\ Clients!L!TypeOK
    /\ \A p \in Procs : at[p] # "timeout" => tries[p] < Clients!L!Attempts
    /\ prompt

OneWindow == \A p, q \in Procs : at[p] \in Clients!L!Windows /\ at[q] \in Clients!L!Windows => p = q

MadeBy(p) == lock # None /\ lock.owner = p /\ ~lock.old

CreatedOwns == \A p \in Procs : at[p] = "created" => MadeBy(p) /\ ~lock.written

HolderOwns == \A p \in Procs : at[p] = "holding" => MadeBy(p) /\ lock.written

BreakerIsRight == \A p \in Procs : at[p] = "breaking" => Clients!L!Stale(lock)

LockInv == LockTypes /\ OneWindow /\ CreatedOwns /\ HolderOwns /\ BreakerIsRight

(* Every variable has its type. *)
ClientTypes ==
    /\ op \in [Procs -> Clients!Ops \cup {Clients!NoOp}]
    /\ step \in [Procs -> {"begin", "read", "accepted", "end"}]
    /\ seen \in [Procs -> SUBSET Clients!Entries]
    /\ clients \subseteq Clients!Entries
    /\ lenses \subseteq Lenses
    /\ result \in [Procs -> {"none", "ok", "refused"}]

(* A call has a task once it has begun, steps only where it holds the lock *)
(* and reports at its end.                                                 *)
InOrder == \A p \in Procs :
    /\ at[p] = "idle" <=> op[p] = Clients!NoOp
    /\ step[p] # "begin" => at[p] \in {"holding", "done", "left", "dead"}
    /\ step[p] # "end" => result[p] = "none"

(* What the holder of the lock has read is what is there, and what it was  *)
(* accepted for still is acceptable.                                       *)
ViewIsCurrent == \A p \in Procs : at[p] = "holding" =>
    /\ step[p] \in {"read", "accepted"} => seen[p] = clients
    /\ step[p] = "accepted" => ~Clients!Refused(p)

(* An id that a client has had. *)
Spent(i) == i = First \/ (i \in Procs /\ op[i].kind = "add" /\ result[i] = "ok")

(* An id is one client's, now and ever. *)
IdsAreSpent ==
    /\ \A e, f \in clients : e.id = f.id => e = f
    /\ \A e \in clients : Spent(e.id)
    /\ \A p \in Procs : result[p] = "ok" /\ op[p].kind \in {"revoke", "remove"} => Spent(op[p].id)

Stands == Clients!LensesInUseStay /\ Clients!NamesAreUnique /\ Clients!ReportedIsDone

ClientInv == LockInv /\ ClientTypes /\ InOrder /\ ViewIsCurrent /\ IdsAreSpent /\ Stands

-----------------------------------------------------------------------------
(***************************************************************************)
(* The lock excludes: its steps, as the calls take them here.              *)
(***************************************************************************)
LEMMA LockInvInit == ASSUME Prompt, Clients!Init PROVE LockInv
BY ClientsAssumption
DEF Clients!Init, Clients!L!Init, LockInv, LockTypes, OneWindow, CreatedOwns, HolderOwns, BreakerIsRight,
    Clients!L!TypeOK, Clients!L!Locks, Clients!L!Active, Clients!L!Windows, Clients!L!Attempts

LockStep == [Clients!L!Next]_Clients!L!vars

LEMMA LockInvStep == LockInv /\ LockStep => LockInv'
<1> USE ClientsAssumption
    DEF LockInv, LockTypes, OneWindow, MadeBy, CreatedOwns, HolderOwns, BreakerIsRight,
        Clients!L!TypeOK, Clients!L!Locks, Clients!L!Windows, Clients!L!Active, Clients!L!Ended, Clients!L!Go,
        Clients!L!Stale, Clients!L!Alive, Clients!L!Attempts, Clients!L!NextAttempt, Clients!L!Undisturbed
<1> SUFFICES ASSUME LockInv, LockStep PROVE LockInv'
  OBVIOUS
<1>1. CASE UNCHANGED Clients!L!vars
  BY <1>1 DEF Clients!L!vars
<1>2. ASSUME NEW p \in Procs, Clients!L!Begin(p) PROVE LockInv'
  BY <1>2 DEF Clients!L!Begin
<1>3. ASSUME NEW p \in Procs, Clients!L!Open(p) PROVE LockInv'
  <2>1. \A q \in Procs : at[q] \notin Clients!L!Windows \cup {"holding"} \/ q = p
    BY <1>3 DEF Clients!L!Open
  <2>2. \A q \in Procs : at'[q] = IF q = p THEN "created" ELSE at[q]
    BY <1>3 DEF Clients!L!Open
  <2>3. lock' = [owner |-> p, written |-> FALSE, old |-> FALSE] /\ lock' \in Clients!L!Locks
    BY <1>3 DEF Clients!L!Open
  <2>4. LockTypes'
    BY <1>3, <2>3 DEF Clients!L!Open
  <2> QED
    BY <2>1, <2>2, <2>3, <2>4
<1>4. ASSUME NEW p \in Procs, Clients!L!Write(p) PROVE LockInv'
  BY <1>4 DEF Clients!L!Write
<1>5. ASSUME NEW p \in Procs, Clients!L!WriteFails(p) PROVE LockInv'
  BY <1>5 DEF Clients!L!WriteFails
<1>6. ASSUME NEW p \in Procs, Clients!L!Exists(p) PROVE LockInv'
  BY <1>6 DEF Clients!L!Exists
<1>7. ASSUME NEW p \in Procs, Clients!L!Busy(p) PROVE LockInv'
  BY <1>7 DEF Clients!L!Busy
<1>8. ASSUME NEW p \in Procs, Clients!L!Judge(p) PROVE LockInv'
  BY <1>8 DEF Clients!L!Judge
<1>9. ASSUME NEW p \in Procs, Clients!L!Break(p) PROVE LockInv'
  BY <1>9 DEF Clients!L!Break, Clients!L!Remove
<1>10. ASSUME NEW p \in Procs, Clients!L!Release(p) PROVE LockInv'
  BY <1>10 DEF Clients!L!Release, Clients!L!Remove
<1>11. ASSUME NEW p \in Procs, Clients!L!Crash(p) PROVE LockInv'
  BY <1>11 DEF Clients!L!Crash
<1>12. CASE Clients!L!Age
  BY <1>12 DEF Clients!L!Age, Clients!L!Holders
<1> QED
  BY <1>1, <1>2, <1>3, <1>4, <1>5, <1>6, <1>7, <1>8, <1>9, <1>10, <1>11, <1>12
  DEF LockStep, Clients!L!Next, Clients!L!Try

(* Two holders would both have made the one lock file. *)
LEMMA HoldersAgree ==
    ASSUME LockInv, NEW p \in Procs, at[p] = "holding", NEW q \in Procs, at[q] = "holding"
    PROVE  p = q
BY DEF LockInv, HolderOwns, MadeBy

-----------------------------------------------------------------------------
(***************************************************************************)
(* The calls: what each kind of step preserves.                            *)
(***************************************************************************)
Kinds == {"none", "add", "revoke", "remove", "dropLens"}

LEMMA OpsAreShaped ==
    ASSUME NEW o \in Clients!Ops \cup {Clients!NoOp}
    PROVE  /\ o.kind \in Kinds
           /\ o.kind = "none" <=> o = Clients!NoOp
           /\ o.kind = "add" => o.name \in Names /\ o.lens \in Lenses
           /\ o.kind \in {"revoke", "remove"} => o.id \in Clients!Ids
           /\ o.kind = "remove" => o = [kind |-> "remove", id |-> o.id]
           /\ o.kind = "dropLens" => o.lens \in Lenses
<1>1. CASE o = Clients!NoOp
  BY <1>1 DEF Clients!NoOp, Kinds
<1>2. CASE o \in [kind : {"add"}, name : Names, lens : Lenses]
  BY <1>2 DEF Clients!NoOp, Kinds
<1>3. CASE o \in [kind : {"revoke", "remove"}, id : Clients!Ids]
  BY <1>3 DEF Clients!NoOp, Kinds
<1>4. CASE o \in [kind : {"dropLens"}, lens : Lenses]
  BY <1>4 DEF Clients!NoOp, Kinds
<1> QED  BY <1>1, <1>2, <1>3, <1>4 DEF Clients!Ops

LEMMA ClientInvInit == ASSUME Prompt, Clients!Init PROVE ClientInv
<1>1. LockInv
  BY LockInvInit
<1>2. PICK e \in [id : {First}, name : Names, lens : Lenses, active : {TRUE}] : clients = {e}
  BY DEF Clients!Init
<1>3. ClientTypes /\ InOrder /\ ViewIsCurrent
  BY <1>2 DEF Clients!Init, Clients!L!Init, ClientTypes, InOrder, ViewIsCurrent, Clients!Entries, Clients!Ids
<1>4. IdsAreSpent /\ Stands
  BY <1>2 DEF Clients!Init, IdsAreSpent, Spent, Stands, Clients!LensesInUseStay, Clients!NamesAreUnique,
    Clients!ReportedIsDone
<1> QED  BY <1>1, <1>3, <1>4 DEF ClientInv

(* ReportedIsDone, kind by kind. *)
AddsStand == \A p \in Procs : result[p] = "ok" /\ op[p].kind = "add" =>
    \/ \E e \in clients : e.id = p
    \/ \E q \in Procs : op[q] = [kind |-> "remove", id |-> p] /\ result[q] = "ok"

RevocationsStand == \A p \in Procs : result[p] = "ok" /\ op[p].kind = "revoke" =>
    \A e \in clients : e.id = op[p].id => ~e.active

RemovalsStand == \A p \in Procs : result[p] = "ok" /\ op[p].kind = "remove" =>
    \A e \in clients : e.id # op[p].id

DropsStand == \A p \in Procs : result[p] = "ok" /\ op[p].kind = "dropLens" => op[p].lens \notin lenses

KindsDone == AddsStand /\ RevocationsStand /\ RemovalsStand /\ DropsStand

LEMMA ReportsByKind == ClientTypes /\ InOrder => (Clients!ReportedIsDone <=> KindsDone)
<1> SUFFICES ASSUME ClientTypes, InOrder PROVE Clients!ReportedIsDone <=> KindsDone
  OBVIOUS
<1>1. ASSUME NEW p \in Procs, result[p] = "ok" PROVE op[p].kind \in {"add", "revoke", "remove", "dropLens"}
  BY <1>1, OpsAreShaped DEF ClientTypes, InOrder, Kinds
<1> QED  BY <1>1 DEF Clients!ReportedIsDone, KindsDone, AddsStand, RevocationsStand, RemovalsStand, DropsStand

LEMMA ReportsByKindNext == ClientTypes' /\ InOrder' => (Clients!ReportedIsDone' <=> KindsDone')
BY ReportsByKind, PTL

(* What a step does that reports nothing and changes no file. *)
Silent == UNCHANGED <<clients, lenses, result>> /\ \A p \in Procs : op[p] # Clients!NoOp => op'[p] = op[p]

LEMMA SilentKeepsResults == ASSUME ClientInv, Silent PROVE IdsAreSpent' /\ Stands'
<1>1. \A p \in Procs : result[p] = "ok" => op'[p] = op[p]
  BY DEF Silent, ClientInv, InOrder, LockInv, LockTypes
<1>2. \A i : Spent(i) => Spent(i)'
  BY <1>1 DEF Spent, Silent
<1>3. IdsAreSpent'
  BY <1>1, <1>2 DEF IdsAreSpent, ClientInv, Silent
<1>4. Clients!ReportedIsDone'
  BY <1>1 DEF Clients!ReportedIsDone, ClientInv, Stands, Silent
<1> QED
  BY <1>3, <1>4 DEF Stands, ClientInv, Clients!LensesInUseStay, Clients!NamesAreUnique, Silent

(* Whatever a call does before it changes a file, what others have read    *)
(* and what they were accepted for is as it was.                           *)
OthersAsBefore(p) ==
    /\ UNCHANGED <<clients, lenses>>
    /\ \A q \in Procs \ {p} :
           op'[q] = op[q] /\ step'[q] = step[q] /\ seen'[q] = seen[q] /\ (at'[q] = "holding" => at[q] = "holding")

LEMMA OthersKeepTheirView ==
    ASSUME ClientInv, NEW p \in Procs, OthersAsBefore(p), NEW q \in Procs \ {p}, at'[q] = "holding"
    PROVE  /\ step'[q] \in {"read", "accepted"} => seen'[q] = clients'
           /\ step'[q] = "accepted" => ~Clients!Refused(q)'
BY DEF OthersAsBefore, ClientInv, ViewIsCurrent, Clients!Refused, Clients!Meant

LEMMA StartStep ==
    ASSUME ClientInv, LockInv', NEW p \in Procs, NEW o \in Clients!Ops, Clients!Start(p, o)
    PROVE  ClientInv'
<1> USE DEF Clients!Start, Clients!L!Begin, Clients!L!Go, Clients!files
<1>1. /\ at[p] = "idle" /\ at' = [at EXCEPT ![p] = "trying"]
      /\ op[p] = Clients!NoOp /\ op' = [op EXCEPT ![p] = o]
      /\ o # Clients!NoOp
  BY OpsAreShaped DEF ClientInv, InOrder, Clients!NoOp, Clients!Ops
<1> at \in [Procs -> {"idle"} \cup Clients!L!Active \cup Clients!L!Ended]
  BY DEF ClientInv, LockInv, LockTypes, Clients!L!TypeOK
<1>2. ClientTypes'
  BY <1>1 DEF ClientInv, ClientTypes
<1>3. InOrder'
  BY <1>1 DEF ClientInv, ClientTypes, InOrder
<1>4. ViewIsCurrent'
  <2>1. OthersAsBefore(p) /\ at'[p] = "trying"
    BY <1>1 DEF OthersAsBefore, ClientInv, ClientTypes
  <2> QED  BY <2>1, OthersKeepTheirView DEF ViewIsCurrent
<1>5. Silent
  BY <1>1 DEF Silent, ClientInv, ClientTypes
<1> QED  BY <1>2, <1>3, <1>4, <1>5, SilentKeepsResults DEF ClientInv

(* The steps of the lock, the release included. *)
LEMMA LockingStep ==
    ASSUME ClientInv, LockInv', Clients!Locking \/ \E p \in Procs : Clients!Finish(p)
    PROVE  ClientInv'
<1>1. UNCHANGED <<op, step, seen, clients, lenses, result>>
  BY DEF Clients!Locking, Clients!Finish, Clients!files
<1>2. /\ \A q \in Procs : at'[q] = "idle" <=> at[q] = "idle"
      /\ \A q \in Procs : at[q] \in {"holding", "done", "left", "dead"} => at'[q] \in {"holding", "done", "left", "dead"}
      /\ \A q \in Procs : at'[q] = "holding" => at[q] \in {"holding", "created"}
  <2> USE DEF ClientInv, LockInv, LockTypes, Clients!L!TypeOK, Clients!L!Go, Clients!L!NextAttempt
  <2>1. ASSUME NEW p \in Procs, Clients!L!Try(p) \/ Clients!L!WriteFails(p) PROVE <1>2!:
    BY <2>1 DEF Clients!L!Try, Clients!L!WriteFails, Clients!L!Open, Clients!L!Exists, Clients!L!Judge,
      Clients!L!Break, Clients!L!Write
  <2>2. ASSUME NEW p \in Procs, Clients!L!Busy(p) \/ Clients!L!Crash(p) \/ Clients!L!Release(p) PROVE <1>2!:
    BY <2>2 DEF Clients!L!Busy, Clients!L!Crash, Clients!L!Active, Clients!L!Windows, Clients!L!Release
  <2>3. CASE Clients!L!Age
    BY <2>3 DEF Clients!L!Age
  <2> QED  BY <2>1, <2>2, <2>3 DEF Clients!Locking, Clients!Finish
<1>3. ClientTypes' /\ InOrder'
  BY <1>1, <1>2 DEF ClientInv, ClientTypes, InOrder
<1>4. ViewIsCurrent'
  <2>1. \A q \in Procs : Clients!Refused(q)' <=> Clients!Refused(q)
    BY <1>1 DEF Clients!Refused, Clients!Meant
  <2>2. ASSUME NEW q \in Procs, at'[q] = "holding", at[q] # "holding" PROVE step'[q] = "begin"
    BY <1>1, <1>2, <2>2 DEF ClientInv, InOrder
  <2> QED  BY <1>1, <2>1, <2>2 DEF ClientInv, ViewIsCurrent
<1>5. Silent
  BY <1>1 DEF Silent
<1> QED  BY <1>3, <1>4, <1>5, SilentKeepsResults DEF ClientInv

(* The steps of a holder that report and write nothing: it reads, or is    *)
(* accepted.                                                               *)
LEMMA ViewStep ==
    ASSUME ClientInv, LockInv', NEW p \in Procs, Clients!Read(p) \/ Clients!Accept(p)
    PROVE  ClientInv'
<1>1. at[p] = "holding" /\ UNCHANGED <<at, op, clients, lenses, result>>
  BY DEF Clients!Read, Clients!Accept, Clients!Do, Clients!locking, Clients!files
<1>2. ClientTypes' /\ InOrder'
  BY <1>1 DEF Clients!Read, Clients!Accept, Clients!Do, ClientInv, ClientTypes, InOrder
<1>3. ViewIsCurrent'
  <2>1. OthersAsBefore(p)
    BY <1>1 DEF OthersAsBefore, Clients!Read, Clients!Accept, Clients!Do, ClientInv, ClientTypes
  <2>2. CASE Clients!Read(p)
    <3>1. step'[p] = "read" /\ seen'[p] = clients'
      BY <2>2, <1>1 DEF Clients!Read, Clients!Do, ClientInv, ClientTypes
    <3> QED  BY <3>1, <2>1, OthersKeepTheirView DEF ViewIsCurrent
  <2>3. CASE Clients!Accept(p)
    <3>1. step[p] = "read" /\ UNCHANGED seen /\ ~Clients!Refused(p)
      BY <2>3 DEF Clients!Accept, Clients!Do
    <3>2. seen'[p] = clients'
      BY <1>1, <3>1 DEF ClientInv, ViewIsCurrent
    <3>3. ~Clients!Refused(p)'
      BY <1>1, <3>1 DEF Clients!Refused, Clients!Meant
    <3> QED  BY <3>2, <3>3, <2>1, OthersKeepTheirView DEF ViewIsCurrent
  <2> QED  BY <2>2, <2>3
<1>4. Silent
  BY <1>1 DEF Silent
<1> QED  BY <1>2, <1>3, <1>4, SilentKeepsResults DEF ClientInv

(* A holder that ends, with any report: the calls are in order, and nobody *)
(* else holds a view that could have changed.                              *)
LEMMA EndStep ==
    ASSUME ClientInv, NEW p \in Procs, NEW from \in {"read", "accepted"}, Clients!Do(p, from, "end"),
           NEW r \in {"ok", "refused"}, result' = [result EXCEPT ![p] = r], UNCHANGED seen,
           clients' \subseteq Clients!Entries, lenses' \subseteq Lenses
    PROVE  ClientTypes' /\ InOrder' /\ ViewIsCurrent'
<1>1. /\ at[p] = "holding" /\ UNCHANGED <<at, op>>
      /\ step' = [step EXCEPT ![p] = "end"]
  BY DEF Clients!Do, Clients!locking
<1>2. ClientTypes' /\ InOrder'
  BY <1>1 DEF ClientInv, ClientTypes, InOrder
<1>3. \A q \in Procs : at'[q] = "holding" => q = p
  BY <1>1, HoldersAgree DEF ClientInv
<1> QED  BY <1>1, <1>2, <1>3 DEF ViewIsCurrent, ClientInv, ClientTypes

LEMMA RefuseStep ==
    ASSUME ClientInv, LockInv', NEW p \in Procs, Clients!Refuse(p)
    PROVE  ClientInv'
<1> USE DEF Clients!Refuse, Clients!Do, Clients!files
<1>1. ClientTypes' /\ InOrder' /\ ViewIsCurrent'
  BY EndStep DEF ClientInv, ClientTypes
<1>2. \A q \in Procs : result'[q] = "ok" <=> result[q] = "ok"
  BY DEF ClientInv, ClientTypes, InOrder
<1>3. \A i : Spent(i)' <=> Spent(i)
  BY <1>2 DEF Spent
<1>4. IdsAreSpent'
  BY <1>2, <1>3 DEF ClientInv, IdsAreSpent
<1>5. Stands'
  BY <1>2 DEF ClientInv, Stands, Clients!LensesInUseStay, Clients!NamesAreUnique, Clients!ReportedIsDone
<1> QED  BY <1>1, <1>4, <1>5 DEF ClientInv

(* A client that is reported revoked is there, and not active. *)
LEMMA NothingToDoStep ==
    ASSUME ClientInv, LockInv', NEW p \in Procs, Clients!NothingToDo(p)
    PROVE  ClientInv'
<1> USE DEF Clients!NothingToDo, Clients!Do, Clients!files
<1>1. ClientTypes' /\ InOrder' /\ ViewIsCurrent'
  BY EndStep DEF ClientInv, ClientTypes
<1>2. /\ \A q \in Procs \ {p} : result'[q] = result[q]
      /\ result'[p] = "ok" /\ result[p] = "none" /\ op[p].kind = "revoke" /\ seen[p] = clients
      /\ clients \subseteq Clients!Entries
  BY DEF ClientInv, ClientTypes, InOrder, ViewIsCurrent
<1>3. \A i : Spent(i)' <=> Spent(i)
  BY <1>2 DEF Spent
<1>4. PICK e \in clients : e.id = op[p].id
  BY <1>2 DEF Clients!Refused, Clients!Meant
<1>5. \A f \in clients : f.id = op[p].id => ~f.active
  <2> SUFFICES ASSUME NEW f \in clients, f.id = op[p].id, f.active PROVE FALSE
    OBVIOUS
  <2>1. [f EXCEPT !.active = FALSE] \in Clients!After(p) /\ Clients!After(p) = clients
    BY <1>2 DEF Clients!After, Clients!Writes, Clients!Meant
  <2>2. [f EXCEPT !.active = FALSE] = f
    BY <1>2, <2>1 DEF ClientInv, IdsAreSpent, Clients!Entries
  <2> QED  BY <1>2, <2>2 DEF Clients!Entries
<1>6. IdsAreSpent'
  BY <1>2, <1>3, <1>4 DEF ClientInv, IdsAreSpent
<1>7. Clients!ReportedIsDone'
  <2>1. KindsDone
    BY ReportsByKind DEF ClientInv, Stands
  <2>2. KindsDone'
    <3>1. UNCHANGED <<op, clients, lenses>>
      OBVIOUS
    <3>2. \A q \in Procs : result[q] = "ok" => result'[q] = "ok" /\ q # p
      BY <1>2
    <3> HIDE DEF Clients!NothingToDo
    <3> QED  BY <1>2, <1>5, <2>1, <3>1, <3>2 DEF KindsDone, AddsStand, RevocationsStand, RemovalsStand, DropsStand
  <2> QED  BY <1>1, <2>2, ReportsByKindNext
<1> QED  BY <1>1, <1>6, <1>7 DEF ClientInv, Stands, Clients!LensesInUseStay, Clients!NamesAreUnique

(* clients.json is replaced: what an add, a revocation and a removal write *)
(* over the file as it is.                                                 *)
Added(p) == [id |-> p, name |-> op[p].name, lens |-> op[p].lens, active |-> TRUE]

LEMMA AddStep ==
    ASSUME ClientInv, NEW p \in Procs, Clients!Replace(p), op[p].kind = "add"
    PROVE  /\ clients' = clients \cup {Added(p)} /\ UNCHANGED <<op, lenses>>
           /\ Added(p) \in Clients!Entries /\ op[p].lens \in lenses
           /\ \A e \in clients : e.name # op[p].name /\ e.id # p
           /\ result[p] = "none" /\ result' = [result EXCEPT ![p] = "ok"]
<1>1. at[p] = "holding" /\ step[p] = "accepted" /\ UNCHANGED <<op, lenses>> /\ result' = [result EXCEPT ![p] = "ok"]
  BY DEF Clients!Replace, Clients!Do
<1>2. seen[p] = clients /\ ~Clients!Refused(p) /\ result[p] = "none"
  BY <1>1 DEF ClientInv, ViewIsCurrent, InOrder
<1>3. clients' = clients \cup {Added(p)}
  BY <1>2 DEF Clients!Replace, Clients!After, Added
<1>4. op[p].lens \in lenses /\ \A e \in clients : e.name # op[p].name
  BY <1>2 DEF Clients!Refused, Clients!Meant
<1>5. \A e \in clients : e.id # p
  BY <1>2, ClientsAssumption DEF ClientInv, IdsAreSpent, Spent
<1>6. Added(p) \in Clients!Entries
  BY OpsAreShaped DEF ClientInv, ClientTypes, Added, Clients!Entries, Clients!Ids
<1> QED  BY <1>1, <1>2, <1>3, <1>4, <1>5, <1>6

Fewer == \A f \in clients' : \E e \in clients :
    e.id = f.id /\ e.name = f.name /\ e.lens = f.lens /\ (f.active => e.active) /\ f \in Clients!Entries

LEMMA RevokeStep ==
    ASSUME ClientInv, NEW p \in Procs, Clients!Replace(p), op[p].kind = "revoke"
    PROVE  /\ Fewer /\ UNCHANGED <<op, lenses>>
           /\ \A e \in clients : \E f \in clients' : f.id = e.id
           /\ \A f \in clients' : f.id = op[p].id => ~f.active
           /\ \E e \in clients : e.id = op[p].id
           /\ result[p] = "none" /\ result' = [result EXCEPT ![p] = "ok"]
<1>1. at[p] = "holding" /\ step[p] = "accepted" /\ UNCHANGED <<op, lenses>> /\ result' = [result EXCEPT ![p] = "ok"]
  BY DEF Clients!Replace, Clients!Do
<1>2. seen[p] = clients /\ ~Clients!Refused(p) /\ result[p] = "none" /\ clients \subseteq Clients!Entries
  BY <1>1 DEF ClientInv, ClientTypes, ViewIsCurrent, InOrder
<1>3. Clients!Meant(p) = {e \in clients : e.id = op[p].id} /\ Clients!Meant(p) # {}
  BY <1>2 DEF Clients!Meant, Clients!Refused
<1>4. clients' = (clients \ Clients!Meant(p)) \cup {[e EXCEPT !.active = FALSE] : e \in Clients!Meant(p)}
  BY <1>2 DEF Clients!Replace, Clients!After
<1>5. ASSUME NEW e \in clients
      PROVE  LET f == [e EXCEPT !.active = FALSE]
             IN f \in Clients!Entries /\ f.id = e.id /\ f.name = e.name /\ f.lens = e.lens /\ ~f.active
  BY <1>2 DEF Clients!Entries
<1>6. Fewer
  <2> SUFFICES ASSUME NEW f \in clients'
               PROVE  \E e \in clients :
                         e.id = f.id /\ e.name = f.name /\ e.lens = f.lens /\ (f.active => e.active) /\ f \in Clients!Entries
    BY DEF Fewer
  <2>1. CASE f \in clients
    BY <2>1, <1>2
  <2>2. CASE \E e \in Clients!Meant(p) : f = [e EXCEPT !.active = FALSE]
    BY <2>2, <1>3, <1>5
  <2> QED  BY <2>1, <2>2, <1>4
<1>7. \A e \in clients : \E f \in clients' : f.id = e.id
  BY <1>3, <1>4, <1>5
<1>8. \A f \in clients' : f.id = op[p].id => ~f.active
  BY <1>3, <1>4, <1>5
<1> QED  BY <1>1, <1>2, <1>3, <1>6, <1>7, <1>8

LEMMA RemoveStep ==
    ASSUME ClientInv, NEW p \in Procs, Clients!Replace(p), op[p].kind = "remove"
    PROVE  /\ clients' = {e \in clients : e.id # op[p].id} /\ UNCHANGED <<op, lenses>>
           /\ \E e \in clients : e.id = op[p].id
           /\ op[p] = [kind |-> "remove", id |-> op[p].id]
           /\ result[p] = "none" /\ result' = [result EXCEPT ![p] = "ok"]
<1>1. at[p] = "holding" /\ step[p] = "accepted" /\ UNCHANGED <<op, lenses>> /\ result' = [result EXCEPT ![p] = "ok"]
  BY DEF Clients!Replace, Clients!Do
<1>2. seen[p] = clients /\ ~Clients!Refused(p) /\ result[p] = "none"
  BY <1>1 DEF ClientInv, ViewIsCurrent, InOrder
<1>3. Clients!Meant(p) = {e \in clients : e.id = op[p].id} /\ Clients!Meant(p) # {}
  BY <1>2 DEF Clients!Meant, Clients!Refused
<1>4. clients' = clients \ Clients!Meant(p)
  BY <1>2 DEF Clients!Replace, Clients!After
<1>5. op[p] = [kind |-> "remove", id |-> op[p].id]
  BY OpsAreShaped DEF ClientInv, ClientTypes
<1> QED  BY <1>1, <1>2, <1>3, <1>4, <1>5

LEMMA DropStep ==
    ASSUME ClientInv, NEW p \in Procs, Clients!Replace(p), op[p].kind = "dropLens"
    PROVE  /\ lenses' = lenses \ {op[p].lens} /\ UNCHANGED <<op, clients>>
           /\ \A e \in clients : e.lens # op[p].lens
           /\ result[p] = "none" /\ result' = [result EXCEPT ![p] = "ok"]
<1>1. at[p] = "holding" /\ step[p] = "accepted" /\ UNCHANGED <<op, clients>> /\ result' = [result EXCEPT ![p] = "ok"]
  BY DEF Clients!Replace, Clients!Do
<1>2. seen[p] = clients /\ ~Clients!Refused(p) /\ result[p] = "none"
  BY <1>1 DEF ClientInv, ViewIsCurrent, InOrder
<1>3. \A e \in clients : e.lens # op[p].lens
  BY <1>2 DEF Clients!Meant, Clients!Refused
<1> QED  BY <1>1, <1>2, <1>3 DEF Clients!Replace

(* What every replacement preserves, kind by kind. *)
Kept == IdsAreSpent' /\ Clients!LensesInUseStay' /\ Clients!NamesAreUnique' /\ KindsDone'

StaysRevoked == \A e \in clients, f \in clients' : e.id = f.id /\ f.active => e.active

LEMMA AddKeeps ==
    ASSUME ClientInv, KindsDone, NEW p \in Procs, Clients!Replace(p), op[p].kind = "add"
    PROVE  Kept /\ StaysRevoked
<1>1. /\ clients' = clients \cup {Added(p)} /\ UNCHANGED <<op, lenses>>
      /\ op[p].lens \in lenses
      /\ \A e \in clients : e.name # op[p].name /\ e.id # p
      /\ result[p] = "none" /\ result' = [result EXCEPT ![p] = "ok"]
  BY AddStep
<1>2. \A q \in Procs : result'[q] = IF q = p THEN "ok" ELSE result[q]
  BY <1>1 DEF ClientInv, ClientTypes
<1>3. \A i : Spent(i)' <=> Spent(i) \/ i = p
  BY <1>1, <1>2 DEF Spent
<1>4. Added(p).id = p /\ Added(p).name = op[p].name /\ Added(p).lens = op[p].lens
  BY DEF Added
<1>5. IdsAreSpent'
  BY <1>1, <1>2, <1>3, <1>4 DEF ClientInv, IdsAreSpent
<1>6. Clients!LensesInUseStay' /\ Clients!NamesAreUnique'
  BY <1>1, <1>4 DEF ClientInv, Stands, Clients!LensesInUseStay, Clients!NamesAreUnique
<1>7. \A q \in Procs : result[q] = "ok" /\ op[q].kind \in {"revoke", "remove"} => op[q].id # p
  BY <1>1, ClientsAssumption DEF ClientInv, IdsAreSpent, Spent
<1>8. KindsDone'
  <2>1. AddsStand'
    BY <1>1, <1>2, <1>4, <1>7 DEF KindsDone, AddsStand
  <2>2. RevocationsStand'
    BY <1>1, <1>2, <1>4, <1>7 DEF KindsDone, RevocationsStand
  <2>3. RemovalsStand'
    BY <1>1, <1>2, <1>4, <1>7 DEF KindsDone, RemovalsStand
  <2>4. DropsStand'
    BY <1>1, <1>2, <1>4, <1>7 DEF KindsDone, DropsStand
  <2> QED  BY <2>1, <2>2, <2>3, <2>4 DEF KindsDone
<1>9. StaysRevoked
  BY <1>1, <1>4 DEF StaysRevoked, ClientInv, IdsAreSpent
<1> QED  BY <1>5, <1>6, <1>8, <1>9 DEF Kept

LEMMA RevokedIdsAreUnique ==
    ASSUME ClientInv, NEW p \in Procs, Clients!Replace(p), op[p].kind = "revoke",
           NEW e \in clients', NEW f \in clients', e.id = f.id
    PROVE  e = f
<1>1. seen[p] = clients
  BY DEF ClientInv, ViewIsCurrent, Clients!Replace, Clients!Do
<1>2. clients' = (clients \ Clients!Meant(p)) \cup {[x EXCEPT !.active = FALSE] : x \in Clients!Meant(p)}
  BY <1>1 DEF Clients!Replace, Clients!After
<1>3. Clients!Meant(p) = {x \in clients : x.id = op[p].id}
  BY <1>1 DEF Clients!Meant
<1>4. \A x \in clients : [x EXCEPT !.active = FALSE].id = x.id
  BY DEF ClientInv, ClientTypes, Clients!Entries
<1>5. \A x, y \in clients : x.id = y.id => x = y
  BY DEF ClientInv, IdsAreSpent
<1> DEFINE Off(x) == [x EXCEPT !.active = FALSE]
<1>6. \A y \in clients' : \E x \in clients :
          x.id = y.id /\ ((x.id # op[p].id /\ y = x) \/ (x.id = op[p].id /\ y = Off(x)))
  BY <1>2, <1>3, <1>4
<1> HIDE DEF Off
<1> QED  BY <1>5, <1>6

LEMMA RevokeKeeps ==
    ASSUME ClientInv, KindsDone, NEW p \in Procs, Clients!Replace(p), op[p].kind = "revoke"
    PROVE  Kept /\ StaysRevoked
<1>1. /\ Fewer /\ UNCHANGED <<op, lenses>>
      /\ \A e \in clients : \E f \in clients' : f.id = e.id
      /\ \A f \in clients' : f.id = op[p].id => ~f.active
      /\ \E e \in clients : e.id = op[p].id
      /\ result[p] = "none" /\ result' = [result EXCEPT ![p] = "ok"]
  BY RevokeStep
<1>2. \A q \in Procs : result'[q] = IF q = p THEN "ok" ELSE result[q]
  BY <1>1 DEF ClientInv, ClientTypes
<1>3. \A i : Spent(i)' <=> Spent(i)
  BY <1>1, <1>2 DEF Spent
<1>4. \A e, f \in clients' : e.id = f.id => e = f
  BY RevokedIdsAreUnique
<1>5. IdsAreSpent'
  BY <1>1, <1>2, <1>3, <1>4 DEF ClientInv, IdsAreSpent, Fewer
<1>6. Clients!LensesInUseStay'
  BY <1>1 DEF ClientInv, Stands, Clients!LensesInUseStay, Fewer
<1>7. Clients!NamesAreUnique'
  <2> SUFFICES ASSUME NEW e \in clients', NEW f \in clients', e.name = f.name PROVE e = f
    BY DEF Clients!NamesAreUnique
  <2>1. e.id = f.id
    BY <1>1 DEF ClientInv, Stands, Clients!NamesAreUnique, Fewer
  <2> QED  BY <2>1, <1>4
<1>8. KindsDone'
  <2>1. AddsStand'
    BY <1>1, <1>2 DEF KindsDone, AddsStand, Fewer
  <2>2. RevocationsStand'
    BY <1>1, <1>2 DEF KindsDone, RevocationsStand, Fewer
  <2>3. RemovalsStand'
    BY <1>1, <1>2 DEF KindsDone, RemovalsStand, Fewer
  <2>4. DropsStand'
    BY <1>1, <1>2 DEF KindsDone, DropsStand, Fewer
  <2> QED  BY <2>1, <2>2, <2>3, <2>4 DEF KindsDone
<1>9. StaysRevoked
  BY <1>1 DEF StaysRevoked, ClientInv, IdsAreSpent, Fewer
<1> QED  BY <1>5, <1>6, <1>7, <1>8, <1>9 DEF Kept

LEMMA RemoveKeeps ==
    ASSUME ClientInv, KindsDone, NEW p \in Procs, Clients!Replace(p), op[p].kind = "remove"
    PROVE  Kept /\ StaysRevoked
<1>1. /\ clients' = {e \in clients : e.id # op[p].id} /\ UNCHANGED <<op, lenses>>
      /\ \E e \in clients : e.id = op[p].id
      /\ op[p] = [kind |-> "remove", id |-> op[p].id]
      /\ result[p] = "none" /\ result' = [result EXCEPT ![p] = "ok"]
  BY RemoveStep
<1>2. \A q \in Procs : result'[q] = IF q = p THEN "ok" ELSE result[q]
  BY <1>1 DEF ClientInv, ClientTypes
<1>3. \A i : Spent(i)' <=> Spent(i)
  BY <1>1, <1>2 DEF Spent
<1>4. IdsAreSpent'
  BY <1>1, <1>2, <1>3 DEF ClientInv, IdsAreSpent
<1>5. Clients!LensesInUseStay' /\ Clients!NamesAreUnique'
  BY <1>1 DEF ClientInv, Stands, Clients!LensesInUseStay, Clients!NamesAreUnique
<1>6. KindsDone'
  <2>1. AddsStand'
    <3> SUFFICES ASSUME NEW q \in Procs, result'[q] = "ok", op[q].kind = "add", \A e \in clients' : e.id # q
                 PROVE  \E w \in Procs : op[w] = [kind |-> "remove", id |-> q] /\ result'[w] = "ok"
      BY <1>1 DEF AddsStand
    <3>1. q # p /\ result[q] = "ok"
      BY <1>1, <1>2
    <3>2. CASE \E e \in clients : e.id = q
      <4>1. op[p].id = q
        BY <1>1, <3>2
      <4> QED  BY <1>1, <1>2, <4>1
    <3>3. CASE ~\E e \in clients : e.id = q
      BY <1>2, <3>1, <3>3 DEF KindsDone, AddsStand
    <3> QED  BY <3>2, <3>3
  <2>2. RevocationsStand'
    BY <1>1, <1>2 DEF KindsDone, RevocationsStand
  <2>3. RemovalsStand'
    BY <1>1, <1>2 DEF KindsDone, RemovalsStand
  <2>4. DropsStand'
    BY <1>1, <1>2 DEF KindsDone, DropsStand
  <2> QED  BY <2>1, <2>2, <2>3, <2>4 DEF KindsDone
<1>7. StaysRevoked
  BY <1>1 DEF StaysRevoked, ClientInv, IdsAreSpent
<1> QED  BY <1>4, <1>5, <1>6, <1>7 DEF Kept

LEMMA DropKeeps ==
    ASSUME ClientInv, KindsDone, NEW p \in Procs, Clients!Replace(p), op[p].kind = "dropLens"
    PROVE  Kept /\ StaysRevoked
<1>1. /\ lenses' = lenses \ {op[p].lens} /\ UNCHANGED <<op, clients>>
      /\ \A e \in clients : e.lens # op[p].lens
      /\ result[p] = "none" /\ result' = [result EXCEPT ![p] = "ok"]
  BY DropStep
<1>2. \A q \in Procs : result'[q] = IF q = p THEN "ok" ELSE result[q]
  BY <1>1 DEF ClientInv, ClientTypes
<1>3. \A i : Spent(i)' <=> Spent(i)
  BY <1>1, <1>2 DEF Spent
<1>4. IdsAreSpent'
  BY <1>1, <1>2, <1>3 DEF ClientInv, IdsAreSpent
<1>5. Clients!LensesInUseStay' /\ Clients!NamesAreUnique'
  BY <1>1 DEF ClientInv, Stands, Clients!LensesInUseStay, Clients!NamesAreUnique
<1>6. KindsDone'
  <2>1. AddsStand'
    BY <1>1, <1>2 DEF KindsDone, AddsStand
  <2>2. RevocationsStand'
    BY <1>1, <1>2 DEF KindsDone, RevocationsStand
  <2>3. RemovalsStand'
    BY <1>1, <1>2 DEF KindsDone, RemovalsStand
  <2>4. DropsStand'
    BY <1>1, <1>2 DEF KindsDone, DropsStand
  <2> QED  BY <2>1, <2>2, <2>3, <2>4 DEF KindsDone
<1>7. StaysRevoked
  BY <1>1 DEF StaysRevoked, ClientInv, IdsAreSpent
<1> QED  BY <1>4, <1>5, <1>6, <1>7 DEF Kept

LEMMA ReplaceStep ==
    ASSUME ClientInv, LockInv', NEW p \in Procs, Clients!Replace(p)
    PROVE  ClientInv' /\ StaysRevoked
<1>1. op[p].kind \in {"add", "revoke", "remove", "dropLens"} /\ step[p] = "accepted" /\ at[p] = "holding"
  <2>1. step[p] = "accepted" /\ at[p] = "holding"
    BY DEF Clients!Replace, Clients!Do
  <2>2. op[p] # Clients!NoOp
    BY <2>1 DEF ClientInv, InOrder
  <2> QED  BY <2>1, <2>2, OpsAreShaped DEF ClientInv, ClientTypes, Kinds
<1>2. KindsDone
  BY ReportsByKind DEF ClientInv, Stands
<1>3. Kept /\ StaysRevoked
  BY <1>1, <1>2, AddKeeps, RevokeKeeps, RemoveKeeps, DropKeeps
<1>4. clients' \subseteq Clients!Entries /\ lenses' \subseteq Lenses
  <2>1. CASE op[p].kind = "add"
    BY <2>1, AddStep DEF ClientInv, ClientTypes
  <2>2. CASE op[p].kind = "revoke"
    BY <2>2, RevokeStep DEF ClientInv, ClientTypes, Fewer
  <2>3. CASE op[p].kind = "remove"
    BY <2>3, RemoveStep DEF ClientInv, ClientTypes
  <2>4. CASE op[p].kind = "dropLens"
    BY <2>4, DropStep DEF ClientInv, ClientTypes
  <2> QED  BY <1>1, <2>1, <2>2, <2>3, <2>4
<1>5. ClientTypes' /\ InOrder' /\ ViewIsCurrent'
  BY <1>4, EndStep DEF Clients!Replace
<1> QED  BY <1>3, <1>5, ReportsByKindNext DEF Kept, ClientInv, Stands

-----------------------------------------------------------------------------
(***************************************************************************)
(* The theorems.  Of the three parts that MCRegistries runs, a behaviour   *)
(* is of one, and the clients are at rest in the others.                   *)
(***************************************************************************)
LEMMA CallsStepTheLock == Clients!Next => LockStep
BY DEF LockStep, Clients!Next, Clients!Locking, Clients!Start, Clients!Read, Clients!Refuse, Clients!NothingToDo,
  Clients!Accept, Clients!Replace, Clients!Finish, Clients!Do, Clients!locking, Clients!L!Next, Clients!L!vars

LEMMA SameClients == ASSUME ClientInv, UNCHANGED clients PROVE StaysRevoked
BY DEF StaysRevoked, ClientInv, IdsAreSpent

LEMMA ClientStep == ASSUME ClientInv, Clients!Next PROVE ClientInv' /\ StaysRevoked
<1>1. LockInv'
  BY CallsStepTheLock, LockInvStep DEF ClientInv
<1>2. CASE Clients!Locking \/ \E p \in Procs : Clients!Finish(p)
  <2>1. UNCHANGED clients
    BY <1>2 DEF Clients!Locking, Clients!Finish, Clients!files
  <2> QED  BY <1>1, <1>2, <2>1, LockingStep, SameClients
<1>3. ASSUME NEW p \in Procs, NEW o \in Clients!Ops, Clients!Start(p, o) PROVE ClientInv' /\ StaysRevoked
  BY <1>1, <1>3, StartStep, SameClients DEF Clients!Start, Clients!files
<1>4. ASSUME NEW p \in Procs, Clients!Read(p) \/ Clients!Accept(p) PROVE ClientInv' /\ StaysRevoked
  BY <1>1, <1>4, ViewStep, SameClients DEF Clients!Read, Clients!Accept, Clients!files
<1>5. ASSUME NEW p \in Procs, Clients!Refuse(p) PROVE ClientInv' /\ StaysRevoked
  BY <1>1, <1>5, RefuseStep, SameClients DEF Clients!Refuse, Clients!files
<1>6. ASSUME NEW p \in Procs, Clients!NothingToDo(p) PROVE ClientInv' /\ StaysRevoked
  BY <1>1, <1>6, NothingToDoStep, SameClients DEF Clients!NothingToDo, Clients!files
<1>7. ASSUME NEW p \in Procs, Clients!Replace(p) PROVE ClientInv' /\ StaysRevoked
  BY <1>1, <1>7, ReplaceStep
<1> QED  BY <1>2, <1>3, <1>4, <1>5, <1>6, <1>7 DEF Clients!Next

ClientsHold == part = "clients" => ClientInv

LEMMA ClientsHoldInit == ASSUME Prompt, RegistriesInit PROVE ClientsHold
BY ClientInvInit DEF RegistriesInit, ClientsHold

LEMMA ClientsHoldStep ==
    ClientsHold /\ [RegistriesNext]_all
        => ClientsHold' /\ (StaysRevoked \/ UNCHANGED Clients!vars)
<1> SUFFICES ASSUME ClientsHold, [RegistriesNext]_all
             PROVE  ClientsHold' /\ (StaysRevoked \/ UNCHANGED Clients!vars)
  OBVIOUS
<1>1. CASE part = "clients" /\ Clients!Next /\ UNCHANGED part
  BY <1>1, ClientStep DEF ClientsHold
<1>2. CASE part # "clients" /\ UNCHANGED <<part, granting>>
  BY <1>2 DEF ClientsHold, granting, Clients!vars, Clients!locking, Clients!files
<1>3. CASE UNCHANGED all
  <2>1. UNCHANGED <<part, prompt, lock, at, tries, met, op, step, seen, clients, lenses, result>>
    BY <1>3 DEF all, granting
  <2>2. UNCHANGED Clients!vars
    BY <2>1 DEF Clients!vars, Clients!locking, Clients!files
  <2> SUFFICES ASSUME ClientInv PROVE ClientInv'
    BY <2>1, <2>2 DEF ClientsHold
  <2>3. LockInv'
    BY <2>1, LockInvStep DEF ClientInv, LockStep, Clients!L!vars
  <2>4. ClientTypes' /\ InOrder'
    BY <2>1 DEF ClientInv, ClientTypes, InOrder
  <2>5. ViewIsCurrent'
    BY <2>1 DEF ClientInv, ViewIsCurrent, Clients!Refused, Clients!Meant
  <2>6. Silent
    BY <2>1 DEF Silent
  <2> QED  BY <2>3, <2>4, <2>5, <2>6, SilentKeepsResults DEF ClientInv
<1> QED  BY <1>1, <1>2, <1>3 DEF RegistriesNext

LEMMA ClientsHoldAlways == ASSUME Prompt PROVE RegistriesSpec => []ClientsHold
BY ClientsHoldInit, ClientsHoldStep, PTL DEF RegistriesSpec

(* Where the lock is prompt, for any number of calls, names and lenses and *)
(* any crashes: a lens in use stays, a name is one client's, and what a    *)
(* call reported done (client add, revoke and remove, the Workbench's      *)
(* removal of a lens) stays done.                                          *)
THEOREM ReportsHold == ASSUME Prompt PROVE RegistriesSpec => []ReportsStand
<1>1. ClientsHold => ReportsStand
  BY DEF ClientsHold, ReportsStand, ClientInv, Stands
<1> QED  BY <1>1, ClientsHoldAlways, PTL

(* Where the lock is prompt, no step of any call makes a revoked client    *)
(* active again: no update of clients.json is lost.                        *)
THEOREM RevokedForGood == ASSUME Prompt PROVE RegistriesSpec => RevocationIsFinal
<1>1. ClientsHold /\ [RegistriesNext]_all =>
        [\A e \in clients, f \in clients' : e.id = f.id /\ f.active => e.active]_Clients!vars
  BY ClientsHoldStep DEF StaysRevoked
<1> QED  BY <1>1, ClientsHoldAlways, PTL DEF RegistriesSpec, RevocationIsFinal, Clients!RevocationIsFinal

-----------------------------------------------------------------------------
(***************************************************************************)
(* Links, for any number of commands, any command lines and lenses.  The   *)
(* invariant has a part about the files (what is granted was given) and    *)
(* one about each command: what it has in memory, and, as long as nobody   *)
(* else has written, which of the three files still are, or are again, as  *)
(* its snapshot has them.                                                  *)
(***************************************************************************)
Of(p) == cmd[p].project

Bindings == [Links!Keys -> Links!Choices \cup {None}]

Snapshots == [link : Links!Links \cup {None}, binding : Bindings, entry : Links!Entries \cup {None}]

Memory ==
    [was : Snapshots, choice : Links!Choices \cup {None}, salt : Links!Keys \cup {None}, key : Links!Keys \cup {None},
     copy : Bindings \cup {None}, grant : (SUBSET Purposes) \cup {None}]

Busy == Links!Trying \cup Links!Undoing \cup {"asked"}
Places == Busy \cup Links!Ended \cup {"start", "removing", "renewing"}

(* Commands that put the files back if they fail. *)
Restoring == Links!Linking \cup {"bind", "unbind"}

(* Every variable has its type. *)
LinkTypes ==
    /\ DOMAIN cmd = Cmds /\ \A p \in Cmds : cmd[p] \in Lines[p]
    /\ place \in [Cmds -> Places]
    /\ DOMAIN mem = Cmds /\ mem = [p \in Cmds |-> mem[p]]
    /\ holder \in Cmds \cup {None}
    /\ link \in [Links!Projects -> Links!Links \cup {None}]
    /\ binding \in Bindings
    /\ entry \in [Links!Projects -> Links!Entries \cup {None}]
    /\ touched \in [Cmds -> BOOLEAN]
    /\ given \in [Links!Projects -> SUBSET Purposes]

(* No entry grants a lens that was not given. *)
GrantsGiven == \A q \in Links!Projects : entry[q] # None => entry[q].grant \subseteq given[q]

(* Which command can be where, and what it has in memory there. *)
Route(p) ==
    /\ place[p] \in Busy => mem[p] \in Memory
    /\ place[p] = "picking" => cmd[p].op \in {"setup", "add"}
    /\ place[p] \in {"writing", "unlinking"} => cmd[p].op \in Links!Linking
    /\ place[p] \in {"activating", "relocking", "reverting"} => cmd[p].op \in {"setup", "add"}
    /\ place[p] \in {"storing", "unbinding"} => cmd[p].op \in Restoring
    /\ place[p] = "asked" => cmd[p].op \in Restoring
    /\ place[p] \in Busy /\ cmd[p].op \in Links!Linking => mem[p].choice # None
    /\ place[p] \in Busy /\ cmd[p].op \notin {"bind", "unbind"} => mem[p].salt # None
    /\ place[p] \in Busy /\ cmd[p].op = "repair" /\ cmd[p].main = None => mem[p].key # None
    /\ place[p] \in Busy /\ cmd[p].op = "unbind" => mem[p].choice = None
    /\ place[p] = "storing" => mem[p].copy \in Bindings
    /\ place[p] \in {"storing", "writing"} /\ cmd[p].op \in Links!Linking => mem[p].key # None

(* What a command has in memory to grant was given, is named by it, or is  *)
(* what its flag accepts.                                                  *)
Remembers(p) == place[p] \in Busy =>
    /\ mem[p].was.entry # None => mem[p].was.entry.grant \subseteq given[Of(p)]
    /\ mem[p].grant # None =>
          mem[p].grant \subseteq IF cmd[p].accept THEN Links!Wanted(mem[p].choice)
                                 ELSE given[Of(p)] \cup Links!Named(cmd[p])
    /\ cmd[p].op \in {"setup", "add", "bind"} /\ cmd[p].main # None /\ (cmd[p].more # None \/ cmd[p].op = "bind") =>
          Links!Wanted(mem[p].choice) \subseteq Links!Named(cmd[p])

SameBinding(p) == binding = mem[p].was.binding
SameLink(p) == link[Of(p)] = mem[p].was.link
SameEntry(p) == entry[Of(p)] = mem[p].was.entry

(* The entry is as it was, or can be put back. *)
CanRevert(p) == SameEntry(p) \/ (cmd[p].op \in {"setup", "add"} /\ entry[Of(p)] # None)

WayBack(p) == ~touched[p] /\ cmd[p].op \in Restoring =>
    /\ place[p] \notin {"start", "asked", "renewing"}
    /\ place[p] \in {"picking", "storing", "failed"} => SameBinding(p) /\ SameLink(p) /\ SameEntry(p)
    /\ place[p] \in {"waiting", "inside"} =>
          /\ SameEntry(p)
          /\ cmd[p].op = "repair" /\ mem[p].key = None => SameBinding(p) /\ SameLink(p)
          /\ cmd[p].op \in {"bind", "unbind"} => SameLink(p) /\ (mem[p].copy # None => SameBinding(p))
    /\ place[p] = "writing" => SameLink(p) /\ SameEntry(p)
    /\ place[p] \in {"activating", "unbinding", "unlinking", "relocking", "reverting"} => CanRevert(p)
    /\ place[p] = "unbinding" /\ cmd[p].op \in {"bind", "unbind"} => SameLink(p)
    /\ place[p] \in {"unlinking", "relocking", "reverting"} => SameBinding(p)
    /\ place[p] \in {"relocking", "reverting"} => SameLink(p)

Sound(p) == Route(p) /\ Remembers(p) /\ WayBack(p)

LinkInv == LinkTypes /\ GrantsGiven /\ \A p \in Cmds : Sound(p)

-----------------------------------------------------------------------------
(***************************************************************************)
(* Command lines, choices and grants.                                      *)
(***************************************************************************)
LEMMA CommandLines ==
    ASSUME LinkTypes, NEW p \in Cmds
    PROVE  /\ cmd[p].op \in Links!Ops /\ Of(p) \in Links!Projects /\ cmd[p].accept \in BOOLEAN
           /\ cmd[p].main \in Purposes \cup {None} /\ cmd[p].more \in (SUBSET Purposes) \cup {None}
           /\ cmd[p].op \in {"bind", "unbind"} => ~cmd[p].accept
           /\ Links!Named(cmd[p]) \subseteq Purposes
<1>1. cmd[p] \in Lines[p] /\ Lines[p] \subseteq [op : Links!Ops, project : Links!Projects, main : Purposes \cup {None},
                                               more : (SUBSET Purposes) \cup {None}, accept : BOOLEAN]
  BY LinksAssumption DEF LinkTypes
<1>2. cmd[p].op \in {"bind", "unbind"} => ~cmd[p].accept
  BY <1>1, LinksAssumption
<1> QED  BY <1>1, <1>2 DEF Of, Links!Named

LEMMA WantedAreLenses ==
    ASSUME NEW choice \in Links!Choices
    PROVE  Links!Wanted(choice) \subseteq Purposes
BY DEF Links!Wanted, Links!Choices

LEMMA ResolvedIsAChoice ==
    ASSUME LinkTypes, NEW q \in Links!Projects
    PROVE  Links!Resolved(q) \in Links!Choices \cup {None}
BY DEF LinkTypes, Bindings, Links!Resolved, Links!Links

(* What is chosen: as named, if both are named, or if nothing is inherited. *)
LEMMA ChoicesAreTyped ==
    ASSUME LinkTypes, NEW p \in Cmds, NEW inherited \in Links!Choices \cup {None}
    PROVE  /\ Links!ChoiceOf(cmd[p], inherited) \in Links!Choices
           /\ cmd[p].main # None /\ (cmd[p].more # None \/ inherited = None) =>
                 Links!Wanted(Links!ChoiceOf(cmd[p], inherited)) \subseteq Links!Named(cmd[p])
<1> DEFINE choice == Links!ChoiceOf(cmd[p], inherited)
<1>1. cmd[p].main \in Purposes \cup {None} /\ cmd[p].more \in (SUBSET Purposes) \cup {None}
  BY CommandLines
<1>2. inherited # None => inherited.main \in Purposes /\ inherited.more \in SUBSET Purposes
  BY DEF Links!Choices
<1>3. choice \in Links!Choices
  BY <1>1, <1>2, LinksAssumption DEF Links!ChoiceOf, Links!Choices
<1>4. choice.main = IF cmd[p].main # None THEN cmd[p].main ELSE IF inherited # None THEN inherited.main ELSE General
  BY DEF Links!ChoiceOf
<1>5. choice.more = IF cmd[p].more # None THEN cmd[p].more
                    ELSE IF cmd[p].main = None /\ inherited # None THEN inherited.more ELSE {}
  BY DEF Links!ChoiceOf
<1> HIDE DEF choice
<1>6. cmd[p].main # None /\ (cmd[p].more # None \/ inherited = None) => Links!Wanted(choice) \subseteq Links!Named(cmd[p])
  BY <1>4, <1>5 DEF Links!Wanted, Links!Named
<1> QED  BY <1>3, <1>6 DEF choice

(* nextAllowedLenses adds what is named or accepted, and nothing else. *)
LEMMA GrantsAreBounded ==
    ASSUME NEW e \in Links!Entries \cup {None}, NEW wanted \in SUBSET Purposes, NEW named \in SUBSET Purposes,
           NEW explicit \in BOOLEAN, NEW accept \in BOOLEAN
    PROVE  LET next == Links!NextGrant(e, wanted, named, explicit, accept)
           IN /\ next \in SUBSET Purposes /\ next \subseteq wanted
              /\ e = None \/ explicit \/ accept \/ next \subseteq e.grant \cup named
BY DEF Links!NextGrant, Links!Entries

-----------------------------------------------------------------------------
(***************************************************************************)
(* The steps.  What a command does disturbs no other: it writes, and says  *)
(* so in touched, or it leaves the files alone.                            *)
(***************************************************************************)
Frame(p) ==
    /\ UNCHANGED cmd
    /\ \A r \in Cmds \ {p} :
          /\ place'[r] = place[r] /\ mem'[r] = mem[r]
          /\ touched'[r] \/ (touched'[r] = touched[r] /\ UNCHANGED <<link, binding, entry>>)
    /\ \A q \in Links!Projects : given[q] \subseteq given'[q]

LEMMA OthersStaySound ==
    ASSUME LinkInv, NEW p \in Cmds, Frame(p), NEW r \in Cmds \ {p}
    PROVE  Sound(r)'
<1>1. Sound(r) /\ Of(r) \in Links!Projects
  BY CommandLines DEF LinkInv
<1>2. place'[r] = place[r] /\ mem'[r] = mem[r] /\ UNCHANGED cmd /\ Of(r)' = Of(r) /\ given[Of(r)] \subseteq given'[Of(r)]
  BY <1>1 DEF Frame, Of
<1>3. Route(r)'
  BY <1>1, <1>2 DEF Sound, Route
<1>4. Remembers(r)'
  BY <1>1, <1>2 DEF Sound, Remembers, Links!Wanted, Links!Named
<1>5. WayBack(r)'
  <2>1. CASE touched'[r]
    BY <2>1 DEF WayBack
  <2>2. CASE touched'[r] = touched[r] /\ UNCHANGED <<link, binding, entry>>
    BY <1>1, <1>2, <2>2 DEF Sound, WayBack, SameBinding, SameLink, SameEntry, CanRevert
  <2> QED  BY <2>1, <2>2 DEF Frame
<1> QED  BY <1>3, <1>4, <1>5 DEF Sound

LEMMA LinkInvFromParts ==
    ASSUME LinkInv, NEW p \in Cmds, Frame(p), LinkTypes', GrantsGiven', Sound(p)'
    PROVE  LinkInv'
BY OthersStaySound DEF LinkInv

(* A step of p that goes somewhere and writes no file. *)
Quietly(p, to, m) ==
    /\ UNCHANGED <<cmd, link, binding, entry, given>>
    /\ place' = [place EXCEPT ![p] = to]
    /\ mem' = [mem EXCEPT ![p] = m]
    /\ \A r \in Cmds \ {p} : touched'[r] = touched[r]

LEMMA QuietFrame ==
    ASSUME LinkInv, NEW p \in Cmds, NEW to \in Places, NEW m, Quietly(p, to, m),
           holder' \in Cmds \cup {None}, touched' \in [Cmds -> BOOLEAN]
    PROVE  Frame(p) /\ LinkTypes' /\ GrantsGiven' /\ place'[p] = to /\ mem'[p] = m
<1>1. Frame(p)
  BY DEF LinkInv, LinkTypes, Quietly, Frame
<1>2. LinkTypes' /\ GrantsGiven'
  BY DEF LinkInv, LinkTypes, Quietly, GrantsGiven
<1> QED  BY <1>1, <1>2 DEF LinkInv, LinkTypes, Quietly

LEMMA SnapshotsAreTyped ==
    ASSUME LinkInv, NEW p \in Cmds
    PROVE  LET was == Links!Snapshot(Of(p))
           IN /\ was \in Snapshots
              /\ was.link = link[Of(p)] /\ was.binding = binding /\ was.entry = entry[Of(p)]
              /\ was.entry # None => was.entry.grant \subseteq given[Of(p)]
<1>1. Of(p) \in Links!Projects
  BY CommandLines DEF LinkInv
<1> QED  BY <1>1 DEF Links!Snapshot, Snapshots, LinkInv, LinkTypes, GrantsGiven

LEMMA BeginLinkingStep ==
    ASSUME LinkInv, NEW p \in Cmds, Links!BeginLinking(p)
    PROVE  LinkInv'
<1> DEFINE q == Of(p)
           joined == cmd[p].op = "setup" /\ link[q] # None /\ ~Links!Taken(link[q].key, q)
           inherited == IF joined THEN Links!Resolved(q) ELSE None
           choice == Links!ChoiceOf(cmd[p], inherited)
           salt == IF joined THEN link[q].salt ELSE p
           was == Links!Snapshot(q)
           m == [was |-> was, choice |-> choice, salt |-> salt, key |-> None, copy |-> None, grant |-> None]
<1>1. Quietly(p, "asked", m) /\ UNCHANGED <<holder, touched>> /\ place[p] = "start"
  BY DEF Links!BeginLinking, Links!Mem, Links!Go, Links!Keep, Quietly, LinkInv, LinkTypes, Of
<1>2. cmd[p].op \in {"setup", "add"}
  BY DEF Links!BeginLinking
<1>3. inherited \in Links!Choices \cup {None} /\ q \in Links!Projects
  BY CommandLines, ResolvedIsAChoice DEF LinkInv
<1>4. /\ choice \in Links!Choices
      /\ cmd[p].main # None /\ cmd[p].more # None => Links!Wanted(choice) \subseteq Links!Named(cmd[p])
  BY <1>3, ChoicesAreTyped DEF LinkInv
<1>5. salt \in Links!Keys /\ salt # None
  BY <1>3, LinksAssumption DEF LinkInv, LinkTypes, Links!Links, Links!Keys
<1>6. /\ was \in Snapshots
      /\ was.link = link[q] /\ was.binding = binding /\ was.entry = entry[q]
      /\ was.entry # None => was.entry.grant \subseteq given[q]
  BY SnapshotsAreTyped
<1> HIDE DEF inherited, choice, salt, was
<1>7. /\ m \in Memory /\ m.choice = choice /\ m.was = was /\ m.salt = salt /\ m.grant = None
  BY <1>4, <1>5, <1>6 DEF Memory
<1> HIDE DEF m
<1>8. /\ Frame(p) /\ LinkTypes' /\ GrantsGiven' /\ place'[p] = "asked" /\ mem'[p] = m
      /\ UNCHANGED <<cmd, link, binding, entry, given, touched>>
  <2>1. holder' \in Cmds \cup {None} /\ touched' \in [Cmds -> BOOLEAN] /\ "asked" \in Places
    BY <1>1 DEF LinkInv, LinkTypes, Places, Busy
  <2>2. Frame(p) /\ LinkTypes' /\ GrantsGiven' /\ place'[p] = "asked" /\ mem'[p] = m
    BY <1>1, <2>1, QuietFrame
  <2> QED  BY <1>1, <2>2 DEF Quietly
<1>9. Route(p)'
  BY <1>2, <1>4, <1>5, <1>7, <1>8, LinksAssumption DEF Route, Links!Linking, Restoring
<1>10. Remembers(p)'
  BY <1>2, <1>4, <1>6, <1>7, <1>8 DEF Remembers, Of, Links!Named, Links!Wanted
<1>11. touched[p]
  BY <1>1, <1>2 DEF LinkInv, Sound, WayBack, Restoring, Links!Linking
<1>12. WayBack(p)'
  BY <1>8, <1>11 DEF WayBack
<1> QED  BY <1>8, <1>9, <1>10, <1>12, LinkInvFromParts DEF Sound

LEMMA BeginRepairStep ==
    ASSUME LinkInv, NEW p \in Cmds, Links!BeginRepair(p)
    PROVE  LinkInv'
<1> DEFINE q == Of(p)
           c == cmd[p]
           e == entry[q]
           choice == IF c.main # None THEN [main |-> c.main, more |-> IF c.more = None THEN {} ELSE c.more]
                     ELSE Links!Resolved(q)
           named == IF c.main = None THEN {} ELSE Links!Named(c)
           explicit == c.main # None /\ c.more # None
           next == Links!NextGrant(e, Links!Wanted(choice), named, explicit, c.accept)
           grant == IF e = None \/ ~e.active THEN None ELSE next
           was == Links!Snapshot(q)
           key == IF c.main = None THEN link[q].key ELSE None
           m == [was |-> was, choice |-> choice, salt |-> link[q].salt, copy |-> None, grant |-> grant, key |-> key]
           to == IF c.main # None \/ (grant # None /\ grant # e.grant) THEN "asked" ELSE "done"
<1>1. Quietly(p, to, m) /\ UNCHANGED <<holder, touched>> /\ place[p] = "start"
  BY DEF Links!BeginRepair, Links!Mem, Links!Go, Links!Keep, Quietly, LinkInv, LinkTypes, Of
<1>2. c.op = "repair" /\ link[q] # None /\ choice # None
  BY DEF Links!BeginRepair, Of
<1>3. q \in Links!Projects /\ c.accept \in BOOLEAN /\ Links!Named(c) \in SUBSET Purposes
  BY CommandLines DEF LinkInv
<1>4. choice \in Links!Choices
  BY <1>2, <1>3, CommandLines, ResolvedIsAChoice DEF Links!Choices, LinkInv
<1>5. explicit => Links!Wanted(choice) \subseteq Links!Named(c)
  BY DEF Links!Wanted, Links!Named
<1>6. /\ link[q].salt \in Links!Keys /\ link[q].salt # None
      /\ key \in Links!Keys \cup {None} /\ (c.main = None => key # None)
  BY <1>2, <1>3, LinksAssumption DEF LinkInv, LinkTypes, Links!Links, Links!Keys
<1>7. /\ was \in Snapshots
      /\ was.link = link[q] /\ was.binding = binding /\ was.entry = entry[q]
      /\ was.entry # None => was.entry.grant \subseteq given[q]
  BY SnapshotsAreTyped
<1>8. e \in Links!Entries \cup {None} /\ Links!Wanted(choice) \in SUBSET Purposes /\ named \subseteq Links!Named(c)
  BY <1>3, <1>4, WantedAreLenses DEF LinkInv, LinkTypes
<1> HIDE DEF choice, was, named, key
<1>9. /\ next \in SUBSET Purposes /\ next \subseteq Links!Wanted(choice)
      /\ e = None \/ explicit \/ c.accept \/ next \subseteq e.grant \cup named
  BY <1>3, <1>8, GrantsAreBounded
<1> HIDE DEF next
<1>10. /\ grant \in (SUBSET Purposes) \cup {None}
       /\ grant # None => grant \subseteq IF c.accept THEN Links!Wanted(choice) ELSE given[q] \cup Links!Named(c)
  BY <1>3, <1>5, <1>7, <1>8, <1>9
<1> HIDE DEF grant
<1>11. m \in Memory /\ m.choice = choice /\ m.was = was /\ m.salt = link[q].salt /\ m.grant = grant /\ m.key = key
  BY <1>4, <1>6, <1>7, <1>10 DEF Memory
<1> HIDE DEF m
<1>12. to \in {"asked", "done"}
  OBVIOUS
<1> HIDE DEF to
<1>13. Frame(p) /\ LinkTypes' /\ GrantsGiven' /\ place'[p] = to /\ mem'[p] = m
  <2>1. holder' \in Cmds \cup {None} /\ touched' \in [Cmds -> BOOLEAN] /\ to \in Places
    BY <1>1, <1>12 DEF LinkInv, LinkTypes, Places, Busy, Links!Trying, Links!Ended
  <2> QED  BY <1>1, <2>1, QuietFrame
<1>14. UNCHANGED <<cmd, link, binding, entry, given>>
  BY <1>1 DEF Quietly
<1>15. Route(p)'
  BY <1>2, <1>4, <1>6, <1>11, <1>12, <1>13, <1>14, LinksAssumption
    DEF Route, Restoring, Links!Linking, Busy, Links!Trying, Links!Undoing
<1>16. Remembers(p)'
  BY <1>2, <1>7, <1>10, <1>11, <1>13, <1>14 DEF Remembers, Of, Links!Named, Links!Wanted
<1>17. WayBack(p)'
  <2>1. touched[p]
    BY <1>1, <1>2 DEF LinkInv, Sound, WayBack, Restoring, Links!Linking
  <2> QED  BY <1>1, <2>1 DEF WayBack
<1> QED  BY <1>13, <1>15, <1>16, <1>17, LinkInvFromParts DEF Sound

LEMMA SnapLinkingStep ==
    ASSUME LinkInv, NEW p \in Cmds, Links!SnapLinking(p)
    PROVE  LinkInv'
<1> DEFINE was == Links!Snapshot(Of(p))
           attested == cmd[p].op # "repair" /\ entry[Of(p)] # None
           salt == IF attested THEN entry[Of(p)].salt ELSE mem[p].salt
           m == [mem[p] EXCEPT !.was = was, !.salt = salt]
           to == IF cmd[p].op = "repair" THEN "waiting" ELSE "picking"
<1>1. /\ Quietly(p, to, m) /\ UNCHANGED holder /\ touched' = [touched EXCEPT ![p] = FALSE]
      /\ place[p] = "asked" /\ cmd[p].op \in Links!Linking
  BY DEF Links!SnapLinking, Links!Mem, Links!Go, Quietly, LinkInv, LinkTypes, Of, Links!Project
<1>2. Route(p) /\ Remembers(p) /\ mem[p] \in Memory /\ Of(p) \in Links!Projects
  BY <1>1, CommandLines DEF LinkInv, Sound, Route, Busy
<1>3. /\ was \in Snapshots
      /\ was.link = link[Of(p)] /\ was.binding = binding /\ was.entry = entry[Of(p)]
      /\ was.entry # None => was.entry.grant \subseteq given[Of(p)]
  BY SnapshotsAreTyped
<1>4. salt \in Links!Keys /\ salt # None
  <2>1. mem[p].salt \in Links!Keys /\ mem[p].salt # None
    BY <1>1, <1>2 DEF Route, Memory, Busy, Links!Linking
  <2> QED  BY <1>2, <2>1, LinksAssumption DEF LinkInv, LinkTypes, Links!Entries, Links!Keys
<1> HIDE DEF was, salt
<1>5. /\ m \in Memory /\ m.was = was /\ m.salt = salt
      /\ m.choice = mem[p].choice /\ m.grant = mem[p].grant /\ m.key = mem[p].key
  BY <1>2, <1>3, <1>4 DEF Memory
<1> HIDE DEF m
<1>6. Frame(p) /\ LinkTypes' /\ GrantsGiven' /\ place'[p] = to /\ mem'[p] = m
  <2>1. holder' \in Cmds \cup {None} /\ touched' \in [Cmds -> BOOLEAN] /\ to \in Places
    BY <1>1 DEF LinkInv, LinkTypes, Places, Busy, Links!Trying
  <2> QED  BY <1>1, <2>1, QuietFrame
<1>7. UNCHANGED <<cmd, link, binding, entry, given>>
  BY <1>1 DEF Quietly
<1>8. Route(p)'
  BY <1>1, <1>2, <1>4, <1>5, <1>6, <1>7 DEF Route, Links!Linking, Busy
<1>9. Remembers(p)'
  BY <1>1, <1>2, <1>3, <1>5, <1>6, <1>7 DEF Remembers, Of, Links!Named, Links!Wanted, Busy
<1>10. WayBack(p)'
  BY <1>1, <1>3, <1>5, <1>6, <1>7 DEF WayBack, SameBinding, SameLink, SameEntry, Of, Links!Linking
<1> QED  BY <1>6, <1>8, <1>9, <1>10, LinkInvFromParts DEF Sound

(* lens bind and unbind. *)
LEMMA BeginBindStep ==
    ASSUME LinkInv, NEW p \in Cmds, Links!BeginBind(p)
    PROVE  LinkInv'
<1> DEFINE q == Of(p)
           choice == IF cmd[p].op = "bind" THEN Links!ChoiceOf(cmd[p], None) ELSE None
           was == Links!Snapshot(q)
           m == [was |-> was, choice |-> choice, salt |-> None, key |-> None, copy |-> binding, grant |-> None]
<1>1. cmd[p].op \in {"bind", "unbind"} /\ touched'[p]
  <2>1. cmd[p].op \in {"bind", "unbind"} /\ place[p] = "start" /\ UNCHANGED touched
    BY DEF Links!BeginBind, Links!Keep, Of, Links!Project
  <2>2. touched[p]
    BY <2>1 DEF LinkInv, Sound, WayBack, Restoring
  <2> QED  BY <2>1, <2>2
<1>2. holder' \in Cmds \cup {None} /\ touched' \in [Cmds -> BOOLEAN] /\ "failed" \in Places /\ "asked" \in Places
  BY DEF Links!BeginBind, Links!Keep, LinkInv, LinkTypes, Places, Busy, Links!Ended
<1>3. CASE Quietly(p, "failed", mem[p])
  <2>1. Frame(p) /\ LinkTypes' /\ GrantsGiven' /\ place'[p] = "failed"
    BY <1>2, <1>3, QuietFrame
  <2>2. Route(p)' /\ Remembers(p)' /\ WayBack(p)'
    BY <1>1, <2>1 DEF Route, Remembers, WayBack, Busy, Links!Trying, Links!Undoing
  <2> QED  BY <2>1, <2>2, LinkInvFromParts DEF Sound
<1>4. CASE Quietly(p, "asked", m)
  <2>1. /\ choice \in Links!Choices \cup {None}
        /\ cmd[p].op = "bind" /\ cmd[p].main # None => Links!Wanted(choice) \subseteq Links!Named(cmd[p])
        /\ cmd[p].op = "unbind" => choice = None
    BY ChoicesAreTyped DEF LinkInv
  <2>2. /\ was \in Snapshots
        /\ was.link = link[q] /\ was.binding = binding /\ was.entry = entry[q]
        /\ was.entry # None => was.entry.grant \subseteq given[q]
    BY SnapshotsAreTyped
  <2>3. binding \in Bindings
    BY DEF LinkInv, LinkTypes
  <2> HIDE DEF choice, was
  <2>4. m \in Memory /\ m.choice = choice /\ m.was = was /\ m.grant = None
    BY <2>1, <2>2, <2>3 DEF Memory
  <2> HIDE DEF m
  <2>5. Frame(p) /\ LinkTypes' /\ GrantsGiven' /\ place'[p] = "asked" /\ mem'[p] = m
    BY <1>2, <1>4, QuietFrame
  <2>6. UNCHANGED <<cmd, link, binding, entry, given>>
    BY <1>4 DEF Quietly
  <2>7. Route(p)'
    BY <1>1, <2>1, <2>4, <2>5, <2>6 DEF Route, Links!Linking, Restoring
  <2>8. Remembers(p)'
    BY <1>1, <2>1, <2>2, <2>4, <2>5, <2>6 DEF Remembers, Of, Links!Named, Links!Wanted
  <2>9. WayBack(p)'
    BY <1>1 DEF WayBack
  <2> QED  BY <2>5, <2>7, <2>8, <2>9, LinkInvFromParts DEF Sound
<1>5. Quietly(p, "failed", mem[p]) \/ Quietly(p, "asked", m)
  <2>1. /\ UNCHANGED <<cmd, link, binding, entry, given, touched>>
        /\ \/ place' = [place EXCEPT ![p] = "failed"] /\ UNCHANGED mem
           \/ place' = [place EXCEPT ![p] = "asked"] /\ mem' = [mem EXCEPT ![p] = m]
    BY DEF Links!BeginBind, Links!Mem, Links!Go, Links!Keep, Of, Links!Project
  <2>2. mem = [mem EXCEPT ![p] = mem[p]]
    BY DEF LinkInv, LinkTypes
  <2> HIDE DEF m
  <2> QED  BY <2>1, <2>2 DEF Quietly
<1> QED  BY <1>3, <1>4, <1>5

LEMMA SnapBindingsStep ==
    ASSUME LinkInv, NEW p \in Cmds, Links!SnapBindings(p)
    PROVE  LinkInv'
<1> DEFINE was == Links!Snapshot(Of(p))
           m == [mem[p] EXCEPT !.was = was]
<1>1. /\ Quietly(p, "waiting", m) /\ UNCHANGED holder /\ touched' = [touched EXCEPT ![p] = FALSE]
      /\ place[p] = "asked" /\ cmd[p].op \in {"bind", "unbind"}
  BY DEF Links!SnapBindings, Links!Mem, Links!Go, Quietly, LinkInv, LinkTypes, Of, Links!Project
<1>2. Route(p) /\ Remembers(p) /\ mem[p] \in Memory
  BY <1>1 DEF LinkInv, Sound, Route, Busy
<1>3. /\ was \in Snapshots
      /\ was.link = link[Of(p)] /\ was.binding = binding /\ was.entry = entry[Of(p)]
      /\ was.entry # None => was.entry.grant \subseteq given[Of(p)]
  BY SnapshotsAreTyped
<1> HIDE DEF was
<1>4. m \in Memory /\ m.was = was /\ m.choice = mem[p].choice /\ m.grant = mem[p].grant
  BY <1>2, <1>3 DEF Memory
<1> HIDE DEF m
<1>5. Frame(p) /\ LinkTypes' /\ GrantsGiven' /\ place'[p] = "waiting" /\ mem'[p] = m
  <2>1. holder' \in Cmds \cup {None} /\ touched' \in [Cmds -> BOOLEAN] /\ "waiting" \in Places
    BY <1>1 DEF LinkInv, LinkTypes, Places, Busy, Links!Trying
  <2> QED  BY <1>1, <2>1, QuietFrame
<1>6. UNCHANGED <<cmd, link, binding, entry, given>>
  BY <1>1 DEF Quietly
<1>7. Route(p)'
  BY <1>1, <1>2, <1>4, <1>5, <1>6 DEF Route, Links!Linking, Busy
<1>8. Remembers(p)'
  BY <1>1, <1>2, <1>3, <1>4, <1>5, <1>6 DEF Remembers, Of, Links!Named, Links!Wanted, Busy
<1>9. WayBack(p)'
  BY <1>1, <1>2, <1>3, <1>4, <1>5, <1>6 DEF WayBack, SameBinding, SameLink, SameEntry, Of
<1> QED  BY <1>5, <1>7, <1>8, <1>9, LinkInvFromParts DEF Sound

(* What several of the next steps have in common: the files stay, and so   *)
(* does what the command remembers of the choice, the grant and the files. *)
LEMMA OnwardStep ==
    ASSUME LinkInv, NEW p \in Cmds, NEW to \in Places, NEW m, Quietly(p, to, m), UNCHANGED touched,
           holder' \in Cmds \cup {None},
           to \in Busy => /\ place[p] \in Busy /\ m \in Memory
                          /\ m.was = mem[p].was /\ m.choice = mem[p].choice /\ m.grant = mem[p].grant
    PROVE  /\ Frame(p) /\ LinkTypes' /\ GrantsGiven' /\ Remembers(p)'
           /\ place'[p] = to /\ mem'[p] = m /\ UNCHANGED <<cmd, link, binding, entry, given, touched>>
<1>1. /\ Frame(p) /\ LinkTypes' /\ GrantsGiven'
      /\ place'[p] = to /\ mem'[p] = m /\ UNCHANGED <<cmd, link, binding, entry, given, touched>>
  <2>1. touched' \in [Cmds -> BOOLEAN]
    BY DEF LinkInv, LinkTypes
  <2>2. Frame(p) /\ LinkTypes' /\ GrantsGiven' /\ place'[p] = to /\ mem'[p] = m
    BY <2>1, QuietFrame
  <2> QED  BY <2>2 DEF Quietly
<1>2. Remembers(p)
  BY DEF LinkInv, Sound
<1>3. Remembers(p)'
  BY <1>1, <1>2 DEF Remembers, Of, Links!Named, Links!Wanted
<1> QED  BY <1>1, <1>3

LEMMA PickStep ==
    ASSUME LinkInv, NEW p \in Cmds, Links!Pick(p)
    PROVE  LinkInv'
<1> DEFINE q == Of(p)
           key == IF link[q] # None /\ ~Links!Taken(link[q].key, q) THEN link[q].key ELSE p
           m == [mem[p] EXCEPT !.copy = binding, !.key = key]
<1>1. /\ Quietly(p, "storing", m) /\ UNCHANGED <<holder, touched>> /\ Links!InWriteLink(p)
  BY DEF Links!Pick, Links!Mem, Links!Go, Links!Keep, Quietly, LinkInv, LinkTypes, Of, Links!Project
<1>2. /\ place[p] \in {"picking", "inside"} /\ place[p] \in Busy /\ mem[p] \in Memory /\ Route(p) /\ WayBack(p)
      /\ cmd[p].op \in Links!Linking
      /\ place[p] = "inside" => cmd[p].op = "repair" /\ mem[p].key = None
  BY <1>1 DEF Links!InWriteLink, LinkInv, Sound, Route, Busy, Links!Trying, Links!Linking
<1>3. key \in Links!Keys /\ key # None /\ binding \in Bindings
  <2>1. q \in Links!Projects
    BY CommandLines DEF LinkInv
  <2> QED  BY <2>1, LinksAssumption DEF LinkInv, LinkTypes, Links!Links, Links!Keys
<1> HIDE DEF key
<1>4. /\ m \in Memory /\ m.was = mem[p].was /\ m.choice = mem[p].choice /\ m.grant = mem[p].grant /\ m.salt = mem[p].salt
      /\ m.key = key /\ m.copy = binding
  BY <1>2, <1>3 DEF Memory
<1> HIDE DEF m
<1>5. /\ Frame(p) /\ LinkTypes' /\ GrantsGiven' /\ Remembers(p)'
      /\ place'[p] = "storing" /\ mem'[p] = m /\ UNCHANGED <<cmd, link, binding, entry, given, touched>>
  <2>1. holder' \in Cmds \cup {None} /\ "storing" \in Places
    BY <1>1 DEF LinkInv, LinkTypes, Places, Busy, Links!Trying
  <2> QED  BY <1>1, <1>2, <1>4, <2>1, OnwardStep
<1>6. Route(p)'
  BY <1>2, <1>3, <1>4, <1>5 DEF Route, Restoring
<1>7. WayBack(p)'
  BY <1>2, <1>4, <1>5 DEF WayBack, SameBinding, SameLink, SameEntry, Of
<1> QED  BY <1>5, <1>6, <1>7, LinkInvFromParts DEF Sound

(* Steps that leave the memory alone. *)
LEMMA StillIsQuiet ==
    ASSUME LinkInv, NEW p \in Cmds, NEW to, Links!Go(p, to), UNCHANGED mem, Links!Keep
    PROVE  Quietly(p, to, mem[p]) /\ UNCHANGED touched
BY DEF LinkInv, LinkTypes, Links!Go, Links!Keep, Quietly

LEMMA MemoryWhereBusy ==
    ASSUME LinkInv, NEW p \in Cmds, place[p] \in Busy
    PROVE  mem[p] \in Memory /\ Route(p) /\ Remembers(p) /\ WayBack(p)
BY DEF LinkInv, Sound, Route

LEMMA CompareStep ==
    ASSUME LinkInv, NEW p \in Cmds, Links!Compare(p)
    PROVE  LinkInv'
<1> DEFINE q == Of(p)
           key == IF link[q] = None THEN None ELSE link[q].key
           m == [mem[p] EXCEPT !.key = key]
<1>1. place[p] = "inside" /\ cmd[p].op \in {"bind", "unbind"} /\ place[p] \in Busy
  BY DEF Links!Compare, Busy, Links!Trying
<1>2. mem[p] \in Memory /\ Route(p) /\ WayBack(p) /\ q \in Links!Projects /\ mem[p].copy # None
  BY <1>1, MemoryWhereBusy, CommandLines DEF Links!Compare, LinkInv
<1>3. PICK to \in {"storing", "unbinding"} :
          /\ Links!Go(p, to) /\ holder' \in Cmds \cup {None}
          /\ to = "storing" => mem[p].copy = binding
  BY DEF Links!Compare, LinkInv, LinkTypes
<1>4. Quietly(p, to, m) /\ UNCHANGED touched
  BY <1>3 DEF Links!Compare, Links!Mem, Links!Go, Links!Keep, Quietly, Of, Links!Project
<1>5. key \in Links!Keys \cup {None} /\ binding \in Bindings
  BY <1>2 DEF LinkInv, LinkTypes, Links!Links
<1> HIDE DEF key
<1>6. /\ m \in Memory /\ m.was = mem[p].was /\ m.choice = mem[p].choice /\ m.grant = mem[p].grant
      /\ m.copy = mem[p].copy
  BY <1>2, <1>5 DEF Memory
<1> HIDE DEF m
<1>7. /\ Frame(p) /\ LinkTypes' /\ GrantsGiven' /\ Remembers(p)'
      /\ place'[p] = to /\ mem'[p] = m /\ UNCHANGED <<cmd, link, binding, entry, given, touched>>
  <2>1. to \in Places
    BY DEF Places, Busy, Links!Trying, Links!Undoing
  <2> QED  BY <1>1, <1>2, <1>3, <1>4, <1>6, <2>1, OnwardStep
<1>8. Route(p)'
  BY <1>1, <1>2, <1>3, <1>5, <1>6, <1>7 DEF Route, Restoring, Links!Linking
<1>9. WayBack(p)'
  BY <1>1, <1>2, <1>3, <1>6, <1>7 DEF WayBack, SameBinding, SameLink, SameEntry, CanRevert, Of, Links!Linking, Restoring
<1> QED  BY <1>7, <1>8, <1>9, LinkInvFromParts DEF Sound

LEMMA LockStepOfLinks ==
    ASSUME LinkInv, NEW p \in Cmds, Links!Lock(p)
    PROVE  LinkInv'
<1>1. place[p] = "waiting" /\ place[p] \in Busy /\ holder' = p /\ Links!Go(p, "inside")
  BY DEF Links!Lock, Busy, Links!Trying
<1>2. mem[p] \in Memory /\ Route(p) /\ WayBack(p)
  BY <1>1, MemoryWhereBusy
<1>3. /\ Frame(p) /\ LinkTypes' /\ GrantsGiven' /\ Remembers(p)'
      /\ place'[p] = "inside" /\ mem'[p] = mem[p] /\ UNCHANGED <<cmd, link, binding, entry, given, touched>>
  <2>1. Quietly(p, "inside", mem[p]) /\ UNCHANGED touched
    BY StillIsQuiet DEF Links!Lock
  <2>2. "inside" \in Places
    BY DEF Places, Busy, Links!Trying
  <2> QED  BY <1>1, <1>2, <2>1, <2>2, OnwardStep
<1>4. Route(p)'
  BY <1>1, <1>2, <1>3 DEF Route
<1>5. WayBack(p)'
  BY <1>1, <1>2, <1>3 DEF WayBack, SameBinding, SameLink, SameEntry, Of
<1> QED  BY <1>3, <1>4, <1>5, LinkInvFromParts DEF Sound

LEMMA ActivateStep ==
    ASSUME LinkInv, NEW p \in Cmds, Links!Activate(p) \/ Links!Crash(p)
    PROVE  LinkInv'
<1>1. PICK to \in {"done", "dead"} : Quietly(p, to, None) /\ UNCHANGED touched /\ holder' \in {holder, None}
  BY DEF Links!Activate, Links!Crash, Links!Mem, Links!Go, Links!Keep, Quietly
<1>2. to \in Places /\ to \notin Busy /\ holder' \in Cmds \cup {None}
  BY <1>1 DEF Places, Links!Ended, Busy, Links!Trying, Links!Undoing, LinkInv, LinkTypes
<1>3. /\ Frame(p) /\ LinkTypes' /\ GrantsGiven' /\ Remembers(p)' /\ place'[p] = to
  BY <1>1, <1>2, OnwardStep
<1>4. Route(p)' /\ WayBack(p)'
  BY <1>1, <1>2, <1>3 DEF Route, WayBack
<1> QED  BY <1>3, <1>4, LinkInvFromParts DEF Sound

LEMMA RelockStep ==
    ASSUME LinkInv, NEW p \in Cmds, Links!Relock(p)
    PROVE  LinkInv'
<1>1. place[p] = "relocking" /\ place[p] \in Busy
  BY DEF Links!Relock, Busy, Links!Undoing
<1>2. mem[p] \in Memory /\ Route(p) /\ WayBack(p)
  BY <1>1, MemoryWhereBusy
<1>3. PICK to \in {"reverting", "gaveup"} : Links!Go(p, to) /\ holder' \in Cmds \cup {None}
  BY DEF Links!Relock, LinkInv, LinkTypes
<1>4. /\ Frame(p) /\ LinkTypes' /\ GrantsGiven' /\ Remembers(p)'
      /\ place'[p] = to /\ mem'[p] = mem[p] /\ UNCHANGED <<cmd, link, binding, entry, given, touched>>
  <2>1. Quietly(p, to, mem[p]) /\ UNCHANGED touched
    BY <1>3, StillIsQuiet DEF Links!Relock
  <2>2. to \in Places
    BY DEF Places, Busy, Links!Ended, Links!Undoing
  <2> QED  BY <1>1, <1>2, <1>3, <2>1, <2>2, OnwardStep
<1>5. Route(p)'
  BY <1>1, <1>2, <1>3, <1>4 DEF Route, Busy, Links!Trying, Links!Undoing
<1>6. WayBack(p)'
  BY <1>1, <1>2, <1>3, <1>4 DEF WayBack, SameBinding, SameLink, SameEntry, CanRevert, Of
<1> QED  BY <1>4, <1>5, <1>6, LinkInvFromParts DEF Sound

LEMMA FailRenewingStep ==
    ASSUME LinkInv, NEW p \in Cmds, Links!Fail(p), place[p] = "renewing"
    PROVE  LinkInv'
<1>1. Links!Go(p, "failed") /\ holder' \in Cmds \cup {None} /\ "failed" \in Places /\ "failed" \notin Busy
  BY DEF Links!Fail, LinkInv, LinkTypes, Places, Busy, Links!Ended, Links!Trying, Links!Undoing
<1>2. Frame(p) /\ LinkTypes' /\ GrantsGiven' /\ Remembers(p)' /\ place'[p] = "failed" /\ UNCHANGED <<cmd, touched>>
  <2>1. Quietly(p, "failed", mem[p]) /\ UNCHANGED touched
    BY <1>1, StillIsQuiet DEF Links!Fail
  <2> QED  BY <1>1, <2>1, OnwardStep
<1>3. Route(p)'
  BY <1>1, <1>2 DEF Route
<1>4. WayBack(p)'
  BY <1>2 DEF LinkInv, Sound, WayBack
<1> QED  BY <1>2, <1>3, <1>4, LinkInvFromParts DEF Sound

LEMMA FailStep ==
    ASSUME LinkInv, NEW p \in Cmds, Links!Fail(p), place[p] # "renewing"
    PROVE  LinkInv'
<1>1. place[p] \in Links!Trying /\ place[p] \in Busy
  BY DEF Links!Fail, Busy
<1>2. mem[p] \in Memory /\ Route(p) /\ WayBack(p)
  BY <1>1, MemoryWhereBusy
<1> DEFINE to == IF cmd[p].op \in Restoring THEN "unbinding" ELSE "failed"
<1>3. Links!Go(p, to) /\ holder' \in Cmds \cup {None}
  BY DEF Links!Fail, Restoring, LinkInv, LinkTypes
<1>4. /\ Frame(p) /\ LinkTypes' /\ GrantsGiven' /\ Remembers(p)'
      /\ place'[p] = to /\ mem'[p] = mem[p] /\ UNCHANGED <<cmd, link, binding, entry, given, touched>>
  <2>1. Quietly(p, to, mem[p]) /\ UNCHANGED touched
    BY <1>3, StillIsQuiet DEF Links!Fail
  <2>2. to \in Places
    BY DEF Places, Busy, Links!Ended, Links!Undoing
  <2> QED  BY <1>1, <1>2, <1>3, <2>1, <2>2, OnwardStep
<1>5. Route(p)'
  BY <1>1, <1>2, <1>4 DEF Route, Busy, Links!Trying, Links!Undoing
<1>6. ~touched[p] /\ cmd[p].op \in Restoring => CanRevert(p) /\ (cmd[p].op \in {"bind", "unbind"} => SameLink(p))
  BY <1>1, <1>2 DEF Route, WayBack, Links!Trying, CanRevert, Links!Linking
<1>7. WayBack(p)'
  BY <1>4, <1>6 DEF WayBack, SameLink, SameEntry, CanRevert, Of
<1> QED  BY <1>4, <1>5, <1>7, LinkInvFromParts DEF Sound

-----------------------------------------------------------------------------
(* Steps that write a file, or several. *)
Writing(p, to, m) ==
    /\ UNCHANGED cmd
    /\ place' = [place EXCEPT ![p] = to]
    /\ mem' = [mem EXCEPT ![p] = m]
    /\ Links!Wrote(p)
    /\ holder' \in Cmds \cup {None}
    /\ link' \in [Links!Projects -> Links!Links \cup {None}]
    /\ binding' \in Bindings
    /\ entry' \in [Links!Projects -> Links!Entries \cup {None}]
    /\ given' \in [Links!Projects -> SUBSET Purposes]
    /\ \A q \in Links!Projects : given[q] \subseteq given'[q]
    /\ to \in Busy => /\ place[p] \in Busy /\ m \in Memory
                      /\ m.was = mem[p].was /\ m.choice = mem[p].choice /\ m.grant = mem[p].grant

LEMMA WritingFrame ==
    ASSUME LinkInv, NEW p \in Cmds, NEW to \in Places, NEW m, Writing(p, to, m)
    PROVE  /\ Frame(p) /\ LinkTypes' /\ Remembers(p)'
           /\ place'[p] = to /\ mem'[p] = m /\ touched'[p] = touched[p] /\ UNCHANGED cmd
<1>1. place'[p] = to /\ mem'[p] = m /\ touched'[p] = touched[p] /\ UNCHANGED cmd
  BY DEF Writing, Links!Wrote, LinkInv, LinkTypes
<1>2. Frame(p)
  BY DEF Writing, Links!Wrote, LinkInv, LinkTypes, Frame
<1>3. LinkTypes'
  BY DEF Writing, Links!Wrote, LinkInv, LinkTypes
<1>4. Remembers(p) /\ Of(p) \in Links!Projects
  BY CommandLines DEF LinkInv, Sound
<1>5. Remembers(p)'
  BY <1>1, <1>4 DEF Writing, Remembers, Of, Links!Named, Links!Wanted
<1> QED  BY <1>1, <1>2, <1>3, <1>5

LEMMA StoreBindingStep ==
    ASSUME LinkInv, NEW p \in Cmds, Links!StoreBinding(p)
    PROVE  LinkInv'
<1> DEFINE m == [mem[p] EXCEPT !.copy = None]
           to == IF cmd[p].op \in Links!Linking THEN "writing" ELSE "inside"
<1>1. place[p] = "storing" /\ place[p] \in Busy
  BY DEF Links!StoreBinding, Busy, Links!Trying
<1>2. mem[p] \in Memory /\ Route(p) /\ WayBack(p)
  BY <1>1, MemoryWhereBusy
<1>3. /\ m \in Memory /\ m.was = mem[p].was /\ m.choice = mem[p].choice /\ m.grant = mem[p].grant /\ m.salt = mem[p].salt
      /\ m.key = mem[p].key /\ m.copy = None
  BY <1>2 DEF Memory
<1>4. binding' \in Bindings
  <2>1. mem[p].copy \in Bindings /\ mem[p].choice \in Links!Choices \cup {None}
    BY <1>1, <1>2 DEF Route, Memory
  <2>2. binding' = IF mem[p].key = None THEN mem[p].copy ELSE [mem[p].copy EXCEPT ![mem[p].key] = mem[p].choice]
    BY DEF Links!StoreBinding
  <2> QED  BY <2>1, <2>2 DEF Bindings
<1>5. to \in Places /\ UNCHANGED <<link, entry, given>>
  BY DEF Places, Busy, Links!Trying, Links!StoreBinding
<1>6. Writing(p, to, m)
  BY <1>1, <1>3, <1>4 DEF Writing, Links!StoreBinding, Links!Go, Links!Mem, LinkInv, LinkTypes
<1> HIDE DEF m
<1>7. /\ Frame(p) /\ LinkTypes' /\ Remembers(p)'
      /\ place'[p] = to /\ mem'[p] = m /\ touched'[p] = touched[p] /\ UNCHANGED cmd
  BY <1>5, <1>6, WritingFrame
<1>8. Route(p)'
  BY <1>1, <1>2, <1>3, <1>7 DEF Route, Restoring
<1>9. WayBack(p)'
  BY <1>1, <1>2, <1>3, <1>5, <1>7 DEF Route, WayBack, SameLink, SameEntry, Of, Restoring, Links!Linking
<1>10. GrantsGiven'
  BY <1>5 DEF LinkInv, GrantsGiven
<1> QED  BY <1>7, <1>8, <1>9, <1>10, LinkInvFromParts DEF Sound

LEMMA WriteLinkStep ==
    ASSUME LinkInv, NEW p \in Cmds, Links!WriteLink(p)
    PROVE  LinkInv'
<1> DEFINE to == IF holder = p THEN "inside" ELSE "waiting"
<1>1. place[p] = "writing" /\ place[p] \in Busy
  BY DEF Links!WriteLink, Busy, Links!Trying
<1>2. mem[p] \in Memory /\ Route(p) /\ WayBack(p) /\ cmd[p].op \in Links!Linking /\ mem[p].key # None
  BY <1>1, MemoryWhereBusy DEF Route
<1>3. [key |-> mem[p].key, salt |-> mem[p].salt] \in Links!Links
  <2>1. mem[p].key \in Links!Keys
    BY <1>2 DEF Memory
  <2>2. mem[p].salt # None
    BY <1>1, <1>2 DEF Route, Links!Linking
  <2>3. mem[p].salt \in Links!Keys
    BY <1>2, <2>2 DEF Memory
  <2> QED  BY <2>1, <2>3 DEF Links!Links
<1>4. to \in Places /\ UNCHANGED <<binding, entry, given>>
  BY DEF Places, Busy, Links!Trying, Links!WriteLink
<1>5. Writing(p, to, mem[p])
  BY <1>1, <1>2, <1>3 DEF Writing, Links!WriteLink, Links!Go, LinkInv, LinkTypes
<1>6. /\ Frame(p) /\ LinkTypes' /\ Remembers(p)'
      /\ place'[p] = to /\ mem'[p] = mem[p] /\ touched'[p] = touched[p] /\ UNCHANGED cmd
  BY <1>4, <1>5, WritingFrame
<1>7. Route(p)'
  BY <1>1, <1>2, <1>6 DEF Route
<1>8. WayBack(p)'
  BY <1>1, <1>2, <1>4, <1>6 DEF WayBack, SameEntry, Of, Links!Linking
<1>9. GrantsGiven'
  BY <1>4 DEF LinkInv, GrantsGiven
<1> QED  BY <1>6, <1>7, <1>8, <1>9, LinkInvFromParts DEF Sound

LEMMA UndoBindingStep ==
    ASSUME LinkInv, NEW p \in Cmds, Links!UndoBinding(p)
    PROVE  LinkInv'
<1> DEFINE to == IF cmd[p].op \in Links!Linking THEN "unlinking" ELSE "failed"
<1>1. place[p] = "unbinding" /\ place[p] \in Busy
  BY DEF Links!UndoBinding, Busy, Links!Undoing
<1>2. mem[p] \in Memory /\ Route(p) /\ WayBack(p) /\ cmd[p].op \in Restoring
  BY <1>1, MemoryWhereBusy DEF Route
<1>3. binding' = mem[p].was.binding /\ mem[p].was.binding \in Bindings /\ UNCHANGED <<link, entry, given>>
  BY <1>2 DEF Links!UndoBinding, Memory, Snapshots
<1>4. to \in Places /\ UNCHANGED <<link, entry, given>>
  BY DEF Places, Busy, Links!Undoing, Links!Ended, Links!UndoBinding
<1>5. Writing(p, to, mem[p])
  BY <1>1, <1>2, <1>3 DEF Writing, Links!UndoBinding, Links!Go, LinkInv, LinkTypes
<1>6. /\ Frame(p) /\ LinkTypes' /\ Remembers(p)'
      /\ place'[p] = to /\ mem'[p] = mem[p] /\ touched'[p] = touched[p] /\ UNCHANGED cmd
  BY <1>4, <1>5, WritingFrame
<1>7. Route(p)'
  BY <1>1, <1>2, <1>6 DEF Route, Busy, Links!Trying, Links!Undoing
<1>8. WayBack(p)'
  BY <1>1, <1>2, <1>3, <1>6 DEF WayBack, SameBinding, SameLink, SameEntry, CanRevert, Of, Restoring, Links!Linking
<1>9. GrantsGiven'
  BY <1>3 DEF LinkInv, GrantsGiven
<1> QED  BY <1>6, <1>7, <1>8, <1>9, LinkInvFromParts DEF Sound

LEMMA UndoLinkStep ==
    ASSUME LinkInv, NEW p \in Cmds, Links!UndoLink(p)
    PROVE  LinkInv'
<1> DEFINE to == IF cmd[p].op = "repair" THEN "failed" ELSE "relocking"
<1>1. place[p] = "unlinking" /\ place[p] \in Busy
  BY DEF Links!UndoLink, Busy, Links!Undoing
<1>2. mem[p] \in Memory /\ Route(p) /\ WayBack(p) /\ cmd[p].op \in Links!Linking
  BY <1>1, MemoryWhereBusy DEF Route
<1>3. /\ link' = [link EXCEPT ![Of(p)] = mem[p].was.link] /\ mem[p].was.link \in Links!Links \cup {None}
      /\ UNCHANGED <<binding, entry, given>>
  BY <1>2 DEF Links!UndoLink, Memory, Snapshots, Of, Links!Project
<1>4. to \in Places /\ link'[Of(p)] = mem[p].was.link
  BY <1>3, CommandLines DEF Places, Busy, Links!Undoing, Links!Ended, LinkInv, LinkTypes
<1>5. Writing(p, to, mem[p])
  BY <1>1, <1>2, <1>3 DEF Writing, Links!UndoLink, Links!Go, LinkInv, LinkTypes
<1>6. /\ Frame(p) /\ LinkTypes' /\ Remembers(p)'
      /\ place'[p] = to /\ mem'[p] = mem[p] /\ touched'[p] = touched[p] /\ UNCHANGED cmd
  BY <1>4, <1>5, WritingFrame
<1>7. Route(p)'
  BY <1>1, <1>2, <1>6 DEF Route, Busy, Links!Trying, Links!Undoing, Links!Linking
<1>8. WayBack(p)'
  BY <1>1, <1>2, <1>3, <1>4, <1>6 DEF WayBack, SameBinding, SameLink, SameEntry, CanRevert, Of, Restoring, Links!Linking
<1>9. GrantsGiven'
  BY <1>3 DEF LinkInv, GrantsGiven
<1> QED  BY <1>6, <1>7, <1>8, <1>9, LinkInvFromParts DEF Sound

LEMMA UndoEntryStep ==
    ASSUME LinkInv, NEW p \in Cmds, Links!UndoEntry(p)
    PROVE  LinkInv'
<1>1. place[p] = "reverting" /\ place[p] \in Busy
  BY DEF Links!UndoEntry, Busy, Links!Undoing
<1>2. mem[p] \in Memory /\ Route(p) /\ Remembers(p) /\ WayBack(p) /\ Of(p) \in Links!Projects
  BY <1>1, MemoryWhereBusy, CommandLines DEF LinkInv
<1>3. /\ entry' = IF entry[Of(p)] = None THEN entry ELSE [entry EXCEPT ![Of(p)] = mem[p].was.entry]
      /\ mem[p].was.entry \in Links!Entries \cup {None}
      /\ UNCHANGED <<binding, link, given>>
  BY <1>2 DEF Links!UndoEntry, Memory, Snapshots, Of, Links!Project
<1>4. "failed" \in Places
  BY DEF Places, Links!Ended
<1>5. Writing(p, "failed", mem[p])
  BY <1>1, <1>2, <1>3 DEF Writing, Links!UndoEntry, Links!Go, LinkInv, LinkTypes
<1>6. /\ Frame(p) /\ LinkTypes' /\ Remembers(p)'
      /\ place'[p] = "failed" /\ mem'[p] = mem[p] /\ touched'[p] = touched[p] /\ UNCHANGED cmd
  BY <1>4, <1>5, WritingFrame
<1>7. Route(p)'
  BY <1>6 DEF Route, Busy, Links!Trying, Links!Undoing
<1>8. WayBack(p)'
  BY <1>1, <1>2, <1>3, <1>6 DEF WayBack, SameBinding, SameLink, SameEntry, CanRevert, Of, LinkInv, LinkTypes
<1>9. GrantsGiven'
  BY <1>1, <1>2, <1>3 DEF LinkInv, LinkTypes, GrantsGiven, Remembers
<1> QED  BY <1>6, <1>7, <1>8, <1>9, LinkInvFromParts DEF Sound

(* A copied key is replaced and recorded, before anything is snapshotted. *)
LEMMA RenewKeyStep ==
    ASSUME LinkInv, NEW p \in Cmds, Links!RenewKey(p)
    PROVE  LinkInv'
<1>1. place[p] = "start" /\ cmd[p].op = "repair" /\ link[Of(p)] # None
  BY DEF Links!RenewKey, Of, Links!Project
<1>2. WayBack(p) /\ Of(p) \in Links!Projects
  BY CommandLines DEF LinkInv, Sound
<1>3. link' = [link EXCEPT ![Of(p)].key = p] /\ UNCHANGED <<binding, entry, given>>
  BY DEF Links!RenewKey, Of, Links!Project
<1>4. "renewing" \in Places /\ "renewing" \notin Busy
  BY DEF Places, Busy, Links!Trying, Links!Undoing
<1>5. link' \in [Links!Projects -> Links!Links \cup {None}]
  BY <1>1, <1>3 DEF LinkInv, LinkTypes, Links!Links, Links!Keys
<1>6. Writing(p, "renewing", mem[p])
  BY <1>3, <1>4, <1>5 DEF Writing, Links!RenewKey, Links!Go, LinkInv, LinkTypes
<1>7. Frame(p) /\ LinkTypes' /\ Remembers(p)' /\ place'[p] = "renewing" /\ touched'[p] = touched[p]
  BY <1>4, <1>6, WritingFrame
<1>8. touched[p]
  BY <1>1, <1>2 DEF WayBack, Restoring, Links!Linking
<1>9. Route(p)' /\ WayBack(p)'
  BY <1>4, <1>7, <1>8 DEF Route, WayBack
<1>10. GrantsGiven'
  BY <1>3 DEF LinkInv, GrantsGiven
<1> QED  BY <1>7, <1>9, <1>10, LinkInvFromParts DEF Sound

LEMMA RecordKeyStep ==
    ASSUME LinkInv, NEW p \in Cmds, Links!RecordKey(p)
    PROVE  LinkInv'
<1> DEFINE to == IF cmd[p].main = None THEN "done" ELSE "start"
<1>1. place[p] = "renewing" /\ Of(p) \in Links!Projects
  BY CommandLines DEF Links!RecordKey, LinkInv
<1>2. /\ UNCHANGED <<link, binding, given>>
      /\ entry' = IF entry[Of(p)] = None THEN entry ELSE [entry EXCEPT ![Of(p)].key = p]
  BY DEF Links!RecordKey, Of, Links!Project
<1>3. to \in Places /\ to \notin Busy
  BY DEF Places, Links!Ended, Busy, Links!Trying, Links!Undoing
<1>4. entry' \in [Links!Projects -> Links!Entries \cup {None}]
  <2>1. ASSUME entry[Of(p)] # None PROVE [entry[Of(p)] EXCEPT !.key = p] \in Links!Entries
    BY <1>1, <2>1 DEF LinkInv, LinkTypes, Links!Entries, Links!Keys
  <2> QED  BY <1>1, <1>2, <2>1 DEF LinkInv, LinkTypes
<1>5. Writing(p, to, mem[p])
  BY <1>2, <1>3, <1>4 DEF Writing, Links!RecordKey, Links!Go, LinkInv, LinkTypes
<1>6. Frame(p) /\ LinkTypes' /\ Remembers(p)' /\ place'[p] = to /\ touched'[p] = touched[p] /\ UNCHANGED cmd
  BY <1>3, <1>5, WritingFrame
<1>7. WayBack(p)'
  BY <1>1, <1>6 DEF LinkInv, Sound, WayBack
<1>8. Route(p)'
  BY <1>3, <1>6 DEF Route, Busy, Links!Trying, Links!Undoing
<1>9. GrantsGiven'
  BY <1>2 DEF LinkInv, LinkTypes, GrantsGiven, Links!Entries
<1> QED  BY <1>6, <1>7, <1>8, <1>9, LinkInvFromParts DEF Sound

LEMMA RemoveLinkStep ==
    ASSUME LinkInv, NEW p \in Cmds, Links!RemoveLink(p)
    PROVE  LinkInv'
<1>1. "done" \in Places /\ "done" \notin Busy /\ UNCHANGED <<entry, given>>
  BY DEF Places, Links!Ended, Busy, Links!Trying, Links!Undoing, Links!RemoveLink
<1>2. Writing(p, "done", mem[p])
  BY <1>1 DEF Writing, Links!RemoveLink, Links!Go, LinkInv, LinkTypes
<1>3. /\ Frame(p) /\ LinkTypes' /\ Remembers(p)' /\ place'[p] = "done"
  BY <1>1, <1>2, WritingFrame
<1>4. Route(p)' /\ WayBack(p)'
  BY <1>1, <1>3 DEF Route, WayBack
<1>5. GrantsGiven'
  BY <1>1 DEF LinkInv, GrantsGiven
<1> QED  BY <1>3, <1>4, <1>5, LinkInvFromParts DEF Sound

LEMMA EnterPruneStep ==
    ASSUME LinkInv, NEW p \in Cmds, Links!EnterPrune(p)
    PROVE  LinkInv'
<1>1. "done" \in Places /\ "done" \notin Busy /\ UNCHANGED <<link, binding, given>>
  BY DEF Places, Links!Ended, Busy, Links!Trying, Links!Undoing, Links!EnterPrune
<1>2. entry' = [q \in Links!Projects |-> IF link[q] = None THEN None ELSE entry[q]]
  BY DEF Links!EnterPrune
<1>3. Writing(p, "done", mem[p])
  BY <1>1, <1>2 DEF Writing, Links!EnterPrune, Links!Released, Links!Go, LinkInv, LinkTypes
<1>4. /\ Frame(p) /\ LinkTypes' /\ Remembers(p)' /\ place'[p] = "done"
  BY <1>1, <1>3, WritingFrame
<1>5. Route(p)' /\ WayBack(p)'
  BY <1>1, <1>4 DEF Route, WayBack
<1>6. GrantsGiven'
  BY <1>1, <1>2 DEF LinkInv, LinkTypes, GrantsGiven
<1> QED  BY <1>4, <1>5, <1>6, LinkInvFromParts DEF Sound

(* approve renews a copied key before it waits for the lock. *)
LEMMA BeginRegistryStep ==
    ASSUME LinkInv, NEW p \in Cmds, Links!BeginRegistry(p)
    PROVE  LinkInv'
<1> DEFINE q == Of(p)
           renew == cmd[p].op = "approve" /\ link[q] # None /\ Links!Taken(link[q].key, q)
           was == Links!Snapshot(q)
           key == IF link[q] = None THEN None ELSE IF renew THEN p ELSE link[q].key
           choice == IF cmd[p].op = "approve" /\ ~renew THEN Links!Resolved(q) ELSE None
           salt == IF link[q] = None \/ renew THEN p ELSE link[q].salt
           m == [was |-> was, copy |-> None, grant |-> None, choice |-> choice, salt |-> salt, key |-> key]
<1>1. /\ cmd[p].op \in {"approve", "revoke", "backfill", "remove", "prune"} /\ cmd[p].op \notin Restoring
      /\ link' = IF renew THEN [link EXCEPT ![q].key = p] ELSE link
      /\ UNCHANGED <<cmd, holder, binding, entry, given>>
      /\ mem' = [mem EXCEPT ![p] = m]
      /\ place' = [place EXCEPT ![p] = "waiting"]
      /\ IF renew THEN Links!Wrote(p) ELSE UNCHANGED touched
  BY DEF Links!BeginRegistry, Links!Mem, Links!Go, Of, Links!Project, Restoring, Links!Linking
<1>2. q \in Links!Projects
  BY CommandLines DEF LinkInv
<1>3. /\ key \in Links!Keys \cup {None} /\ salt \in Links!Keys /\ salt # None
      /\ link' \in [Links!Projects -> Links!Links \cup {None}]
      /\ choice \in Links!Choices \cup {None}
  <2>1. Links!Resolved(q) \in Links!Choices \cup {None}
    BY <1>2, ResolvedIsAChoice DEF LinkInv
  <2> QED  BY <1>1, <1>2, <2>1, LinksAssumption DEF LinkInv, LinkTypes, Links!Links, Links!Keys
<1>4. /\ was \in Snapshots
      /\ was.link = link[q] /\ was.binding = binding /\ was.entry = entry[q]
      /\ was.entry # None => was.entry.grant \subseteq given[q]
  BY SnapshotsAreTyped
<1> HIDE DEF was, key, choice, salt
<1>5. m \in Memory /\ m.was = was /\ m.grant = None /\ m.salt = salt
  BY <1>3, <1>4 DEF Memory
<1> HIDE DEF m
<1>6. Frame(p)
  <2>1. CASE renew
    BY <1>1, <2>1 DEF Frame, Links!Wrote, LinkInv, LinkTypes
  <2>2. CASE ~renew
    BY <1>1, <2>2 DEF Frame, LinkInv, LinkTypes
  <2> QED  BY <2>1, <2>2
<1>7. LinkTypes' /\ GrantsGiven' /\ place'[p] = "waiting" /\ mem'[p] = m
  <2>1. touched' \in [Cmds -> BOOLEAN]
    BY <1>1 DEF Links!Wrote, LinkInv, LinkTypes
  <2>2. "waiting" \in Places
    BY DEF Places, Busy, Links!Trying
  <2> QED  BY <1>1, <1>3, <2>1, <2>2 DEF LinkInv, LinkTypes, GrantsGiven
<1>8. Route(p)'
  BY <1>1, <1>3, <1>5, <1>7 DEF Route, Restoring, Links!Linking
<1>9. Remembers(p)'
  BY <1>1, <1>4, <1>5, <1>7 DEF Remembers, Of
<1>10. WayBack(p)'
  BY <1>1 DEF WayBack
<1> QED  BY <1>6, <1>7, <1>8, <1>9, <1>10, LinkInvFromParts DEF Sound

(* The registry's entry is written under the lock: what it grants must be  *)
(* given before, or by this step.                                          *)
LEMMA EnterStep ==
    ASSUME LinkInv, NEW p \in Cmds, place[p] = "inside", NEW e \in Links!Entries \cup {None}, NEW wanted,
           Links!Enter(p, Of(p), e, wanted), wanted \subseteq Purposes, UNCHANGED mem,
           link' \in [Links!Projects -> Links!Links \cup {None}],
           cmd[p].op \in {"setup", "add"} => e # None,
           e # None => e.grant \subseteq given[Of(p)] \cup
               (IF entry[Of(p)] = None \/ cmd[p].accept THEN wanted ELSE Links!Named(cmd[p]))
    PROVE  LinkInv'
<1> DEFINE q == Of(p)
           more == IF entry[q] = None \/ cmd[p].accept THEN wanted ELSE Links!Named(cmd[p])
           to == CASE cmd[p].op \in {"setup", "add"} -> "activating"
                   [] cmd[p].op = "remove" -> "removing"
                   [] OTHER -> "done"
<1>1. place[p] \in Busy /\ to \in Places /\ (to \in Busy <=> to = "activating")
  BY DEF Busy, Links!Trying, Links!Undoing, Places, Links!Ended
<1>2. mem[p] \in Memory /\ Route(p) /\ WayBack(p) /\ q \in Links!Projects /\ more \subseteq Purposes
  BY <1>1, MemoryWhereBusy, CommandLines DEF LinkInv
<1>3. entry' = [entry EXCEPT ![q] = e] /\ given' = [given EXCEPT ![q] = @ \cup more]
  BY DEF Links!Enter
<1> HIDE DEF more
<1>4. Writing(p, to, mem[p])
  <2>1. /\ UNCHANGED <<cmd, binding>> /\ holder' = None /\ place' = [place EXCEPT ![p] = to] /\ Links!Wrote(p)
    BY DEF Links!Enter, Links!Released, Links!Go
  <2>2. mem' = [mem EXCEPT ![p] = mem[p]]
    BY DEF LinkInv, LinkTypes
  <2> HIDE DEF to
  <2> QED  BY <1>1, <1>2, <1>3, <2>1, <2>2 DEF Writing, LinkInv, LinkTypes
<1>5. /\ Frame(p) /\ LinkTypes' /\ Remembers(p)'
      /\ place'[p] = to /\ mem'[p] = mem[p] /\ touched'[p] = touched[p] /\ UNCHANGED cmd
  BY <1>1, <1>4, WritingFrame
<1>6. Route(p)'
  BY <1>1, <1>2, <1>5 DEF Route
<1>7. WayBack(p)'
  BY <1>1, <1>2, <1>3, <1>5 DEF WayBack, CanRevert, Of, LinkInv, LinkTypes
<1>8. GrantsGiven'
  <2> SUFFICES ASSUME NEW r \in Links!Projects, entry'[r] # None PROVE entry'[r].grant \subseteq given'[r]
    BY DEF GrantsGiven
  <2>1. CASE r = q
    <3>1. entry'[r] = e /\ given'[r] = given[q] \cup more
      BY <1>3, <2>1 DEF LinkInv, LinkTypes
    <3> QED  BY <3>1 DEF more
  <2>2. CASE r # q
    BY <1>3, <2>2 DEF LinkInv, LinkTypes, GrantsGiven
  <2> QED  BY <2>1, <2>2
<1> QED  BY <1>5, <1>6, <1>7, <1>8, LinkInvFromParts DEF Sound

(* The entry that setup, add, approve and backfill write. *)
LEMMA ActivatedIsAnEntry ==
    ASSUME LinkInv, NEW q \in Links!Projects, NEW key \in Links!Keys \cup {None}, NEW salt \in Links!Keys,
           NEW grant \in SUBSET Purposes
    PROVE  LET e == Links!Activated(q, key, salt, grant) IN e \in Links!Entries /\ e.grant = grant /\ e # None
<1>1. Links!Activated(q, key, salt, grant) \in Links!Entries
  BY DEF Links!Activated, Links!Entries, LinkInv, LinkTypes
<1>2. Links!Activated(q, key, salt, grant).grant = grant
  BY DEF Links!Activated
<1> QED  BY <1>1, <1>2, LinksAssumption

LEMMA EnterLinkingStep ==
    ASSUME LinkInv, NEW p \in Cmds, Links!EnterLinking(p)
    PROVE  LinkInv'
<1> DEFINE q == Of(p)
           c == cmd[p]
           explicit == c.main # None /\ c.more # None
           wanted == Links!Wanted(mem[p].choice)
           next == Links!NextGrant(entry[q], wanted, Links!Named(c), explicit, c.accept)
           e == Links!Activated(q, mem[p].key, mem[p].salt, next)
<1>1. /\ place[p] = "inside" /\ place[p] \in Busy /\ c.op \in {"setup", "add"} /\ UNCHANGED <<mem, link>>
      /\ Links!Enter(p, q, e, wanted)
  BY DEF Links!EnterLinking, Busy, Links!Trying, Of
<1>2. mem[p] \in Memory /\ Route(p) /\ Remembers(p)
  BY <1>1, MemoryWhereBusy
<1>3. q \in Links!Projects /\ entry[q] \in Links!Entries \cup {None} /\ c.accept \in BOOLEAN
      /\ Links!Named(c) \subseteq Purposes
  BY CommandLines DEF LinkInv, LinkTypes
<1>4. mem[p].choice \in Links!Choices /\ mem[p].salt \in Links!Keys /\ mem[p].key \in Links!Keys \cup {None}
  BY <1>1, <1>2 DEF Route, Memory, Links!Linking
<1>5. wanted \subseteq Purposes
  BY <1>4, WantedAreLenses
<1>6. explicit => wanted \subseteq Links!Named(c)
  BY <1>1, <1>2 DEF Remembers
<1>7. entry[q] # None => entry[q].grant \subseteq given[q]
  BY <1>3 DEF LinkInv, GrantsGiven
<1> HIDE DEF wanted
<1>8. /\ next \in SUBSET Purposes /\ next \subseteq wanted
      /\ entry[q] = None \/ explicit \/ c.accept \/ next \subseteq entry[q].grant \cup Links!Named(c)
  <2>1. wanted \in SUBSET Purposes /\ Links!Named(c) \in SUBSET Purposes
    BY <1>3, <1>5
  <2>2. explicit \in BOOLEAN
    OBVIOUS
  <2> HIDE DEF explicit
  <2> QED  BY <1>3, <2>1, <2>2, GrantsAreBounded
<1> HIDE DEF next
<1>9. next \subseteq given[q] \cup (IF entry[q] = None \/ c.accept THEN wanted ELSE Links!Named(c))
  BY <1>6, <1>7, <1>8
<1>10. e \in Links!Entries /\ e.grant = next /\ e # None
  BY <1>3, <1>4, <1>8, ActivatedIsAnEntry
<1> HIDE DEF e
<1>11. link' \in [Links!Projects -> Links!Links \cup {None}]
  BY <1>1 DEF LinkInv, LinkTypes
<1> QED  BY <1>1, <1>5, <1>9, <1>10, <1>11, EnterStep

LEMMA EnterRepairStep ==
    ASSUME LinkInv, NEW p \in Cmds, Links!EnterRepair(p)
    PROVE  LinkInv'
<1> DEFINE q == Of(p)
           c == cmd[p]
           m == mem[p]
           old == entry[q]
           key == m.key
           grant == IF m.grant # None /\ old.active THEN m.grant ELSE old.grant
           e == IF old = None THEN None ELSE [old EXCEPT !.key = key, !.grant = grant]
           wanted == Links!Wanted(m.choice)
<1>1. /\ place[p] = "inside" /\ place[p] \in Busy /\ c.op = "repair" /\ UNCHANGED <<mem, link>>
      /\ Links!Enter(p, q, e, wanted)
  BY DEF Links!EnterRepair, Busy, Links!Trying, Of, Links!Project
<1>2. m \in Memory /\ Route(p) /\ Remembers(p)
  BY <1>1, MemoryWhereBusy
<1>3. q \in Links!Projects /\ old \in Links!Entries \cup {None} /\ Links!Named(c) \subseteq Purposes
  BY CommandLines DEF LinkInv, LinkTypes
<1>4. m.choice \in Links!Choices /\ key \in Links!Keys \cup {None}
  BY <1>1, <1>2 DEF Route, Memory, Links!Linking
<1>5. wanted \subseteq Purposes
  BY <1>4, WantedAreLenses
<1>6. old # None => old.grant \subseteq given[q] /\ old.grant \subseteq Purposes
  BY <1>3 DEF LinkInv, GrantsGiven, Links!Entries
<1>7. m.grant # None => /\ m.grant \subseteq Purposes
                        /\ m.grant \subseteq IF c.accept THEN wanted ELSE given[q] \cup Links!Named(c)
  BY <1>1, <1>2 DEF Remembers, Memory
<1> HIDE DEF wanted, key
<1>8. old # None => grant \subseteq Purposes /\ grant \subseteq given[q] \cup (IF c.accept THEN wanted ELSE Links!Named(c))
  BY <1>6, <1>7
<1> HIDE DEF grant
<1>9. e \in Links!Entries \cup {None} /\ (old = None => e = None) /\ (old # None => e.grant = grant)
  BY <1>3, <1>4, <1>8 DEF Links!Entries
<1> HIDE DEF e
<1>10. e # None => e.grant \subseteq given[q] \cup (IF old = None \/ c.accept THEN wanted ELSE Links!Named(c))
  BY <1>8, <1>9
<1>11. link' \in [Links!Projects -> Links!Links \cup {None}]
  BY <1>1 DEF LinkInv, LinkTypes
<1> QED  BY <1>1, <1>5, <1>9, <1>10, <1>11, EnterStep

LEMMA EnterBindStep ==
    ASSUME LinkInv, NEW p \in Cmds, Links!EnterBind(p)
    PROVE  LinkInv'
<1> DEFINE q == Of(p)
           c == cmd[p]
           choice == mem[p].choice
           old == entry[q]
           explicit == c.main # None
           next == Links!NextGrant(old, Links!Wanted(choice), Links!Named(c), explicit, FALSE)
           grant == IF choice = None THEN {} ELSE next
           e == IF old = None THEN None ELSE [old EXCEPT !.grant = grant]
<1>1. /\ place[p] = "inside" /\ place[p] \in Busy /\ c.op \in {"bind", "unbind"} /\ UNCHANGED <<mem, link>>
      /\ Links!Enter(p, q, e, {})
  BY DEF Links!EnterBind, Busy, Links!Trying, Of
<1>2. mem[p] \in Memory /\ Route(p) /\ Remembers(p)
  BY <1>1, MemoryWhereBusy
<1>3. q \in Links!Projects /\ old \in Links!Entries \cup {None} /\ Links!Named(c) \in SUBSET Purposes /\ ~c.accept
  BY <1>1, CommandLines DEF LinkInv, LinkTypes
<1>4. choice \in Links!Choices \cup {None}
  BY <1>2 DEF Memory
<1>5. old # None => old.grant \subseteq given[q] /\ old.grant \subseteq Purposes
  BY <1>3 DEF LinkInv, GrantsGiven, Links!Entries
<1>6. choice # None =>
        /\ next \in SUBSET Purposes /\ next \subseteq Links!Wanted(choice)
        /\ old = None \/ explicit \/ next \subseteq old.grant \cup Links!Named(c)
  <2>1. CASE choice # None
    <3>1. Links!Wanted(choice) \in SUBSET Purposes
      BY <1>4, <2>1, WantedAreLenses
    <3> QED  BY <1>3, <2>1, <3>1 DEF Links!NextGrant, Links!Entries
  <2> QED  BY <2>1
<1>7. c.op = "bind" /\ explicit => Links!Wanted(choice) \subseteq Links!Named(c)
  BY <1>1, <1>2 DEF Remembers
<1> HIDE DEF next
<1>8. c.op = "unbind" => choice = None
  BY <1>1, <1>2 DEF Route
<1>9. old # None => grant \subseteq Purposes /\ grant \subseteq given[q] \cup Links!Named(c)
  BY <1>1, <1>5, <1>6, <1>7, <1>8
<1> HIDE DEF grant
<1>10. e \in Links!Entries \cup {None} /\ (old = None => e = None) /\ (old # None => e.grant = grant)
  BY <1>3, <1>9 DEF Links!Entries
<1> HIDE DEF e
<1>11. e # None => e.grant \subseteq given[q] \cup (IF old = None \/ c.accept THEN {} ELSE Links!Named(c))
  BY <1>3, <1>9, <1>10
<1>12. link' \in [Links!Projects -> Links!Links \cup {None}]
  BY <1>1 DEF LinkInv, LinkTypes
<1>13. c.op \in {"setup", "add"} => e # None
  BY <1>1
<1> QED  BY <1>1, <1>10, <1>11, <1>12, <1>13, EnterStep

(* approve and backfill: lenses that are named, bound or the general one.  *)
LEMMA AttestStep ==
    ASSUME LinkInv, NEW p \in Cmds, place[p] = "inside", UNCHANGED mem, NEW chosen \in SUBSET Purposes,
           NEW key \in Links!Keys \cup {None}, NEW salt \in Links!Keys,
           Links!Named(cmd[p]) # {} => chosen = Links!Named(cmd[p]),
           Links!Enter(p, Of(p), Links!Activated(Of(p), key, salt,
               Links!NextGrant(entry[Of(p)], chosen, {}, Links!Named(cmd[p]) # {}, cmd[p].accept)), chosen),
           link' \in [Links!Projects -> Links!Links \cup {None}]
    PROVE  LinkInv'
<1> DEFINE q == Of(p)
           c == cmd[p]
           explicit == Links!Named(c) # {}
           next == Links!NextGrant(entry[q], chosen, {}, explicit, c.accept)
           e == Links!Activated(q, key, salt, next)
<1>1. q \in Links!Projects /\ entry[q] \in Links!Entries \cup {None} /\ c.accept \in BOOLEAN
  BY CommandLines DEF LinkInv, LinkTypes
<1>2. entry[q] # None => entry[q].grant \subseteq given[q]
  BY <1>1 DEF LinkInv, GrantsGiven
<1>3. /\ next \in SUBSET Purposes /\ next \subseteq chosen
      /\ entry[q] = None \/ explicit \/ c.accept \/ next \subseteq entry[q].grant \cup {}
  BY <1>1, GrantsAreBounded
<1>4. Links!Enter(p, q, e, chosen)
  OBVIOUS
<1> HIDE DEF next
<1>5. next \subseteq given[q] \cup (IF entry[q] = None \/ c.accept THEN chosen ELSE Links!Named(c))
  BY <1>2, <1>3
<1>6. e \in Links!Entries /\ e.grant = next /\ e # None
  BY <1>1, <1>3, ActivatedIsAnEntry
<1> HIDE DEF e
<1> QED  BY <1>4, <1>5, <1>6, EnterStep

LEMMA EnterApprovalStep ==
    ASSUME LinkInv, NEW p \in Cmds, Links!EnterApproval(p)
    PROVE  LinkInv'
<1> DEFINE q == Of(p)
           c == cmd[p]
           salt == IF entry[q] # None THEN entry[q].salt ELSE mem[p].salt
           chosen == IF Links!Named(c) # {} THEN Links!Named(c)
                     ELSE IF mem[p].key \in {None, p} THEN {General}
                     ELSE IF mem[p].choice = None THEN {} ELSE Links!Wanted(mem[p].choice)
<1>1. /\ place[p] = "inside" /\ place[p] \in Busy /\ UNCHANGED mem /\ c.op = "approve"
      /\ mem[p].key # None => link[q] # None
      /\ link' = IF mem[p].key = None THEN link ELSE [link EXCEPT ![q].salt = salt]
      /\ Links!Enter(p, q, Links!Activated(q, mem[p].key, salt,
            Links!NextGrant(entry[q], chosen, {}, Links!Named(c) # {}, c.accept)), chosen)
  BY DEF Links!EnterApproval, Busy, Links!Trying, Of
<1>2. mem[p] \in Memory /\ mem[p].salt # None
  BY <1>1, MemoryWhereBusy DEF Route
<1>3. q \in Links!Projects /\ Links!Named(c) \subseteq Purposes
  BY CommandLines DEF LinkInv
<1>4. salt \in Links!Keys
  BY <1>2, <1>3 DEF LinkInv, LinkTypes, Links!Entries, Memory
<1>5. chosen \in SUBSET Purposes /\ (Links!Named(c) # {} => chosen = Links!Named(c))
  <2>1. mem[p].choice # None => Links!Wanted(mem[p].choice) \subseteq Purposes
    BY <1>2, WantedAreLenses DEF Memory
  <2> QED  BY <1>3, <2>1, LinksAssumption
<1> HIDE DEF salt, chosen
<1>6. link' \in [Links!Projects -> Links!Links \cup {None}]
  BY <1>1, <1>3, <1>4 DEF LinkInv, LinkTypes, Links!Links
<1>7. mem[p].key \in Links!Keys \cup {None}
  BY <1>2 DEF Memory
<1> QED  BY <1>1, <1>4, <1>5, <1>6, <1>7, AttestStep

LEMMA EnterBackfillStep ==
    ASSUME LinkInv, NEW p \in Cmds, Links!EnterBackfill(p)
    PROVE  LinkInv'
<1> DEFINE q == Of(p)
           c == cmd[p]
           renew == Links!Taken(link[q].key, q)
           key == IF renew THEN p ELSE link[q].key
           salt == IF renew THEN p ELSE link[q].salt
           chosen == IF Links!Named(c) # {} THEN Links!Named(c) ELSE IF renew THEN {General}
                     ELSE IF Links!Resolved(q) = None THEN {} ELSE Links!Wanted(Links!Resolved(q))
<1>1. place[p] = "inside" /\ place[p] \in Busy /\ UNCHANGED mem /\ c.op = "backfill"
  BY DEF Links!EnterBackfill, Busy, Links!Trying
<1>2. CASE Links!Released(p) /\ UNCHANGED <<cmd, link, binding, entry, given, touched>>
  <2>1. Quietly(p, "done", mem[p]) /\ UNCHANGED touched /\ holder' = None
    BY <1>1, <1>2 DEF Quietly, Links!Released, Links!Go, LinkInv, LinkTypes
  <2>2. "done" \in Places /\ "done" \notin Busy
    BY DEF Places, Links!Ended, Busy, Links!Trying, Links!Undoing
  <2>3. Frame(p) /\ LinkTypes' /\ GrantsGiven' /\ Remembers(p)' /\ place'[p] = "done"
    BY <2>1, <2>2, OnwardStep
  <2>4. Route(p)' /\ WayBack(p)'
    BY <2>2, <2>3 DEF Route, WayBack
  <2> QED  BY <2>3, <2>4, LinkInvFromParts DEF Sound
<1>3. CASE /\ link[q] # None /\ link' = [link EXCEPT ![q] = [key |-> key, salt |-> salt]]
           /\ Links!Enter(p, q, Links!Activated(q, key, salt,
                 Links!NextGrant(entry[q], chosen, {}, Links!Named(c) # {}, c.accept)), chosen)
  <2>1. q \in Links!Projects /\ Links!Named(c) \subseteq Purposes
    BY CommandLines DEF LinkInv
  <2>2. key \in Links!Keys /\ salt \in Links!Keys
    BY <1>3, <2>1 DEF LinkInv, LinkTypes, Links!Links, Links!Keys
  <2>3. chosen \in SUBSET Purposes /\ (Links!Named(c) # {} => chosen = Links!Named(c))
    <3>1. Links!Resolved(q) # None => Links!Wanted(Links!Resolved(q)) \subseteq Purposes
      BY <2>1, ResolvedIsAChoice, WantedAreLenses DEF LinkInv
    <3> QED  BY <2>1, <3>1, LinksAssumption
  <2> HIDE DEF key, salt, chosen
  <2>4. link' \in [Links!Projects -> Links!Links \cup {None}]
    BY <1>3, <2>1, <2>2 DEF LinkInv, LinkTypes, Links!Links
  <2> QED  BY <1>1, <1>3, <2>2, <2>3, <2>4, AttestStep
<1>4. \/ Links!Released(p) /\ UNCHANGED <<cmd, link, binding, entry, given, touched>>
      \/ /\ link[q] # None /\ link' = [link EXCEPT ![q] = [key |-> key, salt |-> salt]]
         /\ Links!Enter(p, q, Links!Activated(q, key, salt,
               Links!NextGrant(entry[q], chosen, {}, Links!Named(c) # {}, c.accept)), chosen)
  BY DEF Links!EnterBackfill, Links!files, Of
<1> QED  BY <1>2, <1>3, <1>4

LEMMA EnterRevocationStep ==
    ASSUME LinkInv, NEW p \in Cmds, Links!EnterRevocation(p)
    PROVE  LinkInv'
<1> DEFINE q == Of(p)
           old == entry[q]
           e == IF old # None THEN [old EXCEPT !.active = FALSE]
                ELSE IF cmd[p].op = "remove" THEN None
                ELSE [active |-> FALSE, key |-> None, salt |-> p, grant |-> {}, since |-> 1]
<1>1. /\ place[p] = "inside" /\ cmd[p].op \in {"revoke", "remove"} /\ UNCHANGED <<mem, link>>
      /\ Links!Enter(p, q, e, {})
  BY DEF Links!EnterRevocation, Of, Links!Project
<1>2. q \in Links!Projects /\ old \in Links!Entries \cup {None}
  BY CommandLines DEF LinkInv, LinkTypes
<1>3. e \in Links!Entries \cup {None} /\ (e # None => e.grant \subseteq given[q])
  <2>1. CASE old # None
    <3>1. e \in Links!Entries /\ e.grant = old.grant
      BY <1>2, <2>1 DEF Links!Entries
    <3> QED  BY <1>2, <2>1, <3>1 DEF LinkInv, GrantsGiven
  <2>2. CASE old = None
    BY <2>2 DEF Links!Entries, Links!Keys
  <2> QED  BY <2>1, <2>2
<1> HIDE DEF e
<1>4. link' \in [Links!Projects -> Links!Links \cup {None}]
  BY <1>1 DEF LinkInv, LinkTypes
<1>5. {} \subseteq Purposes /\ (cmd[p].op \in {"setup", "add"} => e # None)
  BY <1>1
<1> QED  BY <1>1, <1>3, <1>4, <1>5, EnterStep

-----------------------------------------------------------------------------
LEMMA LinkInvInit == ASSUME Links!Init PROVE LinkInv
<1>1. cmd \in [Cmds -> UNION {Lines[p] : p \in Cmds}] /\ \A p \in Cmds : cmd[p] \in Lines[p]
  BY DEF Links!Init
<1>2. Links!Attested \subseteq Links!Entries
  BY LinksAssumption DEF Links!Attested, Links!Entries, Links!Keys
<1>3. entry \in [Links!Projects -> Links!Entries \cup {None}]
  BY <1>2 DEF Links!Init
<1>4. link \in [Links!Projects -> Links!Links \cup {None}]
  BY DEF Links!Init, Links!Links, Links!Keys
<1>5. binding \in Bindings
  BY LinksAssumption DEF Links!Init, Bindings, Links!Choices
<1>6. given \in [Links!Projects -> SUBSET Purposes] /\ GrantsGiven
  BY <1>3 DEF Links!Init, GrantsGiven, Links!Entries
<1>7. LinkTypes
  BY <1>1, <1>3, <1>4, <1>5, <1>6 DEF LinkTypes, Links!Init, Places
<1>8. \A p \in Cmds : place[p] = "start" /\ touched[p]
  BY DEF Links!Init
<1>9. \A p \in Cmds : Sound(p)
  BY <1>8 DEF Sound, Route, Remembers, WayBack, Busy, Links!Trying, Links!Undoing
<1> QED  BY <1>6, <1>7, <1>9 DEF LinkInv

LEMMA LinkStep == ASSUME LinkInv, Links!Next PROVE LinkInv'
<1> PICK p \in Cmds :
        \/ Links!BeginLinking(p) \/ Links!BeginRepair(p) \/ Links!SnapLinking(p) \/ Links!RenewKey(p)
        \/ Links!RecordKey(p) \/ Links!BeginBind(p) \/ Links!SnapBindings(p) \/ Links!BeginRegistry(p)
        \/ Links!Pick(p) \/ Links!Compare(p) \/ Links!StoreBinding(p) \/ Links!WriteLink(p) \/ Links!Lock(p)
        \/ Links!EnterLinking(p) \/ Links!EnterRepair(p) \/ Links!EnterBind(p) \/ Links!EnterApproval(p)
        \/ Links!EnterBackfill(p) \/ Links!EnterRevocation(p) \/ Links!EnterPrune(p)
        \/ Links!Activate(p) \/ Links!RemoveLink(p)
        \/ Links!Fail(p) \/ Links!UndoBinding(p) \/ Links!UndoLink(p) \/ Links!Relock(p) \/ Links!UndoEntry(p)
        \/ Links!Crash(p)
  BY DEF Links!Next
<1>1. CASE Links!BeginLinking(p) \/ Links!BeginRepair(p) \/ Links!SnapLinking(p) \/ Links!RenewKey(p)
           \/ Links!RecordKey(p) \/ Links!BeginBind(p) \/ Links!SnapBindings(p) \/ Links!BeginRegistry(p)
  BY <1>1, BeginLinkingStep, BeginRepairStep, SnapLinkingStep, RenewKeyStep, RecordKeyStep, BeginBindStep,
    SnapBindingsStep, BeginRegistryStep
<1>2. CASE Links!Pick(p) \/ Links!Compare(p) \/ Links!StoreBinding(p) \/ Links!WriteLink(p) \/ Links!Lock(p)
  BY <1>2, PickStep, CompareStep, StoreBindingStep, WriteLinkStep, LockStepOfLinks
<1>3. CASE Links!EnterLinking(p) \/ Links!EnterRepair(p) \/ Links!EnterBind(p) \/ Links!EnterApproval(p)
           \/ Links!EnterBackfill(p) \/ Links!EnterRevocation(p) \/ Links!EnterPrune(p)
  BY <1>3, EnterLinkingStep, EnterRepairStep, EnterBindStep, EnterApprovalStep, EnterBackfillStep,
    EnterRevocationStep, EnterPruneStep
<1>4. CASE Links!Activate(p) \/ Links!RemoveLink(p) \/ Links!Fail(p) \/ Links!UndoBinding(p) \/ Links!UndoLink(p)
           \/ Links!Relock(p) \/ Links!UndoEntry(p) \/ Links!Crash(p)
  BY <1>4, ActivateStep, RemoveLinkStep, FailRenewingStep, FailStep, UndoBindingStep, UndoLinkStep, RelockStep, UndoEntryStep
<1> QED  BY <1>1, <1>2, <1>3, <1>4

LEMMA LinkStutter == ASSUME LinkInv, UNCHANGED linking PROVE LinkInv'
<1>1. UNCHANGED <<cmd, place, mem, holder, link, binding, entry, touched, given>>
  BY DEF linking
<1>2. LinkTypes' /\ GrantsGiven'
  BY <1>1 DEF LinkInv, LinkTypes, GrantsGiven
<1>3. ASSUME NEW p \in Cmds PROVE Sound(p)'
  <2>1. Route(p)' /\ Remembers(p)'
    BY <1>1, <1>3 DEF LinkInv, Sound, Route, Remembers, Of, Links!Wanted, Links!Named
  <2>2. WayBack(p)'
    BY <1>1, <1>3 DEF LinkInv, Sound, WayBack, SameBinding, SameLink, SameEntry, CanRevert, Of
  <2> QED  BY <2>1, <2>2 DEF Sound
<1> QED  BY <1>2, <1>3 DEF LinkInv

LinksHold == part = "links" => LinkInv

LEMMA LinksHoldAlways == RegistriesSpec => []LinksHold
<1>1. RegistriesInit => LinksHold
  BY LinkInvInit DEF RegistriesInit, LinksHold
<1>2. LinksHold /\ [RegistriesNext]_all => LinksHold'
  <2> SUFFICES ASSUME LinkInv, part = "links", [RegistriesNext]_all PROVE LinkInv'
    BY DEF LinksHold, RegistriesNext, all
  <2>1. Links!Next \/ UNCHANGED linking
    BY DEF RegistriesNext, all
  <2> QED  BY <2>1, LinkStep, LinkStutter
<1> QED  BY <1>1, <1>2, PTL DEF RegistriesSpec

(* A project that is served holds its key alone: the holders of a key that *)
(* are recorded count first, and its own claim is one of them.             *)
LEMMA ServedHoldsAlone ==
    ASSUME NEW q \in Links!Projects, Links!Served(q) # {}
    PROVE  Links!Holders(link[q].key) = {q}
<1>1. /\ Links!Resolved(q) # None /\ entry[q] # None /\ entry[q].active /\ link[q] # None
      /\ Links!Holders(link[q].key) \in {{}, {q}}
  BY DEF Links!Served, Links!Resolved
<1>2. q \in Links!Carriers(link[q].key)
  BY <1>1 DEF Links!Carriers
<1>3. Links!Holders(link[q].key) # {}
  BY <1>2 DEF Links!Holders
<1> QED  BY <1>1, <1>3

(* Whatever commands run, fail, crash or put back, in any order: a project *)
(* is served only lenses that a command has given it, and of a folder and  *)
(* its copy at most one is served through a key (linkedLensAuthority).     *)
THEOREM ServedOnlyGiven == RegistriesSpec => []ServedWasGiven
<1>1. LinksHold => ServedWasGiven
  <2> SUFFICES ASSUME LinkInv PROVE Links!ServedWasGiven /\ Links!OneProjectPerKey
    BY DEF LinksHold, ServedWasGiven
  <2>1. Links!ServedWasGiven
    BY DEF Links!ServedWasGiven, Links!Served, LinkInv, GrantsGiven
  <2>2. ASSUME NEW q \in Links!Projects, NEW r \in Links!Projects, Links!Served(q) # {}, Links!Served(r) # {},
               link[q].key = link[r].key
        PROVE  q = r
    <3>1. {q} = {r}
      BY <2>2, ServedHoldsAlone
    <3> QED  BY <3>1
  <2> QED  BY <2>1, <2>2 DEF Links!OneProjectPerKey
<1> QED  BY <1>1, LinksHoldAlways, PTL

(* A command that fails, at any point and after any undoing, while nobody  *)
(* else writes leaves link.yaml, the bindings and the registry's entry as  *)
(* it has found them.                                                      *)
THEOREM FailuresLeaveNothing == RegistriesSpec => []FailedLeavesNothing
<1>1. LinksHold => FailedLeavesNothing
  <2> SUFFICES ASSUME LinkInv PROVE Links!FailedLeavesNothing
    BY DEF LinksHold, FailedLeavesNothing
  <2> SUFFICES ASSUME NEW p \in Cmds, place[p] = "failed", ~touched[p],
                      cmd[p].op \in Links!Linking \cup {"bind", "unbind"}
               PROVE  /\ binding = mem[p].was.binding
                      /\ link[Links!Project(p)] = mem[p].was.link
                      /\ entry[Links!Project(p)] = mem[p].was.entry
    BY DEF Links!FailedLeavesNothing
  <2>1. WayBack(p)
    BY DEF LinkInv, Sound
  <2> QED  BY <2>1 DEF WayBack, SameBinding, SameLink, SameEntry, Of, Links!Project, Restoring
<1> QED  BY <1>1, LinksHoldAlways, PTL

-----------------------------------------------------------------------------
(* The migration of one document. *)
(* What the mapping writes, field by field. *)
LEMMA MeetFields ==
    ASSUME NEW m \in Metadata, WellFormed(m)
    PROVE  LET n == ComputeMeetMetadata(m) IN
           /\ n.visibility = Missing /\ n.public_safe = Missing
           /\ n.read_scope = ReadScope(m)
           /\ n.access_lenses = IF Restricted(m) /\ "private" \in AccessLenses(m) THEN {"private"} ELSE AccessLenses(m)
           /\ n.disclosure = IF m.public_safe = FALSE /\ m.disclosure = "internal-only" THEN "internal-only"
                             ELSE EffectiveDisclosure(m)
           /\ n.sensitivity = Given(m.sensitivity, "personal")
           /\ n.document_role = Given(m.document_role, "content")
           /\ n.exclude_lenses = m.exclude_lenses
           /\ n.task_include = m.task_include /\ n.task_exclude = m.task_exclude
           /\ n.field_visibility = m.field_visibility /\ n.field_access = m.field_access
BY DEF ComputeMeetMetadata, WithTarget, Target, Frontmatter

LEMMA FieldTypes ==
    ASSUME NEW m \in Metadata
    PROVE  /\ ReadScope(m) \in ReadScopes
           /\ EffectiveDisclosure(m) \in Disclosures
           /\ AccessLenses(m) \in SUBSET LensIds
           /\ Given(m.sensitivity, "personal") \in Sensitivities
           /\ Given(m.document_role, "content") \in DocumentRoles
BY MissingAssumption, LensesAssumption
DEF Metadata, Maybe, ReadScope, EffectiveDisclosure, AccessLenses, Given, Visibility, LegacyLenses, Seeded,
    ReadScopes, Disclosures, Sensitivities, DocumentRoles, Visibilities, Confidential, Gated

(* The exact mapping: it leaves every decision about a document as it was, *)
(* for every lens, adapter, task, subject and space.                       *)
THEOREM MeetIsExact ==
    ASSUME NEW m \in Metadata, WellFormed(m), NEW r \in Requests
    PROVE  Allowed(ComputeMeetMetadata(m), r) <=> Allowed(m, r)
<1> DEFINE n == ComputeMeetMetadata(m)
<1>1. /\ n.visibility = Missing /\ n.public_safe = Missing
      /\ n.read_scope = ReadScope(m)
      /\ n.access_lenses = IF Restricted(m) /\ "private" \in AccessLenses(m) THEN {"private"} ELSE AccessLenses(m)
      /\ n.disclosure = IF m.public_safe = FALSE /\ m.disclosure = "internal-only" THEN "internal-only"
                        ELSE EffectiveDisclosure(m)
      /\ n.sensitivity = Given(m.sensitivity, "personal")
      /\ n.document_role = Given(m.document_role, "content")
      /\ n.exclude_lenses = m.exclude_lenses
      /\ n.task_include = m.task_include /\ n.task_exclude = m.task_exclude
  BY MeetFields
<1> HIDE DEF n
<1>2. ReadScope(n) = ReadScope(m)
  BY <1>1, FieldTypes, MissingAssumption DEF ReadScope, Given
<1>3. /\ n.sensitivity \in Confidential <=> m.sensitivity \in Confidential
      /\ n.sensitivity = "restricted" <=> m.sensitivity = "restricted"
      /\ n.sensitivity \in Gated <=> m.sensitivity \in Gated
      /\ m.sensitivity \in Gated => n.sensitivity = m.sensitivity
  BY <1>1, MissingAssumption DEF Given, Confidential, Gated, Sensitivities
<1>4. Restricted(n) <=> Restricted(m)
  BY <1>2, <1>3 DEF Restricted
<1>5. EffectiveDisclosure(n) = n.disclosure
  <2>1. n.disclosure # Missing
    BY <1>1, FieldTypes, MissingAssumption DEF Disclosures
  <2>2. Missing # FALSE
    BY MissingAssumption
  <2> QED BY <1>1, <2>1, <2>2 DEF EffectiveDisclosure, Given
<1>6. PublicationAllowed(n) <=> PublicationAllowed(m)
  BY <1>1, <1>3, <1>5 DEF PublicationAllowed, EffectiveDisclosure
<1>7. AccessLenses(n) = n.access_lenses
  BY <1>1, FieldTypes, MissingAssumption, LensesAssumption DEF AccessLenses, Given, Seeded
<1>8. (Restricted(m) => r.lens = "private") => (r.lens \in AccessLenses(n) <=> r.lens \in AccessLenses(m))
  BY <1>1, <1>7
<1>9. n.document_role = "policy" <=> m.document_role = "policy"
  BY <1>1, MissingAssumption DEF Given, DocumentRoles
<1>10. TaskAllowed(n, r.task) <=> TaskAllowed(m, r.task)
  BY <1>1 DEF TaskAllowed
<1> QED
  BY <1>1, <1>2, <1>3, <1>4, <1>6, <1>8, <1>9, <1>10 DEF Allowed, n

-----------------------------------------------------------------------------
(* x is y with, at most, an exclusion or a task selector more. *)
Tightens(x, y) ==
    /\ x.visibility = y.visibility /\ x.public_safe = y.public_safe
    /\ x.access_lenses = y.access_lenses /\ x.read_scope = y.read_scope
    /\ x.disclosure = y.disclosure /\ x.sensitivity = y.sensitivity
    /\ x.document_role = y.document_role
    /\ y.exclude_lenses \in {Missing, x.exclude_lenses}
    /\ y.task_include \in {Missing, x.task_include}
    /\ y.task_exclude \in {Missing, x.task_exclude}

LEMMA TighterIsNarrower ==
    ASSUME NEW x, NEW y, Tightens(x, y), NEW r, Allowed(x, r)
    PROVE  Allowed(y, r)
<1>1. /\ ReadScope(x) = ReadScope(y) /\ AccessLenses(x) = AccessLenses(y)
      /\ EffectiveDisclosure(x) = EffectiveDisclosure(y)
  BY DEF Tightens, ReadScope, AccessLenses, EffectiveDisclosure, Visibility
<1>2. /\ Restricted(x) <=> Restricted(y)
      /\ PublicationAllowed(x) <=> PublicationAllowed(y)
  BY <1>1 DEF Tightens, Restricted, PublicationAllowed
<1>3. TaskAllowed(y, r.task)
  BY DEF Tightens, Allowed, TaskAllowed
<1>4. r.lens \notin Given(y.exclude_lenses, {})
  BY DEF Tightens, Allowed, Given
<1> QED
  BY <1>1, <1>2, <1>3, <1>4 DEF Tightens, Allowed

LEMMA OverType ==
    ASSUME NEW m \in Metadata, NEW d \in Defaults
    PROVE  Over(m, d) \in Metadata
BY DEF Over, Given, Metadata, Defaults

LEMMA ResolvedType ==
    ASSUME NEW m \in Metadata, NEW d \in Defaults
    PROVE  ResolveDocumentPolicy(d, m) \in Metadata
BY OverType DEF ResolveDocumentPolicy

(* A rewritten rule of a field is all that WithRules changes. *)
LEMMA RulesApart ==
    ASSUME NEW m \in Metadata
    PROVE  LET n == WithRules(m) IN
           /\ n.visibility = m.visibility /\ n.public_safe = m.public_safe
           /\ n.access_lenses = m.access_lenses /\ n.exclude_lenses = m.exclude_lenses
           /\ n.read_scope = m.read_scope /\ n.disclosure = m.disclosure
           /\ n.sensitivity = m.sensitivity /\ n.document_role = m.document_role
           /\ n.task_include = m.task_include /\ n.task_exclude = m.task_exclude
BY DEF WithRules, Metadata

LEMMA TargetType ==
    ASSUME NEW m \in Metadata, NEW e \in Metadata
    PROVE  WithTarget(m, Target(e)) \in Metadata
BY FieldTypes DEF WithTarget, Target, Metadata, Maybe

(* A migration of a document that the catalog has makes it available to no *)
(* lens, adapter, task, subject or space to which it was not: the fields   *)
(* that a directory would fill are pinned as they were.                    *)
THEOREM MigrationNeverWidens ==
    ASSUME NEW m \in Metadata, NEW d \in Defaults, NEW r \in Requests,
           ~CatalogExcluded(d, m), Served(d, Migrated(d, m), r)
    PROVE  Served(d, m, r)
<1> DEFINE e == ResolveDocumentPolicy(d, m)
           n == Migrated(d, m)
           f == ResolveDocumentPolicy(d, n)
<1>1. /\ e \in Metadata /\ WellFormed(e) /\ Effective(d, m) = e
  BY ResolvedType DEF CatalogExcluded, CanonicalErrors, Effective, Frontmatter
<1>2. Allowed(f, r)
  BY DEF Served, CatalogExcluded, Effective, Frontmatter
<1>3. CASE GovernedByDirectory(d, m)
  <2>1. n = WithRules(m)
    BY <1>3 DEF Migrated
  <2>2. Tightens(f, e)
    BY <2>1, RulesApart DEF ResolveDocumentPolicy, HasLegacy, Over, Tightens
  <2> QED
    BY <1>1, <1>2, <2>2, TighterIsNarrower DEF Served
<1>4. CASE ~GovernedByDirectory(d, m)
  <2> DEFINE t == Target(e)
  <2>1. MigrationTarget(d, m) = ComputeMeetMetadata(e)
    BY <1>1 DEF MigrationTarget
  <2>2. ComputeMeetMetadata(e) = WithTarget(e, t)
    BY <1>1 DEF ComputeMeetMetadata, Frontmatter
  <2>3. n = WithRules(WithTarget(m, t))
    BY <1>4, <2>1, <2>2 DEF Migrated, WithTarget
  <2>4. /\ t.access_lenses # Missing /\ t.disclosure # Missing /\ t.sensitivity # Missing
        /\ t.document_role # Missing /\ t.read_scope # Missing
    BY <1>1, FieldTypes, MissingAssumption, LensesAssumption
    DEF Target, Disclosures, Sensitivities, Confidential, Gated, DocumentRoles, ReadScopes, Seeded
  <2>5. /\ n.visibility = Missing /\ n.public_safe = Missing
        /\ n.access_lenses = t.access_lenses /\ n.read_scope = t.read_scope
        /\ n.disclosure = t.disclosure /\ n.sensitivity = t.sensitivity
        /\ n.document_role = t.document_role
        /\ n.exclude_lenses = m.exclude_lenses
        /\ n.task_include = m.task_include /\ n.task_exclude = m.task_exclude
    BY <1>1, <2>3, TargetType, RulesApart DEF WithTarget
  <2> HIDE DEF t
  <2>6. f = IF ValidDefaults(d) THEN Over(n, d) ELSE n
    BY <2>5 DEF ResolveDocumentPolicy, HasLegacy
  <2>7. e = IF HasLegacy(m) \/ ~ValidDefaults(d) THEN m ELSE Over(m, d)
    BY DEF ResolveDocumentPolicy
  <2> HIDE DEF n, e, f
  <2>8. Tightens(f, WithTarget(e, t))
    BY <2>4, <2>5, <2>6, <2>7 DEF Tightens, WithTarget, Over, Given
  <2>9. Allowed(WithTarget(e, t), r)
    BY <1>2, <2>8, TighterIsNarrower
  <2> QED
    BY <1>1, <2>2, <2>9, MeetIsExact DEF Served
<1> QED
  BY <1>3, <1>4

-----------------------------------------------------------------------------
(* A migration of many. *)
(* What a plan says of a document that it writes, it says by the policy.   *)
FreshPlans ==
    /\ \A p \in fresh, f \in Files : p.how[f] = "write" =>
           How(directory, p.before[f]) = "write" /\ p.after[f] = Migrated(directory, p.before[f])
    /\ Replans /\ command.at = "writing" => command.plan \in fresh

(* What a running command has changed, and what it will say of it. *)
OwnKnown ==
    /\ command.at \in {"idle", "reverting"} => doc = own
    /\ command.at = "writing" \/ (command.at = "undoing" /\ command.outcome = "rolledback") =>
           \A f \in Files : own[f] = IF f \in Written THEN command.plan.before[f] ELSE doc[f]
    /\ command.at = "writing" => \A f \in Written : doc[f] = command.plan.after[f]
    /\ command.at = "writing" => \A f \in Written \cup command.todo : command.entry[f] = "applied"
    /\ command.at = "undoing" =>
           /\ \A f \in Written : own[f] = command.plan.before[f]
           /\ \A f \in Files : doc[f] = own[f] \/ doc[f] = command.plan.after[f]

(* What the receipts say of the documents. *)
ReceiptsKnown ==
    \A f \in Files : by[f] # Missing =>
        /\ own[f] = by[f].after[f]
        /\ by[f] \in unsure \/ (by[f] \in DOMAIN receipts /\ receipts[by[f]].entry[f] = "applied")

(* What a revert says of them in its memory. *)
RevertKnown ==
    command.at = "reverting" =>
        /\ command.plan \in DOMAIN receipts
        /\ \A f \in Files : by[f] # Missing /\ by[f] = command.plan =>
               by[f] \in unsure \/ command.entry[f] = "applied"
        /\ \A f \in Applied(command.plan) :
               \/ f \in command.todo
               \/ command.entry[f] = "skipped"
               \/ f \in Written /\ doc[f] = command.plan.before[f]

-----------------------------------------------------------------------------
(* What is written, one more, and one less. *)
LEMMA WrittenMore ==
    ASSUME NEW S, NEW w \in Seq(S), NEW e \in S
    PROVE  /\ Append(w, e) \in Seq(S)
           /\ {Append(w, e)[n] : n \in DOMAIN Append(w, e)} = {w[n] : n \in DOMAIN w} \cup {e}
<1> DEFINE v == Append(w, e)
<1>1. /\ v \in Seq(S) /\ Len(v) = Len(w) + 1
      /\ \A n \in 1 .. Len(w) : v[n] = w[n]
      /\ v[Len(w) + 1] = e
  BY AppendProperties
<1>2. DOMAIN v = 1 .. Len(w) + 1 /\ DOMAIN w = 1 .. Len(w) /\ Len(w) \in Nat
  BY <1>1, LenProperties
<1> HIDE DEF v
<1>3. \A n \in DOMAIN v : v[n] \in {w[k] : k \in DOMAIN w} \cup {e}
  BY <1>1, <1>2
<1>4. \A k \in DOMAIN w : w[k] \in {v[n] : n \in DOMAIN v}
  BY <1>1, <1>2
<1>5. e \in {v[n] : n \in DOMAIN v}
  BY <1>1, <1>2
<1> QED
  BY <1>1, <1>3, <1>4, <1>5 DEF v

LEMMA WrittenLess ==
    ASSUME NEW S, NEW w \in Seq(S), w # <<>>
    PROVE  LET v == SubSeq(w, 1, Len(w) - 1) IN
           /\ w[Len(w)] \in S
           /\ v \in Seq(S)
           /\ {v[n] : n \in DOMAIN v} \subseteq {w[n] : n \in DOMAIN w}
           /\ \A n \in DOMAIN w : w[n] = w[Len(w)] \/ w[n] \in {v[k] : k \in DOMAIN v}
<1> DEFINE v == SubSeq(w, 1, Len(w) - 1)
<1>1. Len(w) \in Nat \ {0} /\ DOMAIN w = 1 .. Len(w) /\ \A n \in 1 .. Len(w) : w[n] \in S
  BY EmptySeq, LenProperties, ElementOfSeq
<1>2. /\ v \in Seq(S)
      /\ Len(v) = IF 1 <= Len(w) - 1 THEN Len(w) - 1 - 1 + 1 ELSE 0
      /\ \A n \in 1 .. Len(w) - 1 - 1 + 1 : v[n] = w[1 + n - 1]
  BY <1>1, SubSeqProperties
<1>3. DOMAIN v = 1 .. Len(v)
  BY <1>2, LenProperties
<1> HIDE DEF v
<1>4. Len(v) = Len(w) - 1
  <2>1. \A k \in Nat \ {0} : (IF 1 <= k - 1 THEN k - 1 - 1 + 1 ELSE 0) = k - 1
    OBVIOUS
  <2>2. (IF 1 <= Len(w) - 1 THEN Len(w) - 1 - 1 + 1 ELSE 0) = Len(w) - 1
    BY <1>1, <2>1
  <2> QED
    BY <1>2, <2>2
<1>5. \A n \in DOMAIN v : n \in DOMAIN w /\ n \in 1 .. Len(w) - 1 - 1 + 1 /\ 1 + n - 1 = n
  BY <1>1, <1>3, <1>4
<1>6. \A n \in DOMAIN v : n \in DOMAIN w /\ v[n] = w[n]
  BY <1>2, <1>5
<1>7. \A n \in DOMAIN w : n = Len(w) \/ n \in DOMAIN v
  BY <1>1, <1>3, <1>4
<1>8. {v[n] : n \in DOMAIN v} \subseteq {w[n] : n \in DOMAIN w}
  BY <1>6
<1>9. \A n \in DOMAIN w : w[n] = w[Len(w)] \/ w[n] \in {v[k] : k \in DOMAIN v}
  BY <1>6, <1>7
<1> QED
  BY <1>1, <1>2, <1>8, <1>9 DEF v

LEMMA AppendTells ==
    ASSUME NEW S, NEW w \in Seq(S), NEW e \in S, NEW f \in S
    PROVE  /\ Append(w, e) # w /\ Append(w, e) # <<>>
           /\ Append(w, e) = Append(w, f) => e = f
BY AppendInjective, AppendProperties, LenProperties

(* A rule that stands for two is a rule, and so is one from the old form. *)
LEMMA RuleTypes ==
    ASSUME NEW m \in Metadata, m.field_visibility # Missing
    PROVE  RuleFromLegacy(m) \in Rules
<1> DEFINE old == LegacyRule(m.field_visibility)
           known == [old EXCEPT !.access_lenses = IF @ = Missing THEN Missing ELSE @ \cap Known]
<1>1. m.field_visibility \in Visibilities /\ m.field_access \in Maybe(Rules)
  BY DEF Metadata, Maybe
<1>2. old \in Rules
  <2>1. LegacyLenses(m.field_visibility) \in SUBSET LensIds
    BY LensesAssumption DEF LegacyLenses, Seeded
  <2> QED
    BY <2>1 DEF LegacyRule, Rules, Disclosures, Maybe
<1>3. known \in Rules
  BY <1>2 DEF Rules
<1>4. m.field_access # Missing => NormalizeRule(m.field_access) \in Rules
  BY <1>1, LensesAssumption DEF NormalizeRule, PrivateRule, Rules, Maybe, Disclosures
<1> HIDE DEF known
<1>5. \A a \in Rules, b \in Rules : IntersectRules(a, b) \in Rules
  BY DEF IntersectRules, SharedLenses, NarrowerDisclosure, Rules, Disclosures
<1> QED
  BY <1>3, <1>4, <1>5 DEF RuleFromLegacy, known

(* So is a document that the parser restricts, or that is activated. *)
LEMMA RestrictedType ==
    ASSUME NEW m \in Metadata
    PROVE  RestrictPrivacyMetadata(m) \in Metadata /\ Frontmatter(m) \in Metadata
<1>1. {"private"} \in SUBSET LensIds
  BY LensesAssumption DEF Seeded
<1>2. RestrictPrivacyMetadata(m) \in Metadata
  BY <1>1 DEF RestrictPrivacyMetadata, Metadata, Maybe, Visibilities, ReadScopes, Disclosures, Sensitivities,
              Confidential, DocumentRoles
<1> QED
  BY <1>2 DEF Frontmatter

LEMMA ActivatedType ==
    ASSUME NEW m \in Metadata
    PROVE  ComputeMeetMetadata(m) \in Metadata /\ ComputeActivationMetadata(m) \in Metadata
<1>1. \A n \in Metadata : ComputeMeetMetadata(n) \in Metadata
  BY RestrictedType, TargetType DEF ComputeMeetMetadata
<1>2. [m EXCEPT !.visibility = Given(m.visibility, "private")] \in Metadata
  BY DEF Given, Metadata, Maybe, Visibilities
<1>3. WithTarget(m, RestrictPrivacyMetadata(m)) \in Metadata
  BY RestrictedType DEF WithTarget, Metadata, Maybe
<1> QED
  BY <1>1, <1>2, <1>3 DEF ComputeActivationMetadata

(* A migrated document is a document. *)
LEMMA MigratedType ==
    ASSUME NEW m \in Metadata, NEW d \in Defaults
    PROVE  Migrated(d, m) \in Metadata
<1>1. ASSUME NEW n \in Metadata
      PROVE  WithRules(n) \in Metadata
  <2>1. n.field_visibility # Missing => RuleFromLegacy(n) \in Rules
    BY RuleTypes
  <2>2. ASSUME NEW rule \in Rules
        PROVE  [n EXCEPT !.field_visibility = Missing, !.field_access = rule] \in Metadata
    <3>1. Missing \in Maybe(Visibilities) /\ rule \in Maybe(Rules)
      BY DEF Maybe
    <3> QED
      BY <3>1 DEF Metadata
  <2> QED
    BY <2>1, <2>2 DEF WithRules
<1>2. Effective(d, m) \in Metadata
  BY ResolvedType, RestrictedType DEF Effective
<1>3. MigrationTarget(d, m) \in Metadata
  BY <1>2, ActivatedType DEF MigrationTarget
<1>4. WithTarget(m, MigrationTarget(d, m)) \in Metadata
  BY <1>3 DEF WithTarget, Metadata, Maybe
<1> QED
  BY <1>1, <1>4 DEF Migrated

LEMMA PlanIsPlan ==
    ASSUME TypeOK, NEW confirmed \in BOOLEAN
    PROVE  PlanOf(confirmed) \in Plans
<1>1. \A f \in Files : How(directory, doc[f]) \in Hows
  BY DEF How, Hows
<1>2. \A f \in Files : doc[f] \in Metadata /\ Migrated(directory, doc[f]) \in Metadata
  BY MigratedType DEF TypeOK
<1> QED
  BY <1>1, <1>2 DEF PlanOf, Plans, TypeOK

(* Types are kept: a document stays metadata, whatever is applied and      *)
(* undone.                                                                 *)
LEMMA TypeStep ==
    ASSUME TypeOK, [Next]_vars
    PROVE  TypeOK'
<1> USE DEF TypeOK, Idle
<1>1. ASSUME NEW f \in Files, NEW m \in Drafts, Save(f, m)
      PROVE  TypeOK'
  BY <1>1, DraftsAssumption DEF Save, Maybe
<1>2. ASSUME NEW d \in Directories, EditPolicy(d)
      PROVE  TypeOK'
  BY <1>2, DraftsAssumption DEF EditPolicy
<1>3. ASSUME NEW confirmed \in BOOLEAN, Plan(confirmed)
      PROVE  TypeOK'
  BY <1>3, PlanIsPlan DEF Plan, Maybe
<1>4. ASSUME NEW p \in plans, NEW confirm \in BOOLEAN, Apply(p, confirm)
      PROVE  TypeOK'
  BY <1>4, EmptySeq DEF Apply, Run, Pending, Entries, Maybe
<1>5. ASSUME NEW f \in Files, WriteNext(f)
      PROVE  TypeOK'
  BY <1>5, WrittenMore DEF WriteNext, Plans
<1>6. CASE Fail
  BY <1>6 DEF Fail
<1>7. CASE WriteReceipt
  BY <1>7, EmptySeq DEF WriteReceipt, Rest, Receipts, Maybe
<1>8. ASSUME NEW restored \in BOOLEAN, Undo(restored)
      PROVE  TypeOK'
  <2>1. /\ command.written[Len(command.written)] \in Files
        /\ SubSeq(command.written, 1, Len(command.written) - 1) \in Seq(Files)
    BY <1>8, WrittenLess DEF Undo
  <2>2. command.plan \in plans /\ command.plan.before \in [Files -> Metadata]
    BY <1>8 DEF Undo, Plans
  <2> QED
    BY <1>8, <2>1, <2>2 DEF Undo
<1>9. CASE Undone
  BY <1>9, EmptySeq DEF Undone, Abandon, Rest, Maybe
<1>10. ASSUME NEW p \in plans, NEW partial \in BOOLEAN, Revert(p, partial)
       PROVE  TypeOK'
  BY <1>10, EmptySeq DEF Revert, Run, Applied, Receipts, Maybe
<1>11. ASSUME NEW f \in Files, RevertNext(f)
       PROVE  TypeOK'
  <2>1. command.plan \in plans /\ command.plan.before \in [Files -> Metadata]
    BY <1>11 DEF RevertNext, Plans
  <2>2. Append(command.written, f) \in Seq(Files)
    BY WrittenMore
  <2>3. /\ [command.entry EXCEPT ![f] = "reverted"] \in [Files -> Entries]
        /\ [command.entry EXCEPT ![f] = "skipped"] \in [Files -> Entries]
    BY <1>11 DEF RevertNext, Entries
  <2>4. /\ command'.at = command.at /\ command'.outcome = command.outcome /\ command'.plan = command.plan
        /\ command'.todo \in SUBSET Files /\ command'.written \in Seq(Files)
        /\ command'.entry \in [Files -> Entries]
        /\ command' = [at |-> command'.at, outcome |-> command'.outcome, plan |-> command'.plan,
                       todo |-> command'.todo, written |-> command'.written, entry |-> command'.entry]
    <3>1. CASE doc[f] = command.plan.after[f]
      <4>1. command' = [command EXCEPT !.todo = @ \ {f}, !.written = Append(@, f), !.entry = [@ EXCEPT ![f] = "reverted"]]
        BY <1>11, <3>1 DEF RevertNext
      <4> QED
        BY <2>2, <2>3, <4>1
    <3>2. CASE doc[f] # command.plan.after[f]
      <4>1. command' = [command EXCEPT !.todo = @ \ {f}, !.entry = [@ EXCEPT ![f] = "skipped"]]
        BY <1>11, <3>2 DEF RevertNext
      <4> QED
        BY <2>3, <4>1
    <3> QED
      BY <3>1, <3>2
  <2>5. doc' \in [Files -> Metadata] /\ own' \in [Files -> Metadata] /\ by' \in [Files -> Maybe(plans)]
    BY <1>11, <2>1 DEF RevertNext, Maybe
  <2> QED
    BY <1>11, <2>4, <2>5 DEF RevertNext, Maybe
<1>12. CASE SaveReverted
  BY <1>12, EmptySeq DEF SaveReverted, Rest, Receipts, Maybe
<1>13. CASE Crash
  BY <1>13, EmptySeq DEF Crash, Abandon, Rest, Maybe
<1>14. CASE UNCHANGED vars
  BY <1>14 DEF vars
<1> QED
  BY <1>1, <1>2, <1>3, <1>4, <1>5, <1>6, <1>7, <1>8, <1>9, <1>10, <1>11, <1>12, <1>13, <1>14 DEF Next

LEMMA TypeInit == Init => TypeOK
BY DraftsAssumption, EmptySeq DEF Init, TypeOK, Idle, Rest, Maybe

(* Every variable of the migration keeps its type. *)
THEOREM MigrationTypes == Spec => []TypeOK
BY TypeInit, TypeStep, PTL DEF Spec

-----------------------------------------------------------------------------
(* What is written is never wider *)

LEMMA FreshStep ==
    ASSUME TypeOK, FreshPlans, [Next]_vars
    PROVE  FreshPlans'
<1> USE DEF TypeOK, FreshPlans, Idle
<1>1. ASSUME NEW f \in Files, NEW m \in Drafts, Save(f, m)
      PROVE  FreshPlans'
  BY <1>1 DEF Save
<1>2. ASSUME NEW d \in Directories, EditPolicy(d)
      PROVE  FreshPlans'
  BY <1>2 DEF EditPolicy
<1>3. ASSUME NEW confirmed \in BOOLEAN, Plan(confirmed)
      PROVE  FreshPlans'
  <2>1. \A f \in Files : PlanOf(confirmed).how[f] = "write" =>
            /\ How(directory, PlanOf(confirmed).before[f]) = "write"
            /\ PlanOf(confirmed).after[f] = Migrated(directory, PlanOf(confirmed).before[f])
    BY DEF PlanOf
  <2> QED
    BY <1>3, <2>1 DEF Plan
<1>4. ASSUME NEW p \in plans, NEW confirm \in BOOLEAN, Apply(p, confirm)
      PROVE  FreshPlans'
  BY <1>4 DEF Apply, Run
<1>5. ASSUME NEW f \in Files, WriteNext(f)
      PROVE  FreshPlans'
  BY <1>5 DEF WriteNext
<1>6. CASE Fail
  BY <1>6 DEF Fail
<1>7. CASE WriteReceipt
  BY <1>7 DEF WriteReceipt, Rest
<1>8. ASSUME NEW restored \in BOOLEAN, Undo(restored)
      PROVE  FreshPlans'
  BY <1>8 DEF Undo
<1>9. CASE Undone
  BY <1>9 DEF Undone, Abandon, Rest
<1>10. ASSUME NEW p \in plans, NEW partial \in BOOLEAN, Revert(p, partial)
       PROVE  FreshPlans'
  BY <1>10 DEF Revert, Run
<1>11. ASSUME NEW f \in Files, RevertNext(f)
       PROVE  FreshPlans'
  BY <1>11 DEF RevertNext
<1>12. CASE SaveReverted
  BY <1>12 DEF SaveReverted, Rest
<1>13. CASE Crash
  BY <1>13 DEF Crash, Abandon, Rest
<1>14. CASE UNCHANGED vars
  BY <1>14 DEF vars
<1> QED
  BY <1>1, <1>2, <1>3, <1>4, <1>5, <1>6, <1>7, <1>8, <1>9, <1>10, <1>11, <1>12, <1>13, <1>14 DEF Next

(* What a rule says depends on the lens and on the adapter alone, so each  *)
(* request about a field is one that the gate asks.                        *)
LEMMA GateCoversFields ==
    ASSUME NEW d, NEW m, NEW r \in Requests, ~GateRefuses(d, m),
           FieldVisible(Effective(d, Migrated(d, m)), r)
    PROVE  FieldVisible(Effective(d, m), r)
<1> DEFINE c == [lens |-> r.lens, publication |-> r.publication, task |-> Missing, categories |-> {},
                 owner |-> TRUE, granted |-> LensIds, reaches |-> TRUE]
<1>1. c \in GateCells /\ c.lens = r.lens /\ c.publication = r.publication
  BY DEF GateCells, Requests, Maybe
<1> HIDE DEF c
<1>2. \A x : FieldVisible(x, c) <=> FieldVisible(x, r)
  BY <1>1 DEF FieldVisible, SubDocumentVisible
<1> QED
  BY <1>1, <1>2 DEF GateRefuses

LEMMA WritesNarrow ==
    ASSUME NEW m \in Metadata, NEW d \in Defaults, How(d, m) = "write"
    PROVE  Narrows(d, m, Migrated(d, m))
<1>1. ~GateRefuses(d, m) /\ ~CatalogExcluded(d, m)
  BY DEF How
<1>2. ASSUME NEW r \in Asked, Served(d, Migrated(d, m), r)
      PROVE  Served(d, m, r)
  BY <1>1, <1>2, AskedAssumption, MigrationNeverWidens
<1>3. ASSUME NEW r \in Asked, FieldVisible(Effective(d, Migrated(d, m)), r)
      PROVE  FieldVisible(Effective(d, m), r)
  BY <1>1, <1>3, AskedAssumption, GateCoversFields
<1> QED
  BY <1>2, <1>3 DEF Narrows, FieldServed

LEMMA NarrowsEveryStep ==
    ASSUME Replans, TypeOK, FreshPlans, [Next]_vars
    PROVE  NarrowsStep
<1> SUFFICES ASSUME NEW f \in Files, command.at = "writing",
                    command'.written = Append(command.written, f), command.plan.how[f] = "write"
             PROVE  Narrows(directory, doc[f], doc'[f])
  BY DEF NarrowsStep
<1> USE DEF TypeOK, Idle
<1>1. command'.written # command.written /\ command'.written # <<>>
  BY AppendTells
<1>2. \E d \in Files : WriteNext(d)
  <2>1. /\ \A h \in Files, m \in Drafts : ~Save(h, m)
        /\ \A d \in Directories : ~EditPolicy(d)
        /\ \A confirmed \in BOOLEAN : ~Plan(confirmed)
        /\ ~UNCHANGED vars
    BY <1>1 DEF Save, EditPolicy, Plan, vars
  <2>2. \A p \in plans, b \in BOOLEAN : ~Apply(p, b) /\ ~Revert(p, b)
    BY DEF Apply, Revert
  <2>3. ~Fail /\ ~WriteReceipt /\ ~SaveReverted /\ ~Undone /\ ~Crash
    <3>1. \A outcome : command' # Rest(outcome)
      BY <1>1 DEF Rest
    <3> QED
      BY <1>1, <3>1 DEF Fail, WriteReceipt, SaveReverted, Undone, Crash, Abandon
  <2>4. /\ \A b \in BOOLEAN : ~Undo(b)
        /\ \A h \in Files : ~RevertNext(h)
    BY DEF Undo, RevertNext
  <2> QED
    BY <2>1, <2>2, <2>3, <2>4 DEF Next
<1>3. PICK d \in Files : WriteNext(d)
  BY <1>2
<1>4. f = d
  <2>1. command'.written = Append(command.written, d) /\ command.written \in Seq(Files)
    BY <1>3 DEF WriteNext
  <2>2. Append(command.written, f) = Append(command.written, d)
    BY <2>1
  <2> HIDE DEF TypeOK
  <2>3. \A h \in Files : Append(command.written, f) = Append(command.written, h) => f = h
    BY <2>1, AppendTells
  <2> QED
    BY <2>2, <2>3
<1>5. /\ How(directory, doc[f]) = "write"
      /\ doc'[f] = Migrated(directory, doc[f])
  BY <1>3, <1>4 DEF WriteNext, FreshPlans
<1> QED
  BY <1>5, WritesNarrow

(* An apply widens nothing, if no plan is applied, and none is being       *)
(* applied, under another policy than it was made for.                     *)
THEOREM FreshPlansNeverWiden ==
    ASSUME Replans
    PROVE  Spec => NeverWidens
<1>1. Init => TypeOK /\ FreshPlans
  BY TypeInit DEF Init, FreshPlans, Rest
<1>2. TypeOK /\ FreshPlans /\ [Next]_vars => TypeOK' /\ FreshPlans'
  BY TypeStep, FreshStep
<1>3. TypeOK /\ FreshPlans /\ [Next]_vars => [NarrowsStep]_vars
  BY NarrowsEveryStep
<1> QED
  BY <1>1, <1>2, <1>3, PTL DEF Spec, NeverWidens

-----------------------------------------------------------------------------
(* It can be undone *)

LEMMA WrittenFiles == TypeOK => Written \subseteq Files
BY LenProperties, ElementOfSeq DEF TypeOK, Written

LEMMA WrittenNone == command.written = <<>> => Written = {}
BY DEF Written

LEMMA WrittenOne ==
    ASSUME TypeOK, NEW f \in Files, command'.written = Append(command.written, f)
    PROVE  Written' = Written \cup {f}
<1>1. command.written \in Seq(Files)
  BY DEF TypeOK
<1> QED
  BY <1>1, WrittenMore DEF Written

LEMMA WrittenButLast ==
    ASSUME TypeOK, command.written # <<>>, command'.written = SubSeq(command.written, 1, Len(command.written) - 1)
    PROVE  LET f == command.written[Len(command.written)] IN
           f \in Files /\ f \in Written /\ Written' \subseteq Written /\ \A d \in Written : d = f \/ d \in Written'
<1>1. command.written \in Seq(Files)
  BY DEF TypeOK
<1>2. Len(command.written) \in DOMAIN command.written
  BY <1>1, EmptySeq, LenProperties
<1> QED
  BY <1>1, <1>2, WrittenLess DEF Written

LEMMA OwnStep ==
    ASSUME OwnerWaits, TypeOK, OwnKnown, [Next]_vars
    PROVE  OwnKnown'
<1> USE DEF TypeOK, OwnKnown, Idle
<1>0. UNCHANGED command.written => Written' = Written
  BY DEF Written
<1>15. command'.written = <<>> => Written' = {}
  BY DEF Written
<1>1. ASSUME NEW f \in Files, NEW m \in Drafts, Save(f, m)
      PROVE  OwnKnown'
  <2>1. Written' = Written /\ f \notin Written
    BY <1>0, <1>1 DEF Save
  <2>2. /\ doc' = [doc EXCEPT ![f] = m] /\ own' = [own EXCEPT ![f] = m] /\ UNCHANGED command
        /\ \A d \in Files : d # f => doc'[d] = doc[d] /\ own'[d] = own[d]
        /\ doc'[f] = m /\ own'[f] = m
    BY <1>1 DEF Save
  <2>3. doc = own => doc' = own'
    BY <2>2
  <2>4. command.at = "writing" \/ (command.at = "undoing" /\ command.outcome = "rolledback") =>
            \A d \in Files : own'[d] = IF d \in Written THEN command.plan.before[d] ELSE doc'[d]
    BY <2>1, <2>2
  <2>5. command.at = "writing" => \A d \in Written : doc'[d] = command.plan.after[d]
    BY <2>1, <2>2, WrittenFiles
  <2>6. command.at = "undoing" =>
            /\ \A d \in Written : own'[d] = command.plan.before[d]
            /\ \A d \in Files : doc'[d] = own'[d] \/ doc'[d] = command.plan.after[d]
    BY <2>1, <2>2, WrittenFiles
  <2> QED
    BY <2>1, <2>2, <2>3, <2>4, <2>5, <2>6
<1>2. ASSUME NEW d \in Directories, EditPolicy(d)
      PROVE  OwnKnown'
  BY <1>0, <1>2 DEF EditPolicy
<1>3. ASSUME NEW confirmed \in BOOLEAN, Plan(confirmed)
      PROVE  OwnKnown'
  BY <1>0, <1>3 DEF Plan
<1>4. ASSUME NEW p \in plans, NEW confirm \in BOOLEAN, Apply(p, confirm)
      PROVE  OwnKnown'
  <2>1. doc = own /\ Written' = {} /\ UNCHANGED <<doc, own>>
    BY <1>4, <1>15 DEF Apply, Run
  <2>2. command'.at = "writing" /\ \A f \in command'.todo : f \in Files /\ command'.entry[f] = "applied"
    BY <1>4 DEF Apply, Run, Pending
  <2> QED
    BY <2>1, <2>2
<1>5. ASSUME NEW f \in Files, WriteNext(f)
      PROVE  OwnKnown'
  <2>1. Written' = Written \cup {f}
    BY <1>5, WrittenOne DEF WriteNext
  <2>2. /\ f \in command.todo /\ doc[f] = command.plan.before[f]
        /\ doc'[f] = command.plan.after[f] /\ own' = own
        /\ \A d \in Files : d # f => doc'[d] = doc[d]
        /\ command'.at = "writing" /\ command'.plan = command.plan /\ command'.entry = command.entry
        /\ command'.todo = command.todo \ {f}
    BY <1>5 DEF WriteNext, IsNext
  <2>3. command.at = "writing"
    BY <1>5 DEF WriteNext
  <2>4. \A d \in Files : own'[d] = IF d \in Written' THEN command'.plan.before[d] ELSE doc'[d]
    BY <2>1, <2>2, <2>3
  <2>5. \A d \in Written' : doc'[d] = command'.plan.after[d]
    BY <2>1, <2>2, <2>3, WrittenFiles
  <2>6. \A d \in Written' \cup command'.todo : command'.entry[d] = "applied"
    BY <2>1, <2>2, <2>3
  <2> QED
    BY <2>2, <2>4, <2>5, <2>6
<1>6. CASE Fail
  <2>1. /\ command.at = "writing" /\ command'.at = "undoing" /\ command'.outcome = "rolledback"
        /\ command'.plan = command.plan /\ Written' = Written /\ UNCHANGED <<doc, own>>
    BY <1>0, <1>6 DEF Fail
  <2>2. \A f \in Written' : own'[f] = command'.plan.before[f]
    BY <2>1, WrittenFiles
  <2>3. \A f \in Files : doc'[f] = own'[f] \/ doc'[f] = command'.plan.after[f]
    BY <2>1
  <2> QED
    BY <2>1, <2>2, <2>3
<1>7. CASE WriteReceipt
  BY <1>7 DEF WriteReceipt, Rest
<1>8. ASSUME NEW restored \in BOOLEAN, Undo(restored)
      PROVE  OwnKnown'
  <2> DEFINE f == command.written[Len(command.written)]
  <2>1. f \in Files /\ f \in Written /\ Written' \subseteq Written /\ \A d \in Written : d = f \/ d \in Written'
    BY <1>8, WrittenButLast DEF Undo
  <2>2. /\ command.at = "undoing" /\ command'.at = "undoing" /\ command'.plan = command.plan /\ own' = own
        /\ command'.outcome = IF restored THEN command.outcome ELSE "unrestored"
        /\ restored => doc'[f] = command.plan.before[f]
        /\ restored => \A d \in Files : d # f => doc'[d] = doc[d]
        /\ ~restored => doc' = doc
    BY <1>8, <2>1 DEF Undo
  <2> HIDE DEF f
  <2>3. command'.outcome = "rolledback" =>
            \A d \in Files : own'[d] = IF d \in Written' THEN command'.plan.before[d] ELSE doc'[d]
    BY <2>1, <2>2
  <2>4. \A d \in Written' : own'[d] = command'.plan.before[d]
    BY <2>1, <2>2
  <2>5. \A d \in Files : doc'[d] = own'[d] \/ doc'[d] = command'.plan.after[d]
    BY <2>1, <2>2
  <2> QED
    BY <2>2, <2>3, <2>4, <2>5
<1>9. CASE Undone
  BY <1>9, WrittenNone DEF Undone, Abandon, Rest
<1>10. ASSUME NEW p \in plans, NEW partial \in BOOLEAN, Revert(p, partial)
       PROVE  OwnKnown'
  BY <1>10 DEF Revert, Run
<1>11. ASSUME NEW f \in Files, RevertNext(f)
       PROVE  OwnKnown'
  <2>1. doc = own /\ command'.at = "reverting"
    BY <1>11 DEF RevertNext
  <2>2. doc' = own'
    BY <1>11, <2>1 DEF RevertNext
  <2> QED
    BY <2>1, <2>2
<1>12. CASE SaveReverted
  BY <1>12 DEF SaveReverted, Rest
<1>13. CASE Crash
  BY <1>13 DEF Crash, Abandon, Rest
<1>14. CASE UNCHANGED vars
  BY <1>0, <1>14 DEF vars
<1> QED
  BY <1>1, <1>2, <1>3, <1>4, <1>5, <1>6, <1>7, <1>8, <1>9, <1>10, <1>11, <1>12, <1>13, <1>14 DEF Next

LEMMA ReceiptsStep ==
    ASSUME TypeOK, OwnKnown, ReceiptsKnown, RevertKnown, [Next]_vars
    PROVE  ReceiptsKnown'
<1> USE DEF TypeOK, ReceiptsKnown, Idle
<1>1. ASSUME NEW f \in Files, NEW m \in Drafts, Save(f, m)
      PROVE  ReceiptsKnown'
  BY <1>1 DEF Save
<1>2. ASSUME UNCHANGED <<by, receipts, own, unsure>>
      PROVE  ReceiptsKnown'
  BY <1>2
<1>3. CASE WriteReceipt
  <2>1. ASSUME NEW f \in Files, by'[f] # Missing
        PROVE  /\ own'[f] = by'[f].after[f]
               /\ by'[f] \in unsure' \/ (by'[f] \in DOMAIN receipts' /\ receipts'[by'[f]].entry[f] = "applied")
    <3>1. /\ command.at = "writing" /\ own' = doc
          /\ DOMAIN receipts' = DOMAIN receipts \cup {command.plan}
          /\ receipts'[command.plan].entry = command.entry
          /\ \A p \in DOMAIN receipts : p # command.plan => receipts'[p] = receipts[p]
          /\ unsure \subseteq unsure' /\ (command.plan \in DOMAIN receipts => command.plan \in unsure')
      BY <1>3 DEF WriteReceipt
    <3>2. CASE f \in Written
      <4>1. by'[f] = command.plan
        BY <1>3, <3>2 DEF WriteReceipt
      <4> QED
        BY <3>1, <3>2, <4>1 DEF OwnKnown
    <3>3. CASE f \notin Written
      <4>1. by'[f] = by[f]
        BY <1>3, <3>3 DEF WriteReceipt
      <4>2. own'[f] = own[f]
        BY <3>1, <3>3 DEF OwnKnown
      <4> QED
        BY <2>1, <3>1, <4>1, <4>2
    <3> QED
      BY <3>2, <3>3
  <2> QED
    BY <2>1
<1>4. ASSUME Abandon, UNCHANGED <<receipts, doc>>, ~Idle
      PROVE  ReceiptsKnown'
  <2>1. /\ own' = doc /\ unsure \subseteq unsure' /\ (doc # own => command.plan \in unsure')
        /\ by' = [f \in Files |-> IF doc[f] = own[f] THEN by[f] ELSE command.plan]
    BY <1>4 DEF Abandon
  <2>2. \A f \in Files : doc[f] # own[f] => doc[f] = command.plan.after[f]
    BY <1>4, WrittenFiles DEF OwnKnown
  <2> QED
    BY <1>4, <2>1, <2>2
<1>5. ASSUME NEW f \in Files, RevertNext(f)
      PROVE  ReceiptsKnown'
  BY <1>5 DEF RevertNext
<1>6. CASE SaveReverted
  BY <1>6 DEF SaveReverted, RevertKnown
<1>7. CASE Undone
  <2>1. command.at = "undoing" /\ UNCHANGED <<receipts, doc>> /\ (UNCHANGED <<by, own, unsure>> \/ Abandon)
    BY <1>7 DEF Undone
  <2> QED
    BY <1>2, <1>4, <2>1
<1>8. CASE Crash
  <2>1. ~Idle /\ Abandon /\ UNCHANGED <<receipts, doc>>
    BY <1>8 DEF Crash
  <2> QED
    BY <1>4, <2>1
<1>9. /\ \A d \in Directories : EditPolicy(d) => UNCHANGED <<by, receipts, own, unsure>>
      /\ \A b \in BOOLEAN : Plan(b) => UNCHANGED <<by, receipts, own, unsure>>
      /\ \A p \in plans, b \in BOOLEAN : Apply(p, b) \/ Revert(p, b) => UNCHANGED <<by, receipts, own, unsure>>
      /\ \A f \in Files : WriteNext(f) => UNCHANGED <<by, receipts, own, unsure>>
      /\ \A b \in BOOLEAN : Undo(b) => UNCHANGED <<by, receipts, own, unsure>>
      /\ Fail => UNCHANGED <<by, receipts, own, unsure>>
      /\ UNCHANGED vars => UNCHANGED <<by, receipts, own, unsure>>
  BY DEF EditPolicy, Plan, Apply, Revert, WriteNext, Undo, Fail, vars
<1> QED
  BY <1>1, <1>2, <1>3, <1>5, <1>6, <1>7, <1>8, <1>9 DEF Next

LEMMA RevertStep ==
    ASSUME OwnerWaits, TypeOK, OwnKnown, ReceiptsKnown, RevertKnown, [Next]_vars
    PROVE  RevertKnown'
<1> USE DEF TypeOK, Idle
<1> SUFFICES ASSUME command'.at = "reverting"
             PROVE  RevertKnown'
  BY DEF RevertKnown
<1>0. UNCHANGED command.written => Written' = Written
  BY DEF Written
<1>1. ASSUME NEW f \in Files, NEW m \in Drafts, Save(f, m)
      PROVE  RevertKnown'
  <2>1. Written' = Written /\ f \notin Written /\ UNCHANGED <<command, receipts>>
    BY <1>0, <1>1 DEF Save
  <2>2. /\ \A d \in Files : d # f => doc'[d] = doc[d] /\ by'[d] = by[d]
        /\ by'[f] = Missing /\ unsure' = unsure
    BY <1>1 DEF Save
  <2> QED
    BY <2>1, <2>2, WrittenFiles DEF RevertKnown, Applied
<1>2. ASSUME UNCHANGED <<command, receipts, doc, by, unsure>>
      PROVE  RevertKnown'
  BY <1>0, <1>2 DEF RevertKnown, Applied
<1>3. ASSUME NEW p \in plans, NEW partial \in BOOLEAN, Revert(p, partial)
      PROVE  RevertKnown'
  BY <1>3 DEF Revert, Run, Applied, RevertKnown, ReceiptsKnown
<1>4. ASSUME NEW f \in Files, RevertNext(f)
      PROVE  RevertKnown'
  <2>1. /\ command.at = "reverting" /\ command'.plan = command.plan /\ receipts' = receipts /\ doc = own
        /\ unsure' = unsure
        /\ command'.todo = command.todo \ {f}
    BY <1>4 DEF RevertNext, OwnKnown
  <2>2. CASE doc[f] = command.plan.after[f]
    <3>1. /\ command'.written = Append(command.written, f)
          /\ command'.entry = [command.entry EXCEPT ![f] = "reverted"]
          /\ doc' = [doc EXCEPT ![f] = command.plan.before[f]]
          /\ by' = [by EXCEPT ![f] = Missing]
      BY <1>4, <2>2 DEF RevertNext
    <3>2. /\ \A d \in Files : d # f => doc'[d] = doc[d] /\ by'[d] = by[d] /\ command'.entry[d] = command.entry[d]
          /\ doc'[f] = command.plan.before[f] /\ by'[f] = Missing
      BY <2>1, <3>1
    <3>3. Written' = Written \cup {f}
      BY <3>1, WrittenOne
    <3> QED
      BY <2>1, <3>2, <3>3 DEF RevertKnown, Applied
  <2>3. CASE doc[f] # command.plan.after[f]
    <3>1. /\ UNCHANGED <<doc, by, command.written>>
          /\ command'.entry = [command.entry EXCEPT ![f] = "skipped"]
      BY <1>4, <2>3 DEF RevertNext
    <3>2. /\ \A d \in Files : d # f => command'.entry[d] = command.entry[d]
          /\ command'.entry[f] = "skipped" /\ Written' = Written
      BY <1>0, <2>1, <3>1
    <3>3. ~(by[f] # Missing /\ by[f] = command.plan)
      BY <2>1, <2>3 DEF ReceiptsKnown
    <3> QED
      BY <2>1, <3>1, <3>2, <3>3 DEF RevertKnown, Applied
  <2> QED
    BY <2>2, <2>3
<1>5. /\ \A d \in Directories : EditPolicy(d) => UNCHANGED <<command, receipts, doc, by, unsure>>
      /\ \A b \in BOOLEAN : Plan(b) => UNCHANGED <<command, receipts, doc, by, unsure>>
      /\ UNCHANGED vars => UNCHANGED <<command, receipts, doc, by, unsure>>
  BY DEF EditPolicy, Plan, vars
<1>6. /\ \A p \in plans, b \in BOOLEAN : ~Apply(p, b)
      /\ \A f \in Files : ~WriteNext(f)
      /\ \A b \in BOOLEAN : ~Undo(b)
      /\ ~Fail /\ ~WriteReceipt /\ ~Undone /\ ~SaveReverted /\ ~Crash
  <2>1. \A outcome : command' # Rest(outcome)
    BY DEF Rest
  <2>2. ~WriteReceipt /\ ~Undone /\ ~SaveReverted /\ ~Crash
    BY <2>1 DEF WriteReceipt, Undone, SaveReverted, Crash, Abandon
  <2>3. \A p \in plans, b \in BOOLEAN : ~Apply(p, b)
    BY DEF Apply, Run
  <2>4. /\ \A f \in Files : ~WriteNext(f)
        /\ \A b \in BOOLEAN : ~Undo(b)
        /\ ~Fail
    BY DEF WriteNext, Undo, Fail
  <2> QED
    BY <2>2, <2>3, <2>4
<1> QED
  BY <1>1, <1>2, <1>3, <1>4, <1>5, <1>6 DEF Next

(* What is known of a migration while it goes on. *)
Undoable == TypeOK /\ OwnKnown /\ ReceiptsKnown /\ RevertKnown

LEMMA KnownInit == Init => Undoable
BY TypeInit DEF Init, Undoable, OwnKnown, ReceiptsKnown, RevertKnown, Rest

LEMMA KnownStep == OwnerWaits /\ Undoable /\ [Next]_vars => Undoable'
BY TypeStep, OwnStep, ReceiptsStep, RevertStep DEF Undoable

LEMMA RevertedStep ==
    ASSUME Undoable, Next, NEW p \in DOMAIN receipts, receipts'[p] # receipts[p], receipts'[p].status = "reverted"
    PROVE  \A f \in Applied(p) : doc'[f] = p.before[f]
<1> USE DEF Undoable, TypeOK
<1>1. SaveReverted
  <2>1. ~WriteReceipt
    BY DEF WriteReceipt
  <2> QED
    BY <2>1 DEF Next, Save, EditPolicy, Plan, Apply, WriteNext, Fail, Undo, Undone, Revert, RevertNext, Crash
<1>2. /\ p = command.plan /\ doc' = doc /\ command.at = "reverting" /\ command.todo = {}
      /\ receipts'[p].status = IF {f \in Applied(p) : command.entry[f] = "skipped"} = {} THEN "reverted"
                               ELSE IF command.written # <<>> THEN "partially-reverted" ELSE "applied"
  BY <1>1 DEF SaveReverted
<1>3. \A f \in Applied(p) : command.entry[f] # "skipped"
  BY <1>2
<1> QED
  BY <1>2, <1>3 DEF RevertKnown

(* A revert that says so has put back all that its receipt has as applied. *)
(* The owner leaves alone what it has written.                             *)
THEOREM RevertIsComplete ==
    ASSUME OwnerWaits
    PROVE  Spec => RevertsInFull
<1>1. Undoable /\ [Next]_vars =>
          [\A p \in DOMAIN receipts : receipts'[p] # receipts[p] /\ receipts'[p].status = "reverted"
               => \A f \in Applied(p) : doc'[f] = p.before[f]]_vars
  BY RevertedStep
<1> QED
  BY <1>1, KnownInit, KnownStep, PTL DEF Spec, RevertsInFull

LEMMA KnownIsUndone == Undoable => MigrationIsUndone
<1> SUFFICES ASSUME Undoable
             PROVE  MigrationIsUndone
  OBVIOUS
<1> USE DEF Undoable, TypeOK, Idle
<1>1. Idle => doc = own
  BY DEF OwnKnown
<1> QED
  BY <1>1 DEF MigrationIsUndone, FailedChangesNothing, MigratedIsUndoable, ReceiptsKnown

(* An apply that fails and is rolled back changes nothing, and every       *)
(* document that a migration was the last to write is as its plan has it   *)
(* and in the plan's receipt, but for plans applied again or cut short;    *)
(* whatever is saved, edited, interrupted and reverted besides.            *)
THEOREM MigrationUndone ==
    ASSUME OwnerWaits
    PROVE  Spec => []MigrationIsUndone
BY KnownInit, KnownStep, KnownIsUndone, PTL DEF Spec
=============================================================================
