--------------------------- MODULE ClientRegistry ---------------------------
(***************************************************************************)
(* The grants of unlinked MCP clients (src/clients/registry.mjs and        *)
(* attestation.mjs): clients.json, changed by `client add`, `revoke` and   *)
(* `remove`, and the lens definitions it refers to, removed by the         *)
(* Workbench.  Every operation runs under the registry lock, reads what it *)
(* needs, checks that clients.json is as it read it, and replaces the file *)
(* (atomicWrite); the steps of two operations interleave if the lock lets  *)
(* them.                                                                   *)
(***************************************************************************)
EXTENDS Integers, FiniteSets

CONSTANTS
    Procs, None,            \* see RegistryLock
    Prompt,                 \* the value of its variable prompt
    Names, Lenses,          \* names of clients, lenses that exist at first
    First                   \* the id of the client that is there at first

VARIABLES
    prompt, lock, at, tries, met,   \* the lock, see RegistryLock
    op,                     \* what each call is for
    step,                   \* how far its function is
    seen,                   \* the clients.json it read, its base hash
    clients,                \* clients.json, a set of entries
    lenses,                 \* the lens definitions
    result                  \* what each call reported

L == INSTANCE RegistryLock WITH NoFile <- None

locking == <<prompt, lock, at, tries, met>>
files == <<clients, lenses>>
vars == <<locking, files, op, step, seen, result>>

Ids == Procs \cup {First}
Entries == [id : Ids, name : Names, lens : Lenses, active : BOOLEAN]

(* A new client is known by the call that added it: ids are UUIDs. *)
Ops ==
    [kind : {"add"}, name : Names, lens : Lenses]
        \cup [kind : {"revoke", "remove"}, id : Ids]
        \cup [kind : {"dropLens"}, lens : Lenses]

NoOp == [kind |-> "none"]

Init ==
    /\ L!Init
    /\ prompt = Prompt
    /\ op = [p \in Procs |-> NoOp]
    /\ step = [p \in Procs |-> "begin"]
    /\ seen = [p \in Procs |-> {}]
    /\ clients \in {{e} : e \in [id : {First}, name : Names, lens : Lenses, active : {TRUE}]}
    /\ lenses = Lenses
    /\ result = [p \in Procs |-> "none"]

Start(p, o) ==
    /\ L!Begin(p)
    /\ op' = [op EXCEPT ![p] = o]
    /\ UNCHANGED <<files, step, seen, result>>

(* The lock's own steps.  A call that crashes or times out changes no file. *)
Locking ==
    /\ \/ \E p \in Procs : L!Try(p) \/ L!WriteFails(p) \/ L!Busy(p) \/ L!Crash(p)
       \/ L!Age
    /\ UNCHANGED <<files, op, step, seen, result>>

-----------------------------------------------------------------------------
(* The entries an operation is about, in the file it read. *)
Meant(p) == {e \in seen[p] :
    CASE op[p].kind = "add" -> e.name = op[p].name
      [] op[p].kind = "dropLens" -> e.lens = op[p].lens
      [] OTHER -> e.id = op[p].id}

Refused_NoLensUse(p) ==
    CASE op[p].kind = "add" -> op[p].lens \notin lenses \/ Meant(p) # {}
      [] op[p].kind = "dropLens" -> op[p].lens \notin lenses
      [] op[p].kind = "revoke" -> Meant(p) = {}
      [] op[p].kind = "remove" -> Meant(p) = {} \/ \E e \in Meant(p) : e.active

(* The reasons to refuse: an unknown lens or a name taken, a lens in use,  *)
(* an unknown client, an active client.                                    *)
Refused(p) ==
    CASE op[p].kind = "add" -> op[p].lens \notin lenses \/ Meant(p) # {}
      [] op[p].kind = "dropLens" -> op[p].lens \notin lenses \/ Meant(p) # {}
      [] op[p].kind = "revoke" -> Meant(p) = {}
      [] op[p].kind = "remove" -> Meant(p) = {} \/ \E e \in Meant(p) : e.active

After_Reactivates(p) ==
    CASE op[p].kind = "add" ->
            seen[p] \cup {[id |-> p, name |-> op[p].name, lens |-> op[p].lens, active |-> TRUE]}
      [] op[p].kind = "revoke" -> (seen[p] \ Meant(p)) \cup {[e EXCEPT !.active = ~@] : e \in Meant(p)}
      [] OTHER -> seen[p] \ Meant(p)

(* What clients.json will hold. *)
After(p) ==
    CASE op[p].kind = "add" ->
            seen[p] \cup {[id |-> p, name |-> op[p].name, lens |-> op[p].lens, active |-> TRUE]}
      [] op[p].kind = "revoke" -> (seen[p] \ Meant(p)) \cup {[e EXCEPT !.active = FALSE] : e \in Meant(p)}
      [] op[p].kind = "remove" -> seen[p] \ Meant(p)
      [] OTHER -> seen[p]

-----------------------------------------------------------------------------

(* One step of the function that runs under the lock. *)
Do(p, from, to) ==
    /\ at[p] = "holding"
    /\ step[p] = from
    /\ step' = [step EXCEPT ![p] = to]
    /\ UNCHANGED <<locking, op>>

Read(p) ==
    /\ Do(p, "begin", "read")
    /\ seen' = [seen EXCEPT ![p] = clients]
    /\ UNCHANGED <<files, result>>

Writes(p) == op[p].kind # "dropLens" /\ After(p) # seen[p]

(* Refused, or clients.json is no longer what it was (the base hash). *)
Refuse(p) ==
    /\ Do(p, "read", "end")
    /\ Refused(p) \/ (Writes(p) /\ clients # seen[p])
    /\ result' = [result EXCEPT ![p] = "refused"]
    /\ UNCHANGED <<files, seen>>

(* A client revoked before is reported as it is. *)
NothingToDo(p) ==
    /\ Do(p, "read", "end")
    /\ op[p].kind = "revoke" /\ ~Refused(p) /\ ~Writes(p)
    /\ result' = [result EXCEPT ![p] = "ok"]
    /\ UNCHANGED <<files, seen>>

Accept(p) ==
    /\ Do(p, "read", "accepted")
    /\ ~Refused(p)
    /\ op[p].kind = "dropLens" \/ (Writes(p) /\ clients = seen[p])
    /\ UNCHANGED <<files, seen, result>>

(* The rename of atomicWrite, or the removal of the lens definition. *)
Replace(p) ==
    /\ Do(p, "accepted", "end")
    /\ IF op[p].kind = "dropLens"
       THEN lenses' = lenses \ {op[p].lens} /\ UNCHANGED clients
       ELSE clients' = After(p) /\ UNCHANGED lenses
    /\ result' = [result EXCEPT ![p] = "ok"]
    /\ UNCHANGED seen

Finish(p) ==
    /\ step[p] = "end"
    /\ L!Release(p)
    /\ UNCHANGED <<files, op, step, seen, result>>

Next ==
    \/ Locking
    \/ \E p \in Procs :
        \/ \E o \in Ops : Start(p, o)
        \/ Read(p)
        \/ Refuse(p)
        \/ NothingToDo(p)
        \/ Accept(p)
        \/ Replace(p)
        \/ Finish(p)

Spec == Init /\ [][Next]_vars

-----------------------------------------------------------------------------
(* Properties *)

(* A client, active or revoked, always has its lens: the lens cannot be    *)
(* removed under it, and a client is not added for a lens on its way out.  *)
LensesInUseStay == \A e \in clients : e.lens \in lenses

(* Two clients never share a name: a name names one grant.  True however   *)
(* writers interleave, as every file written extends one that was read.    *)
NamesAreUnique == \A e, f \in clients : e.name = f.name => e = f

(* A revoked client is never active again: nothing, and no lost update,    *)
(* brings a grant back.                                                    *)
RevocationIsFinal ==
    [][\A e \in clients, f \in clients' : e.id = f.id /\ f.active => e.active]_vars

(* What the owner was told is done stays done: an added client is there    *)
(* until it is removed, a revoked one is not active, a removed one and a   *)
(* removed lens are gone.                                                  *)
ReportedIsDone ==
    \A p \in Procs : result[p] = "ok" =>
        CASE op[p].kind = "add" ->
                \/ \E e \in clients : e.id = p
                \/ \E q \in Procs : op[q] = [kind |-> "remove", id |-> p] /\ result[q] = "ok"
          [] op[p].kind = "revoke" -> \A e \in clients : e.id = op[p].id => ~e.active
          [] op[p].kind = "remove" -> \A e \in clients : e.id # op[p].id
          [] op[p].kind = "dropLens" -> op[p].lens \notin lenses
=============================================================================
