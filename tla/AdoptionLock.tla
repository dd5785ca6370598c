------------------------------ MODULE AdoptionLock ------------------------------
(***************************************************************************)
(* The writer lock of an adoption (src/lib/adoption/operation-lock.mjs):   *)
(* a file that is created by a link, which fails if the name is taken, and *)
(* that a recovery removes once its writer's process has ended.  Those who *)
(* would remove it contend for a claim named after what they have read:    *)
(* the lock's content, and the content of each dead claim they met.        *)
(* A process makes one attempt, so it is also the content it writes.       *)
(***************************************************************************)
EXTENDS Naturals, Sequences

CONSTANTS
    Writers,
    Depth,      \* the length of a chain of claims, 64 in the code
    None

VARIABLES
    at,         \* where each process is
    alive,      \* the processes that have not ended
    path,       \* the content of the lock
    claims,     \* the claims there are: [key -> the process that holds it]
    key         \* per process: what it has read: the lock, then dead claims

vars == <<at, alive, path, claims, key>>

Init ==
    /\ at = [w \in Writers |-> "start"]
    /\ alive = Writers
    /\ path = None
    /\ claims = <<>>
    /\ key = [w \in Writers |-> <<>>]

Go(w, to) == at' = [at EXCEPT ![w] = to]
At(w, place) == w \in alive /\ at[w] = place
Held(k, w) == [c \in DOMAIN claims \cup {k} |-> IF c = k THEN w ELSE claims[c]]
Without(keys) == [k \in DOMAIN claims \ keys |-> claims[k]]
Chain(w) == {SubSeq(key[w], 1, n) : n \in 1..(Len(key[w]) - 1)}

(* An adoption just takes the lock; a recovery looks at it first. *)
Start(w) ==
    /\ At(w, "start")
    /\ \/ Go(w, "linking") /\ UNCHANGED key
       \/ path = None /\ Go(w, "linking") /\ UNCHANGED key
       \/ path # None /\ path \notin alive /\ Go(w, "claiming") /\ key' = [key EXCEPT ![w] = <<path>>]
       \/ path \in alive /\ Go(w, "refused") /\ UNCHANGED key
    /\ UNCHANGED <<alive, path, claims>>

(* A claim is taken by a link; a dead one is not taken over, its holder is *)
(* added to the key of the next.                                           *)
Claim(w) ==
    /\ At(w, "claiming")
    /\ IF key[w] \notin DOMAIN claims
          THEN claims' = Held(key[w], w) /\ Go(w, "checking") /\ UNCHANGED key
          ELSE IF claims[key[w]] \in alive \/ Len(key[w]) >= Depth
                  THEN Go(w, "refused") /\ UNCHANGED <<claims, key>>
                  ELSE key' = [key EXCEPT ![w] = Append(@, claims[key[w]])] /\ UNCHANGED <<at, claims>>
    /\ UNCHANGED <<alive, path>>

Check_Trusts(w) ==
    /\ At(w, "checking")
    /\ Go(w, "removing")
    /\ UNCHANGED <<alive, path, claims, key>>

Check(w) ==
    /\ At(w, "checking")
    /\ Go(w, IF path = key[w][1] THEN "removing" ELSE "giving up")
    /\ UNCHANGED <<alive, path, claims, key>>

Reclaim(w) ==
    /\ At(w, "removing")
    /\ path' = None
    /\ Go(w, "closing")
    /\ UNCHANGED <<alive, claims, key>>

(* The claim goes first and the dead ones it was built on after it, when   *)
(* the lock was removed.                                                   *)
DropClaim(w) ==
    /\ At(w, "closing") \/ At(w, "giving up")
    /\ claims' = Without({key[w]})
    /\ Go(w, IF at[w] = "closing" THEN "sweeping" ELSE "refused")
    /\ UNCHANGED <<alive, path, key>>

DropAbandoned(w) ==
    /\ At(w, "sweeping")
    /\ claims' = Without(Chain(w))
    /\ Go(w, "linking")
    /\ UNCHANGED <<alive, path, key>>

Link(w) ==
    /\ At(w, "linking")
    /\ IF path = None THEN path' = w /\ Go(w, "writing") ELSE UNCHANGED path /\ Go(w, "refused")
    /\ UNCHANGED <<alive, claims, key>>

Release(w) ==
    /\ At(w, "writing")
    /\ path' = None
    /\ Go(w, "done")
    /\ UNCHANGED <<alive, claims, key>>

End(w) ==
    /\ w \in alive
    /\ at[w] \notin {"start", "refused", "done"}
    /\ alive' = alive \ {w}
    /\ UNCHANGED <<at, path, claims, key>>

Next == \E w \in Writers :
    \/ Start(w) \/ Claim(w) \/ Check(w) \/ Reclaim(w) \/ DropClaim(w) \/ DropAbandoned(w)
    \/ Link(w) \/ Release(w) \/ End(w)

Spec == Init /\ [][Next]_vars

-----------------------------------------------------------------------------
(* One live process at a time works under the lock, which is its own for   *)
(* as long, however many recoveries contend for the lock of a dead one and *)
(* end on the way.                                                         *)
OneWriter == \A w \in Writers : At(w, "writing") => path = w

(* At most one live process is about to remove a given dead writer's lock. *)
OneReclaims ==
    \A v, w \in Writers : At(v, "removing") /\ At(w, "removing") => v = w
=============================================================================
