----------------------------- MODULE McpSession -----------------------------
(***************************************************************************)
(* The stdio MCP session over the tool pool (src/mcp-server.mjs,           *)
(* createMcpSession and finishAtEof): JSON-RPC ids, the in-flight table,   *)
(* cancellation, the client grant checked at three points of a call, what  *)
(* is written when a job settles, and the drain at end of input.           *)
(*                                                                         *)
(* The pool is PoolContract, which ToolPool implements.  A settled promise *)
(* runs its continuation in a later microtask, so Deliver is a step of its *)
(* own and further lines may be accepted before it.                        *)
(*                                                                         *)
(* A request that is refused at once (malformed, not initialized, an id in *)
(* use, no grant, too many calls in flight) is answered in the same turn   *)
(* and changes nothing: only its guard appears, in Call.                   *)
(***************************************************************************)
EXTENDS Integers, FiniteSets

CONSTANTS
    Size,           \* worker threads
    MaxJobs,        \* bound: how many calls reach the pool
    Ids,            \* JSON-RPC ids the host uses
    MaxPending      \* maxPending, the most calls in flight; positive

VARIABLES
    phase, write, dropped, outcome, open,   \* the pool, see PoolContract
    id,             \* per job: the id of its request
    inFlight,       \* per id: the job that has not been answered, if any
    cancelled,      \* jobs the host cancelled while in flight
    value,          \* per job: what its worker posted back
    reply,          \* per job: what was written for it
    ledger,         \* jobs whose packet the ledger records as served
    granted,        \* attestClient succeeds (always, in project mode)
    input           \* "lines", then "draining" at EOF, then "expired" or "drained"

pool == <<phase, write, dropped, outcome, open>>
session == <<id, inFlight, cancelled, value, reply, ledger>>
vars == <<pool, session, granted, input>>

P == INSTANCE PoolContract

Jobs == 1 .. MaxJobs
None == 0
Pending == {i \in Ids : inFlight[i] # None}
Calls == {j \in Jobs : phase[j] # "new"}

Init ==
    /\ P!Init
    /\ id = [j \in Jobs |-> None]
    /\ inFlight = [i \in Ids |-> None]
    /\ cancelled = {}
    /\ value = [j \in Jobs |-> "none"]
    /\ reply = [j \in Jobs |-> "none"]
    /\ ledger = {}
    /\ granted = TRUE
    /\ input = "lines"

-----------------------------------------------------------------------------

(* accept and dispatch: a tools/call that is not refused goes to the pool. *)
Call(j, i, w) ==
    /\ input = "lines"
    /\ inFlight[i] = None
    /\ granted
    /\ Cardinality(Pending) < MaxPending
    /\ P!Submit(j, w)
    /\ id' = [id EXCEPT ![j] = i]
    /\ inFlight' = [inFlight EXCEPT ![i] = j]
    /\ UNCHANGED <<cancelled, value, reply, ledger, granted, input>>

(* notifications/cancelled for a call in flight.  Cancelling a call that   *)
(* has settled but is not delivered yet finds its job done: nothing.       *)
CancelCall(i) ==
    /\ input = "lines"
    /\ inFlight[i] # None
    /\ LET j == inFlight[i]
       IN /\ \/ P!Withdraw(j)
             \/ P!Drop(j)
             \/ ~write[j] /\ P!End(j, "cancelled")
          /\ cancelled' = cancelled \cup {j}
    /\ UNCHANGED <<id, inFlight, value, reply, ledger, granted, input>>

-----------------------------------------------------------------------------
(* executeToolJob, on the worker: the grant is checked again, and the call *)
(* may fail for reasons of its own.  The check and the reply are one step: *)
(* nothing reads the answer in between, and an answer whose grant went     *)
(* away on the way is one whose grant goes away before Deliver.            *)
Answer(j) ==
    /\ \E v \in {"failed"} \cup (IF granted THEN {"packet"} ELSE {}) :
          value' = [value EXCEPT ![j] = v]
    /\ \E o \in {"ok", "dropped"} : P!End(j, o)
    /\ UNCHANGED <<id, inFlight, cancelled, reply, ledger, granted, input>>

(* The other steps of the pool: a timer, a crash, the queue. *)
PoolStep ==
    /\ \/ \E j \in Jobs :
           \/ P!Expire(j)
           \/ ~write[j] /\ P!End(j, "timeout")
           \/ P!End(j, "crashed")
       \/ P!StartLater
    /\ UNCHANGED <<session, granted, input>>

(* The owner revokes the client, or breaks or repairs its lens. *)
OwnerEdits ==
    /\ granted' = ~granted
    /\ UNCHANGED <<pool, session, input>>

-----------------------------------------------------------------------------
Written_NotAttested(j) ==
    CASE outcome[j] \in {"cancelled", "dropped"} -> "silence"
      [] outcome[j] = "timeout" -> "timeout"
      [] outcome[j] = "ok" /\ value[j] = "packet" -> "packet"
      [] OTHER -> "error"

(* What is written for a settled job, given whether the grant still holds. *)
Written(j) ==
    CASE outcome[j] \in {"cancelled", "dropped"} -> "silence"
      [] outcome[j] = "timeout" -> "timeout"
      [] outcome[j] = "ok" /\ value[j] = "packet" /\ granted -> "packet"
      [] OTHER -> "error"

Settled(j) == outcome[j] # "unsettled" /\ reply[j] = "none"

(* Cancelled calls return before they leave the table. *)
Deliver_LeaksSilent(j) ==
    /\ Settled(j)
    /\ reply' = [reply EXCEPT ![j] = Written(j)]
    /\ inFlight' = IF Written(j) = "silence" THEN inFlight ELSE [inFlight EXCEPT ![id[j]] = None]
    /\ UNCHANGED <<ledger, pool, id, cancelled, value, granted, input>>

(* The continuation of a call: it leaves the table under its id, and is    *)
(* answered.  A served context packet is recorded in the ledger, unless    *)
(* recording fails (or the tool serves no context).                        *)
Deliver(j) ==
    /\ Settled(j)
    /\ reply' = [reply EXCEPT ![j] = Written(j)]
    /\ inFlight' = [inFlight EXCEPT ![id[j]] = None]
    /\ ledger' \in {ledger} \cup (IF Written(j) = "packet" THEN {ledger \cup {j}} ELSE {})
    /\ UNCHANGED <<pool, id, cancelled, value, granted, input>>

-----------------------------------------------------------------------------
(* The host closes stdin. *)
EndOfInput ==
    /\ input = "lines"
    /\ input' = "draining"
    /\ UNCHANGED <<pool, session, granted>>

Drain_Impatient ==
    /\ input = "draining"
    /\ input' = "drained"
    /\ P!Close
    /\ UNCHANGED <<session, granted>>

(* finishAtEof: the pool closes when every call has left the table ... *)
Drain ==
    /\ input = "draining"
    /\ Pending = {}
    /\ input' = "drained"
    /\ P!Close
    /\ UNCHANGED <<session, granted>>

(* ... or when the limit has passed. *)
Expire ==
    /\ input = "draining"
    /\ Pending # {}
    /\ input' = "expired"
    /\ P!Close
    /\ UNCHANGED <<session, granted>>

Next ==
    \/ \E j \in Jobs :
        \/ \E i \in Ids, w \in BOOLEAN : Call(j, i, w)
        \/ Answer(j)
        \/ Deliver(j)
    \/ \E i \in Ids : CancelCall(i)
    \/ PoolStep
    \/ OwnerEdits
    \/ EndOfInput
    \/ Drain
    \/ Expire

Spec == Init /\ [][Next]_vars

(***************************************************************************)
(* Fairness.  The pool settles every job it was given: that is what        *)
(* EverySubmittedSettles shows of ToolPool.  Microtasks run.  The race in  *)
(* finishAtEof is not helped by its timer: Expire is never forced.         *)
(***************************************************************************)
Fairness ==
    /\ \A j \in Jobs : []<>(phase[j] = "new" \/ outcome[j] # "unsettled")
    /\ \A j \in Jobs : WF_vars(Deliver(j))
    /\ WF_vars(Drain)

FairSpec == Spec /\ Fairness

-----------------------------------------------------------------------------
(* Properties *)

(* Every call that has not been answered is in the table under its own id  *)
(* and nothing else is: a response can be matched to one request, a        *)
(* cancellation reaches the call it names.                                 *)
TableIsExact ==
    /\ \A j \in Calls : reply[j] = "none" => inFlight[id[j]] = j
    /\ \A i \in Pending : inFlight[i] \in Calls /\ id[inFlight[i]] = i /\ reply[inFlight[i]] = "none"

(* A call the host cancelled in time never gets a packet, and the ledger   *)
(* does not say that it did.                                               *)
CancelledNeverServed == \A j \in cancelled : reply[j] # "packet" /\ j \notin ledger

(* A call is answered with silence only if the host cancelled it or the    *)
(* server gave up waiting at EOF: a drained server has answered the rest.  *)
SilenceHasReason ==
    /\ \A j \in Calls : reply[j] = "silence" => j \in cancelled \/ input = "expired"
    /\ input = "drained" => \A j \in Calls : reply[j] # "none"

(* A packet read while the grant held is not written after it is gone, and *)
(* not recorded as served.                                                 *)
NoPacketWithoutGrant ==
    [][\A j \in Jobs :
          (reply'[j] = "packet" /\ reply[j] # "packet") \/ j \in ledger' \ ledger => granted]_vars

(* A call is in the table until it is answered, a cancelled one is not     *)
(* served, and no answer without a reason.                                 *)
CallsAreAnswered == TableIsExact /\ CancelledNeverServed /\ SilenceHasReason

(* At end of input every accepted call is settled and the server stops,    *)
(* even if the limit never fires. *)
DrainEnds == input = "draining" ~> input \in {"drained", "expired"}

(* src/mcp-server.mjs says of a settled call: "A cancelled request gets no *)
(* response".  It does when its write was running, and then times out or   *)
(* crashes: the pool settles it with that outcome, not with 'dropped'.     *)
CancelledGetsNoResponse == \A j \in cancelled : reply[j] \in {"none", "silence"}
=============================================================================
