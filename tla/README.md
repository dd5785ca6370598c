# A TLA+ model of Holoself

Holoself keeps a person's context (a tree of Markdown documents, the *self*) and hands reviewed parts of it to
projects and MCP clients through lenses. Several processes work on one self: the owner's command line, the
Workbench server, and one MCP server per client. There is no daemon and no database: what keeps these processes
from spoiling each other's work is a handful of lock files, hash comparisons, rollbacks and one worker pool.
Beside it stands AgentFlow (`lib/`), which installs a delivery framework in a project and leads agents through runs
that are recorded as event logs on a git branch.

This directory models these parts of the program, checks them with TLC and proves the central facts with TLAPS.
Paths below are relative to the repository; line numbers of every definition are in `PROJECT.json` under `map`.

## The system

| Component | State it keeps | Operations | How others reach it |
|---|---|---|---|
| Tool pool (`src/mcp-pool.mjs`) | jobs, queue, slots, workers, affinity pins, timers | submit, cancel, timeout, worker message/error/exit, deferred pump, close | calls from the session, events from threads |
| MCP session (`src/mcp-server.mjs`) | in-flight table by JSON-RPC id, cancelled calls, EOF drain | tools/call, cancellation, delivery of a settled job, finishAtEof | lines from the host, promises of the pool, grants in `clients.json` |
| Registry lock (`src/link/registry.mjs`) | `.holoself/links.json.lock` | withRegistryLock | every command that changes links, clients, lenses or approves proposals |
| Client registry (`src/clients/`) | `clients.json`, lens definitions | add, revoke, remove, removal of a lens | under the registry lock; read by the session |
| Links and bindings (`src/link/`, `src/bindings.mjs`, `src/cli/commands/link/`, `lens.mjs`) | `links.json`, `link.yaml`, `bindings.json` | setup, add, approve, revoke, backfill, repair, remove, prune, bind, unbind | under the registry lock in short sections, with rollbacks around it |
| Policy access (`src/policy/`, `src/annotations.mjs`) | front matter, `_policy.yaml` | who is served a document or a field | retrieval, catalog, adapters |
| Policy migration (`src/migration.mjs`) | documents, plans, receipts | plan, apply, revert | command line |
| Proposal review (`src/cli/commands/proposals.mjs`, `src/proposals/`) | proposals, archives, receipts, documents | approve, reject, defer, supersede, batches | the owner; approvals run under the registry lock |
| Plan application (`src/maintenance.mjs`, `src/cleanup.mjs`, `src/policy/validate-fix.mjs`) | documents, receipts | apply a digest-bound plan | the owner; creates the registry's lock file itself |
| Client inbox (`src/proposals/client-inbox.mjs`) | `client-inbox.lock`, at most 50 pending proposals per client | create | MCP workers of several servers |
| Ledger (`src/ledger.mjs`) | `ledger.ndjson`, rotations, lock | append, rotate | the session, the command line |
| Machine map (`src/link/machine.mjs`) | `selves.json`, `self_id`, lock | register, forget | link commands |
| Workbench (`src/space-actions.mjs`, `src/documents.mjs`, `src/coaching.mjs`) | the files of a project, documents, session files | actions, saves, notes, choices, reviews | the owner's browser, through up to several servers |
| Adoption (`lib/adoption/`) | the installed files, a journal, receipts, a writer lock | plan, apply, recover, roll back | command line |
| Run store (`lib/sources/github-run-store.mjs`, `segmented-run-store.mjs`) | a git branch: one file per run, or segments, tail, snapshot and manifest | append, read, migrate | run service |
| Audit journal (`lib/sources/journaled-run-store.mjs`, `pending-audit-journal.mjs`) | events that are journaled and not yet decided, a safety reserve, two lock files | append, reconcile, replay | run service |
| Run service (`lib/application/run-service.mjs`, `lib/core/run-state.mjs`, `delegation-grant.mjs`) | a run as its events reduce: role, candidate, contract, evidence, grants, operations | record, freeze, pin, advance, return, resolve, issue, revoke, execute, reconcile, resume | agents, one call at a time each |

What is hard about it:

* *Concurrency inside one process.* The pool and the session are single-threaded JavaScript, but thread events,
  timers, promise continuations and lines of input come in any order.
* *Concurrency between processes.* Lock files are created, written, read, judged and removed by path, in separate
  calls; the owner's editor takes no lock at all, and neither do the commands of a migration.
* *Failure in the middle.* Every multi-file operation has an error path that undoes it step by step, and the steps
  of the undoing can fail too. A process can die anywhere; what takes its work up again is different everywhere.
* *Stale knowledge.* Previews, plans, hashes, grants and runs are read before a question to the owner, a worker's
  turn, a lock or a source, and used after it.
* *Answers that do not come.* A branch is moved, or a provider carries an operation out, and the response is lost, or
  the request arrives after its sender has given it up.

What makes each part correct is stated as the properties below; `PROJECT.json` lists under `hazards` the places in
the code where each could break, and which property would tell.

## Modules

| Module | Models | Checked by |
|---|---|---|
| `PoolContract` | what the pool promises: the life of a job and who may run beside whom | `KeepsContract` of `pool_schedule` |
| `ToolPool`, `MCToolPool`, `ToolPoolProofs` | `createToolPool` | `pool_schedule`, `server_live` |
| `McpSession`, `MCMcpSession` | `createMcpSession` and `finishAtEof` over `PoolContract` | `server_live`, `session_cancel` |
| `RegistryLock` | `withRegistryLock`, one file system call per step | `server_live` |
| `MCServer`, `ServerProofs` | the three above, under fairness; proofs about the session and the lock | `server_live` |
| `ClientRegistry` | the owner's changes to clients and lenses, inside an instance of `RegistryLock` | `registries` |
| `LinkTransaction`, `MCLinks` | the commands that link projects and bind lenses | `registries`, `links_revoked` |
| `DocumentAccess` | what a document and a field are served to; the migration of one document | by way of the next |
| `PolicyMigration`, `MCMigration` | `migrate policy`: plan, apply, revert | `registries`, `migration_widens` |
| `MCRegistries`, `RegistriesProofs` | the four above; proofs about the clients, the links and the migration | `registries` |
| `ProposalReview`, `MCProposalReview` | the three ways through a review | `self_files`, `review_terminal` |
| `PlanApply`, `MCPlanApply` | the three appliers of plans and a call under the registry lock beside them | `self_files`, `plans_lock` |
| `LockFile`, `RenamedLockProofs` | the four locks that are broken by a rename, and what is done under them | `self_files` |
| `Workbench` | actions, saves and coaching sessions | `self_files` |
| `MCSelfFiles`, `SelfFilesProofs` | the four above; proofs about the plans, the reviews and the Workbench | `self_files` |
| `Adoption`, `MCAdoption`, `AdoptionLock` | a transaction on a project's files, and its writer lock | `agentflow`, `adoption_drift` |
| `SegmentedStore` | the run stores of both versions on one branch | `agentflow` |
| `AuditJournal` | the write-ahead journal in front of a store | `agentflow` |
| `Delivery`, `MCDelivery` | a run through its roles | `agentflow`, `delivery_drift` |
| `DelegatedRun` | operations delegated under grants | `agentflow` |
| `MCAgentFlow`, `AgentFlowProofs`, `AgentLogProofs` | the six above; proofs about all of them | `agentflow` |
| `Concatenations` | what `FlattenSeq` of the community modules returns, proved; used by `RenamedLockProofs`, `AgentFlowProofs` and `AgentLogProofs` | |

`MCServer`, `MCRegistries`, `MCSelfFiles` and `MCAgentFlow` are sums: a variable `part` is chosen at the start, a
behaviour is of that part, and the variables of the others keep a dummy value. Parts that do not share state are
checked together this way, without the product of their states.

Real compositions are these. `ToolPool` implements `PoolContract` (`KeepsContract`, with the refinement mapping in
`MCToolPool`), so `McpSession` is checked over the contract instead of the pool. `ClientRegistry` is built on
`RegistryLock` by INSTANCE: its operations do their steps between acquisition and release of the real lock. The
lock in `ProposalReview`, `LinkTransaction` and `Workbench` is a plain mutex, which is what `RegistryLock` is under
`prompt` (below); `PlanApply` keeps the lock file, as its question is what two *kinds* of lock content do to each
other. `Adoption` has one command at a time, which is `OneWriter` of `AdoptionLock`. `PolicyMigration` applies the
operators of `DocumentAccess` to its documents.

### ToolPool

A handler of the pool runs to completion, so a handler is one action: `Submit`, `CancelQueued`, `CancelExclusive`,
`CancelRunning`, `Timeout`, `Message`, `WorkerError`, `WorkerExit`, `DeferredPump`, `Close`. The handlers call one
another (`finish` calls `pump`, which calls `start` ...); each function of the source is an operator from a record of
all variables to a record of all variables, and an action is `Become(f(Pool))`. A job is its submission number,
which makes the insertion-ordered `Set` of the queue a set of numbers traversed upwards. `threads` holds the worker
threads whose exit has not been delivered: what they send may arrive after their slot has a new worker.

### McpSession

`Call` is a tools/call that is accepted; refusals change nothing and appear as guards. `Answer` is `executeToolJob`
on the worker. `Deliver` is the continuation of the pool's promise, a microtask of its own: input may be accepted
before it. `OwnerEdits` revokes the client or breaks and repairs its lens at any time. `Drain` and `Expire` are the
two ends of `finishAtEof`. Not modelled: requests that are answered in the same turn (initialize, ping, prompts,
tools/list), the mode without a pool, argument validation.

### RegistryLock

`Open`, `Write`, `Exists`, `Judge`, `Break`, `Release` are single file system calls; the lock file exists empty
before it has content, is read and removed by path, and ages (`Age`). Processes crash (at any of these points), meet
a full disk (`WriteFails`) or contention errors (`Busy`). `Remove` may fail too, and both removals swallow the error
(`:122-124`, `:139-141`): a breaker goes on to its next attempt, the lock still there, and a call that is done leaves
its lock behind (`"left"`), young and of a live process. The four attempts of the code are `Attempts`.

The variable `prompt` is chosen at the start and never changes. If it is true, no process moves inside a window
(between creating the file and writing it, between reading a lock and removing it) while another is in one, and
holders are done within five seconds. The code does nothing to ensure this: `prompt` is there to say precisely what
the lock's promise rests on. Without it two calls run at once: a lock read between `openSync` and
`writeFileSync` does not parse and is judged stale (`src/link/registry.mjs:119`), the verdict is used on whatever
file is there when it is removed (`:123`), and release removes the lock of a successor (`:140`).

### ClientRegistry and LinkTransaction

In `ClientRegistry` each call makes one operation: read, refuse or accept against what was read, compare the hash,
replace the file. It runs with `Prompt = TRUE`.

In `LinkTransaction` a command is a process that reads `link.yaml`, the bindings and the registry entry, asks its
questions, reads again what it may have to put back (`SnapLinking`, `SnapBindings`), and writes the files one by one;
what it uses of each reading is what the code uses. The key of a bind is read under the lock, and a copied project
gets a new key in two writes (`RenewKey`, `RecordKey`). The writes that approve and backfill make of `link.yaml` and
of the entry, one after the other under the lock, are one step. Bindings by path are left out. `Fail` may strike at
each of them, and the `Undo...` actions put back what `mem` has kept. A folder can be a copy of another, with its key.
What a project is *served* is computed as `linkedLensAuthority` does, from its own key, its entry and the binding; the
history variable `given` has the lenses that a command of the owner attested, named or accepted.

### DocumentAccess and PolicyMigration

`DocumentAccess` has no variables. Metadata is a record in which a field may be `Missing`; lists of lenses are sets.
`Allowed` is `allowedDocument` phase by phase, `Effective` the merge with the defaults of the directories,
`CatalogExcluded` the strict check that keeps a document out of the catalog, `Served` and `FieldServed` the answer to
a request. `Migrated` is what the migration writes, and `GateRefuses` is `verifyNonAmplification`, which tries the
requests of `GateCells`.

`PolicyMigration` runs `plan`, `apply` and `revert` on several documents. An apply compares every file, then writes
them one at a time (`WriteNext`), each after another comparison; a write that fails (`Fail`) enters the undoing, whose
writes can fail too (`Undo`), and a kill (`Crash`) leaves what was written without a receipt. A plan is known by its
content, as its id is a hash; applying it again replaces its receipt, which then lists only the files of the second
time. The history variable `by` has for each document the plan that was the last to write it, and `unsure` the plans
whose receipt was replaced or whose apply left files behind: of these no receipt can be relied on. The owner saves
documents (`Save`) and edits the policy (`EditPolicy`). Two assumptions are constants, so that the runs and the
theorems can say what rests on them: `Replans`, the owner applies no plan that is older than an edit of the policy,
and `OwnerWaits`, the owner saves no document that a running command has already written. One command runs at a time
(the code takes no lock for this), a comparison and the write it precedes are one step, and so is planning.

### ProposalReview and PlanApply

A reviewer is one invocation, from the command line or the Workbench: `alone` (one proposal of the client inbox),
`batch` (project proposals), `loose` (reject, defer or supersede without the lock). Each write of a file is a step:
documents, archive, receipt, the proposal itself; an error at any of them enters the rollback, and the rollback may
fail. A document is the set of proposals applied to it and a count of the owner's own edits, so a lost edit and a
claim applied to text nobody was shown are visible. The variable `setting`, chosen at the start, says which proposals
a behaviour is of, and whether the owner may save a document at any time or waits while a review holds the lock
(`ownerWaits`): what is saved under a review's hands is overwritten, and no code could notice that.

The appliers of transformations, cleanups and `validate --fix` plans share one shape; `Kind` selects what differs
(a move takes a changed document along or refuses to undo, the others overwrite; a fix passes over an error in its
rollback, the others stop; the lock is removed once or twice). A document is known by who wrote it last. `torn` are
plans cut by a crash or a failed rollback; `robbed` is set when a live process has its lock file removed by another.

### LockFile

`withClientInboxLock`, `withLedgerLock` and `withFileLockSync` (for `selves.json` and for `self_id`): create, write,
judge by age or by a dead process, rename aside, compare, and put back what was renamed by mistake. Only the inbox
has a `.break` guard against two breakers; the history variable `unguarded` tells when that guard is off.
Under the inbox's lock the cap is counted and a proposal created; under the ledger's an entry is appended and the
files rotated one rename at a time, while readers go through them. The run has `prompt`: a file does not grow old
while its creator is at work. Without it, the release of the ledger, which compares nothing, removes its successor's
lock; the inbox and the map compare the content (`src/link/machine.mjs:148`) and then remove by path, in two calls.

### Workbench

A request carries the hash or the revision of what its owner saw. `applySpaceAction` waits in the queue of its
process, makes the plan again, takes the lock if the action changes the configuration, makes it again, writes file by
file and rolls back. `saveDocument` compares (`Compare`), writes (`Save`), validates and puts back: no `await` and so
no other request of this server comes between the first two, but another server may. `crossed` has the saves before
which one did, and `Overtaken` says which acknowledged texts may be gone; a put-back that fails in its turn is not
modelled. `revise` writes a coaching session if the revision is the one it was told. Two processes serve: their queues
exclude nothing between them.

### Adoption and AdoptionLock

`Adoption` is the transaction: staging, moving away, swapping in, the receipt, the lock file, and the journal that is
written before each mutation. A process may end between any two of these, in a recovery and in a rollback too. A
file's content is the transaction that wrote it, so a file taken for another's is visible. `AdoptionLock` is the lock
by `link`, whose recoverers contend for a claim named after what they have read, and for a claim on a dead claim.

### SegmentedStore and AuditJournal

A writer reads the branch, builds a commit on what it has read and asks to move the branch; the request may arrive
late (`flying`), and its answer may be lost. Writers of the first and of the second version, and the migration,
share the branch. `told` has what a writer was told about its event: acknowledged or not committed.

In the journal an event has its entry before the source is asked, and leaves it when the source has it or can never
have it. `wlock` and `rlock` are its two lock files; a process that dies leaves them, a stage, or a safety slot that
is not committed.

### Delivery and DelegatedRun

Both are over one event log with `expectedRevision`: a call reads the run, asks people, providers and sources, and
appends to the revision it has read. Whether the run is still at that revision is all that matters of a revision, so
a call has a flag `fresh`, which any append clears in all other calls; the model needs no counter. The contract's source and the
oracles on disk are no part of the revision and change at any time. `AppendEvent` normalises the run as `reduceRunEvent`
does (a new candidate makes evidence, pins and agreement void).

`Delivery` has five of the nine roles: the first (0, product manager), the implementation planner (3), the developer
(4), the tester (5) and the last (8, pull request), which are those that the rules name; the others pass on like them.
At most one finding is open at a time, a collaboration contract that a role seals carries no pin of its own, and the
tester cannot return. `DelegatedRun` has grants with a parent, operations with one identity each, and a provider that
may carry a call out after its process has ended. The walk of `grantAncestors` is the least set that has the grant and
the parent of each of its members (`Ancestors`).

An attempt over budget pauses the run, records its intent to stop the provider, reads the run again (`ReadAgain`) and then
asks (`AskToStop`). In between another process may reconcile and resume. The request names the generation of the run, and
that the provider refuses one whose generation is over is an assumption of the code (`lib/application/run-service.mjs:379`)
and of the model.

## Runs

All runs use two workers.

| Run | Question | Bounds |
|---|---|---|
| `pool_schedule` | Does the pool keep its bookkeeping, its order, its contract? | 2 slots (the default), 3 jobs, 2 keys, room for 1 pin |
| `server_live` | Sessions: table, cancellation, grants, the drain. Pool: does every job settle? Lock: exclusion, and does every call end? | 2 slots, 2 calls, 2 ids; 3 jobs of one key; 3 calls of the lock, prompt or not |
| `registries` | Do changes to clients and lenses serialise; is only what was given served to a project; does a failed command leave no trace; can a migration be undone, and does it widen nothing? | 2 calls, 2 names, 2 lenses; a project, its copy, 2 lenses, 2 commands, between them of all kinds; 2 documents of 3 kinds, 2 plans, 2 runs, 1 save, 1 edit |
| `self_files` | Do plans, reviews, guarded locks and the Workbench keep what they have promised? | 2 appliers and a call, 3 plans over 2 documents, 1 save; 2 reviewers, 1 edit, 4 proposals of which a behaviour is of 3, in 2 settings; 3 calls of each renamed lock; 12 requests in groups of at most 4 |
| `agentflow` | Does what AgentFlow keeps survive ends, lost answers and late writers? | 3 files and the lock, 2 transactions, 1 edit, 2 ends; 4 processes, chains of 3 claims; a writer of each version, 2 events, segments of 1; 2 processes, 3 events, 1 slot; 2 agents, 5 roles, 2 oracles, 1 turn; 2 grants, 2 operations, 1 takeover |
| `session_cancel`, `review_terminal`, `plans_lock`, `adoption_drift`, `links_revoked`, `delivery_drift`, `migration_widens` | findings 1 to 7 | as in the run of the same part, or smaller |

Why these bounds are enough for the interesting cases: three jobs are a read that runs, a write behind it and a read
behind the write, with two keys that compete for one remembered pin; two calls and two ids let an id be used again
while the other call is in flight; three calls of a lock are a holder, one that judges its file, and one that creates
a new file before the judge removes it, and four processes at the adoption lock are a dead writer, a dead recoverer
and two that contend for its claim; two reviewers and three proposals give both a batch of two and a race with an
inbox approval over a shared document; two appliers may have the same plan (replay), or plans that share both
documents in the opposite order, and one call suffices to break a lock. A project and its copy are all that the
ranking of the holders of a key tells apart. Two events over segments of one fill and seal a segment and start the
next. Two documents make a roll back and a partial revert possible, two commands that write are an apply and a revert
or an apply made again, and two plans are one before and one after an edit. Of the lenses of a self, "interview" is
missing from the registry: that is where the mapping of field rules and the gate differ.

The constants `Max...`, `Depth`, `Slots`, `Cap`, `Keep`, `Room`, `Roles`, `Groups` and `Settings` are the only bounds;
each is named where it is declared. Symmetry is used for processes (appliers, reviewers, calls, agents' processes) and
client names, never in a run with a liveness property.

Deadlock checking is off in all of them because each process, call, command or review is made once, or the bounds are
reached, and the system then stops; that nothing waits forever is stated as liveness where the code promises it
(`EverySubmittedSettles`, `DrainEnds`, `EveryCallEnds`).

### Fairness

* `ToolPool`: armed timers fire, due `setImmediate` callbacks run, and a running write ends by itself. The last is
  what the header of `src/mcp-pool.mjs` assumes: nothing terminates a write. Read-only jobs may hang. The conjuncts are
  written as `[]<>~condition`, which is weak fairness of the one action that makes the condition false.
* `McpSession`: jobs settle (shown for the pool by `EverySubmittedSettles`), microtasks run, a drain that can end
  does. The time limit of the drain is not forced: `DrainEnds` holds without it.
* `RegistryLock`: a live process goes on with its loop and its release. Crashing is never forced.
* Everything else is checked for safety only. Most of it waits for people or providers, whom nothing forces to answer;
  and some of it does stay stuck, see below.

### Mutants

Operators named `<definition>_<Mistake>` stand before the definition they vary. Nothing uses them; `PROJECT.json`
pairs each with the property that finds it when it replaces the definition. They show that a property can fail.

## Findings

1. `session_cancel`: `src/mcp-server.mjs` says that a cancelled request gets no response. A running write that is
   cancelled and then times out or crashes is settled with that outcome and answered with an error.
2. `review_terminal`: a proposal of the client inbox rejected while its approval waits for the owner's answer or the
   lock is applied and becomes approved; the approval compares documents under the lock, not the status.
3. `plans_lock`: the appliers write a bare process id into the registry's lock file. `withRegistryLock` finds no time in
   it, takes it for decades old and removes it at once, so an approval or a client change runs beside a live
   application. The specification of the lock promises five seconds or a dead process.
4. `adoption_drift`: a rollback compares the files with the receipt only when it begins. Resumed after an
   interruption it does not, and if a write then fails its error path replaces every file, edited ones too.
5. `links_revoked`: a failed `link setup` or `link add` puts back the registry entry it read before its questions: an
   entry that was revoked meanwhile is active again.
6. `delivery_drift`: once a drift of a contract's source is resolved, the submitted criteria are compared with
   nothing, and others than those that were reviewed pass.
7. `migration_widens`: a migration plan is verified under the defaults of its day and pins them. When the owner
   tightens a default before the plan is applied, the documents have not changed, and the apply serves what the new
   default keeps back.

The quotations are in `PROJECT.json`. What the models also show, but no document contradicts:

* With three workers or more a job can wait beside a free worker until some other job ends. It waits for the busy
  worker that its key is pinned to; the start of another job pins a new key, which evicts that pin when the pins are at
  their limit (`src/mcp-pool.mjs:91`); now any free worker could take the job, but nothing pumps. It takes more
  keys than pins (256), and a pool larger than the default of two: `HOLOSELF_MCP_CONCURRENCY` allows up to eight
  (`src/mcp-server.mjs:650`). The attempt to prove `NoLostWakeup` found this, and TLC shows it with three slots, three
  jobs and room for one pin. The job does not wait for ever, as the next job that ends pumps.
* Of two rejections of one proposal at once, the one that fails removes by path the archive and the receipt of the one
  that succeeds (`src/proposals/store.mjs:549`).
* `lens bind` takes its snapshot before it waits for the lock and puts it back outside of it
  (`src/cli/commands/lens.mjs:66`), which undoes the binding of another command; `FailedLeavesNothing` is therefore of
  commands that nobody wrote beside.
* Some states have no way out: the lock of a coaching session whose process died (`src/coaching.mjs:74`); an empty
  ledger key (`src/ledger.mjs:161`, not modelled); an adoption journal with a torn header, which each recovery refuses
  (`lib/adoption/transaction.mjs:148`); a safety event whose append was refused, and a `recovery.lock` that a dying
  process leaves in the audit journal (`lib/sources/pending-audit-journal.mjs:734`).
* In the migration, the mapping of a field rule alone can widen a field, when a seeded lens is no longer in the registry
  and the rule's list and a list of the new form then contain one another; the gate refuses it. The comment at
  `src/migration.mjs:164` that the activation is never wider than the exact mapping does not hold of every document
  either; the gate refuses those.
* A rollback of a migration overwrites what the owner saved into a migrated file meanwhile (`OwnerWaits` excludes it);
  a killed apply leaves migrated files without a receipt, and a plan that is applied again with fewer files replaces
  the receipt of the first time, so that those files cannot be reverted any more: `MigrationIsUndone` speaks of them,
  but says of plans that are `unsure` only what the documents are. A second partial revert says "reverted" though
  files were skipped in the first: `RevertsInFull` is of the documents that stood as applied in the receipt when the
  revert began.
* A call of the registry's lock that is over may have failed to remove the file, and nobody is told
  (`src/link/registry.mjs:139`). As its process lives on, the next call waits for a call that is over, and
  gives up after its attempts though nobody is at work; a breaker whose removal fails (`:122`) uses its attempts up
  without a pause. `SoloNeverTimesOut` is of calls that neither has happened to.
* A document that one Workbench server compares and then writes may have been saved and acknowledged by another in between
  (`src/documents.mjs:202`): that text is overwritten. `AcknowledgedIsKept` excludes what was `Overtaken`.
* `link repair` writes the grant it has computed before the lock over what was granted or revoked meanwhile
  (`src/cli/commands/link/repair.mjs:124`); `ServedWasGiven` does not tell, as what was given once stays given in it.

## What is proved

The theorems hold for every value of the constants that satisfies the modules' assumptions, all of which TLC evaluates
on the runs: `Size` and `AffinityLimit` positive, `Keys` finite, `NoFile` no lock record; a plan of one of the three
kinds, with at least one step, and names of processes, plans and authors apart; the first, the three named and the
last role among the roles; `None`, `New` and `Foreign` none of the values they stand beside; grants and operations
finite, as a log is; `Missing` no value of a field, "private" a lens of the registry, the first client added by none
of the calls, the owner's drafts and defaults metadata; the lenses of a command line lenses that exist, the general
one among them, and no command line of `lens bind` one that accepts the lenses of others; a request of the Workbench
of one of its kinds; a proposal of the inbox or of a project, not of both, that changes some document and competes
with others only, and a request for at least one; the self or packet that is there from the start nobody's of the
processes that add some, and the cap and the number of kept ledger files natural numbers, 0 included; the size of a
segment positive, and `None` and `Marker` no history, manifest or event of a run; a profile that names each file once
and the framework's lock not among them, and `None`, `Edited` and `Torn` no text, lock, plan or journal of an
adoption. What a theorem assumes beside these is its ASSUME, or a premise named below (`Prompt`, `PinsSuffice`,
`Replans`, `OwnerWaits`).

### The pool

`ToolPoolProofs`: `TypeCorrect`, `BookkeepingHolds`, `WritesRunAlone`, for every number of slots, jobs, keys and
every affinity limit. The inductive invariant is `Good(Pool)`: types, the agreement of queue, slots, job states,
timers and outcomes, and that no exclusive job shares the pool. None of these is inductive alone: that a write runs
alone needs that only running jobs have slots (so that "no slot is busy" means "nothing runs"), which needs that a
queued job is not in a slot, which needs the queue to be exactly the waiting jobs. Because handlers are operators on
pool records, there is one lemma per operator (`SpawnKeeps`, `PinKeeps`, `StartGood`, `ReleaseGood`, `RecycleGood` ...)
and one step lemma per action. `pump` and `close` iterate; their recursive functions are shown to exist, and to
keep `Good`, by the least counterexample of a well-founded order (`LeastNatural`, `PassExists`, `SweepExists`).

On top of it:

* `PoolImplementsContract` (`KeepsContract`): every step of the pool is a step of `PoolContract` or a stutter, under the
  refinement mapping of `MCToolPool`. One pump starts several jobs, and the contract says of all of them at once whom
  they may run beside; what the lemma `PumpOnward` says of a pump is that.
* `TerminatedStaysSilent` (`TerminatedNeverAnswers`).
* `NoWakeupIsLost` (`NoLostWakeup`), where `PinsSuffice`: at most two workers, or no more keys than pins.
  The invariant `Steady` has that jobs are submitted in order (`Orderly`) and that what waits while no pump is due has
  something to wait for (`Awake`). Without `PinsSuffice` it is false; see the findings.

### The session

`ServerProofs`, about `McpSession` over `PoolContract` as `MCServer` instantiates it (`Session`): `EveryCallAccounted`
(`CallsAreAnswered`) and `GrantsAreHonoured` (`NoPacketWithoutGrant`), for any number of calls, ids and workers. The
invariant adds to the table what a job's phase says of its outcome and its outcome of its reply (`Unsettled`), that a
cancelled job is never settled as "ok" (`Withheld`), and that the pool gives up only what the host or the drain has
(`GivenUp`). `TableIsExact` was not inductive as first stated: nothing said that the call which the table has under
an id bears that id; it does now.

### The registry lock

`ServerProofs`: `TypeCorrect`, `OwnedOrAbsent` and `SoloCallsSucceed` (`SoloNeverTimesOut`) from the invariant `Inv`
(a call that is trying has an attempt left) and, for the last, `SoloInv` (the lock before a call that met nobody is
one that its verdict calls stale, if every release has removed its file), for every interleaving and with removals
that fail; `PromptExcludes`, that under `prompt` at most one call holds, from `PromptInv`: only one process is in a
window, a creator and a holder own the file they made, it is young, and the verdict of a process about to break the
lock is still true. Without the last conjunct nothing rules out the removal of a fresh lock.

### Clients

`RegistriesProofs`: `ReportsHold` (`ReportsStand`) and `RevokedForGood` (`RevocationIsFinal`), for any number of calls, names
and lenses and any crashes, assuming `Prompt`, which the exclusion of the lock rests on. The invariant `ClientInv` has the
lock's part (`LockInv`, the argument of `PromptExcludes` for this instance of the lock) and the calls': what the holder
has read is what is there, and what it was accepted for would still be accepted (`ViewIsCurrent`); an id that a client
has had is spent, so that no later add brings back one that was reported revoked or removed (`IdsAreSpent`).

### Links

`RegistriesProofs`, over `LinkTransaction` as `MCRegistries` instantiates it, for any number of commands, each with any
command lines, over any lenses:

* `ServedOnlyGiven` (`ServedWasGiven`). The invariant `LinkInv` has that the grant of an entry was given (`GrantsGiven`), and
  so was that of every entry that a command remembers and may put back (`Remembers`); what is served is a part of the
  entry's grant. That a
  key serves one project needs no invariant: resolution refuses a key that two active projects hold.
* `FailuresLeaveNothing` (`FailedLeavesNothing`), from a way back per command (`WayBack`): at every place of its roll back,
  what it has not yet put back is what it wrote, as long as nobody wrote beside it, and what it has put back, or never
  wrote, is what it found. `Route` says which places a command can be at, and `Remembers` what it has in memory there.
  Neither theorem needs the lock.

### Plans

`SelfFilesProofs`: `AppliedWhole` (`PlansAreWhole`) and `NothingOverwritten` (`PlansKeepOthers`), for any plans of any
length over any documents and any number of processes. As the lock can be taken from a live applier (finding 3),
the invariant has two parts. `Receipts` never needs the lock: a plan that was reported as applied has its receipt
for good. `Undisturbed` holds until a lock is taken from its holder: one process is between creating the lock and
removing it, what it remembers of a file is what was there (`Recorded`), the steps up to its place are written and
those after it are not (`Written`, `Spared`), and every document is accounted for by a plan that is whole, under way
or cut (`Accounted`).

### Workbench

`SelfFilesProofs`, over `Workbench` as `MCSelfFiles` instantiates it, for any requests of any number of processes that
crash anywhere: `AcknowledgedStays` (`AcknowledgedIsKept`) and `ReviewedOnlyReplaced` (`ReviewedIsReplaced`). In the
invariant `BenchInv` the files that an action has still to write are as their owner reviewed them, unless another process
has written the host's (`ToBeWritten`): the registry's lock keeps the others from the configuring action's files
(`Locked`), and an activation writes the host's file alone. A text holds an action at most once, and only once that
action has written it (`WellWritten`), so an action that finds its own file unchanged has not been put back by
somebody else. A text that was saved is in the document until an undo or a save of another process runs over it
(`SavedText`): within one process nothing comes between the comparison and the write, so a save that replaces the document
has seen what is there. `PutBackAgain` says of a failed action which files are as it found them; the snapshot it restores from
is itself such a text. A session is the holder's of its lock (`SessionOf`), which is why an action is chosen and
reviewed once (`AnsweredOnce`): the file is judged and replaced under the same lock, and the lock of a process that died
stays for good.

### Reviews

`SelfFilesProofs`, over `ProposalReview` as `MCSelfFiles` instantiates it, for any reviewers, proposals, documents, rivals
and requests: `DecisionsAreApplied` (`DecidedAsApplied`), `BatchesStayWhole` (`BatchesAreWhole`) and `WrittenAsShown`
(`WritesWhatWasShown`). None of the three is inductive: each says something of reviews that are over, and nothing of
the documents in the middle of one. The invariant `ReviewInv` says of each reviewer (`ReviewPart`)

* where its way through the code can lead, and that a reviewer who decides under the lock has it (`WayOf`); so one such
  reviewer works at a time (`OneWorks`), and only it changes documents and approvals;
* what the documents are, told from what it was shown: those of the items it has written have exactly these items more,
  those still to be written are as shown, and the bytes it would put back are those shown (`ShownOf`, `DocumentsOf`);
* which receipts it has written, item by item (`ReceiptsOf`), and what stands of the records of its items (`ItemsOf`): their
  receipts are its own, and its snapshot, with which a rollback is reconciled, has none of them.

`Effect` is what no step of a reviewer does to the others, whatever step it is; `OthersKept` rests on it, so that each
action has to be argued for its own reviewer alone (`ReviewStepOf`). That a batch decides once is the check under the lock:
what has a receipt is not pending unless a review works on it, and none does when the lock is free (`CheckStep`,
`ReceiptsStand`). Rejections and supersessions without the lock are any number beside this; they write no approval.
`WrittenAsShown` assumes, as the run does, that the owner's editor waits while a review holds the lock.

### Locks that are broken by a rename

`RenamedLockProofs`, over `LockFile` as `MCSelfFiles` instantiates it, for any number of processes that crash anywhere:
`NothingIsLost` (`NoLostUpdate`) and `RotationKeepsNewest` (`NewestKept`). The invariant `RenamedInv` holds in three layers:

* The types, always.
* As long as no lock was taken from who has it (`~mistaken`): who is at work has its own file at the path, and the
  creator of a file that was judged has ended (`Excluding`). So the creator writes nothing more into it, and a breaker
  that finds it again at the path or aside finds it as it judged it (`SameFile`); that is why nothing is ever put back
  over another's lock. Under the lock, what was counted or read is still what is there, and a rotation has emptied the
  place it moves the next file to (`WorkStands`).
* For the inbox, as long as nobody left its `.break` file or an empty lock file: the `.break` file is the breaker's own and
  not old, every file has content unless its creator is just about to write it, and what is about to be renamed is what
  was judged (`GuardHolds`). With it the second layer needs no assumption.

`NewestKept` compares what readers get before and after each step of a rotation, a concatenation of all files
(`FlattenSeq`). What a rotation does to it is in `Concatenations` (`FlattenWithoutFirst`, `FlattenMoved`,
`FlattenGrown`). As `FlattenSeq` is defined by recursion, its properties are shown there by the least index at which
they fail; `Cat`, `Lists` and `Parts` are names for concatenation and sequences that keep the provers from unfolding
them.

### Migration

`RegistriesProofs`, in its last part, begins with a document: `MeetIsExact`, the fields that a migration writes answer
every request as the well-formed metadata did from which they were computed, for any lenses and whatever the registry
knows; `MigrationNeverWidens`, a document that the catalog has is served after its migration only to requests to which
it was served before, under the same defaults. The gate is not needed for this. The argument compares the migrated
metadata field by field with the effective metadata (`Tightens`), as the defaults are then merged once more. Then, for
any number of documents, plans, commands and saves:

* `MigrationTypes`, the types.
* `FreshPlansNeverWiden` (`NeverWidens`, assuming `Replans`), from `FreshPlans`: a plan that is still fresh says of each
  document it writes what the gate let through under the policy *as it is now*, and a running command's plan is fresh.
  For the document this rests on `MigrationNeverWidens`, for its fields on the gate.
* `RevertIsComplete` and `MigrationUndone` (assuming `OwnerWaits`), from three conjuncts: `OwnKnown`, what the owner
  had is the document, or the plan's `before` where the command has written; `ReceiptsKnown`, a document that a
  migration was the last to write is as its plan has it, and its receipt lists it unless the plan is `unsure`;
  `RevertKnown`, what a revert has in memory of each file it has come to. None is inductive without the first: a
  receipt is written from memory, and only `OwnKnown` says that memory and files agree.

### AgentFlow

`AgentFlowProofs`, the run and the transaction of an adoption:

* `RunInvHolds`, `CompletedHasPassed` (`CompletedHasRun`), `DeliveredAsDecided` (`DeliversAsDecided`), for any number
  of agents, candidates, versions, oracles, turns and rounds. The invariant says of a call that what it has found out
  stands as long as it is fresh (`CallsStand`), that a request to stop a provider is of a paused run or of a
  generation that is over, and of the run that the evidence under a contract is of this role and round and that what
  is kept from run time is of this candidate, oracle and writer (`Sound`, `Tied`).
* `LockTellsTheTruthHolds` (`LockTellsTheTruth`) and `RecoveryKeepsEditsHolds` (`RecoveryKeepsEdits`), for profiles of any
  length and any number of transactions, edits and ends. What the lock says of a file is compared with the file only when
  nothing is under way, so the invariant `AdoptInv` says what holds meanwhile, in four parts:
  - A plan writes each file that it claims and, as it was made while the lock told the truth, leaves out only
    files of which that lock claimed nothing (`Planned`).
  - A journal without a receipt describes a state in which the lock told the truth, whatever has been swapped since: each
    file it names read as before the mutation (`WasTrue`), and each such file is as before, as after, away, or
    edited (`AllAccounted`). With a receipt, the files are as after (`Journals`); and a receipt was true both before
    and after (`ReceiptFits`), so a rollback ends in a true state whichever way it ends.
  - An apply has recorded, swapped and backed up exactly the files up to the one it is at (`Recorded`, `Swapped`,
    `BackedUp`), step by step (`Preparing`, `Staging`, `Swapping`, `Receipting`, `Undoing`).
  - A recovery has restored what is not ahead of it, and what it moved aside is as the journal accounts for
    (`InRestore`). A mutation of a file that was edited when it began has that edit as its `before`.

  The owner edits at any moment, but only files that are there. All of this is therefore said up to the files in `drifted`,
  and `Edits` shows once that each of these facts outlasts one more edit. That a recovery of a
  project nobody edited is never refused is `AllAccounted` with nothing drifted.

`AgentLogProofs`, the four parts that processes share:

* `AuditInvHolds` and `DecisionsAreFinal` (`DecisionsStand`), for any number of processes and events. The invariant: a
  request leaves only for an event that the journal has or that the source is past (`Requests`); an event that was
  not put is nowhere in the journal (`Fresh`); a stage that was not promoted follows the snapshot it would
  replace (`StageFollows`). That nothing is appended twice rests on `SourceGrows`: once the source has moved past the
  event that another was derived to follow, it never takes the other.
* `DelegationInvHolds` and `OperationsCarriedOutOnce` (`CarriedOutOnce`), for any number of processes, grants, operations,
  takeovers and lost acknowledgments. What a process is at is split into what lasts whoever appends (`Lasting`) and what
  is so while nobody has (`Reads`); one process, once, is on the call of an operation (`OneCaller`), which is not
  carried out before that process waits for it (`NotSent`); what lost its grant before it was submitted can be submitted
  by nobody (`Halted`). The budgets are a counting argument: a grant has used what was admitted under it and reserved one
  ticket for each attempt of its children (`Accounts`), what is admitted below a child injects into the child's tickets
  (`FitsIfChildrenFit`), and of the grants over budget the deepest would have a deeper one (`BudgetsAreKept`).
* `StoreInvHolds`, `StoreAnswersStand` (`AnswersStand`) and `StoreHistoryGrows` (`HistoryOnlyGrows`), for any number
  of writers of either version and of events, and segments of any size. The invariant: the tree on the branch can be
  read and has no event twice (`Whole`, `EachOnce`); a commit that is built or on its way follows what is on the
  branch (`Continues`) as long as the branch is where it was built (`Built`, `Flown`); one writer works on an event
  until it is told of it or lets go of it (`OneAuthor`). The last is what an answer needs: a writer whose request was
  refused has no other request under way that could still arrive, as all of them were built before the one that was
  refused. What the branch reads is a concatenation of segments; that a seal, an append and the chunks of a migration
  leave it as it was is `FlattenAppended` and `FlattenCut` in `Concatenations`.
* `OneWriterHolds` (`OneWriter`), for any number of processes and chains of claims of any depth. Two chains of claims
  that begin with the same lock go the same way, and neither goes past the other's end (`OneChain`); so two processes
  that are both about to remove a dead writer's lock are one.

### What is only model-checked

* All liveness (`EverySubmittedSettles`, `DrainEnds`, `EveryCallEnds`): it rests on fairness and ENABLED, which are out of
  the prover's reach.
* What the findings are about: each is a run that refutes its property, and there is nothing to prove of it.

Every invariant and every action property of a passing run is stated by a theorem.

## Not modelled

Text: Markdown, YAML, claim markers, redaction, ranking, rendering, command line parsing. The operating
system's rename and exclusive create are taken to be atomic. Symbolic links and path checks are left out, as are file
modes. Data root migration, the catalog, retrieval and paging, adapters and their managed blocks, connectors and
harnesses, onboarding, world building, doctors, providers and observability are left out with the reason given per component in
`PROJECT.json`. Of the components that are modelled in part, the notes there say which operations are missing.

## What could come next

1. Seat leases and claims (`lib/core/seat-lease.mjs`): a lease that expires while its holder works.
2. The trace spool (`lib/observability/`) with its writer lock, and publication.
3. Harness processes (`lib/qa/process-supervisor.mjs`): a launch that is stopped before it has begun.
4. Retrieval: cursors over a manifest that changes; the freshness test of a catalog partition.
