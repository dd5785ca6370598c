---------------------------- MODULE LinkTransaction ----------------------------
(***************************************************************************)
(* Linking projects to a self.  Three files say what a project is served:  *)
(* its own link.yaml (a key and a salt), the self's lenses/bindings.json   *)
(* (lenses per project key, shared between machines) and the self's        *)
(* .holoself/links.json (one attested entry per project).  The commands    *)
(* `link setup|add|approve|backfill|repair|remove|prune' and `lens         *)
(* bind|unbind' each change several of them; the lock of the registry is   *)
(* held around the entry only, and a command that fails puts the files     *)
(* back as it had read them.                                               *)
(* Every project here is linked by key; links and bindings by path are     *)
(* left out.  The lock is the mutex that RegistryLock shows it to be.      *)
(***************************************************************************)
EXTENDS Naturals

CONSTANTS
    Cmds,       \* processes, one command each
    Lines,      \* the command lines that each of them may be given
    Home,       \* the project that the self knows from before
    Copy,       \* a copy of its folder, or a folder without a link
    Lenses,
    General,    \* the lens that is chosen when none is named
    None

VARIABLES
    cmd,        \* the command line of each process; never changes
    at,         \* where each process is
    mem,        \* what each process has read or decided
    lock,       \* the holder of the registry's lock
    link,       \* link.yaml of each project
    binding,    \* bindings.json: the lenses of each key
    entry,      \* links.json: the attested entry of each project
    touched,    \* history: someone else has written since the snapshot
    given       \* history: the lenses that commands have attested, named or accepted for a project

vars == <<cmd, at, mem, lock, link, binding, entry, touched, given>>
files == <<link, binding, entry, given, touched>>

Projects == {Home, Copy}
Keys == {Home} \cup Cmds           \* a new key, or a new salt, is named for its maker
Links == [key : Keys, salt : Keys]
Choices == [main : Lenses, more : SUBSET Lenses]
Entries == [active : BOOLEAN, key : Keys \cup {None}, salt : Keys, grant : SUBSET Lenses, since : {0, 1}]
Linking == {"setup", "add", "repair"}
Ops == Linking \cup {"approve", "revoke", "backfill", "remove", "prune", "bind", "unbind"}
Trying == {"picking", "storing", "writing", "waiting", "inside", "activating"}
Undoing == {"unbinding", "unlinking", "relocking", "reverting"}
Ended == {"done", "failed", "gaveup", "dead"}

(* The state of a machine: nothing, a link from another machine that this  *)
(* one has not attested, or an attested link, perhaps revoked, perhaps of  *)
(* the time before keys were recorded.                                     *)
Attested ==
    {e \in [active : BOOLEAN, key : {Home, None}, salt : {Home}, grant : {{General}, Lenses}, since : {0}] :
        e.active \/ e.key = Home}

Init ==
    /\ cmd \in {c \in [Cmds -> UNION {Lines[p] : p \in Cmds}] : \A p \in Cmds : c[p] \in Lines[p]}
    /\ at = [p \in Cmds |-> "start"]
    /\ mem = [p \in Cmds |-> None]
    /\ lock = None
    /\ \/ /\ link = [q \in Projects |-> None]
          /\ entry = [q \in Projects |-> None]
          /\ binding = [k \in Keys |-> None]
       \/ /\ link = [q \in Projects |-> [key |-> Home, salt |-> Home]]
          /\ \E e \in Attested \cup {None} : entry = [q \in Projects |-> IF q = Home THEN e ELSE None]
          /\ binding = [k \in Keys |-> IF k = Home THEN [main |-> General, more |-> Lenses \ {General}] ELSE None]
    /\ touched = [p \in Cmds |-> TRUE]
    /\ given = [q \in Projects |-> IF entry[q] = None THEN {} ELSE entry[q].grant]

-----------------------------------------------------------------------------
(* The rules on keys and grants. *)
Wanted(c) == {c.main} \cup c.more
Named(c) == ({c.main} \ {None}) \cup (IF c.more = None THEN {} ELSE c.more)
Project(p) == cmd[p].project

(* activeProjectKeyHolders: recorded keys count before those that only a   *)
(* link.yaml shows.                                                        *)
Carriers(k) == {q \in Projects : entry[q] # None /\ entry[q].active /\ link[q] # None /\ link[q].key = k}
Holders(k) ==
    LET recorded == {q \in Carriers(k) : entry[q].key = k}
    IN IF recorded # {} THEN recorded ELSE Carriers(k)

(* projectKeyHolders, for a project that may itself hold the key: only     *)
(* stronger claims count then.                                             *)
Stronger(q, r, k) ==
    LET new == [x \in {q, r} |-> entry[x].key # k]
    IN \/ ~new[q] /\ new[r]
       \/ new[q] = new[r] /\ entry[q].since < entry[r].since
       \/ new[q] = new[r] /\ entry[q].since = entry[r].since /\ q = Home
Taken(k, q) == \E r \in Carriers(k) \ {q} : q \in Carriers(k) => Stronger(r, q, k)

Resolved(q) ==
    IF link[q] = None \/ (Holders(link[q].key) \notin {{}, {q}}) THEN None ELSE binding[link[q].key]

(* nextAllowedLenses: what is granted beyond the old grant is named, or    *)
(* accepted by its own flag.                                               *)
NextGrant_TakesAll(e, wanted, named, explicit, accept) == wanted

NextGrant(e, wanted, named, explicit, accept) ==
    IF e = None \/ explicit \/ accept THEN wanted ELSE wanted \cap (e.grant \cup named)

(* linkedLensAuthority: what a project is served. *)
Served(q) ==
    LET e == entry[q] b == Resolved(q)
    IN IF b # None /\ e # None /\ e.active /\ e.salt = link[q].salt /\ e.key \in {None, link[q].key}
       THEN Wanted(b) \cap e.grant
       ELSE {}

-----------------------------------------------------------------------------
Go(p, to) == at' = [at EXCEPT ![p] = to]
Mem(p, m) == mem' = [mem EXCEPT ![p] = m]
Wrote(p) == touched' = [r \in Cmds |-> touched[r] \/ r # p]
Keep == UNCHANGED <<cmd, link, binding, entry, touched, given>>

(* What a command can put back: read after its questions, before any lock. *)
Snapshot(q) == [link |-> link[q], binding |-> binding, entry |-> entry[q]]

ChoiceOf(c, inherited) ==
    [main |-> IF c.main # None THEN c.main ELSE IF inherited # None THEN inherited.main ELSE General,
     more |-> IF c.more # None THEN c.more
              ELSE IF c.main = None /\ inherited # None THEN inherited.more ELSE {}]

(* setup joins a link that another machine wrote, unless its key is taken  *)
(* here; add does not.  What it will bind is chosen before the questions.  *)
BeginLinking(p) ==
    LET c == cmd[p]
        q == c.project
        joined == c.op = "setup" /\ link[q] # None /\ ~Taken(link[q].key, q)
    IN /\ at[p] = "start"
       /\ c.op \in {"setup", "add"}
       /\ Mem(p, [was |-> Snapshot(q), choice |-> ChoiceOf(c, IF joined THEN Resolved(q) ELSE None),
                  salt |-> IF joined THEN link[q].salt ELSE p, key |-> None, copy |-> None, grant |-> None])
       /\ Go(p, "asked")
       /\ UNCHANGED lock
       /\ Keep

(* repair: a link, a binding or --lens, and a key of its own; grant is     *)
(* computed here from the entry it sees.                                   *)
BeginRepair(p) ==
    LET c == cmd[p]
        q == c.project
        e == entry[q]
        current == Resolved(q)
        choice == IF c.main # None THEN [main |-> c.main, more |-> IF c.more = None THEN {} ELSE c.more] ELSE current
        grant == IF e = None \/ ~e.active THEN None
                 ELSE NextGrant(e, Wanted(choice), IF c.main = None THEN {} ELSE Named(c),
                                c.main # None /\ c.more # None, c.accept)
    IN /\ at[p] = "start"
       /\ c.op = "repair"
       /\ link[q] # None /\ ~Taken(link[q].key, q) /\ choice # None
       /\ Mem(p, [was |-> Snapshot(q), choice |-> choice, salt |-> link[q].salt, copy |-> None, grant |-> grant,
                  key |-> IF c.main = None THEN link[q].key ELSE None])
       /\ Go(p, IF c.main # None \/ (grant # None /\ grant # e.grant) THEN "asked" ELSE "done")
       /\ UNCHANGED lock
       /\ Keep

(* After the questions; the salt of setup and add is the one attested now. *)
SnapLinking(p) ==
    LET q == Project(p)
        attested == cmd[p].op # "repair" /\ entry[q] # None
    IN /\ at[p] = "asked"
       /\ cmd[p].op \in Linking
       /\ cmd[p].op = "repair" => link[q] # None
       /\ Mem(p, [mem[p] EXCEPT !.was = Snapshot(q), !.salt = IF attested THEN entry[q].salt ELSE @])
       /\ touched' = [touched EXCEPT ![p] = FALSE]
       /\ Go(p, IF cmd[p].op = "repair" THEN "waiting" ELSE "picking")
       /\ UNCHANGED <<cmd, lock, link, binding, entry, given>>

(* A copy gets a key of its own first, under the lock: its link, and then  *)
(* its entry, which is not put right if that fails.                        *)
RenewKey(p) ==
    LET q == Project(p)
    IN /\ at[p] = "start"
       /\ cmd[p].op = "repair"
       /\ lock = None
       /\ link[q] # None /\ Taken(link[q].key, q)
       /\ link' = [link EXCEPT ![q].key = p]
       /\ lock' = p
       /\ Wrote(p)
       /\ Go(p, "renewing")
       /\ UNCHANGED <<cmd, mem, binding, entry, given>>

RecordKey(p) ==
    LET q == Project(p)
    IN /\ at[p] = "renewing"
       /\ entry' = IF entry[q] = None THEN entry ELSE [entry EXCEPT ![q].key = p]
       /\ lock' = None
       /\ Wrote(p)
       /\ Go(p, IF cmd[p].main = None THEN "done" ELSE "start")
       /\ UNCHANGED <<cmd, mem, link, binding, given>>

(* lens bind and unbind: the hash of the bindings is read before the       *)
(* question, the snapshot after it, and both before the lock.  The key is  *)
(* read under the lock.                                                    *)
BeginBind(p) ==
    LET q == Project(p)
    IN /\ at[p] = "start"
       /\ cmd[p].op \in {"bind", "unbind"}
       /\ link[q] # None
       /\ IF Taken(link[q].key, q)
             THEN Go(p, "failed") /\ UNCHANGED mem
             ELSE /\ Mem(p, [was |-> Snapshot(q), choice |-> IF cmd[p].op = "bind" THEN ChoiceOf(cmd[p], None) ELSE None,
                             salt |-> None, key |-> None, copy |-> binding, grant |-> None])
                  /\ Go(p, "asked")
       /\ UNCHANGED lock
       /\ Keep

SnapBindings(p) ==
    /\ at[p] = "asked"
    /\ cmd[p].op \in {"bind", "unbind"}
    /\ Mem(p, [mem[p] EXCEPT !.was = Snapshot(Project(p))])
    /\ touched' = [touched EXCEPT ![p] = FALSE]
    /\ Go(p, "waiting")
    /\ UNCHANGED <<cmd, lock, link, binding, entry, given>>

(* approve renews a copied key, and reads the link and its lenses, before  *)
(* the lock; the others only lock.                                         *)
BeginRegistry(p) ==
    LET q == Project(p)
        renew == cmd[p].op = "approve" /\ link[q] # None /\ Taken(link[q].key, q)
    IN /\ at[p] = "start"
       /\ cmd[p].op \in {"approve", "revoke", "backfill", "remove", "prune"}
       /\ cmd[p].op = "remove" => link[q] # None
       /\ link' = IF renew THEN [link EXCEPT ![q].key = p] ELSE link
       /\ IF renew THEN Wrote(p) ELSE UNCHANGED touched
       /\ Mem(p, [was |-> Snapshot(q), copy |-> None, grant |-> None,
                  choice |-> IF cmd[p].op = "approve" /\ ~renew THEN Resolved(q) ELSE None,
                  salt |-> IF link[q] = None \/ renew THEN p ELSE link[q].salt,
                  key |-> IF link[q] = None THEN None ELSE IF renew THEN p ELSE link[q].key])
       /\ Go(p, "waiting")
       /\ UNCHANGED <<cmd, lock, binding, entry, given>>

-----------------------------------------------------------------------------
(* writeLink and writeBinding: setup and add call them outside the lock,   *)
(* repair inside.  The key of the link is kept unless another project      *)
(* holds it; bindings.json is read, changed and replaced.                  *)
InWriteLink(p) == at[p] = "picking" \/ (at[p] = "inside" /\ cmd[p].op = "repair" /\ cmd[p].main # None /\ mem[p].key = None)

Pick(p) ==
    LET q == Project(p)
    IN /\ InWriteLink(p)
       /\ Mem(p, [mem[p] EXCEPT !.copy = binding,
                                !.key = IF link[q] # None /\ ~Taken(link[q].key, q) THEN link[q].key ELSE p])
       /\ Go(p, "storing")
       /\ UNCHANGED lock
       /\ Keep

(* bind compares the hash of before its question.  A link that is gone by  *)
(* now has no key: its binding would be by path.                           *)
Compare(p) ==
    /\ at[p] = "inside"
    /\ cmd[p].op \in {"bind", "unbind"}
    /\ mem[p].copy # None
    /\ Mem(p, [mem[p] EXCEPT !.key = IF link[Project(p)] = None THEN None ELSE link[Project(p)].key])
    /\ IF mem[p].copy = binding THEN Go(p, "storing") /\ UNCHANGED lock
                               ELSE Go(p, "unbinding") /\ lock' = None
    /\ Keep

StoreBinding(p) ==
    /\ at[p] = "storing"
    /\ binding' = IF mem[p].key = None THEN mem[p].copy ELSE [mem[p].copy EXCEPT ![mem[p].key] = mem[p].choice]
    /\ Wrote(p)
    /\ Go(p, IF cmd[p].op \in Linking THEN "writing" ELSE "inside")
    /\ Mem(p, [mem[p] EXCEPT !.copy = None])
    /\ UNCHANGED <<cmd, lock, link, entry, given>>

WriteLink(p) ==
    /\ at[p] = "writing"
    /\ link' = [link EXCEPT ![Project(p)] = [key |-> mem[p].key, salt |-> mem[p].salt]]
    /\ Wrote(p)
    /\ Go(p, IF lock = p THEN "inside" ELSE "waiting")
    /\ UNCHANGED <<cmd, mem, lock, binding, entry, given>>

-----------------------------------------------------------------------------
(* The registry, under its lock. *)
Lock(p) ==
    /\ at[p] = "waiting"
    /\ lock = None
    /\ lock' = p
    /\ Go(p, "inside")
    /\ UNCHANGED mem
    /\ Keep

(* The entry is written and the lock released. *)
Released(p) ==
    /\ lock' = None
    /\ Go(p, CASE cmd[p].op \in {"setup", "add"} -> "activating"
               [] cmd[p].op = "remove" -> "removing"
               [] OTHER -> "done")

Enter(p, q, e, wanted) ==
    /\ entry' = [entry EXCEPT ![q] = e]
    /\ given' = [given EXCEPT ![q] = @ \cup (IF entry[q] = None \/ cmd[p].accept THEN wanted ELSE Named(cmd[p]))]
    /\ Wrote(p)
    /\ Released(p)
    /\ UNCHANGED <<cmd, binding>>

Activated(q, k, salt, grant) ==
    [active |-> TRUE, key |-> k, salt |-> salt, grant |-> grant, since |-> IF entry[q] = None THEN 1 ELSE entry[q].since]

EnterLinking(p) ==
    LET c == cmd[p] q == c.project m == mem[p]
    IN /\ at[p] = "inside"
       /\ c.op \in {"setup", "add"}
       /\ Enter(p, q, Activated(q, m.key, m.salt,
              NextGrant(entry[q], Wanted(m.choice), Named(c), c.main # None /\ c.more # None, c.accept)), Wanted(m.choice))
       /\ UNCHANGED <<mem, link>>

(* repair writes the grant it has computed before the lock. *)
EnterRepair(p) ==
    LET q == Project(p) m == mem[p] e == entry[q]
    IN /\ at[p] = "inside"
       /\ cmd[p].op = "repair"
       /\ ~InWriteLink(p)
       /\ Enter(p, q, IF e = None THEN None ELSE
              [e EXCEPT !.key = m.key,
                        !.grant = IF m.grant # None /\ e.active THEN m.grant ELSE e.grant], Wanted(m.choice))
       /\ UNCHANGED <<mem, link>>

EnterBind(p) ==
    LET c == cmd[p] q == c.project e == entry[q] m == mem[p]
    IN /\ at[p] = "inside"
       /\ c.op \in {"bind", "unbind"} /\ m.copy = None
       /\ Enter(p, q, IF e = None THEN None ELSE
              [e EXCEPT !.grant = IF m.choice = None THEN {}
                                  ELSE NextGrant(e, Wanted(m.choice), Named(c), c.main # None, FALSE)], {})
       /\ UNCHANGED <<mem, link>>

(* approve keeps the salt of the entry, then of the link as it has read    *)
(* it; the link gets it, and if there was one it must still be there.      *)
EnterApproval(p) ==
    LET c == cmd[p]
        q == c.project
        e == entry[q]
        m == mem[p]
        salt == IF e # None THEN e.salt ELSE m.salt
        lenses == IF Named(c) # {} THEN Named(c)
                  ELSE IF m.key \in {None, p} THEN {General}
                  ELSE IF m.choice = None THEN {} ELSE Wanted(m.choice)
    IN /\ at[p] = "inside"
       /\ c.op = "approve"
       /\ m.key # None => link[q] # None
       /\ link' = IF m.key = None THEN link ELSE [link EXCEPT ![q].salt = salt]
       /\ Enter(p, q, Activated(q, m.key, salt, NextGrant(e, lenses, {}, Named(c) # {}, c.accept)), lenses)
       /\ UNCHANGED mem

(* backfill passes over a revoked entry unless lenses are named, and       *)
(* renews under the lock.                                                  *)
EnterBackfill(p) ==
    LET c == cmd[p]
        q == c.project
        e == entry[q]
        renew == Taken(link[q].key, q)
        k == IF renew THEN p ELSE link[q].key
        salt == IF renew THEN p ELSE link[q].salt
        lenses == IF Named(c) # {} THEN Named(c) ELSE IF renew THEN {General}
                  ELSE IF Resolved(q) = None THEN {} ELSE Wanted(Resolved(q))
    IN /\ at[p] = "inside"
       /\ c.op = "backfill"
       /\ IF link[q] = None \/ (e # None /\ ~e.active /\ Named(c) = {})
             THEN Released(p) /\ UNCHANGED <<cmd, files>>
             ELSE /\ link' = [link EXCEPT ![q] = [key |-> k, salt |-> salt]]
                  /\ Enter(p, q, Activated(q, k, salt, NextGrant(e, lenses, {}, Named(c) # {}, c.accept)), lenses)
       /\ UNCHANGED mem

EnterRevocation(p) ==
    LET q == Project(p) e == entry[q]
    IN /\ at[p] = "inside"
       /\ cmd[p].op \in {"revoke", "remove"}
       /\ Enter(p, q, IF e # None THEN [e EXCEPT !.active = FALSE]
                      ELSE IF cmd[p].op = "remove" THEN None
                      ELSE [active |-> FALSE, key |-> None, salt |-> p, grant |-> {}, since |-> 1], {})
       /\ UNCHANGED <<mem, link>>

EnterPrune(p) ==
    /\ at[p] = "inside"
    /\ cmd[p].op = "prune"
    /\ entry' = [q \in Projects |-> IF link[q] = None THEN None ELSE entry[q]]
    /\ Wrote(p)
    /\ Released(p)
    /\ UNCHANGED <<cmd, mem, link, binding, given>>

Activate(p) ==
    /\ at[p] = "activating"
    /\ Go(p, "done")
    /\ Mem(p, None)
    /\ UNCHANGED lock
    /\ Keep

RemoveLink(p) ==
    /\ at[p] = "removing"
    /\ link' = [link EXCEPT ![Project(p)] = None]
    /\ Wrote(p)
    /\ Go(p, "done")
    /\ UNCHANGED <<cmd, mem, lock, binding, entry, given>>

-----------------------------------------------------------------------------
(* An error in the try block: the lock is released, then the catch runs.   *)
(* The renewal of a key is in no try block.                                *)
Fail(p) ==
    /\ at[p] \in Trying \cup {"renewing"}
    /\ lock' = IF lock = p THEN None ELSE lock
    /\ Go(p, IF at[p] # "renewing" /\ cmd[p].op \in Linking \cup {"bind", "unbind"} THEN "unbinding" ELSE "failed")
    /\ UNCHANGED mem
    /\ Keep

(* The whole of bindings.json goes back, then link.yaml, then the entry.   *)
UndoBinding_OfOneKey(p) ==
    /\ at[p] = "unbinding"
    /\ binding' = IF mem[p].key = None THEN binding ELSE [binding EXCEPT ![Home] = mem[p].was.binding[Home]]
    /\ Wrote(p)
    /\ Go(p, IF cmd[p].op \in Linking THEN "unlinking" ELSE "failed")
    /\ UNCHANGED <<cmd, mem, lock, link, entry, given>>

UndoBinding(p) ==
    /\ at[p] = "unbinding"
    /\ binding' = mem[p].was.binding
    /\ Wrote(p)
    /\ Go(p, IF cmd[p].op \in Linking THEN "unlinking" ELSE "failed")
    /\ UNCHANGED <<cmd, mem, lock, link, entry, given>>

UndoLink(p) ==
    /\ at[p] = "unlinking"
    /\ link' = [link EXCEPT ![Project(p)] = mem[p].was.link]
    /\ Wrote(p)
    /\ Go(p, IF cmd[p].op = "repair" THEN "failed" ELSE "relocking")
    /\ UNCHANGED <<cmd, mem, lock, binding, entry, given>>

Relock(p) ==
    /\ at[p] = "relocking"
    /\ \/ lock = None /\ lock' = p /\ Go(p, "reverting")
       \/ UNCHANGED lock /\ Go(p, "gaveup")
    /\ UNCHANGED mem
    /\ Keep

(* The entry goes back as it was read before the command began, whatever   *)
(* it is now.                                                              *)
UndoEntry(p) ==
    LET q == Project(p)
    IN /\ at[p] = "reverting"
       /\ entry' = IF entry[q] = None THEN entry ELSE [entry EXCEPT ![q] = mem[p].was.entry]
       /\ Wrote(p)
       /\ lock' = None
       /\ Go(p, "failed")
       /\ UNCHANGED <<cmd, mem, link, binding, given>>

(* A process can stop anywhere by taking no further step; if it held the   *)
(* lock, another one will break that.                                      *)
Crash(p) ==
    /\ lock = p
    /\ lock' = None
    /\ Go(p, "dead")
    /\ Mem(p, None)
    /\ Keep

Next ==
    \E p \in Cmds :
        \/ BeginLinking(p) \/ BeginRepair(p) \/ SnapLinking(p) \/ RenewKey(p) \/ RecordKey(p)
        \/ BeginBind(p) \/ SnapBindings(p) \/ BeginRegistry(p)
        \/ Pick(p) \/ Compare(p) \/ StoreBinding(p) \/ WriteLink(p) \/ Lock(p)
        \/ EnterLinking(p) \/ EnterRepair(p) \/ EnterBind(p) \/ EnterApproval(p) \/ EnterBackfill(p)
        \/ EnterRevocation(p) \/ EnterPrune(p) \/ Activate(p) \/ RemoveLink(p)
        \/ Fail(p) \/ UndoBinding(p) \/ UndoLink(p) \/ Relock(p) \/ UndoEntry(p) \/ Crash(p)

Spec == Init /\ [][Next]_vars

-----------------------------------------------------------------------------
(* A project is served only lenses that a command of the owner has granted *)
(* to it at some time, whatever is bound on other machines, copied,        *)
(* interrupted or put back.                                                *)
ServedWasGiven == \A q \in Projects : Served(q) \subseteq given[q]

(* A folder and its copy are never both served through one project key:    *)
(* two claims on a key fail closed, even if both were attested at once.    *)
OneProjectPerKey ==
    \A q, r \in Projects : q # r /\ Served(q) # {} /\ Served(r) # {} => link[q].key # link[r].key

(* A command that fails while nobody else writes leaves the three files as *)
(* it has found them.                                                      *)
FailedLeavesNothing ==
    \A p \in Cmds :
        at[p] = "failed" /\ ~touched[p] /\ cmd[p].op \in Linking \cup {"bind", "unbind"} =>
            /\ binding = mem[p].was.binding
            /\ link[Project(p)] = mem[p].was.link
            /\ entry[Project(p)] = mem[p].was.entry

(* A revoked entry becomes active only by a command that attests the       *)
(* project: no rollback of another command brings it back.                 *)
RevocationStands ==
    [][\A q \in Projects :
           entry[q] # None /\ ~entry[q].active /\ entry'[q] # None /\ entry'[q].active =>
               \E p \in Cmds : at[p] = "inside" /\ Project(p) = q]_vars
==============================================================================
