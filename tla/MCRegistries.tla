----------------------------- MODULE MCRegistries -----------------------------
(***************************************************************************)
(* The registries of a self, for TLC: the clients (clients.json) and the   *)
(* links of projects (links.json, with link.yaml and bindings.json), which *)
(* are changed under the same lock; and the migration of the metadata that *)
(* the lenses are applied to.  A behaviour is of one of them.              *)
(***************************************************************************)
EXTENDS MCMigration, TLC

CONSTANTS
    Procs, Prompt, Names, Lenses, First, None,              \* see ClientRegistry
    Cmds, Lines, Home, Copy, Purposes, General,             \* see LinkTransaction
    c1, c2, g, s                                            \* its commands and lenses, for TLC

(* None is no lock file, and the first client was added by no call that is modelled. *)
ASSUME ClientsAssumption ==
    None \notin [owner : Procs, written : BOOLEAN, old : BOOLEAN] /\ First \notin Procs

VARIABLES
    part,
    prompt, lock, at, tries, met, op, step, seen, clients, lenses, result,
    cmd, place, mem, holder, link, binding, entry, touched, given

granting == <<prompt, lock, at, tries, met, op, step, seen, clients, lenses, result>>
linking == <<cmd, place, mem, holder, link, binding, entry, touched, given>>
all == <<part, vars, granting, linking>>

Clients == INSTANCE ClientRegistry

(* A command that changes several files, beside any other command. *)
Line(o, q, m, x, y) == [op |-> o, project |-> q, main |-> m, more |-> x, accept |-> y]
Plain(ops) == {Line(o, q, None, None, FALSE) : o \in ops, q \in {Home, Copy}}
AtHome(ops) == {Line(o, Home, None, None, FALSE) : o \in ops}
Naming(ops) == {Line(o, q, s, {g}, FALSE) : o \in ops, q \in {Home, Copy}}
Accepting == {Line("setup", Home, None, None, TRUE)}

MCLines == [c \in {c1, c2} |->
    IF c = c1
    THEN AtHome({"add", "unbind"}) \cup Plain({"setup", "repair", "bind"}) \cup Naming({"setup", "repair"}) \cup Accepting
    ELSE AtHome({"setup", "bind", "prune"}) \cup Plain({"approve", "revoke", "remove", "backfill"}) \cup Naming({"backfill"})]

Links == INSTANCE LinkTransaction WITH Lenses <- Purposes, at <- place, lock <- holder

(* A command line names lenses that exist, or none; binding has no flag to *)
(* accept others.  None is nothing that is stored.                         *)
ASSUME LinksAssumption ==
    /\ Lines \in [Cmds -> SUBSET [op : Links!Ops, project : Links!Projects, main : Purposes \cup {None},
                                 more : (SUBSET Purposes) \cup {None}, accept : BOOLEAN]]
    /\ \A p \in Cmds : \A line \in Lines[p] : line.op \in {"bind", "unbind"} => ~line.accept
    /\ General \in Purposes
    /\ None \notin Cmds \cup {Home} \cup Purposes /\ \A some \in SUBSET Purposes : None # some
    /\ None \notin Links!Links \cup Links!Choices \cup Links!Entries \cup [Links!Keys -> Links!Choices \cup {None}]

(* The other parts are as they begin, or without a value. *)
NoMigration ==
    /\ command = Rest("done") /\ receipts = <<>>
    /\ doc = None /\ directory = None /\ plans = None /\ fresh = None /\ saves = None
    /\ edits = None /\ runs = None /\ by = [f \in Files |-> Missing] /\ own = None /\ unsure = None
NoClients ==
    /\ clients = {}
    /\ prompt = None /\ lock = None /\ at = None /\ tries = None /\ met = None
    /\ op = None /\ step = None /\ seen = None /\ lenses = None /\ result = None
NoLinks ==
    /\ cmd = None /\ place = None /\ mem = None /\ holder = None /\ link = None
    /\ binding = None /\ entry = None /\ touched = None /\ given = None

RegistriesInit ==
    \/ part = "clients" /\ Clients!Init /\ NoLinks /\ NoMigration
    \/ part = "links" /\ Links!Init /\ NoClients /\ NoMigration
    \/ part = "migration" /\ Init /\ NoClients /\ NoLinks

RegistriesNext ==
    \/ part = "clients" /\ Clients!Next /\ UNCHANGED <<part, linking, vars>>
    \/ part = "links" /\ Links!Next /\ UNCHANGED <<part, granting, vars>>
    \/ part = "migration" /\ Next /\ UNCHANGED <<part, granting, linking>>

RegistriesSpec == RegistriesInit /\ [][RegistriesNext]_all

(* Calls, and names of clients, are interchangeable. *)
Symmetry == Permutations(Procs) \cup Permutations(Names)

-----------------------------------------------------------------------------
(* Clients: lenses in use stay, names are unique, what was reported is     *)
(* done, and a revocation is final, as stated in ClientRegistry.           *)
ReportsStand ==
    part = "clients" => Clients!LensesInUseStay /\ Clients!NamesAreUnique /\ Clients!ReportedIsDone
RevocationIsFinal == Clients!RevocationIsFinal

(* Links: what is served was given, under one key, and a command that      *)
(* fails leaves nothing, as stated in LinkTransaction.                     *)
ServedWasGiven == part = "links" => Links!ServedWasGiven /\ Links!OneProjectPerKey
FailedLeavesNothing == part = "links" => Links!FailedLeavesNothing

(* Migration: it can be undone, and what it writes answers nobody who was  *)
(* not answered before: MigrationIsUndone, RevertsInFull and NeverWidens   *)
(* of PolicyMigration.                                                     *)
=============================================================================
