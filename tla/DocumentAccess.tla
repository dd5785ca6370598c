---------------------------- MODULE DocumentAccess ----------------------------
(***************************************************************************)
(* Who may read a document (src/policy/access.mjs), which defaults it      *)
(* takes from the _policy.yaml files above it                              *)
(* (src/policy/policy-defaults.mjs), and what `migrate policy` makes of    *)
(* its metadata (src/migration.mjs).                                       *)
(*                                                                         *)
(* Metadata is the record of the fields that an answer depends on.  A task *)
(* selector stands for the tasks that contain one of its patterns; one     *)
(* without a pattern is an error, and is not among them here.  Of the      *)
(* rules below the document's level there are those for one field, in the  *)
(* deprecated and in the new form; claims follow the same rules.           *)
(***************************************************************************)
CONSTANTS
    LensIds,         \* every lens a caller may name
    Known,          \* those of the lens registry
    Tasks,          \* what a caller may be at
    Missing         \* a field that is not there

Seeded == {"general", "professional", "public-voice", "technical", "leadership", "interview", "private"}
Visibilities == {"private", "linked-projects", "professional", "public-voice", "public-safe"}
ReadScopes == {"shared", "local", "restricted"}
Disclosures == {"internal-only", "review-required", "publish-approved"}
Gated == {"application-private", "compensation-confidential", "third-party-personal",
          "recruiter-confidential", "employer-confidential"}
Confidential == Gated \cup {"restricted"}
Sensitivities == Confidential \cup {"public", "none", "personal"}
DocumentRoles == {"policy", "evidence", "content"}

ASSUME LensesAssumption == Seeded \subseteq LensIds /\ Known \subseteq LensIds /\ "private" \in Known
(* Without lenses a rule leaves them to the document. *)
Rules == [access_lenses : (SUBSET LensIds) \cup {Missing}, disclosure : Disclosures]

ASSUME MissingAssumption ==
    /\ Missing \notin Visibilities \cup ReadScopes \cup Disclosures \cup Sensitivities \cup DocumentRoles
    /\ Missing \notin BOOLEAN /\ Missing \notin Tasks
    /\ \A lenses \in SUBSET LensIds : Missing # lenses
    /\ \A tasks \in SUBSET Tasks : Missing # tasks
    /\ \A rule \in Rules : Missing # rule

Maybe(S) == S \cup {Missing}

Metadata ==
    [visibility : Maybe(Visibilities), public_safe : Maybe(BOOLEAN),
     access_lenses : Maybe(SUBSET LensIds), exclude_lenses : Maybe(SUBSET LensIds),
     read_scope : Maybe(ReadScopes), disclosure : Maybe(Disclosures),
     sensitivity : Maybe(Sensitivities), document_role : Maybe(DocumentRoles),
     task_include : Maybe((SUBSET Tasks) \ {{}}), task_exclude : Maybe((SUBSET Tasks) \ {{}}),
     field_visibility : Maybe(Visibilities), field_access : Maybe(Rules)]

(* The defaults of a directory have no deprecated fields and no rules. *)
Defaults ==
    {d \in Metadata : d.visibility = Missing /\ d.public_safe = Missing
                      /\ d.field_visibility = Missing /\ d.field_access = Missing}

(* A question: a lens, an adapter that publishes or not, a task, the       *)
(* sensitive categories the lens may see, the owner or a client with the   *)
(* lenses granted to it, and whether it reaches the document's space.      *)
Requests ==
    [lens : LensIds, publication : BOOLEAN, task : Maybe(Tasks), categories : SUBSET Gated,
     owner : BOOLEAN, granted : SUBSET LensIds, reaches : BOOLEAN]

Given(x, default) == IF x = Missing THEN default ELSE x

-----------------------------------------------------------------------------
(* allowedDocument *)

Visibility(m) == Given(m.visibility, "linked-projects")

LegacyLenses(v) ==
    IF v = "private" THEN {"private"}
    ELSE IF v = "professional" THEN {"general", "professional", "interview", "private"}
    ELSE IF v = "public-voice" THEN {"general", "public-voice", "private"}
    ELSE Seeded

AccessLenses(m) == Given(m.access_lenses, LegacyLenses(Visibility(m)))

ReadScope(m) == Given(m.read_scope, IF Visibility(m) = "private" THEN "restricted" ELSE "shared")

EffectiveDisclosure(m) ==
    IF m.public_safe = FALSE THEN "review-required"
    ELSE Given(m.disclosure,
               IF m.public_safe = TRUE \/ Visibility(m) = "public-safe" THEN "publish-approved"
               ELSE "internal-only")

PublicationAllowed(m) ==
    EffectiveDisclosure(m) = "publish-approved" /\ m.sensitivity \notin Confidential

TaskAllowed(m, task) ==
    /\ m.task_include # Missing => task \in m.task_include
    /\ m.task_exclude # Missing => task \notin m.task_exclude

Restricted(m) == ReadScope(m) = "restricted" \/ m.sensitivity = "restricted"

Allowed(m, r) ==
    /\ Restricted(m) => r.owner /\ r.lens = "private"
    /\ ReadScope(m) = "local" => r.reaches
    /\ ~r.owner => r.lens # "private" /\ r.lens \in r.granted
    /\ r.lens \in AccessLenses(m)
    /\ r.lens \notin Given(m.exclude_lenses, {})
    /\ TaskAllowed(m, r.task)
    /\ r.lens # "private" /\ m.document_role # "policy" /\ m.sensitivity \in Gated
       => m.sensitivity \in r.categories
    /\ r.publication => PublicationAllowed(m)

-----------------------------------------------------------------------------
(* Rules below the document's level: of a field, a claim, a section *)

PrivateRule == [access_lenses |-> {"private"}, disclosure |-> "review-required"]

LegacyRule(v) ==
    [access_lenses |-> IF v \in {"linked-projects", "public-safe"} THEN Missing ELSE LegacyLenses(v),
     disclosure |-> IF v = "public-safe" THEN "publish-approved" ELSE "review-required"]

RuleValid(rule) ==
    rule.access_lenses # Missing => rule.access_lenses # {} /\ rule.access_lenses \subseteq Known

(* What is served looks no lens up in the registry. *)
NormalizeRule(rule) == IF rule.access_lenses = {} THEN PrivateRule ELSE rule

NarrowerDisclosure(x, y) ==
    IF "internal-only" \in {x, y} THEN "internal-only"
    ELSE IF "review-required" \in {x, y} THEN "review-required" ELSE "publish-approved"

(* Two lists of which neither contains the other meet in private at most. *)
SharedLenses(x, y) ==
    IF x = Missing THEN y ELSE IF y = Missing THEN x
    ELSE IF x \subseteq y \/ y \subseteq x THEN x \cap y ELSE x \cap y \cap {"private"}

IntersectRules(a, b) ==
    [access_lenses |-> SharedLenses(a.access_lenses, b.access_lenses),
     disclosure |-> NarrowerDisclosure(a.disclosure, b.disclosure)]

SubDocumentVisible(rule, r) ==
    /\ rule.access_lenses # Missing => r.lens \in rule.access_lenses
    /\ r.publication => rule.disclosure = "publish-approved"

(* All rules that name a field apply. *)
FieldVisible(m, r) ==
    LET old == LegacyRule(m.field_visibility)
        new == NormalizeRule(m.field_access)
    IN  CASE m.field_visibility # Missing /\ m.field_access # Missing -> SubDocumentVisible(IntersectRules(old, new), r)
          [] m.field_visibility # Missing /\ m.field_access = Missing -> SubDocumentVisible(old, r)
          [] m.field_visibility = Missing /\ m.field_access # Missing -> SubDocumentVisible(new, r)
          [] OTHER -> TRUE

-----------------------------------------------------------------------------
(* What the parser makes of front matter, and the defaults of directories *)

BeyondPrivate(m) ==
    /\ m.sensitivity = "restricted" \/ m.read_scope = "restricted"
    /\ m.access_lenses # Missing
    /\ ~(m.access_lenses \subseteq {"private"})

(* privacyMetadataErrors: of the fields here only lens lists can be wrong. *)
WellFormed(m) ==
    /\ m.access_lenses # Missing => m.access_lenses # {} /\ m.access_lenses \subseteq Known
    /\ m.exclude_lenses # Missing => m.exclude_lenses \subseteq Known
    /\ m.field_access # Missing => RuleValid(m.field_access)

RestrictPrivacyMetadata(m) ==
    [visibility |-> "private", public_safe |-> FALSE,
     access_lenses |-> {"private"}, exclude_lenses |-> m.exclude_lenses,
     read_scope |-> "restricted", disclosure |-> "internal-only",
     sensitivity |-> "restricted", document_role |-> "content",
     task_include |-> m.task_include, task_exclude |-> m.task_exclude,
     field_visibility |-> m.field_visibility, field_access |-> m.field_access]

Frontmatter(m) == IF WellFormed(m) THEN m ELSE RestrictPrivacyMetadata(m)

ValidDefaults(d) ==
    /\ WellFormed(d)
    /\ ~BeyondPrivate(d)
    /\ d.disclosure = "publish-approved" => d.sensitivity \notin Confidential /\ d.read_scope # "restricted"

HasLegacy(m) == m.visibility # Missing \/ m.public_safe # Missing

(* What a document, or a directory nearer to it, does not say itself. *)
Over(m, d) ==
    [visibility |-> m.visibility, public_safe |-> m.public_safe,
     access_lenses |-> Given(m.access_lenses, d.access_lenses),
     exclude_lenses |-> Given(m.exclude_lenses, d.exclude_lenses),
     read_scope |-> Given(m.read_scope, d.read_scope),
     disclosure |-> Given(m.disclosure, d.disclosure),
     sensitivity |-> Given(m.sensitivity, d.sensitivity),
     document_role |-> Given(m.document_role, d.document_role),
     task_include |-> Given(m.task_include, d.task_include),
     task_exclude |-> Given(m.task_exclude, d.task_exclude),
     field_visibility |-> m.field_visibility, field_access |-> m.field_access]

(* d: the defaults of the directories above merged, or none apply.  *)
ResolveDocumentPolicy(d, m) == IF HasLegacy(m) \/ ~ValidDefaults(d) THEN m ELSE Over(m, d)

(* canonicalPrivacyMetadataErrors *)
CanonicalErrors(m) ==
    \/ ~WellFormed(m)
    \/ m.access_lenses = Missing /\ m.visibility = Missing
    \/ /\ m.access_lenses # Missing
       /\ m.disclosure = Missing \/ m.sensitivity = Missing \/ m.document_role = Missing
    \/ m.visibility = "public-safe" /\ m.public_safe = FALSE
    \/ BeyondPrivate(m)

Effective(d, m) == ResolveDocumentPolicy(d, Frontmatter(m))

(* A document of the self with errors is in no catalog, and not served. *)
CatalogExcluded(d, m) == ~WellFormed(m) \/ CanonicalErrors(ResolveDocumentPolicy(d, m))
Served(d, m, r) == ~CatalogExcluded(d, m) /\ Allowed(Effective(d, m), r)
FieldServed(d, m, r) == Served(d, m, r) /\ FieldVisible(Effective(d, m), r)

-----------------------------------------------------------------------------
(* The migration of one document *)

(* The five fields that every migrated document has. *)
Target(m) ==
    [access_lenses |-> IF Restricted(m) /\ "private" \in AccessLenses(m) THEN {"private"} ELSE AccessLenses(m),
     disclosure |-> IF m.public_safe = FALSE /\ m.disclosure = "internal-only" THEN "internal-only"
                    ELSE EffectiveDisclosure(m),
     sensitivity |-> Given(m.sensitivity, "personal"),
     document_role |-> Given(m.document_role, "content"),
     read_scope |-> ReadScope(m)]

(* They are written, and the deprecated ones removed. *)
WithTarget(m, t) ==
    [visibility |-> Missing, public_safe |-> Missing,
     access_lenses |-> t.access_lenses, exclude_lenses |-> m.exclude_lenses,
     read_scope |-> t.read_scope, disclosure |-> t.disclosure,
     sensitivity |-> t.sensitivity, document_role |-> t.document_role,
     task_include |-> m.task_include, task_exclude |-> m.task_exclude,
     field_visibility |-> m.field_visibility, field_access |-> m.field_access]

ComputeMeetMetadata(m) == LET raw == Frontmatter(m) IN WithTarget(raw, Target(raw))

ComputeActivationMetadata(m) ==
    IF ~WellFormed(m) \/ (m.visibility = "public-safe" /\ m.public_safe = FALSE) \/ BeyondPrivate(m)
    THEN WithTarget(m, RestrictPrivacyMetadata(m))
    ELSE ComputeMeetMetadata([m EXCEPT !.visibility = Given(m.visibility, "private")])

(* What the defaults of its directory say of a document that grants no     *)
(* lens itself stays with the directory.                                   *)
GovernedByDirectory(d, m) ==
    /\ ~CatalogExcluded(d, m)
    /\ ~HasLegacy(m) /\ m.access_lenses = Missing
    /\ ValidDefaults(d) /\ d.access_lenses # Missing

MigrationTarget(d, m) ==
    IF CatalogExcluded(d, m) THEN ComputeActivationMetadata(Effective(d, m))
    ELSE ComputeMeetMetadata(Effective(d, m))

(* fieldAccessFromLegacy: a deprecated rule that cannot be written stays. *)
RuleFromLegacy(m) ==
    LET rule == LegacyRule(m.field_visibility)
        known == [rule EXCEPT !.access_lenses = IF @ = Missing THEN Missing ELSE @ \cap Known]
    IN  IF m.field_access = Missing THEN known ELSE IntersectRules(known, NormalizeRule(m.field_access))

WithRules(m) ==
    IF \/ m.field_visibility = Missing
       \/ m.field_access # Missing /\ ~RuleValid(m.field_access)
       \/ RuleFromLegacy(m).access_lenses = {}
    THEN m
    ELSE [m EXCEPT !.field_visibility = Missing, !.field_access = RuleFromLegacy(m)]

Migrated(d, m) ==
    WithRules(IF GovernedByDirectory(d, m) THEN m ELSE WithTarget(m, MigrationTarget(d, m)))

(* verifyNonAmplification: what it asks, of the document and of its field; *)
(* an excluded document is compared as if it were not.                     *)
GateCells ==
    [lens : LensIds, publication : BOOLEAN, task : Maybe(Tasks), categories : {{}, Gated},
     owner : BOOLEAN, granted : {LensIds}, reaches : {TRUE}]

GateRefuses(d, m) ==
    LET old == Effective(d, m)
        new == Effective(d, Migrated(d, m))
    IN  \E r \in GateCells :
            \/ Allowed(new, r) /\ ~Allowed(old, r)
            \/ FieldVisible(new, r) /\ ~FieldVisible(old, r)
            \/ PublicationAllowed(new) /\ ~PublicationAllowed(old)
=============================================================================
