------------------------------ MODULE MCMigration ------------------------------
EXTENDS PolicyMigration

(* A document without metadata, in which some fields are then given. *)
Bare ==
    [visibility |-> Missing, public_safe |-> Missing, access_lenses |-> Missing, exclude_lenses |-> Missing,
     read_scope |-> Missing, disclosure |-> Missing, sensitivity |-> Missing, document_role |-> Missing,
     task_include |-> Missing, task_exclude |-> Missing, field_visibility |-> Missing, field_access |-> Missing]

Lensed == [Bare EXCEPT !.access_lenses = {"general", "technical"}]
Public == [Bare EXCEPT !.disclosure = "publish-approved", !.sensitivity = "none", !.document_role = "content"]
Inward == [Public EXCEPT !.disclosure = "internal-only"]

Ruled ==
    [Public EXCEPT !.public_safe = FALSE, !.access_lenses = {"general", "technical", "private"}, !.field_visibility = "professional",
                   !.field_access = [access_lenses |-> {"general", "professional", "technical", "private"}, disclosure |-> "publish-approved"]]

MCDrafts == {Bare, Lensed, Ruled}
MCDirectories == {Public, Inward}
MCAsked ==
    [lens : {"private", "general", "interview", "technical"}, publication : BOOLEAN, task : {Missing}, categories : {{}},
     owner : BOOLEAN, granted : {LensIds}, reaches : {TRUE}]
=============================================================================
