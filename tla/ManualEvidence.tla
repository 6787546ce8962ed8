--------------------------- MODULE ManualEvidence ---------------------------
(***************************************************************************)
(* Hand-entered test records: draft, submitted, then verified or rejected  *)
(* by somebody who did not contribute (tumult-lake/src/manual).  Every     *)
(* mutation is one transaction on the writer, with the principal's scope   *)
(* checked inside it (tumult-api/src/manual.rs), and appends a link to the *)
(* record's audit chain.                                                   *)
(***************************************************************************)
EXTENDS Naturals, Sequences

CONSTANTS
    Records,        \* ids (ULIDs) of records
    People,         \* usernames of principals
    Environments,   \* target environments
    Scopes,         \* env_scopes of each principal, {} for all environments
    Contents,       \* what the content fields may say
    MaxEdits        \* bound: audit rows of a record

ASSUME ManualAssumption ==
    /\ Scopes \in [People -> SUBSET Environments] /\ MaxEdits \in Nat

VARIABLES
    meRow,      \* each record's row: status, content, env, entered_by, ...
    meAudit     \* each record's rows of manual_experiment_audit

meVars == <<meRow, meAudit>>

NoPerson == "nobody"
NoHash == <<>>

Statuses == {"none", "draft", "submitted", "verified", "rejected"}

MeInit ==
    /\ meRow = [r \in Records |-> [status |-> "none", content |-> "", env |-> "",
                                   entered |-> NoPerson, reviewer |-> NoPerson,
                                   attached |-> 0, hash |-> NoHash]]
    /\ meAudit = [r \in Records |-> <<>>]

EnvAllowed(p, env) == Scopes[p] = {} \/ env \in Scopes[p]

\* rehash: the canonical content, the enterer and the status; not the review
\* and not the attachments.
Rehash(row) == <<row.content, row.env, row.entered, row.status>>

AppendAudit(r, by, action, row) ==
    meAudit' = [meAudit EXCEPT ![r] = Append(@,
        [by |-> by, action |-> action, prev |-> meRow[r].hash, new |-> row.hash])]

\* A mutation: the row with its new content hash, and its audit link.
Mutate(r, by, action, row) ==
    /\ Len(meAudit[r]) < MaxEdits
    /\ meRow' = [meRow EXCEPT ![r] = [row EXCEPT !.hash = Rehash(row)]]
    /\ AppendAudit(r, by, action, [row EXCEPT !.hash = Rehash(row)])

-----------------------------------------------------------------------------
\* POST /api/manual/experiments, each record of an import, and the draft that a
\* break-glass opens.
CreateManualDraft(r, by, content, env) ==
    /\ meRow[r].status = "none" /\ EnvAllowed(by, env)
    /\ Mutate(r, by, "create", [meRow[r] EXCEPT !.status = "draft",
                 !.content = content, !.env = env, !.entered = by])

\* PUT: replaces the content, keeps entered_by; the environment may change to
\* another one of the principal's.
UpdateManualDraft(r, by, content, env) ==
    /\ meRow[r].status = "draft"
    /\ EnvAllowed(by, meRow[r].env) /\ EnvAllowed(by, env)
    /\ Mutate(r, by, "edit", [meRow[r] EXCEPT !.content = content, !.env = env])

SubmitManual(r, by) ==
    /\ meRow[r].status = "draft" /\ EnvAllowed(by, meRow[r].env)
    /\ Mutate(r, by, "submit", [meRow[r] EXCEPT !.status = "submitted"])

Contributed(r, p) ==
    \E i \in 1 .. Len(meAudit[r]) :
        /\ meAudit[r][i].by = p
        /\ meAudit[r][i].action \in {"create", "edit", "submit", "attach"}

\* Mutant: only the enterer is refused.
Review_EntererOnly(r, by, approve) ==
    /\ meRow[r].status = "submitted" /\ EnvAllowed(by, meRow[r].env)
    /\ by # meRow[r].entered
    /\ Mutate(r, by, IF approve THEN "verify" ELSE "reject",
              [meRow[r] EXCEPT !.status = IF approve THEN "verified" ELSE "rejected",
                               !.reviewer = by])

\* review(): neither the enterer nor anybody the audit trail names as a
\* contributor.
Review(r, by, approve) ==
    /\ meRow[r].status = "submitted" /\ EnvAllowed(by, meRow[r].env)
    /\ by # meRow[r].entered /\ ~Contributed(r, by)
    /\ Mutate(r, by, IF approve THEN "verify" ELSE "reject",
              [meRow[r] EXCEPT !.status = IF approve THEN "verified" ELSE "rejected",
                               !.reviewer = by])

\* Evidence may still be attached after the submission, never after the
\* review; the link repeats the content hash.
AddManualAttachment(r, by) ==
    /\ meRow[r].status \in {"draft", "submitted"} /\ EnvAllowed(by, meRow[r].env)
    /\ Len(meAudit[r]) < MaxEdits
    /\ meRow' = [meRow EXCEPT ![r].attached = @ + 1]
    /\ AppendAudit(r, by, "attach", meRow[r])

MeNext ==
    \E r \in Records, by \in People :
        \/ \E content \in Contents, env \in Environments :
             CreateManualDraft(r, by, content, env)
             \/ UpdateManualDraft(r, by, content, env)
        \/ SubmitManual(r, by) \/ AddManualAttachment(r, by)
        \/ \E approve \in BOOLEAN : Review(r, by, approve)

MeSpec == MeInit /\ [][MeNext]_meVars

-----------------------------------------------------------------------------
MeTypeOK ==
    /\ \A r \in Records :
        /\ meRow[r].status \in Statuses
        /\ meRow[r].entered \in People \cup {NoPerson}
        /\ meRow[r].reviewer \in People \cup {NoPerson}
        /\ meRow[r].attached \in Nat
        /\ Len(meAudit[r]) <= MaxEdits

Reviewed(r) == meRow[r].status \in {"verified", "rejected"}

ReviewIndependent ==
    \A r \in Records : Reviewed(r) =>
        /\ ~Contributed(r, meRow[r].reviewer)
        /\ Contributed(r, meRow[r].entered)
        /\ \A i \in 1 .. Len(meAudit[r]) :
             meAudit[r][i].action \in {"verify", "reject"} <=> i = Len(meAudit[r])

EvidenceChained ==
    \A r \in Records :
        LET trail == meAudit[r] IN
        /\ \A i \in 2 .. Len(trail) : trail[i].prev = trail[i - 1].new
        /\ Len(trail) > 0 => /\ trail[1].prev = NoHash
                             /\ trail[Len(trail)].new = Rehash(meRow[r])
        /\ \A i \in 1 .. Len(trail) :
             trail[i].action = "submit" =>
                 /\ trail[i].new[1] = meRow[r].content
                 /\ trail[i].new[2] = meRow[r].env

(* manual/mod.rs, "a reviewer who must NOT have created, edited, submitted or
   attached evidence to the record": whoever reviewed a record contributed
   nothing to it, before or after, and there is exactly one review; an edit
   keeps the enterer, so it cannot be used to hide one.  And what was reviewed
   is what was submitted: the audit trail is one unbroken chain of content
   hashes that ends in the row's, and the content and the environment of a
   record do not change from its submission on. *)
EvidenceTrusted == ReviewIndependent /\ EvidenceChained

=============================================================================
