----------------------------- MODULE Postmortem -----------------------------
(***************************************************************************)
(* The Postmortem of one Incident. Operators generate, regenerate, correct  *)
(* and review it. Correct and Review are one transaction each; Generate and *)
(* Regenerate read in statements of their own and write in a transaction    *)
(* that comes later, so requests interleave between those steps.            *)
(*                                                                          *)
(* Of the document the model keeps the corrections made since it was drafted. *)
(* Every write commits with its audit event (writePostmortem).              *)
(***************************************************************************)
EXTENDS Integers, Sequences

CONSTANTS
    Editors,        \* people with the postmortem permission, one request each
    Facts,          \* Tool Runs, conclusions and events of the Incident
    Corrections,    \* corrections an operator may ask for
    Cited,          \* the Facts each correction cites
    NoReviewer,     \* no reviewer
    MaxWrites       \* bound: audited writes

ASSUME PostmortemAssumption ==
    /\ Cited \in [Corrections -> SUBSET Facts]
    /\ NoReviewer \notin Editors
    /\ MaxWrites \in Nat

VARIABLES
    resolved,       \* the Incident is resolved
    recorded,       \* Facts recorded so far
    postmortem,     \* the postmortem row
    request,        \* what each operator's request has read
    audit           \* audit events of the Postmortem, in commit order

postmortemVars == <<resolved, recorded, postmortem, request, audit>>

Actions == {"created", "regenerated", "corrected", "reviewed"}
NoRequest == [step |-> "idle", revision |-> 0]
Absent == [status |-> "absent", revision |-> 0, reviewer |-> NoReviewer, corrected |-> {}]

PostmortemInit ==
    /\ resolved = FALSE
    /\ recorded = {}
    /\ postmortem = Absent
    /\ request = [o \in Editors |-> NoRequest]
    /\ audit = <<>>

-----------------------------------------------------------------------------
(* The Incident, seen from here.                                            *)

\* A delivery resolves the Incident, or one that had to wait opens it again.
IncidentRefreshed ==
    /\ resolved' = ~resolved
    /\ UNCHANGED <<recorded, postmortem, request, audit>>

\* Tool Runs of the Incident's Investigations are recorded.
Record(f) ==
    /\ f \notin recorded
    /\ recorded' = recorded \cup {f}
    /\ UNCHANGED <<resolved, postmortem, request, audit>>

-----------------------------------------------------------------------------
(* Requests.                                                                *)

\* DraftFrom: made from the evidence, without anything of an earlier draft.
DraftFrom(n) == [status |-> "draft", revision |-> n, reviewer |-> NoReviewer, corrected |-> {}]

\* writePostmortem: the row and its audit event commit together.
WritePostmortem(o, action, written) ==
    /\ Len(audit) < MaxWrites
    /\ postmortem' = written
    /\ audit' = Append(audit, [action |-> action, by |-> o, revision |-> written.revision])
    /\ UNCHANGED <<resolved, recorded>>

HasRead(o, step, revision) ==
    /\ request' = [request EXCEPT ![o] = [step |-> step, revision |-> revision]]
    /\ UNCHANGED <<resolved, recorded, postmortem, audit>>

\* Generate reads GenerationInput, unless the Incident is not eligible.
Generate(o) ==
    /\ request[o].step = "idle"
    /\ resolved
    /\ HasRead(o, "drafted", 0)

\* CreateDraft inserts the row, or finds it there: ErrAlreadyExists.
CreateDraft(o) ==
    /\ request[o].step = "drafted"
    /\ \/ /\ postmortem.status = "absent"
          /\ WritePostmortem(o, "created", DraftFrom(1))
       \/ postmortem.status # "absent" /\ UNCHANGED <<resolved, recorded, postmortem, audit>>
    /\ request' = [request EXCEPT ![o] = NoRequest]

\* Regenerate reads the current draft ...
Regenerate(o) ==
    /\ request[o].step = "idle"
    /\ postmortem.status # "absent"
    /\ HasRead(o, "read", postmortem.revision)

\* ... then GenerationInput ...
RegenerateInput(o) ==
    /\ request[o].step = "read"
    /\ resolved
    /\ HasRead(o, "redrafted", request[o].revision)

\* Mutant: the review of the draft before is kept.
ReplaceDraftReviewed(o) ==
    /\ request[o].step = "redrafted"
    /\ WritePostmortem(o, "regenerated",
           [postmortem EXCEPT !.revision = request[o].revision + 1, !.corrected = {}])
    /\ request' = [request EXCEPT ![o] = NoRequest]

\* ... and ReplaceDraft writes whatever the row has become meanwhile, with the
\* revision that follows the one read.
ReplaceDraft(o) ==
    /\ request[o].step = "redrafted"
    /\ WritePostmortem(o, "regenerated", DraftFrom(request[o].revision + 1))
    /\ request' = [request EXCEPT ![o] = NoRequest]

\* Correct, with the row locked: not once it is reviewed, and only with evidence
\* that is there.
Correct(o, c) ==
    /\ request[o].step = "idle"
    /\ postmortem.status = "draft"
    /\ Cited[c] \subseteq recorded
    /\ WritePostmortem(o, "corrected",
           [postmortem EXCEPT !.revision = @ + 1, !.corrected = @ \cup {c}])
    /\ UNCHANGED request

\* Review: a draft that somebody has not reviewed already.
Review(o) ==
    /\ request[o].step = "idle"
    /\ postmortem.status = "draft"
    /\ WritePostmortem(o, "reviewed", [postmortem EXCEPT !.status = "reviewed", !.reviewer = o])
    /\ UNCHANGED request

\* The request times out or is cut off between two statements.
Abandon(o) ==
    /\ request[o].step # "idle"
    /\ request' = [request EXCEPT ![o] = NoRequest]
    /\ UNCHANGED <<resolved, recorded, postmortem, audit>>

-----------------------------------------------------------------------------
PostmortemNext ==
    \/ IncidentRefreshed
    \/ \E f \in Facts : Record(f)
    \/ \E o \in Editors :
          \/ Generate(o) \/ CreateDraft(o) \/ Regenerate(o) \/ RegenerateInput(o)
          \/ ReplaceDraft(o) \/ Review(o) \/ Abandon(o)
          \/ \E c \in Corrections : Correct(o, c)

PostmortemSpec == PostmortemInit /\ [][PostmortemNext]_postmortemVars

-----------------------------------------------------------------------------
(* Properties.                                                              *)

PostmortemTypeOK ==
    /\ resolved \in BOOLEAN
    /\ recorded \subseteq Facts
    /\ postmortem \in [status : {"absent", "draft", "reviewed"}, revision : Nat,
                       reviewer : Editors \cup {NoReviewer}, corrected : SUBSET Corrections]
    /\ request \in [Editors -> [step : {"idle", "drafted", "read", "redrafted"}, revision : Nat]]
    /\ audit \in Seq([action : Actions, by : Editors, revision : Nat])

\* Two operators that generate at once do not undo each other: one draft is
\* created, the other request is told so, and the trail starts with it (CreateDraft).
GeneratedOnce ==
    /\ PostmortemTypeOK
    /\ \A k \in DOMAIN audit : audit[k].action = "created" <=> k = 1
    /\ postmortem.status # "absent" <=> audit # <<>>

\* A Postmortem is reviewed exactly when the last thing that happened to it was
\* the review by the person it names: nothing reviewed is corrected, and what is
\* regenerated, also by a request that began before the review, is a draft again
\* (Correct, Review, ReplaceDraft).
ReviewIsCurrent ==
    postmortem.status = "reviewed" <=>
        /\ audit # <<>>
        /\ audit[Len(audit)].action = "reviewed"
        /\ audit[Len(audit)].by = postmortem.reviewer

\* Whatever operators do at once, there is one draft and a review is of what is
\* there (Generate, Correct, Review, Regenerate).
PostmortemsAreCurrent == GeneratedOnce /\ ReviewIsCurrent

\* Regeneration replaces the current draft with a higher audited revision, so that
\* a correction made meanwhile is at least seen to be gone (Regenerate, ReplaceDraft).
RegenerationIsHigher ==
    \A k \in 2 .. Len(audit) :
        audit[k].action = "regenerated" => audit[k].revision > audit[k - 1].revision
=============================================================================
