---------------------------- MODULE DiditAdapter ----------------------------
(***************************************************************************)
(* packages/adapter-didit: what the adapter makes of a session's decision  *)
(* and of a webhook.  A feature is the status of the first entry of its    *)
(* array, or "absent" where the array is null or empty.                    *)
(***************************************************************************)
CONSTANT addressWorkflowId   \* "address", or "unset"

kycWorkflowId == "identity"

Status ==
  {"Not Started", "In Progress", "In Review", "Resubmitted", "Approved",
   "Declined", "Expired", "Abandoned", "Kyc Expired"}

mapStatus(status) ==
  CASE status = "Approved" -> "approved"
    [] status \in {"Declined", "Abandoned"} -> "declined"
    [] status \in {"In Review", "Resubmitted"} -> "in_review"
    [] status \in {"Expired", "Kyc Expired"} -> "expired"
    [] OTHER -> "pending"

\* Mutant: an absent feature is inferred whatever the caller says.
featureFlag_Inferred(feature, fallbackOnApprove, sessionApproved) ==
  feature = "Approved" \/ (feature = "absent" /\ sessionApproved)

featureFlag(feature, fallbackOnApprove, sessionApproved) ==
  \/ feature = "Approved"
  \/ feature = "absent" /\ fallbackOnApprove /\ sessionApproved

mapDecision(d) ==
  LET status == mapStatus(d.status)
      approved == status = "approved"
      identityVerified == featureFlag(d.id, TRUE, approved)
      livenessVerified == featureFlag(d.liveness, TRUE, approved)
      faceMatched == featureFlag(d.face, TRUE, approved)
      addressVerified == featureFlag(d.poa, FALSE, approved)
  IN [status |-> status,
      identity |-> identityVerified /\ faceMatched,
      liveness |-> livenessVerified,
      address |-> addressVerified,
      level |-> IF ~approved \/ ~identityVerified THEN "none"
                ELSE IF addressVerified THEN "enhanced" ELSE "basic"]

Expires(body) ==
  body.type = "session.expired" \/ body.record.status \in {"Expired", "Kyc Expired"}

\* A body that fails the schema or names no session is unrecognised: null.
mapWebhookBody(body) ==
  IF body.type = "unrecognised" THEN [type |-> "null"]
  ELSE IF Expires(body) THEN [type |-> "session.expired"]
  ELSE [type |-> "decision", decision |-> mapDecision(body.record)]

verifySignature(pairs) ==
  IF pairs = {} THEN "missing_signature_header"
  ELSE IF \A pair \in pairs : ~pair.fresh THEN "stale_signature"
  ELSE IF \E pair \in pairs : pair.ok THEN "ok"
  ELSE "invalid_signature"

workflowFor(workflow) ==
  IF workflow = "address" THEN addressWorkflowId ELSE kycWorkflowId

-----------------------------------------------------------------------------
(* Didit (external).                                                       *)

Created(workflow) ==
  [workflow |-> workflow, status |-> "Not Started", id |-> "absent",
   liveness |-> "absent", face |-> "absent", poa |-> "absent"]

\* An identity session looks at document, liveness and face; an address
\* session at the proof of address alone.
Outcome(d, status, feature) ==
  IF d.workflow = "identity"
  THEN [d EXCEPT !.status = status, !.id = feature, !.liveness = "Approved",
                 !.face = "Approved"]
  ELSE [d EXCEPT !.status = status, !.poa = feature]

Moves(d) ==
  CASE d.status = "Not Started" ->
         {[d EXCEPT !.status = s] : s \in {"In Progress", "Expired"}}
    [] d.status = "In Progress" ->
         {Outcome(d, "Approved", "Approved"), Outcome(d, "Declined", "Declined"),
          Outcome(d, "In Review", "Declined"), [d EXCEPT !.status = "Abandoned"]}
    [] d.status = "In Review" ->
         {Outcome(d, "Approved", "Approved"), [d EXCEPT !.status = "Declined"],
          [d EXCEPT !.status = "Resubmitted"]}
    [] d.status = "Approved" ->
         {[d EXCEPT !.status = s] : s \in {"Declined", "Kyc Expired"}}
    [] d.status = "Resubmitted" -> {Outcome(d, "Approved", "Approved")}
    [] OTHER -> {}

Verdict(d) ==
  CASE d.status = "Approved" -> "approved"
    [] d.status \in {"Declined", "Abandoned"} -> "declined"
    [] d.status \in {"Expired", "Kyc Expired"} -> "expired"
    [] OTHER -> "open"

SawIdentity(d) == d.id = "Approved" /\ d.face = "Approved"
SawAddress(d) == d.poa = "Approved"

\* A webhook is a notification: it carries the features or leaves them out.
Webhooks(d) ==
  {[type |-> "status.updated", record |-> r] :
     r \in {d, [d EXCEPT !.id = "absent", !.liveness = "absent",
                         !.face = "absent", !.poa = "absent"]}}
    \cup {[type |-> "unrecognised", record |-> d]}
=============================================================================
