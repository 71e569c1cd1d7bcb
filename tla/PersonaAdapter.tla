--------------------------- MODULE PersonaAdapter ---------------------------
(***************************************************************************)
(* packages/adapter-persona: what the adapter makes of an inquiry with its *)
(* verifications and of a webhook.  A verification is its family (as       *)
(* classifyVerification puts it) and its status.                           *)
(***************************************************************************)
CONSTANT addressTemplateId   \* "address", or "unset"

identityTemplateId == "identity"

InquiryStatus ==
  {"created", "pending", "started", "completed", "expired", "failed",
   "needs_review", "approved", "declined"}

\* Mutant: a status the adapter does not know is handed through.
mapInquiryStatus_Through(status) ==
  CASE status \in {"approved", "completed"} -> "approved"
    [] status \in {"declined", "failed"} -> "declined"
    [] status = "expired" -> "expired"
    [] status \in {"needs_review", "started", "pending"} -> "in_review"
    [] OTHER -> status

mapInquiryStatus(status) ==
  CASE status \in {"approved", "completed"} -> "approved"
    [] status \in {"declined", "failed"} -> "declined"
    [] status = "expired" -> "expired"
    [] status \in {"needs_review", "started", "pending"} -> "in_review"
    [] OTHER -> "pending"

\* Mutant: whatever was run counts, passed or not.
Passed_Run(verifications, families) ==
  \E v \in verifications : v.family \in families

Passed(verifications, families) ==
  \E v \in verifications :
    v.family \in families /\ v.status \in {"passed", "confirmed"}

evidenceFromVerifications(verifications) ==
  [identity |-> Passed(verifications, {"government-id"}),
   liveness |-> Passed(verifications, {"selfie"}),
   address |-> Passed(verifications, {"database", "document"})]

deriveLevel(evidence) ==
  IF ~(evidence.identity /\ evidence.liveness) THEN "none"
  ELSE IF evidence.address THEN "enhanced" ELSE "basic"

NoEvidence == [identity |-> FALSE, liveness |-> FALSE, address |-> FALSE]

mapDecision(inquiry) ==
  LET status == mapInquiryStatus(inquiry.status)
      evidence == IF status = "approved"
                  THEN evidenceFromVerifications(inquiry.verifications)
                  ELSE NoEvidence
  IN [status |-> status,
      identity |-> evidence.identity,
      liveness |-> evidence.liveness,
      address |-> evidence.address,
      level |-> IF status = "approved" THEN deriveLevel(evidence) ELSE "none"]

\* A body that fails the schema or names no inquiry is unrecognised: null.
mapWebhookEvent(body) ==
  CASE body.type = "unrecognised" -> [type |-> "null"]
    [] body.type \in {"inquiry.expired", "inquiry.redacted"} ->
         [type |-> "session.expired"]
    [] OTHER -> [type |-> "decision", decision |-> mapDecision(body.record)]

\* One pair that is both in the drift window and right is enough.
verifySignatureHeader(pairs) ==
  IF pairs = {} THEN "missing_signature_header"
  ELSE IF \E pair \in pairs : pair.fresh /\ pair.ok THEN "ok"
  ELSE "invalid_signature"

templateFor(workflow) ==
  IF workflow = "address" THEN addressTemplateId ELSE identityTemplateId

-----------------------------------------------------------------------------
(* Persona (external).                                                     *)

Verification(family, status) == [family |-> family, status |-> status]

Created(template) == [template |-> template, status |-> "created", verifications |-> {}]

\* The verifications a template runs, and how they may come out.
RunOf(template) ==
  IF template = "identity"
  THEN {{Verification("government-id", "passed"), Verification("selfie", s)} :
          s \in {"passed", "failed"}}
  ELSE {{Verification("government-id", "passed"), Verification("selfie", "passed"),
         Verification("document", s)} : s \in {"confirmed", "failed"}}

Finished(i, statuses) ==
  [template : {i.template}, status : statuses, verifications : RunOf(i.template)]

Moves(i) ==
  CASE i.status = "created" ->
         {[i EXCEPT !.status = s] : s \in {"started", "expired"}}
    [] i.status = "started" -> Finished(i, {"completed", "failed"})
    [] i.status \in {"completed", "needs_review"} ->
         {[i EXCEPT !.status = s] :
            s \in {"approved", "declined", "needs_review"} \ {i.status}}
    [] i.status = "approved" -> {[i EXCEPT !.status = "declined"]}
    [] OTHER -> {}

\* completed stands for approved where no later automation decides.
Verdict(i) ==
  CASE i.status \in {"approved", "completed"} -> "approved"
    [] i.status \in {"declined", "failed"} -> "declined"
    [] i.status = "expired" -> "expired"
    [] OTHER -> "open"

Confirmed(i, families) ==
  \E v \in i.verifications :
    v.family \in families /\ v.status \in {"passed", "confirmed"}

SawIdentity(i) == Confirmed(i, {"government-id"}) /\ Confirmed(i, {"selfie"})
SawAddress(i) == Confirmed(i, {"database", "document"})

Webhooks(i) ==
  {[type |-> IF i.status = "expired" THEN "inquiry.expired" ELSE "inquiry.changed",
    record |-> i],
   [type |-> "inquiry.redacted", record |-> i],
   [type |-> "unrecognised", record |-> i]}
=============================================================================
