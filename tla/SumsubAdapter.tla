--------------------------- MODULE SumsubAdapter ---------------------------
(***************************************************************************)
(* packages/adapter-sumsub: what the adapter makes of an applicant, of the *)
(* two responses fetchDecision reads, and of a webhook.  An applicant is   *)
(* the part of Sumsub's record the adapter looks at.                       *)
(***************************************************************************)
CONSTANT addressLevelName   \* "address", or "unset"

identityLevelName == "identity"

ReviewStatus ==
  {"init", "pending", "prechecked", "queued", "completed", "onHold"}

mapReview(status, review) ==
  CASE status = "completed" ->
         IF review.answer = "GREEN" THEN "approved"
         ELSE IF review.answer = "RED" /\ review.rejectType # "RETRY"
              THEN "declined"
              ELSE "in_review"
    [] status \in {"pending", "prechecked", "queued", "onHold"} -> "in_review"
    [] OTHER -> "pending"

\* status and lookup are the records the two responses were taken from.
mapDecision(status, lookup) ==
  LET mapped == mapReview(status.reviewStatus, status.review)
      approved == mapped = "approved"
      isAddressLevel ==
        addressLevelName # "unset" /\ lookup.levelName = addressLevelName
  IN [status |-> mapped,
      identity |-> approved,
      liveness |-> approved,
      address |-> approved /\ isAddressLevel,
      level |-> IF approved /\ isAddressLevel THEN "enhanced"
                ELSE IF approved /\ lookup.levelName = identityLevelName
                     THEN "basic" ELSE "none"]

\* The decision a webhook body alone allows.  A body that fails the schema or
\* names no applicant is unrecognised: null.
mapWebhookBody(body) ==
  LET mapped == mapReview(body.record.reviewStatus, body.record.review)
      approved == mapped = "approved"
  IN CASE body.type = "unrecognised" -> [type |-> "null"]
       [] body.type = "applicantDeleted" -> [type |-> "session.expired"]
       [] OTHER ->
            [type |-> "decision",
             decision |->
               [status |-> mapped, identity |-> approved, liveness |-> approved,
                address |-> FALSE, level |-> "none"]]

\* The digest covers the body only: a webhook does not age.
verifyWebhookDigest(pairs) ==
  IF pairs = {} THEN "missing_signature_header"
  ELSE IF \E pair \in pairs : pair.ok THEN "ok" ELSE "invalid_signature"

\* The level startSession creates the applicant at.
levelFor(workflow) ==
  IF workflow = "address" THEN addressLevelName ELSE identityLevelName

-----------------------------------------------------------------------------
(* Sumsub (external).                                                      *)

NoReview == [answer |-> "none", rejectType |-> "none"]

Red(rejectType) == [answer |-> "RED", rejectType |-> rejectType]

Reviews ==
  {NoReview, Red("RETRY"), Red("FINAL"),
   [NoReview EXCEPT !.answer = "GREEN"]}

Created(level) ==
  [levelName |-> level, reviewStatus |-> "init", review |-> NoReview]

\* The user submits, the review goes on, is finished, is reopened by a
\* resubmission or reversed; the applicant is moved to another level.
Moves(a) ==
  CASE a.reviewStatus = "init" -> {[a EXCEPT !.reviewStatus = "pending"]}
    [] a.reviewStatus = "completed" ->
         {[a EXCEPT !.review = Red("FINAL")], Created("address"),
          [a EXCEPT !.reviewStatus = "pending", !.review = NoReview]} \ {a}
    [] OTHER ->
         {[a EXCEPT !.reviewStatus = "completed", !.review = review] :
            review \in Reviews}
           \cup ({[a EXCEPT !.reviewStatus = "onHold"]} \ {a})

\* What the reviewers found, whatever the adapter makes of it.
Verdict(a) ==
  IF a.reviewStatus # "completed" THEN "open"
  ELSE CASE a.review.answer = "GREEN" -> "approved"
         [] a.review.rejectType = "FINAL" -> "declined"
         [] OTHER -> "open"

SawIdentity(a) == Verdict(a) = "approved" /\ a.levelName \in {"identity", "address"}
SawAddress(a) == Verdict(a) = "approved" /\ a.levelName = "address"

Webhooks(a) ==
  {[type |-> type, record |-> a] :
     type \in {"applicantReviewed", "applicantDeleted", "unrecognised"}}
=============================================================================
