---------------------------- MODULE KycSessionProofs ----------------------------
(***************************************************************************)
(* Proofs about KycSession, for any adapters, workflows and bounds.        *)
(*                                                                         *)
(* What an adapter answers is related to what its vendor found in the      *)
(* record the answer was taken from, adapter by adapter; the inductive     *)
(* invariant says which records a call or a webhook can have come from.    *)
(***************************************************************************)
EXTENDS KycSession, FiniteSetTheorems, TLAPS

-----------------------------------------------------------------------------
(* The inductive invariant.                                                *)

DecisionStatus == {"approved", "declined", "in_review", "pending", "expired"}

\* A decision is well formed, its verdict is one of these facts, and it
\* carries a level with an approval only.
Sound(event, facts) ==
  event.type = "decision" =>
    /\ event.decision.status \in DecisionStatus
    /\ IsVerdict(event.decision.status) => event.decision.status \in facts
    /\ event.decision.level \in {"basic", "enhanced"} =>
         event.decision.status = "approved"

\* Its level rests on these facts.
Backed(event, facts) ==
  event.type = "decision" =>
    /\ event.decision.level = "enhanced" => "address" \in facts
    /\ event.decision.level = "basic" /\ vendor # "didit" => "identity" \in facts

\* A record the vendor can have.  Sumsub's reviews are constrained: what its
\* adapter calls declined is every RED review that is not a RETRY.
Sumsubs(r) ==
  /\ DOMAIN r = {"levelName", "reviewStatus", "review"}
  /\ r.review \in S!Reviews

Didits(r) == DOMAIN r = {"workflow", "status", "id", "liveness", "face", "poa"}

RecordOK(r) ==
  /\ vendor = "sumsub" => Sumsubs(r)
  /\ vendor = "didit" => Didits(r)

\* The vendor has this record, and what it found is among these facts.
Found(r, facts) == RecordOK(r) /\ Facts(r) \subseteq facts

CallField == {"at", "told", "parts", "seen", "steady", "fellBack", "result"}

\* What a call's answer may rest on, facts being all the vendor ever found.
SeenBy(k, facts) == IF k.fellBack THEN facts ELSE k.seen

\* A call under way, the vendor's record being r: what its answers were taken
\* from, and what the webhook told.
Fetches(c, k, r, facts) ==
  /\ Found(r, k.seen)
  /\ \A p \in DOMAIN k.parts :
       Found(k.parts[p], k.seen) /\ (k.steady => k.parts[p] = r)
  /\ c = "webhook" => /\ Sound(k.told, facts) /\ Backed(k.told, facts)
                      /\ k.told.type = "decision"
  /\ k.fellBack = FALSE
  /\ k.result = NoDecision

CallOK(c, k, r, facts) ==
  /\ DOMAIN k = CallField
  /\ k.at \in {"idle", "fetching", "done"}
  /\ DOMAIN k.parts \subseteq Request
  /\ k.seen \subseteq facts
  /\ k.result.type \in ResultOf(c)
  /\ Sound(k.result, SeenBy(k, facts))
  /\ (vendor = "sumsub" => k.steady) => Backed(k.result, SeenBy(k, facts))
  /\ k.at = "fetching" => Fetches(c, k, r, facts)

CallsInv ==
  /\ DOMAIN call = {"webhook", "poll"}
  /\ \A c \in {"webhook", "poll"} : CallOK(c, call[c], record, past)

\* A webhook tells what the vendor once found.
MailInv ==
  /\ IsFiniteSet(mail) /\ Cardinality(mail) <= MaxMail
  /\ \A m \in mail : Sound(Event(m.body), past) /\ Backed(Event(m.body), past)

\* The issuer asks about a session the vendor has.
IssuerInv ==
  /\ issuer.at \in {"new", "linking", "polling", "awaiting", "failed", "capped",
                    "minted", "exited"}
  /\ DOMAIN issuer = {"at", "polls", "credential"}
  /\ issuer.polls \in 0 .. PollCap
  /\ issuer.at = "new" =>
       /\ record = NoRecord /\ mail = {}
       /\ \A c \in {"webhook", "poll"} : call[c] = Idle
  /\ issuer.at \in {"linking", "polling", "awaiting"} => Found(record, past)

SessionInv ==
  /\ vendor \in Vendor
  /\ moves \in 0 .. MaxMoves
  /\ record # NoRecord \/ mail # {} => Found(record, past)
  /\ MailInv /\ CallsInv /\ IssuerInv

-----------------------------------------------------------------------------
(* Sumsub.                                                                 *)

LEMMA SumsubStatus ==
  ASSUME NEW status, NEW review
  PROVE  /\ S!mapReview(status, review)
              \in {"approved", "declined", "in_review", "pending"}
         /\ S!mapReview(status, review) = "approved" =>
              status = "completed" /\ review.answer = "GREEN"
         /\ S!mapReview(status, review) = "declined" =>
              /\ status = "completed"
              /\ review.answer = "RED" /\ review.rejectType # "RETRY"
  BY Zenon DEF S!mapReview

LEMMA SumsubReviews ==
  ASSUME NEW review \in S!Reviews
  PROVE  /\ DOMAIN review = {"answer", "rejectType"}
         /\ review.answer = "RED" => review.rejectType \in {"RETRY", "FINAL"}
         /\ review.answer = "GREEN" => review.rejectType # "FINAL"
  BY DEF S!Reviews, S!Red, S!NoReview

LEMMA SumsubFinds ==
  ASSUME NEW r, Sumsubs(r), r.reviewStatus = "completed"
  PROVE  /\ r.review.answer = "GREEN" => S!Verdict(r) = "approved"
         /\ r.review.answer = "RED" /\ r.review.rejectType # "RETRY"
              => S!Verdict(r) = "declined"
  <1>1. /\ r.review.answer = "RED" => r.review.rejectType \in {"RETRY", "FINAL"}
        /\ r.review.answer = "GREEN" => r.review.rejectType # "FINAL"
    BY SumsubReviews DEF Sumsubs
  <1>2. ASSUME r.review.answer = "GREEN" PROVE S!Verdict(r) = "approved"
    BY <1>1, <1>2, Zenon DEF S!Verdict
  <1>3. ASSUME r.review.answer = "RED", r.review.rejectType # "RETRY"
        PROVE  S!Verdict(r) = "declined"
    <2>1. r.review.rejectType = "FINAL" /\ r.review.answer # "GREEN"
      BY <1>1, <1>3
    <2> QED
      BY <2>1, Zenon DEF S!Verdict
  <1> QED
    BY <1>2, <1>3

\* What the answer made of a review says, the vendor found.
LEMMA SumsubVerdict ==
  ASSUME NEW r, Sumsubs(r)
  PROVE  LET status == S!mapReview(r.reviewStatus, r.review)
         IN /\ status \in DecisionStatus
            /\ IsVerdict(status) => S!Verdict(r) = status
  BY SumsubStatus, SumsubFinds DEF DecisionStatus, IsVerdict

\* A decision read from two answers of one record, or of two.
LEMMA SumsubDecides ==
  ASSUME NEW r, Sumsubs(r), NEW lookup
  PROVE  LET d == S!mapDecision(r, lookup)
         IN /\ d.status = S!mapReview(r.reviewStatus, r.review)
            /\ d.level \in {"basic", "enhanced"} => d.status = "approved"
            /\ lookup = r =>
                 /\ d.level = "enhanced" => S!SawAddress(r)
                 /\ d.level = "basic" => S!SawIdentity(r)
  <1>1. PICK d, mapped : /\ d = S!mapDecision(r, lookup)
                         /\ mapped = S!mapReview(r.reviewStatus, r.review)
    OBVIOUS
  <1>2. d.status = mapped
    BY <1>1 DEF S!mapDecision
  <1>4. d.level = "enhanced" =>
          /\ mapped = "approved" /\ addressWorkflow # "unset"
          /\ lookup.levelName = addressWorkflow
    BY <1>1 DEF S!mapDecision
  <1>5. d.level = "basic" => mapped = "approved" /\ lookup.levelName = "identity"
    BY <1>1 DEF S!mapDecision, S!identityLevelName
  <1>6. mapped = "approved" => S!Verdict(r) = "approved"
    BY <1>1, SumsubVerdict DEF IsVerdict
  <1>7. addressWorkflow # "unset" => addressWorkflow = "address"
    BY BoundsAssumption
  <1> QED
    BY <1>1, <1>2, <1>4, <1>5, <1>6, <1>7 DEF S!SawAddress, S!SawIdentity

\* A webhook of a record says what its status says, and names no level.
LEMMA SumsubTells ==
  ASSUME NEW r, Sumsubs(r), NEW body \in S!Webhooks(r)
  PROVE  LET event == S!mapWebhookBody(body)
         IN /\ event.type \in {"session.expired", "null", "decision"}
            /\ event.type = "decision" =>
                 /\ event.decision.status = S!mapReview(r.reviewStatus, r.review)
                 /\ event.decision.level = "none"
  <1>1. body.record = r
    BY DEF S!Webhooks
  <1> QED
    BY <1>1 DEF S!mapWebhookBody

LEMMA SumsubMoves ==
  ASSUME NEW a, Sumsubs(a), NEW r \in S!Moves(a)
  PROVE  Sumsubs(r)
  <1>1. \/ r = [a EXCEPT !.reviewStatus = "pending"]
        \/ r = [a EXCEPT !.review = S!Red("FINAL")]
        \/ r = S!Created("address")
        \/ r = [a EXCEPT !.reviewStatus = "pending", !.review = S!NoReview]
        \/ \E review \in S!Reviews :
             r = [a EXCEPT !.reviewStatus = "completed", !.review = review]
        \/ r = [a EXCEPT !.reviewStatus = "onHold"]
    BY Zenon DEF S!Moves
  <1>2. S!NoReview \in S!Reviews /\ S!Red("FINAL") \in S!Reviews
    BY DEF S!Reviews
  <1>3. CASE r = S!Created("address")
    BY <1>2, <1>3 DEF Sumsubs, S!Created
  <1>4. CASE \/ r = [a EXCEPT !.reviewStatus = "pending"]
             \/ r = [a EXCEPT !.reviewStatus = "onHold"]
    BY <1>4 DEF Sumsubs
  <1>5. ASSUME NEW review \in S!Reviews,
               \/ r = [a EXCEPT !.review = review]
               \/ r = [a EXCEPT !.reviewStatus = "pending", !.review = review]
               \/ r = [a EXCEPT !.reviewStatus = "completed", !.review = review]
        PROVE  Sumsubs(r)
    BY <1>5 DEF Sumsubs
  <1> QED
    BY <1>1, <1>2, <1>3, <1>4, <1>5

LEMMA SumsubCreates ==
  ASSUME NEW level
  PROVE  Sumsubs(S!Created(level))
  BY DEF Sumsubs, S!Created, S!Reviews

-----------------------------------------------------------------------------
(* Persona.                                                                *)

\* What the adapter makes of an inquiry's status, the vendor meant.
LEMMA PersonaVerdict ==
  ASSUME NEW i
  PROVE  LET status == P!mapInquiryStatus(i.status)
         IN /\ status \in DecisionStatus
            /\ IsVerdict(status) => P!Verdict(i) = status
  BY Zenon DEF P!mapInquiryStatus, P!Verdict, DecisionStatus, IsVerdict

LEMMA PersonaDecides ==
  ASSUME NEW i
  PROVE  LET d == P!mapDecision(i)
         IN /\ d.status = P!mapInquiryStatus(i.status)
            /\ d.level \in {"basic", "enhanced"} => d.status = "approved"
            /\ d.level = "enhanced" => P!SawAddress(i)
            /\ d.level = "basic" => P!SawIdentity(i)
  <1>1. PICK d, e, status :
          /\ d = P!mapDecision(i) /\ status = P!mapInquiryStatus(i.status)
          /\ e = P!evidenceFromVerifications(i.verifications)
    OBVIOUS
  <1>2. /\ d.status = status
        /\ d.level = IF status = "approved" THEN P!deriveLevel(e) ELSE "none"
    BY <1>1 DEF P!mapDecision
  <1>3. /\ e.identity = P!Passed(i.verifications, {"government-id"})
        /\ e.liveness = P!Passed(i.verifications, {"selfie"})
        /\ e.address = P!Passed(i.verifications, {"database", "document"})
    BY <1>1 DEF P!evidenceFromVerifications
  <1>4. /\ P!deriveLevel(e) = "enhanced" => e.address
        /\ P!deriveLevel(e) = "basic" => e.identity /\ e.liveness
    BY DEF P!deriveLevel
  <1>5. P!deriveLevel(e) = "enhanced" => P!SawAddress(i)
    BY <1>3, <1>4 DEF P!SawAddress, P!Confirmed, P!Passed
  <1>6. P!deriveLevel(e) = "basic" => P!SawIdentity(i)
    BY <1>3, <1>4 DEF P!SawIdentity, P!Confirmed, P!Passed
  <1> QED
    BY <1>1, <1>2, <1>5, <1>6

LEMMA PersonaTells ==
  ASSUME NEW i, NEW body \in P!Webhooks(i)
  PROVE  LET event == P!mapWebhookEvent(body)
         IN /\ event.type \in {"session.expired", "null", "decision"}
            /\ event.type = "decision" => event.decision = P!mapDecision(i)
  BY DEF P!Webhooks, P!mapWebhookEvent

-----------------------------------------------------------------------------
(* Didit.                                                                  *)

LEMMA DiditVerdict ==
  ASSUME NEW d
  PROVE  LET status == D!mapStatus(d.status)
         IN /\ status \in DecisionStatus
            /\ IsVerdict(status) => D!Verdict(d) = status
  BY Zenon DEF D!mapStatus, D!Verdict, DecisionStatus, IsVerdict

LEMMA DiditDecides ==
  ASSUME NEW d
  PROVE  LET decision == D!mapDecision(d)
         IN /\ decision.status = D!mapStatus(d.status)
            /\ decision.level \in {"basic", "enhanced"} =>
                 decision.status = "approved"
            /\ decision.level = "enhanced" => D!SawAddress(d)
  <1>1. PICK decision, status :
          decision = D!mapDecision(d) /\ status = D!mapStatus(d.status)
    OBVIOUS
  <1>2. decision.status = status
    BY <1>1 DEF D!mapDecision
  <1>3. decision.level \in {"basic", "enhanced"} => status = "approved"
    BY <1>1 DEF D!mapDecision
  <1>4. decision.level = "enhanced" =>
          D!featureFlag(d.poa, FALSE, status = "approved")
    BY <1>1 DEF D!mapDecision
  <1> QED
    BY <1>1, <1>2, <1>3, <1>4 DEF D!featureFlag, D!SawAddress

\* A webhook leaves features out, and a proof of address left out does not
\* count.
LEMMA DiditTells ==
  ASSUME NEW d, Didits(d), NEW body \in D!Webhooks(d)
  PROVE  LET event == D!mapWebhookBody(body)
         IN /\ event.type \in {"session.expired", "null", "decision"}
            /\ event.type = "decision" =>
                 /\ event.decision.status = D!mapStatus(d.status)
                 /\ event.decision.level \in {"basic", "enhanced"} =>
                      event.decision.status = "approved"
                 /\ event.decision.level = "enhanced" => D!SawAddress(d)
  <1>1. PICK r : /\ r = body.record
                 /\ r \in {d, [d EXCEPT !.id = "absent", !.liveness = "absent",
                                        !.face = "absent", !.poa = "absent"]}
    BY DEF D!Webhooks
  <1>2. r.status = d.status /\ (r.poa = "Approved" => d.poa = "Approved")
    BY <1>1 DEF Didits
  <1>3. PICK event : event = D!mapWebhookBody(body)
    OBVIOUS
  <1>4. /\ event.type \in {"session.expired", "null", "decision"}
        /\ event.type = "decision" => event.decision = D!mapDecision(r)
    BY <1>1, <1>3 DEF D!mapWebhookBody
  <1> QED
    BY <1>2, <1>3, <1>4, DiditDecides DEF D!SawAddress

LEMMA DiditMoves ==
  ASSUME NEW d, Didits(d), NEW r \in D!Moves(d)
  PROVE  Didits(r)
  <1>1. \/ \E status : r = [d EXCEPT !.status = status]
        \/ \E status, feature : r = D!Outcome(d, status, feature)
    BY Zenon DEF D!Moves
  <1> QED
    BY <1>1 DEF Didits, D!Outcome

LEMMA DiditCreates ==
  ASSUME NEW workflow
  PROVE  Didits(D!Created(workflow))
  BY DEF Didits, D!Created

-----------------------------------------------------------------------------
(* The adapter that is wired.                                              *)

LEMMA ByIs ==
  ASSUME NEW a, NEW b, NEW c
  PROVE  /\ vendor = "sumsub" => By(a, b, c) = a
         /\ vendor = "persona" => By(a, b, c) = b
         /\ vendor = "didit" => By(a, b, c) = c
  BY Zenon DEF By

LEMMA OneOfThree ==
  ASSUME vendor \in Vendor
  PROVE  vendor = "sumsub" \/ vendor = "persona" \/ vendor = "didit"
  BY BoundsAssumption

LEMMA FactsAre ==
  ASSUME NEW r
  PROVE  /\ Verdict(r) \in Facts(r)
         /\ SawIdentity(r) => "identity" \in Facts(r)
         /\ SawAddress(r) => "address" \in Facts(r)
  BY DEF Facts

\* What fetchDecision makes of its answers is sound, and the level is backed
\* where both answers of a Sumsub fetch show one record.
LEMMA DecideIsSound ==
  ASSUME vendor \in Vendor, NEW parts, DOMAIN parts = Request, NEW facts,
         \A p \in DOMAIN parts : Found(parts[p], facts)
  PROVE  LET result == [type |-> "decision", decision |-> Decide(parts)]
         IN /\ Sound(result, facts)
            /\ (vendor = "sumsub" => parts["status"] = parts["lookup"])
                 => Backed(result, facts)
  <1>1. PICK r, d : r = parts["status"] /\ d = Decide(parts)
    OBVIOUS
  <1>2. "status" \in Request
    BY OneOfThree, ByIs DEF Request
  <1>3. RecordOK(r) /\ Facts(r) \subseteq facts
    BY <1>1, <1>2 DEF Found
  <1>4. /\ Verdict(r) \in facts
        /\ SawIdentity(r) => "identity" \in facts
        /\ SawAddress(r) => "address" \in facts
    BY <1>3, FactsAre
  <1>5. /\ d.status \in DecisionStatus
        /\ IsVerdict(d.status) => d.status = Verdict(r)
        /\ d.level \in {"basic", "enhanced"} => d.status = "approved"
        /\ (vendor = "sumsub" => r = parts["lookup"]) =>
             /\ d.level = "enhanced" => SawAddress(r)
             /\ d.level = "basic" /\ vendor # "didit" => SawIdentity(r)
    <2>1. CASE vendor = "sumsub"
      <3>1. d = S!mapDecision(r, parts["lookup"]) /\ Sumsubs(r)
        BY <1>1, <1>3, <2>1, ByIs DEF Decide, RecordOK
      <3>2. /\ Verdict(r) = S!Verdict(r)
            /\ SawAddress(r) = S!SawAddress(r)
            /\ SawIdentity(r) = S!SawIdentity(r)
        BY <2>1, ByIs DEF Verdict, SawAddress, SawIdentity
      <3> QED
        BY <2>1, <3>1, <3>2, SumsubVerdict, SumsubDecides
    <2>2. CASE vendor = "persona"
      <3>1. d = P!mapDecision(r)
        BY <1>1, <2>2, ByIs DEF Decide
      <3>2. /\ Verdict(r) = P!Verdict(r)
            /\ SawAddress(r) = P!SawAddress(r)
            /\ SawIdentity(r) = P!SawIdentity(r)
        BY <2>2, ByIs DEF Verdict, SawAddress, SawIdentity
      <3> QED
        BY <2>2, <3>1, <3>2, PersonaVerdict, PersonaDecides
    <2>3. CASE vendor = "didit"
      <3>1. d = D!mapDecision(r)
        BY <1>1, <2>3, ByIs DEF Decide
      <3>2. Verdict(r) = D!Verdict(r) /\ SawAddress(r) = D!SawAddress(r)
        BY <2>3, ByIs DEF Verdict, SawAddress
      <3> QED
        BY <2>3, <3>1, <3>2, DiditVerdict, DiditDecides
    <2> QED
      BY <2>1, <2>2, <2>3, OneOfThree
  <1>6. Sound([type |-> "decision", decision |-> d], facts)
    BY <1>4, <1>5 DEF Sound
  <1>7. (vendor = "sumsub" => r = parts["lookup"])
          => Backed([type |-> "decision", decision |-> d], facts)
    BY <1>4, <1>5 DEF Backed
  <1> QED
    BY <1>1, <1>6, <1>7

\* What a webhook tells is sound and backed by the record it was posted about.
LEMMA TellIsSound ==
  ASSUME vendor \in Vendor, NEW r, NEW facts, Found(r, facts),
         NEW body \in Webhooks(r)
  PROVE  Sound(Event(body), facts) /\ Backed(Event(body), facts)
  <1>1. PICK event : event = Event(body)
    OBVIOUS
  <1>2. /\ Verdict(r) \in facts
        /\ SawIdentity(r) => "identity" \in facts
        /\ SawAddress(r) => "address" \in facts
        /\ RecordOK(r)
    BY FactsAre DEF Found
  <1>3. /\ event.type \in {"session.expired", "null", "decision"}
        /\ event.type = "decision" =>
             /\ event.decision.status \in DecisionStatus
             /\ IsVerdict(event.decision.status) =>
                  event.decision.status = Verdict(r)
             /\ event.decision.level \in {"basic", "enhanced"} =>
                  event.decision.status = "approved"
             /\ event.decision.level = "enhanced" => SawAddress(r)
             /\ event.decision.level = "basic" /\ vendor # "didit"
                  => SawIdentity(r)
    <2>1. CASE vendor = "sumsub"
      <3>1. event = S!mapWebhookBody(body) /\ Sumsubs(r) /\ body \in S!Webhooks(r)
        BY <1>1, <1>2, <2>1, ByIs DEF Event, RecordOK, Webhooks
      <3>2. Verdict(r) = S!Verdict(r)
        BY <2>1, ByIs DEF Verdict
      <3> QED
        BY <2>1, <3>1, <3>2, SumsubVerdict, SumsubTells
    <2>2. CASE vendor = "persona"
      <3>1. event = P!mapWebhookEvent(body) /\ body \in P!Webhooks(r)
        BY <1>1, <2>2, ByIs DEF Event, Webhooks
      <3>2. /\ Verdict(r) = P!Verdict(r)
            /\ SawAddress(r) = P!SawAddress(r)
            /\ SawIdentity(r) = P!SawIdentity(r)
        BY <2>2, ByIs DEF Verdict, SawAddress, SawIdentity
      <3> QED
        BY <2>2, <3>1, <3>2, PersonaVerdict, PersonaDecides, PersonaTells
    <2>3. CASE vendor = "didit"
      <3>1. event = D!mapWebhookBody(body) /\ Didits(r) /\ body \in D!Webhooks(r)
        BY <1>1, <1>2, <2>3, ByIs DEF Event, RecordOK, Webhooks
      <3>2. Verdict(r) = D!Verdict(r) /\ SawAddress(r) = D!SawAddress(r)
        BY <2>3, ByIs DEF Verdict, SawAddress
      <3> QED
        BY <2>3, <3>1, <3>2, DiditVerdict, DiditTells
    <2> QED
      BY <2>1, <2>2, <2>3, OneOfThree
  <1> QED
    BY <1>1, <1>2, <1>3 DEF Sound, Backed

LEMMA MovesAreRecords ==
  ASSUME vendor \in Vendor, RecordOK(record), NEW r \in Moves
  PROVE  RecordOK(r)
  <1>1. CASE vendor = "sumsub"
    BY <1>1, ByIs, SumsubMoves DEF Moves, RecordOK
  <1>2. CASE vendor = "persona"
    BY <1>2 DEF RecordOK
  <1>3. CASE vendor = "didit"
    BY <1>3, ByIs, DiditMoves DEF Moves, RecordOK
  <1> QED
    BY <1>1, <1>2, <1>3, OneOfThree

LEMMA CreatedIsRecord ==
  ASSUME vendor \in Vendor, NEW target
  PROVE  RecordOK(Created(target))
  <1>1. CASE vendor = "sumsub"
    BY <1>1, ByIs, SumsubCreates DEF Created, RecordOK
  <1>2. CASE vendor = "persona"
    BY <1>2 DEF RecordOK
  <1>3. CASE vendor = "didit"
    BY <1>3, ByIs, DiditCreates DEF Created, RecordOK
  <1> QED
    BY <1>1, <1>2, <1>3, OneOfThree

\* What checking the signatures of a webhook can answer.
LEMMA CheckedIs ==
  ASSUME vendor \in Vendor, NEW pairs
  PROVE  Checked(pairs) \in {"ok", "missing_signature_header", "stale_signature",
                             "invalid_signature"}
  <1>1. CASE vendor = "sumsub"
    BY <1>1, ByIs DEF Checked, S!verifyWebhookDigest
  <1>2. CASE vendor = "persona"
    BY <1>2, ByIs DEF Checked, P!verifySignatureHeader
  <1>3. CASE vendor = "didit"
    BY <1>3, ByIs DEF Checked, D!verifySignature
  <1> QED
    BY <1>1, <1>2, <1>3, OneOfThree

\* What a body can be made of, whatever it says.
LEMMA EventIs ==
  ASSUME vendor \in Vendor, NEW body
  PROVE  Event(body).type \in {"decision", "session.expired", "null"}
  <1>1. CASE vendor = "sumsub"
    <2>1. Event(body) = S!mapWebhookBody(body)
      BY <1>1, ByIs DEF Event
    <2> QED
      BY <2>1 DEF S!mapWebhookBody
  <1>2. CASE vendor = "persona"
    <2>1. Event(body) = P!mapWebhookEvent(body)
      BY <1>2, ByIs DEF Event
    <2> QED
      BY <2>1 DEF P!mapWebhookEvent
  <1>3. CASE vendor = "didit"
    <2>1. Event(body) = D!mapWebhookBody(body)
      BY <1>3, ByIs DEF Event
    <2> QED
      BY <2>1 DEF D!mapWebhookBody
  <1> QED
    BY <1>1, <1>2, <1>3, OneOfThree

\* The adapter stays: what is said of a record or an answer stays so too.
LEMMA SameAdapter ==
  ASSUME vendor' = vendor
  PROVE  /\ \A r, facts : Found(r, facts)' = Found(r, facts)
         /\ \A r : Facts(r)' = Facts(r)
         /\ \A event, facts : Sound(event, facts)' = Sound(event, facts)
         /\ \A event, facts : Backed(event, facts)' = Backed(event, facts)
         /\ \A body : Event(body)' = Event(body)
         /\ Request' = Request
         /\ \A c, k, r, facts : CallOK(c, k, r, facts)' = CallOK(c, k, r, facts)
  <1>1. ASSUME NEW a, NEW b, NEW c PROVE By(a, b, c)' = By(a, b, c)
    BY Zenon DEF By
  <1>2. ASSUME NEW r PROVE Facts(r)' = Facts(r)
    <2>1. /\ Verdict(r)' = Verdict(r)
          /\ SawIdentity(r)' = SawIdentity(r)
          /\ SawAddress(r)' = SawAddress(r)
      BY Zenon DEF By, Verdict, SawIdentity, SawAddress
    <2> QED
      BY <2>1 DEF Facts
  <1>3. ASSUME NEW r, NEW facts PROVE Found(r, facts)' = Found(r, facts)
    BY <1>2 DEF Found, RecordOK
  <1>4. ASSUME NEW event, NEW facts
        PROVE  /\ Sound(event, facts)' = Sound(event, facts)
               /\ Backed(event, facts)' = Backed(event, facts)
    BY DEF Sound, Backed
  <1>5. ASSUME NEW body PROVE Event(body)' = Event(body)
    BY Zenon DEF By, Event
  <1>6. Request' = Request
    BY Zenon DEF By, Request
  <1>7. ASSUME NEW c, NEW k, NEW r, NEW facts
        PROVE  CallOK(c, k, r, facts)' = CallOK(c, k, r, facts)
    <2>1. Fetches(c, k, r, facts)' = Fetches(c, k, r, facts)
      BY <1>3, <1>4 DEF Fetches
    <2> QED
      BY <1>4, <1>6, <2>1 DEF CallOK, SeenBy
  <1> QED
    BY <1>2, <1>3, <1>4, <1>5, <1>6, <1>7

-----------------------------------------------------------------------------
(* A call, step by step.                                                   *)

LEMMA MoreFacts ==
  ASSUME NEW facts, NEW more, facts \subseteq more
  PROVE  /\ \A event : Sound(event, facts) => Sound(event, more)
         /\ \A event : Backed(event, facts) => Backed(event, more)
         /\ \A r : Found(r, facts) => Found(r, more)
  BY DEF Sound, Backed, Found

LEMMA NothingSaid ==
  ASSUME NEW type, type # "decision", NEW facts
  PROVE  Sound([type |-> type], facts) /\ Backed([type |-> type], facts)
  BY DEF Sound, Backed

LEMMA NoDecisionIsSound ==
  ASSUME NEW facts
  PROVE  Sound(NoDecision, facts) /\ Backed(NoDecision, facts)
  BY DEF NoDecision, Sound, Backed

LEMMA IdleIsOK ==
  ASSUME NEW c, NEW r, NEW facts
  PROVE  CallOK(c, Idle, r, facts)
  BY NoDecisionIsSound DEF Idle, NoDecision, ResultOf, CallOK, CallField, SeenBy

LEMMA FetchingIsOK ==
  ASSUME NEW c, NEW told, NEW r, NEW facts, r = record, Found(r, facts),
         c = "webhook" => /\ Sound(told, facts) /\ Backed(told, facts)
                          /\ told.type = "decision"
  PROVE  CallOK(c, Fetching(told), r, facts)
  <1>1. PICK k, seen : k = Fetching(told) /\ seen = Facts(r)
    OBVIOUS
  <1>2. /\ DOMAIN k = CallField /\ k.at = "fetching" /\ k.told = told
        /\ k.parts = << >> /\ k.seen = seen /\ k.fellBack = FALSE
        /\ k.result = NoDecision
    BY <1>1 DEF Fetching, Idle, CallField
  <1>3. Found(r, seen) /\ seen \subseteq facts
    BY <1>1 DEF Found
  <1>4. Fetches(c, k, r, facts)
    BY <1>2, <1>3 DEF Fetches
  <1>5. CallOK(c, k, r, facts)
    BY <1>2, <1>3, <1>4, NoDecisionIsSound
       DEF NoDecision, ResultOf, CallOK, SeenBy
  <1> QED
    BY <1>1, <1>5

\* A call that is not under way has what it has when the vendor moves on.
LEMMA DoneStaysOK ==
  ASSUME NEW c, NEW k, NEW r, NEW s, NEW facts, NEW more,
         CallOK(c, k, r, facts), k.at # "fetching", facts \subseteq more
  PROVE  CallOK(c, k, s, more)
  BY MoreFacts DEF CallOK, SeenBy

\* A call under way sees the record move.
LEMMA MovedIsOK ==
  ASSUME NEW c, NEW k, NEW r, NEW s, NEW facts, NEW more,
         CallOK(c, k, r, facts), k.at = "fetching", RecordOK(s),
         facts \subseteq more, Facts(s) \subseteq more
  PROVE  CallOK(c, [k EXCEPT !.seen = @ \cup Facts(s), !.steady = FALSE], s, more)
  <1>1. PICK moved, seen :
          /\ seen = k.seen \cup Facts(s)
          /\ moved = [k EXCEPT !.seen = k.seen \cup Facts(s), !.steady = FALSE]
    OBVIOUS
  <1>2. DOMAIN k = CallField /\ Fetches(c, k, r, facts) /\ k.seen \subseteq facts
        /\ DOMAIN k.parts \subseteq Request
    BY DEF CallOK
  <1>3. /\ DOMAIN moved = CallField /\ moved.at = "fetching"
        /\ moved.told = k.told /\ moved.parts = k.parts /\ moved.seen = seen
        /\ moved.steady = FALSE /\ moved.fellBack = k.fellBack
        /\ moved.result = k.result
    BY <1>1, <1>2 DEF CallField
  <1>4. Found(s, seen)
    BY <1>1 DEF Found
  <1>5. \A p \in DOMAIN moved.parts : Found(moved.parts[p], seen)
    BY <1>1, <1>2, <1>3, MoreFacts DEF Fetches
  <1>6. c = "webhook" => /\ Sound(k.told, more) /\ Backed(k.told, more)
                         /\ k.told.type = "decision"
    BY <1>2, MoreFacts DEF Fetches
  <1>7. Fetches(c, moved, s, more)
    BY <1>2, <1>3, <1>4, <1>5, <1>6 DEF Fetches
  <1>8. moved.result = NoDecision /\ seen \subseteq more
    BY <1>1, <1>2, <1>3 DEF Fetches
  <1>9. CallOK(c, moved, s, more)
    BY <1>2, <1>3, <1>7, <1>8, NoDecisionIsSound DEF NoDecision, ResultOf, CallOK
  <1> QED
    BY <1>1, <1>9

\* One more answer, taken from the record as it is.
LEMMA AnsweredIsOK ==
  ASSUME NEW c, NEW k, NEW r, NEW facts, NEW part \in Request,
         CallOK(c, k, r, facts), k.at = "fetching"
  PROVE  CallOK(c, [k EXCEPT !.parts = With(@, part, r)], r, facts)
  <1>1. PICK parts, one : /\ parts = With(k.parts, part, r)
                          /\ one = [k EXCEPT !.parts = With(k.parts, part, r)]
    OBVIOUS
  <1>2. DOMAIN k = CallField /\ Fetches(c, k, r, facts) /\ k.seen \subseteq facts
        /\ DOMAIN k.parts \subseteq Request
    BY DEF CallOK
  <1>3. /\ DOMAIN one = CallField /\ one.at = "fetching"
        /\ one.told = k.told /\ one.parts = parts /\ one.seen = k.seen
        /\ one.steady = k.steady /\ one.fellBack = k.fellBack
        /\ one.result = k.result
    BY <1>1, <1>2 DEF CallField
  <1>4. /\ DOMAIN parts = DOMAIN k.parts \cup {part}
        /\ \A p \in DOMAIN parts : parts[p] = IF p = part THEN r ELSE k.parts[p]
    BY <1>1 DEF With
  <1>5. \A p \in DOMAIN parts :
          Found(parts[p], k.seen) /\ (k.steady => parts[p] = r)
    BY <1>2, <1>4 DEF Fetches
  <1>6. Fetches(c, one, r, facts)
    BY <1>2, <1>3, <1>5 DEF Fetches
  <1>7. one.result = NoDecision
    BY <1>2, <1>3 DEF Fetches
  <1>8. CallOK(c, one, r, facts)
    BY <1>2, <1>3, <1>4, <1>6, <1>7, NoDecisionIsSound
       DEF NoDecision, ResultOf, CallOK
  <1> QED
    BY <1>1, <1>8

\* A call ends with this result.
End(k, result, fellBack) ==
  [k EXCEPT !.at = "done", !.told = NoDecision, !.parts = << >>,
            !.result = result, !.fellBack = fellBack]

LEMMA EndIsOK ==
  ASSUME NEW c, NEW k, NEW r, NEW facts, CallOK(c, k, r, facts), NEW result,
         NEW fellBack, result.type \in ResultOf(c),
         LET rests == IF fellBack THEN facts ELSE k.seen
         IN /\ Sound(result, rests)
            /\ (vendor = "sumsub" => k.steady) => Backed(result, rests)
  PROVE  CallOK(c, End(k, result, fellBack), r, facts)
  <1>1. PICK e : e = End(k, result, fellBack)
    OBVIOUS
  <1>2. DOMAIN k = CallField /\ k.seen \subseteq facts
    BY DEF CallOK
  <1>3. /\ DOMAIN e = CallField /\ e.at = "done" /\ e.parts = << >>
        /\ e.seen = k.seen /\ e.steady = k.steady /\ e.fellBack = fellBack
        /\ e.result = result
    BY <1>1, <1>2 DEF End, CallField
  <1>4. CallOK(c, e, r, facts)
    BY <1>2, <1>3 DEF CallOK, SeenBy
  <1> QED
    BY <1>1, <1>4

\* The decision of a fetch whose requests were all answered.
LEMMA FetchedIsOK ==
  ASSUME vendor \in Vendor, NEW c, NEW k, NEW r, NEW facts,
         CallOK(c, k, r, facts), k.at = "fetching", DOMAIN k.parts = Request
  PROVE  CallOK(c, End(k, [type |-> "decision", decision |-> Decide(k.parts)],
                       FALSE), r, facts)
  <1>1. PICK result :
          result = [type |-> "decision", decision |-> Decide(k.parts)]
    OBVIOUS
  <1>2. Fetches(c, k, r, facts)
    BY DEF CallOK
  <1>3. \A p \in DOMAIN k.parts : Found(k.parts[p], k.seen)
    BY <1>2 DEF Fetches
  <1>4. /\ Sound(result, k.seen)
        /\ (vendor = "sumsub" => k.parts["status"] = k.parts["lookup"])
             => Backed(result, k.seen)
    BY <1>1, <1>3, DecideIsSound
  <1>5. vendor = "sumsub" => "status" \in Request /\ "lookup" \in Request
    BY ByIs DEF Request
  <1>6. (vendor = "sumsub" => k.steady) => Backed(result, k.seen)
    BY <1>2, <1>4, <1>5 DEF Fetches
  <1>7. CallOK(c, End(k, result, FALSE), r, facts)
    BY <1>1, <1>4, <1>6, EndIsOK DEF ResultOf
  <1> QED
    BY <1>1, <1>7

\* A webhook whose fetch failed says what its body said; a poll throws.
LEMMA FailedIsOK ==
  ASSUME NEW c \in {"webhook", "poll"}, NEW k, NEW r, NEW facts,
         CallOK(c, k, r, facts), k.at = "fetching"
  PROVE  CallOK(c, End(k, IF c = "webhook" THEN k.told ELSE [type |-> "thrown"],
                       TRUE), r, facts)
  <1>1. PICK result :
          result = IF c = "webhook" THEN k.told ELSE [type |-> "thrown"]
    OBVIOUS
  <1>2. /\ Sound(result, facts) /\ Backed(result, facts)
        /\ result.type \in ResultOf(c)
    BY <1>1, NothingSaid DEF CallOK, Fetches, ResultOf
  <1>3. CallOK(c, End(k, result, TRUE), r, facts)
    BY <1>2, EndIsOK
  <1> QED
    BY <1>1, <1>3

\* A webhook that is answered without a fetch rests on nothing.
LEMMA ToldIsOK ==
  ASSUME NEW result, NEW seen, NEW r, NEW facts, seen \subseteq facts,
         result.type \in ResultOf("webhook"), Sound(result, {}), Backed(result, {})
  PROVE  CallOK("webhook",
                [Idle EXCEPT !.at = "done", !.seen = seen, !.result = result],
                r, facts)
  <1>1. PICK k : k = [Idle EXCEPT !.at = "done", !.seen = seen, !.result = result]
    OBVIOUS
  <1>2. /\ DOMAIN k = CallField /\ k.at = "done" /\ k.parts = << >>
        /\ k.seen = seen /\ k.fellBack = FALSE /\ k.result = result
    BY <1>1 DEF Idle, CallField
  <1>3. Sound(result, seen) /\ Backed(result, seen)
    BY MoreFacts
  <1>4. CallOK("webhook", k, r, facts)
    BY <1>2, <1>3 DEF CallOK, SeenBy
  <1> QED
    BY <1>1, <1>4

\* An event that is no approval and no decline rests on nothing.
LEMMA NotTerminal ==
  ASSUME NEW event, NEW facts, Sound(event, facts), ~IsTerminal(event)
  PROVE  Sound(event, {}) /\ Backed(event, {})
  BY DEF Sound, Backed, IsTerminal, IsVerdict

-----------------------------------------------------------------------------
(* The parts of the invariant a step leaves as they are.                   *)

LEMMA CallsKeep ==
  ASSUME vendor' = vendor, DOMAIN call' = {"webhook", "poll"},
         \A c \in {"webhook", "poll"} : CallOK(c, call'[c], record', past')
  PROVE  CallsInv'
  BY SameAdapter DEF CallsInv

LEMMA MailKeeps ==
  ASSUME MailInv, vendor' = vendor, mail' = mail, past \subseteq past'
  PROVE  MailInv'
  <1>1. PICK more : more = past'
    OBVIOUS
  <1>2. \A m \in mail : Sound(Event(m.body), more) /\ Backed(Event(m.body), more)
    BY <1>1, MoreFacts DEF MailInv
  <1>3. \A m \in mail' :
          (Sound(Event(m.body), past) /\ Backed(Event(m.body), past))'
    BY <1>1, <1>2, SameAdapter
  <1> QED
    BY <1>3 DEF MailInv

\* A step that changes the calls only.
LEMMA CallStepKeeps ==
  ASSUME SessionInv, UNCHANGED <<vendor, record, past, moves, mail, issuer>>,
         issuer.at # "new", DOMAIN call' = {"webhook", "poll"},
         \A c \in {"webhook", "poll"} : CallOK(c, call'[c], record, past)
  PROVE  SessionInv'
  <1>1. CallsInv'
    BY CallsKeep
  <1>2. MailInv'
    BY MailKeeps DEF SessionInv
  <1>3. Found(record, past)' = Found(record, past)
    BY SameAdapter
  <1>4. IssuerInv'
    BY <1>3 DEF SessionInv, IssuerInv
  <1> QED
    BY <1>1, <1>2, <1>3, <1>4 DEF SessionInv

\* Before the session is created no call is under way.
LEMMA NotNew ==
  ASSUME SessionInv,
         \/ mail # {}
         \/ \E c \in {"webhook", "poll"} : call[c].at = "fetching"
  PROVE  issuer.at # "new" /\ (mail # {} => Found(record, past))
  BY DEF SessionInv, IssuerInv, Idle

-----------------------------------------------------------------------------
(* The adapter's steps.                                                    *)

LEMMA VerifyWebhookKeeps ==
  ASSUME SessionInv, NEW m \in mail, verifyWebhook(m)
  PROVE  SessionInv'
  <1>1. /\ UNCHANGED <<vendor, record, past, moves, mail, issuer>>
        /\ issuer.at # "new" /\ Found(record, past) /\ vendor \in Vendor
        /\ DOMAIN call = {"webhook", "poll"}
        /\ CallOK("poll", call["poll"], record, past)
    BY NotNew DEF verifyWebhook, SessionInv, CallsInv
  <1>2. PICK event, checked, seen :
          event = Event(m.body) /\ checked = Checked(m.pairs) /\ seen = Facts(record)
    OBVIOUS
  <1>3. Sound(event, past) /\ Backed(event, past) /\ seen \subseteq past
    BY <1>1, <1>2 DEF SessionInv, MailInv, Found
  <1>4. PICK k : /\ call' = [call EXCEPT !["webhook"] = k]
                 /\ CallOK("webhook", k, record, past)
    <2>1. CASE checked # "ok"
      <3>1. PICK result : result = [type |-> checked]
        OBVIOUS
      <3>2. checked \in ResultOf("webhook") /\ checked # "decision"
        BY <1>1, <1>2, <2>1, CheckedIs DEF ResultOf
      <3>3. Sound(result, {}) /\ Backed(result, {})
        BY <3>1, <3>2, NothingSaid
      <3>4. CallOK("webhook",
                   [Idle EXCEPT !.at = "done", !.seen = seen, !.result = result],
                   record, past)
        BY <1>3, <3>1, <3>2, <3>3, ToldIsOK
      <3>5. call' = [call EXCEPT !["webhook"] =
              [Idle EXCEPT !.at = "done", !.seen = seen, !.result = result]]
        BY <1>2, <2>1, <3>1 DEF verifyWebhook, Answered
      <3> QED
        BY <3>4, <3>5
    <2>2. CASE checked = "ok" /\ IsTerminal(event)
      <3>1. CallOK("webhook", Fetching(event), record, past)
        BY <1>1, <1>3, <2>2, FetchingIsOK DEF IsTerminal
      <3>2. call' = [call EXCEPT !["webhook"] = Fetching(event)]
        BY <1>2, <2>2 DEF verifyWebhook
      <3> QED
        BY <3>1, <3>2
    <2>3. CASE checked = "ok" /\ ~IsTerminal(event)
      <3>1. /\ Sound(event, {}) /\ Backed(event, {})
            /\ event.type \in ResultOf("webhook")
        BY <1>1, <1>2, <1>3, <2>3, NotTerminal, EventIs DEF ResultOf
      <3>2. CallOK("webhook",
                   [Idle EXCEPT !.at = "done", !.seen = seen, !.result = event],
                   record, past)
        BY <1>3, <3>1, ToldIsOK
      <3>3. call' = [call EXCEPT !["webhook"] =
              [Idle EXCEPT !.at = "done", !.seen = seen, !.result = event]]
        BY <1>2, <2>3 DEF verifyWebhook, Answered
      <3> QED
        BY <3>2, <3>3
    <2> QED
      BY <2>1, <2>2, <2>3
  <1>5. \A c \in {"webhook", "poll"} : CallOK(c, call'[c], record, past)
    BY <1>1, <1>4
  <1> QED
    BY <1>1, <1>4, <1>5, CallStepKeeps

\* A call that is under way takes a step.
LEMMA UnderWay ==
  ASSUME SessionInv, UNCHANGED <<vendor, record, past, moves, mail, issuer>>,
         NEW c \in {"webhook", "poll"}, call[c].at = "fetching", NEW k,
         call' = [call EXCEPT ![c] = k], CallOK(c, k, record, past)
  PROVE  SessionInv'
  <1>1. issuer.at # "new"
    BY NotNew
  <1>2. /\ DOMAIN call = {"webhook", "poll"}
        /\ \A d \in {"webhook", "poll"} : CallOK(d, call[d], record, past)
    BY DEF SessionInv, CallsInv
  <1>3. \A d \in {"webhook", "poll"} : CallOK(d, call'[d], record, past)
    BY <1>2
  <1> QED
    BY <1>1, <1>2, <1>3, CallStepKeeps

LEMMA FetchKeeps ==
  ASSUME SessionInv, NEW c \in {"webhook", "poll"},
         \/ \E part \in Request : RequestAnswered(c, part)
         \/ fetchDecision(c) \/ fetchDecisionFails(c)
  PROVE  SessionInv'
  <1>1. /\ UNCHANGED <<vendor, record, past, moves, mail, issuer>>
        /\ call[c].at = "fetching"
    BY DEF RequestAnswered, fetchDecision, fetchDecisionFails
  <1>2. PICK one : one = call[c]
    OBVIOUS
  <1>3. CallOK(c, one, record, past) /\ one.at = "fetching" /\ vendor \in Vendor
        /\ DOMAIN call = {"webhook", "poll"}
    BY <1>1, <1>2 DEF SessionInv, CallsInv
  <1>4. ASSUME NEW part \in Request, RequestAnswered(c, part)
        PROVE  SessionInv'
    <2>1. PICK k : k = [one EXCEPT !.parts = With(@, part, record)]
      OBVIOUS
    <2>2. call' = [call EXCEPT ![c] = k]
      BY <1>2, <1>4, <2>1 DEF RequestAnswered
    <2>3. CallOK(c, k, record, past)
      BY <1>3, <2>1, AnsweredIsOK
    <2> QED
      BY <1>1, <2>2, <2>3, UnderWay
  <1>5. ASSUME fetchDecision(c)
        PROVE  SessionInv'
    <2>1. PICK k :
            k = End(one, [type |-> "decision", decision |-> Decide(one.parts)], FALSE)
      OBVIOUS
    <2>2. call' = [call EXCEPT ![c] = k]
      BY <1>2, <1>5, <2>1 DEF fetchDecision, Returned, End
    <2>3. CallOK(c, k, record, past)
      BY <1>2, <1>3, <1>5, <2>1, FetchedIsOK DEF fetchDecision
    <2> QED
      BY <1>1, <2>2, <2>3, UnderWay
  <1>6. ASSUME fetchDecisionFails(c)
        PROVE  SessionInv'
    <2>1. PICK k :
            k = End(one, IF c = "webhook" THEN one.told ELSE [type |-> "thrown"],
                    TRUE)
      OBVIOUS
    <2>2. call' = [call EXCEPT ![c] = k]
      BY <1>2, <1>6, <2>1 DEF fetchDecisionFails, Returned, End
    <2>3. CallOK(c, k, record, past)
      BY <1>3, <2>1, FailedIsOK
    <2> QED
      BY <1>1, <2>2, <2>3, UnderWay
  <1> QED
    BY <1>4, <1>5, <1>6

-----------------------------------------------------------------------------
(* The vendor's steps.                                                     *)

LEMMA PostKeeps ==
  ASSUME MailInv, vendor \in Vendor, vendor' = vendor, past \subseteq past',
         NEW r, Found(r, past'), Post(r)
  PROVE  MailInv'
  <1>1. CASE UNCHANGED mail
    BY <1>1, MailKeeps
  <1>2. CASE Cardinality(mail) < MaxMail
    <2>1. CASE mail' # mail
      <3>1. PICK body \in Webhooks(r), pairs \in Signatures :
              mail' = mail \cup {[body |-> body, pairs |-> pairs]}
        BY <2>1 DEF Post
      <3>2. PICK one, more : /\ one = [body |-> body, pairs |-> pairs]
                             /\ more = past'
        OBVIOUS
      <3>3. mail' = mail \cup {one} /\ one.body = body
        BY <3>1, <3>2
      <3>4. Sound(Event(body), more) /\ Backed(Event(body), more)
        BY <3>2, TellIsSound
      <3>5. \A m \in mail :
              Sound(Event(m.body), more) /\ Backed(Event(m.body), more)
        BY <3>2, MoreFacts DEF MailInv
      <3>6. \A m \in mail' :
              Sound(Event(m.body), more) /\ Backed(Event(m.body), more)
        BY <3>3, <3>4, <3>5
      <3>7. \A m \in mail' :
              (Sound(Event(m.body), past) /\ Backed(Event(m.body), past))'
        BY <3>2, <3>6, SameAdapter
      <3>8. IsFiniteSet(mail') /\ Cardinality(mail') <= MaxMail
        <4>1. IsFiniteSet(mail)
          BY DEF MailInv
        <4>2. /\ IsFiniteSet(mail \cup {one})
              /\ Cardinality(mail \cup {one}) = Cardinality(mail)
                   \/ Cardinality(mail \cup {one}) = Cardinality(mail) + 1
          BY <4>1, FS_AddElement
        <4>3. Cardinality(mail) \in Nat /\ MaxMail \in Nat
          BY <4>1, FS_CardinalityType, BoundsAssumption
        <4> QED
          BY <1>2, <3>3, <4>2, <4>3
      <3> QED
        BY <3>7, <3>8 DEF MailInv
    <2> QED
      BY <2>1, MailKeeps
  <1> QED
    BY <1>1, <1>2 DEF Post

LEMMA VendorMovesKeeps ==
  ASSUME SessionInv, VendorMoves
  PROVE  SessionInv'
  <1>1. PICK r \in Moves :
          /\ record' = r
          /\ past' = past \cup Facts(r)
          /\ call' = [c \in DOMAIN call |->
               IF call[c].at = "fetching"
               THEN [call[c] EXCEPT !.seen = @ \cup Facts(r), !.steady = FALSE]
               ELSE call[c]]
          /\ Post(r)
    BY DEF VendorMoves
  <1>2. /\ UNCHANGED <<vendor, issuer>> /\ moves' = moves + 1
        /\ moves < MaxMoves /\ record # NoRecord
    BY DEF VendorMoves
  <1>3. /\ vendor \in Vendor /\ Found(record, past) /\ MailInv /\ CallsInv
        /\ IssuerInv
    BY <1>2 DEF SessionInv
  <1>4. RecordOK(r)
    BY <1>3, MovesAreRecords DEF Found
  <1>5. PICK more : more = past'
    OBVIOUS
  <1>6. past \subseteq more /\ Facts(r) \subseteq more /\ Found(r, more)
    BY <1>1, <1>4, <1>5 DEF Found
  <1>7. MailInv'
    BY <1>1, <1>2, <1>3, <1>5, <1>6, PostKeeps
  <1>8. CallsInv'
    <2>1. DOMAIN call' = {"webhook", "poll"}
      BY <1>1, <1>3 DEF CallsInv
    <2>2. ASSUME NEW c \in {"webhook", "poll"}
          PROVE  CallOK(c, call'[c], r, more)
      <3>1. PICK one : one = call[c]
        OBVIOUS
      <3>2. CallOK(c, one, record, past)
        BY <1>3, <3>1 DEF CallsInv
      <3>3. CASE one.at = "fetching"
        <4>1. CallOK(c, [one EXCEPT !.seen = @ \cup Facts(r), !.steady = FALSE],
                     r, more)
          BY <1>4, <1>6, <3>2, <3>3, MovedIsOK
        <4> QED
          BY <1>1, <1>3, <3>1, <3>3, <4>1 DEF CallsInv
      <3>4. CASE one.at # "fetching"
        <4>1. CallOK(c, one, r, more)
          BY <1>6, <3>2, <3>4, DoneStaysOK
        <4> QED
          BY <1>1, <1>3, <3>1, <3>4, <4>1 DEF CallsInv
      <3> QED
        BY <3>3, <3>4
    <2> QED
      BY <1>1, <1>2, <1>5, <2>1, <2>2, CallsKeep
  <1>9. Found(record, past)'
    BY <1>1, <1>2, <1>5, <1>6, SameAdapter
  <1>10. IssuerInv'
    BY <1>2, <1>3, <1>9 DEF IssuerInv
  <1>11. moves' \in 0 .. MaxMoves
    BY <1>2, BoundsAssumption DEF SessionInv
  <1> QED
    BY <1>2, <1>3, <1>7, <1>8, <1>9, <1>10, <1>11 DEF SessionInv

LEMMA WebhookAgesKeeps ==
  ASSUME SessionInv, WebhookAges
  PROVE  SessionInv'
  <1>1. PICK m \in mail :
          mail' = (mail \ {m}) \cup
            {[m EXCEPT !.pairs = {[pair EXCEPT !.fresh = FALSE] : pair \in @}]}
    BY DEF WebhookAges
  <1>2. UNCHANGED <<vendor, record, past, moves, call, issuer>>
    BY DEF WebhookAges
  <1>3. PICK aged :
          aged = [m EXCEPT !.pairs = {[pair EXCEPT !.fresh = FALSE] : pair \in @}]
    OBVIOUS
  <1>4. mail' = (mail \ {m}) \cup {aged} /\ aged.body = m.body
    BY <1>1, <1>3
  <1>5. /\ IsFiniteSet(mail) /\ Cardinality(mail) <= MaxMail
        /\ \A n \in mail : Sound(Event(n.body), past) /\ Backed(Event(n.body), past)
    BY DEF SessionInv, MailInv
  <1>6. \A n \in mail' : Sound(Event(n.body), past) /\ Backed(Event(n.body), past)
    BY <1>4, <1>5
  <1>7. \A n \in mail' :
          (Sound(Event(n.body), past) /\ Backed(Event(n.body), past))'
    BY <1>2, <1>6, SameAdapter
  <1>8. IsFiniteSet(mail') /\ Cardinality(mail') <= MaxMail
    <2>1. /\ IsFiniteSet(mail \ {m})
          /\ Cardinality(mail \ {m}) = Cardinality(mail) - 1
      BY <1>5, FS_RemoveElement
    <2>2. /\ IsFiniteSet((mail \ {m}) \cup {aged})
          /\ Cardinality((mail \ {m}) \cup {aged}) = Cardinality(mail \ {m})
               \/ Cardinality((mail \ {m}) \cup {aged})
                    = Cardinality(mail \ {m}) + 1
      BY <2>1, FS_AddElement
    <2>3. Cardinality(mail) \in Nat /\ MaxMail \in Nat
      BY <1>5, FS_CardinalityType, BoundsAssumption
    <2> QED
      BY <1>4, <1>5, <2>1, <2>2, <2>3
  <1>9. MailInv'
    BY <1>7, <1>8 DEF MailInv
  <1>10. issuer.at # "new" /\ Found(record, past)
    BY NotNew
  <1>11. CallsInv'
    BY <1>2, CallsKeep DEF SessionInv, CallsInv
  <1>12. Found(record, past)'
    BY <1>2, <1>10, SameAdapter
  <1>13. IssuerInv'
    BY <1>2, <1>10, <1>12 DEF SessionInv, IssuerInv
  <1> QED
    BY <1>2, <1>9, <1>11, <1>12, <1>13 DEF SessionInv

-----------------------------------------------------------------------------
(* The issuer's steps.                                                     *)

IssuerAt ==
  {"new", "linking", "polling", "awaiting", "failed", "capped", "minted", "exited"}

\* The issuer's own state after a step that leaves the session as it is.
LEMMA IssuerKeeps ==
  ASSUME SessionInv, UNCHANGED <<vendor, record, past, moves, mail>>,
         DOMAIN issuer' = {"at", "polls", "credential"},
         issuer'.at \in IssuerAt \ {"new"}, issuer'.polls \in 0 .. PollCap,
         issuer'.at \in {"linking", "polling", "awaiting"} => Found(record, past),
         DOMAIN call' = {"webhook", "poll"},
         \A c \in {"webhook", "poll"} : CallOK(c, call'[c], record, past)
  PROVE  SessionInv'
  <1>1. CallsInv'
    BY CallsKeep
  <1>2. MailInv'
    BY MailKeeps DEF SessionInv
  <1>3. Found(record, past)' = Found(record, past)
    BY SameAdapter
  <1>4. IssuerInv'
    BY <1>3 DEF IssuerInv, IssuerAt
  <1> QED
    BY <1>1, <1>2, <1>3, <1>4 DEF SessionInv

LEMMA CallsAre ==
  ASSUME SessionInv
  PROVE  /\ DOMAIN call = {"webhook", "poll"}
         /\ \A c \in {"webhook", "poll"} : CallOK(c, call[c], record, past)
  BY DEF SessionInv, CallsInv

LEMMA StartSessionKeeps ==
  ASSUME SessionInv, NEW workflow, startSession(workflow)
  PROVE  SessionInv'
  <1>1. /\ UNCHANGED <<vendor, moves, mail, call>> /\ issuer.at = "new"
        /\ vendor \in Vendor /\ mail = {} /\ moves' \in 0 .. MaxMoves
        /\ DOMAIN call = {"webhook", "poll"}
        /\ \A c \in {"webhook", "poll"} : call[c] = Idle
        /\ DOMAIN issuer = {"at", "polls", "credential"}
        /\ issuer.polls \in 0 .. PollCap
    BY DEF startSession, SessionInv, IssuerInv, CallsInv
  <1>2. CASE issuer' = [issuer EXCEPT !.at = "failed"] /\ UNCHANGED <<record, past>>
    <2>1. /\ issuer'.at = "failed" /\ issuer'.polls = issuer.polls
          /\ DOMAIN issuer' = {"at", "polls", "credential"}
      BY <1>1, <1>2
    <2> QED
      BY <1>1, <1>2, <2>1, CallsAre, IssuerKeeps DEF IssuerAt
  <1>3. CASE /\ record' = Created(Target(workflow))
             /\ past' = Facts(record')
             /\ \E at \in {By("linking", "polling", "polling"), "failed"} :
                  issuer' = [issuer EXCEPT !.at = at]
    <2>1. PICK r, facts : r = record' /\ facts = past'
      OBVIOUS
    <2>2. Found(r, facts)
      <3>1. PICK target : target = Target(workflow)
        OBVIOUS
      <3>2. r = Created(target)
        BY <1>3, <2>1, <3>1
      <3>3. RecordOK(r)
        BY <1>1, <3>2, CreatedIsRecord
      <3>4. facts = Facts(r)
        BY <1>1, <1>3, <2>1, SameAdapter
      <3> QED
        BY <3>3, <3>4 DEF Found
    <2>3. Found(record, past)'
      BY <1>1, <2>1, <2>2, SameAdapter
    <2>4. By("linking", "polling", "polling") \in {"linking", "polling"}
      BY <1>1, ByIs, OneOfThree
    <2>5. /\ issuer'.at \in {"linking", "polling", "failed"}
          /\ issuer'.polls = issuer.polls
          /\ DOMAIN issuer' = {"at", "polls", "credential"}
      BY <1>1, <1>3, <2>4
    <2>6. CallsInv'
      BY <1>1, IdleIsOK, CallsKeep
    <2>7. MailInv'
      BY <1>1 DEF SessionInv, MailInv
    <2>8. IssuerInv'
      BY <1>1, <2>3, <2>5 DEF IssuerInv
    <2> QED
      BY <1>1, <2>3, <2>6, <2>7, <2>8 DEF SessionInv
  <1> QED
    BY <1>2, <1>3 DEF startSession

LEMMA LinkAndPollKeep ==
  ASSUME SessionInv, websdkLink \/ Poll
  PROVE  SessionInv'
  <1>1. /\ UNCHANGED <<vendor, record, past, moves, mail>>
        /\ issuer.at \in {"linking", "polling"}
        /\ \E at \in {"polling", "failed", "awaiting"} :
             issuer' = [issuer EXCEPT !.at = at]
    BY DEF websdkLink, Poll
  <1>2. /\ Found(record, past) /\ issuer.polls \in 0 .. PollCap
        /\ DOMAIN issuer = {"at", "polls", "credential"}
    BY <1>1 DEF SessionInv, IssuerInv
  <1>3. /\ issuer'.at \in IssuerAt \ {"new"} /\ issuer'.polls = issuer.polls
        /\ DOMAIN issuer' = {"at", "polls", "credential"}
    BY <1>1, <1>2 DEF IssuerAt
  <1>4. /\ DOMAIN call' = {"webhook", "poll"}
        /\ \A c \in {"webhook", "poll"} : CallOK(c, call'[c], record, past)
    <2>1. CASE websdkLink
      BY <2>1, CallsAre DEF websdkLink
    <2>2. CASE Poll
      <3>1. call' = [call EXCEPT !["poll"] = Fetching(NoDecision)]
        BY <2>2 DEF Poll
      <3>2. CallOK("poll", Fetching(NoDecision), record, past)
        BY <1>2, FetchingIsOK
      <3> QED
        BY <3>1, <3>2, CallsAre
    <2> QED
      BY <2>1, <2>2
  <1> QED
    BY <1>1, <1>2, <1>3, <1>4, IssuerKeeps

\* Where an answer to the poll can leave the issuer.
LEMMA PollLeads ==
  ASSUME PollReturns
  PROVE  \/ \E at \in {"failed", "capped", "exited"} :
              issuer' = [issuer EXCEPT !.at = at]
         \/ issuer' = [issuer EXCEPT !.at = "polling",
                         !.polls = IF @ < PollCap THEN @ + 1 ELSE @]
         \/ \E credential :
              issuer' = [issuer EXCEPT !.at = "minted", !.credential = credential]
  BY Zenon DEF PollReturns

LEMMA PollReturnsKeeps ==
  ASSUME SessionInv, PollReturns
  PROVE  SessionInv'
  <1>1. /\ UNCHANGED <<vendor, record, past, moves, mail>>
        /\ issuer.at = "awaiting"
        /\ call' = [call EXCEPT !["poll"] = Idle]
    BY DEF PollReturns
  <1>2. /\ Found(record, past) /\ issuer.polls \in 0 .. PollCap
        /\ DOMAIN issuer = {"at", "polls", "credential"}
    BY <1>1 DEF SessionInv, IssuerInv
  <1>3. PICK polls : polls = IF issuer.polls < PollCap
                             THEN issuer.polls + 1 ELSE issuer.polls
    OBVIOUS
  <1>4. polls \in 0 .. PollCap
    BY <1>2, <1>3, BoundsAssumption
  <1>5. /\ issuer'.at \in IssuerAt \ {"new"}
        /\ issuer'.polls \in {polls, issuer.polls}
        /\ DOMAIN issuer' = {"at", "polls", "credential"}
    <2>1. CASE issuer' = [issuer EXCEPT !.at = "polling",
                            !.polls = IF @ < PollCap THEN @ + 1 ELSE @]
      <3>1. issuer' = [issuer EXCEPT !.at = "polling", !.polls = polls]
        BY <1>3, <2>1
      <3> QED
        BY <1>2, <3>1 DEF IssuerAt
    <2>2. CASE \E at \in {"failed", "capped", "exited"} :
                 issuer' = [issuer EXCEPT !.at = at]
      BY <1>2, <2>2 DEF IssuerAt
    <2>3. CASE \E credential :
                 issuer' = [issuer EXCEPT !.at = "minted", !.credential = credential]
      BY <1>2, <2>3 DEF IssuerAt
    <2> QED
      BY <2>1, <2>2, <2>3, PollLeads
  <1>6. /\ DOMAIN call' = {"webhook", "poll"}
        /\ \A c \in {"webhook", "poll"} : CallOK(c, call'[c], record, past)
    BY <1>1, CallsAre, IdleIsOK
  <1> QED
    BY <1>1, <1>2, <1>4, <1>5, <1>6, IssuerKeeps

-----------------------------------------------------------------------------
(* The behaviours.                                                         *)

LEMMA SessionInit == Init => SessionInv
  <1> SUFFICES ASSUME Init PROVE SessionInv
    OBVIOUS
  <1>1. IsFiniteSet(mail) /\ Cardinality(mail) = 0
    BY FS_EmptySet DEF Init
  <1>2. MailInv
    BY <1>1, BoundsAssumption DEF Init, MailInv
  <1>3. CallsInv
    BY IdleIsOK DEF Init, CallsInv
  <1>4. IssuerInv
    BY BoundsAssumption DEF Init, IssuerInv
  <1> QED
    BY <1>2, <1>3, <1>4, BoundsAssumption DEF Init, SessionInv

LEMMA SessionStep == SessionInv /\ [Next]_vars => SessionInv'
  <1> SUFFICES ASSUME SessionInv, [Next]_vars PROVE SessionInv'
    OBVIOUS
  <1>1. CASE UNCHANGED vars
    <2>1. UNCHANGED <<vendor, record, past, moves, mail, call, issuer>>
      BY <1>1 DEF vars
    <2>2. CallsInv' /\ MailInv'
      BY <2>1, CallsKeep, MailKeeps DEF SessionInv, CallsInv
    <2>3. Found(record, past)' = Found(record, past)
      BY <2>1, SameAdapter
    <2>4. IssuerInv'
      BY <2>1, <2>3 DEF SessionInv, IssuerInv
    <2> QED
      BY <2>1, <2>2, <2>3, <2>4 DEF SessionInv
  <1>2. CASE VendorMoves \/ WebhookAges
    BY <1>2, VendorMovesKeeps, WebhookAgesKeeps
  <1>3. CASE IssuerStep
    BY <1>3, StartSessionKeeps, LinkAndPollKeep, PollReturnsKeeps DEF IssuerStep
  <1>4. CASE PollStep
    BY <1>4, FetchKeeps DEF PollStep
  <1>5. CASE WebhookStep
    BY <1>5, FetchKeeps, VerifyWebhookKeeps DEF WebhookStep
  <1> QED
    BY <1>1, <1>2, <1>3, <1>4, <1>5 DEF Next

\* The records, webhooks and calls of every reachable state.
THEOREM SessionInvariance == Spec => []SessionInv
  <1> QED
    BY SessionInit, SessionStep, PTL DEF Spec

\* Every call, webhook and record has its type, for every vendor and bound: a
\* call comes out its own way (a webhook never throws what its fetch threw, a
\* poll never answers null), takes no answer but to a request it made, and rests
\* on what the vendor found.
THEOREM SessionTypes == Spec => []TypeOK
  <1>1. SessionInv => TypeOK
    <2> SUFFICES ASSUME SessionInv PROVE TypeOK
      OBVIOUS
    <2>1. ASSUME NEW c \in {"webhook", "poll"}
          PROVE  /\ call[c].at \in {"idle", "fetching", "done"}
                 /\ DOMAIN call[c].parts \subseteq Request
                 /\ call[c].seen \subseteq past
                 /\ call[c].result.type \in ResultOf(c)
                 /\ call[c].result.type = "decision" =>
                      call[c].result.decision.status \in DecisionStatus
      BY CallsAre DEF CallOK, Sound
    <2>2. record = NoRecord \/ Facts(record) \subseteq past
      BY DEF SessionInv, Found
    <2>3. /\ vendor \in Vendor /\ moves \in 0 .. MaxMoves
          /\ Cardinality(mail) <= MaxMail
          /\ issuer.at \in IssuerAt /\ issuer.polls \in 0 .. PollCap
      BY DEF SessionInv, MailInv, IssuerInv, IssuerAt
    <2> QED
      BY <2>1, <2>2, <2>3 DEF TypeOK, DecisionStatus, IssuerAt
  <1> QED
    BY <1>1, SessionInvariance, PTL

\* An approval or a decline that verifyWebhook or fetchDecision returns is a
\* verdict the vendor held during the call, or once gave when the fetch failed,
\* however late, repeated or out of order the webhook.
THEOREM VerdictsAreTheVendors == Spec => []VerdictsAreCurrent
  <1>1. SessionInv => VerdictsAreCurrent
    <2> SUFFICES ASSUME SessionInv, NEW c \in DOMAIN call, Decided(c),
                        IsVerdict(call[c].result.decision.status)
                 PROVE  call[c].result.decision.status \in Seen(c)
      BY DEF VerdictsAreCurrent
    <2>1. CallOK(c, call[c], record, past)
      BY CallsAre
    <2> QED
      BY <2>1 DEF CallOK, Sound, SeenBy, Seen, Decided
  <1> QED
    BY <1>1, SessionInvariance, PTL

\* A level is labelled only on what the vendor checked; a Sumsub fetch whose
\* answers straddle a change of the applicant is the exception.
THEOREM LevelsRestOnChecks == Spec => []LevelsAreBacked
  <1>1. SessionInv => LevelsAreBacked
    <2> SUFFICES ASSUME SessionInv, NEW c \in DOMAIN call, Decided(c),
                        vendor = "sumsub" => call[c].steady
                 PROVE  LET level == call[c].result.decision.level
                        IN /\ level = "enhanced" => "address" \in Seen(c)
                           /\ level = "basic" /\ vendor # "didit"
                                => "identity" \in Seen(c)
      BY DEF LevelsAreBacked
    <2>1. CallOK(c, call[c], record, past)
      BY CallsAre
    <2> QED
      BY <2>1 DEF CallOK, Backed, SeenBy, Seen, Decided
  <1> QED
    BY <1>1, SessionInvariance, PTL
=============================================================================
