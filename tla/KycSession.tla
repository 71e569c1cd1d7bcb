----------------------------- MODULE KycSession -----------------------------
(***************************************************************************)
(* One KYC session at a vendor, the webhooks about it, and the issuer that *)
(* started it: packages/kyc-provider with its three vendor adapters, and   *)
(* the poll loop of examples/issuer-demo.                                  *)
(*                                                                         *)
(* The vendor changes the session whenever it likes and posts webhooks     *)
(* that may be lost, repeated, late or badly signed.  A verifyWebhook that *)
(* is told of an approval or a decline fetches the decision before it      *)
(* answers; the two requests of a Sumsub fetch are answered one by one.    *)
(***************************************************************************)
EXTENDS Naturals, FiniteSets

CONSTANTS
  Vendor,           \* the adapters that may be wired
  Workflow,         \* the workflows that may be asked for
  addressWorkflow,  \* how the address workflow is configured, or "unset"
  MaxMoves,         \* bound on the vendor's changes of the session
  MaxMail,          \* bound on the webhooks posted
  PollCap           \* MAX_POLL_MS, in polls

ASSUME BoundsAssumption ==
  /\ Vendor \subseteq {"sumsub", "persona", "didit"}
  /\ Workflow \subseteq {"identity", "address", "combined"}
  /\ addressWorkflow \in {"address", "unset"}
  /\ MaxMoves \in Nat /\ MaxMail \in Nat /\ PollCap \in Nat

VARIABLES
  vendor,   \* which adapter
  record,   \* the vendor's record of the session
  past,     \* history: what the vendor found at any time
  moves,    \* history: how often it changed
  mail,     \* the webhooks posted
  call,     \* the calls of verifyWebhook and fetchDecision under way
  issuer    \* the issuer's main(): where it is, how long it polled

vars == <<vendor, record, past, moves, mail, call, issuer>>

S == INSTANCE SumsubAdapter WITH addressLevelName <- addressWorkflow
P == INSTANCE PersonaAdapter WITH addressTemplateId <- addressWorkflow
D == INSTANCE DiditAdapter WITH addressWorkflowId <- addressWorkflow

NoRecord == [none |-> TRUE]
NoDecision == [type |-> "none"]

\* The adapter that is wired, and the vendor behind it.
By(sumsub, persona, didit) ==
  CASE vendor = "sumsub" -> sumsub
    [] vendor = "persona" -> persona
    [] vendor = "didit" -> didit

Target(workflow) ==
  By(S!levelFor(workflow), P!templateFor(workflow), D!workflowFor(workflow))

Created(target) == By(S!Created(target), P!Created(target), D!Created(target))
Moves == By(S!Moves(record), P!Moves(record), D!Moves(record))
Webhooks(r) == By(S!Webhooks(r), P!Webhooks(r), D!Webhooks(r))

Verdict(r) == By(S!Verdict(r), P!Verdict(r), D!Verdict(r))
SawIdentity(r) == By(S!SawIdentity(r), P!SawIdentity(r), D!SawIdentity(r))
SawAddress(r) == By(S!SawAddress(r), P!SawAddress(r), D!SawAddress(r))

Checked(pairs) ==
  By(S!verifyWebhookDigest(pairs), P!verifySignatureHeader(pairs),
     D!verifySignature(pairs))

Event(body) ==
  By(S!mapWebhookBody(body), P!mapWebhookEvent(body), D!mapWebhookBody(body))

\* The requests one fetchDecision makes.
Request == By({"status", "lookup"}, {"status"}, {"status"})

Decide(parts) ==
  By(S!mapDecision(parts["status"], parts["lookup"]),
     P!mapDecision(parts["status"]), D!mapDecision(parts["status"]))

\* What the vendor found, as a set.
Facts(r) ==
  {Verdict(r)} \cup (IF SawIdentity(r) THEN {"identity"} ELSE {})
               \cup (IF SawAddress(r) THEN {"address"} ELSE {})

\* A call: where it is, what the webhook told, the answers so far; the facts
\* that held during it, and whether the record moved under it (history).
Idle ==
  [at |-> "idle", told |-> NoDecision, parts |-> << >>, seen |-> {},
   steady |-> TRUE, fellBack |-> FALSE, result |-> NoDecision]

Init ==
  /\ vendor \in Vendor
  /\ record = NoRecord
  /\ past = {}
  /\ moves = 0
  /\ mail = {}
  /\ call = [c \in {"webhook", "poll"} |-> Idle]
  /\ issuer = [at |-> "new", polls |-> 0, credential |-> NoDecision]

-----------------------------------------------------------------------------
(* The vendor (external).                                                  *)

\* How a webhook may be signed; Persona signs twice while a key rotates.
Good == [ok |-> TRUE, fresh |-> TRUE]
Bad == [ok |-> FALSE, fresh |-> TRUE]
Signatures == {{Good}, {Bad}, {}} \cup By({}, {{Good, Bad}}, {})

Post(r) ==
  \/ UNCHANGED mail
  \/ /\ Cardinality(mail) < MaxMail
     /\ \E body \in Webhooks(r), pairs \in Signatures :
          mail' = mail \cup {[body |-> body, pairs |-> pairs]}

VendorMoves ==
  /\ record # NoRecord
  /\ moves < MaxMoves
  /\ moves' = moves + 1
  /\ \E r \in Moves :
       /\ record' = r
       /\ past' = past \cup Facts(r)
       /\ call' = [c \in DOMAIN call |->
            IF call[c].at = "fetching"
            THEN [call[c] EXCEPT !.seen = @ \cup Facts(r), !.steady = FALSE]
            ELSE call[c]]
       /\ Post(r)
  /\ UNCHANGED <<vendor, issuer>>

\* The drift window of a webhook passes before it is delivered (again).
WebhookAges ==
  /\ \E m \in mail :
       /\ \E pair \in m.pairs : pair.fresh
       /\ mail' = (mail \ {m}) \cup
            {[m EXCEPT !.pairs = {[pair EXCEPT !.fresh = FALSE] : pair \in @}]}
  /\ UNCHANGED <<vendor, record, past, moves, call, issuer>>

-----------------------------------------------------------------------------
(* The adapter.                                                            *)

Fetching(told) ==
  [Idle EXCEPT !.at = "fetching", !.told = told, !.seen = Facts(record)]

Returned(c, result, fellBack) ==
  call' = [call EXCEPT ![c] =
    [@ EXCEPT !.at = "done", !.told = NoDecision, !.parts = << >>,
              !.result = result, !.fellBack = fellBack]]

\* Mutant: only an approval is looked up.
IsTerminal_Approvals(event) ==
  event.type = "decision" /\ event.decision.status = "approved"

IsTerminal(event) ==
  event.type = "decision" /\ event.decision.status \in {"approved", "declined"}

\* A webhook that is answered without a fetch: its body is all it goes by.
Answered(result) ==
  call' = [call EXCEPT !["webhook"] =
    [Idle EXCEPT !.at = "done", !.seen = Facts(record), !.result = result]]

\* A webhook is delivered, for the first time or again.  The signature is
\* checked first: a bad one is thrown, and what is signed but not recognised
\* is answered with null.
verifyWebhook(m) ==
  LET event == Event(m.body)
  IN /\ call["webhook"].at # "fetching"
     /\ IF Checked(m.pairs) # "ok"
        THEN Answered([type |-> Checked(m.pairs)])
        ELSE IF IsTerminal(event)
        THEN call' = [call EXCEPT !["webhook"] = Fetching(event)]
        ELSE Answered(event)
     /\ UNCHANGED <<vendor, record, past, moves, mail, issuer>>

\* The answers so far and the record one more was taken from.
With(parts, part, r) ==
  [p \in DOMAIN parts \cup {part} |-> IF p = part THEN r ELSE parts[p]]

\* The vendor answers one request of a fetchDecision.
RequestAnswered(c, part) ==
  /\ call[c].at = "fetching"
  /\ part \in Request \ DOMAIN call[c].parts
  /\ call' = [call EXCEPT ![c].parts = With(@, part, record)]
  /\ UNCHANGED <<vendor, record, past, moves, mail, issuer>>

fetchDecision(c) ==
  /\ call[c].at = "fetching"
  /\ DOMAIN call[c].parts = Request
  /\ Returned(c, [type |-> "decision", decision |-> Decide(call[c].parts)], FALSE)
  /\ UNCHANGED <<vendor, record, past, moves, mail, issuer>>

\* A request is refused, times out or is answered with something else: a
\* webhook falls back to what its body said, a poll throws.
fetchDecisionFails(c) ==
  /\ call[c].at = "fetching"
  /\ Returned(c, IF c = "webhook" THEN call[c].told ELSE [type |-> "thrown"], TRUE)
  /\ UNCHANGED <<vendor, record, past, moves, mail, issuer>>

-----------------------------------------------------------------------------
(* The issuer.                                                             *)

\* The vendor creates the session; a request that fails may have reached it.
startSession(workflow) ==
  /\ issuer.at = "new"
  /\ \/ /\ Target(workflow) # "unset"
        /\ record' = Created(Target(workflow))
        /\ past' = Facts(record')
        /\ \E at \in {By("linking", "polling", "polling"), "failed"} :
             issuer' = [issuer EXCEPT !.at = at]
     \/ /\ issuer' = [issuer EXCEPT !.at = "failed"]
        /\ UNCHANGED <<record, past>>
  /\ UNCHANGED <<vendor, moves, mail, call>>

\* Sumsub's second request, for the link: the applicant stays if it fails.
websdkLink ==
  /\ issuer.at = "linking"
  /\ \E at \in {"polling", "failed"} : issuer' = [issuer EXCEPT !.at = at]
  /\ UNCHANGED <<vendor, record, past, moves, mail, call>>

Poll ==
  /\ issuer.at = "polling"
  /\ issuer' = [issuer EXCEPT !.at = "awaiting"]
  /\ call' = [call EXCEPT !["poll"] = Fetching(NoDecision)]
  /\ UNCHANGED <<vendor, record, past, moves, mail>>

\* What main() makes of a decision: the level defaults to basic.
Minted(decision) ==
  [type |-> "credential",
   level |-> IF decision.level = "none" THEN "basic" ELSE decision.level,
   identity |-> decision.identity,
   address |-> decision.address]

\* Mutant: the loop has no cap.
KeepsPolling_NoCap(polls) == TRUE

KeepsPolling(polls) == polls < PollCap

PollReturns ==
  LET result == call["poll"].result
      status == result.decision.status
  IN /\ issuer.at = "awaiting"
     /\ call["poll"].at = "done"
     /\ issuer' =
          CASE result.type = "thrown" -> [issuer EXCEPT !.at = "failed"]
            [] result.type # "thrown" /\ status \in {"pending", "in_review"} ->
                 IF KeepsPolling(issuer.polls)
                 THEN [issuer EXCEPT !.at = "polling",
                         !.polls = IF @ < PollCap THEN @ + 1 ELSE @]
                 ELSE [issuer EXCEPT !.at = "capped"]
            [] result.type # "thrown" /\ status = "approved" ->
                 [issuer EXCEPT !.at = "minted",
                                !.credential = Minted(result.decision)]
            [] OTHER -> [issuer EXCEPT !.at = "exited"]
     /\ call' = [call EXCEPT !["poll"] = Idle]
     /\ UNCHANGED <<vendor, record, past, moves, mail>>

IssuerStep ==
  \/ \E workflow \in Workflow : startSession(workflow)
  \/ websdkLink \/ Poll \/ PollReturns

\* A request is answered or timed out; the timeout covers the body as well.
PollStep ==
  \/ \E part \in Request : RequestAnswered("poll", part)
  \/ fetchDecision("poll") \/ fetchDecisionFails("poll")

WebhookStep ==
  \/ \E m \in mail : verifyWebhook(m)
  \/ \E part \in Request : RequestAnswered("webhook", part)
  \/ fetchDecision("webhook") \/ fetchDecisionFails("webhook")

Next == VendorMoves \/ WebhookAges \/ IssuerStep \/ PollStep \/ WebhookStep

Spec == Init /\ [][Next]_vars

\* The issuer's own steps happen, and each of its requests ends.
LiveSpec == Spec /\ WF_vars(IssuerStep) /\ WF_vars(PollStep)

-----------------------------------------------------------------------------
(* Properties.                                                             *)

\* How a call may come out.  Only a poll throws what its fetch threw; only a
\* webhook throws a bad signature, or answers null or with an expiry.
ResultOf(c) ==
  {"none", "decision"} \cup
    IF c = "poll" THEN {"thrown"}
    ELSE {"session.expired", "null", "invalid_signature",
          "missing_signature_header", "stale_signature"}

\* Every call, webhook and record has its type: a call is answered in its own
\* way, takes no answer but to a request it made, and rests on what the vendor
\* has found (the adapters' verifyWebhook and fetchDecision, main()'s poll).
TypeOK ==
  /\ vendor \in Vendor
  /\ record = NoRecord \/ Facts(record) \subseteq past
  /\ moves \in 0 .. MaxMoves
  /\ Cardinality(mail) <= MaxMail
  /\ \A c \in {"webhook", "poll"} :
       /\ call[c].at \in {"idle", "fetching", "done"}
       /\ DOMAIN call[c].parts \subseteq Request
       /\ call[c].seen \subseteq past
       /\ call[c].result.type \in ResultOf(c)
       /\ call[c].result.type = "decision" =>
            call[c].result.decision.status \in
              {"approved", "declined", "in_review", "pending", "expired"}
  /\ issuer.at \in {"new", "linking", "polling", "awaiting", "failed", "capped",
                    "minted", "exited"}
  /\ issuer.polls \in 0 .. PollCap

IsVerdict(status) == status \in {"approved", "declined"}

Decided(c) == call[c].at = "done" /\ call[c].result.type = "decision"

\* What the vendor found during a call, or ever, when the fetch of a webhook
\* failed and its body is all there is.
Seen(c) == IF call[c].fellBack THEN past ELSE call[c].seen

\* However late, repeated or out of order the webhook, the approval or decline
\* that verifyWebhook or fetchDecision returns is the verdict the vendor held
\* at some moment of the call; after a failed fetch, one it once gave (the
\* adapters' verifyWebhook and fetchDecision).
VerdictsAreCurrent ==
  \A c \in DOMAIN call :
    Decided(c) /\ IsVerdict(call[c].result.decision.status)
    => call[c].result.decision.status \in Seen(c)

\* A level is labelled only on what the vendor checked: enhanced on a proof of
\* address it saw, basic (Sumsub, Persona) on an identity it saw.  A Sumsub
\* fetch whose two answers straddle a change of the applicant is the exception.
LevelsAreBacked ==
  \A c \in DOMAIN call :
    LET level == call[c].result.decision.level
    IN Decided(c) /\ (vendor = "sumsub" => call[c].steady) =>
         /\ level = "enhanced" => "address" \in Seen(c)
         /\ level = "basic" /\ vendor # "didit" => "identity" \in Seen(c)

\* The issuer ends: with a credential, a clean exit or an error.
IssuerEnds == <>(issuer.at \in {"failed", "capped", "minted", "exited"})
=============================================================================
