---------------------------- MODULE VerifierDemo ----------------------------
(***************************************************************************)
(* examples/verifier-demo: a page of three panels over one in-memory       *)
(* Canton.  A panel's handler is an async function: it keeps what it was   *)
(* clicked with, and between two of its awaits the user edits the fields   *)
(* and the vendor, and the other panels' handlers run.  The page reaches   *)
(* the real vendors through vendor-server.                                 *)
(*                                                                         *)
(* Contracts are numbered in the order they are made; the issuer party of  *)
(* a credential, which is its admin, and its blob go by its number, 0      *)
(* being the empty string.                                                 *)
(***************************************************************************)
EXTENDS Naturals, Sequences

CONSTANTS
  Configured,  \* the vendors whose credentials vendor-server was given
  UserRef,     \* what may be typed as userRef besides the empty string
  MaxClicks,   \* bound on the clicks that mint
  PollCap      \* MAX_POLL_MS, in polls

ASSUME DemoAssumption ==
  /\ Configured \subseteq {"didit", "sumsub", "persona"}
  /\ "" \notin UserRef
  /\ MaxClicks \in Nat /\ PollCap \in Nat

VARIABLES
  vendor,       \* App: the vendor picked
  userRef,      \* IssuePanel: the field
  lastMinted,   \* App: the pair the last issue handed over
  fields,       \* VerifyPanel: contractId and blob
  typed,        \* history: the fields typed since they were last filled
  issue,        \* IssuePanel's run()
  verify,       \* VerifyPanel's run()
  cascade,      \* NftCascadePanel's mint() or revoke(), and what it shows
  credentials,  \* MockCantonClient: #credentials
  nfts,         \* MockCantonClient: #nfts
  clicks        \* how many clicks have minted or may yet

form == <<vendor, userRef>>
verifyVars == <<lastMinted, fields, typed, verify>>
store == <<credentials, nfts>>
vars == <<form, verifyVars, issue, cascade, store, clicks>>

Vendor == {"mock", "didit", "sumsub", "persona"}
NoPair == [contractId |-> 0, blob |-> 0]
NoView == [none |-> TRUE]

-----------------------------------------------------------------------------
(* MockCantonClient.                                                       *)

Contract == 1 .. Len(credentials)

\* Writes one more credential; its input is what a bundle shows as payload.
createCredential(holder, ref, validator) ==
  credentials' = Append(credentials,
    [input |-> [adminParty |-> Len(credentials) + 1, holder |-> holder,
                userRef |-> ref, validator |-> validator],
     nftContractId |-> 0, revoked |-> FALSE])

synthView(c) ==
  [admin |-> credentials[c].input.adminParty,
   userRef |-> credentials[c].input.userRef,
   validator |-> credentials[c].input.validator,
   status |-> IF credentials[c].revoked THEN "Revoked" ELSE "Active"]

\* The view, or an error; the blob is not looked at.
verifyCredential(c, expectedAdmin) ==
  IF c \in Contract /\ synthView(c).admin = expectedAdmin
  THEN synthView(c) ELSE NoView

createKycNft(bound) ==
  /\ nfts' = Append(nfts, [bound |-> bound, archived |-> FALSE])
  /\ credentials' = [credentials EXCEPT ![bound].nftContractId = Len(nfts) + 1]

\* Mutant: the credential alone.
revokeCredential_NoCascade(c) ==
  /\ credentials' = [credentials EXCEPT ![c].revoked = TRUE]
  /\ UNCHANGED nfts

revokeCredential(c) ==
  /\ credentials' = [credentials EXCEPT ![c].revoked = TRUE]
  /\ nfts' = [n \in DOMAIN nfts |->
       IF n = credentials[c].nftContractId
       THEN [nfts[n] EXCEPT !.archived = TRUE] ELSE nfts[n]]

\* What a payload says under a key; nothing reads as the empty string.
Lookup(c, key) ==
  IF c \in Contract /\ key \in DOMAIN credentials[c].input
  THEN credentials[c].input[key] ELSE 0

\* Both arguments are checked before the participant is asked.
verifyDisclosure(pair, expectedAdmin) ==
  IF pair.blob # 0 /\ pair.contractId # 0
  THEN verifyCredential(pair.contractId, expectedAdmin) ELSE NoView

-----------------------------------------------------------------------------
(* The page.                                                               *)

IdleRun == [at |-> "idle", vendor |-> "mock", userRef |-> "", polls |-> 0,
            approved |-> FALSE, minted |-> 0]

IdleCascade ==
  [at |-> "idle", state |-> NoView, contractId |-> 0, nftId |-> 0]

Init ==
  /\ vendor \in Vendor
  /\ userRef \in UserRef
  /\ lastMinted = NoPair
  /\ fields = NoPair
  /\ typed = {}
  /\ issue = IdleRun
  /\ verify = [at |-> "idle", pair |-> NoPair, expectedAdmin |-> 0, view |-> NoView]
  /\ cascade = IdleCascade
  /\ credentials = << >>
  /\ nfts = << >>
  /\ clicks = 0

\* Mutant: each field is filled when it alone is empty.
autoFill_EachField(shown, minted) ==
  [f \in DOMAIN shown |-> IF shown[f] = 0 THEN minted[f] ELSE shown[f]]

\* What VerifyPanel's inputs hold after a render.
autoFill(shown, minted) ==
  IF minted # NoPair /\ (shown.contractId = 0 \/ shown.blob = 0)
  THEN minted ELSE shown

Rendered(shown, minted, edited) ==
  /\ fields' = autoFill(shown, minted)
  /\ typed' = IF fields' = shown THEN edited ELSE {}

\* The user picks a vendor, edits the userRef, types into or clears an input.
App ==
  /\ vendor' \in Vendor \ {vendor}
  /\ UNCHANGED <<userRef, verifyVars, issue, cascade, store, clicks>>

setUserRef ==
  /\ userRef' \in (UserRef \cup {""}) \ {userRef}
  /\ UNCHANGED <<vendor, verifyVars, issue, cascade, store, clicks>>

setField ==
  /\ \E f \in {"contractId", "blob"}, value \in {0} \cup Contract :
       /\ fields[f] # value
       /\ Rendered([fields EXCEPT ![f] = value], lastMinted, typed \cup {f})
  /\ UNCHANGED <<form, lastMinted, verify, issue, cascade, store, clicks>>

-----------------------------------------------------------------------------
(* IssuePanel's run, the providers and vendor-server.                      *)

Issues(run) == issue' = run
IssueUnchanged == UNCHANGED <<form, verifyVars, cascade, store, clicks>>

ClickIssue ==
  /\ issue.at = "idle" /\ clicks < MaxClicks
  /\ clicks' = clicks + 1
  /\ Issues([IdleRun EXCEPT !.at = "starting", !.vendor = vendor,
                            !.userRef = userRef])
  /\ UNCHANGED <<form, verifyVars, cascade, store>>

\* Whether vendor-server can serve a vendor, its adapter being built anew for
\* every request.
buildAdapter(v) == v \in Configured

handleStartSession(run) == run.userRef # "" /\ buildAdapter(run.vendor)

\* What the server answers: the adapter's result, or a 400 in its place.
fetchDecisionAnswers(run) ==
  {"failed"} \cup
  IF buildAdapter(run.vendor)
  THEN {"approved", "declined", "in_review", "pending", "expired"} ELSE {}

startSession ==
  /\ issue.at = "starting"
  /\ \/ /\ IF issue.vendor = "mock" THEN issue.userRef # ""
           ELSE handleStartSession(issue)
        /\ Issues([issue EXCEPT !.at = "polling"])
     \/ /\ issue.vendor # "mock" \/ issue.userRef = ""
        /\ Issues(IdleRun)
  /\ IssueUnchanged

\* Mutant: a review that goes on is not capped.
KeepsPolling_NoCap(run) == TRUE

KeepsPolling(run) == run.polls < PollCap

pollUntilTerminal ==
  /\ issue.at = "polling" /\ issue.vendor # "mock"
  /\ \E answer \in fetchDecisionAnswers(issue) :
       Issues(CASE answer = "approved" ->
                     [issue EXCEPT !.at = "minting", !.approved = TRUE]
                [] answer \in {"in_review", "pending"} /\ KeepsPolling(issue) ->
                     [issue EXCEPT !.at = "sleeping",
                                   !.polls = IF @ < PollCap THEN @ + 1 ELSE @]
                [] OTHER -> IdleRun)
  /\ IssueUnchanged

sleep ==
  /\ issue.at = "sleeping"
  /\ Issues([issue EXCEPT !.at = "polling"])
  /\ IssueUnchanged

\* The simulated vendor approves at once.
mockDecision ==
  /\ issue.at = "polling" /\ issue.vendor = "mock"
  /\ Issues([issue EXCEPT !.at = "minting", !.approved = TRUE])
  /\ IssueUnchanged

\* Mutant: the vendor picked by now.
validator_Picked(run) == vendor

\* The validator claim, from the vendor the handler was rendered with.
validator(run) == run.vendor

Mint ==
  /\ issue.at = "minting"
  /\ createCredential("issue", issue.userRef, validator(issue))
  /\ Issues([issue EXCEPT !.at = "minted", !.minted = Len(credentials) + 1])
  /\ UNCHANGED <<form, verifyVars, cascade, nfts, clicks>>

\* The handler goes on: the pair is shown and handed to the App.
onMinted ==
  /\ issue.at = "minted"
  /\ lastMinted' = [contractId |-> issue.minted, blob |-> issue.minted]
  /\ Rendered(fields, lastMinted', typed)
  /\ Issues(IdleRun)
  /\ UNCHANGED <<form, verify, cascade, store, clicks>>

IssueRun ==
  \/ startSession \/ pollUntilTerminal \/ sleep \/ mockDecision
  \/ Mint \/ onMinted

-----------------------------------------------------------------------------
(* VerifyPanel's run.                                                      *)

VerifyUnchanged ==
  UNCHANGED <<form, lastMinted, fields, typed, issue, cascade, store, clicks>>

ClickVerify ==
  /\ verify.at = "idle"
  /\ fields.contractId # 0 /\ fields.blob # 0
  /\ verify' = [at |-> "looking", pair |-> fields, expectedAdmin |-> 0,
                view |-> NoView]
  /\ VerifyUnchanged

\* The admin is read from the bundle of the contract.
fetchDisclosureBundleByContractId ==
  /\ verify.at = "looking"
  /\ verify' = [verify EXCEPT !.at = "verifying",
                  !.expectedAdmin = Lookup(verify.pair.contractId, "admin")]
  /\ VerifyUnchanged

setView ==
  /\ verify.at = "verifying"
  /\ verify' = [verify EXCEPT !.at = "idle",
                  !.view = verifyDisclosure(verify.pair, verify.expectedAdmin)]
  /\ VerifyUnchanged

VerifyRun == fetchDisclosureBundleByContractId \/ setView

-----------------------------------------------------------------------------
(* NftCascadePanel's mint and revoke.                                      *)

CascadeUnchanged == UNCHANGED <<form, verifyVars, issue, clicks>>

ClickMint ==
  /\ cascade.at = "idle" /\ clicks < MaxClicks
  /\ clicks' = clicks + 1
  /\ cascade' = [IdleCascade EXCEPT !.at = "minting"]
  /\ UNCHANGED <<form, verifyVars, issue, store>>

mintCredential ==
  /\ cascade.at = "minting"
  /\ createCredential("nft", "nft", "mock")
  /\ cascade' = [cascade EXCEPT !.at = "binding",
                                !.contractId = Len(credentials) + 1]
  /\ UNCHANGED nfts /\ CascadeUnchanged

mintNft ==
  /\ cascade.at = "binding"
  /\ createKycNft(cascade.contractId)
  /\ cascade' = [cascade EXCEPT !.at = "reading", !.nftId = Len(nfts) + 1]
  /\ CascadeUnchanged

\* An error leaves nothing shown.
viewBefore ==
  LET c == cascade.contractId
      view == verifyDisclosure([contractId |-> c, blob |-> c], c)
  IN /\ cascade.at = "reading"
     /\ cascade' = [IdleCascade EXCEPT
          !.state = IF view = NoView THEN NoView
                    ELSE [credentialId |-> c, nftId |-> cascade.nftId,
                          viewBefore |-> view, viewAfter |-> NoView]]
     /\ UNCHANGED store /\ CascadeUnchanged

ClickRevoke ==
  /\ cascade.at = "idle" /\ cascade.state # NoView
  /\ cascade.state.viewAfter = NoView
  /\ cascade' = [cascade EXCEPT !.at = "revoking"]
  /\ UNCHANGED store /\ CascadeUnchanged

revoke ==
  /\ cascade.at = "revoking"
  /\ revokeCredential(cascade.state.credentialId)
  /\ cascade' = [cascade EXCEPT !.at = "rereading"]
  /\ CascadeUnchanged

viewAfter ==
  LET c == cascade.state.credentialId
  IN /\ cascade.at = "rereading"
     /\ cascade' = [cascade EXCEPT !.at = "idle",
          !.state.viewAfter =
             verifyDisclosure([contractId |-> c, blob |-> c],
                              cascade.state.viewBefore.admin)]
     /\ UNCHANGED store /\ CascadeUnchanged

CascadeRun == mintCredential \/ mintNft \/ viewBefore \/ revoke \/ viewAfter

-----------------------------------------------------------------------------
User ==
  \/ App \/ setUserRef \/ setField
  \/ ClickIssue \/ ClickVerify \/ ClickMint \/ ClickRevoke

Next == User \/ IssueRun \/ VerifyRun \/ CascadeRun

\* Promises settle: vendor-server, on the same machine, answers or refuses.
Spec ==
  /\ Init /\ [][Next]_vars
  /\ WF_vars(IssueRun) /\ WF_vars(VerifyRun) /\ WF_vars(CascadeRun)

-----------------------------------------------------------------------------
(* Properties.                                                             *)

\* A claim of IssuePanel is that of the session its handler started.
OfTheSession(input) ==
  input.holder = "issue" =>
    /\ issue.approved
    /\ input.validator = issue.vendor /\ input.userRef = issue.userRef
    /\ input.userRef # ""
    /\ input.validator \in Configured \cup {"mock"}

NewIsOfTheSession ==
  \A c \in DOMAIN credentials' \ DOMAIN credentials :
    OfTheSession(credentials'[c].input)

\* However long the vendor takes and whatever is picked and typed meanwhile,
\* a credential names the vendor and the user its session was started with,
\* is minted after an approval only, and hence by a vendor the server is
\* configured for (IssuePanel's run).
ClaimsAreOfTheSession == [][NewIsOfTheSession]_vars

\* Inputs nobody typed into hold the id and the blob of one credential, also
\* when the user clears one of them after a later mint (VerifyPanel's render).
FilledAsAPair == typed = {} => fields.contractId = fields.blob

\* What NftCascadePanel shows as before and after is one credential, active
\* and then revoked, and its NFT is gone by the time the second view is shown.
CascadeIsShownAsItIs ==
  cascade.state # NoView =>
    LET shown == cascade.state
    IN /\ shown.viewBefore.status = "Active"
       /\ nfts[shown.nftId].bound = shown.credentialId
       /\ shown.viewAfter # NoView =>
            /\ shown.viewAfter = [shown.viewBefore EXCEPT !.status = "Revoked"]
            /\ nfts[shown.nftId].archived

\* Every button comes back: a handler that was started ends.
ButtonsComeBack ==
  /\ issue.at # "idle" ~> issue.at = "idle"
  /\ verify.at # "idle" ~> verify.at = "idle"
  /\ cascade.at # "idle" ~> cascade.at = "idle"

\* What VerifyPanel says of its lookup: "Look up the credential to derive the
\* admin (the issuer in the mock's custodian setup)".
AdminIsDerived ==
  verify.at = "verifying" /\ verify.pair.contractId \in Contract
  => verify.expectedAdmin = credentials[verify.pair.contractId].input.adminParty
=============================================================================
