------------------------------ MODULE EndToEnd ------------------------------
(***************************************************************************)
(* The end-to-end scripts (scripts/live-*-canton-e2e-v2.ts and             *)
(* live-firm-test.ts): a vendor decision becomes credentials on the ledger *)
(* of CredentialLedger, which are verified, given NFTs, revoked, archived  *)
(* and updated.  A script is one process that stops at its first error;    *)
(* the operator may then run one again, with fresh parties but perhaps     *)
(* about the same vendor session.                                          *)
(*                                                                         *)
(* Claims are cut down to whom they are about and one value that an update *)
(* changes.  The ledger is CredentialLedger with one scope for each run.   *)
(***************************************************************************)
EXTENDS CredentialLedger

CONSTANTS
  Script,     \* the scripts that may be run
  MaxRuns,    \* bound on the runs of a script, one after the other
  scopeOf,    \* the parties phase 5 allocates for each run
  bogusAdmin, \* an admin of no credential
  PollMax,    \* how often a decision is polled
  MaxClock    \* bound on the hours that pass

ASSUME RunsAssumption ==
  /\ Script \subseteq {"persona", "sumsub", "didit", "firm"}
  /\ MaxRuns \in Nat /\ PollMax \in Nat /\ MaxClock \in Nat
  /\ scopeOf \in [1..MaxRuns -> Scope]
  /\ bogusAdmin \notin {s.admin : s \in Scope}
  /\ 0..MaxClock \subseteq Expiry /\ MaxUpdates >= 1
  /\ ClaimMap = [subject : {"A", "B", "C", "D"}, humanScore : {95, 99}]
                  \cup {NoClaims}

\* The hint of a party carries the time of its allocation.
ASSUME FreshPartiesAssumption ==
  \A r, s \in 1..MaxRuns : r # s => scopeOf[r].issuer # scopeOf[s].issuer

VARIABLES
  clock,   \* hours
  vendor,  \* the sandbox session: completed by its user, then decided
  runs,    \* how many were started
  run      \* the run under way, or the last one

e2eVars == <<clock, vendor, runs, run>>
allVars == <<vars, e2eVars>>

\* What main() holds: the ids by name, and the window it mints with.
Fresh(script) ==
  [script |-> script, at |-> "start", polls |-> 0, pc |-> 1,
   now |-> 0, validUntil |-> 0,
   id |-> [name \in {"A", "B", "C", "D", "nftA", "nftB", "D2"} |-> NoContract],
   factory |-> NoContract, error |-> "none"]

Ended == run.at \in {"passed", "failed"}

E2EInit ==
  /\ Init
  /\ clock = 0
  /\ vendor = "completed"
  /\ runs = 0
  /\ run = [Fresh("none") EXCEPT !.at = "passed"]

Scp == scopeOf[runs]
Both == {Scp.issuer, Scp.holder}

At(place) == run.at = place
Goes(place) == run' = [run EXCEPT !.at = place]
Stops(reason) == run' = [run EXCEPT !.at = "failed", !.error = reason]

-----------------------------------------------------------------------------
(* The vendor's side.                                                      *)

\* Hours pass; the sandbox user finishes, and an approval takes effect.
Passes ==
  /\ clock < MaxClock
  /\ clock' = clock + 1
  /\ UNCHANGED <<vars, vendor, runs, run>>

Takes ==
  /\ vendor = "approving"
  /\ \E outcome \in {"approved", "declined", "expired"} : vendor' = outcome
  /\ UNCHANGED <<vars, clock, runs, run>>

-----------------------------------------------------------------------------
(* Phases 1 to 5.                                                          *)

main ==
  /\ Ended
  /\ runs < MaxRuns
  /\ runs' = runs + 1
  /\ \E script \in Script :
       /\ run' = [Fresh(script) EXCEPT
                    !.at = IF script = "firm" THEN "health" ELSE "source"]
       /\ vendor' \in (IF script = "persona" THEN {vendor} ELSE {"completed"})
  /\ UNCHANGED <<vars, clock>>

\* Phase 1 of Persona takes an inquiry a user completed; a fresh one cannot
\* be completed from here.
personaSource ==
  /\ At("source") /\ run.script = "persona"
  /\ Goes("approve") \/ Stops("needs a completed inquiry")
  /\ UNCHANGED <<vars, clock, vendor, runs>>

\* Phase 2 of Persona; 409 "already approved" is benign.
personaApprove ==
  /\ At("approve") /\ run.script = "persona"
  /\ \/ vendor = "completed" /\ vendor' = "approving" /\ Goes("decision")
     \/ vendor \in {"approving", "approved"} /\ UNCHANGED vendor /\ Goes("decision")
     \/ vendor \notin {"approving", "approved"} /\ UNCHANGED vendor
        /\ Stops("approve refused")
     \/ vendor' \in {vendor, IF vendor = "completed" THEN "approving" ELSE vendor}
        /\ Stops("no answer")
  /\ UNCHANGED <<vars, clock, runs>>

\* Phases 1 and 2 of Sumsub: an applicant and its testCompleted.
sumsubStart ==
  /\ At("source") /\ run.script = "sumsub"
  /\ Goes("approve") \/ Stops("no answer")
  /\ UNCHANGED <<vars, clock, vendor, runs>>

mockApproveSumsub ==
  /\ At("approve") /\ run.script = "sumsub"
  /\ \/ vendor' = "approving" /\ (Goes("decision") \/ Stops("no answer"))
     \/ UNCHANGED vendor /\ Stops("no answer")
  /\ UNCHANGED <<vars, clock, runs>>

\* Phases 1 and 2 of Didit: a person verifies and presses a key, which may
\* never come, or SKIP_WAIT_PROMPT is set.
diditStart ==
  /\ At("source") /\ run.script = "didit"
  /\ Goes("approve") \/ Stops("no answer")
  /\ UNCHANGED <<vars, clock, vendor, runs>>

waitForEnter ==
  /\ At("approve") /\ run.script = "didit"
  /\ vendor' \in {"completed", "approving"}
  /\ Goes("decision")
  /\ UNCHANGED <<vars, clock, runs>>

\* Mutant: the count starts over when it is used up.
attempt_Restarted ==
  run' = [run EXCEPT !.polls = IF @ >= PollMax THEN 0 ELSE @ + 1]

\* Asked again after three seconds.
attempt ==
  IF run.polls >= PollMax THEN Stops("transition timeout")
  ELSE run' = [run EXCEPT !.polls = @ + 1]

\* Phase 3; the decision is good for hours to come, or no longer.
fetchDecision ==
  /\ At("decision")
  /\ \/ vendor \in {"completed", "approving"} /\ attempt
     \/ vendor = "approved" /\ \E until \in 0..MaxClock :
          run' = [run EXCEPT !.at = "health", !.validUntil = until]
     \/ vendor \in {"declined", "expired"} /\ Stops("not approved")
     \/ Stops("no answer")
  /\ UNCHANGED <<vars, clock, vendor, runs>>

\* Phase 4.
health ==
  /\ At("health")
  /\ Goes("parties") \/ Stops("no answer")
  /\ UNCHANGED <<vars, clock, vendor, runs>>

\* Phase 5, the configuration and the window; the firm test counts a year
\* from now.  A network that CantonConfigSchema does not know stops here.
allocateParty ==
  /\ At("parties")
  /\ \/ run' = [run EXCEPT !.at = "ledger", !.now = clock,
                           !.validUntil = IF run.script = "firm" THEN MaxClock
                                          ELSE @]
     \/ Stops("no answer")
     \/ Stops("config invalid")
  /\ UNCHANGED <<vars, clock, vendor, runs>>

-----------------------------------------------------------------------------
(* Phases 6 to 16.                                                         *)

Does(what, name) == [do |-> what, name |-> name]

\* The steps of a script, in order.
Program ==
  IF run.script = "firm" THEN <<Does("mint", "A"), Does("verify", "A")>>
  ELSE <<Does("mint", "A"), Does("verify", "A"), Does("wrong admin", "A"),
         Does("nft", "A"), Does("burn", "A"), Does("burnt", "A"),
         Does("mint", "B"), Does("nft", "B"), Does("revoke", "B"),
         Does("revoked", "B"),
         Does("mint", "C"), Does("archive", "C"), Does("gone", "C"),
         Does("mint", "D"), Does("factory", "D"), Does("update", "D"),
         Does("gone", "D"), Does("refreshed", "D2")>>

Due(what) == At("ledger") /\ Program[run.pc].do = what
Name == Program[run.pc].name
Nft(name) == IF name = "A" THEN "nftA" ELSE "nftB"

Advanced ==
  [run EXCEPT !.pc = @ + 1,
              !.at = IF run.pc = Len(Program) THEN "passed" ELSE @]

\* Mutant: a submission whose answer was lost is made again.
Submits_Again(transaction, answered) ==
  /\ \/ transaction /\ run' = answered
     \/ transaction /\ UNCHANGED run
     \/ UNCHANGED vars /\ Stops("no answer")
  /\ UNCHANGED <<clock, vendor, runs>>

\* A submission: committed and answered, committed with the answer lost, or
\* not committed.  Only an answer keeps the script going.
Submits(transaction, answered) ==
  /\ \/ transaction /\ run' = answered
     \/ transaction /\ Stops("no answer")
     \/ UNCHANGED vars /\ Stops("no answer")
  /\ UNCHANGED <<clock, vendor, runs>>

\* An assertion of the script on what it read, if the read was answered.
Asserts(condition) ==
  /\ \/ condition /\ run' = Advanced
     \/ ~condition /\ Stops("assertion")
     \/ Stops("no answer")
  /\ UNCHANGED <<vars, clock, vendor, runs>>

Claims(subject, score) == [subject |-> subject, humanScore |-> score]

NewId == Len(ledger) + 1

mintCredential ==
  /\ Due("mint")
  /\ Submits(CreateCredential(Both, Scp, Claims(Name, 95), run.validUntil),
             [Advanced EXCEPT !.id[Name] = NewId])

\* isWithinValidityWindow, on the clock of the verifier.
isWithinValidityWindow(k) == run.now <= clock /\ clock <= k.expiresAt

\* Phase 7, and the verifier of the firm test: the bundle of the id, then
\* Credential_PublicFetch, then the policy on the view.
verifyDisclosure ==
  LET c == run.id[Name]
  IN /\ Due("verify")
     /\ Asserts(/\ c \in Active("Credential")
                /\ PublicFetchable(c, Scp.admin)
                /\ isWithinValidityWindow(ledger[c])
                /\ ledger[c].claims.subject = Name)

\* Phase 7b; any error is taken for the rejection, a lost answer too.
wrongAdmin ==
  /\ Due("wrong admin")
  /\ \/ run' = Advanced
     \/ PublicFetchable(run.id[Name], bogusAdmin) /\ Stops("assertion")
  /\ UNCHANGED <<vars, clock, vendor, runs>>

createKycNft ==
  /\ Due("nft")
  /\ Submits(CreateKycNft({Scp.issuer}, Scp.issuer, run.id[Name]),
             [Advanced EXCEPT !.id[Nft(Name)] = NewId])

burnNft ==
  /\ Due("burn")
  /\ Submits(BurnNft({Scp.issuer}, run.id[Nft(Name)]), Advanced)

HasNft(c) == \E n \in Active("KycNFT") : ledger[n].boundCredentialId = c

\* Phase 9: the burn took the NFT and left the credential.
burnt ==
  /\ Due("burnt")
  /\ Asserts(~HasNft(run.id[Name]) /\ run.id[Name] \in active)

\* Mutant: the NFT is not handed to the revoke.
revokeCredential_NoCascade ==
  /\ Due("revoke")
  /\ \E reason \in Text :
       Submits(RevokeCredential({Scp.issuer}, run.id[Name], NoContract, reason),
               Advanced)

revokeCredential ==
  /\ Due("revoke")
  /\ \E reason \in Text :
       Submits(RevokeCredential({Scp.issuer}, run.id[Name],
                                run.id[Nft(Name)], reason),
               Advanced)

\* Phase 12: the revoke took both.
revoked ==
  /\ Due("revoked")
  /\ Asserts(~HasNft(run.id[Name]) /\ run.id[Name] \notin active)

archiveAsHolder ==
  /\ Due("archive")
  /\ Submits(ArchiveAsHolder({Scp.holder}, run.id[Name]), Advanced)

\* Phases 14 and 16: the id is not active any more.
gone ==
  /\ Due("gone")
  /\ Asserts(run.id[Name] \notin active)

\* Phase 16, first leg of updateCredentials.
createFactory ==
  /\ Due("factory")
  /\ Submits(CreateFactory(Both, Scp), [Advanced EXCEPT !.factory = NewId])

\* Second leg, with a window of its own.
updateCredentials ==
  /\ Due("update")
  /\ Submits(FactoryUpdateCredentials(Both, run.factory,
               <<[credentialId |-> run.id[Name], newClaims |-> Claims(Name, 99),
                  newExpiresAt |-> MaxClock]>>),
             [Advanced EXCEPT !.id["D2"] = NewId])

refreshed ==
  LET c == run.id[Name]
  IN /\ Due("refreshed")
     /\ Asserts(/\ c \in Active("Credential")
                /\ PublicFetchable(c, Scp.admin)
                /\ ledger[c].claims.humanScore = 99)

ScriptStep ==
  \/ personaSource \/ personaApprove \/ sumsubStart \/ mockApproveSumsub
  \/ diditStart \/ waitForEnter \/ fetchDecision \/ health \/ allocateParty
  \/ mintCredential \/ verifyDisclosure \/ wrongAdmin
  \/ createKycNft \/ burnNft \/ burnt
  \/ revokeCredential \/ revoked \/ archiveAsHolder \/ gone
  \/ createFactory \/ updateCredentials \/ refreshed

E2ENext == Passes \/ Takes \/ main \/ ScriptStep

E2ESpec == E2EInit /\ [][E2ENext]_allVars

\* Every await of these phases is a call of an adapter or of the client, which
\* time their requests out, or a sleep.  The others are not: the keypress
\* that waitForEnter reads, and what a vendor's script fetches by itself, the
\* approval, the participant's version and its parties.
Timed == run.at \in {"source", "decision", "ledger"} \/ run.script = "firm"

\* A script goes on by itself where its awaits have timeouts.
E2ELive == E2ESpec /\ WF_allVars(Timed /\ ScriptStep)

-----------------------------------------------------------------------------
(* Properties.                                                             *)

\* The assertions of a script fail for one reason only: the decision it
\* minted from was not valid long enough for phase 7.  Whatever earlier runs
\* left on the ledger or at the vendor, none of the others ever fails.
AssertsHold ==
  run.error = "assertion" =>
    /\ Program[run.pc].do = "verify"
    /\ clock > run.validUntil

\* No NFT outlives the credential it is bound to, wherever a run stopped.
NoDanglingNft ==
  \A n \in Active("KycNFT") : ledger[n].boundCredentialId \in active

\* A factory is left behind only by a run that stopped between the legs of
\* its update, or without the answer to the first; a run that passed leaves
\* the credential it verified and the one it refreshed, the stamped sibling
\* of the one it revoked, and no NFT.
LeavesBehind ==
  /\ \A f \in Active("CredentialFactory") :
       \/ InScope(ledger[f], Scp) /\ Program[run.pc].do \in {"factory", "update"}
       \/ \E r \in 1..(runs - 1) : InScope(ledger[f], scopeOf[r])
  /\ At("passed") /\ run.script \notin {"none", "firm"} =>
       LET mine == {c \in active : ledger[c].issuer = Scp.issuer}
           stamped == {c \in mine : ledger[c].template = "Credential" /\ Revoked(c)}
       IN /\ mine \ stamped = {run.id["A"], run.id["D2"]}
          /\ \E c \in stamped : stamped = {c} /\ origin[c] = run.id["B"]

\* A script that is started ends, whatever the vendor decides or does not,
\* unless it stays for good in an await that nothing times out.
RunEnds == [](~Ended => <>(Ended \/ []~Timed))
=============================================================================
