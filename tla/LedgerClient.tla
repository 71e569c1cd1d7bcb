---------------------------- MODULE LedgerClient ----------------------------
(***************************************************************************)
(* Concurrent calls of the SDK operations of packages/core/src/ledger.ts   *)
(* and query.ts against the ledger of CredentialLedger.                    *)
(*                                                                         *)
(* An operation is a chain of HTTP calls with awaits between them, so the  *)
(* steps of different calls interleave.  A write is a command handed to    *)
(* the participant, which commits or rejects it at some later time; the    *)
(* caller may have given up by then (Submission says what one such call    *)
(* may answer, and CantonFetch implements it).  A read asks for the        *)
(* ledger end first and then for the contracts that were active there.     *)
(*                                                                         *)
(* Every call is made once: a retry is another call.                       *)
(***************************************************************************)
EXTENDS CredentialLedger

CONSTANTS
  Call,         \* the calls made
  Ops,          \* the operations each of them may be
  Participant,  \* the participants, as the sets of parties they host
  HashForm,     \* those whose config names the package by its hash
  NoExpiry,     \* Daml's None for expiresAt
  Omitted       \* an input field that is left undefined

ASSUME ParticipantAssumption ==
  Participant \subseteq SUBSET Party /\ HashForm \subseteq Participant

\* updateCredentials sends one update at a time.
ASSUME BulkAssumption == MaxUpdates >= 1

ASSUME ExpiryAssumption == NoExpiry \in Expiry /\ Omitted \notin Expiry

VARIABLES
  task,      \* for each call: its input, how far it is, its outcome, and
             \* (history) what was revoked and burnt before it was made
  sub,       \* for each call: the command it submitted last
  resolved   \* for each participant's config: disclosedTemplateIdCache

clientVars == <<task, sub, resolved>>
allVars == <<vars, clientVars>>

-----------------------------------------------------------------------------
(* Commands, and what the participant does with them.                      *)

NoCommand == [choice |-> "none"]

\* The commands buildXCommand makes for an input, and their actAs.
buildCreateCredentialCommand(in) ==
  [choice |-> "CreateCredential",
   actAs |-> {in.scope.issuer, in.scope.holder},
   scope |-> in.scope, claims |-> in.claims, expiresAt |-> in.expiresAt]

buildVerifyCredentialCommand(in) ==
  [choice |-> "Credential_PublicFetch", actAs |-> {in.actor},
   contractId |-> in.contractId, expectedAdmin |-> in.expectedAdmin,
   disclosed |-> in.disclosed]

buildRevokeCredentialCommand(in) ==
  [choice |-> "RevokeCredential", actAs |-> {in.issuer},
   contractId |-> in.contractId, nftCid |-> in.nftContractId,
   reason |-> in.reason]

buildUpdateCredentialsCommand(in) ==
  [choice |-> "CreateFactory",
   actAs |-> {in.scope.issuer, in.scope.holder}, scope |-> in.scope]

\* A newExpiresAt that is left out goes over the wire as null.
buildCredentialFactoryUpdateExerciseCommand(in, factory) ==
  [choice |-> "CredentialFactory_UpdateCredentials",
   actAs |-> {in.scope.issuer, in.scope.holder}, factory |-> factory,
   update |-> [credentialId |-> in.contractId, newClaims |-> in.newClaims,
               newExpiresAt |-> IF in.newExpiresAt = Omitted THEN NoExpiry
                                ELSE in.newExpiresAt]]

buildArchiveAsHolderCommand(in) ==
  [choice |-> "Credential_ArchiveAsHolder", actAs |-> {in.holder},
   contractId |-> in.contractId]

\* Mutant: commandIdOverride is ignored.
buildCreateKycNftCommand_FreshId(in) ==
  [choice |-> "CreateKycNft", actAs |-> {in.issuer}, issuer |-> in.issuer,
   boundCredentialId |-> in.boundCredentialId, seed |-> NoContract]

\* The command id is the caller's if it gives one (here: made from the
\* credential by deterministicCommandId), and fresh otherwise.
buildCreateKycNftCommand(in) ==
  [choice |-> "CreateKycNft", actAs |-> {in.issuer}, issuer |-> in.issuer,
   boundCredentialId |-> in.boundCredentialId,
   seed |-> IF in.deterministic THEN in.boundCredentialId ELSE NoContract]

buildBurnNftCommand(in) ==
  [choice |-> "BurnNft", actAs |-> {in.issuer},
   contractId |-> in.nftContractId]

firstCommand(in) ==
  CASE in.op = "createCredential" -> buildCreateCredentialCommand(in)
    [] in.op = "verifyCredential" -> buildVerifyCredentialCommand(in)
    [] in.op = "revokeCredential" -> buildRevokeCredentialCommand(in)
    [] in.op = "updateCredentials" -> buildUpdateCredentialsCommand(in)
    [] in.op = "archiveAsHolder" -> buildArchiveAsHolderCommand(in)
    [] in.op = "createKycNft" -> buildCreateKycNftCommand(in)
    [] in.op = "burnNft" -> buildBurnNftCommand(in)

\* A party reads a contract it is a stakeholder of, and anyone a contract
\* whose blob the submission discloses.
Visible(cmd) ==
  cmd.disclosed \/ Signatories(ledger[cmd.contractId]) \cap cmd.actAs # {}

\* The transaction of a command.
Transacts(cmd) ==
  \/ /\ cmd.choice = "CreateCredential"
     /\ CreateCredential(cmd.actAs, cmd.scope, cmd.claims, cmd.expiresAt)
  \/ /\ cmd.choice = "Credential_PublicFetch"
     /\ PublicFetchable(cmd.contractId, cmd.expectedAdmin)
     /\ Visible(cmd)
     /\ UNCHANGED vars
  \/ /\ cmd.choice = "RevokeCredential"
     /\ RevokeCredential(cmd.actAs, cmd.contractId, cmd.nftCid, cmd.reason)
  \/ /\ cmd.choice = "CreateFactory"
     /\ CreateFactory(cmd.actAs, cmd.scope)
  \/ /\ cmd.choice = "CredentialFactory_UpdateCredentials"
     /\ FactoryUpdateCredentials(cmd.actAs, cmd.factory, << cmd.update >>)
  \/ /\ cmd.choice = "Credential_ArchiveAsHolder"
     /\ ArchiveAsHolder(cmd.actAs, cmd.contractId)
  \/ /\ cmd.choice = "CreateKycNft"
     /\ CreateKycNft(cmd.actAs, cmd.issuer, cmd.boundCredentialId)
  \/ /\ cmd.choice = "BurnNft"
     /\ BurnNft(cmd.actAs, cmd.contractId)

\* Mutant: the filter without its template id.
AcsAt_AnyTemplate(at, template) ==
  {c \in active : Signatories(ledger[c]) \cap at # {}}

\* Mutant: archived contracts are listed too.
AcsAt_Created(at, template) ==
  {c \in Created(template) : Signatories(ledger[c]) \cap at # {}}

\* The active contracts of a template that a participant can list: the ones
\* with a signatory among its parties.  (An NFT's observer is left out.)
AcsAt(at, template) ==
  {c \in Active(template) : Signatories(ledger[c]) \cap at # {}}

-----------------------------------------------------------------------------
(* Inputs.                                                                 *)

Inputs ==
  LET credentialIds == Created("Credential")
      nftIds == Created("KycNFT")
      Claims == ClaimMap \ {NoClaims}
  IN UNION {
       [op : {"createCredential"}, at : Participant, scope : Scope,
        claims : Claims, expiresAt : Expiry],
       [op : {"verifyCredential"}, at : Participant, actor : Party,
        contractId : credentialIds, expectedAdmin : Party,
        disclosed : BOOLEAN],
       [op : {"revokeCredential"}, at : Participant, issuer : Party,
        contractId : credentialIds, nftContractId : nftIds \cup {NoContract},
        reason : Text \ {NoText}],
       [op : {"updateCredentials"}, at : Participant, scope : Scope,
        contractId : credentialIds, newClaims : Claims,
        newExpiresAt : Expiry \cup {Omitted}],
       [op : {"archiveAsHolder"}, at : Participant, holder : Party,
        contractId : credentialIds],
       [op : {"createKycNft"}, at : Participant, issuer : Party,
        boundCredentialId : credentialIds, deterministic : BOOLEAN],
       [op : {"burnNft"}, at : Participant, issuer : Party,
        nftContractId : nftIds],
       [op : {"findActiveCredentialByHolder"}, at : Participant,
        holder : Party],
       [op : {"findActiveCredentialByContractId",
              "findActiveKycNftByCredentialId"}, at : Participant,
        contractId : credentialIds] }

\* The operations that look up and write nothing.
Finders == {"findActiveCredentialByHolder", "findActiveCredentialByContractId",
            "findActiveKycNftByCredentialId"}

\* The party a call speaks for lives on the participant it talks to; a
\* participant refuses to act as anybody else.
Caller(in) ==
  CASE in.op \in {"createCredential", "updateCredentials"} ->
         {in.scope.issuer, in.scope.holder}
    [] in.op = "verifyCredential" -> {in.actor}
    [] in.op = "archiveAsHolder" -> {in.holder}
    [] in.op \in Finders -> {}
    [] OTHER -> {in.issuer}

-----------------------------------------------------------------------------
(* Calls.                                                                  *)

NoInput == [op |-> "none"]

Idle == [step |-> "idle", input |-> NoInput, snapshot |-> {},
         factory |-> NoContract, result |-> NoContract, error |-> "none",
         past |-> {}]

NoSubmission == [cmd |-> NoCommand, state |-> "none", created |-> NoContract]

ClientInit ==
  /\ Init
  /\ task = [c \in Call |-> Idle]
  /\ sub = [c \in Call |-> NoSubmission]
  /\ resolved = [at \in Participant |-> {}]

Submit(c, cmd) ==
  sub' = [sub EXCEPT ![c] = [cmd |-> cmd, state |-> "sent",
                             created |-> NoContract]]

\* Does the operation list active contracts before, or instead of, writing?
\* A template id in hash form needs no resolving, nor does a cached one.
Lists(in) ==
  \/ in.op \in Finders
  \/ /\ in.op = "verifyCredential"
     /\ in.disclosed
     /\ in.at \notin HashForm
     /\ in.contractId \notin resolved[in.at]

Reads(in) == in.op \in Finders \cup {"verifyCredential"}

\* The lineages that were revoked and the NFTs that were burnt.
Past ==
  {origin[d] : d \in {e \in Created("Credential") : Revoked(e)}}
    \cup (Created("KycNFT") \ active)

Start(c, in) ==
  /\ task[c].step = "idle"
  /\ in.op \in Ops[c]
  /\ Caller(in) \subseteq in.at
  /\ task' = [task EXCEPT
       ![c].step = IF Lists(in) THEN "ledgerEnd" ELSE "submitted",
       ![c].input = in,
       ![c].past = IF Reads(in) THEN Past ELSE {}]
  /\ IF Lists(in) THEN UNCHANGED sub ELSE Submit(c, firstCommand(in))
  /\ UNCHANGED <<vars, resolved>>

\* The template an operation filters the list by.
Wanted(in) ==
  IF in.op = "findActiveKycNftByCredentialId" THEN "KycNFT" ELSE "Credential"

\* getLedgerEnd; the list that is asked for next is the one at this offset.
LedgerEnd(c) ==
  /\ task[c].step = "ledgerEnd"
  /\ task' = [task EXCEPT ![c].step = "acs",
                          ![c].snapshot = AcsAt(task[c].input.at,
                                                Wanted(task[c].input))]
  /\ UNCHANGED <<vars, sub, resolved>>

Return(c, id) ==
  task' = [task EXCEPT ![c].step = "returned", ![c].result = id]

Fail(c, code) ==
  task' = [task EXCEPT ![c].step = "failed", ![c].error = code]

\* The listed contracts that are what the call asked for.
Matches(c) ==
  LET in == task[c].input
  IN {d \in task[c].snapshot :
        CASE in.op = "findActiveCredentialByHolder" ->
               ledger[d].holder = in.holder
          [] in.op = "findActiveKycNftByCredentialId" ->
               ledger[d].boundCredentialId = in.contractId
          [] OTHER -> d = in.contractId}

\* A holder with two credentials is an error.
findActiveCredentialByHolder(c) ==
  /\ task[c].step = "acs"
  /\ task[c].input.op = "findActiveCredentialByHolder"
  /\ \/ Matches(c) = {} /\ Return(c, NoContract)
     \/ \E d \in Matches(c) : Matches(c) = {d} /\ Return(c, d)
     \/ \E d, e \in Matches(c) : d # e /\ Fail(c, "ledger_error")
  /\ UNCHANGED <<vars, sub, resolved>>

\* The first match, whichever it is.
FindsFirst(c, op) ==
  /\ task[c].step = "acs"
  /\ task[c].input.op = op
  /\ \/ Matches(c) = {} /\ Return(c, NoContract)
     \/ \E d \in Matches(c) : Return(c, d)
  /\ UNCHANGED <<vars, sub, resolved>>

findActiveCredentialByContractId(c) ==
  FindsFirst(c, "findActiveCredentialByContractId")

findActiveKycNftByCredentialId(c) ==
  FindsFirst(c, "findActiveKycNftByCredentialId")

resolveDisclosedTemplateId(c) ==
  LET in == task[c].input
  IN /\ task[c].step = "acs"
     /\ in.op = "verifyCredential"
     /\ IF in.contractId \in task[c].snapshot
        THEN /\ task' = [task EXCEPT ![c].step = "submitted"]
             /\ Submit(c, firstCommand(in))
             /\ resolved' = [resolved EXCEPT ![in.at] = @ \cup {in.contractId}]
        ELSE Fail(c, "package_id_unresolved") /\ UNCHANGED <<sub, resolved>>
     /\ UNCHANGED vars

\* The participant has committed another command with this command id.
Duplicate(c) ==
  /\ sub[c].cmd.choice = "CreateKycNft"
  /\ sub[c].cmd.seed # NoContract
  /\ \E d \in Call \ {c} :
       /\ sub[d].state = "committed"
       /\ sub[d].cmd.choice = "CreateKycNft"
       /\ sub[d].cmd.seed = sub[c].cmd.seed
       /\ sub[d].cmd.actAs = sub[c].cmd.actAs

CommandCommits(c) ==
  /\ sub[c].state = "sent"
  /\ ~Duplicate(c)
  /\ Transacts(sub[c].cmd)
  /\ sub' = [sub EXCEPT ![c].state = "committed",
                        ![c].created = IF Len(ledger') > Len(ledger)
                                       THEN Len(ledger) + 1
                                       ELSE NoContract]
  /\ UNCHANGED <<task, resolved>>

\* A command can be rejected for reasons of the ledger (an archived
\* contract, an assertion) and of the participant (credentials, contention).
CommandRejected(c) ==
  /\ sub[c].state = "sent"
  /\ sub' = [sub EXCEPT ![c].state = IF Duplicate(c) THEN "duplicate"
                                     ELSE "rejected"]
  /\ UNCHANGED <<vars, task, resolved>>

\* The transaction of a call's last command arrives.  Operations that create
\* return the id in its first CreatedEvent, the others the id they were given.
Finish(c, op, id) ==
  /\ task[c].step = "submitted"
  /\ task[c].input.op = op
  /\ sub[c].state = "committed"
  /\ Return(c, id)
  /\ UNCHANGED <<vars, sub, resolved>>

createCredential(c) == Finish(c, "createCredential", sub[c].created)

verifyCredential(c) ==
  Finish(c, "verifyCredential", task[c].input.contractId)

revokeCredential(c) ==
  Finish(c, "revokeCredential", task[c].input.contractId)

\* Mutant: the first leg is taken for the whole operation.
updateCredentials_OneLeg(c) ==
  Finish(c, "updateCredentials", sub[c].created)

\* Two legs: once the factory is there, its choice is exercised.
updateCredentials(c) ==
  \/ /\ sub[c].cmd.choice = "CredentialFactory_UpdateCredentials"
     /\ Finish(c, "updateCredentials", sub[c].created)
  \/ /\ task[c].step = "submitted"
     /\ task[c].input.op = "updateCredentials"
     /\ sub[c].cmd.choice = "CreateFactory"
     /\ sub[c].state = "committed"
     /\ task' = [task EXCEPT ![c].factory = sub[c].created]
     /\ Submit(c, buildCredentialFactoryUpdateExerciseCommand(
                    task[c].input, sub[c].created))
     /\ UNCHANGED <<vars, resolved>>

archiveAsHolder(c) ==
  Finish(c, "archiveAsHolder", task[c].input.contractId)

createKycNft(c) == Finish(c, "createKycNft", sub[c].created)

burnNft(c) == Finish(c, "burnNft", task[c].input.nftContractId)

TransactionArrives(c) ==
  \/ createCredential(c)
  \/ verifyCredential(c)
  \/ revokeCredential(c)
  \/ updateCredentials(c)
  \/ archiveAsHolder(c)
  \/ createKycNft(c)
  \/ burnNft(c)

RejectionArrives(c) ==
  /\ task[c].step = "submitted"
  /\ \/ sub[c].state = "rejected" /\ Fail(c, "submit_failed")
     \/ sub[c].state = "duplicate" /\ Fail(c, "command_already_submitted")
  /\ UNCHANGED <<vars, sub, resolved>>

\* A timeout, a broken connection, a 5xx or an unusable response, at any
\* await; a command that is on its way stays on its way.
OutcomeLost(c) ==
  /\ task[c].step \in {"ledgerEnd", "acs", "submitted"}
  /\ Fail(c, "outcome_unknown")
  /\ UNCHANGED <<vars, sub, resolved>>

Step(c) ==
  \/ \E in \in Inputs : Start(c, in)
  \/ LedgerEnd(c)
  \/ findActiveCredentialByHolder(c)
  \/ findActiveCredentialByContractId(c)
  \/ findActiveKycNftByCredentialId(c)
  \/ resolveDisclosedTemplateId(c)
  \/ CommandCommits(c)
  \/ CommandRejected(c)
  \/ TransactionArrives(c)
  \/ RejectionArrives(c)
  \/ OutcomeLost(c)

ClientNext == \E c \in Call : Step(c)

ClientSpec == ClientInit /\ [][ClientNext]_allVars

-----------------------------------------------------------------------------
(* Properties.                                                             *)

\* Types of the client's variables: ids that point into the ledger, and lists
\* and cache entries that are about credentials.
ClientTypeOK ==
  /\ TypeOK
  /\ \A c \in Call :
       /\ task[c].step \in {"idle", "ledgerEnd", "acs", "submitted",
                            "returned", "failed"}
       /\ task[c].snapshot \subseteq
            (IF task[c].input = NoInput THEN {}
             ELSE Created(Wanted(task[c].input)))
       /\ {task[c].result, task[c].factory, sub[c].created}
            \subseteq 0..Len(ledger)
       /\ sub[c].state \in {"none", "sent", "committed", "rejected",
                            "duplicate"}
  /\ \A at \in Participant : resolved[at] \subseteq Created("Credential")

Returned(c, op) == task[c].step = "returned" /\ task[c].input.op = op

\* The call returned the id of a contract it created.
Creates(c) ==
  \E op \in {"createCredential", "updateCredentials", "createKycNft"} :
    Returned(c, op)

\* The contract id an operation returns is the one of the contract it was
\* called for: its own mint, the sibling its update made of the given
\* credential, the NFT bound to it; never that of a factory, of another
\* call, or of an archived payload.
ResultsAreOurs ==
  \A c \in Call :
    LET in == task[c].input
        id == task[c].result
    IN /\ Returned(c, "createCredential") =>
            /\ origin[id] = id
            /\ InScope(ledger[id], in.scope)
            /\ ledger[id].claims = in.claims
       /\ Returned(c, "updateCredentials") =>
            /\ id \in Lineage(in.contractId) /\ id > in.contractId
            /\ ledger[id].claims = in.newClaims
            /\ Revoked(in.contractId) => Revoked(id)
       /\ Returned(c, "createKycNft") =>
            /\ ledger[id].template = "KycNFT"
            /\ ledger[id].boundCredentialId = in.boundCredentialId
       /\ \A d \in Call \ {c} :
            Creates(c) /\ Creates(d) => task[c].result # task[d].result

\* What a verifier or a finder is handed never looks better than it is: if
\* the credential's lineage was revoked before the call was made, the
\* contract it answers with says so, however the call interleaves with
\* updates and whatever was cached or disclosed; and a verified credential
\* is the expected admin's.
AnswersAreCurrent ==
  \A c \in Call :
    LET in == task[c].input
        id == task[c].result
    IN /\ Returned(c, "verifyCredential")
            => ledger[id].admin = in.expectedAdmin
       /\ \/ Returned(c, "verifyCredential")
          \/ /\ \/ Returned(c, "findActiveCredentialByHolder")
                \/ Returned(c, "findActiveCredentialByContractId")
             /\ id # NoContract
          => (origin[id] \in task[c].past => Revoked(id))

\* An NFT that is looked up by its credential is bound to that credential, and
\* was not burnt, on its own or by a revoke, before the call was made.
NftLookupsAreCurrent ==
  \A c \in Call :
    LET id == task[c].result
    IN Returned(c, "findActiveKycNftByCredentialId") /\ id # NoContract
         => /\ id \in Created("KycNFT") \ task[c].past
            /\ ledger[id].boundCredentialId = task[c].input.contractId

\* An active factory belongs to one updateCredentials call, and that call
\* has not returned: it is under way or it failed.  A successful update
\* leaves no factory behind, for its second leg is a consuming choice; that
\* the caller archives the factory afterwards or keeps it for the next
\* refresh, as commands.ts, Credential.daml and Factory.daml have it, is
\* not so.
FactoriesAreAccountedFor ==
  \A f \in Active("CredentialFactory") :
    \E c \in Call :
      /\ task[c].input.op = "updateCredentials"
      /\ task[c].step # "returned"
      /\ f \in {task[c].factory, sub[c].created}

\* However often createKycNft is repeated for a credential with the
\* deterministic command id, by one issuer, one NFT is minted; and a repeat
\* is only told that it is one when that NFT is on the ledger.
NftIsMintedOnce ==
  LET Mint(c) == task[c].input.op = "createKycNft"
                   /\ task[c].input.deterministic
                   /\ sub[c].state = "committed"
      Same(c, d) == task[c].input.issuer = task[d].input.issuer
                      /\ task[c].input.boundCredentialId
                           = task[d].input.boundCredentialId
  IN \A c \in Call :
       /\ \A d \in Call : Mint(c) /\ Mint(d) /\ Same(c, d) => c = d
       /\ task[c].error = "command_already_submitted"
            => \E d \in Call : Mint(d) /\ Same(c, d)

-----------------------------------------------------------------------------
(* What docs and comments say, and the runs refute.                        *)

\* types.ts, on newExpiresAt: "omit to leave the existing value untouched".
OmittedExpiryIsKept ==
  \A c \in Call :
    Returned(c, "updateCredentials") /\ task[c].input.newExpiresAt = Omitted
      => ledger[task[c].result].expiresAt
           = ledger[task[c].input.contractId].expiresAt

\* types.ts, on disclosedBlobBase64: it "is attached when the verifier's
\* participant does not have the contract in its local ACS": a verify with
\* the blob of a credential that is still active gets past the resolver.
BlobSuffices ==
  \A c \in Call :
    task[c].error = "package_id_unresolved"
      => task[c].input.contractId \notin active
=============================================================================
